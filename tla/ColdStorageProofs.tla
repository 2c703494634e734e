------------------------- MODULE ColdStorageProofs -------------------------
(***************************************************************************)
(* What a node's disk holds, for any tables, keys and old WALs, and any    *)
(* number of writes, kills and failing file operations.                    *)
(***************************************************************************)
EXTENDS ColdStorage, FoldProofs

-----------------------------------------------------------------------------
(* What load_all_tables makes of a directory.                              *)

LEMMA EmptyType == Empty \in Records
  BY DEF Empty, Records

LEMMA ParseType ==
    ASSUME NEW line \in Line
    PROVE  Parse(line) \in WalEntry
<1>1. line.key \in Key /\ line.value \in Nat
  BY DEF Line
<1>2. ReadAs[line.key] \in Key
  BY <1>1, StorageAssumption
<1>3. QED
  BY <1>1, <1>2 DEF Parse, WalEntry

LEMMA Concatenated ==
    ASSUME NEW S, NEW a \in Seq(S), NEW b \in Seq(S)
    PROVE  /\ a \o b \in Seq(S)
           /\ Len(a \o b) = Len(a) + Len(b)
           /\ \A i \in 1 .. Len(a) : (a \o b)[i] = a[i]
           /\ \A i \in Len(a) + 1 .. Len(a) + Len(b) :
                 (a \o b)[i] = b[i - Len(a)]
  OBVIOUS

\* The entries of a directory are its parsed lines, then its WAL.
LEMMA EntriesOf ==
    ASSUME NEW f \in File
    PROVE  /\ f.lines \in Seq(Line)
           /\ f.wal \in Seq(WalEntry)
           /\ Len(f.lines) \in Nat
           /\ Len(f.wal) \in Nat
           /\ Entries(f) \in Seq(WalEntry)
           /\ Len(Entries(f)) = Len(f.lines) + Len(f.wal)
           /\ \A i \in 1 .. Len(f.lines) : Entries(f)[i] = Parse(f.lines[i])
           /\ \A i \in Len(f.lines) + 1 .. Len(f.lines) + Len(f.wal) :
                 Entries(f)[i] = f.wal[i - Len(f.lines)]
<1>. DEFINE g == [i \in DOMAIN f.lines |-> Parse(f.lines[i])]
<1>1. f.lines \in Seq(Line) /\ f.wal \in Seq(WalEntry)
  BY DEF File
<1>2. DOMAIN f.lines = 1 .. Len(f.lines) /\ Len(f.lines) \in Nat
  BY <1>1
<1>3. Len(f.wal) \in Nat
  BY <1>1
<1>4. \A i \in DOMAIN f.lines : Parse(f.lines[i]) \in WalEntry
  BY <1>1, <1>2, ParseType
<1>5. g \in Seq(WalEntry) /\ Len(g) = Len(f.lines)
  BY <1>2, <1>4
<1>6. \A i \in 1 .. Len(f.lines) : g[i] = Parse(f.lines[i])
  BY <1>2
<1>. HIDE DEF g
<1>7. Entries(f) = g \o f.wal
  BY DEF Entries, g
<1>8. /\ g \o f.wal \in Seq(WalEntry)
      /\ Len(g \o f.wal) = Len(g) + Len(f.wal)
      /\ \A i \in 1 .. Len(g) : (g \o f.wal)[i] = g[i]
      /\ \A i \in Len(g) + 1 .. Len(g) + Len(f.wal) :
            (g \o f.wal)[i] = f.wal[i - Len(g)]
  BY <1>1, <1>5, Concatenated
<1>9. QED
  BY <1>1, <1>2, <1>3, <1>5, <1>6, <1>7, <1>8

LEMMA ReplayType ==
    ASSUME NEW r \in Records, NEW e \in WalEntry
    PROVE  Replay(r, e) \in Records
<1>1. e.key \in Key /\ e.value \in Nat /\ e.op \in {"put", "delete", "other"}
  BY DEF WalEntry
<1>2. [r EXCEPT ![e.key] = e.value] \in Records
  BY <1>1 DEF Records
<1>3. [r EXCEPT ![e.key] = 0] \in Records
  BY <1>1 DEF Records
<1>4. QED
  BY <1>1, <1>2, <1>3 DEF Replay

\* Entries are replayed one at a time, from first to last.
LEMMA ReplayByEntries ==
    ASSUME NEW base \in Records, NEW wal \in Seq(WalEntry)
    PROVE  \E f \in [0 .. Len(wal) -> Records] :
               /\ f[0] = base
               /\ \A i \in 1 .. Len(wal) : f[i] = Replay(f[i - 1], wal[i])
               /\ FoldLeft(Replay, base, wal) = f[Len(wal)]
<1>. DEFINE ap == [p \in Records \X WalEntry |-> Replay(p[1], p[2])]
            D == SUBSET (1 .. Len(wal))
            Folds(it) == it = [x \in SUBSET DOMAIN wal |->
                                  IF x = {} THEN base
                                  ELSE Replay(it[x \ {Max(x)}], wal[Max(x)])]
<1>1. ap \in [Records \X WalEntry -> Records]
  BY ReplayType
<1>2. DOMAIN wal = 1 .. Len(wal) /\ Len(wal) \in Nat
  OBVIOUS
<1>3. ASSUME NEW r \in Records, NEW e \in WalEntry
      PROVE  ap[<<r, e>>] = Replay(r, e)
  OBVIOUS
<1>. HIDE DEF ap
<1>4. PICK it \in [D -> Records] : FoldsSets(ap, base, wal, Len(wal), it)
  BY <1>1, FoldExists
<1>5. ASSUME NEW x \in D, x # {}
      PROVE  /\ x \ {Max(x)} \in D
             /\ wal[Max(x)] \in WalEntry
  <2>1. Max(x) \in x
    BY <1>2, <1>5, MaxOfIndices
  <2>2. Max(x) \in 1 .. Len(wal)
    BY <2>1
  <2>3. wal[Max(x)] \in WalEntry
    BY <1>2, <2>2
  <2>4. QED
    BY <2>3
<1>6. Folds(it)
  <2>1. ASSUME NEW x \in D
        PROVE  it[x] = IF x = {} THEN base
                       ELSE Replay(it[x \ {Max(x)}], wal[Max(x)])
    <3>1. it[x] = IF x = {} THEN base
                  ELSE ap[<<it[x \ {Max(x)}], wal[Max(x)]>>]
      BY <1>4 DEF FoldsSets
    <3>2. CASE x = {}
      BY <3>1, <3>2
    <3>3. CASE x # {}
      BY <1>3, <1>4, <1>5, <3>1, <3>3
    <3>4. QED
      BY <3>2, <3>3
  <2>2. QED
    BY <1>2, <1>4, <2>1
<1>7. FoldLeft(Replay, base, wal) = (CHOOSE g : Folds(g))[DOMAIN wal]
  BY Zenon DEF FoldLeft, MapThenFoldSet
<1>8. Folds(CHOOSE g : Folds(g))
  <2>. HIDE DEF Folds
  <2>. QED
    BY <1>6, Zenon
<1>9. PICK g : Folds(g) /\ FoldLeft(Replay, base, wal) = g[DOMAIN wal]
  BY <1>7, <1>8, Zenon
<1>. DEFINE f == [i \in 0 .. Len(wal) |-> g[1 .. i]]
<1>10. f[0] = base
  <2>1. g[{}] = base
    BY <1>2, <1>9, PrefixIndices
  <2>2. QED
    BY <1>2, <2>1, PrefixIndices
<1>11. ASSUME NEW i \in 1 .. Len(wal)
       PROVE  f[i] = Replay(f[i - 1], wal[i])
  <2>1. /\ 1 .. i \in SUBSET DOMAIN wal
        /\ 1 .. i # {}
        /\ Max(1 .. i) = i
        /\ (1 .. i) \ {Max(1 .. i)} = 1 .. i - 1
    BY <1>2, PrefixIndices
  <2>2. g[1 .. i] = Replay(g[1 .. i - 1], wal[i])
    BY <1>9, <2>1
  <2>3. f[i] = g[1 .. i] /\ f[i - 1] = g[1 .. i - 1]
    OBVIOUS
  <2>4. QED
    BY <2>2, <2>3
<1>12. FoldLeft(Replay, base, wal) = f[Len(wal)]
  BY <1>2, <1>9
<1>13. f \in [0 .. Len(wal) -> Records]
  <2>. DEFINE T == {i \in 0 .. Len(wal) : f[i] \in Records}
  <2>. HIDE DEF f
  <2>1. 0 \in T
    BY <1>2, <1>10
  <2>2. ASSUME NEW i \in 1 .. Len(wal), i - 1 \in T
        PROVE  i \in T
    BY <1>11, <2>2, ReplayType
  <2>3. \A i \in 0 .. Len(wal) : i \in T
    <3>. HIDE DEF T
    <3>. QED
      BY <1>2, <2>1, <2>2, InductionUpTo
  <2>4. QED
    BY <2>3 DEF f
<1>14. QED
  <2>. HIDE DEF f
  <2>. QED
    BY <1>10, <1>11, <1>12, <1>13

\* Entry e inserts or removes the record of key k.
Decides(e, k) == e.op # "other" /\ e.key = k

\* The record that it leaves there.
Says(e) == IF e.op = "put" THEN e.value ELSE 0

LEMMA ReplayAt ==
    ASSUME NEW r \in Records, NEW e \in WalEntry, NEW k \in Key
    PROVE  Replay(r, e)[k] = IF Decides(e, k) THEN Says(e) ELSE r[k]
<1>1. e.key \in Key /\ e.op \in {"put", "delete", "other"}
  BY DEF WalEntry
<1>2. CASE e.op = "put"
  BY <1>1, <1>2 DEF Replay, Decides, Says, Records
<1>3. CASE e.op = "delete"
  BY <1>1, <1>3 DEF Replay, Decides, Says, Records
<1>4. CASE e.op = "other"
  BY <1>1, <1>4 DEF Replay, Decides, Says, Records
<1>5. QED
  BY <1>1, <1>2, <1>3, <1>4

\* The tables that load_all_tables goes through, entry by entry.
LEMMA LoadByEntries ==
    ASSUME NEW f \in File, NEW k \in Key
    PROVE  \E r \in [0 .. Len(Entries(f)) -> Records] :
               /\ r[0] = Empty
               /\ r[Len(Entries(f))] = LoadTable(f)
               /\ \A i \in 1 .. Len(Entries(f)) :
                     r[i][k] = IF Decides(Entries(f)[i], k)
                               THEN Says(Entries(f)[i]) ELSE r[i - 1][k]
<1>. DEFINE e == Entries(f)
<1>0. e \in Seq(WalEntry)
  BY EntriesOf
<1>. HIDE DEF e
<1>1. e \in Seq(WalEntry) /\ Len(e) \in Nat
  BY <1>0
<1>2. DOMAIN e = 1 .. Len(e)
  BY <1>0
<1>3. PICK r \in [0 .. Len(e) -> Records] :
          /\ r[0] = Empty
          /\ \A i \in 1 .. Len(e) : r[i] = Replay(r[i - 1], e[i])
          /\ FoldLeft(Replay, Empty, e) = r[Len(e)]
  BY <1>1, EmptyType, ReplayByEntries
<1>4. ASSUME NEW i \in 1 .. Len(e)
      PROVE  r[i][k] = IF Decides(e[i], k) THEN Says(e[i]) ELSE r[i - 1][k]
  <2>1. i - 1 \in 0 .. Len(e)
    BY <1>1
  <2>2. r[i - 1] \in Records /\ e[i] \in WalEntry
    BY <1>1, <1>2, <2>1
  <2>3. r[i] = Replay(r[i - 1], e[i])
    BY <1>3
  <2>4. QED
    BY <2>2, <2>3, ReplayAt
<1>5. r[Len(e)] = LoadTable(f)
  BY <1>3 DEF LoadTable, e
<1>6. QED
  BY <1>3, <1>4, <1>5 DEF e

LEMMA LoadType ==
    ASSUME NEW f \in File
    PROVE  LoadTable(f) \in Records
<1>1. Entries(f) \in Seq(WalEntry)
  BY EntriesOf
<1>2. PICK r \in [0 .. Len(Entries(f)) -> Records] :
          FoldLeft(Replay, Empty, Entries(f)) = r[Len(Entries(f))]
  BY <1>1, EmptyType, ReplayByEntries
<1>3. Len(Entries(f)) \in 0 .. Len(Entries(f))
  BY <1>1
<1>4. QED
  BY <1>2, <1>3 DEF LoadTable

\* The two loops of load_all_tables, over the lines and over the WAL: of all
\* the lines and entries that are read back under a key the last one decides,
\* whatever comes before it; a key without one is absent.
THEOREM LastEntryDecides ==
    ASSUME NEW f \in File, NEW k \in Key
    PROVE  /\ (\A i \in DOMAIN Entries(f) : ~Decides(Entries(f)[i], k))
                 => LoadTable(f)[k] = 0
           /\ \A i \in DOMAIN Entries(f) :
                 (/\ Decides(Entries(f)[i], k)
                  /\ \A j \in i + 1 .. Len(Entries(f)) :
                        ~Decides(Entries(f)[j], k))
                 => LoadTable(f)[k] = Says(Entries(f)[i])
<1>. DEFINE e == Entries(f)
            n == Len(Entries(f))
<1>1. e \in Seq(WalEntry)
  BY EntriesOf
<1>2. n \in Nat /\ DOMAIN e = 1 .. n
  BY <1>1
<1>3. PICK r \in [0 .. n -> Records] :
          /\ r[0] = Empty
          /\ r[n] = LoadTable(f)
          /\ \A i \in 1 .. n :
                r[i][k] = IF Decides(e[i], k) THEN Says(e[i]) ELSE r[i - 1][k]
  BY LoadByEntries
<1>. HIDE DEF e, n
<1>4. ASSUME NEW m \in 0 .. n, \A j \in m + 1 .. n : ~Decides(e[j], k)
      PROVE  r[n][k] = r[m][k]
  <2>. DEFINE T == {i \in 0 .. n : i >= m => r[i][k] = r[m][k]}
  <2>1. 0 \in T
    BY <1>2
  <2>2. ASSUME NEW i \in 1 .. n, i - 1 \in T
        PROVE  i \in T
    <3>1. CASE i <= m
      BY <1>2, <3>1
    <3>2. CASE i > m
      <4>1. i \in m + 1 .. n /\ i - 1 >= m
        BY <1>2, <3>2
      <4>2. r[i][k] = r[i - 1][k]
        BY <1>3, <1>4, <4>1
      <4>3. QED
        BY <1>2, <2>2, <4>1, <4>2
    <3>3. QED
      BY <1>2, <3>1, <3>2
  <2>3. \A i \in 0 .. n : i \in T
    <3>. HIDE DEF T
    <3>. QED
      BY <1>2, <2>1, <2>2, InductionUpTo
  <2>4. QED
    BY <1>2, <2>3
<1>5. (\A i \in DOMAIN e : ~Decides(e[i], k)) => LoadTable(f)[k] = 0
  <2>1. SUFFICES ASSUME \A i \in 1 .. n : ~Decides(e[i], k)
                 PROVE  r[n][k] = 0
    BY <1>2, <1>3
  <2>2. 0 \in 0 .. n /\ \A j \in 0 + 1 .. n : ~Decides(e[j], k)
    BY <1>2, <2>1
  <2>3. r[n][k] = r[0][k]
    BY <1>4, <2>2
  <2>4. QED
    BY <1>3, <2>3 DEF Empty
<1>6. ASSUME NEW i \in DOMAIN e, Decides(e[i], k),
             \A j \in i + 1 .. n : ~Decides(e[j], k)
      PROVE  LoadTable(f)[k] = Says(e[i])
  <2>1. i \in 1 .. n /\ i \in 0 .. n
    BY <1>2
  <2>2. r[n][k] = r[i][k]
    BY <1>4, <1>6, <2>1
  <2>3. QED
    BY <1>3, <1>6, <2>1, <2>2
<1>7. QED
  BY <1>5, <1>6 DEF e, n

\* A key that some entry decides about ends with what one of them says.
LEMMA LoadedFrom ==
    ASSUME NEW f \in File, NEW k \in Key
    PROVE  \/ /\ \A i \in 1 .. Len(Entries(f)) : ~Decides(Entries(f)[i], k)
              /\ LoadTable(f)[k] = 0
           \/ \E i \in 1 .. Len(Entries(f)) :
                 /\ Decides(Entries(f)[i], k)
                 /\ LoadTable(f)[k] = Says(Entries(f)[i])
<1>. DEFINE e == Entries(f)
            n == Len(Entries(f))
            From(i, x) ==
                \/ /\ \A j \in 1 .. i : ~Decides(e[j], k)
                   /\ x = 0
                \/ \E j \in 1 .. i : Decides(e[j], k) /\ x = Says(e[j])
<1>1. n \in Nat
  BY EntriesOf
<1>2. PICK r \in [0 .. n -> Records] :
          /\ r[0] = Empty
          /\ r[n] = LoadTable(f)
          /\ \A i \in 1 .. n :
                r[i][k] = IF Decides(e[i], k) THEN Says(e[i]) ELSE r[i - 1][k]
  BY LoadByEntries
<1>. HIDE DEF e, n
<1>. DEFINE T == {i \in 0 .. n : From(i, r[i][k])}
<1>3. 0 \in T
  <2>1. r[0][k] = 0
    BY <1>2 DEF Empty
  <2>2. QED
    BY <1>1, <2>1
<1>4. ASSUME NEW i \in 1 .. n, i - 1 \in T
      PROVE  i \in T
  <2>0. i \in 0 .. n /\ i \in 1 .. i
    BY <1>1
  <2>1. CASE Decides(e[i], k)
    <3>1. r[i][k] = Says(e[i])
      BY <1>2, <2>1
    <3>2. QED
      BY <2>0, <2>1, <3>1
  <2>2. CASE ~Decides(e[i], k)
    <3>1. r[i][k] = r[i - 1][k]
      BY <1>2, <2>2
    <3>2. From(i - 1, r[i][k])
      BY <1>4, <3>1
    <3>3. 1 .. i = (1 .. i - 1) \cup {i}
      BY <1>1
    <3>4. From(i, r[i][k])
      BY <2>2, <3>2, <3>3
    <3>5. QED
      BY <2>0, <3>4
  <2>3. QED
    BY <2>1, <2>2
<1>5. \A i \in 0 .. n : i \in T
  <2>. HIDE DEF T
  <2>. QED
    BY <1>1, <1>3, <1>4, InductionUpTo
<1>6. From(n, r[n][k])
  BY <1>1, <1>5
<1>7. QED
  BY <1>2, <1>6 DEF e, n

-----------------------------------------------------------------------------
(* What the steps do to the directories.                                   *)

LEMMA EmptiedType ==
    ASSUME TypeOK, NEW t \in Table
    PROVE  /\ Emptied(t) \in File
           /\ Emptied(t).lines = <<>>
           /\ ~Emptied(t).torn
<1>. DEFINE none == <<>>
<1>1. Wal(t) \in Seq(WalEntry)
  BY DEF Wal, TypeOK, File
<1>2. none \in Seq(Line)
  OBVIOUS
<1>3. Emptied(t) = [lines |-> none, torn |-> FALSE, wal |-> Wal(t)]
  BY DEF Emptied
<1>. HIDE DEF none
<1>4. Emptied(t) \in File /\ Emptied(t).lines = none /\ ~Emptied(t).torn
  BY <1>1, <1>2, <1>3 DEF File
<1>5. QED
  BY <1>4 DEF none

\* What a write that does not end well leaves is a directory with the lines it
\* had, and the one of another table, or of a table that was saved in full, is
\* not touched.
LEMMA RemainsFile ==
    ASSUME StorageInv, Remains
    PROVE  /\ file' \in [Table -> File \cup {None}]
           /\ \A t \in Table : (complete[t] # None /\ t \notin dirty)
                                  => file'[t] = file[t]
           /\ \A t \in Table : copied[t] # None =>
                 file'[t] # None /\ file'[t].lines = file[t].lines
           /\ \A t \in Table : file'[t] # None /\ file'[t].torn
                                  => t \in dirty
<1>0. TypeOK /\ FileInv
  BY DEF StorageInv
<1>1. CASE file' = file
  BY <1>0, <1>1 DEF TypeOK, FileInv
<1>2. CASE /\ file[table] = None
           /\ file' = [file EXCEPT ![table] = Emptied(table)]
  <2>1. file \in [Table -> File \cup {None}] /\ table \in Table
    BY <1>0 DEF TypeOK
  <2>2. Emptied(table) \in File /\ ~Emptied(table).torn
    BY <1>0, <2>1, EmptiedType
  <2>3. copied[table] = None
    BY <1>0, <1>2, <2>1 DEF FileInv
  <2>4. complete[table] # None => table \in dirty
    BY <1>0, <2>1, <2>3 DEF FileInv
  <2>5. \A t \in Table \ {table} : file'[t] = file[t]
    BY <1>2, <2>1
  <2>6. file'[table] = Emptied(table)
    BY <1>2, <2>1
  <2>7. file' \in [Table -> File \cup {None}]
    BY <1>2, <2>1, <2>2
  <2>8. QED
    BY <1>0, <2>2, <2>3, <2>4, <2>5, <2>6, <2>7 DEF FileInv
<1>3. CASE /\ at = "write"
           /\ file' = [file EXCEPT ![table].torn = TRUE]
  <2>1. file \in [Table -> File \cup {None}] /\ table \in Table
    BY <1>0 DEF TypeOK
  <2>2. copied[table] # None
    BY <1>0, <1>3, StorageAssumption DEF FileInv, TypeOK
  <2>3. table \in dirty /\ file[table] \in File
    BY <1>0, <1>3, <2>1, <2>2 DEF FileInv
  <2>. DEFINE new == [file[table] EXCEPT !.torn = TRUE]
  <2>4. new \in File /\ new.lines = file[table].lines
    BY <2>3 DEF File
  <2>5. file' = [file EXCEPT ![table] = new]
    BY <1>3
  <2>. HIDE DEF new
  <2>6. \A t \in Table \ {table} : file'[t] = file[t]
    BY <2>1, <2>5
  <2>7. file'[table] = new /\ new # None
    BY <2>1, <2>4, <2>5, StorageAssumption
  <2>8. file' \in [Table -> File \cup {None}]
    BY <2>1, <2>4, <2>5
  <2>9. QED
    BY <1>0, <2>3, <2>4, <2>6, <2>7, <2>8 DEF FileInv
<1>4. QED
  BY <1>1, <1>2, <1>3 DEF Remains

\* A directory whose data file is being written.
LEMMA WritingFile ==
    ASSUME StorageInv, at = "write"
    PROVE  /\ table \in Table
           /\ file \in [Table -> File \cup {None}]
           /\ copied[table] = clone
           /\ clone \in [Key -> Nat]
           /\ file[table] \in File
           /\ file[table].lines \in Seq(Line)
<1>1. /\ file \in [Table -> File \cup {None}]
      /\ table \in Table
      /\ clone \in Records
  BY DEF StorageInv, TypeOK
<1>2. copied[table] = clone /\ copied[table] # None
  BY <1>1, StorageAssumption DEF StorageInv, FileInv
<1>3. file[table] \in File
  BY <1>1, <1>2 DEF StorageInv, FileInv
<1>4. QED
  BY <1>1, <1>2, <1>3 DEF File, Records

\* One more line of the copy is in the file.
LEMMA ChunkFile ==
    ASSUME StorageInv, at = "write", NEW k \in rest,
           file' = [file EXCEPT ![table].lines =
                       Append(@, [key |-> k, value |-> clone[k]])]
    PROVE  /\ file' \in [Table -> File \cup {None}]
           /\ \A t \in Table \ {table} : file'[t] = file[t]
           /\ file'[table] \in File
           /\ file'[table].torn = file[table].torn
           /\ file'[table].lines =
                 Append(file[table].lines, [key |-> k, value |-> clone[k]])
<1>1. /\ file \in [Table -> File \cup {None}]
      /\ table \in Table
      /\ clone \in [Key -> Nat]
      /\ file[table] \in File
      /\ file[table].lines \in Seq(Line)
  BY WritingFile
<1>2. k \in Key
  BY DEF StorageInv, TypeOK
<1>. DEFINE line == [key |-> k, value |-> clone[k]]
            new == Append(file[table].lines, line)
<1>3. line \in Line
  BY <1>1, <1>2 DEF Line
<1>. HIDE DEF line
<1>4. new \in Seq(Line)
  BY <1>1, <1>3
<1>5. file' = [file EXCEPT ![table] = [@ EXCEPT !.lines = new]]
  BY DEF line
<1>. HIDE DEF new
<1>6. /\ [file[table] EXCEPT !.lines = new] \in File
      /\ [file[table] EXCEPT !.lines = new].lines = new
      /\ [file[table] EXCEPT !.lines = new].torn = file[table].torn
  BY <1>1, <1>4 DEF File
<1>7. QED
  BY <1>1, <1>5, <1>6 DEF new, line

\* The WAL is emptied.
LEMMA EndFile ==
    ASSUME StorageInv, at = "write", file' = [file EXCEPT ![table].wal = <<>>]
    PROVE  /\ file' \in [Table -> File \cup {None}]
           /\ \A t \in Table \ {table} : file'[t] = file[t]
           /\ file'[table] \in File
           /\ ~file'[table].torn
           /\ file'[table].wal = <<>>
           /\ file'[table].lines = file[table].lines
<1>1. file \in [Table -> File \cup {None}] /\ table \in Table
  BY WritingFile
<1>2. file[table] \in File /\ ~file[table].torn
  BY WritingFile DEF StorageInv, FileInv
<1>. DEFINE none == <<>>
            new == [file[table] EXCEPT !.wal = none]
<1>3. none \in Seq(WalEntry)
  OBVIOUS
<1>4. file' = [file EXCEPT ![table] = new]
  OBVIOUS
<1>5. /\ new \in File
      /\ new.lines = file[table].lines
      /\ new.torn = file[table].torn
      /\ new.wal = none
  <2>. HIDE DEF none
  <2>. QED
    BY <1>2, <1>3 DEF File
<1>. HIDE DEF new
<1>6. QED
  BY <1>1, <1>2, <1>4, <1>5

-----------------------------------------------------------------------------
(* Types.                                                                  *)

LEMMA WithDefaultType ==
    ASSUME NEW m \in [Table -> Records \cup {None}]
    PROVE  WithDefault(m) \in [Table -> Records \cup {None}]
  BY EmptyType, StorageAssumption DEF WithDefault

LEMMA TypeStep ==
    ASSUME StorageInv, [Next]_vars
    PROVE  TypeOK'
<1>0. TypeOK
  BY DEF StorageInv
<1>1. ASSUME NEW t \in Table, NEW k \in Key, Put(t, k)
      PROVE  TypeOK'
  <2>1. writes' = writes + 1 /\ writes \in Nat
    BY <1>0, <1>1 DEF Put, TypeOK
  <2>. DEFINE old == IF mem[t] = None THEN Empty ELSE mem[t]
  <2>2. old \in Records
    BY <1>0, EmptyType DEF TypeOK
  <2>3. [old EXCEPT ![k] = writes'] \in Records
    BY <2>1, <2>2 DEF Records
  <2>4. mem' = [mem EXCEPT ![t] = [old EXCEPT ![k] = writes']]
    BY <1>1 DEF Put
  <2>. HIDE DEF old
  <2>5. mem' \in [Table -> Records \cup {None}]
    BY <1>0, <2>3, <2>4 DEF TypeOK
  <2>6. UNCHANGED <<status, file, saverVars, crashes, errors, ghostVars>>
    BY <1>1 DEF Put
  <2>7. QED
    BY <1>0, <2>1, <2>5, <2>6 DEF TypeOK, saverVars, ghostVars
<1>2. ASSUME NEW t \in Table, NEW k \in Key, Delete(t, k)
      PROVE  TypeOK'
  <2>1. mem[t] \in Records
    BY <1>0, <1>2 DEF Delete, TypeOK
  <2>2. [mem[t] EXCEPT ![k] = 0] \in Records
    BY <2>1 DEF Records
  <2>3. mem' \in [Table -> Records \cup {None}]
    BY <1>0, <1>2, <2>2 DEF Delete, TypeOK
  <2>4. UNCHANGED <<status, file, saverVars, boundVars, ghostVars>>
    BY <1>2 DEF Delete
  <2>5. QED
    BY <1>0, <2>3, <2>4 DEF TypeOK, saverVars, boundVars, ghostVars
<1>3. CASE SaveBegin
  BY <1>0, <1>3 DEF SaveBegin, TypeOK, boundVars, ghostVars
<1>4. CASE SaveTable
  <2>1. CASE at' = "idle" /\ UNCHANGED <<todo, table, unread, clone, before>>
    BY <1>0, <1>4, <2>1 DEF SaveTable, TypeOK, boundVars, ghostVars
  <2>2. ASSUME NEW t \in todo,
               /\ at' = "copy"
               /\ todo' = todo \ {t}
               /\ table' = t
               /\ unread' = Key
               /\ clone' = Empty
               /\ before' = mem[t]
        PROVE  TypeOK'
    <3>1. t \in Table /\ mem[t] \in Records
      BY <1>0 DEF TypeOK, StorageInv, SaverInv
    <3>2. UNCHANGED <<status, mem, file, rest, boundVars, ghostVars>>
      BY <1>4 DEF SaveTable
    <3>3. QED
      BY <1>0, <2>2, <3>1, <3>2, EmptyType DEF TypeOK, boundVars, ghostVars
  <2>3. QED
    BY <1>4, <2>1, <2>2 DEF SaveTable
<1>5. CASE SaveCopy
  <2>1. PICK k \in unread : /\ clone' = [clone EXCEPT ![k] = mem[table][k]]
                            /\ unread' = unread \ {k}
    BY <1>5 DEF SaveCopy
  <2>2. mem[table] \in Records /\ clone \in Records /\ k \in Key
    BY <1>0, <1>5 DEF SaveCopy, TypeOK, StorageInv, SaverInv
  <2>3. clone' \in Records
    BY <2>1, <2>2 DEF Records
  <2>4. at' \in {"create", "copy"} /\ unread' \subseteq Key
    BY <1>0, <1>5, <2>1 DEF SaveCopy, TypeOK
  <2>5. UNCHANGED <<status, mem, file, todo, table, rest, before, boundVars,
                    ghostVars>>
    BY <1>5 DEF SaveCopy
  <2>6. QED
    BY <1>0, <2>3, <2>4, <2>5 DEF TypeOK, boundVars, ghostVars
<1>6. CASE SaveCreate
  <2>1. Emptied(table) \in File
    BY <1>0, EmptiedType DEF TypeOK
  <2>2. file' \in [Table -> File \cup {None}]
    BY <1>0, <1>6, <2>1 DEF SaveCreate, TypeOK
  <2>3. rest' \subseteq Key /\ dirty' \subseteq Table /\ at' = "write"
    BY <1>0, <1>6 DEF SaveCreate, TypeOK
  <2>3a. copied' \in [Table -> Records \cup {None}]
    BY <1>0, <1>6 DEF SaveCreate, TypeOK
  <2>4. UNCHANGED <<status, mem, todo, table, unread, clone, before, boundVars,
                    complete>>
    BY <1>6 DEF SaveCreate
  <2>5. QED
    BY <1>0, <2>2, <2>3, <2>3a, <2>4 DEF TypeOK, boundVars
<1>7. CASE SaveChunk
  <2>1. PICK k \in rest :
            /\ file' = [file EXCEPT ![table].lines =
                  Append(@, [key |-> k, value |-> clone[k]])]
            /\ rest' = rest \ {k}
    BY <1>7 DEF SaveChunk
  <2>2. at = "write"
    BY <1>7 DEF SaveChunk
  <2>3. file' \in [Table -> File \cup {None}]
    BY <2>1, <2>2, ChunkFile
  <2>4. UNCHANGED <<status, mem, at, todo, table, unread, clone, before,
                    boundVars, ghostVars>>
    BY <1>7 DEF SaveChunk
  <2>5. QED
    BY <1>0, <2>1, <2>3, <2>4 DEF TypeOK, boundVars, ghostVars
<1>8. CASE SaveEnd
  <2>1. file' \in [Table -> File \cup {None}]
    BY <1>8, EndFile DEF SaveEnd
  <2>2. complete' \in [Table -> Records \cup {None}]
    BY <1>0, <1>8 DEF SaveEnd, TypeOK
  <2>3. dirty' \subseteq Table /\ at' = "next"
    BY <1>0, <1>8 DEF SaveEnd, TypeOK
  <2>4. UNCHANGED <<status, mem, todo, table, unread, clone, rest, before,
                    copied, boundVars>>
    BY <1>8 DEF SaveEnd
  <2>5. QED
    BY <1>0, <2>1, <2>2, <2>3, <2>4 DEF TypeOK, boundVars, ghostVars
<1>9. CASE SaveError
  <2>1. file' \in [Table -> File \cup {None}]
    BY <1>9, RemainsFile DEF SaveError
  <2>2. QED
    BY <1>0, <1>9, <2>1 DEF SaveError, TypeOK, ghostVars
<1>10. CASE Crash
  <2>1. file' \in [Table -> File \cup {None}]
    BY <1>10, RemainsFile DEF Crash
  <2>2. QED
    BY <1>0, <1>10, <2>1 DEF Crash, TypeOK, ghostVars
<1>11. CASE Load
  <2>. DEFINE m == [t \in Table |-> IF file[t] = None THEN None
                                    ELSE LoadTable(file[t])]
  <2>1. m \in [Table -> Records \cup {None}]
    <3>1. \A t \in Table : file[t] # None => LoadTable(file[t]) \in Records
      BY <1>0, LoadType DEF TypeOK
    <3>2. QED
      BY <3>1
  <2>. HIDE DEF m
  <2>2. mem' = WithDefault(m)
    BY <1>11 DEF Load, m
  <2>3. mem' \in [Table -> Records \cup {None}]
    BY <2>1, <2>2, WithDefaultType
  <2>4. status' = "up"
    BY <1>11 DEF Load
  <2>5. UNCHANGED <<file, saverVars, boundVars, ghostVars>>
    BY <1>11 DEF Load
  <2>6. QED
    BY <1>0, <2>3, <2>4, <2>5 DEF TypeOK, saverVars, boundVars, ghostVars
<1>12. CASE LoadRefused
  BY <1>0, <1>12 DEF LoadRefused, TypeOK, saverVars, boundVars,
                       ghostVars
<1>13. CASE LoadError
  <2>1. mem' \in [Table -> Records \cup {None}]
    <3>1. [t \in Table |-> None] \in [Table -> Records \cup {None}]
      OBVIOUS
    <3>2. QED
      BY <1>13, <3>1, WithDefaultType DEF LoadError
  <2>2. status' = "up" /\ errors' \in Nat
    BY <1>0, <1>13 DEF LoadError, TypeOK
  <2>3. UNCHANGED <<file, saverVars, writes, crashes, ghostVars>>
    BY <1>13 DEF LoadError
  <2>4. QED
    BY <1>0, <2>1, <2>2, <2>3 DEF TypeOK, saverVars, ghostVars
<1>14. CASE UNCHANGED vars
  BY <1>0, <1>14 DEF vars, TypeOK, saverVars, boundVars,
                       ghostVars
<1>15. QED
  BY <1>1, <1>2, <1>3, <1>4, <1>5, <1>6, <1>7, <1>8, <1>9, <1>10, <1>11,
     <1>12, <1>13, <1>14 DEF Next, ClientStep, SaverStep, StartStep

-----------------------------------------------------------------------------
(* The copy.                                                               *)

\* Every step leaves the saver at tables that are there; while one is copied
\* PUT is kept out of it, and a delete can only take a record away.
LEMMA SaverInvStep ==
    ASSUME StorageInv, [Next]_vars
    PROVE  SaverInv'
<1>0. TypeOK /\ SaverInv
  BY DEF StorageInv
<1>1. ASSUME NEW t \in Table, NEW k \in Key, Put(t, k)
      PROVE  SaverInv'
  <2>1. mem'[t] # None
    <3>. DEFINE old == IF mem[t] = None THEN Empty ELSE mem[t]
    <3>1. old \in [Key -> Nat]
      BY <1>0, EmptyType DEF TypeOK, Records
    <3>2. mem' = [mem EXCEPT ![t] = [old EXCEPT ![k] = writes + 1]]
      BY <1>1 DEF Put
    <3>. HIDE DEF old
    <3>3. mem'[t] \in [Key -> Nat]
      BY <1>0, <3>1, <3>2 DEF TypeOK
    <3>4. QED
      BY <3>3, StorageAssumption DEF Records
  <2>2. \A s \in Table \ {t} : mem'[s] = mem[s]
    BY <1>0, <1>1 DEF Put, TypeOK
  <2>3. UNCHANGED <<status, at, todo, table, clone, before>>
    BY <1>1 DEF Put, saverVars
  <2>4. at = "copy" => mem'[table] = mem[table]
    BY <1>0, <1>1, <2>2 DEF Put, Copying, TypeOK
  <2>5. QED
    BY <1>0, <2>1, <2>2, <2>3, <2>4 DEF SaverInv, CopyIsACut, TypeOK
<1>2. ASSUME NEW t \in Table, NEW k \in Key, Delete(t, k)
      PROVE  SaverInv'
  <2>1. mem[t] \in [Key -> Nat]
    BY <1>0, <1>2 DEF Delete, TypeOK, Records
  <2>2. mem' = [mem EXCEPT ![t] = [mem[t] EXCEPT ![k] = 0]]
    BY <1>2 DEF Delete
  <2>3. mem'[t] = [mem[t] EXCEPT ![k] = 0]
    BY <1>0, <2>2 DEF TypeOK
  <2>4. /\ mem'[t] # None
        /\ \A j \in Key : mem'[t][j] \in {mem[t][j], 0}
    <3>1. mem'[t] \in [Key -> Nat]
      BY <2>1, <2>3
    <3>2. \A j \in Key : mem'[t][j] \in {mem[t][j], 0}
      BY <2>1, <2>3
    <3>3. QED
      BY <3>1, <3>2, StorageAssumption DEF Records
  <2>5. \A s \in Table \ {t} : mem'[s] = mem[s]
    BY <1>0, <2>2 DEF TypeOK
  <2>6. UNCHANGED <<status, at, todo, table, clone, before>>
    BY <1>2 DEF Delete, saverVars
  <2>7. QED
    BY <1>0, <2>4, <2>5, <2>6 DEF SaverInv, CopyIsACut, TypeOK
<1>3. CASE SaveBegin
  BY <1>0, <1>3 DEF SaveBegin, SaverInv, CopyIsACut
<1>4. CASE SaveTable
  <2>1. CASE /\ todo = {}
             /\ at' = "idle"
             /\ UNCHANGED <<todo, table, unread, clone, before>>
    BY <1>0, <1>4, <2>1 DEF SaveTable, SaverInv, CopyIsACut
  <2>2. ASSUME NEW t \in todo,
               /\ at' = "copy"
               /\ todo' = todo \ {t}
               /\ table' = t
               /\ clone' = Empty
               /\ before' = mem[t]
        PROVE  SaverInv'
    <3>1. UNCHANGED <<status, mem>>
      BY <1>4 DEF SaveTable
    <3>2. mem[t] # None /\ status = "up"
      BY <1>0, <1>4 DEF SaveTable, SaverInv
    <3>3. QED
      BY <1>0, <2>2, <3>1, <3>2 DEF SaverInv, CopyIsACut, Empty
  <2>3. QED
    BY <1>4, <2>1, <2>2 DEF SaveTable
<1>5. CASE SaveCopy
  <2>1. PICK k \in unread : clone' = [clone EXCEPT ![k] = mem[table][k]]
    BY <1>5 DEF SaveCopy
  <2>2. \A j \in Key : clone'[j] \in {before[j], 0}
    BY <1>0, <1>5, <2>1 DEF SaveCopy, SaverInv, TypeOK, Records
  <2>3. at = "copy" /\ at' \in {"create", "copy"}
    BY <1>5 DEF SaveCopy
  <2>4. UNCHANGED <<status, mem, todo, table, before>>
    BY <1>5 DEF SaveCopy
  <2>5. QED
    BY <1>0, <2>2, <2>3, <2>4 DEF SaverInv, CopyIsACut
<1>6. CASE SaveCreate
  BY <1>0, <1>6 DEF SaveCreate, SaverInv, CopyIsACut
<1>7. CASE SaveChunk
  <2>1. UNCHANGED <<status, mem, at, todo, table, clone, before>>
    BY <1>7 DEF SaveChunk
  <2>2. QED
    BY <1>0, <2>1 DEF SaverInv, CopyIsACut
<1>8. CASE SaveEnd
  BY <1>0, <1>8 DEF SaveEnd, SaverInv, CopyIsACut
<1>9. CASE SaveError
  BY <1>9 DEF SaveError, SaverInv, CopyIsACut
<1>10. CASE Crash
  BY <1>10 DEF Crash, SaverInv, CopyIsACut
<1>11. CASE StartStep \/ LoadError
  <2>1. status = "down" /\ UNCHANGED saverVars
    BY <1>11 DEF StartStep, Load, LoadRefused, LoadError
  <2>2. at = "idle" /\ todo = {}
    BY <1>0, <2>1 DEF SaverInv
  <2>3. QED
    BY <2>1, <2>2 DEF SaverInv, CopyIsACut, saverVars
<1>12. CASE UNCHANGED vars
  BY <1>0, <1>12 DEF vars, saverVars, SaverInv, CopyIsACut
<1>13. QED
  BY <1>1, <1>2, <1>3, <1>4, <1>5, <1>6, <1>7, <1>8, <1>9, <1>10, <1>11,
     <1>12 DEF Next, ClientStep, SaverStep

-----------------------------------------------------------------------------
(* The files.                                                              *)

\* A step that leaves the files alone, and is not in the middle of one.
LEMMA FilesLeftAlone ==
    ASSUME FileInv, UNCHANGED <<file, ghostVars>>,
           at' = "write" => at = "write" /\ UNCHANGED <<table, rest, clone>>,
           status' = "refused" => status = "refused" \/ Torn
    PROVE  FileInv'
<1>1. UNCHANGED <<file, complete, copied, dirty>>
  BY DEF ghostVars
<1>2. status' = "refused" => Torn'
  BY <1>1 DEF FileInv, Torn
<1>3. at' = "write" => /\ table' \in dirty'
                        /\ copied'[table'] = clone'
                        /\ ~file'[table'].torn
                        /\ Holds(file'[table'], clone', rest')
                        /\ \A k \in rest' : clone'[k] # 0
  BY <1>1 DEF FileInv, Holds
<1>4. QED
  BY <1>1, <1>2, <1>3 DEF FileInv, Holds

\* FileInv for a step of the saver, table by table.
LEMMA FilesByTable ==
    ASSUME FileInv,
           status' # "refused",
           \A t \in Table \ {table} :
               /\ file'[t] = file[t]
               /\ copied'[t] = copied[t]
               /\ complete'[t] = complete[t]
               /\ t \in dirty' <=> t \in dirty,
           copied'[table] # None =>
               /\ file'[table] # None
               /\ \A i \in DOMAIN file'[table].lines :
                     /\ file'[table].lines[i].value =
                           copied'[table][file'[table].lines[i].key]
                     /\ file'[table].lines[i].value # 0,
           file'[table] # None /\ file'[table].torn => table \in dirty',
           (complete'[table] # None /\ table \notin dirty') =>
               /\ copied'[table] = complete'[table]
               /\ file'[table].wal = <<>>
               /\ Holds(file'[table], copied'[table], {}),
           at' = "write" =>
               /\ table' \in dirty'
               /\ copied'[table'] = clone'
               /\ ~file'[table'].torn
               /\ Holds(file'[table'], clone', rest')
               /\ \A k \in rest' : clone'[k] # 0
    PROVE  FileInv'
<1>1. \A t \in Table : copied'[t] # None =>
          /\ file'[t] # None
          /\ \A i \in DOMAIN file'[t].lines :
                /\ file'[t].lines[i].value = copied'[t][file'[t].lines[i].key]
                /\ file'[t].lines[i].value # 0
  BY DEF FileInv
<1>2. \A t \in Table : file'[t] # None /\ file'[t].torn => t \in dirty'
  BY DEF FileInv
<1>3. \A t \in Table : (complete'[t] # None /\ t \notin dirty') =>
          /\ copied'[t] = complete'[t]
          /\ file'[t].wal = <<>>
          /\ Holds(file'[t], copied'[t], {})
  BY DEF FileInv
<1>4. QED
  BY <1>1, <1>2, <1>3 DEF FileInv, Holds

\* No step takes from the file what the last full save put there, unless it
\* begins a save of that table; and the file that is being written always holds
\* what the saver has taken from its copy, so that the copy is whole at the end.
LEMMA FileInvStep ==
    ASSUME StorageInv, [Next]_vars
    PROVE  FileInv'
<1>0. TypeOK /\ FileInv /\ SaverInv
  BY DEF StorageInv
<1>1. CASE ClientStep \/ StartStep \/ LoadError \/ UNCHANGED vars
  <2>1. /\ UNCHANGED <<file, saverVars, ghostVars>>
        /\ status' = "refused" => status = "refused" \/ Torn
    BY <1>1 DEF ClientStep, Put, Delete, StartStep, Load, LoadRefused,
                LoadError, vars
  <2>2. QED
    BY <1>0, <2>1, FilesLeftAlone DEF saverVars
<1>2. CASE SaveBegin \/ SaveTable \/ SaveCopy
  <2>1. UNCHANGED <<file, ghostVars, status>> /\ at' # "write"
    BY <1>2 DEF SaveBegin, SaveTable, SaveCopy
  <2>2. QED
    BY <1>0, <2>1, FilesLeftAlone
<1>3. CASE SaveCreate
  <2>1. /\ file' = [file EXCEPT ![table] = Emptied(table)]
        /\ copied' = [copied EXCEPT ![table] = clone]
        /\ table \in Table
        /\ file \in [Table -> File \cup {None}]
        /\ copied \in [Table -> Records \cup {None}]
    BY <1>0, <1>3 DEF SaveCreate, TypeOK
  <2>2. /\ Emptied(table) # None
        /\ Emptied(table).lines = <<>>
        /\ ~Emptied(table).torn
    BY <1>0, <2>1, EmptiedType, StorageAssumption
  <2>3. file'[table] = Emptied(table) /\ copied'[table] = clone
    BY <2>1
  <2>4. /\ rest' = {k \in Key : clone[k] # 0}
        /\ dirty' = dirty \cup {table}
        /\ UNCHANGED <<table, clone, complete, status>>
    BY <1>3 DEF SaveCreate
  <2>5. DOMAIN file'[table].lines = {}
    BY <2>2, <2>3
  <2>6. Holds(file'[table'], clone', rest')
    BY <2>4 DEF Holds
  <2>7. status' # "refused"
    BY <1>0, <1>3, <2>4 DEF SaverInv, SaveCreate
  <2>8. \A t \in Table \ {table} :
           /\ file'[t] = file[t]
           /\ copied'[t] = copied[t]
           /\ complete'[t] = complete[t]
           /\ t \in dirty' <=> t \in dirty
    BY <2>1, <2>4
  <2>9. /\ table' \in dirty'
        /\ copied'[table'] = clone'
        /\ ~file'[table'].torn
        /\ \A k \in rest' : clone'[k] # 0
    BY <2>2, <2>3, <2>4
  <2>10. file'[table] # None /\ ~file'[table].torn
    BY <2>2, <2>3
  <2>11. QED
    BY <1>0, <2>4, <2>5, <2>6, <2>7, <2>8, <2>9, <2>10, FilesByTable
<1>4. CASE SaveChunk
  <2>1. PICK k \in rest :
            /\ file' = [file EXCEPT ![table].lines =
                  Append(@, [key |-> k, value |-> clone[k]])]
            /\ rest' = rest \ {k}
    BY <1>4 DEF SaveChunk
  <2>2. at = "write"
    BY <1>4 DEF SaveChunk
  <2>3. UNCHANGED <<at, table, clone, complete, copied, dirty, status>>
    BY <1>4 DEF SaveChunk, ghostVars
  <2>. DEFINE old == file[table].lines
              new == file'[table].lines
              line == [key |-> k, value |-> clone[k]]
  <2>4. /\ \A t \in Table \ {table} : file'[t] = file[t]
        /\ file'[table] \in File
        /\ file'[table].torn = file[table].torn
        /\ new = Append(old, line)
    BY <2>1, <2>2, ChunkFile
  <2>5. file'[table] # None
    BY <2>4, StorageAssumption
  <2>6. /\ table \in Table
        /\ old \in Seq(Line)
        /\ copied[table] = clone
        /\ clone \in [Key -> Nat]
        /\ copied[table] # None
    BY <2>2, WritingFile, StorageAssumption DEF Records
  <2>7. k \in Key /\ clone[k] # 0
    BY <1>0, <2>2 DEF FileInv, TypeOK
  <2>8. /\ \A i \in DOMAIN old :
              /\ old[i].value = clone[old[i].key]
              /\ old[i].value # 0
        /\ Holds(file[table], clone, rest)
        /\ table \in dirty
        /\ ~file[table].torn
        /\ \A j \in rest : clone[j] # 0
    BY <1>0, <2>2, <2>6 DEF FileInv
  <2>9. line.key = k /\ line.value = clone[k] /\ line \in Line
    BY <2>6, <2>7 DEF Line
  <2>10. /\ Len(old) \in Nat
         /\ DOMAIN old = 1 .. Len(old)
         /\ DOMAIN new = 1 .. Len(old) + 1
         /\ \A i \in DOMAIN old : new[i] = old[i]
         /\ new[Len(old) + 1] = line
    <3>. HIDE DEF old, new, line
    <3>. QED
      BY <2>4, <2>6, <2>9
  <2>11. \A i \in DOMAIN new : i \in DOMAIN old \/ i = Len(old) + 1
    <3>. HIDE DEF old, new
    <3>. QED
      BY <2>10
  <2>12. \A i \in DOMAIN new : /\ new[i].value = clone[new[i].key]
                               /\ new[i].value # 0
    <3>. HIDE DEF old, new, line
    <3>. QED
      BY <2>7, <2>8, <2>9, <2>10, <2>11
  <2>13. Holds(file'[table], clone, rest')
    <3>1. SUFFICES ASSUME NEW j \in Key \ rest', clone[j] # 0
                   PROVE  \E i \in DOMAIN new : new[i].key = j
      BY DEF Holds
    <3>2. CASE j = k
      <4>1. Len(old) + 1 \in DOMAIN new /\ new[Len(old) + 1].key = k
        <5>. HIDE DEF old, new, line
        <5>. QED
          BY <2>9, <2>10
      <4>2. QED
        BY <3>2, <4>1
    <3>3. CASE j # k
      <4>1. j \in Key \ rest
        BY <2>1, <3>1, <3>3
      <4>2. PICK i \in DOMAIN old : old[i].key = j
        BY <2>8, <3>1, <4>1 DEF Holds
      <4>3. i \in DOMAIN new /\ new[i].key = j
        <5>. HIDE DEF old, new, line
        <5>. QED
          BY <2>10, <4>2
      <4>4. QED
        BY <4>3
    <3>4. QED
      BY <3>2, <3>3
  <2>14. status' # "refused"
    BY <1>0, <2>2, <2>3 DEF SaverInv
  <2>15. complete'[table] # None => table \in dirty'
    BY <2>3, <2>8
  <2>16. /\ table' \in dirty'
         /\ copied'[table'] = clone'
         /\ ~file'[table'].torn
         /\ Holds(file'[table'], clone', rest')
         /\ \A j \in rest' : clone'[j] # 0
    BY <2>1, <2>3, <2>4, <2>6, <2>8, <2>13
  <2>17. \A i \in DOMAIN file'[table].lines :
            /\ file'[table].lines[i].value =
                  copied'[table][file'[table].lines[i].key]
            /\ file'[table].lines[i].value # 0
    BY <2>3, <2>6, <2>12
  <2>. HIDE DEF old, new, line
  <2>18. QED
    BY <1>0, <2>3, <2>4, <2>5, <2>8, <2>14, <2>15, <2>16, <2>17, FilesByTable
<1>5. CASE SaveEnd
  <2>1. /\ \A t \in Table \ {table} : file'[t] = file[t]
        /\ file'[table] \in File
        /\ ~file'[table].torn
        /\ file'[table].wal = <<>>
        /\ file'[table].lines = file[table].lines
    BY <1>5, EndFile DEF SaveEnd
  <2>2. at = "write" /\ rest = {}
    BY <1>5 DEF SaveEnd
  <2>3. /\ complete' = [complete EXCEPT ![table] = clone]
        /\ dirty' = dirty \ {table}
        /\ at' = "next"
        /\ UNCHANGED <<status, copied>>
    BY <1>5 DEF SaveEnd
  <2>4. table \in Table /\ copied[table] = clone /\ copied[table] # None
    BY <2>2, WritingFile, StorageAssumption DEF Records
  <2>5. /\ complete'[table] = clone
        /\ \A t \in Table \ {table} : complete'[t] = complete[t]
    BY <1>0, <2>3, <2>4 DEF TypeOK
  <2>6. file'[table] # None
    BY <2>1, StorageAssumption
  <2>7. Holds(file'[table], copied'[table], {})
    BY <1>0, <2>1, <2>2, <2>3, <2>4 DEF FileInv, Holds
  <2>8. \A i \in DOMAIN file'[table].lines :
           /\ file'[table].lines[i].value =
                 copied'[table][file'[table].lines[i].key]
           /\ file'[table].lines[i].value # 0
    BY <1>0, <2>1, <2>3, <2>4 DEF FileInv
  <2>9. status' # "refused"
    BY <1>0, <2>2, <2>3 DEF SaverInv
  <2>10. QED
    BY <1>0, <2>1, <2>3, <2>4, <2>5, <2>6, <2>7, <2>8, <2>9, FilesByTable
<1>6. CASE SaveError \/ Crash
  <2>1. /\ Remains
        /\ at' = "idle"
        /\ UNCHANGED <<complete, copied, dirty>>
    BY <1>6 DEF SaveError, Crash, ghostVars
  <2>2. /\ \A t \in Table : (complete[t] # None /\ t \notin dirty)
                                => file'[t] = file[t]
        /\ \A t \in Table : copied[t] # None =>
              file'[t] # None /\ file'[t].lines = file[t].lines
        /\ \A t \in Table : file'[t] # None /\ file'[t].torn => t \in dirty
    BY <2>1, RemainsFile
  <2>3. status' # "refused"
    BY <1>0, <1>6 DEF SaveError, Crash, SaverInv
  <2>4. \A t \in Table : copied'[t] # None =>
           /\ file'[t] # None
           /\ \A i \in DOMAIN file'[t].lines :
                 /\ file'[t].lines[i].value = copied'[t][file'[t].lines[i].key]
                 /\ file'[t].lines[i].value # 0
    BY <1>0, <2>1, <2>2 DEF FileInv
  <2>5. \A t \in Table : (complete'[t] # None /\ t \notin dirty') =>
           /\ copied'[t] = complete'[t]
           /\ file'[t].wal = <<>>
           /\ Holds(file'[t], copied'[t], {})
    BY <1>0, <2>1, <2>2 DEF FileInv, Holds
  <2>6. QED
    BY <2>1, <2>2, <2>3, <2>4, <2>5 DEF FileInv, Holds
<1>7. QED
  BY <1>1, <1>2, <1>3, <1>4, <1>5, <1>6 DEF Next, SaverStep

-----------------------------------------------------------------------------
(* What is proved of the specification.                                    *)

LEMMA StorageInit ==
    ASSUME Init
    PROVE  StorageInv
<1>1. file \in [Table -> File \cup {None}]
  <2>. DEFINE none == <<>>
  <2>1. none \in Seq(Line)
    OBVIOUS
  <2>2. file = [t \in Table |-> IF OldWal[t] = <<>> THEN None
                  ELSE [lines |-> none, torn |-> FALSE, wal |-> OldWal[t]]]
    BY DEF Init
  <2>. HIDE DEF none
  <2>3. \A t \in Table :
           [lines |-> none, torn |-> FALSE, wal |-> OldWal[t]] \in File
    BY <2>1, StorageAssumption DEF File
  <2>4. QED
    BY <2>2, <2>3
<1>2. TypeOK
  BY <1>1, EmptyType, StorageAssumption DEF Init, TypeOK
<1>3. SaverInv
  BY DEF Init, SaverInv, CopyIsACut
<1>4. FileInv
  BY DEF Init, FileInv, Torn
<1>5. QED
  BY <1>2, <1>3, <1>4 DEF StorageInv

\* StorageInv is inductive: what the saver, the requests, failed operations, a
\* kill of the process and the reload do to memory and disk keeps it, for any
\* tables and keys and any WAL found at the first start.
THEOREM StorageInvariant == Spec => []StorageInv
<1>1. Init => StorageInv
  BY StorageInit
<1>2. StorageInv /\ [Next]_vars => StorageInv'
  <2>1. SUFFICES ASSUME StorageInv, [Next]_vars
                 PROVE  StorageInv'
    OBVIOUS
  <2>2. TypeOK' /\ SaverInv' /\ FileInv'
    BY <2>1, TypeStep, SaverInvStep, FileInvStep
  <2>3. QED
    BY <2>2 DEF StorageInv
<1>3. QED
  BY <1>1, <1>2, PTL DEF Spec

\* Memory, files and the saver's state keep their types: a reload makes tables
\* of whatever it finds.
THEOREM TypeCorrect == Spec => []TypeOK
<1>1. StorageInv => TypeOK
  BY DEF StorageInv
<1>2. QED
  BY <1>1, StorageInvariant, PTL

\* save_to_cold writes a table as it was at one moment, but for records that
\* were deleted while it was copied, however requests interleave with it.
THEOREM SavedCopyIsACut == Spec => []CopyIsACut
<1>1. StorageInv => CopyIsACut
  BY DEF StorageInv, SaverInv
<1>2. QED
  BY <1>1, StorageInvariant, PTL

\* What the lines and the WAL of a table give a key, for any copy its lines
\* come from.
LEMMA LoadedFromCopy ==
    ASSUME NEW f \in File, NEW records \in [Key -> Nat], NEW k \in Key,
           \A i \in DOMAIN f.lines : /\ f.lines[i].value =
                                          records[f.lines[i].key]
                                     /\ f.lines[i].value # 0
    PROVE  /\ LoadTable(f)[k] \in {0} \cup ReadBack(records, k)
                                      \cup {e.value : e \in Range(f.wal)}
           /\ f.wal = <<>> =>
                 \/ LoadTable(f)[k] \in ReadBack(records, k)
                 \/ /\ LoadTable(f)[k] = 0
                    /\ \A i \in DOMAIN f.lines :
                          ~Decides(Parse(f.lines[i]), k)
<1>. DEFINE n == Len(f.lines)
<1>1. /\ f.lines \in Seq(Line)
      /\ f.wal \in Seq(WalEntry)
      /\ n \in Nat
      /\ Len(f.wal) \in Nat
      /\ Len(Entries(f)) = n + Len(f.wal)
      /\ \A i \in 1 .. n : Entries(f)[i] = Parse(f.lines[i])
      /\ \A i \in n + 1 .. n + Len(f.wal) : Entries(f)[i] = f.wal[i - n]
  BY EntriesOf
<1>2. DOMAIN f.lines = 1 .. n /\ DOMAIN f.wal = 1 .. Len(f.wal)
  BY <1>1
<1>. HIDE DEF n
<1>3. CASE \A i \in 1 .. Len(Entries(f)) : ~Decides(Entries(f)[i], k)
  <2>1. LoadTable(f)[k] = 0
    BY <1>3, LoadedFrom
  <2>2. ASSUME NEW i \in DOMAIN f.lines
        PROVE  ~Decides(Parse(f.lines[i]), k)
    <3>1. i \in 1 .. n /\ i \in 1 .. Len(Entries(f))
      BY <1>1, <1>2
    <3>2. Entries(f)[i] = Parse(f.lines[i])
      BY <1>1, <3>1
    <3>3. QED
      BY <1>3, <3>1, <3>2
  <2>3. QED
    BY <2>1, <2>2
<1>4. ASSUME NEW i \in 1 .. Len(Entries(f)), Decides(Entries(f)[i], k),
             LoadTable(f)[k] = Says(Entries(f)[i])
      PROVE  /\ LoadTable(f)[k] \in {0} \cup ReadBack(records, k)
                                      \cup {e.value : e \in Range(f.wal)}
             /\ f.wal = <<>> => LoadTable(f)[k] \in ReadBack(records, k)
  <2>1. CASE i \in 1 .. n
    <3>. DEFINE line == f.lines[i]
    <3>1. /\ line \in Line
          /\ line.value = records[line.key]
          /\ line.value # 0
          /\ Entries(f)[i] = Parse(line)
      BY <1>1, <1>2, <2>1
    <3>2. line.key \in Key
      BY <3>1 DEF Line
    <3>. HIDE DEF line
    <3>3. /\ line.key \in Key \ Skipped
          /\ ReadAs[line.key] = k
          /\ LoadTable(f)[k] = line.value
      BY <1>4, <3>1, <3>2 DEF Parse, Decides, Says
    <3>4. records[line.key] \in ReadBack(records, k)
      BY <3>1, <3>2, <3>3 DEF ReadBack
    <3>5. QED
      BY <3>1, <3>3, <3>4
  <2>2. CASE i \in n + 1 .. n + Len(f.wal)
    <3>1. i - n \in DOMAIN f.wal /\ Entries(f)[i] = f.wal[i - n]
      BY <1>1, <1>2, <2>2
    <3>2. f.wal[i - n] \in Range(f.wal)
      BY <3>1 DEF Range
    <3>3. LoadTable(f)[k] \in {0, f.wal[i - n].value}
      BY <1>4, <3>1 DEF Says
    <3>4. f.wal # <<>>
      BY <3>1
    <3>5. QED
      BY <3>2, <3>3, <3>4
  <2>3. QED
    BY <1>1, <2>1, <2>2
<1>5. QED
  BY <1>3, <1>4, LoadedFrom

\* load_all_tables finds what the last full save of a table wrote, each record
\* under the key that its line is read back as, and nothing else, unless a
\* later save of the table was begun and not finished.
THEOREM FullSavesAreReadable == Spec => []FullSaveReadable
<1>1. StorageInv => FullSaveReadable
  <2>1. SUFFICES ASSUME StorageInv, NEW t \in Table, complete[t] # None,
                        t \notin dirty
                 PROVE  /\ file[t] # None
                        /\ ~file[t].torn
                        /\ \A k \in Key :
                              IF ReadBack(complete[t], k) = {}
                              THEN LoadTable(file[t])[k] = 0
                              ELSE LoadTable(file[t])[k]
                                      \in ReadBack(complete[t], k)
    BY DEF FullSaveReadable
  <2>2. complete[t] \in [Key -> Nat]
    BY <2>1 DEF StorageInv, TypeOK, Records
  <2>3. /\ copied[t] = complete[t]
        /\ file[t].wal = <<>>
        /\ Holds(file[t], complete[t], {})
    BY <2>1 DEF StorageInv, FileInv
  <2>4. /\ file[t] # None
        /\ ~file[t].torn
        /\ \A i \in DOMAIN file[t].lines :
              /\ file[t].lines[i].value = complete[t][file[t].lines[i].key]
              /\ file[t].lines[i].value # 0
    BY <2>1, <2>3 DEF StorageInv, FileInv
  <2>5. file[t] \in File
    BY <2>1, <2>4 DEF StorageInv, TypeOK
  <2>6. ASSUME NEW k \in Key
        PROVE  \/ LoadTable(file[t])[k] \in ReadBack(complete[t], k)
               \/ /\ LoadTable(file[t])[k] = 0
                  /\ ReadBack(complete[t], k) = {}
    <3>1. SUFFICES ASSUME NEW j \in Key \ Skipped, ReadAs[j] = k,
                          complete[t][j] # 0,
                          \A i \in DOMAIN file[t].lines :
                              ~Decides(Parse(file[t].lines[i]), k)
                   PROVE  FALSE
      BY <2>2, <2>3, <2>4, <2>5, LoadedFromCopy DEF ReadBack
    <3>2. PICK i \in DOMAIN file[t].lines : file[t].lines[i].key = j
      BY <2>3, <3>1 DEF Holds
    <3>3. Decides(Parse(file[t].lines[i]), k)
      BY <3>1, <3>2 DEF Decides, Parse
    <3>4. QED
      BY <3>1, <3>2, <3>3
  <2>7. QED
    BY <2>4, <2>6
<1>2. QED
  BY <1>1, StorageInvariant, PTL

\* What a kill or an error in the middle of save_to_cold leaves for the next
\* start: of the copy that was being written as much as was written, over what
\* an old WAL says, and nothing of the save before it; a node refuses to start
\* only after such a save.
THEOREM CutSavesLeaveParts == Spec => []CutSaveLeavesPart
<1>1. StorageInv => CutSaveLeavesPart
  <2>1. ASSUME StorageInv, NEW t \in Table, copied[t] # None, NEW k \in Key
        PROVE  /\ file[t] # None
               /\ LoadTable(file[t])[k] \in
                     {0} \cup ReadBack(copied[t], k)
                         \cup {e.value : e \in Range(file[t].wal)}
    <3>1. copied[t] \in [Key -> Nat]
      BY <2>1 DEF StorageInv, TypeOK, Records
    <3>2. /\ file[t] # None
          /\ \A i \in DOMAIN file[t].lines :
                /\ file[t].lines[i].value = copied[t][file[t].lines[i].key]
                /\ file[t].lines[i].value # 0
      BY <2>1 DEF StorageInv, FileInv
    <3>3. file[t] \in File
      BY <2>1, <3>2 DEF StorageInv, TypeOK
    <3>4. QED
      BY <3>1, <3>2, <3>3, LoadedFromCopy
  <2>2. ASSUME StorageInv, NEW t \in Table, copied[t] # None
        PROVE  file[t] # None
    BY <2>2 DEF StorageInv, FileInv
  <2>3. StorageInv => (status = "refused" => dirty # {})
    BY DEF StorageInv, FileInv, Torn
  <2>4. QED
    BY <2>1, <2>2, <2>3 DEF CutSaveLeavesPart
<1>2. QED
  BY <1>1, StorageInvariant, PTL

=============================================================================
