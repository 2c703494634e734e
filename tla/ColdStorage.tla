---------------------------- MODULE ColdStorage ----------------------------
(***************************************************************************)
(* The disk of one node: the periodic save and the reload of               *)
(* src/storage/persistance.rs, called from main, while requests go on      *)
(* changing the tables in memory and the process may be killed at any      *)
(* moment.                                                                 *)
(*                                                                         *)
(* A record is the number of the write that produced it, 0 where the key   *)
(* is absent.  A data file is the sequence of its lines, each with a key   *)
(* as it was written and a record, and whether what follows them is the    *)
(* beginning of a line only; base64, a nonce and AES do not matter to what *)
(* a reload finds.                                                         *)
(***************************************************************************)
EXTENDS Naturals, FiniteSets, SequencesExt

CONSTANTS
    Table,       \* table names
    Default,     \* the table that main creates when it is missing
    Key,         \* the keys of a table
    ReadAs,      \* ReadAs[k]: the key that a line for k is read back under
    Skipped,     \* the keys whose lines are not read back at all
    OldWal,      \* OldWal[t]: the entries found in the WAL at the first start
    MaxWrites,   \* how many PUTs clients send (a bound)
    MaxCrashes,  \* how often the process is killed (a bound)
    MaxErrors,   \* how many file operations fail (a bound)
    None

VARIABLES
    status,    \* of the process: "down", "up", or "refused" to start
    mem,       \* mem[t]: the records in memory, None without such a table
    file,      \* file[t]: what is in the directory of t, None without one
    at,        \* where the saver is
    todo,      \* the tables that this save has yet to write
    table,     \* the table that the saver is at
    unread,    \* the keys that the saver has yet to copy
    clone,     \* the copy that is to be written
    rest,      \* the keys of the copy that are not in the file yet
    writes,    \* writes so far
    crashes,   \* kills so far
    errors,    \* failed file operations so far
    before,    \* ghost: the records of the table when copying it began
    complete,  \* ghost: complete[t], the copy that the last full save wrote
    copied,    \* ghost: copied[t], the copy that the last save began to write
    dirty      \* ghost: the tables of which a save was begun and not finished

saverVars == <<at, todo, table, unread, clone, rest, before>>
boundVars == <<writes, crashes, errors>>
ghostVars == <<complete, copied, dirty>>
vars == <<status, mem, file, saverVars, boundVars, ghostVars>>

Records == [Key -> Nat]

Empty == [k \in Key |-> 0]

\* Other entries, unknown or not to be parsed, are printed and skipped.
WalEntry == [op : {"put", "delete", "other"}, key : Key, value : Nat]

Line == [key : Key, value : Nat]

File == [lines : Seq(Line), torn : BOOLEAN, wal : Seq(WalEntry)]

ASSUME StorageAssumption ==
    /\ Default \in Table
    /\ ReadAs \in [Key -> Key]
    /\ Skipped \subseteq Key
    /\ OldWal \in [Table -> Seq(WalEntry)]
    /\ None \notin Records
    /\ None \notin File
    /\ MaxWrites \in Nat
    /\ MaxCrashes \in Nat
    /\ MaxErrors \in Nat

-----------------------------------------------------------------------------
(* Requests, as far as the saver is concerned.                             *)

\* Seeded fault: the copy is not made under the guard of the table.
NotCopying(t) == FALSE

\* A handler that writes holds the shard of the table exclusively; the saver
\* holds it shared while it copies the table.
Copying(t) == at = "copy" /\ table = t

\* put_value, patch_value or put_value_internal: the table is made on demand.
Put(t, k) ==
    /\ status = "up"
    /\ writes < MaxWrites
    /\ ~Copying(t)
    /\ writes' = writes + 1
    /\ mem' = [mem EXCEPT ![t] =
          [(IF @ = None THEN Empty ELSE @) EXCEPT ![k] = writes']]
    /\ UNCHANGED <<status, file, saverVars, crashes, errors, ghostVars>>

\* delete_value holds the shard of the table shared.
Delete(t, k) ==
    /\ status = "up"
    /\ mem[t] # None
    /\ mem[t][k] # 0
    /\ mem' = [mem EXCEPT ![t][k] = 0]
    /\ UNCHANGED <<status, file, saverVars, boundVars, ghostVars>>

-----------------------------------------------------------------------------
(* cold_save and save_to_cold.                                             *)

\* Seeded fault: tables are looked up that are not there.
SaveBeginAll ==
    /\ status = "up"
    /\ at = "idle"
    /\ todo' = Table
    /\ at' = "next"
    /\ UNCHANGED <<status, mem, file, table, unread, clone, rest, before,
                   boundVars, ghostVars>>

\* The timer of cold_save fires: the names of the tables are listed.
SaveBegin ==
    /\ status = "up"
    /\ at = "idle"
    /\ todo' = {t \in Table : mem[t] # None}
    /\ at' = "next"
    /\ UNCHANGED <<status, mem, file, table, unread, clone, rest, before,
                   boundVars, ghostVars>>

\* The next table, in any order; the save is over when there is none.
SaveTable ==
    /\ at = "next"
    /\ \/ /\ todo = {}
          /\ at' = "idle"
          /\ UNCHANGED <<todo, table, unread, clone, before>>
       \/ \E t \in todo :
             /\ at' = "copy"
             /\ todo' = todo \ {t}
             /\ table' = t
             /\ unread' = Key
             /\ clone' = Empty
             /\ before' = mem[t]
    /\ UNCHANGED <<status, mem, file, rest, boundVars, ghostVars>>

\* data.iter() comes to one more key, in any order.
SaveCopy ==
    /\ at = "copy"
    /\ \E k \in unread :
          /\ clone' = [clone EXCEPT ![k] = mem[table][k]]
          /\ unread' = unread \ {k}
    /\ at' = IF unread' = {} THEN "create" ELSE "copy"
    /\ UNCHANGED <<status, mem, file, todo, table, rest, before, boundVars,
                   ghostVars>>

\* The entries of the WAL that are in the directory of table t.
Wal(t) == IF file[t] = None THEN <<>> ELSE file[t].wal

\* The directory of table t with nothing in its data file.
Emptied(t) == [lines |-> <<>>, torn |-> FALSE, wal |-> Wal(t)]

\* Seeded fault: the lines are appended to those of the last save.
SaveCreateAppending ==
    /\ at = "create"
    /\ file' = [file EXCEPT ![table] = IF @ = None THEN Emptied(table) ELSE @]
    /\ rest' = {k \in Key : clone[k] # 0}
    /\ copied' = [copied EXCEPT ![table] = clone]
    /\ dirty' = dirty \cup {table}
    /\ at' = "write"
    /\ UNCHANGED <<status, mem, todo, table, unread, clone, before, boundVars,
                   complete>>

\* create_dir_all; then File::create empties the data file of the last save.
SaveCreate ==
    /\ at = "create"
    /\ file' = [file EXCEPT ![table] = Emptied(table)]
    /\ rest' = {k \in Key : clone[k] # 0}
    /\ copied' = [copied EXCEPT ![table] = clone]
    /\ dirty' = dirty \cup {table}
    /\ at' = "write"
    /\ UNCHANGED <<status, mem, todo, table, unread, clone, before, boundVars,
                   complete>>

\* The line of one more key, in any order, is encrypted and appended.  (A chunk
\* of several lines is several steps: a file that ends between them is that of
\* a smaller chunk.)
SaveChunk ==
    /\ at = "write"
    /\ \E k \in rest :
          /\ file' = [file EXCEPT ![table].lines =
                Append(@, [key |-> k, value |-> clone[k]])]
          /\ rest' = rest \ {k}
    /\ UNCHANGED <<status, mem, at, todo, table, unread, clone, before,
                   boundVars, ghostVars>>

\* Seeded fault: the WAL is kept.
SaveEndKeepingWal ==
    /\ at = "write"
    /\ rest = {}
    /\ complete' = [complete EXCEPT ![table] = clone]
    /\ dirty' = dirty \ {table}
    /\ at' = "next"
    /\ UNCHANGED <<status, mem, file, todo, table, unread, clone, rest, before,
                   copied, boundVars>>

\* Seeded fault: the save returns after its first table.
SaveEndReturning ==
    /\ at = "write"
    /\ rest = {}
    /\ file' = [file EXCEPT ![table].wal = <<>>]
    /\ complete' = [complete EXCEPT ![table] = clone]
    /\ dirty' = dirty \ {table}
    /\ at' = "idle"
    /\ UNCHANGED <<status, mem, todo, table, unread, clone, rest, before,
                   copied, boundVars>>

\* When all records are written the WAL is emptied.
SaveEnd ==
    /\ at = "write"
    /\ rest = {}
    /\ file' = [file EXCEPT ![table].wal = <<>>]
    /\ complete' = [complete EXCEPT ![table] = clone]
    /\ dirty' = dirty \ {table}
    /\ at' = "next"
    /\ UNCHANGED <<status, mem, todo, table, unread, clone, rest, before,
                   copied, boundVars>>

\* What a write that does not end well leaves: a part of a chunk, or the new
\* directory without a data file.
Remains ==
    \/ file' = file
    \/ /\ at = "create"
       /\ file[table] = None
       /\ file' = [file EXCEPT ![table] = Emptied(table)]
    \/ /\ at = "write"
       /\ rest # {}
       /\ file' = [file EXCEPT ![table].torn = TRUE]

\* A file operation fails.  The error ends the whole save; cold_save prints it
\* and waits for the next one.
SaveError ==
    /\ at \in {"create", "write"}
    /\ errors < MaxErrors
    /\ errors' = errors + 1
    /\ Remains
    /\ at' = "idle"
    /\ todo' = {}
    /\ UNCHANGED <<status, mem, table, unread, clone, rest, before, writes,
                   crashes, ghostVars>>

-----------------------------------------------------------------------------
(* The process ends and starts.                                            *)

\* The process is killed.
Crash ==
    /\ status = "up"
    /\ crashes < MaxCrashes
    /\ crashes' = crashes + 1
    /\ status' = "down"
    /\ Remains
    /\ mem' = [t \in Table |-> None]
    /\ at' = "idle"
    /\ todo' = {}
    /\ UNCHANGED <<table, unread, clone, rest, before, writes, errors,
                   ghostVars>>

\* A line is cut at its first '=' and its key trimmed.  Blanks around a key are
\* lost, so that it is taken for the key without them; of a key with a newline
\* only what follows the newline is left.  A key with a '=' leaves text that is
\* not JSON, and the line is skipped.
Parse(line) ==
    [op |-> IF line.key \in Skipped THEN "other" ELSE "put",
     key |-> ReadAs[line.key],
     value |-> line.value]

\* What is read of a directory, in order: the data file, then the WAL.
Entries(f) == [i \in DOMAIN f.lines |-> Parse(f.lines[i])] \o f.wal

\* An entry is inserted, or it removes its key.
Replay(records, e) ==
    CASE e.op = "put" -> [records EXCEPT ![e.key] = e.value]
      [] e.op = "delete" -> [records EXCEPT ![e.key] = 0]
      [] OTHER -> records

\* What load_all_tables makes of the directory of a table.
LoadTable(f) == FoldLeft(Replay, Empty, Entries(f))

\* main creates the default table when the load has not.
WithDefault(m) ==
    [m EXCEPT ![Default] = IF @ = None THEN Empty ELSE @]

\* Some data file has a line that does not decrypt.
Torn == \E t \in Table : file[t] # None /\ file[t].torn

\* load_all_tables reads every directory and fills the store.
Load ==
    /\ status = "down"
    /\ ~Torn
    /\ status' = "up"
    /\ mem' = WithDefault([t \in Table |->
          IF file[t] = None THEN None ELSE LoadTable(file[t])])
    /\ UNCHANGED <<file, saverVars, boundVars, ghostVars>>

\* A line does not decrypt: process::exit(1).  So will every later start.
LoadRefused ==
    /\ status = "down"
    /\ Torn
    /\ status' = "refused"
    /\ UNCHANGED <<mem, file, saverVars, boundVars, ghostVars>>

\* Reading fails.  main prints the error and serves an empty store.
LoadError ==
    /\ status = "down"
    /\ errors < MaxErrors
    /\ errors' = errors + 1
    /\ status' = "up"
    /\ mem' = WithDefault([t \in Table |-> None])
    /\ UNCHANGED <<file, saverVars, writes, crashes, ghostVars>>

-----------------------------------------------------------------------------

\* The first start, possibly in a directory with a WAL of a build that wrote
\* one (append_to_wal is commented out).  Write 1 stands for what is in there.
Init ==
    /\ status = "down"
    /\ mem = [t \in Table |-> None]
    /\ file = [t \in Table |->
          IF OldWal[t] = <<>> THEN None
          ELSE [lines |-> <<>>, torn |-> FALSE, wal |-> OldWal[t]]]
    /\ at = "idle"
    /\ todo = {}
    /\ table = Default
    /\ unread = {}
    /\ clone = Empty
    /\ rest = {}
    /\ writes = 1
    /\ crashes = 0
    /\ errors = 0
    /\ before = Empty
    /\ complete = [t \in Table |-> None]
    /\ copied = [t \in Table |-> None]
    /\ dirty = {}

ClientStep == \E t \in Table, k \in Key : Put(t, k) \/ Delete(t, k)

SaverStep ==
    SaveBegin \/ SaveTable \/ SaveCopy \/ SaveCreate \/ SaveChunk \/ SaveEnd

StartStep == Load \/ LoadRefused

Next ==
    ClientStep \/ SaverStep \/ SaveError \/ Crash \/ StartStep \/ LoadError

Spec == Init /\ [][Next]_vars

\* The timer fires and the saver goes on; a process that was killed is started
\* again by its supervisor.
FairSpec == Spec /\ WF_vars(SaverStep) /\ WF_vars(StartStep)

-----------------------------------------------------------------------------
(* Properties.                                                             *)

TypeOK ==
    /\ status \in {"down", "up", "refused"}
    /\ mem \in [Table -> Records \cup {None}]
    /\ file \in [Table -> File \cup {None}]
    /\ at \in {"idle", "next", "copy", "create", "write"}
    /\ todo \subseteq Table
    /\ table \in Table
    /\ unread \subseteq Key
    /\ clone \in Records
    /\ rest \subseteq Key
    /\ writes \in Nat
    /\ crashes \in Nat
    /\ errors \in Nat
    /\ before \in Records
    /\ complete \in [Table -> Records \cup {None}]
    /\ copied \in [Table -> Records \cup {None}]
    /\ dirty \subseteq Table

\* The records among these that come back under k: one, for most keys, but more
\* when other keys are taken for k.
ReadBack(records, k) ==
    {records[j] : j \in {i \in Key \ Skipped : ReadAs[i] = k}} \ {0}

\* A reload finds what the last full save of a table wrote, under the keys that
\* its lines are read back as, and nothing else, unless a later save of the
\* table was begun and not finished: nothing else that happens (errors, crashes,
\* saves of other tables, entries of an old WAL) can take a record away, bring
\* back a deleted one or give a key the record of one not taken for it.
FullSaveReadable ==
    \A t \in Table : (complete[t] # None /\ t \notin dirty) =>
        /\ file[t] # None
        /\ ~file[t].torn
        /\ \A k \in Key :
              IF ReadBack(complete[t], k) = {} THEN LoadTable(file[t])[k] = 0
              ELSE LoadTable(file[t])[k] \in ReadBack(complete[t], k)

\* A save that was cut short leaves a part of the copy it was writing, over what
\* an old WAL says, and nothing of the save before it; and the node refuses to
\* start only after such a save.
CutSaveLeavesPart ==
    /\ \A t \in Table : copied[t] # None =>
          /\ file[t] # None
          /\ \A k \in Key :
                LoadTable(file[t])[k] \in
                    {0} \cup ReadBack(copied[t], k)
                        \cup {e.value : e \in Range(file[t].wal)}
    /\ status = "refused" => dirty # {}

\* The copy that is written is the table as it was at one moment, but for
\* records deleted meanwhile: no PUT falls between two keys of the copy.
CopyIsACut ==
    at \in {"create", "write"} =>
        \A k \in Key : clone[k] \in {before[k], 0}

\* A process that stays up has, in the end, saved what it holds.
EventuallySaved ==
    <>[](status = "up" =>
            \A t \in Table : mem[t] # None => complete[t] = mem[t])

-----------------------------------------------------------------------------
(* The inductive invariant behind the safety properties.                   *)

\* The saver is at tables that are there, and while it copies one only deletes
\* change it.
SaverInv ==
    /\ IF at = "idle" THEN todo = {} ELSE status = "up"
    /\ \A t \in todo : mem[t] # None
    /\ at = "copy" =>
          /\ mem[table] # None
          /\ \A k \in Key : /\ clone[k] \in {before[k], 0}
                            /\ mem[table][k] \in {before[k], 0}
    /\ CopyIsACut

\* Every record of the copy but those of keys ks has a line in the file.
Holds(f, records, ks) ==
    \A k \in Key \ ks : records[k] # 0 =>
        \E i \in DOMAIN f.lines : f.lines[i].key = k

\* The lines of a file are those of the last save begun: all of them, and no
\* WAL, when it was finished, and what the saver has taken from its copy while
\* it is at it.
FileInv ==
    /\ \A t \in Table : copied[t] # None =>
          /\ file[t] # None
          /\ \A i \in DOMAIN file[t].lines :
                /\ file[t].lines[i].value = copied[t][file[t].lines[i].key]
                /\ file[t].lines[i].value # 0
    /\ \A t \in Table : file[t] # None /\ file[t].torn => t \in dirty
    /\ \A t \in Table : (complete[t] # None /\ t \notin dirty) =>
          /\ copied[t] = complete[t]
          /\ file[t].wal = <<>>
          /\ Holds(file[t], copied[t], {})
    /\ at = "write" =>
          /\ table \in dirty
          /\ copied[table] = clone
          /\ ~file[table].torn
          /\ Holds(file[table], clone, rest)
          /\ \A k \in rest : clone[k] # 0
    /\ status = "refused" => Torn

\* What the copy and the files rest on, in every state.
StorageInv == TypeOK /\ SaverInv /\ FileInv

=============================================================================
