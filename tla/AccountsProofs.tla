--------------------------- MODULE AccountsProofs ---------------------------
(***************************************************************************)
(* Theorems about Accounts, for any nodes, views, users and secrets.       *)
(***************************************************************************)
EXTENDS Accounts, TLAPS

LEMMA HashType ==
    ASSUME NEW s \in Secret
    PROVE  Sha256(s) \in Hash
  BY DEF Hash

LEMMA SentType ==
    ASSUME NEW kind \in {"access", "merge", "delete"},
           NEW view \in SUBSET Node, NEW rec \in Record \cup {None},
           requests' \in Nat
    PROVE  /\ Sent(kind, view, rec) \subseteq Replication
           /\ \A r \in Sent(kind, view, rec) : r.kind = kind /\ r.rec = rec
           /\ \A m \in view : \E r \in Sent(kind, view, rec) : r.to = m
<1>1. Sent(kind, view, rec) \subseteq Replication
  BY DEF Sent, Replication
<1>2. \A r \in Sent(kind, view, rec) : r.kind = kind /\ r.rec = rec
  BY DEF Sent
<1>3. ASSUME NEW m \in view
      PROVE  \E r \in Sent(kind, view, rec) : r.to = m
  <2>. DEFINE r == [kind |-> kind, to |-> m, rec |-> rec, id |-> requests']
  <2>1. r \in Sent(kind, view, rec) /\ r.to = m
    BY DEF Sent
  <2>2. QED
    BY <2>1
<1>4. QED
  BY <1>1, <1>2, <1>3

LEMMA InitInv == Init => AccountsInv
<1>. SUFFICES ASSUME Init PROVE AccountsInv
  OBVIOUS
<1>1. auth \in [Node -> Record \cup {None}] /\ \A n \in Node : auth[n] = None
  BY DEF Init
<1>2. QED
  BY <1>1 DEF Init, AccountsInv, AccountsTypeOK, Provenance,
              TokensFollowWrites, Covered

-----------------------------------------------------------------------------
(* Steps, from what they have in common.                                   *)

\* What was stored stays stored.
LEMMA StoredStays ==
    ASSUME created \subseteq created', written \subseteq written', NEW h,
           Stored(h)
    PROVE  Stored(h)'
  BY DEF Stored

\* A step that stores only what somebody has stored, and sends only that.
LEMMA ProvenanceStep ==
    ASSUME AccountsInv,
           created \subseteq created', written \subseteq written',
           \A n \in Node : \/ auth'[n] = auth[n]
                           \/ auth'[n] = None
                           \/ Stored(auth[n].secret)',
           \A r \in sending' \ sending :
               IF r.kind = "delete" THEN written' # {}
               ELSE r.rec # None /\ Stored(r.rec.secret)'
    PROVE  Provenance'
<1>1. ASSUME NEW n \in Node, auth'[n] # None
      PROVE  Stored(auth[n].secret)'
  <2>1. CASE auth'[n] = auth[n]
    <3>1. Stored(auth[n].secret)
      BY <1>1, <2>1 DEF AccountsInv, Provenance
    <3>2. QED
      BY <2>1, <3>1 DEF Stored
  <2>2. QED
    BY <1>1, <2>1
<1>2. ASSUME NEW r \in sending'
      PROVE  IF r.kind = "delete" THEN written' # {}
             ELSE r.rec # None /\ Stored(r.rec.secret)'
  <2>1. CASE r \in sending
    <3>1. IF r.kind = "delete" THEN written # {}
          ELSE r.rec # None /\ Stored(r.rec.secret)
      BY <2>1 DEF AccountsInv, Provenance
    <3>2. CASE r.kind = "delete"
      BY <3>1, <3>2
    <3>3. CASE r.kind # "delete"
      BY <3>1, <3>3, StoredStays
    <3>4. QED
      BY <3>2, <3>3
  <2>2. CASE r \notin sending
    BY <2>2
  <2>3. QED
    BY <2>1, <2>2
<1>3. QED
  BY <1>1, <1>2 DEF Provenance

LEMMA RegisterStep ==
    ASSUME Sensible, AccountsInv, NEW n \in Node, NEW s \in Secret,
           NEW view \in Views, Register(n, s, view)
    PROVE  AccountsInv'
<1>. DEFINE rec == [secret |-> Sha256(s), owner |-> Name]
            sent == Sent("access", view \ {n}, rec)
<1>0. AccountsTypeOK /\ Provenance /\ TokensFollowWrites /\ Covered
  BY DEF AccountsInv
<1>1. /\ auth' = [auth EXCEPT ![n] = rec]
      /\ created' = created \cup {s}
      /\ granted' = granted \cup {s}
      /\ requests' = requests + 1
      /\ sending' = sending \cup sent
      /\ lost' = (lost \/ view \cup {n} # Node)
      /\ written' = written
  BY DEF Register, Request
<1>2. requests' \in Nat
  BY <1>0, <1>1 DEF AccountsTypeOK
<1>3. rec \in Record /\ rec.secret = Sha256(s) /\ rec # None
  BY HashType DEF Record, Sensible
<1>4. view \ {n} \in SUBSET Node
  BY DEF Sensible
<1>. HIDE DEF rec
<1>5. /\ sent \subseteq Replication
      /\ \A r \in sent : r.kind = "access" /\ r.rec = rec
      /\ \A m \in view \ {n} : \E r \in sent : r.to = m
  BY <1>2, <1>3, <1>4, SentType
<1>. HIDE DEF sent
<1>6. auth'[n] = rec /\ \A m \in Node \ {n} : auth'[m] = auth[m]
  BY <1>0, <1>1 DEF AccountsTypeOK
<1>7. Stored(Sha256(s))'
  BY <1>1 DEF Stored
<1>8. AccountsTypeOK'
  BY <1>0, <1>1, <1>2, <1>3, <1>5 DEF AccountsTypeOK
<1>9. Provenance'
  <2>1. \A m \in Node : auth'[m] = auth[m] \/ Stored(auth[m].secret)'
    BY <1>3, <1>6, <1>7
  <2>2. \A r \in sending' \ sending : /\ r.kind # "delete"
                                      /\ r.rec # None
                                      /\ Stored(r.rec.secret)'
    BY <1>1, <1>3, <1>5, <1>7
  <2>3. QED
    BY <1>1, <2>1, <2>2, ProvenanceStep
<1>10. TokensFollowWrites'
  BY <1>0, <1>1, <1>7, StoredStays DEF TokensFollowWrites
<1>11. Covered'
  <2>. SUFFICES ASSUME Unraced', ~lost', NEW t \in created', NEW m \in Node
                PROVE  \/ auth'[m] # None /\ auth'[m].secret = Sha256(t)
                       \/ \E r \in sending' : r.kind = "access" /\ r.to = m
    BY DEF Covered
  <2>1. t = s
    BY <1>1 DEF Unraced
  <2>2. view \cup {n} = Node
    BY <1>1, Zenon
  <2>3. CASE m = n
    BY <1>3, <1>6, <2>1, <2>3
  <2>4. CASE m # n
    <3>1. PICK r \in sent : r.to = m
      BY <1>5, <2>2, <2>4
    <3>2. QED
      BY <1>1, <1>5, <3>1
  <2>5. QED
    BY <2>3, <2>4
<1>12. QED
  BY <1>8, <1>9, <1>10, <1>11 DEF AccountsInv

LEMMA LoginStep ==
    ASSUME AccountsInv, NEW n \in Node, NEW s \in Secret, Login(n, s)
    PROVE  AccountsInv'
<1>0. AccountsTypeOK /\ Provenance /\ TokensFollowWrites /\ Covered
  BY DEF AccountsInv
<1>1. /\ granted' = granted \cup {s}
      /\ requests' = requests + 1
      /\ UNCHANGED <<auth, sending, created, written, lost>>
  BY DEF Login, Request
<1>2. Stored(Sha256(s))
  BY <1>0 DEF Login, Provenance
<1>3. AccountsTypeOK'
  BY <1>0, <1>1 DEF AccountsTypeOK
<1>4. Provenance'
  BY <1>0, <1>1 DEF Provenance, Stored
<1>5. TokensFollowWrites'
  BY <1>0, <1>1, <1>2 DEF TokensFollowWrites, Stored
<1>6. Covered'
  BY <1>0, <1>1 DEF Covered, Unraced
<1>7. QED
  BY <1>3, <1>4, <1>5, <1>6 DEF AccountsInv

\* Once another route has written or removed the record, Covered says nothing.
LEMMA WriteStep ==
    ASSUME Sensible, AccountsInv, NEW n \in Node, NEW u \in User,
           NEW view \in Views, NEW h \in Hash \cup {None}, Write(n, u, h, view)
    PROVE  AccountsInv'
<1>. DEFINE owner == IF auth[n] = None THEN u ELSE auth[n].owner
            rec == [secret |-> h, owner |-> owner]
            sent == Sent("merge", view, rec)
<1>0. AccountsTypeOK /\ Provenance /\ TokensFollowWrites
  BY DEF AccountsInv
<1>1. /\ auth' = [auth EXCEPT ![n] = rec]
      /\ requests' = requests + 1
      /\ sending' = sending \cup sent
      /\ written' = written \cup {h}
      /\ UNCHANGED <<granted, created, lost>>
  BY DEF Write, Request
<1>2. requests' \in Nat
  BY <1>0, <1>1 DEF AccountsTypeOK
<1>3. owner \in User
  BY <1>0 DEF AccountsTypeOK, Record
<1>. HIDE DEF owner
<1>4. rec \in Record /\ rec.secret = h /\ rec # None
  BY <1>3 DEF Record, Sensible
<1>5. view \in SUBSET Node
  BY DEF Sensible
<1>. HIDE DEF rec
<1>6. /\ sent \subseteq Replication
      /\ \A r \in sent : r.kind = "merge" /\ r.rec = rec
  BY <1>2, <1>4, <1>5, SentType
<1>. HIDE DEF sent
<1>7. Stored(h)'
  BY <1>1 DEF Stored
<1>8. AccountsTypeOK'
  BY <1>0, <1>1, <1>2, <1>4, <1>6 DEF AccountsTypeOK
<1>9. Provenance'
  <2>1. \A m \in Node : auth'[m] = auth[m] \/ Stored(auth[m].secret)'
    BY <1>0, <1>1, <1>4, <1>7 DEF AccountsTypeOK
  <2>2. \A r \in sending' \ sending : /\ r.kind # "delete"
                                      /\ r.rec # None
                                      /\ Stored(r.rec.secret)'
    BY <1>1, <1>4, <1>6, <1>7
  <2>3. QED
    BY <1>1, <2>1, <2>2, ProvenanceStep
<1>10. TokensFollowWrites'
  BY <1>0, <1>1, StoredStays DEF TokensFollowWrites
<1>11. Covered'
  BY <1>1 DEF Covered, Unraced
<1>12. QED
  BY <1>8, <1>9, <1>10, <1>11 DEF AccountsInv

LEMMA DeleteStep ==
    ASSUME Sensible, AccountsInv, NEW n \in Node, NEW u \in User,
           NEW view \in Views, Delete(n, u, view)
    PROVE  AccountsInv'
<1>. DEFINE sent == Sent("delete", view \ {n}, None)
<1>0. AccountsTypeOK /\ Provenance /\ TokensFollowWrites
  BY DEF AccountsInv
<1>1. /\ auth' = [auth EXCEPT ![n] = None]
      /\ requests' = requests + 1
      /\ sending' = sending \cup sent
      /\ written' = written \cup {None}
      /\ UNCHANGED <<granted, created, lost>>
  BY DEF Delete, Request
<1>2. requests' \in Nat
  BY <1>0, <1>1 DEF AccountsTypeOK
<1>3. view \ {n} \in SUBSET Node
  BY DEF Sensible
<1>4. sent \subseteq Replication /\ \A r \in sent : r.kind = "delete"
  BY <1>2, <1>3, SentType
<1>. HIDE DEF sent
<1>5. AccountsTypeOK'
  BY <1>0, <1>1, <1>2, <1>4 DEF AccountsTypeOK
<1>6. Provenance'
  <2>1. \A m \in Node : auth'[m] = auth[m] \/ auth'[m] = None
    BY <1>0, <1>1 DEF AccountsTypeOK
  <2>2. \A r \in sending' \ sending : r.kind = "delete" /\ written' # {}
    BY <1>1, <1>4
  <2>3. QED
    BY <1>1, <2>1, <2>2, ProvenanceStep
<1>7. TokensFollowWrites'
  BY <1>0, <1>1, StoredStays DEF TokensFollowWrites
<1>8. Covered'
  BY <1>1 DEF Covered, Unraced
<1>9. QED
  BY <1>5, <1>6, <1>7, <1>8 DEF AccountsInv

LEMMA RepairStep ==
    ASSUME Sensible, AccountsInv, NEW n \in Node, NEW view \in Views,
           Repair(n, view)
    PROVE  AccountsInv'
<1>. DEFINE sent == Sent("merge", view, auth[n])
<1>0. AccountsTypeOK /\ Provenance /\ TokensFollowWrites /\ Covered
  BY DEF AccountsInv
<1>1. /\ auth[n] # None
      /\ requests' = requests + 1
      /\ sending' = sending \cup sent
      /\ UNCHANGED <<auth, granted, created, written, lost>>
  BY DEF Repair, Request
<1>2. requests' \in Nat
  BY <1>0, <1>1 DEF AccountsTypeOK
<1>3. view \in SUBSET Node /\ auth[n] \in Record
  BY <1>0, <1>1 DEF Sensible, AccountsTypeOK
<1>4. /\ sent \subseteq Replication
      /\ \A r \in sent : r.kind = "merge" /\ r.rec = auth[n]
  BY <1>2, <1>3, SentType
<1>. HIDE DEF sent
<1>5. AccountsTypeOK'
  BY <1>0, <1>1, <1>2, <1>4 DEF AccountsTypeOK
<1>6. Stored(auth[n].secret)
  BY <1>0, <1>1 DEF Provenance
<1>7. Provenance'
  <2>1. \A r \in sending' \ sending : /\ r.kind # "delete"
                                      /\ r.rec # None
                                      /\ Stored(r.rec.secret)'
    BY <1>1, <1>4, <1>6 DEF Stored
  <2>2. QED
    BY <1>1, <2>1, ProvenanceStep
<1>8. TokensFollowWrites'
  BY <1>0, <1>1, StoredStays DEF TokensFollowWrites
<1>9. Covered'
  BY <1>0, <1>1 DEF Covered, Unraced
<1>10. QED
  BY <1>5, <1>7, <1>8, <1>9 DEF AccountsInv

\* A request that arrives stores what somebody has stored; while only one
\* secret is in use it is that one.
LEMMA ArrivalStep ==
    ASSUME AccountsInv, NEW r \in sending,
           Replicate(r) \/ Merge(r) \/ Remove(r) \/ Fail(r)
    PROVE  AccountsInv'
<1>0. AccountsTypeOK /\ Provenance /\ TokensFollowWrites /\ Covered
  BY DEF AccountsInv
<1>1. /\ sending' \in {sending, sending \ {r}}
      /\ UNCHANGED <<granted, created, written, requests>>
      /\ lost' = (lost \/ (Fail(r) /\ r.kind = "access"))
  BY <1>0 DEF Replicate, Merge, Remove, Fail, AccountsTypeOK
<1>2. /\ r \in Replication
      /\ auth \in [Node -> Record \cup {None}]
  BY <1>0 DEF AccountsTypeOK
<1>3. /\ r.to \in Node
      /\ r.rec \in Record \cup {None}
  BY <1>2 DEF Replication
<1>4. /\ \A m \in Node \ {r.to} : auth'[m] = auth[m]
      /\ auth'[r.to] \in {auth[r.to], r.rec, None}
      /\ auth'[r.to] # auth[r.to] =>
            IF r.kind = "delete" THEN auth'[r.to] = None
            ELSE auth'[r.to] = r.rec
      /\ auth' \in [Node -> Record \cup {None}]
  <2>1. CASE Replicate(r)
    BY <1>2, <1>3, <2>1 DEF Replicate
  <2>2. CASE Merge(r)
    <3>1. PICK rec \in {r.rec} \cup ({auth[r.to]} \ {None}) :
              auth' = [auth EXCEPT ![r.to] = rec]
      BY <2>2 DEF Merge
    <3>2. r.kind = "merge"
      BY <2>2 DEF Merge
    <3>3. QED
      BY <1>2, <1>3, <3>1, <3>2
  <2>3. CASE Remove(r)
    BY <1>2, <1>3, <2>3 DEF Remove
  <2>4. CASE Fail(r)
    BY <1>2, <2>4 DEF Fail
  <2>5. QED
    BY <2>1, <2>2, <2>3, <2>4
<1>5. IF r.kind = "delete" THEN written # {}
      ELSE r.rec # None /\ Stored(r.rec.secret)
  BY <1>0 DEF Provenance
<1>6. AccountsTypeOK'
  BY <1>0, <1>1, <1>4 DEF AccountsTypeOK
<1>7. Provenance'
  <2>1. \A m \in Node : \/ auth'[m] = auth[m]
                        \/ auth'[m] = None
                        \/ Stored(auth[m].secret)'
    <3>1. CASE auth'[r.to] = auth[r.to]
      BY <1>4, <3>1
    <3>2. CASE auth'[r.to] = None
      BY <1>4, <3>2
    <3>3. CASE auth'[r.to] = r.rec /\ r.kind # "delete"
      <4>1. Stored(r.rec.secret)'
        BY <1>1, <1>5, <3>3 DEF Stored
      <4>2. QED
        BY <1>4, <3>3, <4>1
    <3>4. QED
      BY <1>4, <3>1, <3>2, <3>3
  <2>2. sending' \ sending = {}
    BY <1>1
  <2>3. QED
    BY <1>1, <2>1, <2>2, ProvenanceStep
<1>8. TokensFollowWrites'
  BY <1>0, <1>1 DEF TokensFollowWrites, Stored
<1>9. Covered'
  <2>. SUFFICES ASSUME Unraced', ~lost', NEW t \in created', NEW m \in Node
                PROVE  \/ auth'[m] # None /\ auth'[m].secret = Sha256(t)
                       \/ \E q \in sending' : q.kind = "access" /\ q.to = m
    BY DEF Covered
  <2>1. Unraced /\ t \in created /\ written = {}
    BY <1>1 DEF Unraced
  <2>2. ~lost /\ (Fail(r) => r.kind # "access")
    BY <1>1, Zenon
  <2>3. r.kind # "delete" /\ r.rec # None /\ r.rec.secret = Sha256(t)
    BY <1>5, <2>1 DEF Stored, Unraced
  <2>4. \/ auth[m] # None /\ auth[m].secret = Sha256(t)
        \/ \E q \in sending : q.kind = "access" /\ q.to = m
    BY <1>0, <2>1, <2>2 DEF Covered
  <2>5. CASE auth[m] # None /\ auth[m].secret = Sha256(t)
    BY <1>4, <2>3, <2>5
  <2>6. ASSUME NEW q \in sending, q.kind = "access", q.to = m
        PROVE  \/ auth'[m] # None /\ auth'[m].secret = Sha256(t)
               \/ \E p \in sending' : p.kind = "access" /\ p.to = m
    <3>1. CASE q \in sending'
      BY <2>6, <3>1
    <3>2. CASE q \notin sending'
      <4>1. q = r
        BY <1>1, <3>2
      <4>2. Replicate(r)
        BY <2>2, <2>6, <4>1 DEF Merge, Remove
      <4>3. auth'[m] = r.rec
        BY <1>2, <1>3, <2>6, <4>1, <4>2 DEF Replicate
      <4>4. QED
        BY <2>3, <4>3
    <3>3. QED
      BY <3>1, <3>2
  <2>7. QED
    BY <2>4, <2>5, <2>6
<1>10. QED
  BY <1>6, <1>7, <1>8, <1>9 DEF AccountsInv

LEMMA NextInv ==
    ASSUME Sensible, AccountsInv, [Next]_vars
    PROVE  AccountsInv'
<1>1. ASSUME NEW n \in Node, AccessStep(n)
      PROVE  AccountsInv'
  BY <1>1, RegisterStep, LoginStep DEF AccessStep
<1>2. ASSUME NEW n \in Node, KeyValueStep(n)
      PROVE  AccountsInv'
  BY <1>2, WriteStep, DeleteStep, RepairStep DEF KeyValueStep
<1>3. CASE UNCHANGED vars
  <2>1. UNCHANGED <<auth, sending, granted, created, written, requests, lost>>
    BY <1>3 DEF vars
  <2>2. AccountsTypeOK'
    BY <2>1 DEF AccountsInv, AccountsTypeOK
  <2>3. Provenance' /\ TokensFollowWrites'
    BY <2>1 DEF AccountsInv, Provenance, TokensFollowWrites, Stored
  <2>4. Covered'
    BY <2>1 DEF AccountsInv, Covered, Unraced
  <2>5. QED
    BY <2>2, <2>3, <2>4 DEF AccountsInv
<1>4. QED
  BY <1>1, <1>2, <1>3, ArrivalStep DEF Next

-----------------------------------------------------------------------------
(* What is proved of the specification.                                    *)

\* The inductive invariant of the accounts, whatever registrations, logins and
\* requests of the key-value and the admin routes do to the record.
THEOREM AccountsInvariant ==
    ASSUME Sensible
    PROVE  Spec => []AccountsInv
<1>1. Init => AccountsInv
  BY InitInv
<1>2. AccountsInv /\ [Next]_vars => AccountsInv'
  BY NextInv
<1>3. QED
  BY <1>1, <1>2, PTL DEF Spec

\* access issues a token only for a secret whose hash somebody has stored in
\* the record, by a registration or by a PUT or PATCH of the record: neither
\* replication nor read repair makes one up, at any node.
THEOREM TokensNeedStoredSecrets ==
    ASSUME Sensible
    PROVE  Spec => []TokensFollowWrites
<1>1. AccountsInv => TokensFollowWrites
  BY DEF AccountsInv
<1>2. QED
  BY <1>1, AccountsInvariant, PTL

\* As long as nobody registers the user with a second secret and no other route
\* writes or removes the record, the promise of the test suite holds: when
\* replication has ended without a failure the user can authenticate at every
\* node, whatever read repair has copied.
THEOREM UnracedAuthenticatesAnywhere ==
    ASSUME Sensible
    PROVE  Spec => [](Unraced => AuthenticatesAnywhere)
<1>1. AccountsInv => (Unraced => AuthenticatesAnywhere)
  <2>. SUFFICES ASSUME AccountsInv, Unraced, created # {}, sending = {}, ~lost
                PROVE  \E s \in Secret : \A n \in Node :
                           auth[n] # None /\ auth[n].secret = Sha256(s)
    BY DEF AuthenticatesAnywhere
  <2>1. PICK s \in created : TRUE
    OBVIOUS
  <2>2. s \in Secret
    BY <2>1 DEF AccountsInv, AccountsTypeOK
  <2>3. \A n \in Node : auth[n] # None /\ auth[n].secret = Sha256(s)
    BY <2>1 DEF AccountsInv, Covered
  <2>4. QED
    BY <2>2, <2>3
<1>2. QED
  BY <1>1, AccountsInvariant, PTL

=============================================================================
