------------------------------ MODULE Accounts ------------------------------
(***************************************************************************)
(* Registration and login, the handler `access` of                         *)
(* src/security/authentication.rs, for one user name.  The shard of the    *)
(* `auth` table is locked from the lookup to the insert, so a request is   *)
(* one step.  A registration is sent once to every other active node and   *)
(* replaces what that node holds.                                          *)
(*                                                                         *)
(* The record is also within reach of the key-value and the admin routes:  *)
(* /auth/key/<name> is a key like any other.  Which of two versions such a *)
(* request leaves at a node is decided by vector clocks and timestamps     *)
(* (ReplicatedStore); they are left out here, and either may win.          *)
(***************************************************************************)
EXTENDS Naturals, FiniteSets

CONSTANTS
    Node,
    User,         \* those who own records
    Name,         \* the user that the account is for
    Admin,        \* the owner of records that the dashboard creates
    Secret,       \* what clients may send as the secret
    Views,        \* the sets of nodes that a node may list as Active
    MaxRequests,  \* how many requests clients send (a bound)
    None

VARIABLES
    auth,      \* auth[n]: node n's record of the user, or None
    sending,   \* replication requests under way
    granted,   \* ghost: the secrets for which a node has issued a token
    created,   \* ghost: those for which it made a new account
    written,   \* ghost: what other routes stored as the secret, None: removed
    requests,  \* requests so far
    lost       \* ghost: some node was not sent a registration, or not reached

vars == <<auth, sending, granted, created, written, requests, lost>>

\* hex::encode(Sha256(secret)), taken to be injective.
Sha256(secret) == <<"sha256", secret>>

Hash == {Sha256(s) : s \in Secret}

\* A record whose secret is missing, or is the hash of nothing, has None.
Record == [secret : Hash \cup {None}, owner : User]

\* A request to node m: of `access`, of a PUT, PATCH or read repair, or of a
\* DELETE.  The id tells two client requests apart.
Replication ==
    [kind : {"access", "merge", "delete"}, to : Node, rec : Record \cup {None},
     id : Nat]

\* Another client request.
Request ==
    /\ requests < MaxRequests
    /\ requests' = requests + 1

\* The request to every node of a view.
Sent(kind, view, rec) ==
    {[kind |-> kind, to |-> m, rec |-> rec, id |-> requests'] : m \in view}

-----------------------------------------------------------------------------
(* access.                                                                 *)

\* The user is new to node n: the hash is stored and sent to the others.
Register(n, s, view) ==
    /\ auth[n] = None
    /\ Request
    /\ LET new_rec == [secret |-> Sha256(s), owner |-> Name]
       IN  /\ auth' = [auth EXCEPT ![n] = new_rec]
           /\ sending' = sending \cup Sent("access", view \ {n}, new_rec)
    /\ granted' = granted \cup {s}
    /\ created' = created \cup {s}
    /\ lost' = (lost \/ view \cup {n} # Node)
    /\ UNCHANGED written

\* The user logs in.  (With another secret the answer is 401, with a record
\* that has none it is 500; nothing changes.)
Login(n, s) ==
    /\ auth[n] # None
    /\ auth[n].secret = Sha256(s)
    /\ Request
    /\ granted' = granted \cup {s}
    /\ UNCHANGED <<auth, sending, created, written, lost>>

\* The internal branch: the record is stored as it is, whatever was there.
Replicate(r) ==
    /\ r.kind = "access"
    /\ auth' = [auth EXCEPT ![r.to] = r.rec]
    /\ sending' = sending \ {r}
    /\ UNCHANGED <<granted, created, written, requests, lost>>

-----------------------------------------------------------------------------
(* The other routes.                                                       *)

\* u may change the record at node n: with a token of its owner (Name has one
\* once a node has issued it), or from the dashboard.
MayWrite(u, n) ==
    /\ u = Name => granted # {}
    /\ (auth[n] # None /\ u # Admin) => auth[n].owner = u

\* put_value, patch_value or admin_put_record gives the record secret h.
Write(n, u, h, view) ==
    /\ MayWrite(u, n)
    /\ Request
    /\ LET owner == IF auth[n] = None THEN u ELSE auth[n].owner
           new_value == [secret |-> h, owner |-> owner]
       IN  /\ auth' = [auth EXCEPT ![n] = new_value]
           /\ sending' = sending \cup Sent("merge", view, new_value)
    /\ written' = written \cup {h}
    /\ UNCHANGED <<granted, created, lost>>

\* delete_value or admin_delete_record removes it.
Delete(n, u, view) ==
    /\ auth[n] # None
    /\ MayWrite(u, n)
    /\ Request
    /\ auth' = [auth EXCEPT ![n] = None]
    /\ sending' = sending \cup Sent("delete", view \ {n}, None)
    /\ written' = written \cup {None}
    /\ UNCHANGED <<granted, created, lost>>

\* get_value repairs the nodes of a view with what node n answered.
Repair(n, view) ==
    /\ auth[n] # None
    /\ Request
    /\ sending' = sending \cup Sent("merge", view, auth[n])
    /\ UNCHANGED <<auth, granted, created, written, lost>>

\* put_value_internal: the version that wins stays.  The sender may not learn
\* of it, and send the version again.
Merge(r) ==
    /\ r.kind = "merge"
    /\ \E rec \in {r.rec} \cup ({auth[r.to]} \ {None}) :
          auth' = [auth EXCEPT ![r.to] = rec]
    /\ sending' \in {sending, sending \ {r}}
    /\ UNCHANGED <<granted, created, written, requests, lost>>

\* The internal branch of delete_value; it may be sent again too.
Remove(r) ==
    /\ r.kind = "delete"
    /\ auth' = [auth EXCEPT ![r.to] = None]
    /\ sending' \in {sending, sending \ {r}}
    /\ UNCHANGED <<granted, created, written, requests, lost>>

\* The request fails for good.  Nobody tries again.
Fail(r) ==
    /\ sending' = sending \ {r}
    /\ lost' = (lost \/ r.kind = "access")
    /\ UNCHANGED <<auth, granted, created, written, requests>>

-----------------------------------------------------------------------------

Init ==
    /\ auth = [n \in Node |-> None]
    /\ sending = {}
    /\ granted = {}
    /\ created = {}
    /\ written = {}
    /\ requests = 0
    /\ lost = FALSE

AccessStep(n) ==
    \E s \in Secret : Login(n, s) \/ \E view \in Views : Register(n, s, view)

KeyValueStep(n) ==
    \E view \in Views :
        \/ \E u \in User : \/ Delete(n, u, view)
                           \/ \E h \in Hash \cup {None} : Write(n, u, h, view)
        \/ Repair(n, view)

Next ==
    \/ \E n \in Node : AccessStep(n) \/ KeyValueStep(n)
    \/ \E r \in sending : Replicate(r) \/ Merge(r) \/ Remove(r) \/ Fail(r)

Spec == Init /\ [][Next]_vars

-----------------------------------------------------------------------------
(* Properties.                                                             *)

\* A user who has an account, which no other route has touched, can
\* authenticate at any node, with one secret, when all replication has ended
\* and none failed.
AuthenticatesAnywhere ==
    (created # {} /\ written = {} /\ sending = {} /\ ~lost) =>
        \E s \in Secret : \A n \in Node :
            auth[n] # None /\ auth[n].secret = Sha256(s)

-----------------------------------------------------------------------------
(* What does hold, and the invariant behind it.                            *)

\* What some registration or some write of the record has stored.
Stored(h) == (\E s \in created : h = Sha256(s)) \/ h \in written

\* Nobody has registered the user with another secret, and nobody has changed
\* or removed the record.
Unraced == written = {} /\ \A s, t \in created : s = t

\* A node without the only secret in use is still being sent it.
Covered ==
    (Unraced /\ ~lost) =>
        \A s \in created, n \in Node :
            \/ auth[n] # None /\ auth[n].secret = Sha256(s)
            \/ \E r \in sending : r.kind = "access" /\ r.to = n

AccountsTypeOK ==
    /\ auth \in [Node -> Record \cup {None}]
    /\ sending \subseteq Replication
    /\ created \subseteq Secret
    /\ written \subseteq Hash \cup {None}
    /\ requests \in Nat
    /\ lost \in BOOLEAN

\* What nodes hold and send has been stored by somebody.
Provenance ==
    /\ \A n \in Node : auth[n] # None => Stored(auth[n].secret)
    /\ \A r \in sending :
          IF r.kind = "delete" THEN written # {}
          ELSE r.rec # None /\ Stored(r.rec.secret)

\* A token was issued for a secret that somebody stored.
TokensFollowWrites == \A s \in granted : Stored(Sha256(s))

\* What the constants have to satisfy.
Sensible == Views \subseteq SUBSET Node /\ Name \in User /\ None \notin Record

AccountsInv ==
    AccountsTypeOK /\ Provenance /\ TokensFollowWrites /\ Covered

=============================================================================
