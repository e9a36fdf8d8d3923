-------------------------- MODULE IdentityDirectory --------------------------
(***************************************************************************)
(* What the lifecycle of Management Principals promises (ADR-0019, and     *)
(* ADR-0018 for the evidence): a directory of Principals and credentials   *)
(* whose every operation is atomic and leaves its evidence in the same     *)
(* instant.  Nothing is deleted, revocation and disablement are terminal,  *)
(* and no removal leaves the directory without a manager.                  *)
(***************************************************************************)
CONSTANTS Ids, Expiries, Never, None

VARIABLES principals, credentials, audits

Manager(p) == principals[p] # None /\ principals[p].manager

\* Somebody can still administer: an active manager holds a credential nobody revoked.
Manned ==
  \E p, c \in Ids :
    /\ Manager(p) /\ ~principals[p].disabled
    /\ credentials[c] # None /\ ~credentials[c].revoked /\ credentials[c].owner = p

Init ==
  /\ principals = [p \in Ids |-> None]
  /\ credentials = [c \in Ids |-> None]
  /\ audits = {}

\* A record is new, names a manager and holds the row before and after the change.
Evidence(id, actor, action, resource, before, after) ==
  /\ Manager(actor)
  /\ \A a \in audits : a.id # id
  /\ audits' = audits \cup {[id |-> id, actor |-> actor, action |-> action,
                             resource |-> resource, before |-> before, after |-> after]}

\* The first Principal has nobody to name in its evidence, and leaves none.
Found(id) ==
  /\ \A p \in Ids : principals[p] = None
  /\ principals' = [principals EXCEPT ![id] = [manager |-> TRUE, disabled |-> FALSE]]
  /\ credentials' = [credentials EXCEPT
                       ![id] = [owner |-> id, expires |-> Never, revoked |-> FALSE]]
  /\ UNCHANGED audits

Create(id, actor, manager) ==
  LET row == [manager |-> manager, disabled |-> FALSE]
  IN  /\ principals[id] = None
      /\ principals' = [principals EXCEPT ![id] = row]
      /\ Evidence(id, actor, "create", id, None, row)
      /\ UNCHANGED credentials

\* The directory leaves open whether the Principal has been disabled meanwhile.
Issue(id, actor, p, expires) ==
  LET row == [owner |-> p, expires |-> expires, revoked |-> FALSE]
  IN  /\ credentials[id] = None /\ principals[p] # None
      /\ credentials' = [credentials EXCEPT ![id] = row]
      /\ Evidence(id, actor, "issue", id, None, row)
      /\ UNCHANGED principals

Revoke(id, actor, c) ==
  LET row == [credentials[c] EXCEPT !.revoked = TRUE]
  IN  /\ credentials[c] # None /\ ~credentials[c].revoked
      /\ credentials' = [credentials EXCEPT ![c] = row]
      /\ Evidence(id, actor, "revoke", c, credentials[c], row)
      /\ UNCHANGED principals
      /\ Manned'

Disable(id, actor, p) ==
  LET row == [principals[p] EXCEPT !.disabled = TRUE]
  IN  /\ principals[p] # None /\ ~principals[p].disabled
      /\ principals' = [principals EXCEPT ![p] = row]
      /\ Evidence(id, actor, "disable", p, principals[p], row)
      /\ UNCHANGED credentials
      /\ Manned'

Next ==
  \E id \in Ids :
    \/ Found(id)
    \/ \E actor \in Ids :
         \/ \E manager \in BOOLEAN : Create(id, actor, manager)
         \/ \E p \in Ids, expires \in Expiries : Issue(id, actor, p, expires)
         \/ \E x \in Ids : Revoke(id, actor, x) \/ Disable(id, actor, x)

Spec == Init /\ [][Next]_<<principals, credentials, audits>>
=============================================================================
