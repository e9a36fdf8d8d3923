----------------------------- MODULE TenantScopes -----------------------------
(***************************************************************************)
(* PUT of a Management Principal's Tenant scopes: set_scopes               *)
(* (management_identity/application/handlers.py) and replace_scopes        *)
(* (infrastructure/repositories.py), row by row.  The transaction deletes  *)
(* the principal's scope rows, inserts the requested ones and commits with *)
(* its evidence, at READ COMMITTED and without a lock on the principal.    *)
(* Rows of different principals never meet, so the model has one           *)
(* principal; a row is its tenant and the call that inserted it.           *)
(***************************************************************************)
EXTENDS FiniteSets, Naturals

CONSTANTS
  Calls,          \* set_scopes calls
  Tenants,        \* tenant ids a caller may name
  Registered,     \* those that exist
  Initial,        \* tenants the principal was created with
  Creation,       \* the call that created the principal
  MaxInFlight     \* bound: calls served at once

ASSUME ScopesAssumption ==
  /\ IsFiniteSet(Calls) /\ IsFiniteSet(Tenants)
  /\ Registered \subseteq Tenants /\ Initial \subseteq Registered
  /\ Creation \notin Calls /\ MaxInFlight \in Nat

VARIABLES
  scopes,    \* management_principal_tenant_scopes, committed
  recorded,  \* the scopes the newest committed evidence names
  stage,
  wanted,    \* command.tenant_ids
  doomed,    \* the rows the DELETE statement saw when it began
  deleted,   \* of them, those it has locked and deleted
  inserted   \* tenants whose row is inserted, not committed yet

vars == <<scopes, recorded, stage, wanted, doomed, deleted, inserted>>
tables == <<scopes, recorded>>

Rows   == Tenants \X (Calls \cup {Creation})
Live   == {"reading", "starting", "deleting", "inserting"}
Stages == Live \cup {"idle", "refused", "failed", "done"}

TenantsOf(rows) == {row[1] : row \in rows}

\* The shape of the state.  What a transaction has deleted it saw, and a row
\* is locked by at most one of them.
TypeOK ==
  /\ scopes \subseteq Rows
  /\ recorded \subseteq Tenants
  /\ stage \in [Calls -> Stages]
  /\ wanted \in [Calls -> SUBSET Tenants]
  /\ doomed \in [Calls -> SUBSET Rows]
  /\ deleted \in [Calls -> SUBSET Rows]
  /\ inserted \in [Calls -> SUBSET Tenants]
  /\ \A o \in Calls : deleted[o] \subseteq doomed[o]
  /\ \A o, q \in Calls : o # q => deleted[o] \cap deleted[q] = {}

-----------------------------------------------------------------------------
(***************************************************************************)
(* What PostgreSQL makes a call wait for: a row it is to delete that       *)
(* another transaction has deleted and not committed; a tenant it is to    *)
(* insert that another has inserted, or whose row another has deleted.     *)
(***************************************************************************)
Contenders(o, row) == {q \in Calls \ {o} : row \in deleted[q]}

InsertContenders(o, t) ==
  {q \in Calls \ {o} : t \in inserted[q] \cup TenantsOf(deleted[q])}

\* Rows that another call's COMMIT has removed are passed over.
Pending(o) == (doomed[o] \cap scopes) \ deleted[o]

Blockers(o) ==
  CASE stage[o] = "deleting"  -> UNION {Contenders(o, row) : row \in Pending(o)}
    [] stage[o] = "inserting" ->
         UNION {InsertContenders(o, t) : t \in wanted[o] \ inserted[o]}
    [] OTHER -> {}

Advance(o, from, to) ==
  /\ stage[o] = from
  /\ stage' = [stage EXCEPT ![o] = to]

EndKeepingLocks(o, from, to) ==
  /\ Advance(o, from, to)
  /\ UNCHANGED <<wanted, doomed, deleted, inserted>>

\* The transaction ends: its locks are free and its uncommitted rows gone.
End(o, from, to) ==
  /\ Advance(o, from, to)
  /\ doomed' = [doomed EXCEPT ![o] = {}]
  /\ deleted' = [deleted EXCEPT ![o] = {}]
  /\ inserted' = [inserted EXCEPT ![o] = {}]
  /\ UNCHANGED wanted

-----------------------------------------------------------------------------
Receive(o, tenants) ==
  /\ Cardinality({q \in Calls : stage[q] \in Live}) < MaxInFlight
  /\ Advance(o, "idle", "reading")
  /\ wanted' = [wanted EXCEPT ![o] = tenants]
  /\ UNCHANGED <<tables, doomed, deleted, inserted>>

\* _require_tenants.
Check(o) ==
  /\ Advance(o, "reading", "starting")
  /\ wanted[o] \subseteq Registered
  /\ UNCHANGED <<tables, wanted, doomed, deleted, inserted>>

Refuse(o) ==
  /\ End(o, "reading", "refused")
  /\ ~(wanted[o] \subseteq Registered)
  /\ UNCHANGED tables

\* DELETE: the rows that were committed when the statement began, no others.
StartDelete(o) ==
  /\ Advance(o, "starting", "deleting")
  /\ doomed' = [doomed EXCEPT ![o] = scopes]
  /\ UNCHANGED <<tables, wanted, deleted, inserted>>

\* A row is locked and deleted once nobody else has deleted it.
DeleteRow(o, row) ==
  /\ stage[o] = "deleting" /\ row \in Pending(o)
  /\ Contenders(o, row) = {}
  /\ deleted' = [deleted EXCEPT ![o] = @ \cup {row}]
  /\ UNCHANGED <<tables, stage, wanted, doomed, inserted>>

EndDeleteSkippingLocked(o) ==
  /\ Advance(o, "deleting", "inserting")
  /\ \A row \in Pending(o) : Contenders(o, row) # {}
  /\ UNCHANGED <<tables, wanted, doomed, deleted, inserted>>

EndDelete(o) ==
  /\ Advance(o, "deleting", "inserting")
  /\ Pending(o) = {}
  /\ UNCHANGED <<tables, wanted, doomed, deleted, inserted>>

\* The rows that stand in the way of an INSERT once nobody is to be waited for.
Collides(o, t) == t \in TenantsOf(scopes \ deleted[o])

\* add_all and flush: in the iteration order of a set, which is any order.
InsertRow(o, t) ==
  /\ stage[o] = "inserting" /\ t \in wanted[o] \ inserted[o]
  /\ InsertContenders(o, t) = {}
  /\ ~Collides(o, t)
  /\ inserted' = [inserted EXCEPT ![o] = @ \cup {t}]
  /\ UNCHANGED <<tables, stage, wanted, doomed, deleted>>

\* The primary key refuses the row: IntegrityError, nothing catches it.
InsertRefused(o, t) ==
  /\ t \in wanted[o] \ inserted[o]
  /\ InsertContenders(o, t) = {}
  /\ Collides(o, t)
  /\ End(o, "inserting", "failed")
  /\ UNCHANGED tables

\* Calls that wait for one another: PostgreSQL cancels one of them.
Deadlocked(o) ==
  \E circle \in SUBSET Calls :
    o \in circle /\ \A q \in circle : Blockers(q) \cap circle # {}

DeadlockVictim(o) ==
  /\ Deadlocked(o)
  /\ \E from \in {"deleting", "inserting"} : End(o, from, "failed")
  /\ UNCHANGED tables

\* audits.append and COMMIT.
Commit(o) ==
  /\ End(o, "inserting", "done")
  /\ inserted[o] = wanted[o]
  /\ scopes' = (scopes \ deleted[o]) \cup {<<t, o>> : t \in wanted[o]}
  /\ recorded' = wanted[o]

\* A crash, a lost connection or a cancelled request.
Abort(o) ==
  /\ \E from \in Live : End(o, from, "failed")
  /\ UNCHANGED tables

Step(o) ==
  \/ Check(o) \/ Refuse(o) \/ StartDelete(o) \/ EndDelete(o) \/ Commit(o)
  \/ \E row \in Rows : DeleteRow(o, row)
  \/ \E t \in Tenants : InsertRow(o, t) \/ InsertRefused(o, t)
  \/ DeadlockVictim(o)

Init ==
  /\ scopes = Initial \X {Creation}
  /\ recorded = Initial
  /\ stage = [o \in Calls |-> "idle"]
  /\ wanted = [o \in Calls |-> {}]
  /\ doomed = [o \in Calls |-> {}]
  /\ deleted = [o \in Calls |-> {}]
  /\ inserted = [o \in Calls |-> {}]

Next ==
  \E o \in Calls :
    \/ \E tenants \in SUBSET Tenants : Receive(o, tenants)
    \/ Step(o)
    \/ Abort(o)

Spec == Init /\ [][Next]_vars

\* Statements end once what they wait for has, and PostgreSQL's detector breaks
\* every circle of waits.
FairSpec == Spec /\ \A o \in Calls : WF_vars(Step(o))

-----------------------------------------------------------------------------
\* ADR-0019:10 "exact persisted Tenant scopes", and :33, the evidence contains
\* the exact scope: the rows in force are those the newest evidence names.
\* Holds of replacements served one at a time.
ScopesExact == TenantsOf(scopes) = recorded

\* What concurrency leaves of it: a replacement that commits has withdrawn every
\* scope that was in force when its DELETE began, whoever held the row or gave it
\* up meanwhile; a scope it was not asked for comes from a call that committed
\* after that.
WithdrawnUnlessRegranted ==
  [][\A o \in Calls :
       stage[o] = "inserting" /\ stage'[o] = "done" => doomed[o] \cap scopes' = {}]_vars

\* Every replacement ends, although calls that insert the same tenants in
\* different orders wait for one another in a circle.
EveryReplacementEnds ==
  \A o \in Calls : stage[o] \in Live ~> stage[o] \in {"refused", "failed", "done"}
=============================================================================
