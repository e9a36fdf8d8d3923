--------------------------- MODULE PermissionAdmin ---------------------------
(***************************************************************************)
(* PUT /policies/agent-model-permissions: SetAgentModelPermissionHandler   *)
(* (policy_risk/application/set_permission.py) and its one transaction:    *)
(* a plain SELECT of the current row, the INSERT .. ON CONFLICT DO UPDATE  *)
(* .. RETURNING, the audit INSERT, COMMIT.  PostgreSQL runs it at READ     *)
(* COMMITTED: the SELECT takes no lock, and the upsert waits for a         *)
(* transaction that has upserted the same key and has not ended.           *)
(***************************************************************************)
EXTENDS Naturals, Sequences, FiniteSets

CONSTANTS
  Puts,            \* PUT requests; a request stands for the PermissionId it proposes
  Keys,            \* (tenant, agent, model) tuples
  RegisteredKeys,  \* tuples whose tenant exists and owns the agent and the model
  NoRow,
  MaxTime,         \* bound: last instant of the application's clock
  MaxInFlight      \* bound: PUTs served at once

ASSUME PutsAssumption ==
  /\ RegisteredKeys \subseteq Keys
  /\ MaxTime \in Nat /\ MaxInFlight \in Nat

VARIABLES
  clock,
  rows,      \* agent_model_permissions, committed
  audits,    \* management_audit_records of permission PUTs, in commit order
  stage, command, previous,
  pending    \* the row the upsert returned, not committed yet

vars == <<clock, rows, audits, stage, command, previous, pending>>
putVars == <<stage, command, previous, pending>>

Effects == {"allow", "deny"}
Times   == 0 .. MaxTime
Register == INSTANCE PermissionRegister WITH Ids <- Puts

Row      == Register!Row
Commands == [key : Keys, effect : Effects, now : Times]
Records  == [key : Keys, resource : Puts, at : Times,
             before : Register!Fingerprints \cup {NoRow}, after : Register!Fingerprints]
Live     == {"admitting", "reading", "writing", "auditing"}
Stages   == Live \cup {"idle", "refused", "failed", "done"}

ASSUME NoRowAssumption == NoRow \notin Row

\* The shape of the state.  A transaction holds an uncommitted row exactly
\* between its upsert and its end: no end of a transaction leaves one behind.
TypeOK ==
  /\ clock \in Times
  /\ rows \in [Keys -> Row \cup {NoRow}]
  /\ audits \in Seq(Records)
  /\ stage \in [Puts -> Stages]
  /\ command \in [Puts -> Commands \cup {NoRow}]
  /\ previous \in [Puts -> Register!Fingerprints \cup {NoRow}]
  /\ pending \in [Puts -> Row \cup {NoRow}]
  /\ \A p \in Puts : pending[p] # NoRow <=> stage[p] = "auditing"

Key(p) == command[p].key

\* agent_model_permission_fingerprint: a digest of exactly the tuple and the
\* effect, equal for equal states and for no others.
FingerprintOf(k, row) == IF row = NoRow THEN NoRow ELSE Register!Fingerprint(k, row.effect)

Advance(p, from, to) ==
  /\ stage[p] = from
  /\ stage' = [stage EXCEPT ![p] = to]

-----------------------------------------------------------------------------
Tick ==
  /\ clock < MaxTime
  /\ clock' = clock + 1
  /\ UNCHANGED <<rows, audits, putVars>>

\* Authenticated and tenant-authorized: the request reaches the handler.
Receive(p, k, effect) ==
  /\ Advance(p, "idle", "admitting")
  /\ Cardinality({q \in Puts : stage[q] \in Live}) < MaxInFlight
  /\ command' = [command EXCEPT ![p] = [key |-> k, effect |-> effect, now |-> 0]]
  /\ UNCHANGED <<clock, rows, audits, previous, pending>>

\* The three lookups run outside the transaction; the clock is read after them
\* and before it.
Refuse(p) ==
  /\ Advance(p, "admitting", "refused")
  /\ Key(p) \notin RegisteredKeys
  /\ UNCHANGED <<clock, rows, audits, command, previous, pending>>

Admit(p) ==
  /\ Advance(p, "admitting", "reading")
  /\ Key(p) \in RegisteredKeys
  /\ command' = [command EXCEPT ![p].now = clock]
  /\ UNCHANGED <<clock, rows, audits, previous, pending>>

\* permissions.get_effective: the before fingerprint comes from this read.
ReadPrevious(p) ==
  /\ Advance(p, "reading", "writing")
  /\ previous' = [previous EXCEPT ![p] = FingerprintOf(Key(p), rows[Key(p)])]
  /\ UNCHANGED <<clock, rows, audits, command, pending>>

\* ON CONFLICT sets effect and updated_at alone; id and created_at stay.
UpsertedRow(p) ==
  LET row == rows[Key(p)]
  IN  IF row = NoRow
      THEN [id |-> p, effect |-> command[p].effect,
            created |-> command[p].now, updated |-> command[p].now]
      ELSE [row EXCEPT !.effect = command[p].effect, !.updated = command[p].now]

UncontendedByWriters(p) ==
  \A q \in Puts \ {p} : stage[q] \in {"writing", "auditing"} => Key(q) # Key(p)

Uncontended(p) ==
  \A q \in Puts \ {p} : stage[q] = "auditing" => Key(q) # Key(p)

UpsertUnlocked(p) ==
  /\ Advance(p, "writing", "auditing")
  /\ UpsertedRow(p).updated >= UpsertedRow(p).created
  /\ pending' = [pending EXCEPT ![p] = UpsertedRow(p)]
  /\ UNCHANGED <<clock, rows, audits, command, previous>>

\* permissions.set: blocked while another transaction holds the key's row.
Upsert(p) ==
  /\ Advance(p, "writing", "auditing")
  /\ Uncontended(p)
  /\ UpsertedRow(p).updated >= UpsertedRow(p).created
  /\ pending' = [pending EXCEPT ![p] = UpsertedRow(p)]
  /\ UNCHANGED <<clock, rows, audits, command, previous>>

\* The returned row is older than its own creation: AgentModelPermission
\* raises, the Unit of Work rolls back, the request ends as a server error.
UpsertRejected(p) ==
  /\ Advance(p, "writing", "failed")
  /\ Uncontended(p)
  /\ UpsertedRow(p).updated < UpsertedRow(p).created
  /\ previous' = [previous EXCEPT ![p] = NoRow]
  /\ UNCHANGED <<clock, rows, audits, command, pending>>

RecordReadLate(p) ==
  [key |-> Key(p), resource |-> pending[p].id, at |-> command[p].now,
   before |-> FingerprintOf(Key(p), pending[p]), after |-> FingerprintOf(Key(p), pending[p])]

Record(p) ==
  [key |-> Key(p), resource |-> pending[p].id, at |-> command[p].now,
   before |-> previous[p], after |-> FingerprintOf(Key(p), pending[p])]

\* audits.append and COMMIT: row and record become visible together, and the
\* next waiter's upsert goes on from the committed row.
Commit(p) ==
  /\ Advance(p, "auditing", "done")
  /\ rows' = [rows EXCEPT ![Key(p)] = pending[p]]
  /\ audits' = Append(audits, Record(p))
  /\ pending' = [pending EXCEPT ![p] = NoRow]
  /\ previous' = [previous EXCEPT ![p] = NoRow]
  /\ UNCHANGED <<clock, command>>

\* A database error, a cancelled request or a crash: PostgreSQL rolls back.
Abort(p) ==
  /\ stage[p] \in Live
  /\ stage' = [stage EXCEPT ![p] = "failed"]
  /\ previous' = [previous EXCEPT ![p] = NoRow]
  /\ pending' = [pending EXCEPT ![p] = NoRow]
  /\ UNCHANGED <<clock, rows, audits, command>>

Step(p) ==
  \/ Refuse(p) \/ Admit(p) \/ ReadPrevious(p)
  \/ Upsert(p) \/ UpsertRejected(p) \/ Commit(p)

Init ==
  /\ clock = 0
  /\ rows = [k \in Keys |-> NoRow]
  /\ audits = <<>>
  /\ stage = [p \in Puts |-> "idle"]
  /\ command = [p \in Puts |-> NoRow]
  /\ previous = [p \in Puts |-> NoRow]
  /\ pending = [p \in Puts |-> NoRow]

Next ==
  \/ Tick
  \/ \E p \in Puts :
       \/ \E k \in Keys, effect \in Effects : Receive(p, k, effect)
       \/ Step(p)
       \/ Abort(p)

Spec == Init /\ [][Next]_vars

\* Statements end, and a transaction that holds a row commits or rolls back.
FairSpec == Spec /\ \A p \in Puts : WF_vars(Step(p))

-----------------------------------------------------------------------------
RecordsOf(k) == {i \in 1 .. Len(audits) : audits[i].key = k}

\* ADR-0018:9-13, README.md:13: the newest evidence of a key, in commit order,
\* is the evidence of the row that is in force, its id, effect and time; a key
\* has a row exactly when it has evidence, and all of it names that one row.
EvidenceDescribesRow ==
  \A k \in Keys :
    IF rows[k] = NoRow
    THEN RecordsOf(k) = {}
    ELSE /\ \E newest \in RecordsOf(k) :
              /\ \A i \in RecordsOf(k) : i <= newest
              /\ audits[newest].after = FingerprintOf(k, rows[k])
              /\ audits[newest].at = rows[k].updated
         /\ \A i \in RecordsOf(k) : audits[i].resource = rows[k].id

\* docs/architecture/README.md:252: the PUT is atomic and preserves the id and
\* the creation time; its evidence names states the permission really was in,
\* although `previous` was read before the row was owned.
ImplementsRegister == Register!Spec

\* Every PUT ends although upserts of one key wait for each other.
EveryPutEnds == \A p \in Puts : stage[p] \in Live ~> stage[p] \notin Live
=============================================================================
