--------------------------- MODULE RuntimeIdentity ---------------------------
(***************************************************************************)
(* Provisioning of persisted Runtime Principals: RuntimeIdentityService    *)
(* (runtime_identity/application/handlers.py) over runtime_principals and  *)
(* runtime_credentials.  One call is one transaction at READ COMMITTED.    *)
(* Only the binding of a legacy identity locks what it has read: an        *)
(* advisory lock on the legacy id, then the principal's row FOR UPDATE.    *)
(* The other calls read without a lock and update later.                   *)
(***************************************************************************)
EXTENDS Naturals, Sequences, FiniteSets

CONSTANTS
  Operations,     \* calls; a call stands for the UUIDs it generates
  Provisioned,    \* rows of phase 5.0A, without limits: id -> binding
  Bindings,       \* (tenant, agent) pairs a caller may name
  Registered,     \* pairs whose tenant exists and owns the agent
  Limits,         \* [daily, allowance] pairs a caller may name
  Static,         \* static configuration: legacy id -> [binding, limits]
  LegacyIds,      \* legacy ids a caller may name, that str.strip() leaves as they are
  History,        \* (runtime_principal_id, binding) of invocations recorded before
  Expiries, Never, None,
  MaxTime,        \* bound: last instant of the clock
  MaxInFlight     \* bound: calls served at once

Ids == Operations \cup DOMAIN Provisioned

ASSUME ProvisioningAssumption ==
  /\ IsFiniteSet(Operations)
  /\ None \notin Ids \cup LegacyIds \cup Limits
  /\ Operations \cap DOMAIN Provisioned = {}
  /\ Registered \subseteq Bindings
  /\ \A p \in DOMAIN Provisioned : Provisioned[p] \in Registered
  /\ DOMAIN Static \subseteq LegacyIds
  /\ \A l \in DOMAIN Static :
       /\ Static[l] = [binding |-> Static[l].binding, limits |-> Static[l].limits]
       /\ Static[l].limits # None
  /\ MaxTime \in Nat /\ MaxInFlight \in Nat
  /\ Never \notin Nat /\ Never \in Expiries /\ Expiries \subseteq Nat \cup {Never}

VARIABLES
  clock,
  principals,   \* runtime_principals
  credentials,  \* runtime_credentials
  audits,       \* management_audit_records of these mutations, in commit order
  stage, command,
  seen          \* the principal row the call read and goes on from

vars == <<clock, principals, credentials, audits, stage, command, seen>>

Times == 0 .. MaxTime
Kinds == {"create", "issue", "revoke", "disable", "limits", "bind"}
Live  == {"opening", "claiming", "locked", "writing"}

Principals  == [binding : Bindings, limits : Limits \cup {None},
                legacy : LegacyIds \cup {None}, disabled : BOOLEAN]
Credentials == [owner : Ids, expires : Expiries, revoked : BOOLEAN]
Commands    == [kind : Kinds \cup {None}, principal : Ids \cup {None},
                credential : Ids \cup {None}, binding : Bindings \cup {None},
                limits : Limits \cup {None}, legacy : LegacyIds \cup {None},
                expires : Expiries \cup {None}, now : Times]

ASSUME NoneAssumption == None \notin Principals \cup Credentials

NoCommand   == [kind |-> None, principal |-> None, credential |-> None, binding |-> None,
                limits |-> None, legacy |-> None, expires |-> None, now |-> 0]

\* runtime_principal_fingerprint and runtime_credential_fingerprint: digests of
\* the id and of every field kept here.
Fingerprint(id, row) == <<id, row>>
Records == [by : Operations, action : Kinds, resource : Ids,
            before : (Ids \X (Principals \cup Credentials)) \cup {None},
            after : Ids \X (Principals \cup Credentials)]

Exists(p) == principals[p] # None
Active(row) == row # None /\ ~row.disabled

\* A principal's limits are positive and the allowance is within the limit.
Valid(limits) == 0 < limits.allowance /\ limits.allowance <= limits.daily

Usable(c, at) ==
  /\ credentials[c] # None
  /\ ~credentials[c].revoked
  /\ credentials[c].expires # Never => credentials[c].expires > at

HasUsableCredential(p, at) == \E c \in Ids : Usable(c, at) /\ credentials[c].owner = p

Claimed(l) == \E p \in Ids : Exists(p) /\ principals[p].legacy = l

-----------------------------------------------------------------------------
(***************************************************************************)
(* Locks.  A binding holds the advisory lock of its legacy id once it is   *)
(* past LockLegacy, the row of its principal once it is past LockRow, both *)
(* until its transaction ends.                                             *)
(***************************************************************************)
Binding(q, stages) == stage[q] \in stages /\ command[q].kind = "bind"

EveryLegacyFree(o) == TRUE

NobodyWaits(o) ==
  ~\E q \in Operations \ {o} :
     Binding(q, {"opening", "claiming", "locked", "writing"})
       /\ command[q].legacy = command[o].legacy

LegacyFree(o) ==
  ~\E q \in Operations :
     Binding(q, {"claiming", "locked", "writing"}) /\ command[q].legacy = command[o].legacy

EveryRowFree(o) == TRUE

RowFree(o) ==
  ~\E q \in Operations \ {o} :
     Binding(q, {"locked", "writing"}) /\ command[q].principal = command[o].principal

Advance(o, from, to) ==
  /\ stage[o] = from
  /\ stage' = [stage EXCEPT ![o] = to]

\* The handler returns or raises; what it held is gone.
End(o, from, to) ==
  /\ Advance(o, from, to)
  /\ command' = [command EXCEPT ![o] = NoCommand]
  /\ seen' = [seen EXCEPT ![o] = None]

-----------------------------------------------------------------------------
Tick ==
  /\ clock < MaxTime
  /\ clock' = clock + 1
  /\ UNCHANGED <<principals, credentials, audits, stage, command, seen>>

\* _require_manager refuses an actor that does not manage principals, and
\* _validate_expiry an expiry that is not in the future.
Deny(o) ==
  /\ End(o, "idle", "refused")
  /\ UNCHANGED <<clock, principals, credentials, audits>>

\* The manager's request, the clock read before the transaction opens; an
\* expiry must lie in the future.
Start(o, request) ==
  /\ Cardinality({q \in Operations : stage[q] \in Live}) < MaxInFlight
  /\ Advance(o, "idle", "opening")
  /\ request.expires \in Nat => request.expires > clock
  /\ command' = [command EXCEPT ![o] = [request EXCEPT !.now = clock]]
  /\ UNCHANGED <<clock, principals, credentials, audits, seen>>

\* The ids a caller may name: those of rows it can know of, and its own call,
\* which stands for an id that no row has.
Targets(o, rows) == {x \in Ids : rows[x] # None} \cup {o}

StartCreate(o, binding, limits, expires) ==
  Start(o, [NoCommand EXCEPT !.kind = "create", !.principal = o, !.binding = binding,
                             !.limits = limits, !.expires = expires])

StartIssue(o, p, expires) ==
  Start(o, [NoCommand EXCEPT !.kind = "issue", !.principal = p, !.expires = expires])

StartRevoke(o, p, c) ==
  Start(o, [NoCommand EXCEPT !.kind = "revoke", !.principal = p, !.credential = c])

StartDisable(o, p) == Start(o, [NoCommand EXCEPT !.kind = "disable", !.principal = p])

StartLimits(o, p, limits) ==
  Start(o, [NoCommand EXCEPT !.kind = "limits", !.principal = p, !.limits = limits])

StartBind(o, p, l) ==
  Start(o, [NoCommand EXCEPT !.kind = "bind", !.principal = p, !.legacy = l])

(***************************************************************************)
(* bind_identity_continuity: the locks, in this order.  FOR UPDATE waits   *)
(* for the transaction that holds the row and returns its newest version.  *)
(***************************************************************************)
LockLegacy(o) ==
  /\ command[o].kind = "bind"
  /\ LegacyFree(o)
  /\ Advance(o, "opening", "claiming")
  /\ UNCHANGED <<clock, principals, credentials, audits, command, seen>>

LockRow(o) ==
  /\ RowFree(o)
  /\ Advance(o, "claiming", "locked")
  /\ seen' = [seen EXCEPT ![o] = principals[command[o].principal]]
  /\ UNCHANGED <<clock, principals, credentials, audits, command>>

\* SqlAlchemyRuntimeInvocationContinuity.inspect: no invocation recorded under the
\* legacy id, nor under the principal's own, belongs to another pair.
HistoryAgrees(p, l, binding) == \A h \in History : h[1] \in {l, p} => h[2] = binding

\* _continuity_preflight's safe_to_bind, after the conflicts: the static
\* configuration has the identity, with the same tenant, agent and limits, the
\* invocations agree, and the principal is ready.
PreflightWithoutLimits(o) ==
  LET l == command[o].legacy
  IN  /\ l \in DOMAIN Static
      /\ Static[l].binding = seen[o].binding
      /\ HistoryAgrees(command[o].principal, l, seen[o].binding)
      /\ HasUsableCredential(command[o].principal, command[o].now)

Preflight(o) ==
  LET l == command[o].legacy
  IN  /\ l \in DOMAIN Static
      /\ Static[l].binding = seen[o].binding
      /\ Static[l].limits = seen[o].limits
      /\ HistoryAgrees(command[o].principal, l, seen[o].binding)
      /\ HasUsableCredential(command[o].principal, command[o].now)

BindPermitted(o) ==
  /\ Active(seen[o]) /\ seen[o].legacy = None
  /\ ~Claimed(command[o].legacy)
  /\ Preflight(o)

\* What the other calls check on the rows they read without a lock.
Permitted(o) ==
  LET row == principals[command[o].principal]
  IN  CASE command[o].kind = "create"  -> /\ command[o].binding \in Registered
                                          /\ Valid(command[o].limits)
        [] command[o].kind = "issue"   -> Active(row)
        [] command[o].kind = "disable" -> Active(row)
        [] command[o].kind = "limits"  -> /\ Active(row) /\ row.limits = None
                                          /\ Valid(command[o].limits)
        [] command[o].kind = "revoke"  ->
             LET credential == credentials[command[o].credential]
             IN  /\ row # None /\ credential # None
                 /\ credential.owner = command[o].principal /\ ~credential.revoked

Read(o) ==
  /\ command[o].kind # "bind"
  /\ Advance(o, "opening", "writing")
  /\ Permitted(o)
  /\ seen' = [seen EXCEPT ![o] = principals[command[o].principal]]
  /\ UNCHANGED <<clock, principals, credentials, audits, command>>

Check(o) ==
  /\ Advance(o, "locked", "writing")
  /\ BindPermitted(o)
  /\ UNCHANGED <<clock, principals, credentials, audits, command, seen>>

Refuse(o) ==
  /\ \/ command[o].kind # "bind" /\ End(o, "opening", "refused") /\ ~Permitted(o)
     \/ End(o, "locked", "refused") /\ ~BindPermitted(o)
  /\ UNCHANGED <<clock, principals, credentials, audits>>

(***************************************************************************)
(* The write: UPDATE or INSERT, the audit record, COMMIT.  They are one    *)
(* action: the row is locked from the first of them to the last, and no    *)
(* other transaction can tell them apart.  The write waits for a binding   *)
(* that holds the principal's row, also the INSERT of a credential, whose  *)
(* foreign key shares that row's lock.                                     *)
(***************************************************************************)
Commit(o, kind) ==
  /\ command[o].kind = kind
  /\ End(o, "writing", "done")
  /\ UNCHANGED clock

Evidence(o, id, before, after) ==
  [by |-> o, action |-> command[o].kind, resource |-> id,
   before |-> IF before = None THEN None ELSE Fingerprint(id, before),
   after |-> Fingerprint(id, after)]

Audit(o, id, before, after) == audits' = Append(audits, Evidence(o, id, before, after))

NewCredential(o) ==
  [owner |-> command[o].principal, expires |-> command[o].expires, revoked |-> FALSE]

\* The principal, its first credential and a record of each.
CommitCreate(o) ==
  LET row == [binding |-> command[o].binding, limits |-> command[o].limits,
              legacy |-> None, disabled |-> FALSE]
  IN  /\ Commit(o, "create")
      /\ principals' = [principals EXCEPT ![o] = row]
      /\ credentials' = [credentials EXCEPT ![o] = NewCredential(o)]
      /\ audits' = audits \o <<Evidence(o, o, None, row),
                               [Evidence(o, o, None, NewCredential(o)) EXCEPT !.action = "issue"]>>

CommitIssue(o) ==
  /\ RowFree(o)
  /\ Commit(o, "issue")
  /\ credentials' = [credentials EXCEPT ![o] = NewCredential(o)]
  /\ Audit(o, o, None, NewCredential(o))
  /\ UNCHANGED principals

\* The record's fingerprints are those of the credential as it was read.
CommitRevoke(o) ==
  LET c      == command[o].credential
      before == [credentials[c] EXCEPT !.revoked = FALSE]
  IN  /\ Commit(o, "revoke")
      /\ credentials' = [credentials EXCEPT ![c].revoked = TRUE]
      /\ Audit(o, c, before, [before EXCEPT !.revoked = TRUE])
      /\ UNCHANGED principals

\* An ORM that saves the whole row it has read.
DisableWholeRow(o) ==
  LET p == command[o].principal
  IN  /\ RowFree(o)
      /\ Commit(o, "disable")
      /\ principals' = [principals EXCEPT ![p] = [seen[o] EXCEPT !.disabled = TRUE]]
      /\ Audit(o, p, seen[o], [seen[o] EXCEPT !.disabled = TRUE])
      /\ UNCHANGED credentials

\* UPDATE .. SET disabled_at alone; the record speaks of the row as it was read.
CommitDisable(o) ==
  LET p == command[o].principal
  IN  /\ RowFree(o)
      /\ Commit(o, "disable")
      /\ principals' = [principals EXCEPT ![p].disabled = TRUE]
      /\ Audit(o, p, seen[o], [seen[o] EXCEPT !.disabled = TRUE])
      /\ UNCHANGED credentials

\* UPDATE .. WHERE both limits are NULL, judged once the row is free.
LimitsUnconditionally(o) ==
  LET p == command[o].principal
  IN  /\ RowFree(o)
      /\ Commit(o, "limits")
      /\ principals' = [principals EXCEPT ![p].limits = command[o].limits]
      /\ Audit(o, p, seen[o], [seen[o] EXCEPT !.limits = command[o].limits])
      /\ UNCHANGED credentials

CommitLimits(o) ==
  LET p == command[o].principal
  IN  /\ RowFree(o)
      /\ Commit(o, "limits")
      /\ principals[p].limits = None
      /\ principals' = [principals EXCEPT ![p].limits = command[o].limits]
      /\ Audit(o, p, seen[o], [seen[o] EXCEPT !.limits = command[o].limits])
      /\ UNCHANGED credentials

\* The UPDATE met no row: RuntimeUsageLimitsAlreadyInitialized.
LoseLimits(o) ==
  /\ command[o].kind = "limits"
  /\ End(o, "writing", "refused")
  /\ RowFree(o)
  /\ principals[command[o].principal].limits # None
  /\ UNCHANGED <<clock, principals, credentials, audits>>

\* Under both locks; the unique index would refuse a legacy id bound twice.
CommitBind(o) ==
  LET p == command[o].principal
  IN  /\ Commit(o, "bind")
      /\ principals[p].legacy = None /\ ~Claimed(command[o].legacy)
      /\ principals' = [principals EXCEPT ![p].legacy = command[o].legacy]
      /\ Audit(o, p, seen[o], [seen[o] EXCEPT !.legacy = command[o].legacy])
      /\ UNCHANGED credentials

\* A crash, a lost connection or a cancelled request: PostgreSQL rolls the
\* transaction back and frees its locks.
Abort(o) ==
  /\ \E from \in Live : End(o, from, "failed")
  /\ UNCHANGED <<clock, principals, credentials, audits>>

Requested(o) ==
  \/ \E b \in Bindings, limits \in Limits, expires \in Expiries :
       StartCreate(o, b, limits, expires)
  \/ \E p \in Targets(o, principals) :
       \/ \E expires \in Expiries : StartIssue(o, p, expires)
       \/ \E c \in Targets(o, credentials) : StartRevoke(o, p, c)
       \/ StartDisable(o, p)
       \/ \E limits \in Limits : StartLimits(o, p, limits)
       \/ \E l \in LegacyIds : StartBind(o, p, l)

Transaction(o) ==
  \/ LockLegacy(o) \/ LockRow(o) \/ Read(o) \/ Check(o) \/ Refuse(o)
  \/ CommitCreate(o) \/ CommitIssue(o) \/ CommitRevoke(o) \/ CommitDisable(o)
  \/ CommitLimits(o) \/ LoseLimits(o) \/ CommitBind(o)

Init ==
  /\ clock = 0
  /\ principals = [p \in Ids |->
       IF p \in DOMAIN Provisioned
       THEN [binding |-> Provisioned[p], limits |-> None, legacy |-> None, disabled |-> FALSE]
       ELSE None]
  /\ credentials = [c \in Ids |->
       IF c \in DOMAIN Provisioned
       THEN [owner |-> c, expires |-> Never, revoked |-> FALSE]
       ELSE None]
  /\ audits = <<>>
  /\ stage = [o \in Operations |-> "idle"]
  /\ command = [o \in Operations |-> NoCommand]
  /\ seen = [o \in Operations |-> None]

Next ==
  \/ Tick
  \/ \E o \in Operations : Deny(o) \/ Requested(o) \/ Transaction(o) \/ Abort(o)

Spec == Init /\ [][Next]_vars

-----------------------------------------------------------------------------
\* The shape of the state.  Two bindings never hold one legacy id's lock or one
\* principal's row together.
TypeOK ==
  /\ clock \in Times
  /\ principals \in [Ids -> Principals \cup {None}]
  /\ credentials \in [Ids -> Credentials \cup {None}]
  /\ audits \in Seq(Records)
  /\ stage \in [Operations -> Live \cup {"idle", "refused", "failed", "done"}]
  /\ command \in [Operations -> Commands]
  /\ seen \in [Operations -> Principals \cup {None}]
  /\ \A o, q \in Operations :
       o # q /\ Binding(o, {"locked", "writing"}) /\ Binding(q, {"locked", "writing"})
         => /\ command[o].legacy # command[q].legacy
            /\ command[o].principal # command[q].principal

\* ADR-0023:34, "Binding repeats those checks under locks": what a binding has
\* found of the principal's row and of the claim still holds when it writes,
\* whatever commits between, so that neither the conditional UPDATE nor the
\* unique index can stop it (handlers.py:210-236).
BindingChecksHold ==
  \A o \in Operations :
    Binding(o, {"writing"}) =>
      /\ principals[command[o].principal] = seen[o]
      /\ Active(seen[o]) /\ ~Claimed(command[o].legacy)

\* README.md:32-37, ADR-0023:29-34: a bound principal is the only one with that
\* legacy id, and whatever was initialised, disabled or bound before or since,
\* it has the tenant, the agent and the limits of the static identity, and so have
\* the invocations recorded under either id.
ContinuityFaithful ==
  \A p \in Ids :
    Exists(p) /\ principals[p].legacy # None =>
      LET l == principals[p].legacy
      IN  /\ \A q \in Ids \ {p} : Exists(q) => principals[q].legacy # l
          /\ l \in DOMAIN Static
          /\ Static[l] = [binding |-> principals[p].binding, limits |-> principals[p].limits]
          /\ \A h \in History : h[1] \in {l, p} => h[2] = principals[p].binding

\* ADR-0023:9-33, immutable binding to tenant and agent, limits initialised
\* exactly once, one immutable legacy id, permanent revocation, terminal
\* disablement: no later mutation, nor one that read its row earlier, undoes one.
NothingUndone ==
  [][/\ \A p \in Ids : Exists(p) =>
          /\ principals'[p].binding = principals[p].binding
          /\ principals[p].limits # None => principals'[p].limits = principals[p].limits
          /\ principals[p].legacy # None => principals'[p].legacy = principals[p].legacy
          /\ principals[p].disabled => principals'[p].disabled
     /\ \A c \in Ids : credentials[c] # None /\ credentials[c].revoked
                         => credentials'[c] = [credentials[c] EXCEPT !.revoked = TRUE]]_vars

RecordsOf(action, id) ==
  {i \in 1 .. Len(audits) : audits[i].action = action /\ audits[i].resource = id}

\* ADR-0023:16-24 with the two conditional UPDATEs: initialisation and binding
\* of a principal happen at most once and leave exactly one record, although
\* several calls passed the check before.
PreparedOnce ==
  \A p \in Ids :
    /\ Cardinality(RecordsOf("limits", p)) =
         (IF p \in DOMAIN Provisioned /\ principals[p].limits # None THEN 1 ELSE 0)
    /\ Cardinality(RecordsOf("bind", p)) =
         (IF Exists(p) /\ principals[p].legacy # None THEN 1 ELSE 0)

\* domain/models.py:121 and 161, test_runtime_identity.py:106-110: a revoked credential and a disabled principal are
\* not revoked or disabled again.
RemovedOnce ==
  \A x \in Ids :
    /\ Cardinality(RecordsOf("revoke", x)) <= 1
    /\ Cardinality(RecordsOf("disable", x)) <= 1

\* domain/models.py:97, "disabled principals cannot be prepared for cutover": the
\* row lock of a binding keeps a disablement out.  Limits may still be initialised
\* after one, because their UPDATE does not ask again.
BoundWhileActive ==
  [][\A p \in Ids :
       Exists(p) /\ principals[p].disabled => principals'[p].legacy = principals[p].legacy]_vars

\* The guards of the actions of Transaction(o); what else they say assigns the
\* next state.
CanGoOn(o) ==
  \/ stage[o] = "opening" /\ (command[o].kind = "bind" => LegacyFree(o))
  \/ stage[o] = "claiming" /\ RowFree(o)
  \/ stage[o] = "locked"
  \/ stage[o] = "writing" /\ command[o].kind \in {"create", "revoke"}
  \/ stage[o] = "writing" /\ command[o].kind \in {"issue", "disable", "limits"} /\ RowFree(o)
  \/ /\ Binding(o, {"writing"})
     /\ principals[command[o].principal].legacy = None /\ ~Claimed(command[o].legacy)

SomebodyCanGoOn ==
  (\E o \in Operations : stage[o] \in Live) => \E o \in Operations : CanGoOn(o)

\* Calls never all wait, although bindings wait for an identity, then for a row, and
\* others for theirs.  Every step brings its call nearer to its end, so every
\* call ends.
NoStandstill ==
  SomebodyCanGoOn /\ \A o \in Operations : CanGoOn(o) => ENABLED Transaction(o)
=============================================================================
