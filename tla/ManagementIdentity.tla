-------------------------- MODULE ManagementIdentity --------------------------
(***************************************************************************)
(* The lifecycle of Management Principals and their credentials:           *)
(* ManagementIdentityService (management_identity/application/handlers.py) *)
(* and ManagementAuthenticator (authentication.py).                        *)
(*                                                                         *)
(* Bootstrap, revocation and disablement run their transaction under the   *)
(* PostgreSQL advisory lock of lock_management_state; creation and         *)
(* issuance take no lock.  Tenant scopes are the subject of TenantScopes.  *)
(* Every statement sees what had committed when it began (READ COMMITTED). *)
(***************************************************************************)
EXTENDS Naturals, FiniteSets

CONSTANTS
  Operations,   \* calls of the service; a call stands for the UUIDs it generates
  Expiries,     \* expires_at values a caller may ask for, Never among them
  Never, None,
  MaxTime,      \* bound: last instant of the clocks
  MaxInFlight   \* bound: calls served at once

ASSUME OperationsAssumption ==
  /\ IsFiniteSet(Operations) /\ None \notin Operations
  /\ MaxTime \in Nat /\ MaxInFlight \in Nat
  /\ Never \notin Nat
  /\ Never \in Expiries /\ Expiries \subseteq Nat \cup {Never}

VARIABLES
  clock,
  principals,   \* management_principals, by the call that created the row
  credentials,  \* management_credentials, by the call that issued it
  audits,       \* management_audit_records of these mutations
  lock,         \* holder of the advisory lock
  stage, command,
  seen          \* the row that the call's removal goes on from

vars == <<clock, principals, credentials, audits, lock, stage, command, seen>>

Times   == 0 .. MaxTime
Locked  == {"bootstrap", "revoke", "disable"}
Kinds   == Locked \cup {"create", "issue"}
Live    == {"authenticated", "opening", "waiting", "checking", "reading", "writing"}
Stages  == Live \cup {"idle", "refused", "failed", "done"}

Principals  == [manager : BOOLEAN, disabled : BOOLEAN]
Credentials == [owner : Operations, expires : Expiries, revoked : BOOLEAN]
Commands    == [kind : Kinds \cup {None}, actor : Operations \cup {None},
                principal : Operations \cup {None}, credential : Operations \cup {None},
                manager : BOOLEAN, expires : Expiries \cup {None},
                now : Times, begun : Times]
Rows        == Principals \cup Credentials
Records     == [id : Operations, actor : Operations, action : Kinds, resource : Operations,
                before : Rows \cup {None}, after : Rows]

ASSUME NoneAssumption == None \notin Principals \cup Credentials

\* What the service promises: see IdentityDirectory.
Directory == INSTANCE IdentityDirectory WITH Ids <- Operations

NoCommand == [kind |-> None, actor |-> None, principal |-> None, credential |-> None,
              manager |-> FALSE, expires |-> None, now |-> 0, begun |-> 0]

\* The shape of the state.  The advisory lock is held by a call in the middle of
\* its transaction or by nobody: no end of a transaction leaks it.
TypeOK ==
  /\ clock \in Times
  /\ principals \in [Operations -> Principals \cup {None}]
  /\ credentials \in [Operations -> Credentials \cup {None}]
  /\ audits \subseteq Records
  /\ lock \in {o \in Operations : stage[o] \in {"checking", "writing"}} \cup {None}
  /\ stage \in [Operations -> Stages]
  /\ command \in [Operations -> Commands]
  /\ seen \in [Operations -> Rows \cup {None}]

Exists(p) == principals[p] # None
Issued(c) == credentials[c] # None
Active(p) == Exists(p) /\ ~principals[p].disabled

\* is_usable_at, and the same condition in has_recoverable_manager's SQL.
Usable(c, at) ==
  /\ Issued(c)
  /\ ~credentials[c].revoked
  /\ credentials[c].expires # Never => at < credentials[c].expires

\* The active managers with a credential usable at that instant.
RecoverableManagers(at) ==
  {p \in Operations :
     /\ Active(p) /\ principals[p].manager
     /\ \E c \in Operations : Usable(c, at) /\ credentials[c].owner = p}

Advance(o, from, to) ==
  /\ stage[o] = from
  /\ stage' = [stage EXCEPT ![o] = to]

Release(o) == lock' = IF lock = o THEN None ELSE lock

\* The handler returns or raises; what it held in its locals is gone.
End(o, from, to) ==
  /\ Advance(o, from, to)
  /\ command' = [command EXCEPT ![o] = NoCommand]
  /\ seen' = [seen EXCEPT ![o] = None]

-----------------------------------------------------------------------------
Tick ==
  /\ clock < MaxTime
  /\ clock' = clock + 1
  /\ UNCHANGED <<principals, credentials, audits, lock, stage, command, seen>>

Admitted == Cardinality({q \in Operations : stage[q] \in Live}) < MaxInFlight

\* A bearer is accepted: its credential is usable and its Principal active at
\* this instant.  The handler keeps only the identity and the capability.
Authenticate(o, c) ==
  /\ Admitted
  /\ Advance(o, "idle", "authenticated")
  /\ Usable(c, clock) /\ Active(credentials[c].owner)
  /\ command' = [command EXCEPT ![o].actor = credentials[c].owner]
  /\ UNCHANGED <<clock, principals, credentials, audits, lock, seen>>

\* _require_manager.
Authorized(o) == principals[command[o].actor].manager

\* An actor that manages nobody, or a credential asked for with an expiry that is
\* not in the future.
RefuseRequest(o) ==
  /\ End(o, "authenticated", "refused")
  /\ Authorized(o) => \E expires \in Expiries \ {Never} : expires <= clock
  /\ UNCHANGED <<clock, principals, credentials, audits, lock>>

\* The ids a caller may name: those of rows it can know of, and its own call,
\* which stands for an id that no row has.
Targets(o, rows) == {x \in Operations : rows[x] # None} \cup {o}

\* The clock is read before the transaction opens.
Start(o, from, to, request) ==
  /\ Advance(o, from, to)
  /\ command' = [command EXCEPT ![o] = request]
  /\ UNCHANGED <<clock, principals, credentials, audits, lock, seen>>

\* The deployment's bootstrap token was supplied.
StartBootstrap(o) ==
  /\ Admitted
  /\ Start(o, "idle", "opening",
           [NoCommand EXCEPT !.kind = "bootstrap", !.manager = TRUE,
                             !.expires = Never, !.now = clock])

StartCreate(o, manager) ==
  /\ Start(o, "authenticated", "writing",
           [command[o] EXCEPT !.kind = "create", !.manager = manager, !.now = clock])
  /\ Authorized(o)

StartIssue(o, p, expires) ==
  /\ Start(o, "authenticated", "reading",
           [command[o] EXCEPT !.kind = "issue", !.principal = p,
                              !.expires = expires, !.now = clock])
  /\ Authorized(o)
  /\ expires # Never => expires > clock

StartRevoke(o, p, c) ==
  /\ Start(o, "authenticated", "opening",
           [command[o] EXCEPT !.kind = "revoke", !.principal = p,
                              !.credential = c, !.now = clock])
  /\ Authorized(o)

StartDisable(o, p) ==
  /\ Start(o, "authenticated", "opening",
           [command[o] EXCEPT !.kind = "disable", !.principal = p, !.now = clock])
  /\ Authorized(o)

-----------------------------------------------------------------------------
(***************************************************************************)
(* The transaction.  PostgreSQL's now() is the instant it began, before    *)
(* any wait for the lock; the lock is held until it commits or rolls back. *)
(***************************************************************************)
RequestLock(o) ==
  /\ Advance(o, "opening", "waiting")
  /\ command' = [command EXCEPT ![o].begun = clock]
  /\ UNCHANGED <<clock, principals, credentials, audits, lock, seen>>

AcquireLockTogether(o) ==
  /\ Advance(o, "waiting", "checking")
  /\ lock' = o
  /\ UNCHANGED <<clock, principals, credentials, audits, command, seen>>

AcquireLock(o) ==
  /\ Advance(o, "waiting", "checking")
  /\ lock = None
  /\ lock' = o
  /\ UNCHANGED <<clock, principals, credentials, audits, command, seen>>

\* has_recoverable_manager(excluding_principal_id=p).
OtherManager(p, at) == RecoverableManagers(at) \ {p} # {}

BootstrapPermitted(o) == \A p \in Operations : ~Exists(p)

IssuePermitted(o) == Active(command[o].principal)

RevokePermittedCountingItself(o) ==
  LET p == command[o].principal
      c == command[o].credential
  IN  /\ Exists(p) /\ Issued(c)
      /\ credentials[c].owner = p /\ ~credentials[c].revoked
      /\ Active(p) /\ principals[p].manager =>
           \/ OtherManager(p, command[o].begun)
           \/ \E d \in Operations :
                Usable(d, command[o].now) /\ credentials[d].owner = p

RevokePermitted(o) ==
  LET p == command[o].principal
      c == command[o].credential
  IN  /\ Exists(p) /\ Issued(c)
      /\ credentials[c].owner = p /\ ~credentials[c].revoked
      /\ Active(p) /\ principals[p].manager =>
           \/ OtherManager(p, command[o].begun)
           \/ \E d \in Operations \ {c} :
                Usable(d, command[o].now) /\ credentials[d].owner = p

DisablePermitted(o) ==
  LET p == command[o].principal
  IN  /\ Active(p)
      /\ principals[p].manager => OtherManager(p, command[o].begun)

Permitted(o) ==
  CASE command[o].kind = "bootstrap" -> BootstrapPermitted(o)
    [] command[o].kind = "issue"     -> IssuePermitted(o)
    [] command[o].kind = "revoke"    -> RevokePermitted(o)
    [] command[o].kind = "disable"   -> DisablePermitted(o)

\* The row that a removal has read, changes and writes back.
Target(o) ==
  CASE command[o].kind = "revoke"  -> credentials[command[o].credential]
    [] command[o].kind = "disable" -> principals[command[o].principal]
    [] OTHER                       -> None

\* The reads of the transaction; a refusal rolls it back.
Check(o) ==
  /\ \/ Advance(o, "checking", "writing")
     \/ Advance(o, "reading", "writing")
  /\ Permitted(o)
  /\ seen' = [seen EXCEPT ![o] = Target(o)]
  /\ UNCHANGED <<clock, principals, credentials, audits, lock, command>>

Refuse(o) ==
  /\ \/ End(o, "checking", "refused")
     \/ End(o, "reading", "refused")
  /\ ~Permitted(o)
  /\ Release(o)
  /\ UNCHANGED <<clock, principals, credentials, audits>>

\* COMMIT of the mutation together with its audit record, then the lock is free.
Commit(o, kind) ==
  /\ command[o].kind = kind
  /\ End(o, "writing", "done")
  /\ Release(o)
  /\ UNCHANGED clock

\* The fingerprints are of the row that was read and of what the handler made of it.
Audit(o, resource, after) ==
  audits' = audits \cup {[id |-> o, actor |-> command[o].actor, action |-> command[o].kind,
                         resource |-> resource, before |-> seen[o], after |-> after]}

NewPrincipal(o) == [manager |-> command[o].manager, disabled |-> FALSE]
NewCredential(o, owner) ==
  [owner |-> owner, expires |-> command[o].expires, revoked |-> FALSE]

\* No actor exists yet, so the bootstrap leaves no audit record.
CommitBootstrap(o) ==
  /\ Commit(o, "bootstrap")
  /\ principals' = [principals EXCEPT ![o] = NewPrincipal(o)]
  /\ credentials' = [credentials EXCEPT ![o] = NewCredential(o, o)]
  /\ UNCHANGED audits

CommitCreate(o) ==
  /\ Commit(o, "create")
  /\ principals' = [principals EXCEPT ![o] = NewPrincipal(o)]
  /\ Audit(o, o, NewPrincipal(o))
  /\ UNCHANGED credentials

CommitIssue(o) ==
  /\ Commit(o, "issue")
  /\ credentials' = [credentials EXCEPT ![o] = NewCredential(o, command[o].principal)]
  /\ Audit(o, o, NewCredential(o, command[o].principal))
  /\ UNCHANGED principals

CommitRevoke(o) ==
  /\ Commit(o, "revoke")
  /\ credentials' = [credentials EXCEPT ![command[o].credential].revoked = TRUE]
  /\ Audit(o, command[o].credential, [seen[o] EXCEPT !.revoked = TRUE])
  /\ UNCHANGED principals

CommitDisable(o) ==
  /\ Commit(o, "disable")
  /\ principals' = [principals EXCEPT ![command[o].principal].disabled = TRUE]
  /\ Audit(o, command[o].principal, [seen[o] EXCEPT !.disabled = TRUE])
  /\ UNCHANGED credentials

\* A crash, a lost connection or a cancelled request: PostgreSQL rolls the
\* transaction back and frees its lock.
Abort(o) ==
  /\ \E from \in Live : End(o, from, "failed")
  /\ Release(o)
  /\ UNCHANGED <<clock, principals, credentials, audits>>

Requested(o) ==
  \/ RefuseRequest(o)
  \/ \E manager \in BOOLEAN : StartCreate(o, manager)
  \/ \E p \in Targets(o, principals), expires \in Expiries : StartIssue(o, p, expires)
  \/ \E p \in Targets(o, principals), c \in Targets(o, credentials) : StartRevoke(o, p, c)
  \/ \E p \in Targets(o, principals) : StartDisable(o, p)

Transaction(o) ==
  \/ RequestLock(o) \/ AcquireLock(o) \/ Check(o) \/ Refuse(o)
  \/ CommitBootstrap(o) \/ CommitCreate(o) \/ CommitIssue(o)
  \/ CommitRevoke(o) \/ CommitDisable(o)

Init ==
  /\ clock = 0
  /\ principals = [o \in Operations |-> None]
  /\ credentials = [o \in Operations |-> None]
  /\ audits = {}
  /\ lock = None
  /\ stage = [o \in Operations |-> "idle"]
  /\ command = [o \in Operations |-> NoCommand]
  /\ seen = [o \in Operations |-> None]

Next ==
  \/ Tick
  \/ \E o \in Operations :
       \/ \E c \in Operations : Authenticate(o, c)
       \/ StartBootstrap(o)
       \/ Requested(o)
       \/ Transaction(o)
       \/ Abort(o)

Spec == Init /\ [][Next]_vars

-----------------------------------------------------------------------------
\* ADR-0019:25, the lockout invariant: once bootstrapped, and while credentials
\* do not expire by themselves, some active manager can always authenticate,
\* whatever revocations and disablements race (handlers.py:208-267).
AlwaysRecoverable ==
  (\E p \in Operations : Exists(p)) => RecoverableManagers(clock) # {}

\* The same where credentials expire: a revocation or disablement of an active
\* manager leaves a manager that was recoverable at the instant the handler
\* read its clock, however long it then waited for the lock.
ProtectedAsOfItsClock ==
  [][\A o \in Operations, now \in Times :
       (/\ stage[o] = "writing" /\ stage'[o] = "done"
        /\ command[o].kind \in {"revoke", "disable"} /\ command[o].now = now
        /\ Active(command[o].principal) /\ principals[command[o].principal].manager)
         => RecoverableManagers(now)' # {}]_vars

\* ADR-0019:22-24 and 34: of competing bootstraps one succeeds and none after it,
\* so every Principal but one was created by a recorded actor.
BootstrapOnce ==
  Cardinality({p \in Operations :
    Exists(p) /\ ~\E a \in audits : a.action = "create" /\ a.resource = p}) <= 1

\* Management audit (ADR-0019:32, ADR-0018): a revocation and a disablement
\* happen once and are recorded once; a repeated call is refused, never audited.
EvidenceExact ==
  \A x \in Operations :
    LET About(action) == {a \in audits : a.action = action /\ a.resource = x}
    IN  /\ Cardinality(About("revoke")) =
             (IF Issued(x) /\ credentials[x].revoked THEN 1 ELSE 0)
        /\ Cardinality(About("disable")) =
             (IF Exists(x) /\ principals[x].disabled THEN 1 ELSE 0)

\* ADR-0019:22-35 with ADR-0018: whatever the calls' statements interleave with,
\* every call that commits does so as one operation of the directory, on the rows
\* as they stand, with an actor that is a manager and evidence of the very change.
ImplementsDirectory == Directory!Spec
=============================================================================
