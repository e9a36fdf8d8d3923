# Valor Control Plane: TLA+ models, model checking and proofs

Valor is a FastAPI service over one PostgreSQL database. It admits runtime
requests to language models (a decision per request, a daily usage limit per
workload, a daily cost budget per tenant), reports on them, and administers the
agents, models, permissions and identities those requests depend on. This directory holds TLA+
modules of its state-changing components, the TLC runs that check them, and
TLAPS proofs of the properties that matter most.

Paths below are relative to `src/src/valor/` unless they name a document.

## 1. The system

Requests are coroutines of one or more processes; they interleave at every
`await`. They share nothing but the database. PostgreSQL runs each transaction
at READ COMMITTED: a statement sees what had committed when the statement
began. A Unit of Work (`infrastructure/sqlalchemy_uow.py`) is one session and one
transaction; leaving it without `commit()` rolls back. A crash or a cancelled
request rolls back the open transaction and loses what the handler held.

| Component | State it keeps | Operations that change it | What makes it correct |
|---|---|---|---|
| `runtime_gateway`, invocations | `invocations`, which is also the only usage and cost ledger | `POST /runtime/invocations` | no call without a committed ALLOW; limit and budget contain requests served one at a time, concurrency overshoots by a bounded amount; a refusal's recorded evidence stays true; every request settles |
| `runtime_gateway`, cost | none | `attribute_cost` | each component is the even-nearest quantum, unknown units give no cost |
| `runtime_gateway`, reports | none | read only: three statements per report | the parts of one answer are ordered in time and a torn answer can be told; every row is in exactly one completeness count; breakdowns are the top of the ranking |
| `policy_risk`, evaluation | `policy_decisions` | one decision per invocation | default deny, exact tuple |
| `policy_risk`, administration | `agent_model_permissions` | `PUT /policies/agent-model-permissions` | atomic upsert with evidence; id and creation time survive |
| `management_identity` | `management_principals`, `_credentials`, `_scopes` | bootstrap, create, issue, revoke, disable, set scopes | never locked out, one bootstrap, terminal revocation and disablement, exact evidence |
| `management_identity`, authentication | `management_authentication_evidence` | every bearer presented | at most one observation per bucket, which every answer has; no answer forgets an earlier revocation; only the secret's holder leaves a lifecycle outcome |
| `runtime_identity` | `runtime_principals`, `runtime_credentials` | create, issue, revoke, disable, initialize limits, bind continuity | bindings one to one, limits set once, terminal disablement |
| `management_audit` | `management_audit_records` | appended by the mutations above | evidence commits with the mutation or not at all |
| `ai_asset_registry`, `identity_tenancy` | `agents`, `models`, `tenants` | registrations, one INSERT each | a name has one holder, every 201 and 409 is true, and a row without a 201 is that of a lost answer, whatever races and dies |
| `bootstrap`, settings | the settings, validated once | start | no configured principal, price or budget is shadowed by another |
| `bootstrap`, connection pool | connections checked out | every session | requests never all wait for the pool |
| `security`, `api` | none | authentication of bearers, error mapping | only the tenants in scope are touched |

How they interact: the gateway reads tenants, agents and models (admission), asks
`policy_risk` for a decision (which commits on its own), reads its own ledger
twice, calls the provider, and writes its ledger. `policy_risk` and the two
identity components append to `management_audit` inside the mutating transaction.
Every management request is first authenticated, in an earlier transaction, by
`management_identity`; the handler keeps only an identity and a capability.

What is hard here: sums read without a lock and acted upon later; a UTC day fixed
at the start of a request that midnight overtakes; a before-state read ahead of
the row lock; an advisory lock, and clocks read before waiting for it; a crash
between a committed decision, the provider's answer and the ledger's INSERT; a
report whose statements see different instants; requests that need several
connections of one small pool, and wait for each other's rows meanwhile; lookups
that rely on what was validated when the process started.
`PROJECT.json` lists each such place with its line under `hazards`.

## 2. Modules and how they correspond to the code

| Module | Models | Depends on |
|---|---|---|
| `CostAttribution` | `runtime_gateway/domain/cost.py` | |
| `InvocationLedger` | what the `invocations` table promises its readers (abstract) | `CostAttribution` |
| `RuntimeGateway` | `runtime_gateway/application/create_invocation.py`, the evaluation of `policy_risk`, the ledger readers, the invocation repository | `CostAttribution`, instantiates `InvocationLedger` |
| `Reporting` | `runtime_gateway/application/reporting.py`, `infrastructure/reporting.py` | `InvocationLedger` |
| `Configuration` | the validators of `bootstrap/settings.py` and the four lookups in the settings | `CostAttribution` |
| `ConnectionPool` | `bootstrap/database.py`, sessions | |
| `AssetRegistry` | registration of tenants, agents and models, with authentication, scopes and the pool | composes `Configuration`, `ConnectionPool` |
| `PermissionRegister` | what the permission PUT promises (abstract) | |
| `PermissionAdmin` | `policy_risk/application/set_permission.py`, statement by statement | instantiates `PermissionRegister` |
| `IdentityDirectory` | what the lifecycle of management principals promises (abstract) | |
| `ManagementIdentity` | `management_identity/application/handlers.py`, acceptance in `authentication.py` | instantiates `IdentityDirectory` |
| `TenantScopes` | `replace_scopes` and `set_scopes` of `management_identity`, row by row | |
| `RuntimeIdentity` | `runtime_identity/application/handlers.py` and its repositories | |
| `AuthenticationLog` | what the evidence of management authentication promises (abstract) | |
| `AuthenticationEvidence` | `management_identity/application/authentication.py` and `observe` | instantiates `AuthenticationLog` |
| `MC...` | values for TLC | the module of that name |
| `...Proofs` | theorems (`AssetRegistryProofs` also about `CostAttribution`) | the module of that name |

### RuntimeGateway

`stage[r]` is the await at which the handler of request `r` is suspended;
`command`, `permission` and `draft` are its locals. Each database call of
`CreateInvocationHandler` runs in a transaction of its own, so each is an action:
`Receive` (authenticated; `started_at` is read), `Admit` (the three lookups of
rows nothing deletes or changes), `ReadPermission`, then `Allow` or `Deny` with
the commit of the decision, `PassUsageLimit` or `LimitUsage`, `PassBudget`,
`LimitCost` or `RefuseUnbudgeted`, `ProviderAnswers` or `ProviderFails`,
`Persist` or `PersistOverflows`. `Abort` ends a handler at any await: a database
error, a cancellation, a crash. `Tick` moves the UTC day and `SetPermission`
commits a PUT at any moment; the PUT's inside is `PermissionAdmin`.

A request stands for the `InvocationId` it generates. Sums of natural numbers
are written as the cardinality of the set of counted units, which keeps them
free of recursion and within reach of the provers. Prompt, answer, ids of the
provider and durations are left out: nothing in the handler depends on them.
Money counts in the code's quantum of 10^-12 USD; rates have at most twelve
decimals, so all amounts are integers.

### InvocationLedger and Reporting

`InvocationLedger` is what readers of the table rely on: a row appears once, complete,
and is never changed; it satisfies the CHECK constraints and the checks of the domain
object (`WellFormed`), and a refusal cites a consumption the ledger really held
(`Justified`). `RuntimeGateway` implements it: `LedgerRow` reads a stored invocation as a
row of it, and the run checks the refinement. `Reporting` extends it, so a report is checked
against every ledger the gateway may leave and not against samples.

`Ask` is the route and the validation of the range, `CheckTenant` a session of its own, and
`ReadTotals`, `ReadAgents`, `ReadModels` are the three statements of the next one, between
which `Record` inserts rows of any day. The columns of the totals (`Totals`) and of the
breakdowns (`Group`) are defined apart, as the code writes them apart. Agents and models
are numbers, since the order of their ids breaks ties; days stand for instants. A sum is the number
of the units summed, as in the gateway, and `Ranked` is the one list of all groups in the order of the
statement's `ORDER BY`, which `RowsAssumption` makes total. The response keeps `TOP_N` of `TOP_N + 1` fetched rows. `Unavailable` is the 503.

### Configuration, ConnectionPool and AssetRegistry

`Configuration` takes an environment through the stripping of fields (`Loaded`), the validators
(one operator per settings class), and `Load`, after which the service is up or down. A text is a value.
Two functions strip it, because two do in the code: `Trimmed` is pydantic's, applied to the fields of the
settings, and `Stripped` is Python's `str.strip()`, applied by the domain objects
(`ProviderModelReference`, `RuntimePrincipal`, `PricingSnapshot`), which also takes U+001C to U+001F for white
space. `StrippedAssumption` is all that is assumed of them. What only the second one strips is a
text the settings accept: as a part of a price it stops the start of the service (`Priceable`), as
the id of a principal it makes an identity that cannot authenticate (`Named`). The
lookups are those of the code: a runtime credential must match one principal and no
other, a dictionary keeps the last of equal keys, the legacy lookup finds the first.

`ConnectionPool` counts the connections each request holds and the requests suspended in a
checkout; `InUse` is the number of connections of all of them. A session checks its connection out at its first statement; every `async with` of
the registrations closes one session before it opens the next, which `Return(o) /\ Request(o)`
in `Admit` and `Closed(o)` in `LookUp` say.

`AssetRegistry` composes both: a request authenticates (its scopes are read in that
transaction), is authorised against what was read, looks the tenant up in a second session and
inserts in a third, where the unique constraint decides. Tenants, agents and models are rows of one
variable and differ in `kind`; the constraint is on kind, tenant and folded name. `Insert` waits
for whoever has inserted the key and not ended (`Contenders`), `Conflict` is the 409, `Overflow`
the folded name that its column cannot hold. `Commit` is COMMIT in the database and `Answer` the 201; a
request that dies between them is `lost`, and leaves its row (`Abort`). `Grant` replaces a principal's scopes at any
moment. Nothing deletes a tenant and scopes name tenants that exist, so `LookUp` always finds
the tenant of an authorised request: its other branch is modelled and not reached.

### CostAttribution

`RoundHalfEven(n, d)` is `quantize(COST_QUANTUM, ROUND_HALF_EVEN)` of `n / d`. The
code divides with fifty digits first; within the magnitudes the columns can hold
(twelve digits before the point, twelve after) a quotient of integers that is not
a tie differs from a tie by more than that division loses, so rounding twice gives
what rounding once does.

### PermissionAdmin and PermissionRegister

One action per statement: `Admit`/`Refuse` (the lookups outside the transaction,
then the clock), `ReadPrevious` (a SELECT without a lock), `Upsert` (blocked while
another transaction has written the same key: `Uncontended`), `Commit` (the audit
INSERT and COMMIT). A returned row whose `updated_at` precedes its `created_at`
makes the domain object raise: `UpsertRejected`. A PUT stands for the
`PermissionId` it proposes; an update keeps the first one. The row that
`RETURNING` delivers is fresh, although the same session read the row before: the
session's identity map keeps weak references only, and `ReadPrevious` keeps none
(`tests/integration/runtime_gateway/test_management_audit.py` relies on it).

`PermissionRegister` says what is promised: an atomic register per tuple whose
every change appends its evidence in the same instant and keeps id and creation
time. The evidence starts from a state the key has once been in; the register leaves
open which, because that is what the code leaves open (see the first finding).

### ManagementIdentity and IdentityDirectory

A call stands for the UUIDs it generates, so rows are indexed by the call that
made them. `Authenticate` accepts a bearer; `Start...` is `_require_manager` and the
reading of the clock, `RefuseRequest` a caller who is no manager or an expiry in the past; `RequestLock` opens the transaction and fixes its `now()`
(`begun`); `AcquireLock` is `pg_advisory_xact_lock`; `Check`/`Refuse` stand for the
reads of the transaction; `Commit...` writes the row, appends the record, commits
and frees the lock; `Abort` rolls back and frees it.

Two atomicity arguments. `Authenticate` reads credential and principal in two
statements, and is one action: revocation and disablement are terminal, so what the
later read finds usable was usable at the earlier one. `Check` stands for several
reads under the lock: only creations and issuances run beside it, which can only
turn a refusal into a permission; a refused check is atomic at its first read, a
passed one at its last. `issue` takes no lock and reads one row.
`has_recoverable_manager` compares expiry with the database's `now()`, the start of
the transaction; the handler compares with the application clock it read
before: `begun` and `now`, on one clock here. A caller may name ids of existing rows
and one id that no row has. Creation can also store initial tenant scopes and
credentials; scopes are the subject of `TenantScopes`. `seen` is the row that a removal has read
(`Target`) and writes back; a record holds its actor and the row before and after, which is what
the service fingerprints.

`IdentityDirectory` says what is promised: every operation is one atomic change that leaves, in the same
instant, the evidence of that very change by a manager; rows are never deleted, nothing removed comes
back, and a removal leaves a manager. Left open is what the code leaves open: a
credential may be issued to a principal that has been disabled meanwhile. `ImplementsDirectory` is
the refinement; the rows read under the lock have to be the rows in force at the commit for it to hold.

### TenantScopes

`PUT .../tenant-scopes` of one principal: rows of different principals never meet, so one
is enough. A row is its tenant and the call that inserted it, because a row that is deleted
and inserted again is another row to a waiting DELETE. `StartDelete` takes the statement's
snapshot (`doomed`); `DeleteRow` locks one row of it, waiting for whoever has deleted it, and
skips a row that is gone; `InsertRow` waits for whoever has inserted or deleted the key and
`InsertRefused` is the primary-key violation. Tables change at `Commit`. Calls that wait
for each other in a circle lose one member to PostgreSQL's detector (`DeadlockVictim`).
`recorded` is the scope named by the newest evidence.

### RuntimeIdentity

Calls stand for the ids they generate; `Provisioned` are rows that existed before limits
did, which `initialize_usage_limits` is for. `Start...` checks the manager and reads the clock;
`LockLegacy` and `LockRow` are the advisory lock on the legacy id and `SELECT .. FOR UPDATE`,
taken by bindings only, and derived from `stage`; the other calls go through `Read`, a
SELECT without a lock, and `seen` is the row they go on from. `Commit...` is UPDATE, audit INSERT
and COMMIT in one action: from the UPDATE on the row is locked, so nobody can tell them
apart. An UPDATE waits for a binding that holds its row (`RowFree`). `disable` sets its one column
but computes its evidence from the row it read, which section 5 comes back to. The
gateway's later invocations of a legacy id use the static configuration, with which the
readiness check compares; `History` are those of an earlier configuration, under the legacy id or
under the principal's own (`HistoryAgrees` is both mismatches of `inspect`). Legacy ids are those that
`str.strip()` leaves as they are; section 5 says what happens to others. What is refused before a
transaction opens, `_require_manager` or an expiry in the past, is `Deny`.

### AuthenticationEvidence and AuthenticationLog

`Present` parses the bearer and reads the clock; `ReadCredential` and `Judge` are the two
SELECTs, with revocations and disablements (`Revoke`, `Disable`) before, between and after
them; `Verdict` is the order of the code's questions. `StartPrune` and `Prune` are the snapshot and
the locks of the DELETE of old buckets, `Insert` the `ON CONFLICT DO NOTHING`, `Commit` the end of
the transaction. `accepted` and `rejected` are verdicts that have committed: only their answer
follows, and a process that dies before giving it leaves a row whose caller has heard nothing. The rows of one DELETE are locked as one,
since all DELETEs scan them in one order. An instant belongs to the hour
`at \div TicksPerHour`; the retention of ninety days is a number of hours. A credential's
scopes, which the accepted identity carries along, are read but not judged, and left out.
`barred` remembers whether the credential was invalid when the attempt began.

`AuthenticationLog` says what is promised: a verdict and its observation appear in one instant, an hour, a
credential and an outcome have one row that nothing replaces, and only a verdict more than the
retention later removes it. It leaves open which verdicts remove old rows, and a
verdict may find its own row gone if it is itself outdated by a later one. The other modules are
read in the same way: `done` means committed.

## 3. Runs

| Run | Instance | Shows |
|---|---|---|
| `gateway_concurrent` | 3 requests, 2 at once, 2 workloads of one tenant, 2 days | default deny, decision before outcome, bounded overshoot of limit and budget, refusals stay justified and final, the handler implements the ledger |
| `gateway_sequential` | 2 requests one at a time, answers within the allowance, 3 workloads of 2 tenants, one without a budget, `IntMax = 3` | limit and budget are never exceeded; every request settles |
| `reporting_concurrent` | up to 4 invocations of 9 kinds of row, 3 tenants, ranges of at most 2 days, `TOP_N = 2` | the parts of a report are ordered in time and a torn one can be told, completeness adds up, breakdowns are the top |
| `assets_concurrent` | 2 requests over texts that differ in case and white space, of which one kind only `Stripped` removes, a pool of 1 or 2 connections, one replaced scope; every pair of principals, prices, budgets and secrets over small domains as settings | names have one holder, the pool never stands still, every request ends, registered models find the price with their reference and no other; accepted settings are live, cost is the sum of even-nearest components |
| `permission_concurrent` | 3 PUTs at once | evidence describes the row in force; the transaction implements the register; every PUT ends |
| `identity_concurrent` | 5 calls, 3 at once, no expiry | a recoverable manager remains, one bootstrap, exact evidence, every commit is one atomic operation of the directory |
| `identity_expiring` | 5 calls, 2 at once, expiry, a moving clock | what a protected removal guarantees once time passes |
| `runtime_identity_concurrent` | 4 calls, 2 at once, one old row, 3 legacy ids (one fits, one has foreign invocations, one has other limits), expiring credentials | bindings rest on what their checks found and make the static identity's equal; limits and bindings happen and are recorded once; nothing permanent is undone; calls never all wait |
| `runtime_identity_removal` | 3 calls, 2 at once | a principal or credential removed twice (finding) |
| `scopes_concurrent` | 3 replacements at once, 3 tenants of which one is not registered | a committed replacement has withdrawn every row it found; every replacement ends, circles of waits included |
| `scopes_race` | 2 replacements at once | the scopes in force are not those of any evidence (finding) |
| `evidence_concurrent` | 3 attempts at once, 2 instants to the hour, 2 hours, one credential that expires | verdict and observation are one step of the log, every row has an attempt that earned it; nobody barred at the start is accepted |

Bounds. Gateway: an overshoot needs two requests that both passed the check before
either is recorded, and a third to be refused after; a shared budget needs two
workloads; midnight needs two days. Limit 3 and allowance 2 put the boundary between
answers of one and of two units, with an answer whose usage is unknown and one whose
cost is unknown. Permission: two PUTs race, the third meets what they left; a
registered and an unregistered key. Identity: locking everyone out takes
bootstrap, creation, issuance and two removals, five calls; two of them racing
need a third in flight only to show who waits. Scopes: a circle of waits and a row
taken over between snapshot and lock need two replacements; the third meets what they left.
Runtime identity: a credential, its binding and two calls that race are four; every race is
one of two; callers name valid limits only, so the refusal of others (`Valid`) is modelled and
not reached; so is that for foreign invocations under the row's own id, which the theorem covers. Evidence: one attempt leaves the row that two others prune, with a retention of no
whole hour so that the next hour is already past it. Reporting: a torn answer
needs rows between any two of three statements, a cut at `TOP_N` needs three groups, and four rows
do both. Registry: names race in pairs; two requests that need three sessions each meet a pool of one
(`Served` explores requests under two of the accepted settings, all others are validated
and looked up in); `Explored` are names that are one name, no name, too long, or too wide once folded, for tenants
that exist, are being created, or never will; `MaxGrants` lets one scope change. Rates to 3, bases to 6 and units
to 4 contain every kind of tie. Requests, PUTs, calls and attempts are
symmetry sets where the run has no liveness property and they are alike.

Deadlock checking is off where a finite set of calls has ended (all but
the gateway). In the gateway runs permission changes never stop, so a deadlock
there would be a model error.

Fairness. `gateway_sequential`, `permission_concurrent`, `scopes_concurrent` and
`assets_concurrent` check liveness, under weak fairness of each handler's steps: the provider client has a timeout, statements
end, and a transaction holding a row commits or is rolled back. Fairness is stated per handler
and excludes `Abort`, `Tick` and arrivals, which nobody owes. Weak fairness is enough although
calls wait for rows: PostgreSQL serves waiters in order and the calls are finite. Where
transactions can wait in a circle (`TenantScopes`) the step that breaks it is the database's
deadlock detector; in `AssetRegistry` a checkout ends at the latest by `pool_timeout`, and
`PoolNeverStandsStill` says that it need not come to that. `RuntimeIdentity` keeps symmetric
calls, under which TLC cannot check liveness; there `NoStandstill` says that among the calls inside
their transactions one can always go on. No step leads back to an earlier stage and calls are finite, so with the
same fairness every call ends.

Each property has a mutant in `PROJECT.json`: a plausible mistake in one mapped
definition (an off-by-one in `Fits`, a lock that admits two holders, evidence that
is not written) under which its run fails.

## 4. Theorems

All are proved for every value of the constants under the modules' named
assumptions: those say what the settings' validators enforce (`allowance <= limit`,
tenants and agents of known sets, a static identity has limits), that request sets are
finite, and that the null values are distinct from the data (`NoneAssumption`, `NoRowAssumption`,
`LedgerRowAssumption`: an absent row is no row). TLC evaluates them all.

**RuntimeGatewayProofs.** `TypeCorrect`; `DefaultDeny` (an ALLOW rests on a
permission of its own tuple: the invariant adds that a permission once written is
never removed and that what the handler read was in the table);
`DecisionBeforeOutcome`. `UsageOvershoot` and `CostOvershoot`: the bounds are not
inductive. The strengthening counts, per workload and day, the units of requests that
have passed the check and not yet been recorded (`OwedUnits`), and bounds the ledger
together with that debt: a check that passes finds room for one allowance, every owed
request adds at most `MaxUnits`, and at most `MaxInFlight` owe. `Containment`
instantiates both at one request at a time whose answers fit the allowances
(assumption `SequentialSettings`).

`RefusalsJustified` needs more than the rows on record: a refusal is written by a later step
than the one that read the sum. The invariant `RefusalInv` therefore speaks of rows recorded and
of rows about to be, and is kept because no step makes a sum smaller (`LedgersGrow`: an INSERT adds
the units of its row, every other step leaves the ledger alone). `RefusedWindowsStayShut` follows: the sum a
refusal cites leaves no room, and what a later check reads is no smaller. `GatewayIsALedger`
is the refinement of `InvocationLedger`: only `Persist` changes the ledger, and it is an
`Insert` of a row that is well formed (what the handler holds at `persisting`, in `HandlerInv`)
and justified (`RefusalInv`).

**ManagementIdentityProofs.** `TypeCorrect`, which includes that the advisory lock is
held only by a call in the middle of a transaction. `Recoverable`: with no expiry,
managers are never locked out, for any number of calls. The invariant: the
holder of the lock is the only call past its check (`LockInv`); what a passed check found
still holds (`GuardInv`: rows are only added by calls without the lock, so the other
manager or other credential it counted on is still there); and once a principal exists
some active manager has a usable credential (`Manned`). `OneBootstrap` and `RemovalsRecordedOnce`: what the check under the lock
found is still so at the commit (`FreshInv`: no principal yet, not yet revoked, not yet disabled), so at
most one principal has no recorded creator (`OneFounder`) and a removal and its one record
come together (`RecordsMatch`). `RemovalsLeaveAManager` is the counterpart of `Recoverable` where credentials
expire: the handler's instant is no later than the transaction's (`InstantsInv`), so the manager that
the check found usable at the latter was usable at the former and stays until the commit (`ProtectedInv`).
`ServiceIsADirectory` is the refinement of `IdentityDirectory`, and assumes nothing about expiry. Every step but the commits
leaves the directory alone. For the commits `DirectoryInv` says that records are those of the rows, that
a passed call's actor is a manager and its id unused, and that the row a removal has seen under the lock
is still in force, since all other calls that change rows wait for the lock. That a manager remains
is `RecoverInv`, which holds for any expiries: an active manager always has a credential nobody revoked.
Only that the credential is still usable, which `Recoverable` claims, needs that none expires.

**RuntimeIdentityProofs.** The invariant says what a call names (`WellFormed`), what a binding holds at each
stage (`Call`: from `locked` on the row is the one it read, from `writing` on the checks have passed,
`Cleared`), that the locks on a legacy id and on a row exclude (`Locks`), and `ContinuityFaithful`. Binding
writes are kept apart by the first lock, other updates from a locked row by `RowFree`; `ChecksHold`,
`Continuity` and `TypeCorrect` follow from the invariant, `Final` and `NoBindingOfDisabled` from it for
each commit. `RecordedOnce`: the UPDATEs of limits and binding are conditional, so the records of a
principal are none before and one after (`PreparedInv`).

**AuthenticationEvidenceProofs.** An attempt at each stage (`Phase`): what barred it is still so and one of
the reads that are left will find it, since revocation and disablement are terminal and the instant is read once.
The table (`TableInv`): an uncommitted observation has its key to itself, and an attempt that found its key
taken found a committed row, which only an attempt more than the retention later removes. From these `TypeCorrect`,
`AnswersAreEvidenced`, `EvidenceHasItsAnswer` and `BarredAreRefused`. `AttemptsAreLogged` is the
refinement of `AuthenticationLog`: the table changes and verdicts become final in `Commit` only (`CommitLogs`). What
it deletes was older than the retention when its statement began, and what it inserts is
the only row of its key, since INSERTs of one key wait for each other.

**AssetRegistryProofs.** `RoundingIsNearestEven`: for every dividend and positive
divisor the rounding returns the nearest integer, the even one at a tie. `SettingsLive`: from uniqueness of the keys each lookup finds the
one entry of its key, for any environment and any two functions that strip as `StrippedAssumption` says. `CostsAreNearest` carries the rounding theorem to
every price a service can come up with. `OneHolder`: the invariant is that an uncommitted row has no
rival among committed and uncommitted rows of its key (`Insert` waits for the latter),
so COMMIT adds the only holder; and that the rows are those of the calls that have committed, answered or not
(`Recorded`). `NothingHeldWhileWaiting`: a waiting request has closed its
sessions, so no circle of waits goes through the pool. `ModelsFindTheirPrice` joins the two: requests are only
served by a service that came up (`ServedWhenUp`), and a call's row is the one its command makes. A stripped
reference equals a trimmed one exactly when the texts strip to the same and the trimmed one keeps
nothing that `Stripped` removes, which is the equivalence the theorem states.

**PermissionAdminProofs.** `NewestEvidenceDescribesRow` and the refinement `PutsAreAtomic`. The
invariant: a transaction that has upserted a key owns it alone (`OneOwner`), so the row it is to
commit still follows from the committed one (`PendingFollows`), and what `previous` names is a state
the key has once been in (`BeforeIsPast`), which is all the register asks of it. Every step but
`Commit` leaves the register alone, and `Commit` is its `Put`. `NothingLeftPending` is the
module's type correctness.

**TenantScopesProofs.** `Withdrawn`: a row in the table belongs to the creation or to a call that has ended
(`Settled`), so no call in flight inserts a row that another's DELETE has seen; when the DELETE ends, every
row it saw that is still there is deleted by this call and by no other (`Swept`), and the COMMIT removes them.
`ExactOneAtATime` proves of replacements served one at a time what the first finding shows of two at once to be
false: with nobody else in flight the DELETE has seen the whole table (`Serial`).

**ReportingProofs.** What one statement reads, a later one reads too, since no row is removed or changed. The
invariant (`ReportInv`) names the rows behind each part of the answer: the totals are those of a set `A`, the
agents' rows the breakdown of a set `B`, the models' of `C`, and `A` is within `B`, `B` within `C`, and `C`
within what is selected now. Two lemmas carry the arithmetic. `SumOfParts`: the sum over a set is the sum of the
sums over the parts of a partition, so the groups of a breakdown add up to `Group` of its rows
(`GroupsAddUp`). `OrderLists`: a finite set under a strict total order is listed by
exactly one increasing sequence, so `Ranked` is well defined and the place of a group is one more than the
number of groups that outrank it (`ListIsRanking`, `RankedRanks`). `AnswersBracketed` compares the figures of sets one of which contains the
other; `EqualCountsOneInstant` because such sets of one size are equal; `TotalsAddUp` because each figure counts
a part of one partition; `TopGroupsShown` from the ranking.

**Who waits for whom.** Liveness needs that calls never all wait and that no step leads
back. Both are proved, for any number of calls, without fairness and without ENABLED: `CanGoOn(o)` spells out the
guards of a call's next actions, and while any call is open, some call meets them. In `CallsServed`
(`RuntimeIdentity`) the order of the two locks makes it so; in `LockServes` (`ManagementIdentity`) and
`PutsServed` (`PermissionAdmin`) whoever is waited for waits for nothing. `PoolServes` (`AssetRegistry`): if a connection is in use, its
holder can go on or waits for the row of a transaction that only has to commit; if none is, the pool, whose accepted
size is positive, hands one out. `AttemptsServed` (`AuthenticationEvidence`): an INSERT waits for a transaction that has deleted its
key, which only one of a later hour does, so the inserting attempt of the latest hour waits for
no other (`GreatestExists`). `ReplacementsServed` (`TenantScopes`) cannot exclude circles: it shows that where every
replacement waits, they form one, so the detector has a victim. In the gateway nothing waits for another request. `StepsLeadOn`, proved in each of the
seven modules of handlers, gives every call a finite number that each of its own steps makes smaller and no
other step makes larger. It is the number of its stage, except in `TenantScopes`, where a
call stays in a stage while rows are left to delete and insert: there a step moves
the stage on, or leaves fewer of finitely many rows (`RowsLeft`), which others' steps never add to.

Model-checked only: `EveryRequestSettles`, `EveryPutEnds`, `EveryReplacementEnds`, `EveryRequestEnds` (liveness,
outside the prover's reach with the rest of what needs fairness) and the last conjunct of `NoStandstill`
and `PoolNeverStandsStill`, which says by ENABLED that the guards of `CanGoOn` are those of the actions; their
other conjuncts are `CallsServed` and `PoolServes`. Facts by induction over data
and RECURSIVE operators are outside the prover's reach as well, which is why sums are
cardinalities.

## 5. Findings

1. `scopes_race`. ADR-0019 lines 10-11 and 33 speak of exact persisted scopes and of evidence
   that contains the exact scope. `replace_scopes` deletes what its snapshot shows and inserts
   its own without a lock, so two concurrent replacements leave the union.
2. `runtime_identity_removal`. `runtime_identity/domain/models.py` lines 121 and 161 refuse a
   second disablement and a second revocation. Both are tested on a row read without a lock
   and written by an unconditional UPDATE: two calls succeed, the second overwrites the
   timestamp, and both are audited.

The models also contain these, which have no run of their own because a property above covers
the part that does hold:

- ADR-0018 lines 12-13 say an idempotent PUT has equal fingerprints and a creation no before
  fingerprint. The previous state is read without a lock before the upsert waits, so of two
  concurrent equal PUTs the second records an older before-state. What holds is that the
  before-state is one the key was once in (`Once` of `PermissionRegister`).
- The three name columns hold 200 characters of the case-folded name, and names are limited to
  100 before folding. Case folding can triple a character, so such a name passes
  validation and its INSERT raises an error nothing maps (`Overflow`). The request ends,
  leaves no row and returns its connection.
- `models.py` line 110 says a disabled principal cannot be prepared for cutover. Limits are
  initialised by an UPDATE that does not ask again, so a disablement may come between;
  a binding cannot be overtaken (`BoundWhileActive`).
- ADR-0023 lines 16-18 promise the fingerprint of the mutation. Runtime disablement and
  initialisation compute it from the row they read; a change committed in between leaves
  a fingerprint of a state the table never had. The table itself is right (`NothingUndone`).
- ADR-0020 lines 9-11 promise the first observation time. The clock is read before the
  transaction and the row belongs to whoever inserts first, so `first_observed_at` is
  some observation of that hour and outcome (`EvidenceAttributable`), not always the first.
- README.md line 19 says a limit rejection is persisted and returned as 429. Consumption, limit
  and allowance are INTEGER columns, the CHECK adds two of them, and the configured limit has
  no upper bound: near 2^31-1 the database refuses the row (`PersistOverflows`) and the request
  ends otherwise (`EveryRequestSettles`). `pricing_basis_units` is an INTEGER too; prices of that size are not part of the
  instance, and the refusal of their rows is `Abort` in stage `persisting`.

- README.md lines 23-24 and ADR-0015 line 13 resolve a price by the exact reference. An entry whose
  reference begins or ends with one of U+001C to U+001F is accepted as it is, while the registry strips the same
  reference: no model finds the entry, and its calls succeed without a cost
  (`RegisteredModelsFindTheirPrice` says which entries are found). Likewise settings accept a
  principal whose id is made of these characters, for which `RuntimePrincipal` raises on every request
  with its credential, and a price made of them ends the start (`AcceptedSettingsAreLive`).
- `runtime_identity/domain/models.py` line 39 strips a legacy id that `presentation/schemas.py` line 35
  and the settings only trimmed. A legacy id that keeps one of these characters is locked,
  checked and compared as it is and bound without it, so that the binding may name another
  identity, or meet the unique index. `RuntimeIdentity` excludes such ids by what `LegacyIds`
  is; its theorems say nothing about them.

Behaviour the code or its documents accept, and the models contain: concurrent
overshoot; usage lost when the process dies after the provider answered; an ALLOW used
after the permission became DENY; an actor disabled between authentication and commit;
loss of the last manager by expiry; timestamps that go backwards in commit order.

## 6. Not modelled, and what is left

Left out for good: response formatting, error bodies and schemas (no state and no order of events);
logging and the construction of the application; migrations, which run before the service starts and whose
constraints are read from the ORM models; the read-only inventories of principals, credentials, audit records and
authentication evidence, which are one bounded SELECT each; hashing and parsing of bearers, of which only
the outcome matters here. The wall clock of `RuntimeGateway` counts days and never goes
back; when it does in reality, `Invocation.__post_init__` raises after the provider has answered, which has the
effect of `Abort` in stage `persisting`.

What could be taken further: the pool under the gateway's and the identity services' sessions, which open one
connection at a time like the registrations.
