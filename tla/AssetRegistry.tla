---------------------------- MODULE AssetRegistry ----------------------------
(***************************************************************************)
(* Creating a tenant and registering an agent or a model of one            *)
(* (identity_tenancy, ai_asset_registry), served by a process that came up *)
(* with its settings and shares one connection pool.                       *)
(*                                                                         *)
(* A request uses up to three sessions one after the other: to             *)
(* authenticate its bearer, to look up the owning tenant, and to insert    *)
(* its row.  The database decides whether a name is free, when the row is  *)
(* inserted.  The application checks nothing beforehand.                   *)
(***************************************************************************)
EXTENDS Configuration, ConnectionPool

CONSTANTS
  Principals,     \* active management principals with a usable credential
  Founding,       \* a tenant that exists from the beginning,
  FoundingName,   \* its name
  Nobody,         \* owner of a tenant
  Fold,           \* texts that differ in case or white space fold to one key
  Length,         \* of a text once its white space is collapsed
  FoldedLength,   \* of its key: case folding may lengthen a text
  Explored,       \* bound: the commands sent
  Served,         \* bound: the environments under which requests are explored
  MaxGrants       \* bound: replacements of tenant scopes

ASSUME RegistryAssumption ==
  /\ Founding \notin Calls /\ Nobody \notin Calls \cup {Founding}
  /\ \A c \in Explored : c.reference \in Texts
  /\ DOMAIN Fold = Texts /\ Length \in [Texts -> Nat] /\ FoldedLength \in [Texts -> Nat]

VARIABLES
  rows,     \* tenants, agents and models, committed
  scopes,   \* management_principal_tenant_scopes
  grants,   \* replacements of scopes so far
  stage,
  actor, command,
  seen      \* authorized_tenant_ids, as the authentication read them

registry == <<rows, scopes, grants>>
pool == <<held, waits>>
vars == <<environment, service, registry, pool, stage, actor, command, seen>>

Ids == Calls \cup {Founding}
\* A row is committed from "answering" on: the answer is "created", or "lost".
Open == {"authenticating", "admitting", "looking_up", "inserting", "committing", "answering"}
Stages == Open \cup {"idle", "refused", "conflict", "failed", "created", "lost"}

Tenants == {row.id : row \in {r \in rows : r.kind = "tenant"}}

-----------------------------------------------------------------------------
(***************************************************************************)
(* A row, as the command of o makes it.  The unique constraints are on the *)
(* key of the name, for agents and models together with their tenant.      *)
(***************************************************************************)
RowAsTyped(o) ==
  LET c == command[o]
  IN  [id |-> o, kind |-> c.kind, tenant |-> c.tenant, name |-> c.name,
       provider |-> c.provider, reference |-> c.reference]

Row(o) ==
  LET c == command[o]
  IN  [id |-> o, kind |-> c.kind, tenant |-> c.tenant, name |-> c.name,
       provider |-> c.provider, reference |-> Stripped[c.reference]]

KeyOf(row) == <<row.kind, row.tenant, Fold[row.name]>>

\* The value objects: the name is 1 to 100 characters long once its white space
\* is collapsed, a stripped reference 1 to 255.
Valid(c) ==
  /\ Length[c.name] \in 1 .. 100
  /\ c.kind = "model" => Length[Stripped[c.reference]] \in 1 .. 255

\* normalized_name is a String(200).
Fits(row) == FoldedLength[row.name] <= 200

Limit == settings.poolSize + settings.maxOverflow

Advance(o, from, to) ==
  /\ stage[o] = from
  /\ stage' = [stage EXCEPT ![o] = to]

Untouched == UNCHANGED <<environment, service, registry, actor, command, seen>>

\* The request is answered or dies, whatever it waited for or held.
End(o, from, to) ==
  /\ Advance(o, from, to)
  /\ ReturnAll(o)
  /\ UNCHANGED <<environment, service, scopes, grants, actor, command, seen>>

\* A statement runs: its session has a connection.
Executing(o) == held[o] > 0 /\ o \notin waits

-----------------------------------------------------------------------------
Receive(o, p, c) ==
  /\ service = "up" /\ environment \in Served
  /\ Advance(o, "idle", "authenticating")
  /\ Request(o)
  /\ actor' = [actor EXCEPT ![o] = p]
  /\ command' = [command EXCEPT ![o] = c]
  /\ UNCHANGED <<environment, service, registry, held, seen>>

Connect(o) ==
  /\ Checkout(o, Limit)
  /\ UNCHANGED stage /\ Untouched

\* Nothing catches sqlalchemy.exc.TimeoutError.
TimeOut(o) ==
  /\ Exhausted(o, Limit)
  /\ \E from \in {"authenticating", "looking_up", "inserting"} : End(o, from, "failed")
  /\ UNCHANGED rows

\* require_management_principal reads the scopes, records its evidence and
\* commits; the session stays open until it has.
Authenticate(o) ==
  /\ Advance(o, "authenticating", "admitting")
  /\ Executing(o)
  /\ seen' = [seen EXCEPT ![o] = scopes[actor[o]]]
  /\ UNCHANGED <<environment, service, registry, pool, actor, command>>

\* authorize_tenant: creating a tenant needs no scope.
Authorized(o) == command[o].kind # "tenant" => command[o].tenant \in seen[o]

\* From the end of the authentication to the first statement of the next
\* session nothing is awaited.
Admit(o) ==
  /\ Advance(o, "admitting", IF command[o].kind = "tenant" THEN "inserting" ELSE "looking_up")
  /\ Authorized(o) /\ Valid(command[o])
  /\ Return(o) /\ Request(o)
  /\ Untouched

Refuse(o) ==
  /\ End(o, "admitting", "refused")
  /\ ~(Authorized(o) /\ Valid(command[o]))
  /\ UNCHANGED rows

KeepOpen(o) == held' = held

\* PostgresTenantExistence.exists, in a session of its own, closed before the
\* insertion opens the next one.
Closed(o) == Return(o)

LookUp(o) ==
  /\ Advance(o, "looking_up", IF command[o].tenant \in Tenants THEN "inserting" ELSE "refused")
  /\ Executing(o)
  /\ Closed(o)
  /\ IF command[o].tenant \in Tenants THEN Request(o) ELSE UNCHANGED waits
  /\ Untouched

-----------------------------------------------------------------------------
(***************************************************************************)
(* INSERT under the unique constraint: it waits for a transaction that has *)
(* inserted the key, and fails on a committed row.                         *)
(***************************************************************************)
NobodyToWaitFor(o) == {}

Rivals(o) ==
  {q \in Calls \ {o} : /\ stage[q] \in {"inserting", "committing"} /\ q \notin waits
                       /\ KeyOf(Row(q)) = KeyOf(Row(o))}

Contenders(o) ==
  {q \in Calls \ {o} : stage[q] = "committing" /\ KeyOf(Row(q)) = KeyOf(Row(o))}

Taken(o) == \E row \in rows : KeyOf(row) = KeyOf(Row(o))

Insert(o) ==
  /\ Advance(o, "inserting", "committing")
  /\ Executing(o) /\ Fits(Row(o))
  /\ Contenders(o) = {} /\ ~Taken(o)
  /\ UNCHANGED pool /\ Untouched

\* UniqueViolation of the named constraint: 409.
Conflict(o) ==
  /\ End(o, "inserting", "conflict")
  /\ Executing(o) /\ Fits(Row(o))
  /\ Contenders(o) = {} /\ Taken(o)
  /\ UNCHANGED rows

\* The key is too long for its column: DataError, nothing catches it.
Overflow(o) ==
  /\ End(o, "inserting", "failed")
  /\ Executing(o) /\ ~Fits(Row(o))
  /\ UNCHANGED rows

\* COMMIT takes effect in the database; the request still awaits its reply.
Commit(o) ==
  /\ Advance(o, "committing", "answering")
  /\ rows' = rows \cup {Row(o)}
  /\ UNCHANGED <<environment, service, scopes, grants, pool, actor, command, seen>>

\* 201, after the session has returned its connection.
Answer(o) ==
  /\ End(o, "answering", "created")
  /\ UNCHANGED rows

\* A crash of the request, a lost connection or a cancellation.  PostgreSQL rolls
\* the transaction back, unless its COMMIT has taken effect: then only the answer
\* is lost.
Abort(o) ==
  /\ \/ \E from \in Open \ {"answering"} : End(o, from, "failed")
     \/ End(o, "answering", "lost")
  /\ UNCHANGED rows

\* PUT of a principal's scopes, which may name any tenant that exists.
Grant(p, tenants) ==
  /\ service = "up" /\ environment \in Served /\ grants < MaxGrants
  /\ tenants \subseteq Tenants
  /\ scopes' = [scopes EXCEPT ![p] = tenants]
  /\ grants' = grants + 1
  /\ UNCHANGED <<environment, service, rows, pool, stage, actor, command, seen>>

\* What a request may do other than give up.
Progress(o) ==
  \/ Connect(o) \/ Authenticate(o) \/ Admit(o) \/ Refuse(o) \/ LookUp(o)
  \/ Insert(o) \/ Conflict(o) \/ Overflow(o) \/ Commit(o) \/ Answer(o)

Step(o) == Progress(o) \/ TimeOut(o)

NoCommand == [kind |-> "none", tenant |-> Nobody, name |-> Blank,
              provider |-> Blank, reference |-> Blank]

FoundingRow ==
  [id |-> Founding, kind |-> "tenant", tenant |-> Nobody, name |-> FoundingName,
   provider |-> Blank, reference |-> Blank]

Init ==
  /\ Configured /\ FullPool
  /\ rows = {FoundingRow}
  /\ scopes = [p \in Principals |-> {Founding}]
  /\ grants = 0
  /\ stage = [o \in Calls |-> "idle"]
  /\ actor = [o \in Calls |-> CHOOSE p \in Principals : TRUE]
  /\ command = [o \in Calls |-> NoCommand]
  /\ seen = [o \in Calls |-> {}]

Next ==
  \/ Load /\ UNCHANGED <<registry, pool, stage, actor, command, seen>>
  \/ \E o \in Calls, p \in Principals, c \in Explored : Receive(o, p, c)
  \/ \E o \in Calls : Step(o) \/ Abort(o)
  \/ \E p \in Principals, tenants \in SUBSET Ids : Grant(p, tenants)

Spec == Init /\ [][Next]_vars

\* The event loop resumes every request, and a checkout ends within pool_timeout.
FairSpec == Spec /\ \A o \in Calls : WF_vars(Step(o))

-----------------------------------------------------------------------------
SameName(r1, r2) ==
  r1.kind = r2.kind /\ r1.tenant = r2.tenant /\ Fold[r1.name] = Fold[r2.name]

\* docs/architecture/README.md:113, 132 and 138: within a tenant, and for tenants
\* themselves, one row holds a name however it is spelled, whatever registrations
\* race and die.  The answers are true: a 201 has its row, a request that was
\* answered otherwise or failed before its COMMIT took effect leaves none, and a
\* 409 names a row another request has committed, though that request may have
\* died before it was answered.
NamesHaveOneHolder ==
  /\ \A r1, r2 \in rows : SameName(r1, r2) => r1 = r2
  /\ \A o \in Calls :
       /\ Row(o) \in rows <=> stage[o] \in {"answering", "created", "lost"}
       /\ stage[o] = "conflict" => \E row \in rows : row.id # o /\ SameName(row, Row(o))

NoHoldAndWait == \A o \in waits : held[o] = 0

\* The guards of the actions of Progress(o); what else they say assigns the next
\* state.
CanGoOn(o) ==
  \/ o \in waits /\ InUse < Limit
  \/ stage[o] \in {"admitting", "committing", "answering"}
  \/ stage[o] \in {"authenticating", "looking_up"} /\ Executing(o)
  \/ stage[o] = "inserting" /\ Executing(o) /\ (Fits(Row(o)) => Contenders(o) = {})

SomebodyCanGoOn == (\E o \in Calls : stage[o] \in Open) => \E o \in Calls : CanGoOn(o)

\* bootstrap/database.py:24-31: requests that wait for a connection hold none, and
\* while any request is open one of them can go on, however small the pool is and
\* whatever rows they wait for; none has to run into pool_timeout.
PoolNeverStandsStill ==
  /\ NoHoldAndWait
  /\ SomebodyCanGoOn
  /\ \A o \in Calls : CanGoOn(o) => ENABLED Progress(o)

\* Every request is answered, also where registrations of one name wait for
\* each other's transactions and for the pool.
EveryRequestEnds == \A o \in Calls : stage[o] \in Open ~> stage[o] \notin Open

\* domain/model.py:53-66 of ai_asset_registry with settings.py:43-70 and
\* runtime_gateway/infrastructure/pricing.py: the price of a registered model is
\* the entry of its provider whose reference is the same text, whatever white space
\* was typed around either, and no other entry.  An entry that keeps a separator
\* at an end of its reference, where only the registry strips it, is no model's.
RegisteredModelsFindTheirPrice ==
  \A row \in rows, i \in DOMAIN environment.pricing :
    row.kind = "model" =>
      LET given == environment.pricing[i]
          typed == command[row.id]
      IN  PriceOf(settings, row.provider, row.reference) = settings.pricing[i]
            <=> /\ Trimmed[given.provider] = typed.provider
                /\ Stripped[given.reference] = Stripped[typed.reference]
                /\ Trimmed[given.reference] = Stripped[given.reference]
=============================================================================
