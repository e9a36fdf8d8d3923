------------------------ MODULE AssetRegistryProofs ------------------------
(***************************************************************************)
(* Proofs about AssetRegistry, for every set of calls, every environment,  *)
(* every pool size and every set of names: the settings of a service that  *)
(* came up are live, one row holds a name, and no request waits for a      *)
(* connection while it holds one.  CostAttribution, which its settings     *)
(* price with, is proved about here too.                                   *)
(***************************************************************************)
EXTENDS AssetRegistry, FiniteSetTheorems, TLAPS

-----------------------------------------------------------------------------
(***************************************************************************)
(* The rounding of cost.py is the nearest-even one for every amount.       *)
(***************************************************************************)
LEMMA Division ==
  ASSUME NEW n \in Nat, NEW d \in Nat \ {0}
  PROVE  /\ n \div d \in Nat /\ n % d \in 0 .. (d - 1)
         /\ n = d * (n \div d) + (n % d)
BY SMT

\* cost.py:60-66: quantize(..., ROUND_HALF_EVEN) leaves an error of at most half
\* a quantum, and a tie goes to the even neighbour.
THEOREM RoundingIsNearestEven ==
  ASSUME NEW n \in Nat, NEW d \in Nat \ {0}
  PROVE  RoundHalfEven(n, d) \in Nat /\ NearestEven(RoundHalfEven(n, d), n, d)
<1> DEFINE q == n \div d
           r == n % d
<1>1. q \in Nat /\ r \in Nat /\ r < d /\ n = d * q + r
  BY Division
<1>2. q * d = n - r /\ (q + 1) * d = n - r + d
  BY <1>1
<1>3. CASE 2 * r < d \/ (2 * r = d /\ q % 2 = 0)
  <2>1. RoundHalfEven(n, d) = q /\ Distance(q, n, d) = r
    BY <1>1, <1>2, <1>3 DEF RoundHalfEven, Distance
  <2>2. QED
    BY <1>1, <1>3, <2>1 DEF NearestEven
<1>4. CASE ~(2 * r < d \/ (2 * r = d /\ q % 2 = 0))
  <2>1. RoundHalfEven(n, d) = q + 1 /\ Distance(q + 1, n, d) = d - r
    BY <1>1, <1>2, <1>4 DEF RoundHalfEven, Distance
  <2>2. 2 * (d - r) = d => (q + 1) % 2 = 0
    BY <1>1, <1>4
  <2>3. QED
    BY <1>1, <1>4, <2>1, <2>2 DEF NearestEven
<1>5. QED
  BY <1>3, <1>4

-----------------------------------------------------------------------------
(***************************************************************************)
(* Validated settings are live: unique keys leave one match each.          *)
(***************************************************************************)
LEMMA PrincipalsAreLive ==
  ASSUME NEW s, DOMAIN s.principals \subseteq Nat, PrincipalsAccepted(s),
         NEW i \in DOMAIN s.principals
  PROVE  /\ Authenticated(s, s.principals[i].credential) =
              (IF Named(s.principals[i]) THEN s.principals[i] ELSE Unknown)
         /\ LegacyOf(s, s.principals[i].id) = s.principals[i]
<1>1. ASSUME NEW j \in DOMAIN s.principals,
             s.principals[j].credential = s.principals[i].credential
      PROVE  j = i
  BY <1>1 DEF PrincipalsAccepted, Unique
<1>2. ASSUME NEW j \in DOMAIN s.principals, s.principals[j].id = s.principals[i].id
      PROVE  j = i
  BY <1>2 DEF PrincipalsAccepted, Unique
<1>3. {j \in DOMAIN s.principals : s.principals[j].credential = s.principals[i].credential} = {i}
  BY <1>1
<1>4. Authenticated(s, s.principals[i].credential) =
        (IF Named(s.principals[i]) THEN s.principals[i] ELSE Unknown)
  BY <1>3 DEF Authenticated
<1>5. (CHOOSE k \in DOMAIN s.principals :
         /\ s.principals[k].id = s.principals[i].id
         /\ \A j \in DOMAIN s.principals : s.principals[j].id = s.principals[i].id => k <= j) = i
  BY <1>2
<1>6. LegacyOf(s, s.principals[i].id) = s.principals[i]
  BY <1>5 DEF LegacyOf
<1>7. QED  BY <1>4, <1>6

LEMMA BootstrapIsNobody ==
  ASSUME NEW s, BootstrapIsNoCredential(s)
  PROVE  Authenticated(s, s.bootstrap) = Unknown
  BY DEF BootstrapIsNoCredential, Authenticated

LEMMA PricesAreLive ==
  ASSUME NEW s, DOMAIN s.pricing \subseteq Nat, PricingAccepted(s), NEW i \in DOMAIN s.pricing
  PROVE  PriceOf(s, s.pricing[i].provider, s.pricing[i].reference) = s.pricing[i]
<1> DEFINE Matches(k) == /\ s.pricing[k].provider = s.pricing[i].provider
                         /\ s.pricing[k].reference = s.pricing[i].reference
<1>1. ASSUME NEW j \in DOMAIN s.pricing, Matches(j)  PROVE j = i
  BY <1>1 DEF PricingAccepted, Unique
<1>2. (CHOOSE k \in DOMAIN s.pricing :
         Matches(k) /\ \A j \in DOMAIN s.pricing : Matches(j) => j <= k) = i
  BY <1>1
<1>3. QED  BY <1>2 DEF PriceOf

LEMMA BudgetsAreLive ==
  ASSUME NEW s, DOMAIN s.budgets \subseteq Nat, BudgetsAccepted(s), NEW i \in DOMAIN s.budgets
  PROVE  BudgetOf(s, s.budgets[i].tenant) = s.budgets[i]
<1>1. ASSUME NEW j \in DOMAIN s.budgets, s.budgets[j].tenant = s.budgets[i].tenant
      PROVE  j = i
  BY <1>1 DEF BudgetsAccepted, Unique
<1>2. (CHOOSE k \in DOMAIN s.budgets :
         /\ s.budgets[k].tenant = s.budgets[i].tenant
         /\ \A j \in DOMAIN s.budgets : s.budgets[j].tenant = s.budgets[i].tenant => j <= k) = i
  BY <1>1
<1>3. QED  BY <1>2 DEF BudgetOf

\* Validation leaves no entry that another one shadows.
LEMMA AcceptedAreLive ==
  ASSUME NEW s, Accepted(s),
         DOMAIN s.pricing \subseteq Nat, DOMAIN s.budgets \subseteq Nat,
         DOMAIN s.principals \subseteq Nat
  PROVE  Live(s)
  BY PrincipalsAreLive, BootstrapIsNobody, PricesAreLive, BudgetsAreLive DEF Accepted, Live

Loading ==
  /\ environment \in Environments
  /\ service = "up" => Accepted(settings)

LEMMA LoadingInductive ==
  /\ Init => Loading
  /\ Loading /\ [Next]_vars => Loading'
<1>1. Init => Loading
  BY DEF Init, Configured, Loading
<1>2. ASSUME Loading, [Next]_vars  PROVE Loading'
  <2>1. ASSUME Load  PROVE Loading'
    BY <1>2, <2>1 DEF Loading, Load, settings
  <2>2. ASSUME UNCHANGED <<environment, service>>  PROVE Loading'
    BY <1>2, <2>2 DEF Loading, settings
  <2>3. Load \/ UNCHANGED <<environment, service>>
    BY <1>2 DEF Next, vars, Step, Progress, Receive, Connect, TimeOut, Authenticate, Admit, Refuse,
                LookUp, Insert, Conflict, Overflow, Commit, Answer, Abort, Grant, End, Untouched
  <2>4. QED  BY <2>1, <2>2, <2>3
<1>3. QED  BY <1>1, <1>2

LEMMA LoadingIsLive == Loading => AcceptedSettingsAreLive
<1> SUFFICES ASSUME Loading, service = "up"  PROVE Live(settings)
  BY DEF AcceptedSettingsAreLive
<1>1. /\ DOMAIN settings.pricing \subseteq Nat
      /\ DOMAIN settings.budgets \subseteq Nat
      /\ DOMAIN settings.principals \subseteq Nat
  BY EnvironmentsAssumption DEF Loading, settings, Loaded
<1>2. QED  BY <1>1, AcceptedAreLive DEF Loading

\* bootstrap/settings.py:62-180: in a service that came up no principal, price or
\* budget is shadowed by another, whatever the environment holds.
THEOREM SettingsLive == Spec => []AcceptedSettingsAreLive
<1>1. Init => Loading  BY LoadingInductive
<1>2. Loading /\ [Next]_vars => Loading'  BY LoadingInductive
<1>3. Loading => AcceptedSettingsAreLive  BY LoadingIsLive
<1>4. QED  BY <1>1, <1>2, <1>3, PTL DEF Spec

LEMMA AcceptedPricesAreNearest ==
  ASSUME Loading, Accepted(settings), NEW i \in DOMAIN settings.pricing, NEW usage \in Usages
  PROVE  LET price == settings.pricing[i]
             cost  == AttributedCost(usage, price)
         IN  IF Unknown \in {usage.input, usage.output}
             THEN cost = Unknown
             ELSE \E input \in 0 .. cost :
                    /\ NearestEven(input, usage.input * price.input, price.basis)
                    /\ NearestEven(cost - input, usage.output * price.output, price.basis)
<1> DEFINE price == settings.pricing[i]
           cost  == AttributedCost(usage, price)
<1>1. CASE Unknown \in {usage.input, usage.output}
  BY <1>1 DEF AttributedCost
<1>2. CASE Unknown \notin {usage.input, usage.output}
  <2> DEFINE entry == environment.pricing[i]
             in  == usage.input * price.input
             out == usage.output * price.output
             input  == RoundHalfEven(in, price.basis)
             output == RoundHalfEven(out, price.basis)
  <2>1. /\ i \in DOMAIN environment.pricing
        /\ price = [entry EXCEPT !.provider = Trimmed[@], !.reference = Trimmed[@],
                                 !.version = Trimmed[@]]
    BY DEF settings, Loaded
  <2>2. /\ {entry.basis, entry.input, entry.output} \subseteq Int
        /\ {"basis", "input", "output"} \subseteq DOMAIN entry
        /\ Unknown # price
    <3>1. environment \in Environments
      BY DEF Loading
    <3>2. {entry.basis, entry.input, entry.output} \subseteq Int
      BY <2>1, <3>1, EnvironmentsAssumption
    <3>3. {"provider", "reference", "basis", "input", "output"} \subseteq DOMAIN entry
      BY <2>1, <3>1, EnvironmentsAssumption
    <3>4. Unknown # [entry EXCEPT !.provider = Trimmed[@], !.reference = Trimmed[@],
                                  !.version = Trimmed[@]]
      BY <2>1, <3>1, UnknownAssumption
    <3>5. QED  BY <2>1, <3>2, <3>3, <3>4
  <2>3. price.basis = entry.basis /\ price.input = entry.input /\ price.output = entry.output
    BY <2>1, <2>2
  <2>4. price.basis > 0 /\ price.input >= 0 /\ price.output >= 0
    BY DEF Accepted, PricingAccepted, EntryAccepted
  <2>5. usage.input \in Nat /\ usage.output \in Nat
    <3>1. 0 .. MaxUnitsPriced \subseteq Nat
      OBVIOUS
    <3>2. /\ usage.input \in (0 .. MaxUnitsPriced) \cup {Unknown}
          /\ usage.output \in (0 .. MaxUnitsPriced) \cup {Unknown}
      BY DEF Usages
    <3>3. usage.input # Unknown /\ usage.output # Unknown
      BY <1>2
    <3>4. QED  BY <3>1, <3>2, <3>3
  <2>6. price.basis \in Nat \ {0} /\ price.input \in Nat /\ price.output \in Nat
    BY <2>2, <2>3, <2>4
  <2>7. in \in Nat /\ out \in Nat
    BY <2>5, <2>6
  <2>8. input \in Nat /\ output \in Nat
    BY <2>6, <2>7, RoundingIsNearestEven
  <2>9. NearestEven(input, in, price.basis) /\ NearestEven(output, out, price.basis)
    BY <2>6, <2>7, RoundingIsNearestEven
  <2>10. cost = input + output
    BY <1>2, <2>2 DEF AttributedCost, ComponentCost
  <2>11. cost - input = output /\ input \in 0 .. cost
    BY <2>8, <2>10
  <2>12. QED  BY <1>2, <2>9, <2>11
<1>3. QED  BY <1>1, <1>2

\* runtime_gateway/domain/cost.py:52-74: with every price of every accepted
\* environment an answer costs the sum of its two rounded components, whatever
\* its units.
THEOREM CostsAreNearest == Spec => []CostIsSumOfNearest
<1>1. Init => Loading  BY LoadingInductive
<1>2. Loading /\ [Next]_vars => Loading'  BY LoadingInductive
<1>3. Loading => CostIsSumOfNearest
  BY AcceptedPricesAreNearest DEF CostIsSumOfNearest, Loading
<1>4. QED  BY <1>1, <1>2, <1>3, PTL DEF Spec

-----------------------------------------------------------------------------
(***************************************************************************)
(* The pool: a request that waits for a connection has returned the one it *)
(* had, and one that executes has exactly one.                             *)
(***************************************************************************)
Shape ==
  /\ stage \in [Calls -> Stages]
  /\ held \in [Calls -> {0, 1}]
  /\ waits \subseteq Calls

PoolUse ==
  \A o \in Calls :
    /\ o \in waits => held[o] = 0 /\ stage[o] \in {"authenticating", "looking_up", "inserting"}
    /\ stage[o] \in Open /\ o \notin waits => held[o] = 1
    /\ stage[o] \notin Open => held[o] = 0

PoolInv == Shape /\ PoolUse

LEMMA EndKeepsPool ==
  ASSUME PoolInv, NEW o \in Calls, NEW from \in Open, NEW to \in Stages \ Open, End(o, from, to)
  PROVE  PoolInv'
  BY DEF PoolInv, Shape, PoolUse, End, Advance, ReturnAll, Stages, Open

LEMMA PoolInductive ==
  /\ Init => PoolInv
  /\ PoolInv /\ [Next]_vars => PoolInv'
<1>1. Init => PoolInv
  BY DEF Init, FullPool, PoolInv, Shape, PoolUse, Stages, Open
<1>2. ASSUME PoolInv, [Next]_vars  PROVE PoolInv'
  <2> USE <1>2
  <2>1. ASSUME UNCHANGED <<stage, held, waits>>  PROVE PoolInv'
    BY <2>1 DEF PoolInv, Shape, PoolUse
  <2>2. ASSUME NEW o \in Calls, NEW p \in Principals, NEW c \in Explored, Receive(o, p, c)
        PROVE  PoolInv'
    BY <2>2 DEF PoolInv, Shape, PoolUse, Receive, Advance, Request, Stages, Open
  <2>3. ASSUME NEW o \in Calls, Connect(o)  PROVE PoolInv'
    BY <2>3 DEF PoolInv, Shape, PoolUse, Connect, Checkout, Untouched, Stages, Open
  <2>4. ASSUME NEW o \in Calls, TimeOut(o) \/ Abort(o) \/ Answer(o)  PROVE PoolInv'
    BY <2>4, EndKeepsPool DEF TimeOut, Abort, Answer, Stages, Open
  <2>5. ASSUME NEW o \in Calls, Authenticate(o)  PROVE PoolInv'
    BY <2>5 DEF PoolInv, Shape, PoolUse, Authenticate, Executing, Advance, pool, Stages, Open
  <2>6. ASSUME NEW o \in Calls, Admit(o)  PROVE PoolInv'
    BY <2>6 DEF PoolInv, Shape, PoolUse, Admit, Advance, Return, Request, Untouched, Stages, Open
  <2>7. ASSUME NEW o \in Calls, Refuse(o) \/ Conflict(o) \/ Overflow(o)  PROVE PoolInv'
    BY <2>7, EndKeepsPool DEF Refuse, Conflict, Overflow, Stages, Open
  <2>8. ASSUME NEW o \in Calls, LookUp(o)  PROVE PoolInv'
    BY <2>8 DEF PoolInv, Shape, PoolUse, LookUp, Executing, Advance, Closed, Return, Request,
                Untouched, Stages, Open
  <2>9. ASSUME NEW o \in Calls, Insert(o)  PROVE PoolInv'
    BY <2>9 DEF PoolInv, Shape, PoolUse, Insert, Executing, Advance, pool, Untouched, Stages, Open
  <2>10. ASSUME NEW o \in Calls, Commit(o)  PROVE PoolInv'
    BY <2>10 DEF PoolInv, Shape, PoolUse, Commit, Advance, pool, Stages, Open
  <2>11. ASSUME NEW p \in Principals, NEW tenants \in SUBSET Ids, Grant(p, tenants)
         PROVE  UNCHANGED <<stage, held, waits>>
    BY <2>11 DEF Grant, pool
  <2>12. QED
    BY <2>1, <2>2, <2>3, <2>4, <2>5, <2>6, <2>7, <2>8, <2>9, <2>10, <2>11
       DEF Next, vars, pool, Step, Progress
<1>3. QED  BY <1>1, <1>2

\* bootstrap/database.py:24-31 with the sessions of the handlers: whatever the size
\* of the pool and however many requests there are, none waits for a connection
\* while it holds one.
THEOREM NothingHeldWhileWaiting == Spec => []NoHoldAndWait
<1>1. Init => PoolInv  BY PoolInductive
<1>2. PoolInv /\ [Next]_vars => PoolInv'  BY PoolInductive
<1>3. PoolInv => NoHoldAndWait  BY DEF PoolInv, Shape, PoolUse, NoHoldAndWait
<1>4. QED  BY <1>1, <1>2, <1>3, PTL DEF Spec

-----------------------------------------------------------------------------
(***************************************************************************)
(* Names.  Of the requests whose INSERT has run and not committed no two   *)
(* have one key, and none of them has the key of a committed row.          *)
(***************************************************************************)
SameKey(r1, r2) == KeyOf(r1) = KeyOf(r2)

PendingAreFree ==
  \A o \in Calls : stage[o] = "committing" =>
    /\ \A row \in rows : ~SameKey(row, Row(o))
    /\ \A q \in Calls \ {o} : stage[q] = "committing" => ~SameKey(Row(q), Row(o))

\* The stages of a request whose COMMIT has taken effect.
Recorded == {"answering", "created", "lost"}

RowsAreRecorded ==
  /\ \A o \in Calls : stage[o] \in Recorded => Row(o) \in rows
  /\ \A row \in rows : row = FoundingRow \/ \E o \in Calls : stage[o] \in Recorded /\ row = Row(o)

KeysAreUnique == \A r1, r2 \in rows : SameKey(r1, r2) => r1 = r2

ConflictsAreTrue ==
  \A o \in Calls : stage[o] = "conflict" => \E row \in rows : row.id # o /\ SameKey(row, Row(o))

NameInv ==
  /\ stage \in [Calls -> Stages]
  /\ command \in [Calls -> Explored \cup {NoCommand}]
  /\ PendingAreFree /\ RowsAreRecorded /\ KeysAreUnique /\ ConflictsAreTrue

LEMMA SameKeyIsSameName == \A r1, r2 : SameKey(r1, r2) <=> SameName(r1, r2)
  BY DEF SameKey, SameName, KeyOf

LEMMA RowId == \A o \in Calls : Row(o).id = o
  BY DEF Row

\* Stages that mean nothing to the names: a request that has no row, inserts none
\* and was not told of another's.
Silent == Stages \ (Recorded \cup {"committing", "conflict"})

LEMMA SilentStep ==
  ASSUME NameInv, NEW o \in Calls, NEW to \in Silent,
         stage' = [stage EXCEPT ![o] = to], stage[o] \notin Recorded,
         rows' = rows, command' = command
  PROVE  NameInv'
<1>1. \A q \in Calls : Row(q)' = Row(q)
  BY DEF Row
<1>2. \A q \in Calls : /\ stage'[q] \in Recorded \cup {"committing", "conflict"} => stage'[q] = stage[q]
                       /\ stage[q] \in Recorded => stage'[q] = stage[q]
  BY DEF NameInv, Silent
<1>3. PendingAreFree'
  BY <1>1, <1>2 DEF NameInv, PendingAreFree, SameKey, KeyOf
<1>4. RowsAreRecorded'
  BY <1>1, <1>2 DEF NameInv, RowsAreRecorded, FoundingRow
<1>5. KeysAreUnique'
  BY DEF NameInv, KeysAreUnique, SameKey, KeyOf
<1>6. ConflictsAreTrue'
  BY <1>1, <1>2 DEF NameInv, ConflictsAreTrue, SameKey, KeyOf
<1>7. QED  BY <1>3, <1>4, <1>5, <1>6 DEF NameInv, Silent

\* Whoever is answered, or is not, the row stays.
LEMMA AnswerStep ==
  ASSUME NameInv, NEW o \in Calls, NEW to \in Recorded, stage[o] = "answering",
         stage' = [stage EXCEPT ![o] = to], rows' = rows, command' = command
  PROVE  NameInv'
<1>1. \A q \in Calls : Row(q)' = Row(q)
  BY DEF Row
<1>2. \A q \in Calls : /\ stage'[q] \in Recorded <=> stage[q] \in Recorded
                       /\ stage'[q] \notin Recorded => stage'[q] = stage[q]
  BY DEF NameInv, Recorded
<1>3. PendingAreFree'
  BY <1>1, <1>2 DEF NameInv, PendingAreFree, SameKey, KeyOf, Recorded
<1>4. RowsAreRecorded'
  BY <1>1, <1>2 DEF NameInv, RowsAreRecorded, FoundingRow
<1>5. KeysAreUnique'
  BY DEF NameInv, KeysAreUnique, SameKey, KeyOf
<1>6. ConflictsAreTrue'
  BY <1>1, <1>2 DEF NameInv, ConflictsAreTrue, SameKey, KeyOf, Recorded
<1>7. QED  BY <1>3, <1>4, <1>5, <1>6 DEF NameInv, Recorded, Stages, Open

LEMMA NamesInductive ==
  /\ Init => NameInv
  /\ NameInv /\ [Next]_vars => NameInv'
<1>1. Init => NameInv
  BY DEF Init, NameInv, PendingAreFree, RowsAreRecorded, KeysAreUnique, ConflictsAreTrue, Recorded, Stages, Open
<1>2. ASSUME NameInv, [Next]_vars  PROVE NameInv'
  <2> USE <1>2
  <2>1. ASSUME UNCHANGED <<rows, stage, command>>  PROVE NameInv'
    BY <2>1 DEF NameInv, PendingAreFree, RowsAreRecorded, KeysAreUnique, ConflictsAreTrue,
                SameKey, KeyOf, Row, FoundingRow
  <2>2. ASSUME NEW o \in Calls, NEW p \in Principals, NEW c \in Explored, Receive(o, p, c)
        PROVE  NameInv'
    <3>1. /\ stage[o] = "idle" /\ stage' = [stage EXCEPT ![o] = "authenticating"]
          /\ command' = [command EXCEPT ![o] = c] /\ rows' = rows
      BY <2>2 DEF Receive, Advance, registry
    <3>2. \A q \in Calls : stage'[q] \in Recorded \cup {"committing", "conflict"} =>
            q # o /\ stage'[q] = stage[q]
      BY <3>1 DEF NameInv, Recorded
    <3>3. \A q \in Calls : q # o => Row(q)' = Row(q)
      BY <3>1 DEF NameInv, Row
    <3>4. PendingAreFree'
      BY <3>1, <3>2, <3>3 DEF NameInv, PendingAreFree, SameKey, KeyOf
    <3>5. RowsAreRecorded'
      <4>1. \A q \in Calls : stage[q] \in Recorded => q # o /\ stage'[q] = stage[q]
        BY <3>1 DEF NameInv, Recorded
      <4>2. QED  BY <3>1, <3>2, <3>3, <4>1 DEF NameInv, RowsAreRecorded, FoundingRow
    <3>6. KeysAreUnique'
      BY <3>1 DEF NameInv, KeysAreUnique, SameKey, KeyOf
    <3>7. ConflictsAreTrue'
      BY <3>1, <3>2, <3>3 DEF NameInv, ConflictsAreTrue, SameKey, KeyOf
    <3>8. QED  BY <3>1, <3>4, <3>5, <3>6, <3>7 DEF NameInv, Stages, Open
  <2>3. ASSUME NEW o \in Calls, Insert(o)  PROVE NameInv'
    <3>1. /\ stage[o] = "inserting" /\ stage' = [stage EXCEPT ![o] = "committing"]
          /\ command' = command /\ rows' = rows
      BY <2>3 DEF Insert, Advance, Untouched, registry
    <3>2. \A q \in Calls : Row(q)' = Row(q)
      BY <3>1 DEF Row
    <3>3. \A row \in rows : ~SameKey(row, Row(o))
      BY <2>3 DEF Insert, Taken, SameKey
    <3>4. \A q \in Calls \ {o} : stage[q] = "committing" =>
            ~SameKey(Row(q), Row(o)) /\ ~SameKey(Row(o), Row(q))
      BY <2>3 DEF Insert, Contenders, SameKey
    <3>5. \A q \in Calls : q # o => stage'[q] = stage[q]
      BY <3>1 DEF NameInv
    <3>6. PendingAreFree'
      BY <3>1, <3>2, <3>3, <3>4, <3>5 DEF NameInv, PendingAreFree, SameKey, KeyOf
    <3>7. RowsAreRecorded' /\ KeysAreUnique' /\ ConflictsAreTrue'
      BY <3>1, <3>2, <3>5
      DEF NameInv, RowsAreRecorded, KeysAreUnique, ConflictsAreTrue, FoundingRow, SameKey, KeyOf, Recorded
    <3>8. QED  BY <3>1, <3>6, <3>7 DEF NameInv, Stages, Open
  <2>4. ASSUME NEW o \in Calls, Conflict(o)  PROVE NameInv'
    <3>1. /\ stage[o] = "inserting" /\ stage' = [stage EXCEPT ![o] = "conflict"]
          /\ command' = command /\ rows' = rows
      BY <2>4 DEF Conflict, End, Advance
    <3>2. \A q \in Calls : Row(q)' = Row(q)
      BY <3>1 DEF Row
    <3>3. PICK row \in rows : SameKey(row, Row(o))
      BY <2>4 DEF Conflict, Taken, SameKey
    <3>4. row.id # o
      BY <3>1, <3>3, RowId, RegistryAssumption DEF NameInv, RowsAreRecorded, FoundingRow, Recorded
    <3>5. \A q \in Calls : q # o => stage'[q] = stage[q]
      BY <3>1 DEF NameInv
    <3>6. ConflictsAreTrue'
      BY <3>1, <3>2, <3>3, <3>4, <3>5 DEF NameInv, ConflictsAreTrue, SameKey, KeyOf
    <3>7. PendingAreFree' /\ RowsAreRecorded' /\ KeysAreUnique'
      BY <3>1, <3>2, <3>5
      DEF NameInv, PendingAreFree, RowsAreRecorded, KeysAreUnique, FoundingRow, SameKey, KeyOf, Recorded
    <3>8. QED  BY <3>1, <3>6, <3>7 DEF NameInv, Stages, Open
  <2>5. ASSUME NEW o \in Calls, Commit(o)  PROVE NameInv'
    <3>1. /\ stage[o] = "committing" /\ stage' = [stage EXCEPT ![o] = "answering"]
          /\ command' = command /\ rows' = rows \cup {Row(o)}
      BY <2>5 DEF Commit, Advance
    <3>2. \A q \in Calls : Row(q)' = Row(q)
      BY <3>1 DEF Row
    <3>3. \A q \in Calls : q # o => stage'[q] = stage[q]
      BY <3>1 DEF NameInv
    <3>4. PendingAreFree'
      BY <3>1, <3>2, <3>3 DEF NameInv, PendingAreFree, SameKey, KeyOf
    <3>5. RowsAreRecorded'
      BY <3>1, <3>2, <3>3 DEF NameInv, RowsAreRecorded, FoundingRow, Recorded
    <3>6. KeysAreUnique'
      BY <3>1 DEF NameInv, PendingAreFree, KeysAreUnique, SameKey, KeyOf
    <3>7. ConflictsAreTrue'
      BY <3>1, <3>2, <3>3 DEF NameInv, ConflictsAreTrue, SameKey, KeyOf
    <3>8. QED  BY <3>1, <3>4, <3>5, <3>6, <3>7 DEF NameInv, Stages, Open
  <2>6. ASSUME NEW o \in Calls,
               TimeOut(o) \/ Authenticate(o) \/ Admit(o) \/ Refuse(o) \/ LookUp(o)
                 \/ Overflow(o)
        PROVE  NameInv'
    <3>1. /\ \E to \in Silent : stage' = [stage EXCEPT ![o] = to]
          /\ stage[o] \notin Recorded /\ rows' = rows /\ command' = command
      BY <2>6 DEF TimeOut, Authenticate, Admit, Refuse, LookUp, Overflow, End, Advance,
                  Untouched, registry, Silent, Recorded, Stages, Open
    <3>2. QED  BY <3>1, SilentStep
  <2>7. ASSUME NEW o \in Calls, Connect(o)  PROVE UNCHANGED <<rows, stage, command>>
    BY <2>7 DEF Connect, Untouched, registry
  <2>8. ASSUME NEW p \in Principals, NEW tenants \in SUBSET Ids, Grant(p, tenants)
        PROVE  UNCHANGED <<rows, stage, command>>
    BY <2>8 DEF Grant
  <2>9. ASSUME NEW o \in Calls, Answer(o) \/ Abort(o)  PROVE NameInv'
    <3>1. CASE stage[o] = "answering"
      <4>1. /\ \E to \in Recorded : stage' = [stage EXCEPT ![o] = to]
            /\ rows' = rows /\ command' = command
        BY <2>9, <3>1 DEF Answer, Abort, End, Advance, Recorded
      <4>2. QED  BY <3>1, <4>1, AnswerStep
    <3>2. CASE stage[o] # "answering"
      <4>1. /\ stage' = [stage EXCEPT ![o] = "failed"] /\ stage[o] \in Open
            /\ rows' = rows /\ command' = command
        BY <2>9, <3>2 DEF Answer, Abort, End, Advance
      <4>2. "failed" \in Silent /\ stage[o] \notin Recorded
        BY <3>2, <4>1 DEF Silent, Recorded, Stages, Open
      <4>3. QED  BY <4>1, <4>2, SilentStep
    <3>3. QED  BY <3>1, <3>2
  <2>10. QED
    BY <2>1, <2>2, <2>3, <2>4, <2>5, <2>6, <2>7, <2>8, <2>9 DEF Next, vars, registry, Step, Progress
<1>3. QED  BY <1>1, <1>2

LEMMA NameInvSuffices == NameInv => NamesHaveOneHolder
<1> SUFFICES ASSUME NameInv  PROVE NamesHaveOneHolder
  OBVIOUS
<1>1. \A r1, r2 \in rows : SameName(r1, r2) => r1 = r2
  BY SameKeyIsSameName DEF NameInv, KeysAreUnique
<1>2. ASSUME NEW o \in Calls, Row(o) \in rows  PROVE stage[o] \in Recorded
  <2>1. Row(o) # FoundingRow
    BY RowId, RegistryAssumption DEF FoundingRow
  <2>2. PICK q \in Calls : stage[q] \in Recorded /\ Row(o) = Row(q)
    BY <1>2, <2>1 DEF NameInv, RowsAreRecorded
  <2>3. QED  BY <2>2, RowId
<1>3. \A o \in Calls : stage[o] \in Recorded => Row(o) \in rows
  BY DEF NameInv, RowsAreRecorded
<1>4. \A o \in Calls : stage[o] = "conflict" => \E row \in rows : row.id # o /\ SameName(row, Row(o))
  BY SameKeyIsSameName DEF NameInv, ConflictsAreTrue
<1>5. QED  BY <1>1, <1>2, <1>3, <1>4 DEF NamesHaveOneHolder, Recorded

\* docs/architecture/README.md:113-138: names are unique and answers true for any
\* number of racing and dying registrations, answers lost after COMMIT included.
THEOREM OneHolder == Spec => []NamesHaveOneHolder
<1>1. Init => NameInv  BY NamesInductive
<1>2. NameInv /\ [Next]_vars => NameInv'  BY NamesInductive
<1>3. QED  BY <1>1, <1>2, NameInvSuffices, PTL DEF Spec

-----------------------------------------------------------------------------
(***************************************************************************)
(* Prices of registered models.  Requests are only served by a service that *)
(* came up, whose prices are live, and a row of a call is the one that its *)
(* command makes.                                                          *)
(***************************************************************************)
ServedWhenUp == \A o \in Calls : stage[o] # "idle" => service = "up"

PriceInv == Loading /\ NameInv /\ ServedWhenUp

LEMMA PriceInductive ==
  /\ Init => PriceInv
  /\ PriceInv /\ [Next]_vars => PriceInv'
<1>1. Init => PriceInv
  BY LoadingInductive, NamesInductive DEF PriceInv, ServedWhenUp, Init
<1>2. ASSUME PriceInv, [Next]_vars  PROVE PriceInv'
  <2>1. Loading' /\ NameInv'
    BY <1>2, LoadingInductive, NamesInductive DEF PriceInv
  <2>2. ASSUME UNCHANGED <<stage, service>>  PROVE ServedWhenUp'
    BY <1>2, <2>2 DEF PriceInv, ServedWhenUp
  <2>3. ASSUME Load, UNCHANGED stage  PROVE ServedWhenUp'
    BY <1>2, <2>3 DEF PriceInv, ServedWhenUp, Load
  <2>4. ASSUME NEW o \in Calls, service' = service,
               service = "up" \/ stage[o] # "idle",
               \A q \in Calls \ {o} : stage'[q] = stage[q]
        PROVE  ServedWhenUp'
    BY <1>2, <2>4 DEF PriceInv, ServedWhenUp
  <2>5. ASSUME NEW o \in Calls, NEW p \in Principals, NEW c \in Explored, Receive(o, p, c)
        PROVE  ServedWhenUp'
    BY <1>2, <2>4, <2>5 DEF Receive, Advance, PriceInv, NameInv
  <2>6. ASSUME NEW o \in Calls, Step(o) \/ Abort(o)  PROVE ServedWhenUp'
    <3>1. CASE Connect(o)
      BY <2>2, <3>1 DEF Connect, Untouched, PriceInv, ServedWhenUp
    <3>2. CASE ~Connect(o)
      <4>1. service' = service /\ stage[o] # "idle"
        BY <2>6, <3>2 DEF Step, Progress, TimeOut, Authenticate, Admit, Refuse, LookUp, Insert,
           Conflict, Overflow, Commit, Answer, Abort, End, Advance, Untouched, Open
      <4>2. \A q \in Calls \ {o} : stage'[q] = stage[q]
        BY <1>2, <2>6, <3>2 DEF Step, Progress, TimeOut, Authenticate, Admit, Refuse, LookUp, Insert,
           Conflict, Overflow, Commit, Answer, Abort, End, Advance, PriceInv, NameInv
      <4>3. QED  BY <2>4, <4>1, <4>2
    <3>3. QED  BY <3>1, <3>2
  <2>7. ASSUME NEW p \in Principals, NEW tenants \in SUBSET Ids, Grant(p, tenants)
        PROVE  UNCHANGED <<stage, service>>
    BY <2>7 DEF Grant
  <2>8. ServedWhenUp'
    BY <1>2, <2>2, <2>3, <2>5, <2>6, <2>7 DEF Next, vars, PriceInv, ServedWhenUp
  <2>9. QED  BY <2>1, <2>8 DEF PriceInv
<1>3. QED  BY <1>1, <1>2

\* The lookup finds at most the entry of its key, whose price is live.
LEMMA PriceHasItsKey ==
  ASSUME NEW s, Live(s), NEW i \in DOMAIN s.pricing, s.pricing[i] # Unknown,
         NEW provider, NEW reference, PriceOf(s, provider, reference) = s.pricing[i]
  PROVE  s.pricing[i].provider = provider /\ s.pricing[i].reference = reference
<1>1. PICK j \in DOMAIN s.pricing :
        s.pricing[j].provider = provider /\ s.pricing[j].reference = reference
  BY DEF PriceOf
<1>2. PriceOf(s, provider, reference) = s.pricing[j]
  BY <1>1 DEF Live
<1>3. QED  BY <1>1, <1>2

LEMMA PricesAreFound == PriceInv => RegisteredModelsFindTheirPrice
<1> SUFFICES ASSUME PriceInv, NEW row \in rows, NEW i \in DOMAIN environment.pricing,
                    row.kind = "model"
             PROVE  LET given == environment.pricing[i]
                        typed == command[row.id]
                    IN  PriceOf(settings, row.provider, row.reference) = settings.pricing[i]
                          <=> /\ Trimmed[given.provider] = typed.provider
                              /\ Stripped[given.reference] = Stripped[typed.reference]
                              /\ Trimmed[given.reference] = Stripped[given.reference]
  BY DEF RegisteredModelsFindTheirPrice
<1> DEFINE given == environment.pricing[i]
<1>1. PICK o \in Calls : stage[o] \in Recorded /\ row = Row(o)
  BY DEF PriceInv, NameInv, RowsAreRecorded, FoundingRow
<1>2. /\ row.id = o /\ row.provider = command[o].provider
      /\ row.reference = Stripped[command[o].reference]
  BY <1>1 DEF Row
<1>3. command[o].reference \in Texts
  BY StrippedAssumption, RegistryAssumption DEF PriceInv, NameInv, NoCommand
<1>4. environment \in Environments
  BY DEF PriceInv, Loading
<1>5. given.reference \in Texts
  BY <1>4, EnvironmentsAssumption
<1>6. i \in DOMAIN settings.pricing
  BY DEF settings, Loaded
<1>7. settings.pricing[i] = [given EXCEPT !.provider = Trimmed[@], !.reference = Trimmed[@],
                                          !.version = Trimmed[@]]
  BY DEF settings, Loaded
<1>8. {"provider", "reference"} \subseteq DOMAIN given
  BY <1>4, EnvironmentsAssumption
<1>9. /\ settings.pricing[i].provider = Trimmed[given.provider]
      /\ settings.pricing[i].reference = Trimmed[given.reference]
  BY <1>7, <1>8
<1>10. settings.pricing[i] # Unknown
  BY <1>4, <1>7, UnknownAssumption
<1>11. Live(settings)
  BY <1>1, LoadingIsLive DEF PriceInv, ServedWhenUp, AcceptedSettingsAreLive, Recorded
<1>12. ASSUME PriceOf(settings, row.provider, row.reference) = settings.pricing[i]
       PROVE  /\ Trimmed[given.provider] = command[o].provider
              /\ Stripped[given.reference] = Stripped[command[o].reference]
              /\ Trimmed[given.reference] = Stripped[given.reference]
  <2>1. /\ Trimmed[given.provider] = command[o].provider
        /\ Trimmed[given.reference] = Stripped[command[o].reference]
    BY <1>2, <1>6, <1>9, <1>10, <1>11, <1>12, PriceHasItsKey
  <2>2. Stripped[Trimmed[given.reference]] = Stripped[given.reference]
    BY <1>5, StrippedAssumption
  <2>3. Stripped[Stripped[command[o].reference]] = Stripped[command[o].reference]
    BY <1>3, StrippedAssumption
  <2>4. QED  BY <2>1, <2>2, <2>3
<1>13. ASSUME Trimmed[given.provider] = command[o].provider,
              Stripped[given.reference] = Stripped[command[o].reference],
              Trimmed[given.reference] = Stripped[given.reference]
       PROVE  PriceOf(settings, row.provider, row.reference) = settings.pricing[i]
  BY <1>2, <1>6, <1>9, <1>11, <1>13 DEF Live
<1>14. QED  BY <1>2, <1>12, <1>13

\* ai_asset_registry/domain/model.py:53-66, bootstrap/settings.py:43-70 and
\* runtime_gateway/infrastructure/pricing.py: of any environment a registered model
\* finds the entry of its provider and reference and no other, although settings
\* and registry strip their texts of different white space.
THEOREM ModelsFindTheirPrice == Spec => []RegisteredModelsFindTheirPrice
<1>1. Init => PriceInv  BY PriceInductive
<1>2. PriceInv /\ [Next]_vars => PriceInv'  BY PriceInductive
<1>3. QED  BY <1>1, <1>2, PricesAreFound, PTL DEF Spec

-----------------------------------------------------------------------------
(***************************************************************************)
(* The pool serves: what PoolNeverStandsStill says of the guards.  That    *)
(* CanGoOn(o) makes Progress(o) ENABLED is left to the run.                *)
(***************************************************************************)
LEMMA IdlePoolIsFree ==
  ASSUME PriceInv, service = "up", \A o \in Calls : held[o] = 0
  PROVE  InUse < Limit
<1>1. UNION {{o} \X (1 .. held[o]) : o \in Calls} = {}
  OBVIOUS
<1>2. InUse = 0
  BY <1>1, FS_EmptySet DEF InUse
<1>3. settings.poolSize \in 1 .. 50 /\ settings.maxOverflow \in 0 .. 100
  BY DEF PriceInv, Loading, Accepted, DatabaseAccepted
<1>4. QED  BY <1>2, <1>3 DEF Limit

\* bootstrap/database.py:24-31: with a pool of any size the settings accept, and
\* any number of requests, while one is open one of them can take its next step:
\* it has a connection and waits for no row, or gets one because none is in use.
THEOREM PoolServes == Spec => [](NoHoldAndWait /\ SomebodyCanGoOn)
<1>1. ASSUME PoolInv, PriceInv  PROVE SomebodyCanGoOn
  <2> SUFFICES ASSUME NEW o \in Calls, stage[o] \in Open  PROVE \E q \in Calls : CanGoOn(q)
    BY DEF SomebodyCanGoOn
  <2> USE <1>1
  <2>1. CASE \A q \in Calls : held[q] = 0
    <3>1. o \in waits
      BY <2>1 DEF PoolInv, PoolUse
    <3>2. InUse < Limit
      BY <2>1, IdlePoolIsFree DEF PriceInv, ServedWhenUp, Open
    <3>3. QED  BY <3>1, <3>2 DEF CanGoOn
  <2>2. ASSUME NEW q \in Calls, held[q] # 0  PROVE \E r \in Calls : CanGoOn(r)
    <3>1. stage[q] \in Open /\ Executing(q)
      BY <2>2 DEF PoolInv, PoolUse, Shape, Executing
    <3>2. CASE stage[q] # "inserting" \/ Contenders(q) = {}
      BY <3>1, <3>2 DEF CanGoOn, Open
    <3>3. ASSUME NEW r \in Contenders(q)  PROVE r \in Calls /\ CanGoOn(r)
      BY <3>3 DEF Contenders, CanGoOn
    <3>4. QED  BY <3>2, <3>3
  <2>3. QED  BY <2>1, <2>2
<1>2. QED
  BY <1>1, PoolInductive, PriceInductive, NothingHeldWhileWaiting, PTL DEF Spec

(***************************************************************************)
(* Every step brings its request nearer to its end and none takes another  *)
(* one back, so that with PoolServes what is left to a fair scheduler is   *)
(* to take steps.  A request has at most StepsLeft of them.                *)
(***************************************************************************)
StagesLeft(s) ==
  CASE s = "idle"           -> 7
    [] s = "authenticating" -> 6
    [] s = "admitting"      -> 5
    [] s = "looking_up"     -> 4
    [] s = "inserting"      -> 3
    [] s = "committing"     -> 2
    [] s = "answering"      -> 1
    [] OTHER                -> 0

StepsLeft(o) == 2 * StagesLeft(stage[o]) + (IF o \in waits THEN 1 ELSE 0)

Nearer(o) == StepsLeft(o)' < StepsLeft(o)

LEMMA StageEnds ==
  ASSUME PoolInv, NEW o \in Calls, NEW from \in Open,
         NEW to \in Stages \ (Open \cup {"idle"}), End(o, from, to)
  PROVE  Nearer(o) /\ \A q \in Calls \ {o} : stage'[q] = stage[q] /\ (q \in waits' <=> q \in waits)
<1>1. StagesLeft(from) \in 1 .. 6 /\ StagesLeft(to) = 0
  BY DEF StagesLeft, Stages, Open
<1>2. stage[o] = from /\ stage'[o] = to /\ o \notin waits'
  BY DEF PoolInv, Shape, End, Advance, ReturnAll
<1>3. Nearer(o)
  BY <1>1, <1>2 DEF Nearer, StepsLeft
<1>4. QED
  BY <1>3 DEF PoolInv, Shape, End, Advance, ReturnAll

\* The routes of identity_tenancy and ai_asset_registry have no loop and no retry:
\* each await of a request is passed once, whatever the others do.
THEOREM StepsLeadOn ==
  Spec => [][\A o \in Calls : /\ Step(o) \/ Abort(o) => StepsLeft(o)' < StepsLeft(o)
                              /\ StepsLeft(o)' <= StepsLeft(o)]_vars
<1> DEFINE Alone(o) == \A q \in Calls \ {o} : stage'[q] = stage[q] /\ (q \in waits' <=> q \in waits)
<1>1. ASSUME PoolInv, NEW o \in Calls, Step(o) \/ Abort(o)  PROVE Nearer(o) /\ Alone(o)
  <2> USE <1>1 DEF PoolInv, Shape
  <2>1. CASE Connect(o)
    BY <2>1 DEF Connect, Checkout, Nearer, StepsLeft, StagesLeft
  <2>2. CASE Authenticate(o)
    BY <2>2 DEF Authenticate, Advance, pool, Nearer, StepsLeft, StagesLeft
  <2>3. CASE Admit(o)
    BY <2>3 DEF Admit, Advance, Request, Nearer, StepsLeft, StagesLeft
  <2>4. CASE LookUp(o)
    BY <2>4 DEF LookUp, Advance, Request, Nearer, StepsLeft, StagesLeft
  <2>5. CASE Insert(o)
    BY <2>5 DEF Insert, Advance, pool, Nearer, StepsLeft, StagesLeft
  <2>6. CASE Refuse(o) \/ Conflict(o) \/ Overflow(o) \/ Answer(o) \/ TimeOut(o) \/ Abort(o)
    BY <2>6, StageEnds DEF Refuse, Conflict, Overflow, Answer, TimeOut, Abort, Stages, Open
  <2>7. CASE Commit(o)
    BY <2>7 DEF Commit, Advance, pool, Nearer, StepsLeft, StagesLeft
  <2>8. QED
    BY <2>1, <2>2, <2>3, <2>4, <2>5, <2>6, <2>7 DEF Step, Progress
<1>2. ASSUME PoolInv, NEW o \in Calls, NEW p \in Principals, NEW c \in Explored, Receive(o, p, c)
      PROVE  Nearer(o) /\ Alone(o)
  BY <1>2 DEF PoolInv, Shape, Receive, Advance, Request, Nearer, StepsLeft, StagesLeft
<1>3. ASSUME PoolInv, UNCHANGED <<stage, waits>>, NEW o \in Calls
      PROVE  StepsLeft(o)' = StepsLeft(o)
  BY <1>3 DEF StepsLeft
<1>4. ASSUME PoolInv, NEW o \in Calls
      PROVE  StepsLeft(o) \in Nat
  BY DEF StepsLeft, StagesLeft
<1>5. ASSUME PoolInv, NEW o \in Calls, Nearer(o), Alone(o), NEW q \in Calls, PoolInv'
      PROVE  StepsLeft(q)' <= StepsLeft(q)
  <2>1. StepsLeft(q) \in Nat /\ StepsLeft(q)' \in Nat
    BY DEF StepsLeft, StagesLeft
  <2>2. CASE q = o
    BY <1>5, <2>1, <2>2 DEF Nearer
  <2>3. CASE q # o
    <3>1. StepsLeft(q)' = StepsLeft(q)
      BY <1>5, <2>3 DEF StepsLeft
    <3>2. QED  BY <2>1, <3>1
  <2>4. QED  BY <2>2, <2>3
<1>6. ASSUME PoolInv, PoolInv', [Next]_vars, NEW q \in Calls
      PROVE  StepsLeft(q)' <= StepsLeft(q)
  <2>1. CASE UNCHANGED <<stage, waits>>
    BY <1>3, <1>4, <1>6, <2>1
  <2>2. ASSUME NEW o \in Calls, Nearer(o), Alone(o)  PROVE StepsLeft(q)' <= StepsLeft(q)
    BY <1>5, <1>6, <2>2
  <2>3. QED
    BY <1>1, <1>2, <1>6, <2>1, <2>2 DEF Next, vars, pool, Grant
<1>7. PoolInv /\ PoolInv' /\ [Next]_vars =>
        [\A o \in Calls : /\ Step(o) \/ Abort(o) => StepsLeft(o)' < StepsLeft(o)
                          /\ StepsLeft(o)' <= StepsLeft(o)]_vars
  BY <1>1, <1>6 DEF Nearer
<1>8. QED
  BY <1>7, PoolInductive, PTL DEF Spec
=============================================================================
