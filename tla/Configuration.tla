----------------------------- MODULE Configuration -----------------------------
(***************************************************************************)
(* The settings VALOR is started with (bootstrap/settings.py) and what the *)
(* service looks up in them: who a runtime credential is                   *)
(* (security/presentation/runtime_authentication.py), the price of a model *)
(* (runtime_gateway/infrastructure/pricing.py), the budget of a tenant     *)
(* (infrastructure/cost_budget.py) and the configuration of a legacy       *)
(* runtime identity (runtime_identity/infrastructure).                     *)
(*                                                                         *)
(* Nothing is reloaded: settings are validated once, and every lookup      *)
(* relies on what was validated then.  A text is a value.  Two functions   *)
(* strip it, and they disagree: Trimmed, which pydantic applies to fields, *)
(* leaves U+001C to U+001F alone, and Stripped, Python's str.strip() in    *)
(* the domain objects, takes them for white space as well.                 *)
(***************************************************************************)
EXTENDS CostAttribution, Sequences

CONSTANTS
  Texts, Blank,            \* texts and the empty one
  Trimmed, Stripped,       \* [Texts -> Texts]
  LongSecrets,             \* secrets of at least 32 characters
  Environments,            \* the environments a deployment may be given
  MaxUnitsPriced           \* bound: the units of an answer that is priced

ASSUME StrippedAssumption ==
  /\ Blank \in Texts /\ Trimmed \in [Texts -> Texts] /\ Stripped \in [Texts -> Texts]
  /\ \A t \in Texts :
       /\ Trimmed[Trimmed[t]] = Trimmed[t]
       /\ Stripped[Stripped[t]] = Stripped[t]
       /\ Stripped[Trimmed[t]] = Stripped[t] /\ Trimmed[Stripped[t]] = Stripped[t]

ASSUME EnvironmentsAssumption ==
  \A env \in Environments :
    /\ DOMAIN env.pricing \cup DOMAIN env.budgets \cup DOMAIN env.principals \subseteq Nat
    /\ \A i \in DOMAIN env.pricing :
         /\ {env.pricing[i].basis, env.pricing[i].input, env.pricing[i].output} \subseteq Int
         /\ {env.pricing[i].provider, env.pricing[i].reference} \subseteq Texts
         /\ {"provider", "reference", "basis", "input", "output"} \subseteq DOMAIN env.pricing[i]

ASSUME UnknownAssumption ==
  /\ Unknown \notin Nat /\ MaxUnitsPriced \in Nat
  /\ \A env \in Environments : \A i \in DOMAIN env.pricing :
       Unknown # [env.pricing[i] EXCEPT !.provider = Trimmed[@], !.reference = Trimmed[@],
                                        !.version = Trimmed[@]]

VARIABLES
  environment,  \* as it was given
  service       \* "loading", "up" or "down"

-----------------------------------------------------------------------------
(***************************************************************************)
(* StringConstraints(strip_whitespace) runs on a field before any          *)
(* validator sees it; secrets are taken as they are.                       *)
(***************************************************************************)
Loaded(env) ==
  [poolSize |-> env.poolSize, maxOverflow |-> env.maxOverflow,
   pricing  |-> [i \in DOMAIN env.pricing |->
     [env.pricing[i] EXCEPT !.provider = Trimmed[@], !.reference = Trimmed[@],
                            !.version = Trimmed[@]]],
   budgets  |-> env.budgets,
   principals |-> [i \in DOMAIN env.principals |-> [env.principals[i] EXCEPT !.id = Trimmed[@]]],
   bootstrap |-> env.bootstrap,
   managementPepper |-> env.managementPepper, runtimePepper |-> env.runtimePepper]

settings == Loaded(environment)

-----------------------------------------------------------------------------
(***************************************************************************)
(* The validators.                                                         *)
(***************************************************************************)
Unique(keys) == \A i, j \in DOMAIN keys : keys[i] = keys[j] => i = j

DatabaseAccepted(s) == s.poolSize \in 1 .. 50 /\ s.maxOverflow \in 0 .. 100

EntryAccepted(e) ==
  /\ Blank \notin {e.provider, e.reference, e.version}
  /\ e.basis > 0 /\ e.input >= 0 /\ e.output >= 0

PricingAccepted(s) ==
  /\ \A i \in DOMAIN s.pricing : EntryAccepted(s.pricing[i])
  /\ Unique([i \in DOMAIN s.pricing |-> <<s.pricing[i].provider, s.pricing[i].reference>>])
  /\ Unique([i \in DOMAIN s.pricing |-> s.pricing[i].version])

BudgetsAccepted(s) ==
  /\ \A i \in DOMAIN s.budgets :
       0 < s.budgets[i].allowance /\ s.budgets[i].allowance <= s.budgets[i].budget
  /\ Unique([i \in DOMAIN s.budgets |-> s.budgets[i].tenant])

SecretsAccepted(s) ==
  /\ {s.bootstrap, s.managementPepper, s.runtimePepper} \subseteq LongSecrets
  /\ s.bootstrap \notin {s.managementPepper, s.runtimePepper}
  /\ s.managementPepper # s.runtimePepper

PrincipalsAcceptedSharingCredentials(s) ==
  /\ \A i \in DOMAIN s.principals :
       /\ s.principals[i].id # Blank /\ s.principals[i].credential \in LongSecrets
       /\ 0 < s.principals[i].allowance /\ s.principals[i].allowance <= s.principals[i].limit
  /\ Unique([i \in DOMAIN s.principals |-> s.principals[i].id])
  /\ Unique([i \in DOMAIN s.principals |-> <<s.principals[i].tenant, s.principals[i].agent>>])

PrincipalsAccepted(s) ==
  /\ \A i \in DOMAIN s.principals :
       /\ s.principals[i].id # Blank /\ s.principals[i].credential \in LongSecrets
       /\ 0 < s.principals[i].allowance /\ s.principals[i].allowance <= s.principals[i].limit
  /\ Unique([i \in DOMAIN s.principals |-> s.principals[i].id])
  /\ Unique([i \in DOMAIN s.principals |-> s.principals[i].credential])
  /\ Unique([i \in DOMAIN s.principals |-> <<s.principals[i].tenant, s.principals[i].agent>>])

BootstrapIsNoCredential(s) ==
  \A i \in DOMAIN s.principals : s.principals[i].credential # s.bootstrap

Accepted(s) ==
  /\ DatabaseAccepted(s) /\ PricingAccepted(s) /\ BudgetsAccepted(s)
  /\ SecretsAccepted(s) /\ PrincipalsAccepted(s)
  /\ BootstrapIsNoCredential(s)

-----------------------------------------------------------------------------
(***************************************************************************)
(* The lookups; Unknown is None.  A credential must match exactly one      *)
(* principal, whose id has to be one for RuntimePrincipal too; of equal    *)
(* keys a dictionary keeps the last entry, the legacy lookup the first.    *)
(***************************************************************************)
Named(principal) == Stripped[principal.id] # Blank

Authenticated(s, bearer) ==
  LET matches == {i \in DOMAIN s.principals : s.principals[i].credential = bearer}
  IN  IF \E i \in matches : matches = {i} /\ Named(s.principals[i])
      THEN s.principals[CHOOSE i \in matches : TRUE]
      ELSE Unknown

PriceOf(s, provider, reference) ==
  LET Matches(i) == s.pricing[i].provider = provider /\ s.pricing[i].reference = reference
  IN  IF \E i \in DOMAIN s.pricing : Matches(i)
      THEN s.pricing[CHOOSE i \in DOMAIN s.pricing :
                       Matches(i) /\ \A j \in DOMAIN s.pricing : Matches(j) => j <= i]
      ELSE Unknown

BudgetOf(s, tenant) ==
  IF \E i \in DOMAIN s.budgets : s.budgets[i].tenant = tenant
  THEN s.budgets[CHOOSE i \in DOMAIN s.budgets :
                   /\ s.budgets[i].tenant = tenant
                   /\ \A j \in DOMAIN s.budgets : s.budgets[j].tenant = tenant => j <= i]
  ELSE Unknown

LegacyOf(s, id) ==
  IF \E i \in DOMAIN s.principals : s.principals[i].id = id
  THEN s.principals[CHOOSE i \in DOMAIN s.principals :
                      /\ s.principals[i].id = id
                      /\ \A j \in DOMAIN s.principals : s.principals[j].id = id => i <= j]
  ELSE Unknown

-----------------------------------------------------------------------------
\* ConfiguredInvocationPricing makes a PricingSnapshot of every accepted entry,
\* which asks again whether its texts are blank.
Priceable(s) ==
  \A i \in DOMAIN s.pricing :
    Blank \notin {Stripped[s.pricing[i].provider], Stripped[s.pricing[i].reference],
                 Stripped[s.pricing[i].version]}

\* get_settings and create_app: a rejected environment ends the process.
Load ==
  /\ service = "loading"
  /\ service' = IF Accepted(settings) /\ Priceable(settings) THEN "up" ELSE "down"
  /\ UNCHANGED environment

Configured == environment \in Environments /\ service = "loading"

-----------------------------------------------------------------------------
\* What makes settings live: nobody's entry is shadowed by another's.
Live(s) ==
  /\ \A i \in DOMAIN s.principals :
       /\ Authenticated(s, s.principals[i].credential) =
            (IF Named(s.principals[i]) THEN s.principals[i] ELSE Unknown)
       /\ LegacyOf(s, s.principals[i].id) = s.principals[i]
  /\ Authenticated(s, s.bootstrap) = Unknown
  /\ \A i \in DOMAIN s.pricing :
       PriceOf(s, s.pricing[i].provider, s.pricing[i].reference) = s.pricing[i]
  /\ \A i \in DOMAIN s.budgets : BudgetOf(s, s.budgets[i].tenant) = s.budgets[i]

\* bootstrap/settings.py:62-180: in a service that came up every configured
\* principal is authenticated by its own credential, unless its id is nothing but
\* separators (security/application/runtime_principal.py:16), and is the legacy
\* identity of its id, the bootstrap token is nobody's, and every price and budget
\* is the one its key finds.
AcceptedSettingsAreLive == service = "up" => Live(settings)

Usages ==
  LET Units == (0 .. MaxUnitsPriced) \cup {Unknown} IN [input : Units, output : Units]

\* runtime_gateway/domain/cost.py:52-74: with any price the service came up with,
\* a known cost is the sum of the two components, each the even nearest quantum
\* to units times rate over basis; an answer of which a component is unknown
\* gets no cost, and every other answer gets one.
CostIsSumOfNearest ==
  service = "up" =>
    \A i \in DOMAIN settings.pricing, usage \in Usages :
      LET price == settings.pricing[i]
          cost  == AttributedCost(usage, price)
      IN  IF Unknown \in {usage.input, usage.output}
          THEN cost = Unknown
          ELSE \E input \in 0 .. cost :
                 /\ NearestEven(input, usage.input * price.input, price.basis)
                 /\ NearestEven(cost - input, usage.output * price.output, price.basis)
=============================================================================
