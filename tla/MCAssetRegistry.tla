--------------------------- MODULE MCAssetRegistry ---------------------------
(***************************************************************************)
(* Values for TLC.  The environments are one sound deployment with one of  *)
(* its parts replaced: every pair of principals, of prices, of budgets and *)
(* of secrets over small domains, most of which must be rejected.          *)
(***************************************************************************)
EXTENDS AssetRegistry

CONSTANTS c1, c2, p1, t0

\* "^" stands for U+001F.  "wide" folds to more characters than its column
\* holds, "long" has too many.
MCTexts == {"", " ", "^", "a", "A", " A", "^A", "b", "wide", "long"}
MCTrimmed == [t \in MCTexts |-> CASE t = " " -> "" [] t = " A" -> "A" [] OTHER -> t]
MCStripped ==
  [t \in MCTexts |-> CASE t \in {" ", "^"} -> "" [] t \in {" A", "^A"} -> "A" [] OTHER -> t]
MCFold == [t \in MCTexts |-> IF t \in {"a", "A", " A", "^A"} THEN "a" ELSE t]
MCLength ==
  [t \in MCTexts |-> CASE t \in {"", " ", "^"} -> 0 [] t = "wide" -> 100 [] t = "long" -> 101 [] OTHER -> 1]
MCFoldedLength == [t \in MCTexts |-> IF t = "wide" THEN 300 ELSE MCLength[t]]

Price(provider, reference, version, basis, input, output) ==
  [provider |-> provider, reference |-> reference, version |-> version,
   basis |-> basis, input |-> input, output |-> output]

Principal(id, tenant, agent, credential, limit, allowance) ==
  [id |-> id, tenant |-> tenant, agent |-> agent, credential |-> credential,
   limit |-> limit, allowance |-> allowance]

Sound ==
  [poolSize |-> 1, maxOverflow |-> 0,
   pricing |-> <<Price("a", " A", "b", 2, 1, 3), Price("a", "^A", "a", 2, 1, 3)>>,
   budgets |-> <<>>,
   bootstrap |-> "s1", managementPepper |-> "s2", runtimePepper |-> "s3",
   principals |-> <<Principal("a", 1, 1, "s4", 2, 1)>>]

UpTo2(S) == {<<>>} \cup {<<x>> : x \in S} \cup (S \X S)

SomePrices ==
  {Price(provider, reference, version, basis, input, 1) :
     provider \in {"a", ""}, reference \in {"A", " A", "^A"}, version \in {"a", "b", " "},
     basis \in 0 .. 1, input \in {-1, 1}}
Separators == {Price("^", "b", "b", 1, 1, 1), Price("a", "^", "b", 1, 1, 1), Price("a", "b", "^", 1, 1, 1)}
AllRates == {Price("a", "b", "b", basis, input, output) :
               basis \in 1 .. 6, input \in 0 .. 3, output \in 0 .. 3}
SomeBudgets ==
  {[tenant |-> t, budget |-> b, allowance |-> a] : t \in 1 .. 2, b \in 1 .. 2, a \in 0 .. 2}
SomePrincipals ==
  {Principal(id, 1, agent, credential, 2, allowance) :
     id \in {"A", " A", "^", " "}, agent \in 1 .. 2, credential \in {"s1", "s4", "s5", "short"},
     allowance \in {0, 1, 3}}
Secrets == {"s1", "s2", "s3", "s4", "short"}

MCEnvironments ==
  {[Sound EXCEPT !.poolSize = size, !.maxOverflow = overflow] :
     size \in {0, 1, 2, 51}, overflow \in {-1, 0, 1, 101}}
  \cup {[Sound EXCEPT !.pricing = pricing] :
          pricing \in UpTo2(SomePrices) \cup {<<price>> : price \in AllRates \cup Separators}}
  \cup {[Sound EXCEPT !.budgets = budgets] : budgets \in UpTo2(SomeBudgets)}
  \cup {[Sound EXCEPT !.principals = principals] : principals \in UpTo2(SomePrincipals)}
  \cup {[Sound EXCEPT !.bootstrap = b, !.managementPepper = m, !.runtimePepper = r] :
          b, m, r \in Secrets}

MCServed == {Sound, [Sound EXCEPT !.maxOverflow = 1]}

Command(kind, tenant, name, reference) ==
  [kind |-> kind, tenant |-> tenant, name |-> name,
   provider |-> IF kind = "model" THEN "a" ELSE Blank, reference |-> reference]

\* Names that are one name, one that is none, one too long, one too wide; tenants
\* that exist, are being created or never will be.
MCExplored ==
  {Command("tenant", Nobody, name, Blank) : name \in {"a", "b", "wide", "long"}}
  \cup {Command("agent", tenant, name, Blank) : tenant \in Ids, name \in {"a", "A"}}
  \cup {Command("model", Founding, name, reference) : name \in {" "," A"}, reference \in {"^", "A", " A", "^A"}}
=============================================================================
