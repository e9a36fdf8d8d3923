---------------------------- MODULE ReportingProofs ----------------------------
(***************************************************************************)
(* Proofs about Reporting, for all values of its constants: what the three *)
(* statements of one report saw, that its figures bracket and complete one *)
(* another, and that each breakdown is the top of its groups.              *)
(***************************************************************************)
EXTENDS Reporting, FiniteSetTheorems, SequenceTheorems, TLAPS

LEMMA IsOneToOne ==
  ASSUME NEW S, NEW T, NEW f \in [S -> T],
         \A x, y \in S : f[x] = f[y] => x = y,
         \A z \in T : \E x \in S : f[x] = z
  PROVE  f \in Bijection(S, T) /\ f \in Injection(S, T) /\ f \in Surjection(S, T)
<1>1. f \in Injection(S, T)
  BY DEF Injection, IsInjective
<1>2. f \in Surjection(S, T)
  BY DEF Surjection
<1>3. QED  BY <1>1, <1>2 DEF Bijection

(***************************************************************************)
(* Sums, as numbers of pairs.                                              *)
(***************************************************************************)
Pairs(g) == UNION {{x} \X (1 .. g[x]) : x \in DOMAIN g}

LEMMA PairsMembers ==
  ASSUME NEW g
  PROVE  /\ \A p : p \in Pairs(g) <=>
                     p = <<p[1], p[2]>> /\ p[1] \in DOMAIN g /\ p[2] \in 1 .. g[p[1]]
         /\ \A x \in DOMAIN g : \A u \in 1 .. g[x] : <<x, u>> \in Pairs(g)
<1>1. ASSUME NEW p \in Pairs(g)
      PROVE  p = <<p[1], p[2]>> /\ p[1] \in DOMAIN g /\ p[2] \in 1 .. g[p[1]]
  <2>1. PICK x \in DOMAIN g : p \in {x} \X (1 .. g[x])
    BY DEF Pairs
  <2>2. QED  BY <2>1
<1>2. ASSUME NEW x \in DOMAIN g, NEW u \in 1 .. g[x]  PROVE <<x, u>> \in Pairs(g)
  <2>1. <<x, u>> \in {x} \X (1 .. g[x])
    OBVIOUS
  <2>2. QED  BY <2>1 DEF Pairs
<1>3. QED  BY <1>1, <1>2

LEMMA PairsFinite ==
  ASSUME NEW D, IsFiniteSet(D), NEW g \in [D -> Nat]
  PROVE  IsFiniteSet(Pairs(g)) /\ SumOver(g) = Cardinality(Pairs(g)) /\ SumOver(g) \in Nat
<1> DEFINE Of  == [x \in D |-> {x} \X (1 .. g[x])]
           all == {{x} \X (1 .. g[x]) : x \in D}
<1>1. Of \in Surjection(D, all)
  BY DEF Surjection
<1>2. IsFiniteSet(all)
  BY <1>1, FS_Surjection
<1>3. ASSUME NEW A \in all PROVE IsFiniteSet(A)
  <2>1. PICK x \in D : A = {x} \X (1 .. g[x])
    OBVIOUS
  <2>2. IsFiniteSet({x})
    BY FS_Singleton
  <2>3. g[x] \in Int
    OBVIOUS
  <2>4. IsFiniteSet(1 .. g[x])
    BY <2>3, FS_Interval
  <2>5. IsFiniteSet({x} \X (1 .. g[x]))
    BY <2>2, <2>4, FS_Product
  <2>6. QED  BY <2>1, <2>5
<1>4. Pairs(g) = UNION all
  BY DEF Pairs
<1>5. IsFiniteSet(Pairs(g))
  BY <1>2, <1>3, <1>4, FS_UNION
<1>6. QED  BY <1>5, FS_CardinalityType DEF SumOver, Pairs

LEMMA SumMonotone ==
  ASSUME NEW E, IsFiniteSet(E), NEW D \in SUBSET E, NEW g \in [D -> Nat], NEW h \in [E -> Nat],
         \A x \in D : g[x] <= h[x]
  PROVE  SumOver(g) <= SumOver(h)
<1>1. IsFiniteSet(D)
  BY FS_Subset
<1>2. ASSUME NEW p \in Pairs(g) PROVE p \in Pairs(h)
  <2>1. p = <<p[1], p[2]>> /\ p[1] \in D /\ p[2] \in 1 .. g[p[1]]
    BY PairsMembers
  <2>2. p[1] \in E /\ p[2] \in 1 .. h[p[1]]
    BY <2>1
  <2>3. QED  BY <2>1, <2>2, PairsMembers
<1>3. Cardinality(Pairs(g)) <= Cardinality(Pairs(h))
  BY <1>2, PairsFinite, FS_Subset
<1>4. QED  BY <1>1, <1>3, PairsFinite

\* Adding zeros changes nothing.
LEMMA SumOfSupport ==
  ASSUME NEW D, IsFiniteSet(D), NEW T \in SUBSET D, NEW g \in [D -> Nat], NEW h \in [T -> Nat],
         \A x \in D : g[x] = IF x \in T THEN h[x] ELSE 0
  PROVE  SumOver(g) = SumOver(h)
<1>1. ASSUME NEW p \in Pairs(g) PROVE p \in Pairs(h)
  <2>1. p = <<p[1], p[2]>> /\ p[1] \in D /\ p[2] \in 1 .. g[p[1]]
    BY PairsMembers
  <2>2. p[1] \in T /\ p[2] \in 1 .. h[p[1]]
    BY <2>1
  <2>3. QED  BY <2>1, <2>2, PairsMembers
<1>2. ASSUME NEW p \in Pairs(h) PROVE p \in Pairs(g)
  <2>1. p = <<p[1], p[2]>> /\ p[1] \in T /\ p[2] \in 1 .. h[p[1]]
    BY PairsMembers
  <2>2. p[1] \in D /\ p[2] \in 1 .. g[p[1]]
    BY <2>1
  <2>3. QED  BY <2>1, <2>2, PairsMembers
<1>3. Pairs(g) = Pairs(h)
  BY <1>1, <1>2
<1>4. QED  BY <1>3 DEF SumOver, Pairs

\* Adding ones counts.
LEMMA SumOfIndicator ==
  ASSUME NEW D, IsFiniteSet(D), NEW T \in SUBSET D, NEW g \in [D -> Nat],
         \A x \in D : g[x] = IF x \in T THEN 1 ELSE 0
  PROVE  SumOver(g) = Cardinality(T)
<1> DEFINE f == [x \in T |-> <<x, 1>>]
<1>1. \A x \in T : <<x, 1>> \in Pairs(g)
  BY PairsMembers
<1>2. ASSUME NEW p \in Pairs(g) PROVE \E x \in T : f[x] = p
  <2>1. p = <<p[1], p[2]>> /\ p[1] \in D /\ p[2] \in 1 .. g[p[1]]
    BY PairsMembers
  <2>2. p[1] \in T /\ p[2] = 1
    BY <2>1
  <2>3. QED  BY <2>1, <2>2
<1>3. f \in [T -> Pairs(g)]
  BY <1>1
<1>4. \A x, y \in T : f[x] = f[y] => x = y
  OBVIOUS
<1>5. f \in Bijection(T, Pairs(g))
  <2> HIDE DEF f
  <2>1. QED  BY <1>2, <1>3, <1>4, IsOneToOne
<1>6. IsFiniteSet(T)
  BY FS_Subset
<1>7. Cardinality(Pairs(g)) = Cardinality(T)
  BY <1>5, <1>6, FS_Bijection DEF ExistsBijection
<1>8. QED  BY <1>7, PairsFinite

\* Each part adds up by itself.
PartOf(D, part, k) == {x \in D : part[x] = k}

LEMMA SumOfParts ==
  ASSUME NEW D, IsFiniteSet(D), NEW g \in [D -> Nat],
         NEW K, IsFiniteSet(K), NEW part \in [D -> K], NEW h \in [K -> Nat],
         \A k \in K : h[k] = SumOver(Restrict(g, PartOf(D, part, k)))
  PROVE  SumOver(h) = SumOver(g)
<1> DEFINE Of(k)  == {p \in Pairs(g) : part[p[1]] = k}
           number == [k \in K |-> CHOOSE f : f \in Bijection(1 .. h[k], Of(k))]
           f      == [p \in Pairs(h) |-> number[p[1]][p[2]]]
<1>1. \A p \in Pairs(g) : p = <<p[1], p[2]>> /\ p[1] \in D /\ p[2] \in 1 .. g[p[1]]
  BY PairsMembers
<1>2. \A p \in Pairs(h) : p = <<p[1], p[2]>> /\ p[1] \in K /\ p[2] \in 1 .. h[p[1]]
  BY PairsMembers
<1>3. ASSUME NEW k \in K  PROVE number[k] \in Bijection(1 .. h[k], Of(k))
  <2> DEFINE mine == PartOf(D, part, k)
             own  == Restrict(g, mine)
  <2>1. IsFiniteSet(mine) /\ own \in [mine -> Nat]
    BY FS_Subset DEF PartOf, Restrict
  <2>2. /\ DOMAIN own = mine /\ \A x \in mine : own[x] = g[x]
        /\ \A x \in D : x \in mine <=> part[x] = k
    BY DEF PartOf, Restrict
  <2>3. mine \subseteq D
    BY DEF PartOf
  <2> HIDE DEF mine, own
  <2>4. Pairs(own) = Of(k)
    <3>1. ASSUME NEW p \in Pairs(own) PROVE p \in Of(k)
      <4>1. p = <<p[1], p[2]>> /\ p[1] \in mine /\ p[2] \in 1 .. g[p[1]]
        BY PairsMembers, <2>2
      <4>2. p \in Pairs(g)
        BY <2>3, <4>1, PairsMembers
      <4>3. QED  BY <2>2, <2>3, <4>1, <4>2
    <3>2. ASSUME NEW p \in Of(k) PROVE p \in Pairs(own)
      <4>1. p = <<p[1], p[2]>> /\ p[1] \in mine /\ p[2] \in 1 .. own[p[1]]
        BY <1>1, <2>2
      <4>2. QED  BY <4>1, <2>2, PairsMembers
    <3>3. QED  BY <3>1, <3>2
  <2>5. IsFiniteSet(Of(k)) /\ h[k] = Cardinality(Of(k))
    BY <2>1, <2>4, PairsFinite DEF mine, own
  <2>6. \E b : b \in Bijection(1 .. h[k], Of(k))
    BY <2>5, FS_CardinalityType DEF ExistsBijection
  <2>7. QED  BY <2>6
<1> HIDE DEF number
<1>4. \A k \in K : /\ number[k] \in [1 .. h[k] -> Of(k)]
                   /\ \A u, v \in 1 .. h[k] : number[k][u] = number[k][v] => u = v
                   /\ \A p \in Of(k) : \E u \in 1 .. h[k] : number[k][u] = p
  BY <1>3 DEF Bijection, Injection, Surjection, IsInjective
<1>5. ASSUME NEW p \in Pairs(h)  PROVE f[p] \in Pairs(g) /\ part[f[p][1]] = p[1]
  <2>1. f[p] \in Of(p[1])
    BY <1>2, <1>4
  <2>2. QED  BY <2>1
<1>6. ASSUME NEW p \in Pairs(h), NEW q \in Pairs(h), f[p] = f[q]  PROVE p = q
  <2>1. p[1] = q[1]
    BY <1>5, <1>6
  <2>2. p[2] = q[2]
    BY <1>2, <1>4, <1>6, <2>1
  <2>3. QED  BY <1>2, <2>1, <2>2
<1>7. ASSUME NEW z \in Pairs(g)  PROVE \E p \in Pairs(h) : f[p] = z
  <2>1. part[z[1]] \in K /\ z \in Of(part[z[1]])
    BY <1>1
  <2>2. PICK u \in 1 .. h[part[z[1]]] : number[part[z[1]]][u] = z
    BY <1>4, <2>1
  <2>3. <<part[z[1]], u>> \in Pairs(h)
    BY <2>1, <2>2, PairsMembers
  <2>4. QED  BY <2>2, <2>3
<1>8. f \in [Pairs(h) -> Pairs(g)]
  BY <1>5
<1> HIDE DEF f
<1>9. f \in Bijection(Pairs(h), Pairs(g))
  BY <1>6, <1>7, <1>8, IsOneToOne
<1>10. Cardinality(Pairs(g)) = Cardinality(Pairs(h))
  BY <1>9, PairsFinite, FS_Bijection DEF ExistsBijection
<1>11. QED  BY <1>10, PairsFinite

-----------------------------------------------------------------------------
(***************************************************************************)
(* A finite set under a strict total order can be listed in that order, in *)
(* one way: the k-th of the list comes after k - 1 others.                 *)
(***************************************************************************)
StrictOrder(R, S) ==
  /\ \A x \in S : <<x, x>> \notin R
  /\ \A x, y, z \in S : <<x, y>> \in R /\ <<y, z>> \in R => <<x, z>> \in R
  /\ \A x, y \in S : x # y => <<x, y>> \in R \/ <<y, x>> \in R

LEMMA OrderLists ==
  ASSUME NEW S, IsFiniteSet(S), NEW R, StrictOrder(R, S)
  PROVE  \E f \in [1 .. Cardinality(S) -> S] :
           \A j, k \in 1 .. Cardinality(S) : j < k => <<f[j], f[k]>> \in R
<1> DEFINE n        == Cardinality(S)
           Below(x) == {y \in S : <<y, x>> \in R}
           rank     == [x \in S |-> 1 + Cardinality(Below(x))]
<1>1. n \in Nat
  BY FS_CardinalityType
<1>2. ASSUME NEW x \in S
      PROVE  IsFiniteSet(Below(x)) /\ Cardinality(Below(x)) \in Nat /\ Cardinality(Below(x)) < n
  <2>1. Below(x) \subseteq S /\ x \notin Below(x)
    BY DEF StrictOrder
  <2>2. IsFiniteSet(Below(x)) /\ Cardinality(Below(x)) <= n /\ Cardinality(Below(x)) # n
    BY <2>1, FS_Subset
  <2>3. Cardinality(Below(x)) \in Nat
    BY <2>2, FS_CardinalityType
  <2>4. QED  BY <1>1, <2>2, <2>3
<1>3. ASSUME NEW x \in S, NEW y \in S, <<x, y>> \in R  PROVE rank[x] < rank[y]
  <2>1. Below(x) \subseteq Below(y) /\ x \in Below(y) /\ x \notin Below(x)
    BY <1>3 DEF StrictOrder
  <2>2. /\ Cardinality(Below(x)) <= Cardinality(Below(y))
        /\ Cardinality(Below(x)) # Cardinality(Below(y))
    BY <1>2, <2>1, FS_Subset
  <2> HIDE DEF Below
  <2>3. QED  BY <1>2, <2>2
<1>4. rank \in [S -> 1 .. n]
  <2> HIDE DEF n, Below
  <2>1. QED  BY <1>1, <1>2
<1> HIDE DEF rank, Below
<1>5. \A x, y \in S : rank[x] = rank[y] => x = y
  <2> SUFFICES ASSUME NEW x \in S, NEW y \in S, rank[x] = rank[y], x # y  PROVE FALSE
    OBVIOUS
  <2>1. rank[x] < rank[y] \/ rank[y] < rank[x]
    BY <1>3 DEF StrictOrder
  <2>2. rank[x] \in Int
    BY <1>4
  <2>3. QED  BY <2>1, <2>2
<1>6. rank \in Injection(S, 1 .. n)
  BY <1>4, <1>5 DEF Injection, IsInjective
<1>7. IsFiniteSet(1 .. n) /\ Cardinality(1 .. n) = n
  BY <1>1, FS_Interval
<1>8. \A k \in 1 .. n : \E x \in S : rank[x] = k
  BY <1>6, <1>7, FS_Injection DEF Surjection
<1> DEFINE f == [k \in 1 .. n |-> CHOOSE x \in S : rank[x] = k]
<1>9. \A k \in 1 .. n : f[k] \in S /\ rank[f[k]] = k
  BY <1>8
<1>10. f \in [1 .. n -> S]
  BY <1>9
<1> HIDE DEF f
<1>11. ASSUME NEW j \in 1 .. n, NEW k \in 1 .. n, j < k  PROVE <<f[j], f[k]>> \in R
  <2>1. f[j] # f[k]
    BY <1>9, <1>11
  <2>2. ~(rank[f[k]] < rank[f[j]])
    BY <1>9, <1>11
  <2>3. QED  BY <1>3, <1>9, <2>1, <2>2 DEF StrictOrder
<1>12. QED  BY <1>10, <1>11

LEMMA ListIsRanking ==
  ASSUME NEW S, IsFiniteSet(S), NEW R, StrictOrder(R, S), NEW f \in [1 .. Cardinality(S) -> S],
         \A j, k \in 1 .. Cardinality(S) : j < k => <<f[j], f[k]>> \in R
  PROVE  /\ \A x \in S : \E k \in 1 .. Cardinality(S) : f[k] = x
         /\ \A j, k \in 1 .. Cardinality(S) : f[j] = f[k] => j = k
         /\ \A k \in 1 .. Cardinality(S) : Cardinality({y \in S : <<y, f[k]>> \in R}) = k - 1
<1> DEFINE n == Cardinality(S)
<1>1. n \in Nat /\ IsFiniteSet(1 .. n) /\ Cardinality(1 .. n) = n
  BY FS_CardinalityType, FS_Interval
<1>2. \A j, k \in 1 .. n : f[j] = f[k] => j = k
  <2> SUFFICES ASSUME NEW j \in 1 .. n, NEW k \in 1 .. n, f[j] = f[k], j # k  PROVE FALSE
    OBVIOUS
  <2>1. j < k \/ k < j
    BY <1>1
  <2>2. QED  BY <2>1 DEF StrictOrder
<1>3. f \in Injection(1 .. n, S)
  BY <1>2 DEF Injection, IsInjective
<1>4. \A x \in S : \E k \in 1 .. n : f[k] = x
  BY <1>1, <1>3, FS_Injection DEF Surjection
<1>5. ASSUME NEW k \in 1 .. n  PROVE Cardinality({y \in S : <<y, f[k]>> \in R}) = k - 1
  <2> DEFINE below == {y \in S : <<y, f[k]>> \in R}
             first == 1 .. k - 1
             g     == [j \in first |-> f[j]]
  <2>1. IsFiniteSet(first) /\ Cardinality(first) = k - 1 /\ first \subseteq 1 .. n
    <3> HIDE DEF n
    <3>1. k - 1 \in Nat
      BY <1>1
    <3>2. IsFiniteSet(first) /\ Cardinality(first) = k - 1
      BY <3>1, FS_Interval
    <3>3. first \subseteq 1 .. n
      BY <1>1
    <3>4. QED  BY <3>2, <3>3
  <2>2. \A j \in first : g[j] \in below
    BY <1>1, <2>1
  <2>3. ASSUME NEW y \in below  PROVE \E j \in first : g[j] = y
    <3>1. PICK j \in 1 .. n : f[j] = y
      BY <1>4
    <3>2. j # k
      BY <3>1 DEF StrictOrder
    <3>3. ~(k < j)
      <4>1. ASSUME k < j PROVE FALSE
        <5>1. <<f[k], f[j]>> \in R
          BY <4>1
        <5>2. QED  BY <3>1, <5>1 DEF StrictOrder
      <4>2. QED  BY <4>1
    <3>4. j \in first
      BY <1>1, <3>2, <3>3
    <3>5. QED  BY <3>1, <3>4
  <2>4. \A i, j \in first : g[i] = g[j] => i = j
    BY <1>2, <2>1
  <2>5. g \in [first -> below]
    BY <2>2
  <2> HIDE DEF g, below, first
  <2>6. g \in Bijection(first, below)
    BY <2>3, <2>4, <2>5, IsOneToOne
  <2>7. Cardinality(below) = Cardinality(first)
    BY <2>1, <2>6, FS_Bijection DEF ExistsBijection
  <2>8. QED  BY <2>1, <2>7 DEF below
<1>6. QED  BY <1>2, <1>4, <1>5

-----------------------------------------------------------------------------
(***************************************************************************)
(* Every figure of a group is a sum over its rows.                         *)
(***************************************************************************)
LedgerTyped == ledger \in [Invocations -> RowKinds \cup {NoRow}]

Names == {"count", "units", "usageKnown", "usageUnavailable", "cost", "costKnown",
          "costUnavailable"}

Weights(row) ==
  [count            |-> 1,
   units            |-> IF UsageKnown(row) THEN row.usage.total ELSE 0,
   usageKnown       |-> IF UsageKnown(row) THEN 1 ELSE 0,
   usageUnavailable |-> IF Executed(row) /\ ~UsageKnown(row) THEN 1 ELSE 0,
   cost             |-> IF CostKnown(row) THEN row.cost ELSE 0,
   costKnown        |-> IF CostKnown(row) THEN 1 ELSE 0,
   costUnavailable  |-> IF Succeeded(row) /\ ~CostKnown(row) THEN 1 ELSE 0]

LEMMA NamesAre == FigureNames = Names /\ \A S : DOMAIN Group(S) = Names
  BY DEF FigureNames, Group, Names

LEMMA StoredFinite ==
  ASSUME LedgerTyped, NEW S \in SUBSET Stored
  PROVE  /\ IsFiniteSet(S) /\ Cardinality(S) \in Nat
         /\ \A i \in S : ledger[i] \in RowKinds
<1>1. S \subseteq Invocations
  BY DEF Stored
<1>2. IsFiniteSet(S)
  BY <1>1, RowsAssumption, FS_Subset
<1>3. \A i \in S : ledger[i] \in RowKinds
  BY DEF LedgerTyped, Stored
<1>4. QED  BY <1>2, <1>3, FS_CardinalityType

LEMMA WeightsAreNumbers ==
  ASSUME NEW row \in RowKinds
  PROVE  /\ \A f \in Names : Weights(row)[f] \in Nat
         /\ UsageKnown(row) => row.usage.total \in Nat /\ row.usage.input \in Nat
                               /\ row.usage.output \in Nat
         /\ CostKnown(row) => row.cost \in Nat
<1>1. {row.usage.input, row.usage.output, row.usage.total, row.cost} \subseteq Nat \cup {Unknown}
  BY RowsAssumption
<1>2. UsageKnown(row) =>
        row.usage.total \in Nat /\ row.usage.input \in Nat /\ row.usage.output \in Nat
  BY <1>1 DEF UsageKnown
<1>3. CostKnown(row) => row.cost \in Nat
  BY <1>1 DEF CostKnown
<1>4. ASSUME NEW f \in Names  PROVE Weights(row)[f] \in Nat
  BY <1>2, <1>3 DEF Weights, Names
<1>5. QED  BY <1>2, <1>3, <1>4

LEMMA FiguresAreSums ==
  ASSUME LedgerTyped, NEW S \in SUBSET Stored, NEW f \in Names
  PROVE  /\ Group(S)[f] = SumOver([i \in S |-> Weights(ledger[i])[f]])
         /\ [i \in S |-> Weights(ledger[i])[f]] \in [S -> Nat]
         /\ Group(S)[f] \in Nat
<1> DEFINE g == [i \in S |-> Weights(ledger[i])[f]]
<1>1. IsFiniteSet(S) /\ \A i \in S : ledger[i] \in RowKinds
  BY StoredFinite
<1>2. g \in [S -> Nat]
  BY <1>1, WeightsAreNumbers
<1>3. \A i \in S : g[i] = Weights(ledger[i])[f]
  OBVIOUS
<1> HIDE DEF g
<1>4. ASSUME f = "count"  PROVE Group(S)[f] = SumOver(g)
  <2>1. \A i \in S : g[i] = IF i \in S THEN 1 ELSE 0
    BY <1>3, <1>4 DEF Weights
  <2>2. SumOver(g) = Cardinality(S)
    BY <1>1, <1>2, <2>1, SumOfIndicator
  <2>3. QED  BY <1>4, <2>2 DEF Group
<1>5. ASSUME f = "usageKnown"  PROVE Group(S)[f] = SumOver(g)
  <2>1. \A i \in S : g[i] = IF i \in Metered(S) THEN 1 ELSE 0
    BY <1>3, <1>5 DEF Weights, Metered
  <2>2. Metered(S) \in SUBSET S
    BY DEF Metered
  <2>3. SumOver(g) = Cardinality(Metered(S))
    BY <1>1, <1>2, <2>1, <2>2, SumOfIndicator
  <2>4. QED  BY <1>5, <2>3 DEF Group
<1>6. ASSUME f = "usageUnavailable"  PROVE Group(S)[f] = SumOver(g)
  <2>1. \A i \in S : g[i] = IF i \in Executions(S) \ Metered(S) THEN 1 ELSE 0
    BY <1>3, <1>6 DEF Weights, Metered, Executions
  <2>2. Executions(S) \ Metered(S) \in SUBSET S
    BY DEF Executions
  <2>3. SumOver(g) = Cardinality(Executions(S) \ Metered(S))
    BY <1>1, <1>2, <2>1, <2>2, SumOfIndicator
  <2>4. QED  BY <1>6, <2>3 DEF Group
<1>7. ASSUME f = "costKnown"  PROVE Group(S)[f] = SumOver(g)
  <2>1. \A i \in S : g[i] = IF i \in Priced(S) THEN 1 ELSE 0
    BY <1>3, <1>7 DEF Weights, Priced
  <2>2. Priced(S) \in SUBSET S
    BY DEF Priced
  <2>3. SumOver(g) = Cardinality(Priced(S))
    BY <1>1, <1>2, <2>1, <2>2, SumOfIndicator
  <2>4. QED  BY <1>7, <2>3 DEF Group
<1>8. ASSUME f = "costUnavailable"  PROVE Group(S)[f] = SumOver(g)
  <2>1. \A i \in S : g[i] = IF i \in Successes(S) \ Priced(S) THEN 1 ELSE 0
    BY <1>3, <1>8 DEF Weights, Priced, Successes
  <2>2. Successes(S) \ Priced(S) \in SUBSET S
    BY DEF Successes
  <2>3. SumOver(g) = Cardinality(Successes(S) \ Priced(S))
    BY <1>1, <1>2, <2>1, <2>2, SumOfIndicator
  <2>4. QED  BY <1>8, <2>3 DEF Group
<1>9. ASSUME f = "units"  PROVE Group(S)[f] = SumOver(g)
  <2> DEFINE h == [i \in Metered(S) |-> ledger[i].usage["total"]]
  <2>1. Metered(S) \in SUBSET S /\ \A i \in Metered(S) : ledger[i].usage["total"] \in Nat
    BY <1>1, WeightsAreNumbers DEF Metered
  <2>2. h \in [Metered(S) -> Nat] /\ \A i \in Metered(S) : h[i] = ledger[i].usage["total"]
    BY <2>1
  <2> HIDE DEF h
  <2>3. \A i \in S : g[i] = IF i \in Metered(S) THEN h[i] ELSE 0
    BY <1>3, <1>9, <2>2 DEF Weights, Metered
  <2>4. SumOver(g) = SumOver(h)
    BY <1>1, <1>2, <2>1, <2>2, <2>3, SumOfSupport
  <2>5. QED  BY <1>9, <2>4 DEF h, Group, GroupUnits, UnitsOf
<1>10. ASSUME f = "cost"  PROVE Group(S)[f] = SumOver(g)
  <2> DEFINE h == [i \in Priced(S) |-> ledger[i].cost]
  <2>1. Priced(S) \in SUBSET S /\ \A i \in Priced(S) : ledger[i].cost \in Nat
    BY <1>1, WeightsAreNumbers DEF Priced
  <2>2. h \in [Priced(S) -> Nat] /\ \A i \in Priced(S) : h[i] = ledger[i].cost
    BY <2>1
  <2> HIDE DEF h
  <2>3. \A i \in S : g[i] = IF i \in Priced(S) THEN h[i] ELSE 0
    BY <1>3, <1>10, <2>2 DEF Weights, Priced
  <2>4. SumOver(g) = SumOver(h)
    BY <1>1, <1>2, <2>1, <2>2, <2>3, SumOfSupport
  <2>5. QED  BY <1>10, <2>4 DEF h, Group, CostOf
<1>11. Group(S)[f] = SumOver(g)
  BY <1>4, <1>5, <1>6, <1>7, <1>8, <1>9, <1>10 DEF Names
<1>12. SumOver(g) \in Nat
  BY <1>1, <1>2, PairsFinite
<1>13. QED  BY <1>2, <1>11, <1>12 DEF g

LEMMA GroupGrows ==
  ASSUME LedgerTyped, NEW T \in SUBSET Stored, NEW S \in SUBSET T
  PROVE  AtMost(Group(S), Group(T))
<1> SUFFICES ASSUME NEW f \in Names  PROVE Group(S)[f] <= Group(T)[f]
  BY NamesAre DEF AtMost
<1> DEFINE g == [i \in S |-> Weights(ledger[i])[f]]
           h == [i \in T |-> Weights(ledger[i])[f]]
<1>1. IsFiniteSet(T)
  BY StoredFinite
<1>2. g \in [S -> Nat] /\ h \in [T -> Nat]
  BY FiguresAreSums
<1>3. \A i \in S : g[i] <= h[i]
  <2>1. \A i \in S : g[i] = h[i]
    OBVIOUS
  <2> HIDE DEF g, h
  <2>2. QED  BY <1>2, <2>1
<1>4. Group(S)[f] = SumOver(g) /\ Group(T)[f] = SumOver(h)
  BY FiguresAreSums
<1> HIDE DEF g, h
<1>5. SumOver(g) <= SumOver(h)
  BY <1>1, <1>2, <1>3, SumMonotone
<1>6. QED  BY <1>4, <1>5

-----------------------------------------------------------------------------
(***************************************************************************)
(* The groups of a breakdown are ordered by cost and identity, strictly,   *)
(* so that the statement returns one list.                                 *)
(***************************************************************************)
Keyed == {"agent", "model"}

Having(S, by, x) == {i \in S : ledger[i][by] = x}

LEMMA GroupsAreIds ==
  ASSUME LedgerTyped, NEW S \in SUBSET Stored, NEW by \in Keyed
  PROVE  /\ IsFiniteSet(Groups(S, by)) /\ Cardinality(Groups(S, by)) \in Nat
         /\ Cardinality(Groups(S, by)) = Cardinality(Ids(S, by))
         /\ \A x \in Ids(S, by) : x \in Int
         /\ \A g \in Groups(S, by) :
              /\ g.id \in Ids(S, by)
              /\ g.figures = Group(Having(S, by, g.id))
              /\ g.figures.cost \in Nat
         /\ \A x \in Ids(S, by) : \E g \in Groups(S, by) : g.id = x
         /\ \A g, h \in Groups(S, by) : g.id = h.id => g = h
<1> DEFINE key   == [i \in S |-> ledger[i][by]]
           row(x) == [id |-> x, figures |-> Group(Having(S, by, x))]
           rows  == [x \in Ids(S, by) |-> row(x)]
<1>1. key \in Surjection(S, Ids(S, by))
  BY DEF Surjection, Ids
<1>2. IsFiniteSet(Ids(S, by)) /\ Cardinality(Ids(S, by)) \in Nat
  BY <1>1, StoredFinite, FS_Surjection, FS_CardinalityType
<1>3. ASSUME NEW x \in Ids(S, by)  PROVE x \in Int
  <2>1. PICK i \in S : x = ledger[i][by]
    BY DEF Ids
  <2>2. {ledger[i].agent, ledger[i].model} \subseteq Int
    BY StoredFinite, RowsAssumption
  <2>3. QED  BY <2>1, <2>2 DEF Keyed
<1>4. \A x : row(x).id = x /\ row(x).figures = Group(Having(S, by, x))
  OBVIOUS
<1>5. \A x : row(x).figures.cost \in Nat
  <2>1. \A x : Having(S, by, x) \in SUBSET Stored
    BY DEF Having
  <2>2. \A T \in SUBSET Stored : Group(T)["cost"] \in Nat
    BY FiguresAreSums DEF Names
  <2>3. QED  BY <1>4, <2>1, <2>2
<1>6. Groups(S, by) = {row(x) : x \in Ids(S, by)}
  BY DEF Groups, Having
<1> HIDE DEF row
<1>7. rows \in [Ids(S, by) -> Groups(S, by)]
  BY <1>6
<1>8. \A x, y \in Ids(S, by) : rows[x] = rows[y] => x = y
  BY <1>4
<1>9. \A g \in Groups(S, by) : \E x \in Ids(S, by) : rows[x] = g
  BY <1>6
<1>10. \A g \in Groups(S, by) : g.id \in Ids(S, by) /\ g = row(g.id)
  BY <1>4, <1>6
<1> HIDE DEF rows
<1>11. rows \in Bijection(Ids(S, by), Groups(S, by))
  BY <1>7, <1>8, <1>9, IsOneToOne
<1>12. IsFiniteSet(Groups(S, by)) /\ Cardinality(Groups(S, by)) = Cardinality(Ids(S, by))
  BY <1>2, <1>11, FS_Bijection DEF ExistsBijection
<1>13. \A x \in Ids(S, by) : row(x) \in Groups(S, by)
  BY <1>6
<1>14. \A g \in Groups(S, by) :
         g.figures = Group(Having(S, by, g.id)) /\ g.figures.cost \in Nat
  BY <1>4, <1>5, <1>10
<1>15. \A g, h \in Groups(S, by) : g.id = h.id => g = h
  BY <1>10
<1>16. QED  BY <1>2, <1>3, <1>4, <1>10, <1>12, <1>13, <1>14, <1>15

Order(S, by) == {p \in Groups(S, by) \X Groups(S, by) : Precedes(p[1], p[2])}

LEMMA GroupsOrdered ==
  ASSUME LedgerTyped, NEW S \in SUBSET Stored, NEW by \in Keyed
  PROVE  StrictOrder(Order(S, by), Groups(S, by))
<1> DEFINE G == Groups(S, by)
<1>1. \A g \in G : g.id \in Int /\ g.figures.cost \in Nat
  BY GroupsAreIds
<1>2. \A g, h \in G : g.id = h.id => g = h
  BY GroupsAreIds
<1>3. \A g, h \in G : <<g, h>> \in Order(S, by) <=> Precedes(g, h)
  BY DEF Order
<1> HIDE DEF G
<1>4. \A g \in G : ~Precedes(g, g)
  BY <1>1 DEF Precedes
<1>5. \A g, h, k \in G : Precedes(g, h) /\ Precedes(h, k) => Precedes(g, k)
  <2> SUFFICES ASSUME NEW g \in G, NEW h \in G, NEW k \in G, Precedes(g, h), Precedes(h, k)
               PROVE  Precedes(g, k)
    OBVIOUS
  <2>1. /\ g.id \in Int /\ h.id \in Int /\ k.id \in Int
        /\ g.figures.cost \in Int /\ h.figures.cost \in Int /\ k.figures.cost \in Int
    BY <1>1
  <2>2. QED  BY <2>1 DEF Precedes
<1>6. \A g, h \in G : g # h => Precedes(g, h) \/ Precedes(h, g)
  <2> SUFFICES ASSUME NEW g \in G, NEW h \in G, g # h  PROVE Precedes(g, h) \/ Precedes(h, g)
    OBVIOUS
  <2>1. /\ g.id \in Int /\ h.id \in Int /\ g.id # h.id
        /\ g.figures.cost \in Int /\ h.figures.cost \in Int
    BY <1>1, <1>2
  <2>2. QED  BY <2>1 DEF Precedes
<1>7. QED  BY <1>3, <1>4, <1>5, <1>6 DEF StrictOrder, G

LEMMA RankedLists ==
  ASSUME LedgerTyped, NEW S \in SUBSET Stored, NEW by \in Keyed
  PROVE  /\ Ranked(S, by) \in [1 .. Cardinality(Ids(S, by)) -> Groups(S, by)]
         /\ \A j, k \in 1 .. Cardinality(Ids(S, by)) :
              j < k => <<Ranked(S, by)[j], Ranked(S, by)[k]>> \in Order(S, by)
<1> DEFINE G == Groups(S, by)
           n == Cardinality(G)
           Lists(rows) == \A j, k \in DOMAIN rows : j < k => Precedes(rows[j], rows[k])
<1>1. IsFiniteSet(G) /\ n \in Nat /\ n = Cardinality(Ids(S, by))
  BY GroupsAreIds
<1>2. \A g, h \in G : <<g, h>> \in Order(S, by) <=> Precedes(g, h)
  BY DEF Order
<1>3. \E f \in [1 .. n -> G] : \A j, k \in 1 .. n : j < k => <<f[j], f[k]>> \in Order(S, by)
  BY <1>1, GroupsOrdered, OrderLists
<1> HIDE DEF G
<1>4. \E f \in [1 .. n -> G] : Lists(f)
  BY <1>2, <1>3
<1>5. Ranked(S, by) = CHOOSE rows \in [1 .. n -> G] : Lists(rows)
  BY DEF Ranked, G
<1> HIDE DEF Lists
<1>6. Ranked(S, by) \in [1 .. n -> G] /\ Lists(Ranked(S, by))
  BY <1>4, <1>5
<1>7. \A j, k \in 1 .. n : j < k => Precedes(Ranked(S, by)[j], Ranked(S, by)[k])
  BY <1>6 DEF Lists
<1>8. \A j \in 1 .. n : Ranked(S, by)[j] \in G
  BY <1>6
<1>9. QED  BY <1>1, <1>2, <1>6, <1>7, <1>8 DEF G

LEMMA RankedRanks ==
  ASSUME LedgerTyped, NEW S \in SUBSET Stored, NEW by \in Keyed
  PROVE  LET n == Cardinality(Ids(S, by))
             G == Groups(S, by)
             r == Ranked(S, by)
         IN  /\ n \in Nat /\ r \in [1 .. n -> G]
             /\ \A x \in Ids(S, by) : \E k \in 1 .. n : r[k].id = x
             /\ \A j, k \in 1 .. n : r[j].id = r[k].id => j = k
             /\ \A k \in 1 .. n : Cardinality({g \in G : <<g, r[k]>> \in Order(S, by)}) = k - 1
<1> DEFINE n == Cardinality(Ids(S, by))
           G == Groups(S, by)
           r == Ranked(S, by)
<1>1. IsFiniteSet(G) /\ n = Cardinality(G) /\ n \in Nat
  BY GroupsAreIds
<1>2. /\ r \in [1 .. n -> G]
      /\ \A j, k \in 1 .. n : j < k => <<r[j], r[k]>> \in Order(S, by)
  BY RankedLists
<1>3. StrictOrder(Order(S, by), G)
  BY GroupsOrdered
<1>4. /\ \A x \in Ids(S, by) : \E g \in G : g.id = x
      /\ \A g, h \in G : g.id = h.id => g = h
  BY GroupsAreIds
<1> HIDE DEF n, G, r
<1>5. /\ \A g \in G : \E k \in 1 .. n : r[k] = g
      /\ \A j, k \in 1 .. n : r[j] = r[k] => j = k
      /\ \A k \in 1 .. n : Cardinality({g \in G : <<g, r[k]>> \in Order(S, by)}) = k - 1
  BY <1>1, <1>2, <1>3, ListIsRanking
<1>6. \A x \in Ids(S, by) : \E k \in 1 .. n : r[k].id = x
  BY <1>4, <1>5
<1>7. \A j, k \in 1 .. n : r[j].id = r[k].id => j = k
  <2>1. \A j \in 1 .. n : r[j] \in G
    BY <1>2
  <2>2. QED  BY <1>4, <1>5, <2>1
<1>8. QED  BY <1>1, <1>2, <1>5, <1>6, <1>7 DEF n, G, r

\* Nothing is lost or counted twice by grouping.
LEMMA GroupsAddUp ==
  ASSUME LedgerTyped, NEW S \in SUBSET Stored, NEW by \in Keyed
  PROVE  SumOf(Ranked(S, by)) = Group(S)
<1> DEFINE n == Cardinality(Ids(S, by))
           r == Ranked(S, by)
           part == [i \in S |-> CHOOSE k \in 1 .. n : r[k].id = ledger[i][by]]
<1>1. /\ n \in Nat /\ r \in [1 .. n -> Groups(S, by)]
      /\ \A x \in Ids(S, by) : \E k \in 1 .. n : r[k].id = x
      /\ \A j, k \in 1 .. n : r[j].id = r[k].id => j = k
  BY RankedRanks
<1>2. \A k \in 1 .. n : r[k].figures = Group(Having(S, by, r[k].id))
  BY <1>1, GroupsAreIds
<1>3. IsFiniteSet(S) /\ IsFiniteSet(1 .. n)
  BY <1>1, StoredFinite, FS_Interval
<1> HIDE DEF n, r
<1>4. \A i \in S : part[i] \in 1 .. n /\ r[part[i]].id = ledger[i][by]
  <2>1. \A i \in S : ledger[i][by] \in Ids(S, by)
    BY DEF Ids
  <2>2. QED  BY <1>1, <2>1
<1> HIDE DEF part
<1>5. \A k \in 1 .. n : {i \in S : part[i] = k} = Having(S, by, r[k].id)
  BY <1>1, <1>4 DEF Having
<1>6. ASSUME NEW f \in Names  PROVE SumOf(r)[f] = Group(S)[f]
  <2> DEFINE g == [i \in S |-> Weights(ledger[i])[f]]
             h == [k \in 1 .. n |-> r[k].figures[f]]
             Own(k) == PartOf(S, part, k)
  <2>1. g \in [S -> Nat] /\ Group(S)[f] = SumOver(g)
    BY FiguresAreSums
  <2>2. ASSUME NEW k \in 1 .. n
        PROVE  h[k] = SumOver(Restrict(g, Own(k))) /\ h[k] \in Nat
    <3>1. h[k] = Group(Own(k))[f]
      BY <1>2, <1>5 DEF PartOf
    <3>2. Own(k) \in SUBSET S
      BY DEF PartOf
    <3>3. Restrict(g, Own(k)) = [i \in Own(k) |-> Weights(ledger[i])[f]]
      BY <3>2 DEF Restrict
    <3> HIDE DEF Own, g, h
    <3>4. QED  BY <3>1, <3>2, <3>3, FiguresAreSums
  <2>3. h \in [1 .. n -> Nat]
    BY <2>2
  <2>4. part \in [S -> 1 .. n]
    BY <1>4 DEF part
  <2>5. SumOf(r)[f] = SumOver(h)
    <3>1. DOMAIN r = 1 .. n
      BY <1>1
    <3>2. QED  BY <3>1, NamesAre DEF SumOf
  <2> HIDE DEF g, h
  <2>6. \A k \in 1 .. n : h[k] = SumOver(Restrict(g, PartOf(S, part, k)))
    BY <2>2
  <2> HIDE DEF Own
  <2>7. SumOver(h) = SumOver(g)
    <3> DEFINE K == 1 .. n
    <3>1. /\ IsFiniteSet(S) /\ IsFiniteSet(K) /\ g \in [S -> Nat] /\ part \in [S -> K]
          /\ h \in [K -> Nat]
          /\ \A k \in K : h[k] = SumOver(Restrict(g, PartOf(S, part, k)))
      BY <1>3, <2>1, <2>3, <2>4, <2>6
    <3> HIDE DEF K
    <3>2. QED  BY <3>1, SumOfParts
  <2>8. QED  BY <2>1, <2>5, <2>7
<1>7. SumOf(r) = [f \in Names |-> SumOf(r)[f]]
  BY NamesAre DEF SumOf
<1>8. Group(S) = [f \in Names |-> Group(S)[f]]
  BY DEF Group, Names
<1>9. QED  BY <1>6, <1>7, <1>8 DEF r

-----------------------------------------------------------------------------
(***************************************************************************)
(* A recorded row never changes, so what a statement returned stays what   *)
(* it would return about the same rows.                                    *)
(***************************************************************************)
LEMMA GroupKept ==
  ASSUME NEW S, \A i \in S : ledger'[i] = ledger[i]
  PROVE  Group(S)' = Group(S) /\ Totals(S)' = Totals(S)
<1>1. /\ Executions(S)' = Executions(S) /\ Metered(S)' = Metered(S)
      /\ Successes(S)' = Successes(S) /\ Priced(S)' = Priced(S)
  BY DEF Executions, Metered, Successes, Priced
<1>2. \A kind : UnitsOf(Metered(S), kind)' = UnitsOf(Metered(S), kind)
  <2>1. Metered(S) \subseteq S
    BY DEF Metered
  <2> SUFFICES ASSUME NEW kind  PROVE UnitsOf(Metered(S), kind)' = UnitsOf(Metered(S), kind)
    OBVIOUS
  <2>2. [i \in Metered(S) |-> ledger[i].usage[kind]]' = [i \in Metered(S) |-> ledger[i].usage[kind]]
    BY <1>1, <2>1
  <2>3. QED  BY <2>2 DEF UnitsOf, SumOver
<1>3. CostOf(Priced(S))' = CostOf(Priced(S))
  <2>1. Priced(S) \subseteq S
    BY DEF Priced
  <2>2. [i \in Priced(S) |-> ledger[i].cost]' = [i \in Priced(S) |-> ledger[i].cost]
    BY <1>1, <2>1
  <2>3. QED  BY <2>2 DEF CostOf, SumOver
<1>4. UnpricedSuccess(S)' = UnpricedSuccess(S) /\ GroupUnits(S)' = GroupUnits(S)
  BY <1>1, <1>2 DEF UnpricedSuccess, GroupUnits
<1>5. Group(S)' = Group(S)
  BY <1>1, <1>3, <1>4 DEF Group
<1>6. \A s \in Statuses : {i \in S : ledger[i].status = s}' = {i \in S : ledger[i].status = s}
  OBVIOUS
<1>7. Totals(S)' = Totals(S)
  BY <1>1, <1>2, <1>3, <1>4, <1>6 DEF Totals
<1>8. QED  BY <1>5, <1>7

LEMMA BreakdownKept ==
  ASSUME NEW S, \A i \in S : ledger'[i] = ledger[i], NEW by \in Keyed
  PROVE  Breakdown(S, by)' = Breakdown(S, by)
<1>1. Ids(S, by)' = Ids(S, by)
  BY DEF Ids
<1>2. ASSUME NEW x
      PROVE  Group({i \in S : ledger[i][by] = x})' = Group({i \in S : ledger[i][by] = x})
  <2> DEFINE T == {i \in S : ledger[i][by] = x}
  <2>1. T' = T
    OBVIOUS
  <2>2. QED  BY <2>1, GroupKept
<1>3. Groups(S, by)' = Groups(S, by)
  <2>1. ASSUME NEW x
        PROVE  [id |-> x, figures |-> Group({i \in S : ledger[i][by] = x})]'
                 = [id |-> x, figures |-> Group({i \in S : ledger[i][by] = x})]
    BY <1>2
  <2>2. QED  BY <1>1, <2>1 DEF Groups
<1>4. Ranked(S, by)' = Ranked(S, by)
  BY <1>3 DEF Ranked, Precedes
<1>5. QED  BY <1>4 DEF Breakdown, First

-----------------------------------------------------------------------------
(***************************************************************************)
(* What an answer is made of: the totals of some of the rows that are      *)
(* there now, the agents of these and perhaps more, the models of those    *)
(* and perhaps more still.                                                 *)
(***************************************************************************)
Reading == {"totals", "agents", "models", "answered"}

AskTyped == phase \in Reading \cup {"checking"} => {ask.start, ask.end} \subseteq Int

Seen(A, B, C) ==
  /\ phase \in {"agents", "models", "answered"} => totals = Totals(A)
  /\ phase \in {"models", "answered"} => agentRows = Breakdown(B, "agent")
  /\ phase = "answered" => modelRows = Breakdown(C, "model")

ReportInv ==
  /\ LedgerTyped /\ AskTyped
  /\ phase \in Reading => \E C \in SUBSET Selected : \E B \in SUBSET C : \E A \in SUBSET B : Seen(A, B, C)

LEMMA InitReport == Init => ReportInv
<1> SUFFICES ASSUME Init PROVE ReportInv
  OBVIOUS
<1>1. LedgerTyped
  BY DEF Init, EmptyLedger, LedgerTyped
<1>2. phase \notin Reading \cup {"checking"}
  BY DEF Init, Reading
<1>3. QED  BY <1>1, <1>2 DEF ReportInv, AskTyped

LEMMA RecordStep ==
  ASSUME ReportInv, NEW i \in Invocations, NEW row \in RowKinds, Record(i, row)
  PROVE  ReportInv'
<1>1. /\ ledger[i] = NoRow /\ row # NoRow /\ ledger' = [ledger EXCEPT ![i] = row]
      /\ phase' = phase /\ ask' = ask /\ totals' = totals
      /\ agentRows' = agentRows /\ modelRows' = modelRows
  BY DEF Record, Insert, reportVars
<1>2. LedgerTyped /\ AskTyped
  BY DEF ReportInv
<1>3. LedgerTyped' /\ AskTyped'
  BY <1>1, <1>2 DEF LedgerTyped, AskTyped
<1>4. \A j \in Selected : ledger'[j] = ledger[j]
  BY <1>1, <1>2 DEF Selected, Stored, LedgerTyped
<1>5. \A j \in Stored : ledger'[j] = ledger[j]
  BY <1>1, <1>2 DEF Stored, LedgerTyped
<1>6. Stored \subseteq Stored'
  BY <1>5 DEF Stored
<1>7. Selected \subseteq Selected'
  BY <1>1, <1>5, <1>6 DEF Selected
<1>8. ASSUME phase' \in Reading
      PROVE  \E C \in SUBSET Selected' : \E B \in SUBSET C : \E A \in SUBSET B : Seen(A, B, C)'
  <2>1. PICK C \in SUBSET Selected : \E B \in SUBSET C : \E A \in SUBSET B : Seen(A, B, C)
    BY <1>1, <1>8 DEF ReportInv
  <2>2. PICK B \in SUBSET C : \E A \in SUBSET B : Seen(A, B, C)
    BY <2>1
  <2>3. PICK A \in SUBSET B : Seen(A, B, C)
    BY <2>2
  <2>4. Totals(A)' = Totals(A)
    BY <1>4, GroupKept
  <2>5. Breakdown(B, "agent")' = Breakdown(B, "agent")
    BY <1>4, BreakdownKept DEF Keyed
  <2>6. Breakdown(C, "model")' = Breakdown(C, "model")
    BY <1>4, BreakdownKept DEF Keyed
  <2>7. Seen(A, B, C)'
    BY <1>1, <2>3, <2>4, <2>5, <2>6 DEF Seen
  <2>8. QED  BY <1>7, <2>7
<1>9. QED  BY <1>3, <1>8 DEF ReportInv

\* A statement sees the rows that are there when it begins.
LEMMA StatementStep ==
  ASSUME ReportInv, UNCHANGED <<ledger, ask>>,
         phase \in Reading \cup {"checking"}, phase' \in Reading,
         \/ CheckTenant
         \/ ReadTotals
         \/ ReadAgents
         \/ ReadModels
  PROVE  ReportInv'
<1>1. LedgerTyped' /\ AskTyped'
  BY DEF ReportInv, LedgerTyped, AskTyped, Reading
<1>2. Selected' = Selected /\ (\A i \in Selected : ledger'[i] = ledger[i])
  BY DEF Selected, Stored
<1>3. /\ \A S \in SUBSET Selected : Totals(S)' = Totals(S)
      /\ \A S \in SUBSET Selected : Breakdown(S, "agent")' = Breakdown(S, "agent")
      /\ \A S \in SUBSET Selected : Breakdown(S, "model")' = Breakdown(S, "model")
  BY <1>2, GroupKept, BreakdownKept DEF Keyed
<1> SUFFICES \E C \in SUBSET Selected : \E B \in SUBSET C : \E A \in SUBSET B : Seen(A, B, C)'
  BY <1>1, <1>2 DEF ReportInv
<1>4. PICK now : now = Selected
  OBVIOUS
<1>5. CASE CheckTenant
  <2>1. phase' = "totals"
    BY <1>5 DEF CheckTenant, Advance, Reading
  <2>2. Seen({}, {}, {})'
    BY <2>1 DEF Seen
  <2>3. QED  BY <2>2
<1>6. CASE ReadTotals
  <2>1. phase' = "agents" /\ totals' = Totals(Selected)
    BY <1>6 DEF ReadTotals, Advance
  <2>2. Seen(now, now, now)'
    BY <1>4, <1>2, <1>3, <2>1 DEF Seen
  <2>3. QED  BY <1>4, <2>2
<1>7. CASE ReadAgents
  <2>1. /\ phase = "agents" /\ phase' = "models" /\ totals' = totals
        /\ agentRows' = Breakdown(Selected, "agent")
    BY <1>7 DEF ReadAgents, Advance
  <2>2. PICK C \in SUBSET Selected : \E B \in SUBSET C : \E A \in SUBSET B : Seen(A, B, C)
    BY <2>1 DEF ReportInv, Reading
  <2>3. PICK B \in SUBSET C : \E A \in SUBSET B : Seen(A, B, C)
    BY <2>2
  <2>4. PICK A \in SUBSET B : Seen(A, B, C)
    BY <2>3
  <2>5. Seen(A, now, now)'
    BY <1>4, <1>2, <1>3, <2>1, <2>4 DEF Seen
  <2>6. QED  BY <1>4, <2>5
<1>8. CASE ReadModels
  <2>1. /\ phase = "models" /\ phase' = "answered" /\ totals' = totals /\ agentRows' = agentRows
        /\ modelRows' = Breakdown(Selected, "model")
    BY <1>8 DEF ReadModels, Advance
  <2>2. PICK C \in SUBSET Selected : \E B \in SUBSET C : \E A \in SUBSET B : Seen(A, B, C)
    BY <2>1 DEF ReportInv, Reading
  <2>3. PICK B \in SUBSET C : \E A \in SUBSET B : Seen(A, B, C)
    BY <2>2
  <2>4. PICK A \in SUBSET B : Seen(A, B, C)
    BY <2>3
  <2>5. Seen(A, B, now)'
    BY <1>4, <1>2, <1>3, <2>1, <2>4 DEF Seen
  <2>6. QED  BY <1>4, <2>5
<1>9. QED  BY <1>5, <1>6, <1>7, <1>8

LEMMA ReportInductive ==
  /\ Init => ReportInv
  /\ ReportInv /\ [Next]_vars => ReportInv'
<1> SUFFICES ASSUME ReportInv, [Next]_vars PROVE ReportInv'
  BY InitReport
<1>1. CASE UNCHANGED vars
  <2>1. /\ ledger' = ledger /\ phase' = phase /\ ask' = ask /\ totals' = totals
        /\ agentRows' = agentRows /\ modelRows' = modelRows
    BY <1>1 DEF vars
  <2>2. LedgerTyped' /\ AskTyped'
    BY <2>1 DEF ReportInv, LedgerTyped, AskTyped
  <2>3. Selected' = Selected /\ (\A S : Totals(S)' = Totals(S))
        /\ (\A S : Breakdown(S, "agent")' = Breakdown(S, "agent"))
        /\ (\A S : Breakdown(S, "model")' = Breakdown(S, "model"))
    BY <2>1, GroupKept, BreakdownKept DEF Selected, Stored, Keyed
  <2>4. \A A, B, C : Seen(A, B, C) => Seen(A, B, C)'
    BY <2>1, <2>3 DEF Seen
  <2>5. QED  BY <2>1, <2>2, <2>3, <2>4 DEF ReportInv
<1>2. ASSUME NEW i \in Invocations, NEW row \in RowKinds, Record(i, row)  PROVE ReportInv'
  BY <1>2, RecordStep
<1>3. ASSUME NEW t \in Tenants, NEW start \in 0 .. MaxDay, NEW end \in 0 .. MaxDay,
             Ask(t, start, end)
      PROVE  ReportInv'
  <2>1. phase' \notin Reading /\ ledger' = ledger
    BY <1>3 DEF Ask, Advance, Reading
  <2>2. ask'.start = start /\ ask'.end = end
    BY <1>3 DEF Ask
  <2>3. LedgerTyped' /\ AskTyped'
    BY <2>1, <2>2 DEF ReportInv, LedgerTyped, AskTyped
  <2>4. QED  BY <2>1, <2>3 DEF ReportInv
<1>4. ASSUME CheckTenant \/ ReadTotals \/ ReadAgents \/ ReadModels, phase' \in Reading
      PROVE  ReportInv'
  <2>1. UNCHANGED <<ledger, ask>> /\ phase \in Reading \cup {"checking"}
    BY <1>4 DEF CheckTenant, ReadTotals, ReadAgents, ReadModels, Advance, Reading
  <2>2. QED  BY <1>4, <2>1, StatementStep
<1>5. ASSUME CheckTenant \/ Unavailable, phase' \notin Reading
      PROVE  ReportInv'
  <2>1. ledger' = ledger /\ phase' # "checking"
    BY <1>5 DEF CheckTenant, Unavailable, Advance
  <2>2. LedgerTyped' /\ AskTyped'
    BY <1>5, <2>1 DEF ReportInv, LedgerTyped, AskTyped
  <2>3. QED  BY <1>5, <2>2 DEF ReportInv
<1>6. /\ ReadTotals \/ ReadAgents \/ ReadModels => phase' \in Reading
      /\ Unavailable => phase' \notin Reading
  BY DEF ReadTotals, ReadAgents, ReadModels, Unavailable, Advance, Reading
<1>7. QED  BY <1>1, <1>2, <1>3, <1>4, <1>5, <1>6 DEF Next

-----------------------------------------------------------------------------
(***************************************************************************)
(* LIMIT TOP_N + 1: a list no longer than TOP_N is all of them.            *)
(***************************************************************************)
Cut(m, n) == IF m < n THEN m ELSE n

LEMMA FirstRows ==
  ASSUME NEW G, NEW r \in Seq(G), NEW m \in Nat
  PROVE  /\ First(m, r) \in Seq(G) /\ Len(First(m, r)) = Cut(m, Len(r))
         /\ \A k \in 1 .. Cut(m, Len(r)) : First(m, r)[k] = r[k]
         /\ m >= Len(r) => First(m, r) = r
<1> DEFINE n == Len(r)
           l == Cut(m, n)
<1>1. n \in Nat /\ r \in [1 .. n -> G]
  OBVIOUS
<1> HIDE DEF n
<1>2. l \in 0 .. n /\ (m >= n => l = n)
  BY <1>1 DEF Cut
<1>3. Min({m, n}) = l
  <2>1. l \in {m, n} /\ \A y \in {m, n} : l =< y
    BY <1>1 DEF Cut
  <2>2. \A x \in {m, n} : (\A y \in {m, n} : x =< y) => x = l
    BY <1>1 DEF Cut
  <2> HIDE DEF l
  <2>3. QED  BY <2>1, <2>2 DEF Min
<1>4. First(m, r) = SubSeq(r, 1, l)
  BY <1>3 DEF First, n
<1> HIDE DEF l
<1>5. /\ SubSeq(r, 1, l) \in Seq(G) /\ Len(SubSeq(r, 1, l)) = l
      /\ \A k \in 1 .. l : SubSeq(r, 1, l)[k] = r[k]
  <2>1. l \in Int /\ 1 \in Int /\ \A k \in 1 .. l : r[k] \in G
    BY <1>1, <1>2
  <2>2. /\ SubSeq(r, 1, l) \in Seq(G)
        /\ Len(SubSeq(r, 1, l)) = IF 1 <= l THEN l - 1 + 1 ELSE 0
        /\ \A k \in 1 .. l - 1 + 1 : SubSeq(r, 1, l)[k] = r[1 + k - 1]
    BY <2>1, SubSeqProperties
  <2>3. QED  BY <1>1, <1>2, <2>2
<1>6. l = n => SubSeq(r, 1, l) = r
  BY <1>5, SeqEqual DEF n
<1>7. QED  BY <1>2, <1>4, <1>5, <1>6 DEF l, n

LEMMA BreakdownShape ==
  ASSUME LedgerTyped, NEW S \in SUBSET Stored, NEW by \in Keyed
  PROVE  LET rows == Breakdown(S, by)
             n    == Cardinality(Ids(S, by))
         IN  /\ n \in Nat
             /\ Truncated(rows) <=> n > TopN
             /\ ~Truncated(rows) => rows = Ranked(S, by)
             /\ DOMAIN Shown(rows) = {k \in 1 .. n : k <= TopN}
             /\ \A k \in DOMAIN Shown(rows) : Shown(rows)[k] = Ranked(S, by)[k]
<1> DEFINE G    == Groups(S, by)
           r    == Ranked(S, by)
           n    == Cardinality(Ids(S, by))
           rows == Breakdown(S, by)
           upto == TopN + 1
           l    == Cut(upto, n)
           s    == Cut(TopN, l)
<1>1. n \in Nat /\ r \in Seq(G) /\ Len(r) = n
  <2>1. n \in Nat /\ r \in [1 .. n -> G]
    BY RankedRanks
  <2> HIDE DEF n, r, G
  <2>2. QED  BY <2>1
<1>2. TopN \in Nat /\ upto \in Nat /\ upto = TopN + 1
  BY TopNAssumption
<1>3. rows = First(upto, r) /\ Shown(rows) = First(TopN, rows)
  BY DEF Breakdown, Shown
<1> HIDE DEF G, r, n, rows, upto
<1>4. /\ Len(First(upto, r)) = l /\ First(upto, r) \in Seq(G)
      /\ \A k \in 1 .. l : First(upto, r)[k] = r[k]
      /\ upto >= n => First(upto, r) = r
  BY <1>1, <1>2, FirstRows
<1>5. l \in Nat /\ (l > TopN <=> n > TopN) /\ (n <= TopN => upto >= n)
  BY <1>1, <1>2 DEF Cut
<1>6. (Truncated(rows) <=> n > TopN) /\ (~Truncated(rows) => rows = r)
  BY <1>1, <1>2, <1>3, <1>4, <1>5 DEF Truncated
<1>7. rows \in Seq(G) /\ Len(rows) = l
  BY <1>3, <1>4
<1>8. 1 .. s = {k \in 1 .. n : k <= TopN} /\ 1 .. s \subseteq 1 .. l
  BY <1>1, <1>2 DEF Cut
<1> HIDE DEF l
<1>9. /\ Len(First(TopN, rows)) = s /\ First(TopN, rows) \in Seq(G)
      /\ \A k \in 1 .. s : First(TopN, rows)[k] = rows[k]
  BY <1>2, <1>5, <1>7, FirstRows
<1> HIDE DEF s
<1>10. DOMAIN Shown(rows) = 1 .. s
  BY <1>3, <1>9
<1>11. \A k \in DOMAIN Shown(rows) : Shown(rows)[k] = r[k]
  BY <1>3, <1>4, <1>8, <1>9, <1>10
<1>12. QED  BY <1>1, <1>6, <1>8, <1>10, <1>11 DEF n, r, rows

LEMMA RankOfKth ==
  ASSUME LedgerTyped, NEW S \in SUBSET Stored, NEW by \in Keyed,
         NEW k \in 1 .. Cardinality(Ids(S, by))
  PROVE  /\ Ranked(S, by)[k] \in Groups(S, by) /\ Ranked(S, by)[k].id \in Ids(S, by)
         /\ Cardinality({y \in Ids(S, by) : Outranks(S, by, y, Ranked(S, by)[k].id)}) = k - 1
<1> DEFINE G == Groups(S, by)
           x == Ranked(S, by)[k]
           above == {g \in G : <<g, x>> \in Order(S, by)}
           out   == {y \in Ids(S, by) : Outranks(S, by, y, x.id)}
           id    == [g \in above |-> g.id]
<1> DEFINE n == Cardinality(Ids(S, by))
           r == Ranked(S, by)
<1>a. /\ k \in 1 .. n /\ r \in [1 .. n -> G]
      /\ \A j \in 1 .. n : Cardinality({g \in G : <<g, r[j]>> \in Order(S, by)}) = j - 1
  BY RankedRanks
<1>1. x \in G /\ Cardinality(above) = k - 1
  <2> HIDE DEF n, G
  <2>1. QED  BY <1>a
<1>2. /\ IsFiniteSet(G)
      /\ \A g \in G : g.id \in Ids(S, by) /\ g.figures = Group(Having(S, by, g.id))
      /\ \A y \in Ids(S, by) : \E g \in G : g.id = y
      /\ \A g, h \in G : g.id = h.id => g = h
  BY GroupsAreIds
<1> HIDE DEF G, x
<1>3. \A g \in G : Outranks(S, by, g.id, x.id) <=> <<g, x>> \in Order(S, by)
  <2>1. \A g \in G : Outranks(S, by, g.id, x.id) <=> Precedes(g, x)
    BY <1>1, <1>2 DEF Outranks, Precedes, Having
  <2>2. QED  BY <1>1, <2>1 DEF Order, G
<1>4. \A g \in above : g.id \in out
  BY <1>2, <1>3
<1>5. \A y \in out : \E g \in above : g.id = y
  BY <1>2, <1>3
<1>6. IsFiniteSet(above)
  BY <1>2, FS_Subset
<1>7. id \in [above -> out]
  BY <1>4
<1>8. \A g, h \in above : id[g] = id[h] => g = h
  BY <1>2
<1>9. \A y \in out : \E g \in above : id[g] = y
  BY <1>5
<1> HIDE DEF id, above, out
<1>10. id \in Bijection(above, out)
  BY <1>7, <1>8, <1>9, IsOneToOne
<1>11. Cardinality(out) = Cardinality(above)
  BY <1>6, <1>10, FS_Bijection DEF ExistsBijection
<1>12. QED  BY <1>1, <1>2, <1>11 DEF G, x, out

LEMMA BreakdownIsTop ==
  ASSUME LedgerTyped, NEW S \in SUBSET Stored, NEW by \in Keyed
  PROVE  IsTop(Breakdown(S, by), S, by)
<1> DEFINE rows    == Breakdown(S, by)
           shown   == Shown(rows)
           n       == Cardinality(Ids(S, by))
           r       == Ranked(S, by)
           Rank(x) == 1 + Cardinality({y \in Ids(S, by) : Outranks(S, by, y, x)})
<1>1. /\ n \in Nat /\ (Truncated(rows) <=> n > TopN)
      /\ DOMAIN shown = {k \in 1 .. n : k <= TopN}
      /\ \A k \in DOMAIN shown : shown[k] = r[k]
  BY BreakdownShape
<1>2. \A x \in Ids(S, by) : \E k \in 1 .. n : r[k].id = x
  BY RankedRanks
<1>3. ASSUME NEW k \in 1 .. n  PROVE r[k].id \in Ids(S, by) /\ Rank(r[k].id) = k
  <2>1. /\ r[k].id \in Ids(S, by)
        /\ Cardinality({y \in Ids(S, by) : Outranks(S, by, y, r[k].id)}) = k - 1
    BY RankOfKth
  <2>2. k \in Int
    BY <1>1
  <2>3. QED  BY <2>1, <2>2
<1> HIDE DEF Rank, r, n, shown
<1>4. \A k \in DOMAIN shown : Rank(shown[k].id) = k
  BY <1>1, <1>3
<1>5. ASSUME NEW k \in DOMAIN shown
      PROVE  shown[k].id \in Ids(S, by) /\ Rank(shown[k].id) <= TopN
  BY <1>1, <1>3
<1>6. ASSUME NEW x \in Ids(S, by), Rank(x) <= TopN
      PROVE  \E k \in DOMAIN shown : shown[k].id = x
  <2>1. PICK k \in 1 .. n : r[k].id = x
    BY <1>2
  <2>2. k \in DOMAIN shown
    BY <1>1, <1>3, <1>6, <2>1
  <2>3. QED  BY <1>1, <2>1, <2>2
<1>7. {shown[k].id : k \in DOMAIN shown} = {x \in Ids(S, by) : Rank(x) <= TopN}
  BY <1>5, <1>6
<1>8. QED  BY <1>1, <1>4, <1>7 DEF IsTop, Rank, shown, n

-----------------------------------------------------------------------------
LEMMA SubjectIsSelected ==
  ASSUME ReportInv, phase \in Reading
  PROVE  Subject = Selected /\ Selected \in SUBSET Stored
<1>1. {ask.start, ask.end} \subseteq Int
  BY DEF ReportInv, AskTyped
<1>2. ASSUME NEW i \in Stored  PROVE ledger[i].day \in Int
  <2>1. ledger[i] \in RowKinds
    BY StoredFinite DEF ReportInv
  <2>2. {ledger[i].day, ledger[i].agent, ledger[i].model} \subseteq Int
    BY <2>1, RowsAssumption
  <2>3. QED  BY <2>2
<1>3. ASSUME NEW i \in Stored
      PROVE  ledger[i].day \in ask.start .. ask.end - 1
               <=> ask.start <= ledger[i].day /\ ledger[i].day < ask.end
  BY <1>1, <1>2
<1>4. QED  BY <1>3 DEF Subject, Selected

LEMMA AnswerOf ==
  ASSUME ReportInv, Answered
  PROVE  \E C \in SUBSET Subject : \E B \in SUBSET C : \E A \in SUBSET B :
           /\ totals = Totals(A)
           /\ agentRows = Breakdown(B, "agent")
           /\ modelRows = Breakdown(C, "model")
  BY SubjectIsSelected DEF ReportInv, Answered, Reading, Seen

LEMMA TotalsShareFigures ==
  ASSUME NEW S
  PROVE  Totals(S).figures = Group(S) /\ Group(S).count = Cardinality(S)
  BY DEF Totals, Group, GroupUnits, UnpricedSuccess

\* What a whole breakdown adds up to.
LEMMA WholeBreakdown ==
  ASSUME LedgerTyped, NEW S \in SUBSET Stored, NEW by \in Keyed, ~Truncated(Breakdown(S, by))
  PROVE  SumOf(Breakdown(S, by)) = Group(S)
<1>1. Breakdown(S, by) = Ranked(S, by)
  BY BreakdownShape
<1>2. QED  BY <1>1, GroupsAddUp

LEMMA AnswerBrackets == ReportInv => AnswerIsBracketed
<1> SUFFICES ASSUME ReportInv, Answered  PROVE AnswerIsBracketed
  BY DEF AnswerIsBracketed
<1>1. PICK C \in SUBSET Subject : \E B \in SUBSET C : \E A \in SUBSET B :
        totals = Totals(A) /\ agentRows = Breakdown(B, "agent") /\ modelRows = Breakdown(C, "model")
  BY AnswerOf
<1>2. PICK B \in SUBSET C : \E A \in SUBSET B :
        totals = Totals(A) /\ agentRows = Breakdown(B, "agent") /\ modelRows = Breakdown(C, "model")
  BY <1>1
<1>3. PICK A \in SUBSET B :
        totals = Totals(A) /\ agentRows = Breakdown(B, "agent") /\ modelRows = Breakdown(C, "model")
  BY <1>2
<1>4. LedgerTyped /\ Subject \in SUBSET Stored /\ C \in SUBSET Stored /\ B \in SUBSET Stored
  BY DEF ReportInv, Subject
<1>5. totals.figures = Group(A)
  BY <1>3, TotalsShareFigures
<1>6. /\ ~Truncated(agentRows) => SumOf(agentRows) = Group(B)
      /\ ~Truncated(modelRows) => SumOf(modelRows) = Group(C)
  BY <1>3, <1>4, WholeBreakdown DEF Keyed
<1>7. /\ AtMost(Group(A), Group(Subject)) /\ AtMost(Group(A), Group(B)) /\ AtMost(Group(A), Group(C))
      /\ AtMost(Group(B), Group(Subject)) /\ AtMost(Group(C), Group(Subject))
      /\ AtMost(Group(B), Group(C))
  BY <1>4, GroupGrows
<1>8. QED  BY <1>5, <1>6, <1>7 DEF AnswerIsBracketed

LEMMA EqualCountsAreOne == ReportInv => EqualCountsMeanOneInstant
<1> SUFFICES ASSUME ReportInv, Answered  PROVE EqualCountsMeanOneInstant
  BY DEF EqualCountsMeanOneInstant
<1>1. PICK C \in SUBSET Subject : \E B \in SUBSET C : \E A \in SUBSET B :
        totals = Totals(A) /\ agentRows = Breakdown(B, "agent") /\ modelRows = Breakdown(C, "model")
  BY AnswerOf
<1>2. PICK B \in SUBSET C : \E A \in SUBSET B :
        totals = Totals(A) /\ agentRows = Breakdown(B, "agent") /\ modelRows = Breakdown(C, "model")
  BY <1>1
<1>3. PICK A \in SUBSET B :
        totals = Totals(A) /\ agentRows = Breakdown(B, "agent") /\ modelRows = Breakdown(C, "model")
  BY <1>2
<1>4. LedgerTyped /\ Subject \in SUBSET Stored /\ C \in SUBSET Stored /\ B \in SUBSET Stored
  BY DEF ReportInv, Subject
<1>5. \A S : Totals(S).figures = Group(S) /\ Group(S).count = Cardinality(S)
  BY TotalsShareFigures
<1>6. /\ ~Truncated(agentRows) => SumOf(agentRows) = Group(B)
      /\ ~Truncated(modelRows) => SumOf(modelRows) = Group(C)
  BY <1>3, <1>4, WholeBreakdown DEF Keyed
<1>7. IsFiniteSet(Subject) /\ IsFiniteSet(C) /\ IsFiniteSet(B)
  BY <1>4, StoredFinite
<1>8. /\ Cardinality(B) = Cardinality(A) => B = A
      /\ Cardinality(C) = Cardinality(A) => C = A
      /\ Cardinality(Subject) = Cardinality(A) => Subject = A
  BY <1>7, FS_Subset
<1>9. totals.figures = Group(A) /\ totals.figures.count = Cardinality(A)
  BY <1>3, <1>5
<1>10. ASSUME ~Truncated(agentRows), SumOf(agentRows).count = totals.figures.count
       PROVE  SumOf(agentRows) = totals.figures
  <2>1. Cardinality(B) = Cardinality(A)
    BY <1>5, <1>6, <1>9, <1>10
  <2>2. QED  BY <1>6, <1>8, <1>9, <1>10, <2>1
<1>11. ASSUME ~Truncated(modelRows), SumOf(modelRows).count = totals.figures.count
       PROVE  SumOf(modelRows) = totals.figures
  <2>1. Cardinality(C) = Cardinality(A)
    BY <1>5, <1>6, <1>9, <1>11
  <2>2. QED  BY <1>6, <1>8, <1>9, <1>11, <2>1
<1>12. totals.figures.count = Cardinality(Subject) => totals = Totals(Subject)
  BY <1>3, <1>8, <1>9
<1>13. QED  BY <1>10, <1>11, <1>12 DEF EqualCountsMeanOneInstant

LEMMA Split ==
  ASSUME NEW S, IsFiniteSet(S), NEW T \in SUBSET S
  PROVE  Cardinality(S) = Cardinality(T) + Cardinality(S \ T)
<1>1. IsFiniteSet(T) /\ IsFiniteSet(S \ T)
  BY FS_Subset
<1>2. Cardinality(T \cup (S \ T)) = Cardinality(T) + Cardinality(S \ T) - Cardinality(T \cap (S \ T))
  BY <1>1, FS_Union
<1>3. T \cup (S \ T) = S /\ T \cap (S \ T) = {}
  OBVIOUS
<1>4. Cardinality(T) \in Nat /\ Cardinality(S \ T) \in Nat /\ Cardinality({}) = 0
  BY <1>1, FS_CardinalityType, FS_EmptySet
<1>5. Cardinality(S) = Cardinality(T) + Cardinality(S \ T) - Cardinality({})
  BY <1>2, <1>3
<1> DEFINE rest == Cardinality(S \ T)
<1>6. Cardinality(S) = Cardinality(T) + rest - 0 /\ Cardinality(T) \in Nat /\ rest \in Nat
  BY <1>4, <1>5
<1> HIDE DEF rest
<1>7. Cardinality(S) = Cardinality(T) + rest
  BY <1>6
<1>8. QED  BY <1>7 DEF rest

LEMMA StatusesFinite == IsFiniteSet(Statuses)
<1>1. IsFiniteSet({"succeeded"})
  BY FS_Singleton
<1>2. IsFiniteSet({"succeeded"} \cup {"failed"})
  BY <1>1, FS_AddElement
<1>3. IsFiniteSet(({"succeeded"} \cup {"failed"}) \cup {"denied"})
  BY <1>2, FS_AddElement
<1>4. IsFiniteSet((({"succeeded"} \cup {"failed"}) \cup {"denied"}) \cup {"limited"})
  BY <1>3, FS_AddElement
<1>5. IsFiniteSet(((({"succeeded"} \cup {"failed"}) \cup {"denied"}) \cup {"limited"})
                    \cup {"cost_limited"})
  BY <1>4, FS_AddElement
<1>6. Statuses = ((({"succeeded"} \cup {"failed"}) \cup {"denied"}) \cup {"limited"})
                   \cup {"cost_limited"}
  BY DEF Statuses
<1>7. QED  BY <1>5, <1>6

LEMMA StatusesAddUp ==
  ASSUME LedgerTyped, NEW S \in SUBSET Stored
  PROVE  Cardinality(S) = SumOver(Totals(S).statuses)
<1> DEFINE one  == [i \in S |-> 1]
           part == [i \in S |-> ledger[i].status]
           h    == Totals(S).statuses
           With(s) == PartOf(S, part, s)
<1>1. IsFiniteSet(S) /\ \A i \in S : ledger[i] \in RowKinds
  BY StoredFinite
<1>2. one \in [S -> Nat] /\ (\A i \in S : one[i] = 1)
  OBVIOUS
<1>3. part \in [S -> Statuses]
  BY <1>1, RowsAssumption
<1>4. /\ h = [s \in Statuses |-> Cardinality({i \in S : ledger[i].status = s})]
      /\ \A s : With(s) = {i \in S : ledger[i].status = s}
  BY DEF Totals, PartOf
<1> HIDE DEF one, part, h
<1>5. ASSUME NEW s \in Statuses
      PROVE  h[s] = SumOver(Restrict(one, PartOf(S, part, s))) /\ h[s] \in Nat
  <2> DEFINE T == PartOf(S, part, s)
             g == Restrict(one, T)
  <2>1. T \in SUBSET S
    BY DEF PartOf
  <2>2. IsFiniteSet(T) /\ Cardinality(T) \in Nat
    BY <1>1, <2>1, FS_Subset, FS_CardinalityType
  <2>3. h[s] = Cardinality(T)
    BY <1>4
  <2>4. g \in [T -> Nat] /\ \A i \in T : g[i] = IF i \in T THEN 1 ELSE 0
    BY <1>2, <2>1 DEF Restrict
  <2> HIDE DEF T, g
  <2>5. SumOver(g) = Cardinality(T)
    BY <2>2, <2>4, SumOfIndicator
  <2>6. QED  BY <2>2, <2>3, <2>5 DEF g, T
<1>6. h \in [Statuses -> Nat]
  BY <1>4, <1>5
<1>7. IsFiniteSet(Statuses)
  BY StatusesFinite
<1>8. SumOver(h) = SumOver(one)
  BY <1>1, <1>2, <1>3, <1>5, <1>6, <1>7, SumOfParts
<1>9. SumOver(one) = Cardinality(S)
  BY <1>1, <1>2, SumOfIndicator
<1>10. QED  BY <1>8, <1>9 DEF h

LEMMA TotalsComplete == ReportInv => CompletenessAddsUp
<1> SUFFICES ASSUME ReportInv, Answered  PROVE CompletenessAddsUp
  BY DEF CompletenessAddsUp
<1>1. PICK C \in SUBSET Subject : \E B \in SUBSET C : \E A \in SUBSET B : totals = Totals(A)
  BY AnswerOf
<1>2. PICK A \in SUBSET Subject : totals = Totals(A)
  BY <1>1
<1>3. LedgerTyped /\ A \in SUBSET Stored
  BY DEF ReportInv, Subject
<1>4. IsFiniteSet(A)
  BY <1>3, StoredFinite
<1>5. totals.figures.count = SumOver(totals.statuses)
  BY <1>2, <1>3, StatusesAddUp, TotalsShareFigures
<1>6. totals.executed = totals.figures.usageKnown + totals.figures.usageUnavailable
  <2>1. Metered(A) \in SUBSET Executions(A) /\ Executions(A) \in SUBSET A
    BY DEF Metered, Executions, UsageKnown
  <2>2. Cardinality(Executions(A)) = Cardinality(Metered(A)) + Cardinality(Executions(A) \ Metered(A))
    BY <1>4, <2>1, FS_Subset, Split
  <2>3. QED  BY <1>2, <2>2 DEF Totals
<1>7. totals.statuses["succeeded"] = totals.figures.costKnown + totals.figures.costUnavailable
  <2>1. Priced(A) \in SUBSET Successes(A) /\ Successes(A) \in SUBSET A
    BY DEF Priced, Successes, CostKnown
  <2>2. Cardinality(Successes(A)) = Cardinality(Priced(A)) + Cardinality(Successes(A) \ Priced(A))
    BY <1>4, <2>1, FS_Subset, Split
  <2>3. totals.statuses["succeeded"] = Cardinality(Successes(A))
    BY <1>2 DEF Totals, Successes, Succeeded, Statuses
  <2>4. QED  BY <1>2, <2>2, <2>3 DEF Totals, UnpricedSuccess
<1>8. QED  BY <1>5, <1>6, <1>7 DEF CompletenessAddsUp

-----------------------------------------------------------------------------
\* application/reporting.py, infrastructure/reporting.py:80-83: the three parts of
\* an answer are of three instants in a row, and their figures bracket one another.
THEOREM AnswersBracketed == Spec => []AnswerIsBracketed
<1>1. Init => ReportInv  BY ReportInductive
<1>2. ReportInv /\ [Next]_vars => ReportInv'  BY ReportInductive
<1>3. ReportInv => AnswerIsBracketed  BY AnswerBrackets
<1>4. QED  BY <1>1, <1>2, <1>3, PTL DEF Spec

\* infrastructure/reporting.py:80-83: parts that agree on the number of
\* invocations are of one instant, and agree on every figure.
THEOREM EqualCountsOneInstant == Spec => []EqualCountsMeanOneInstant
<1>1. Init => ReportInv  BY ReportInductive
<1>2. ReportInv /\ [Next]_vars => ReportInv'  BY ReportInductive
<1>3. ReportInv => EqualCountsMeanOneInstant  BY EqualCountsAreOne
<1>4. QED  BY <1>1, <1>2, <1>3, PTL DEF Spec

\* docs/architecture/README.md:222-223: the totals account for every selected row,
\* every executed one and every success exactly once, whatever was recorded.
THEOREM TotalsAddUp == Spec => []CompletenessAddsUp
<1>1. Init => ReportInv  BY ReportInductive
<1>2. ReportInv /\ [Next]_vars => ReportInv'  BY ReportInductive
<1>3. ReportInv => CompletenessAddsUp  BY TotalsComplete
<1>4. QED  BY <1>1, <1>2, <1>3, PTL DEF Spec

\* infrastructure/reporting.py, docs/architecture/README.md:226-229: what a
\* breakdown shows are the TOP_N groups that the fewest outrank, in order, and its
\* flag says whether there are more.
THEOREM TopGroupsShown == Spec => BreakdownsAreTop
<1>1. Init => ReportInv  BY ReportInductive
<1>2. ReportInv /\ [Next]_vars => ReportInv'  BY ReportInductive
<1>3. ReportInv /\ [Next]_vars =>
        [/\ ReadAgents => IsTop(agentRows', Subject, "agent")
         /\ ReadModels => IsTop(modelRows', Subject, "model")]_vars
  <2> SUFFICES ASSUME ReportInv
               PROVE  /\ ReadAgents => IsTop(agentRows', Subject, "agent")
                      /\ ReadModels => IsTop(modelRows', Subject, "model")
    OBVIOUS
  <2>1. ASSUME ReadAgents  PROVE IsTop(agentRows', Subject, "agent")
    <3>1. phase \in Reading /\ agentRows' = Breakdown(Selected, "agent")
      BY <2>1 DEF ReadAgents, Advance, Reading
    <3>2. Subject = Selected /\ Selected \in SUBSET Stored
      BY <3>1, SubjectIsSelected
    <3>3. QED  BY <3>1, <3>2, BreakdownIsTop DEF ReportInv, Keyed
  <2>2. ASSUME ReadModels  PROVE IsTop(modelRows', Subject, "model")
    <3>1. phase \in Reading /\ modelRows' = Breakdown(Selected, "model")
      BY <2>2 DEF ReadModels, Advance, Reading
    <3>2. Subject = Selected /\ Selected \in SUBSET Stored
      BY <3>1, SubjectIsSelected
    <3>3. QED  BY <3>1, <3>2, BreakdownIsTop DEF ReportInv, Keyed
  <2>3. QED  BY <2>1, <2>2
<1>4. QED  BY <1>1, <1>2, <1>3, PTL DEF Spec, BreakdownsAreTop
=============================================================================
