-------------------------- MODULE TenantScopesProofs --------------------------
(***************************************************************************)
(* Proofs about TenantScopes, for any number of replacements and Tenants:  *)
(* what a replacement may still rely on when it commits, although others   *)
(* deleted, inserted and committed while it waited for their rows, and that *)
(* every step brings a replacement nearer to its end.                      *)
(***************************************************************************)
EXTENDS TenantScopes, FiniteSetTheorems, TLAPS

\* A committed row is of the creation or of a call that has ended, so no call
\* in flight inserts a row that another's DELETE has seen.
Settled(rows) ==
  \A row \in rows : row[2] = Creation \/ (row[2] \in Calls /\ stage[row[2]] = "done")

\* What a call's DELETE saw is settled, and once that statement has ended all
\* of it that is left in the table is deleted by this call itself.
Swept(o) ==
  /\ Settled(doomed[o])
  /\ stage[o] = "inserting" => Pending(o) = {}
  /\ stage[o] \notin {"deleting", "inserting"} => deleted[o] = {}

SweptInv == TypeOK /\ Settled(scopes) /\ \A o \in Calls : Swept(o)

-----------------------------------------------------------------------------
\* What a call does leaves the others' variables alone.
Only(o) ==
  /\ stage' \in [Calls -> Stages] /\ wanted' \in [Calls -> SUBSET Tenants]
  /\ doomed' \in [Calls -> SUBSET Rows] /\ deleted' \in [Calls -> SUBSET Rows]
  /\ inserted' \in [Calls -> SUBSET Tenants]
  /\ stage[o] # "done"
  /\ \A q \in Calls \ {o} :
       stage'[q] = stage[q] /\ doomed'[q] = doomed[q] /\ deleted'[q] = deleted[q]

LEMMA Isolated ==
  ASSUME SweptInv, NEW o \in Calls, Only(o),
         NEW rows, Settled(rows)
  PROVE  Settled(rows)'
  BY DEF Settled, Only, SweptInv, TypeOK

\* A step that leaves the tables alone, and of its call's own rows says that
\* they are disjoint from the others' and swept.
LEMMA Local ==
  ASSUME SweptInv, NEW o \in Calls, Only(o), UNCHANGED tables,
         deleted'[o] \subseteq doomed'[o],
         \A q \in Calls \ {o} : deleted'[o] \cap deleted[q] = {},
         doomed'[o] \in {doomed[o], scopes, {}},
         stage'[o] = "inserting" => (doomed'[o] \cap scopes) \ deleted'[o] = {},
         stage'[o] \notin {"deleting", "inserting"} => deleted'[o] = {}
  PROVE  SweptInv'
<1>1. scopes' = scopes /\ recorded' = recorded
  BY DEF tables
<1>2. TypeOK'
  BY <1>1 DEF SweptInv, TypeOK, Only
<1>3. Settled(scopes)'
  BY <1>1 DEF Settled, Only, SweptInv, TypeOK
<1>4. ASSUME NEW q \in Calls \ {o} PROVE Swept(q)'
  BY <1>1, <1>4 DEF Swept, Settled, Pending, Only, SweptInv, TypeOK
<1>5. Swept(o)'
  BY <1>1, <1>3 DEF Swept, Settled, Pending, Only, SweptInv, TypeOK
<1>6. QED
  BY <1>2, <1>3, <1>4, <1>5 DEF SweptInv

\* A transaction that ends without writing gives up its locks.
LEMMA Ended ==
  ASSUME SweptInv, NEW o \in Calls, NEW from \in Live,
         NEW to \in {"refused", "failed"}, End(o, from, to), UNCHANGED tables
  PROVE  SweptInv'
<1>1. /\ Only(o) /\ deleted'[o] = {} /\ doomed'[o] = {} /\ stage'[o] = to
  BY DEF End, Advance, Only, SweptInv, TypeOK, Live, Stages
<1>2. QED
  BY <1>1, Local

\* COMMIT: the rows it removes are nobody else's, the rows it adds no other
\* call's DELETE has seen.
LEMMA Committed ==
  ASSUME SweptInv, NEW o \in Calls, Commit(o)
  PROVE  /\ SweptInv' /\ doomed[o] \cap scopes' = {}
<1> DEFINE new == {<<t, o>> : t \in wanted[o]}
<1>1. /\ stage[o] = "inserting" /\ stage' = [stage EXCEPT ![o] = "done"]
      /\ doomed' = [doomed EXCEPT ![o] = {}] /\ deleted' = [deleted EXCEPT ![o] = {}]
      /\ inserted' = [inserted EXCEPT ![o] = {}] /\ wanted' = wanted
      /\ scopes' = (scopes \ deleted[o]) \cup new /\ recorded' = wanted[o]
  BY DEF Commit, End, Advance
<1>2. new \subseteq Rows /\ \A row \in new : row[2] = o
  BY DEF SweptInv, TypeOK, Rows
<1> HIDE DEF new
<1>3. Only(o) /\ stage'[o] = "done" /\ deleted'[o] = {} /\ doomed'[o] = {}
  BY <1>1 DEF Only, SweptInv, TypeOK, Stages
<1>4. ASSUME NEW q \in Calls PROVE doomed[q] \cap new = {}
  BY <1>1, <1>2, ScopesAssumption DEF SweptInv, Swept, Settled
<1>5. TypeOK'
  BY <1>1, <1>2, <1>3 DEF SweptInv, TypeOK, Only
<1>6. Settled(scopes)'
  BY <1>1, <1>2, <1>3 DEF Settled, SweptInv, TypeOK
<1>7. ASSUME NEW q \in Calls \ {o} PROVE Swept(q)'
  <2>1. doomed'[q] = doomed[q] /\ deleted'[q] = deleted[q] /\ stage'[q] = stage[q]
    BY <1>3 DEF Only
  <2>2. Pending(q)' \subseteq Pending(q)
    BY <1>1, <1>4, <2>1 DEF Pending
  <2>3. Settled(doomed[q])'
    BY <1>3 DEF Settled, Only, SweptInv, Swept, TypeOK
  <2>4. QED
    BY <2>1, <2>2, <2>3 DEF SweptInv, Swept, Settled
<1>8. Swept(o)'
  BY <1>3 DEF Swept, Settled
<1>9. doomed[o] \cap scopes' = {}
  BY <1>1, <1>4 DEF SweptInv, Swept, Pending
<1>10. QED
  BY <1>5, <1>6, <1>7, <1>8, <1>9 DEF SweptInv

LEMMA SweptStep ==
  ASSUME SweptInv, [Next]_vars
  PROVE  SweptInv'
<1>1. CASE UNCHANGED vars
  BY <1>1 DEF SweptInv, TypeOK, Swept, Settled, Pending, vars, tables
<1>2. ASSUME NEW o \in Calls, NEW tenants \in SUBSET Tenants, Receive(o, tenants)
      PROVE  SweptInv'
  <2>1. /\ Only(o) /\ stage[o] = "idle" /\ stage'[o] = "reading"
        /\ deleted'[o] = deleted[o] /\ doomed'[o] = doomed[o] /\ UNCHANGED tables
    BY <1>2 DEF Receive, Advance, Only, SweptInv, TypeOK, Stages, Live
  <2>2. QED
    BY <2>1, Local DEF SweptInv, TypeOK, Swept
<1>3. ASSUME NEW o \in Calls, Check(o) PROVE SweptInv'
  <2>1. /\ Only(o) /\ stage[o] = "reading" /\ stage'[o] = "starting"
        /\ deleted'[o] = deleted[o] /\ doomed'[o] = doomed[o] /\ UNCHANGED tables
    BY <1>3 DEF Check, Advance, Only, SweptInv, TypeOK, Stages, Live
  <2>2. QED
    BY <2>1, Local DEF SweptInv, TypeOK, Swept
<1>4. ASSUME NEW o \in Calls, Refuse(o) PROVE SweptInv'
  BY <1>4, Ended DEF Refuse, Live
<1>5. ASSUME NEW o \in Calls, StartDelete(o) PROVE SweptInv'
  <2>1. /\ Only(o) /\ stage[o] = "starting" /\ stage'[o] = "deleting"
        /\ deleted'[o] = deleted[o] /\ doomed'[o] = scopes /\ UNCHANGED tables
    BY <1>5 DEF StartDelete, Advance, Only, SweptInv, TypeOK, Stages, Live
  <2>2. QED
    BY <2>1, Local DEF SweptInv, TypeOK, Swept
<1>6. ASSUME NEW o \in Calls, NEW row \in Rows, DeleteRow(o, row) PROVE SweptInv'
  <2>1. /\ Only(o) /\ stage[o] = "deleting" /\ stage'[o] = "deleting"
        /\ deleted'[o] = deleted[o] \cup {row} /\ doomed'[o] = doomed[o] /\ UNCHANGED tables
        /\ row \in doomed[o] /\ \A q \in Calls \ {o} : row \notin deleted[q]
    BY <1>6 DEF DeleteRow, Pending, Contenders, Only, SweptInv, TypeOK
  <2>2. QED
    BY <2>1, Local DEF SweptInv, TypeOK, Swept
<1>7. ASSUME NEW o \in Calls, EndDelete(o) PROVE SweptInv'
  <2>1. /\ Only(o) /\ stage[o] = "deleting" /\ stage'[o] = "inserting"
        /\ deleted'[o] = deleted[o] /\ doomed'[o] = doomed[o] /\ UNCHANGED tables
        /\ Pending(o) = {}
    BY <1>7 DEF EndDelete, Advance, Only, SweptInv, TypeOK, Stages, Live
  <2>2. QED
    BY <2>1, Local DEF SweptInv, TypeOK, Swept, Pending
<1>8. ASSUME NEW o \in Calls, NEW t \in Tenants, InsertRow(o, t) PROVE SweptInv'
  <2>1. /\ Only(o) /\ stage[o] = "inserting" /\ stage'[o] = "inserting"
        /\ deleted'[o] = deleted[o] /\ doomed'[o] = doomed[o] /\ UNCHANGED tables
    BY <1>8 DEF InsertRow, Only, SweptInv, TypeOK
  <2>2. QED
    BY <2>1, Local DEF SweptInv, TypeOK, Swept, Pending
<1>9. ASSUME NEW o \in Calls, NEW t \in Tenants, InsertRefused(o, t) PROVE SweptInv'
  BY <1>9, Ended DEF InsertRefused, Live
<1>10. ASSUME NEW o \in Calls, DeadlockVictim(o) \/ Abort(o) PROVE SweptInv'
  <2>1. PICK from \in Live : End(o, from, "failed") /\ UNCHANGED tables
    BY <1>10 DEF DeadlockVictim, Abort, Live
  <2>2. QED
    BY <2>1, Ended
<1>11. ASSUME NEW o \in Calls, Commit(o) PROVE SweptInv'
  BY <1>11, Committed
<1>12. QED
  BY <1>1, <1>2, <1>3, <1>4, <1>5, <1>6, <1>7, <1>8, <1>9, <1>10, <1>11 DEF Next, Step

LEMMA SweptStart == Init => SweptInv
  BY ScopesAssumption
     DEF Init, SweptInv, TypeOK, Swept, Settled, Pending, Rows, Stages, Live

\* The shape of every reachable state: what a transaction has deleted it saw,
\* and no row is deleted by two (repositories.py, replace_scopes).
THEOREM TypeCorrect == Spec => []TypeOK
<1>1. SweptInv => TypeOK
  BY DEF SweptInv
<1>2. QED
  BY <1>1, SweptStart, SweptStep, PTL DEF Spec

\* A replacement that commits has withdrawn every scope its DELETE saw, whoever
\* deleted, kept or gave it up meanwhile (handlers.py, set_scopes).
THEOREM Withdrawn == Spec => WithdrawnUnlessRegranted
<1>1. ASSUME SweptInv, [Next]_vars, NEW o \in Calls, stage[o] = "inserting", stage'[o] = "done"
      PROVE  doomed[o] \cap scopes' = {}
  <2>1. Commit(o)
    <3>1. PICK q \in Calls : \/ \E tenants \in SUBSET Tenants : Receive(q, tenants)
                             \/ Step(q) \/ Abort(q)
      BY <1>1 DEF Next, vars
    <3>2. q = o
      BY <1>1, <3>1 DEF Step, Receive, Check, Refuse, StartDelete, EndDelete, Commit, DeleteRow,
         InsertRow, InsertRefused, DeadlockVictim, Abort, End, Advance, SweptInv, TypeOK
    <3>3. QED
      BY <1>1, <3>1, <3>2 DEF Step, Receive, Check, Refuse, StartDelete, EndDelete, DeleteRow,
         InsertRow, InsertRefused, DeadlockVictim, Abort, End, Advance, SweptInv, TypeOK
  <2>2. QED
    BY <1>1, <2>1, Committed
<1>2. SweptInv /\ [Next]_vars =>
        [\A o \in Calls :
           stage[o] = "inserting" /\ stage'[o] = "done" => doomed[o] \cap scopes' = {}]_vars
  BY <1>1
<1>3. QED
  BY <1>2, SweptStart, SweptStep, PTL DEF Spec, WithdrawnUnlessRegranted

-----------------------------------------------------------------------------
(***************************************************************************)
(* One at a time: nothing commits while a call is in flight, so its DELETE *)
(* has seen all there is and its COMMIT leaves what it inserted.           *)
(***************************************************************************)
Serial ==
  /\ ScopesExact
  /\ \A o, q \in Calls : stage[o] \in Live /\ stage[q] \in Live => o = q
  /\ \A o \in Calls : stage[o] \in {"deleting", "inserting"} => doomed[o] = scopes

\* Rows of one owner are as many as their Tenants.
LEMMA TenantsOfOwner ==
  ASSUME NEW S, NEW x
  PROVE  TenantsOf({<<t, x>> : t \in S}) = S
<1> DEFINE rows == {<<t, x>> : t \in S}
<1>1. ASSUME NEW t \in S PROVE t \in TenantsOf(rows)
  <2>1. <<t, x>> \in rows /\ <<t, x>>[1] = t
    OBVIOUS
  <2>2. QED
    BY <2>1 DEF TenantsOf
<1>2. ASSUME NEW t \in TenantsOf(rows) PROVE t \in S
  <2>1. PICK row \in rows : t = row[1]
    BY <1>2 DEF TenantsOf
  <2>2. PICK s \in S : row = <<s, x>>
    BY <2>1
  <2>3. QED
    BY <2>1, <2>2
<1>3. QED
  BY <1>1, <1>2

LEMMA SerialStep ==
  ASSUME MaxInFlight = 1, SweptInv, Serial, [Next]_vars
  PROVE  Serial'
<1>1. CASE UNCHANGED vars
  BY <1>1 DEF Serial, ScopesExact, vars, tables
<1>2. ASSUME NEW o \in Calls, NEW tenants \in SUBSET Tenants, Receive(o, tenants)
      PROVE  Serial'
  <2>1. {q \in Calls : stage[q] \in Live} = {}
    <3> DEFINE live == {q \in Calls : stage[q] \in Live}
    <3>1. IsFiniteSet(live)
      BY FS_Subset, ScopesAssumption
    <3>2. Cardinality(live) < 1
      BY <1>2 DEF Receive
    <3> HIDE DEF live
    <3>3. Cardinality(live) \in Nat
      BY <3>1, FS_CardinalityType
    <3>4. Cardinality(live) = 0
      BY <3>2, <3>3
    <3>5. QED
      BY <3>1, <3>4, FS_EmptySet DEF live
  <2>2. QED
    <3>1. stage' = [stage EXCEPT ![o] = "reading"] /\ stage \in [Calls -> Stages]
      BY <1>2 DEF Receive, Advance, SweptInv, TypeOK
    <3>2. \A q \in Calls : stage[q] \notin Live
      BY <2>1
    <3>3. \A q \in Calls : stage'[q] \in Live => q = o /\ stage'[q] = "reading"
      BY <3>1, <3>2
    <3>4. ScopesExact'
      BY <1>2 DEF Receive, tables, Serial, ScopesExact
    <3>5. QED  BY <3>3, <3>4 DEF Serial, Live
<1>3. ASSUME NEW o \in Calls, Commit(o) PROVE Serial'
  <2>1. /\ stage[o] = "inserting" /\ stage' = [stage EXCEPT ![o] = "done"]
        /\ deleted[o] = scopes /\ doomed' = [doomed EXCEPT ![o] = {}]
    <3>1. stage[o] = "inserting" /\ stage' = [stage EXCEPT ![o] = "done"]
          /\ doomed' = [doomed EXCEPT ![o] = {}]
      BY <1>3 DEF Commit, End, Advance
    <3>2. doomed[o] = scopes /\ Pending(o) = {} /\ deleted[o] \subseteq doomed[o]
      BY <3>1 DEF SweptInv, TypeOK, Swept, Serial
    <3>3. QED
      BY <3>1, <3>2 DEF Pending
  <2>2. scopes' = {<<t, o>> : t \in wanted[o]} /\ recorded' = wanted[o]
    BY <1>3, <2>1 DEF Commit
  <2>3. ScopesExact'
    <3>1. TenantsOf({<<t, o>> : t \in wanted[o]}) = wanted[o]
      BY TenantsOfOwner
    <3>2. QED
      BY <2>2, <3>1 DEF ScopesExact, TenantsOf
  <2>4. \A q \in Calls : stage'[q] \notin Live
    BY <2>1 DEF Serial, Live, SweptInv, TypeOK
  <2>5. QED
    BY <2>3, <2>4 DEF Serial, Live
<1>4. ASSUME NEW o \in Calls, (Step(o) /\ ~Commit(o)) \/ Abort(o) PROVE Serial'
  <2>1. /\ UNCHANGED tables /\ stage[o] \in Live
        /\ \A q \in Calls \ {o} : stage'[q] = stage[q] /\ doomed'[q] = doomed[q]
    BY <1>4 DEF Step, Check, Refuse, StartDelete, DeleteRow, EndDelete, InsertRow, InsertRefused,
       DeadlockVictim, Abort, End, Advance, Live, SweptInv, TypeOK
  <2>2. stage'[o] \in {"deleting", "inserting"} => doomed'[o] = scopes
    BY <1>4 DEF Step, Check, Refuse, StartDelete, DeleteRow, EndDelete, InsertRow, InsertRefused,
       DeadlockVictim, Abort, End, Advance, Live, SweptInv, TypeOK, Serial
  <2>3. QED
    BY <2>1, <2>2 DEF Serial, ScopesExact, tables, TenantsOf, Live
<1>5. QED
  BY <1>1, <1>2, <1>3, <1>4 DEF Next

\* ADR-0019:10 and 33: of replacements served one at a time the scopes in force
\* are those of the newest evidence.  scopes_race shows that two at once break it.
THEOREM ExactOneAtATime ==
  ASSUME MaxInFlight = 1
  PROVE  Spec => []ScopesExact
<1>1. Init => Serial
  <2>1. {<<t, Creation>> : t \in Initial} = Initial \X {Creation}
    OBVIOUS
  <2>2. TenantsOf(Initial \X {Creation}) = Initial
    BY <2>1, TenantsOfOwner
  <2>3. QED
    BY <2>2 DEF Init, Serial, ScopesExact, Live
<1>2. SweptInv /\ Serial /\ [Next]_vars => Serial'
  BY SerialStep
<1>3. Serial => ScopesExact
  BY DEF Serial
<1>4. QED
  BY <1>1, <1>2, <1>3, SweptStart, SweptStep, PTL DEF Spec

-----------------------------------------------------------------------------
(***************************************************************************)
(* Waiting.  A call waits for rows that others have deleted or inserted    *)
(* and not committed.  If every open call waits, they wait for each other  *)
(* and all together are a circle, which PostgreSQL's detector breaks.      *)
(***************************************************************************)
CanGoOn(o) ==
  \/ stage[o] \in {"reading", "starting"}
  \/ stage[o] = "deleting" /\ (Pending(o) = {} \/ \E row \in Pending(o) : Contenders(o, row) = {})
  \/ stage[o] = "inserting" /\ inserted[o] = wanted[o]
  \/ /\ stage[o] = "inserting"
     /\ \E t \in wanted[o] \ inserted[o] : InsertContenders(o, t) = {}
  \/ stage[o] \in {"deleting", "inserting"} /\ Deadlocked(o)

InsertedInv ==
  \A o \in Calls : inserted[o] \subseteq wanted[o] /\ (stage[o] # "inserting" => inserted[o] = {})

LEMMA InsertedNext == SweptInv /\ InsertedInv /\ [Next]_vars => InsertedInv'
<1> SUFFICES ASSUME SweptInv, InsertedInv, [Next]_vars  PROVE InsertedInv'
  OBVIOUS
<1>1. CASE UNCHANGED vars
  BY <1>1 DEF vars, InsertedInv
<1>2. ASSUME NEW o \in Calls, NEW from \in Stages, NEW to \in Stages \ {"inserting"}, End(o, from, to)
      PROVE  InsertedInv'
  BY <1>2 DEF SweptInv, TypeOK, InsertedInv, End, Advance
<1>3. ASSUME NEW o \in Calls, NEW tenants \in SUBSET Tenants, Receive(o, tenants)
      PROVE  InsertedInv'
  BY <1>3 DEF SweptInv, TypeOK, InsertedInv, Receive, Advance
<1>4. ASSUME NEW o \in Calls, Check(o) \/ StartDelete(o) \/ EndDelete(o)
      PROVE  InsertedInv'
  BY <1>4 DEF SweptInv, TypeOK, InsertedInv, Check, StartDelete, EndDelete, Advance
<1>5. ASSUME NEW o \in Calls, NEW row \in Rows, DeleteRow(o, row)
      PROVE  InsertedInv'
  BY <1>5 DEF InsertedInv, DeleteRow
<1>6. ASSUME NEW o \in Calls, NEW t \in Tenants, InsertRow(o, t)
      PROVE  InsertedInv'
  BY <1>6 DEF SweptInv, TypeOK, InsertedInv, InsertRow
<1>7. ASSUME NEW o \in Calls,
             \/ Refuse(o) \/ Commit(o) \/ DeadlockVictim(o) \/ Abort(o)
             \/ \E t \in Tenants : InsertRefused(o, t)
      PROVE  InsertedInv'
  BY <1>2, <1>7 DEF Refuse, Commit, DeadlockVictim, Abort, InsertRefused, Live, Stages
<1>8. QED
  BY <1>1, <1>3, <1>4, <1>5, <1>6, <1>7 DEF Next, Step

\* repositories.py's DELETE and INSERTs of concurrent replacements: however many
\* there are and in whatever order they insert, one of them can go on or is in a
\* circle of waits, whose members the detector cancels.
THEOREM ReplacementsServed ==
  Spec => []((\E o \in Calls : stage[o] \in Live) => \E o \in Calls : CanGoOn(o))
<1>1. ASSUME SweptInv, InsertedInv, NEW c \in Calls, stage[c] \in Live,
             \A o \in Calls : ~CanGoOn(o)
      PROVE  FALSE
  <2> DEFINE open == {o \in Calls : stage[o] \in Live}
  <2> USE <1>1
  <2>1. ASSUME NEW o \in open  PROVE Blockers(o) \cap open # {} /\ stage[o] \in {"deleting", "inserting"}
    <3>1. stage[o] \in {"deleting", "inserting"}
      BY DEF CanGoOn, Live
    <3>2. ASSUME NEW q \in Calls, deleted[q] # {} \/ inserted[q] # {}  PROVE q \in open
      BY <3>2 DEF SweptInv, Swept, InsertedInv, Live
    <3>3. CASE stage[o] = "deleting"
      <4>1. PICK row \in Pending(o) : Contenders(o, row) # {}
        BY <3>3 DEF CanGoOn
      <4>2. PICK q \in Contenders(o, row) : q \in open
        BY <3>2, <4>1 DEF Contenders
      <4>3. q \in Blockers(o)
        BY <3>3, <4>1, <4>2 DEF Blockers
      <4>4. QED  BY <3>1, <4>2, <4>3
    <3>4. CASE stage[o] = "inserting"
      <4>1. inserted[o] # wanted[o] /\ inserted[o] \subseteq wanted[o]
        BY <3>4 DEF CanGoOn, InsertedInv
      <4>2. PICK t \in wanted[o] \ inserted[o] : InsertContenders(o, t) # {}
        BY <3>4, <4>1 DEF CanGoOn
      <4>3. PICK q \in InsertContenders(o, t) : q \in open
        BY <3>2, <4>2 DEF InsertContenders, TenantsOf
      <4>4. q \in Blockers(o)
        BY <3>4, <4>2, <4>3 DEF Blockers
      <4>5. QED  BY <3>1, <4>3, <4>4
    <3>5. QED  BY <3>1, <3>3, <3>4
  <2>2. c \in open /\ open \in SUBSET Calls
    OBVIOUS
  <2> HIDE DEF open
  <2>3. Deadlocked(c)
    BY <2>1, <2>2 DEF Deadlocked
  <2>4. QED
    BY <2>1, <2>2, <2>3 DEF CanGoOn
<1>2. Init => InsertedInv
  BY DEF Init, InsertedInv
<1>3. SweptInv /\ InsertedInv =>
        ((\E o \in Calls : stage[o] \in Live) => \E o \in Calls : CanGoOn(o))
  BY <1>1
<1>4. SweptInv /\ [Next]_vars => SweptInv'
  BY SweptStep
<1>5. QED
  BY <1>2, <1>3, <1>4, SweptStart, InsertedNext, PTL DEF Spec

-----------------------------------------------------------------------------
(***************************************************************************)
(* Progress.  A DELETE goes through the rows it saw and the INSERTs        *)
(* through the tenants asked for, finitely many; every other step takes a  *)
(* call to a later stage.  With ReplacementsServed: what is left to a fair *)
(* scheduler.                                                              *)
(***************************************************************************)
StagesLeft(s) ==
  CASE s = "idle"      -> 5
    [] s = "reading"   -> 4
    [] s = "starting"  -> 3
    [] s = "deleting"  -> 2
    [] s = "inserting" -> 1
    [] OTHER           -> 0

RowsLeft(o) ==
  CASE stage[o] = "deleting"  -> doomed[o] \ deleted[o]
    [] stage[o] = "inserting" -> wanted[o] \ inserted[o]
    [] OTHER                  -> {}

Moves(o) == (\E tenants \in SUBSET Tenants : Receive(o, tenants)) \/ Step(o) \/ Abort(o)

Stays(o) == stage'[o] = stage[o] /\ RowsLeft(o)' = RowsLeft(o)

\* In a later stage, or in the same with fewer rows to go.
Nearer(o) ==
  \/ StagesLeft(stage'[o]) < StagesLeft(stage[o])
  \/ stage'[o] = stage[o] /\ RowsLeft(o)' \in SUBSET RowsLeft(o) /\ RowsLeft(o)' # RowsLeft(o)

LEMMA RowsLeftFinite == SweptInv => \A o \in Calls : IsFiniteSet(RowsLeft(o))
<1> SUFFICES ASSUME SweptInv, NEW o \in Calls  PROVE IsFiniteSet(RowsLeft(o))
  OBVIOUS
<1>1. IsFiniteSet(Calls \cup {Creation}) /\ IsFiniteSet({})
  BY ScopesAssumption, FS_AddElement, FS_EmptySet
<1>2. IsFiniteSet(Rows)
  BY <1>1, ScopesAssumption, FS_Product DEF Rows
<1>3. RowsLeft(o) \in SUBSET Rows \/ RowsLeft(o) \in SUBSET Tenants
  BY DEF RowsLeft, SweptInv, TypeOK
<1>4. QED
  BY <1>2, <1>3, ScopesAssumption, FS_Subset

LEMMA OthersStay ==
  ASSUME SweptInv, NEW o \in Calls, Moves(o), NEW q \in Calls \ {o}
  PROVE  Stays(q)
<1>1. /\ stage'[q] = stage[q] /\ wanted'[q] = wanted[q]
      /\ doomed'[q] = doomed[q] /\ deleted'[q] = deleted[q] /\ inserted'[q] = inserted[q]
  <2>1. CASE \E tenants \in SUBSET Tenants : Receive(o, tenants)
    BY <2>1 DEF Receive, Advance, SweptInv, TypeOK
  <2>2. CASE Check(o) \/ StartDelete(o) \/ EndDelete(o)
    BY <2>2 DEF Check, StartDelete, EndDelete, Advance, SweptInv, TypeOK
  <2>3. CASE (\E row \in Rows : DeleteRow(o, row)) \/ (\E t \in Tenants : InsertRow(o, t))
    BY <2>3 DEF DeleteRow, InsertRow, SweptInv, TypeOK
  <2>4. CASE \/ Refuse(o) \/ Commit(o) \/ DeadlockVictim(o) \/ Abort(o)
             \/ \E t \in Tenants : InsertRefused(o, t)
    <3>1. \E from, to \in Stages : End(o, from, to)
      BY <2>4 DEF Refuse, Commit, DeadlockVictim, Abort, InsertRefused, Stages, Live
    <3>2. QED
      BY <3>1 DEF End, Advance, SweptInv, TypeOK
  <2>5. QED
    BY <2>1, <2>2, <2>3, <2>4 DEF Moves, Step
<1>2. QED
  BY <1>1 DEF Stays, RowsLeft

LEMMA MoverNears ==
  ASSUME SweptInv, NEW o \in Calls, Moves(o)
  PROVE  Nearer(o)
<1>1. ASSUME NEW from \in Stages, NEW to \in Stages, Advance(o, from, to),
             StagesLeft(to) < StagesLeft(from)
      PROVE  Nearer(o)
  BY <1>1 DEF Nearer, Advance, SweptInv, TypeOK
<1>2. /\ StagesLeft("idle") = 5 /\ StagesLeft("reading") = 4 /\ StagesLeft("starting") = 3
      /\ StagesLeft("deleting") = 2 /\ StagesLeft("inserting") = 1 /\ StagesLeft("refused") = 0
      /\ StagesLeft("failed") = 0 /\ StagesLeft("done") = 0
  BY DEF StagesLeft
<1>3. CASE \/ \E tenants \in SUBSET Tenants : Receive(o, tenants)
           \/ Check(o) \/ StartDelete(o) \/ EndDelete(o)
  <2>1. \/ Advance(o, "idle", "reading") \/ Advance(o, "reading", "starting")
        \/ Advance(o, "starting", "deleting") \/ Advance(o, "deleting", "inserting")
    BY <1>3 DEF Receive, Check, StartDelete, EndDelete
  <2>2. QED
    BY <1>1, <1>2, <2>1 DEF Stages, Live
<1>4. CASE \/ Refuse(o) \/ Commit(o) \/ DeadlockVictim(o) \/ Abort(o)
           \/ \E t \in Tenants : InsertRefused(o, t)
  <2>1. \/ Advance(o, "reading", "refused") \/ Advance(o, "inserting", "done")
        \/ \E from \in Live : Advance(o, from, "failed")
    BY <1>4 DEF Refuse, Commit, DeadlockVictim, Abort, InsertRefused, End, Live
  <2>2. QED
    BY <1>1, <1>2, <2>1 DEF Stages, Live
<1>5. ASSUME NEW row \in Rows, DeleteRow(o, row)
      PROVE  Nearer(o)
  <2>1. /\ stage[o] = "deleting" /\ stage' = stage /\ doomed' = doomed
        /\ row \in doomed[o] \ deleted[o] /\ deleted'[o] = deleted[o] \cup {row}
    BY <1>5 DEF DeleteRow, Pending, SweptInv, TypeOK
  <2>2. RowsLeft(o) = doomed[o] \ deleted[o] /\ RowsLeft(o)' = RowsLeft(o) \ {row}
    BY <2>1 DEF RowsLeft
  <2>3. QED
    BY <2>1, <2>2 DEF Nearer
<1>6. ASSUME NEW t \in Tenants, InsertRow(o, t)
      PROVE  Nearer(o)
  <2>1. /\ stage[o] = "inserting" /\ stage' = stage /\ wanted' = wanted
        /\ t \in wanted[o] \ inserted[o] /\ inserted'[o] = inserted[o] \cup {t}
    BY <1>6 DEF InsertRow, SweptInv, TypeOK
  <2>2. RowsLeft(o) = wanted[o] \ inserted[o] /\ RowsLeft(o)' = RowsLeft(o) \ {t}
    BY <2>1 DEF RowsLeft
  <2>3. QED
    BY <2>1, <2>2 DEF Nearer
<1>7. QED
  BY <1>3, <1>4, <1>5, <1>6 DEF Moves, Step

\* handlers.py:187-206 and repositories.py:91-104 have no retry: every step of a
\* replacement brings it nearer to its end, by a finite measure, and takes no other back.
THEOREM StepsLeadOn ==
  Spec => /\ [](\A o \in Calls : IsFiniteSet(RowsLeft(o)))
          /\ [][\A o \in Calls : (Moves(o) => Nearer(o)) /\ (Nearer(o) \/ Stays(o))]_vars
<1>1. ASSUME SweptInv, [Next]_vars, NEW o \in Calls
      PROVE  (Moves(o) => Nearer(o)) /\ (Nearer(o) \/ Stays(o))
  <2>1. CASE UNCHANGED vars
    <3>1. Stays(o)
      BY <2>1 DEF Stays, RowsLeft, vars
    <3>2. QED
      BY <1>1, <3>1, MoverNears
  <2>2. ASSUME NEW q \in Calls, Moves(q)
        PROVE  (Moves(o) => Nearer(o)) /\ (Nearer(o) \/ Stays(o))
    BY <1>1, <2>2, MoverNears, OthersStay
  <2>3. QED
    BY <1>1, <2>1, <2>2 DEF Next, Moves
<1>2. SweptInv /\ [Next]_vars =>
        [\A o \in Calls : (Moves(o) => Nearer(o)) /\ (Nearer(o) \/ Stays(o))]_vars
  BY <1>1
<1>3. SweptInv /\ [Next]_vars => SweptInv'
  BY SweptStep
<1>4. QED
  BY <1>2, <1>3, RowsLeftFinite, SweptStart, PTL DEF Spec
=============================================================================
