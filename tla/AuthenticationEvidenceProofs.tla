--------------------- MODULE AuthenticationEvidenceProofs ---------------------
(***************************************************************************)
(* Proofs about AuthenticationEvidence, for all values of its constants:   *)
(* answers leave evidence, evidence has an answer, who was barred before   *)
(* an attempt began is not let in, attempts do not all wait, and their     *)
(* transactions implement AuthenticationLog.                               *)
(***************************************************************************)
EXTENDS AuthenticationEvidence, Integers, FiniteSetTheorems, TLAPS

Judged == {"pruning", "deleting", "inserting", "committing"}

\* What made a credential invalid stays true, and one of the reads finds it.
Barred(a) ==
  LET c == bearer[a].credential
  IN  /\ stage[a] = "reading" =>
           c = Unknown \/ c \in revoked \/ Owner[c] \in disabled \/ ExpiredAt(c, bearer[a].at)
      /\ stage[a] = "judging" =>
           seen[a] \/ Owner[c] \in disabled \/ ExpiredAt(c, bearer[a].at)
      /\ outcome[a] # "succeeded"

\* An attempt at each of its stages.
Phase(a) ==
  /\ stage[a] \notin {"deleting", "inserting", "committing"} => deleted[a] = {}
  /\ stage[a] # "committing" => inserted[a] = {}
  /\ inserted[a] \subseteq {Row(a)}
  /\ \A row \in deleted[a] : row.bucket + Retention < Hour(bearer[a].at)
  /\ stage[a] \in {"idle", "reading", "judging"} => outcome[a] = "none"
  /\ stage[a] = "judging" \/ outcome[a] # "none" => bearer[a].credential \in Credentials
  /\ stage[a] \in Judged => outcome[a] # "none"
  /\ outcome[a] \notin {"none", "credential_mismatch"} => bearer[a].matches
  /\ stage[a] = "accepted" => outcome[a] = "succeeded"
  /\ bearer[a].barred => stage[a] # "idle" /\ Barred(a)

Evidenced(a) ==
  \/ \E row \in evidence : Key(row) = Key(Row(a))
  \/ \E b \in Attempts : Observed(b) /\ Hour(bearer[b].at) > Hour(bearer[a].at) + Retention

\* The key a transaction inserts is nobody else's; one that found its row need
\* not insert it.
TableInv ==
  /\ \A a \in Attempts : inserted[a] # {} =>
       /\ \A row \in evidence : Key(row) # Key(Row(a))
       /\ \A b \in Attempts : inserted[b] # {} /\ Key(Row(b)) = Key(Row(a)) => b = a
  /\ \A a \in Attempts : stage[a] = "committing" /\ inserted[a] = {} => Evidenced(a)

Inv ==
  /\ TypeOK /\ TableInv /\ VerdictsEvidenced /\ EvidenceAttributable
  /\ \A a \in Attempts : Phase(a)

-----------------------------------------------------------------------------
LEMMA HourType == \A at \in Instants : Hour(at) \in Int
BY EvidenceAssumption DEF Instants, Hour

LEMMA RowType ==
  ASSUME TypeOK, NEW a \in Attempts, outcome[a] # "none",
         bearer[a].credential \in Credentials
  PROVE  Row(a) \in Rows
BY DEF TypeOK, Row, Rows, Bearers

LEMMA InitInv == Init => Inv
BY EvidenceAssumption
DEF Init, Inv, TypeOK, TableInv, VerdictsEvidenced, EvidenceAttributable, Phase, Barred,
    NoBearer, Bearers, Instants, Observed, Live, Ended, Judged

\* An attempt that a step leaves alone.
LEMMA OthersPhase ==
  ASSUME NEW b \in Attempts, Phase(b), revoked \subseteq revoked', disabled \subseteq disabled',
         stage'[b] = stage[b], bearer'[b] = bearer[b], seen'[b] = seen[b],
         outcome'[b] = outcome[b], deleted'[b] = deleted[b], inserted'[b] = inserted[b]
  PROVE  Phase(b)'
BY DEF Phase, Barred, Row

\* A step that writes no row to the table nor to a transaction, and answers nobody.
LEMMA QuietTable ==
  ASSUME Inv, evidence' = evidence,
         \A b \in Attempts :
           /\ inserted'[b] # {} => inserted[b] # {} /\ Row(b)' = Row(b)
           /\ stage'[b] = "committing" =>
                /\ stage[b] = "committing" /\ inserted'[b] = inserted[b]
                /\ bearer'[b] = bearer[b] /\ Row(b)' = Row(b)
           /\ Observed(b)' <=> Observed(b)
           /\ Observed(b) => bearer'[b] = bearer[b] /\ Row(b)' = Row(b)
  PROVE  TableInv' /\ VerdictsEvidenced' /\ EvidenceAttributable'
<1>1. ASSUME NEW a \in Attempts, Evidenced(a), bearer'[a] = bearer[a], Row(a)' = Row(a)
      PROVE  Evidenced(a)'
  BY <1>1 DEF Evidenced, Key
<1>2. TableInv'
  <2>1. ASSUME NEW a \in Attempts, inserted'[a] # {}
        PROVE  /\ \A row \in evidence' : Key(row) # Key(Row(a)')
               /\ \A b \in Attempts : inserted'[b] # {} /\ Key(Row(b)') = Key(Row(a)') => b = a
    BY <2>1 DEF Inv, TableInv
  <2>2. ASSUME NEW a \in Attempts, stage'[a] = "committing", inserted'[a] = {}
        PROVE  Evidenced(a)'
    BY <1>1, <2>2 DEF Inv, TableInv
  <2>3. QED
    BY <2>1, <2>2 DEF TableInv, Key
<1>3. VerdictsEvidenced'
  <2>1. \A a \in Attempts : Observed(a) => Evidenced(a)
    BY DEF Inv, VerdictsEvidenced, Evidenced
  <2>2. \A a \in Attempts : Observed(a)' => Evidenced(a)'
    BY <1>1, <2>1
  <2>3. QED
    BY <2>2 DEF VerdictsEvidenced, Evidenced
<1>4. EvidenceAttributable'
  BY DEF Inv, EvidenceAttributable
<1>5. QED
  BY <1>2, <1>3, <1>4

-----------------------------------------------------------------------------
\* The world moves: time, revocations, disablements.
LEMMA WorldInv ==
  ASSUME Inv,
         Tick \/ UNCHANGED vars \/ (\E c \in Credentials : Revoke(c))
              \/ (\E p \in Principals : Disable(p))
  PROVE  Inv'
<1>1. /\ UNCHANGED <<evidence, stage, bearer, seen, outcome, deleted, inserted>>
      /\ revoked \subseteq revoked' /\ disabled \subseteq disabled'
  BY DEF Tick, Revoke, Disable, vars, lifecycle
<1>2. TypeOK'
  BY EvidenceAssumption, <1>1
  DEF Inv, TypeOK, Tick, Revoke, Disable, vars, lifecycle, Instants, Key
<1>3. \A b \in Attempts : Phase(b)'
  BY <1>1, OthersPhase DEF Inv
<1>4. \A b \in Attempts : Row(b)' = Row(b) /\ (Observed(b)' <=> Observed(b))
  BY <1>1 DEF Row, Observed
<1>5. QED
  BY <1>1, <1>2, <1>3, <1>4, QuietTable DEF Inv

\* What a step of one attempt leaves alone.
Only(a) ==
  /\ UNCHANGED <<clock, lifecycle>>
  /\ \A b \in Attempts \ {a} :
       /\ stage'[b] = stage[b] /\ bearer'[b] = bearer[b] /\ seen'[b] = seen[b]
       /\ outcome'[b] = outcome[b] /\ deleted'[b] = deleted[b] /\ inserted'[b] = inserted[b]

LEMMA OnlyPhase ==
  ASSUME Inv, NEW a \in Attempts, Only(a), Phase(a)'
  PROVE  \A b \in Attempts : Phase(b)'
BY OthersPhase DEF Inv, Only, lifecycle

\* The steps of an attempt before it inserts, and its failure.
LEMMA EarlyInv ==
  ASSUME Inv, NEW a \in Attempts, Only(a), TypeOK', Phase(a)', evidence' = evidence,
         inserted'[a] # {} => inserted[a] # {} /\ Row(a)' = Row(a),
         stage'[a] # "committing", ~Observed(a), ~Observed(a)'
  PROVE  Inv'
<1>1. \A b \in Attempts : Phase(b)'
  BY OnlyPhase
<1>2. \A b \in Attempts \ {a} : Row(b)' = Row(b) /\ (Observed(b)' <=> Observed(b))
  BY DEF Only, Row, Observed
<1>3. TableInv' /\ VerdictsEvidenced' /\ EvidenceAttributable'
  BY <1>2, QuietTable DEF Only
<1>4. QED
  BY <1>1, <1>3 DEF Inv

LEMMA PresentInv ==
  ASSUME Inv, NEW a \in Attempts, NEW c \in Credentials \cup {Unknown}, NEW matches \in BOOLEAN,
         Present(a, c, matches)
  PROVE  Inv'
<1> DEFINE new == [credential |-> c, matches |-> matches, at |-> clock,
                   barred |-> c = Unknown \/ c \in revoked \/ Owner[c] \in disabled
                                \/ ExpiredAt(c, clock)]
<1>1. new \in Bearers /\ bearer' = [bearer EXCEPT ![a] = new]
  BY DEF Inv, TypeOK, Present, Bearers
<1>2. TypeOK' /\ Only(a)
  BY <1>1 DEF Inv, TypeOK, Present, Advance, Only, Live, Ended, lifecycle
<1>3. stage[a] = "idle" /\ stage'[a] = "reading" /\ bearer'[a] = new
  BY <1>1 DEF Inv, TypeOK, Present, Advance
<1>4. UNCHANGED <<revoked, disabled, outcome, deleted, inserted, evidence>>
  BY DEF Present, lifecycle
<1>5. /\ outcome'[a] = "none" /\ deleted'[a] = {} /\ inserted'[a] = {}
      /\ new.barred => \/ new.credential = Unknown \/ new.credential \in revoked
                       \/ Owner[new.credential] \in disabled
                       \/ ExpiredAt(new.credential, new.at)
  BY <1>3, <1>4 DEF Inv, Phase
<1> HIDE DEF new
<1>6. Phase(a)'
  BY <1>3, <1>4, <1>5 DEF Phase, Barred, Judged, ExpiredAt
<1>7. QED
  BY <1>2, <1>3, <1>4, <1>5, <1>6, EarlyInv DEF Inv, Phase, Observed, Ended

LEMMA ReadInv ==
  ASSUME Inv, NEW a \in Attempts, RejectUnknown(a) \/ ReadCredential(a)
  PROVE  Inv'
<1>1. Only(a)
  BY DEF Inv, TypeOK, RejectUnknown, ReadCredential, Advance, Only
<1>2. /\ stage[a] = "reading" /\ stage'[a] \in {"rejected", "judging"}
      /\ stage' \in [Attempts -> Live \cup Ended \cup {"idle", "failed"}]
      /\ UNCHANGED <<clock, revoked, disabled, bearer, outcome, deleted, inserted, evidence>>
      /\ seen' \in [Attempts -> BOOLEAN]
      /\ stage'[a] = "judging" =>
           bearer[a].credential # Unknown /\ (seen'[a] <=> bearer[a].credential \in revoked)
  <2>1. CASE RejectUnknown(a)
    BY <2>1 DEF Inv, TypeOK, RejectUnknown, Advance, lifecycle, Live, Ended
  <2>2. CASE ReadCredential(a)
    <3>1. /\ stage[a] = "reading" /\ stage'[a] = "judging" /\ bearer[a].credential # Unknown
          /\ stage' \in [Attempts -> Live \cup Ended \cup {"idle", "failed"}]
          /\ UNCHANGED <<clock, revoked, disabled, bearer, outcome, deleted, inserted, evidence>>
      BY <2>2 DEF Inv, TypeOK, ReadCredential, Advance, lifecycle, Live, Ended
    <3>2. PICK found \in BOOLEAN : found <=> bearer[a].credential \in revoked
      OBVIOUS
    <3>3. seen' = [seen EXCEPT ![a] = found]
      BY <2>2, <3>2, Zenon DEF ReadCredential
    <3>4. seen' \in [Attempts -> BOOLEAN] /\ seen'[a] = found
      BY <3>3 DEF Inv, TypeOK
    <3>5. QED
      BY <3>1, <3>2, <3>4
  <2>3. QED
    BY <2>1, <2>2
<1>3. bearer[a].credential \in Credentials \cup {Unknown}
  BY DEF Inv, TypeOK, Bearers
<1>4. Phase(a)'
  BY <1>2, <1>3 DEF Inv, Phase, Barred, Judged, Row, ExpiredAt
<1>5. deleted[a] = {} /\ inserted[a] = {}
  BY <1>2 DEF Inv, Phase
<1>6. TypeOK'
  BY <1>1, <1>2, <1>5 DEF Inv, TypeOK, Only, Key
<1>7. QED
  BY <1>1, <1>2, <1>4, <1>6, EarlyInv DEF Inv, Phase, Observed, Ended

LEMMA JudgeInv ==
  ASSUME Inv, NEW a \in Attempts, Judge(a)
  PROVE  Inv'
<1>1. /\ stage[a] = "judging" /\ stage'[a] = "pruning" /\ outcome'[a] = Verdict(a)
      /\ UNCHANGED <<revoked, disabled, bearer, seen, deleted, inserted, evidence>>
  BY DEF Inv, TypeOK, Judge, Advance, lifecycle
<1>2. /\ Verdict(a) \in Outcomes
      /\ Verdict(a) # "credential_mismatch" => bearer[a].matches
      /\ bearer[a].barred => Verdict(a) # "succeeded"
  BY <1>1 DEF Inv, TypeOK, Phase, Barred, Verdict, Outcomes
<1>3. TypeOK' /\ Only(a)
  BY <1>2 DEF Inv, TypeOK, Judge, Advance, Only, Live, Ended, lifecycle
<1>4. deleted[a] = {} /\ inserted[a] = {} /\ bearer[a].credential \in Credentials
  BY <1>1 DEF Inv, Phase
<1>5. "none" \notin Outcomes
  BY DEF Outcomes
<1>6. Phase(a)'
  BY <1>1, <1>2, <1>4, <1>5 DEF Phase, Barred, Judged
<1>7. QED
  BY <1>1, <1>3, <1>4, <1>6, EarlyInv DEF Inv, Observed, Ended

LEMMA PruneInv ==
  ASSUME Inv, NEW a \in Attempts, StartPrune(a) \/ Prune(a)
  PROVE  Inv'
<1>1. /\ stage[a] \in {"pruning", "deleting"} /\ stage'[a] \in {"deleting", "inserting"}
      /\ UNCHANGED <<revoked, disabled, bearer, seen, outcome, inserted, evidence>>
  BY DEF Inv, TypeOK, StartPrune, Prune, Advance, lifecycle
<1>2. /\ deleted'[a] \subseteq Rows
      /\ \A row \in deleted'[a] : row.bucket + Retention < Hour(bearer[a].at)
  BY DEF Inv, TypeOK, Phase, StartPrune, Prune, Stale
<1>3. TypeOK' /\ Only(a)
  BY <1>1, <1>2 DEF Inv, TypeOK, StartPrune, Prune, Advance, Only, Live, Ended, lifecycle, Stale
<1>4. Phase(a)'
  BY <1>1, <1>2 DEF Inv, Phase, Barred, Judged, Row
<1>5. QED
  BY <1>1, <1>3, <1>4, EarlyInv DEF Inv, Phase, Observed, Ended

LEMMA AbortInv ==
  ASSUME Inv, NEW a \in Attempts, Abort(a)
  PROVE  Inv'
<1>1. /\ stage[a] \in Live /\ stage'[a] = "failed" /\ deleted'[a] = {} /\ inserted'[a] = {}
      /\ UNCHANGED <<revoked, disabled, bearer, seen, outcome, evidence>>
  BY DEF Inv, TypeOK, Abort, End, lifecycle
<1>2. TypeOK' /\ Only(a)
  BY DEF Inv, TypeOK, Abort, End, Only, Live, Ended, lifecycle
<1>3. Phase(a)'
  BY <1>1 DEF Inv, Phase, Barred, Judged, Live
<1>4. QED
  BY <1>1, <1>2, <1>3, EarlyInv DEF Observed, Ended, Live

-----------------------------------------------------------------------------
\* The key is free: neither the table nor another transaction has it.
LEMMA InsertInv ==
  ASSUME Inv, NEW a \in Attempts, Insert(a)
  PROVE  Inv'
<1>1. /\ stage[a] = "inserting" /\ stage'[a] = "committing"
      /\ UNCHANGED <<clock, revoked, disabled, evidence, bearer, seen, outcome, deleted>>
      /\ inserted'[a] = IF \E row \in evidence : Key(row) = Key(Row(a)) THEN {} ELSE {Row(a)}
  BY DEF Inv, TypeOK, Insert, Advance, lifecycle
<1>2. Only(a) /\ \A b \in Attempts : Row(b)' = Row(b)
  BY DEF Inv, TypeOK, Insert, Advance, Only, Row
<1>3. outcome[a] # "none" /\ bearer[a].credential \in Credentials /\ Row(a) \in Rows
  BY <1>1, RowType DEF Inv, Phase, Judged
<1>4. TypeOK'
  <2>1. inserted'[a] \subseteq Rows
    BY <1>1, <1>3
  <2>2. inserted' \in [Attempts -> SUBSET Rows]
    BY <2>1 DEF Inv, TypeOK, Insert
  <2>3. stage' \in [Attempts -> Live \cup Ended \cup {"idle", "failed"}]
    BY DEF Inv, TypeOK, Insert, Advance, Live
  <2>4. QED
    BY <1>1, <1>2, <2>2, <2>3 DEF Inv, TypeOK, Only, Live, Key
<1>5. Phase(a)'
  BY <1>1, <1>2, <1>3 DEF Inv, Phase, Barred, Judged
<1>6. \A b \in Attempts \ {a} : inserted[b] # {} => Key(Row(b)) # Key(Row(a))
  <2>1. ASSUME NEW b \in Attempts \ {a}, inserted[b] # {}
        PROVE  Row(b) \in inserted[b] /\ stage[b] = "committing"
    BY <2>1 DEF Inv, Phase
  <2>2. QED
    BY <2>1 DEF Insert, KeyFree
<1>7. \A b \in Attempts : Observed(b)' <=> Observed(b)
  BY <1>1, <1>2 DEF Observed, Only, Ended
<1>8. \A b \in Attempts : Evidenced(b) => Evidenced(b)'
  BY <1>1, <1>2, <1>7 DEF Evidenced, Key
<1>9. TableInv'
  <2>1. ASSUME NEW b \in Attempts, inserted'[b] # {}
        PROVE  /\ \A row \in evidence' : Key(row) # Key(Row(b))
               /\ \A c \in Attempts : inserted'[c] # {} /\ Key(Row(c)) = Key(Row(b)) => c = b
    <3>1. CASE b = a
      BY <1>1, <1>2, <1>6, <2>1, <3>1 DEF Only
    <3>2. CASE b # a
      BY <1>1, <1>2, <1>6, <2>1, <3>2 DEF Only, Inv, TableInv
    <3>3. QED
      BY <3>1, <3>2
  <2>2. ASSUME NEW b \in Attempts, stage'[b] = "committing", inserted'[b] = {}
        PROVE  Evidenced(b)'
    <3>1. CASE b = a
      BY <1>1, <1>8, <2>2, <3>1 DEF Evidenced
    <3>2. CASE b # a
      BY <1>2, <1>8, <2>2, <3>2 DEF Only, Inv, TableInv
    <3>3. QED
      BY <3>1, <3>2
  <2>3. QED
    BY <1>2, <2>1, <2>2 DEF TableInv, Key
<1>10. VerdictsEvidenced' /\ EvidenceAttributable'
  <2>1. \A b \in Attempts : Observed(b)' => Evidenced(b)'
    BY <1>7, <1>8 DEF Inv, VerdictsEvidenced, Evidenced
  <2>2. VerdictsEvidenced'
    BY <2>1 DEF VerdictsEvidenced, Evidenced
  <2>3. EvidenceAttributable'
    BY <1>1, <1>2, <1>7 DEF Inv, EvidenceAttributable
  <2>4. QED
    BY <2>2, <2>3
<1>11. QED
  BY <1>2, <1>4, <1>5, <1>9, <1>10, OnlyPhase DEF Inv

\* A commit takes away only rows beyond its own retention, and answers for them.
LEMMA CommitInv ==
  ASSUME Inv, NEW a \in Attempts, Commit(a)
  PROVE  Inv'
<1>1. /\ stage[a] = "committing" /\ deleted'[a] = {} /\ inserted'[a] = {}
      /\ stage'[a] = IF outcome[a] = "succeeded" THEN "accepted" ELSE "rejected"
      /\ UNCHANGED <<clock, revoked, disabled, bearer, seen, outcome>>
      /\ evidence' = (evidence \ deleted[a]) \cup inserted[a]
  BY DEF Inv, TypeOK, Commit, Advance, End, lifecycle
<1>2. Only(a) /\ \A b \in Attempts : Row(b)' = Row(b)
  BY DEF Inv, TypeOK, Commit, Advance, End, Only, Row
<1>3. /\ outcome[a] # "none" /\ inserted[a] \subseteq {Row(a)}
      /\ outcome[a] # "credential_mismatch" => bearer[a].matches
      /\ \A row \in deleted[a] : row.bucket + Retention < Hour(bearer[a].at)
  BY <1>1 DEF Inv, Phase, Judged
<1>4. \A row \in evidence : inserted[a] # {} => Key(row) # Key(Row(a))
  BY DEF Inv, TableInv
<1>5. TypeOK'
  <2>1. evidence' \subseteq Rows
    BY <1>1 DEF Inv, TypeOK
  <2>2. \A row, other \in evidence' : Key(row) = Key(other) => row = other
    BY <1>1, <1>3, <1>4 DEF Inv, TypeOK
  <2>3. /\ deleted' \in [Attempts -> SUBSET Rows] /\ inserted' \in [Attempts -> SUBSET Rows]
        /\ stage' \in [Attempts -> Live \cup Ended \cup {"idle", "failed"}]
    BY DEF Inv, TypeOK, Commit, Advance, End, Ended
  <2>4. QED
    BY <1>1, <1>2, <2>1, <2>2, <2>3 DEF Inv, TypeOK, Only, Key
<1>6. Phase(a)'
  BY <1>1, <1>2 DEF Inv, Phase, Barred, Judged
<1>7. /\ ~Observed(a) /\ Observed(a)'
      /\ \A b \in Attempts \ {a} : Observed(b)' <=> Observed(b)
  BY <1>1, <1>2, <1>3 DEF Observed, Only, Ended
<1>8. ASSUME NEW b \in Attempts, Evidenced(b)
      PROVE  Evidenced(b)'
  <2>1. CASE \E c \in Attempts :
               Observed(c) /\ Hour(bearer[c].at) > Hour(bearer[b].at) + Retention
    BY <1>1, <1>7, <2>1 DEF Evidenced
  <2>2. ASSUME NEW row \in evidence, Key(row) = Key(Row(b))
        PROVE  Evidenced(b)'
    <3>1. CASE row \notin deleted[a]
      BY <1>1, <1>2, <2>2, <3>1 DEF Evidenced, Key
    <3>2. CASE row \in deleted[a]
      <4>1. row.bucket = Hour(bearer[b].at)
        BY <2>2 DEF Key, Row
      <4>2. bearer[a].at \in Instants /\ bearer[b].at \in Instants
        BY DEF Inv, TypeOK, Bearers
      <4>3. Hour(bearer[a].at) > Hour(bearer[b].at) + Retention
        BY <1>3, <3>2, <4>1, <4>2, HourType, EvidenceAssumption
      <4>4. QED
        BY <1>1, <1>7, <4>3 DEF Evidenced
    <3>3. QED
      BY <3>1, <3>2
  <2>3. QED
    BY <1>8, <2>1, <2>2 DEF Evidenced
<1>9. TableInv'
  <2>1. ASSUME NEW b \in Attempts, inserted'[b] # {}
        PROVE  /\ \A row \in evidence' : Key(row) # Key(Row(b))
               /\ \A c \in Attempts : inserted'[c] # {} /\ Key(Row(c)) = Key(Row(b)) => c = b
    <3>1. b # a /\ inserted[b] # {}
      BY <1>1, <1>2, <2>1 DEF Only
    <3>2. \A c \in Attempts : inserted[c] # {} /\ Key(Row(c)) = Key(Row(b)) => c = b
      BY <3>1 DEF Inv, TableInv
    <3>3. \A row \in evidence : Key(row) # Key(Row(b))
      BY <3>1 DEF Inv, TableInv
    <3>4. QED
      BY <1>1, <1>2, <1>3, <3>1, <3>2, <3>3 DEF Only
  <2>2. ASSUME NEW b \in Attempts, stage'[b] = "committing", inserted'[b] = {}
        PROVE  Evidenced(b)'
    <3>1. b # a
      BY <1>1, <2>2
    <3>2. QED
      BY <1>2, <1>8, <2>2, <3>1 DEF Only, Inv, TableInv
  <2>3. QED
    BY <1>2, <2>1, <2>2 DEF TableInv, Key
<1>10. VerdictsEvidenced'
  <2>1. Evidenced(a)'
    <3>1. CASE inserted[a] = {}
      BY <1>1, <1>8, <3>1 DEF Inv, TableInv
    <3>2. CASE inserted[a] # {}
      BY <1>1, <1>2, <1>3, <3>2 DEF Evidenced, Key
    <3>3. QED
      BY <3>1, <3>2
  <2>2. \A b \in Attempts : Observed(b)' => Evidenced(b)'
    BY <1>7, <1>8, <2>1 DEF Inv, VerdictsEvidenced, Evidenced
  <2>3. QED
    BY <2>2 DEF VerdictsEvidenced, Evidenced
<1>11. EvidenceAttributable'
  <2>1. \A row \in evidence : \E b \in Attempts \ {a} :
          /\ Observed(b) /\ Row(b) = row
          /\ row.outcome # "credential_mismatch" => bearer[b].matches
    BY <1>7 DEF Inv, EvidenceAttributable
  <2>2. Row(a).outcome = outcome[a]
    BY DEF Row
  <2>3. QED
    BY <1>1, <1>2, <1>3, <1>7, <2>1, <2>2 DEF EvidenceAttributable
<1>12. QED
  BY <1>2, <1>5, <1>6, <1>9, <1>10, <1>11, OnlyPhase DEF Inv

-----------------------------------------------------------------------------
LEMMA NextInv == Inv /\ [Next]_vars => Inv'
BY WorldInv, PresentInv, ReadInv, JudgeInv, PruneInv, InsertInv, CommitInv, AbortInv
DEF Next, Step

LEMMA Inductive == Spec => []Inv
BY InitInv, NextInv, PTL DEF Spec

\* Every reachable state is well typed: a key has one row, whatever inserts race.
THEOREM TypeCorrect == Spec => []TypeOK
<1>1. Inv => TypeOK
  BY DEF Inv
<1>2. QED
  BY <1>1, Inductive, PTL

\* Nobody is answered without evidence, except for what a much later attempt pruned.
THEOREM AnswersAreEvidenced == Spec => []VerdictsEvidenced
<1>1. Inv => VerdictsEvidenced
  BY DEF Inv
<1>2. QED
  BY <1>1, Inductive, PTL

\* No evidence stands without the answer it is of.
THEOREM EvidenceHasItsAnswer == Spec => []EvidenceAttributable
<1>1. Inv => EvidenceAttributable
  BY DEF Inv
<1>2. QED
  BY <1>1, Inductive, PTL

\* Whoever was barred before the attempt began is not let in.
THEOREM BarredAreRefused == Spec => []BarredStayOut
<1>1. Inv => BarredStayOut
  BY DEF Inv, Phase, Barred, BarredStayOut
<1>2. QED
  BY <1>1, Inductive, PTL

-----------------------------------------------------------------------------
(***************************************************************************)
(* Waiting.  A DELETE waits for transactions past theirs, an INSERT for a  *)
(* commit or for a transaction that has deleted its key.  That one is of a *)
(* later hour, so waits do not close to a circle.                          *)
(***************************************************************************)
CanGoOn(a) ==
  \/ stage[a] \in {"reading", "judging", "pruning", "committing"}
  \/ stage[a] = "deleting" /\ Contenders(a) = {}
  \/ stage[a] = "inserting" /\ KeyFree(a)

LEMMA GreatestExists ==
  ASSUME NEW S \in SUBSET Nat, NEW bound \in Nat, \A x \in S : x <= bound, S # {}
  PROVE  \E x \in S : \A y \in S : y <= x
<1> SUFFICES ASSUME \A x \in S : \E y \in S : x < y  PROVE FALSE
  OBVIOUS
<1> DEFINE n        == Cardinality(S)
           Above(x) == {y \in S : x < y}
           f        == [x \in S |-> Cardinality(Above(x))]
<1>1. IsFiniteSet(S) /\ n \in Nat
  BY FS_BoundedSetOfNaturals, FS_CardinalityType
<1>2. ASSUME NEW x \in S
      PROVE  IsFiniteSet(Above(x)) /\ f[x] \in 1 .. n - 1
  <2>1. Above(x) \in SUBSET S /\ x \notin Above(x) /\ Above(x) # {}
    OBVIOUS
  <2>2. IsFiniteSet(Above(x)) /\ Cardinality(Above(x)) <= n /\ Cardinality(Above(x)) # n
    BY <1>1, <2>1, FS_Subset
  <2>3. Cardinality(Above(x)) \in Nat /\ Cardinality(Above(x)) # 0
    BY <2>1, <2>2, FS_CardinalityType, FS_EmptySet
  <2>4. f[x] = Cardinality(Above(x))
    OBVIOUS
  <2> HIDE DEF n, Above, f
  <2>5. QED
    BY <1>1, <2>2, <2>3, <2>4
<1>3. ASSUME NEW x \in S, NEW y \in S, x < y  PROVE f[x] # f[y]
  <2>1. x \in Nat /\ y \in Nat /\ x < y
    BY <1>3
  <2>2. \A z \in S : y < z => x < z
    BY <2>1
  <2>3. Above(y) \in SUBSET Above(x)
    BY <2>2
  <2>4. y \in Above(x) /\ y \notin Above(y)
    BY <2>1
  <2>5. Cardinality(Above(y)) # Cardinality(Above(x))
    BY <1>2, <2>3, <2>4, FS_Subset
  <2>6. QED
    BY <2>5
<1>4. f \in [S -> 1 .. n - 1]
  <2>1. \A x \in S : f[x] \in 1 .. n - 1
    BY <1>2
  <2> HIDE DEF n, Above
  <2>2. QED
    BY <2>1
<1>5. n # 0
  BY <1>1, FS_EmptySet
<1> HIDE DEF n, f
<1>6. IsFiniteSet(1 .. n - 1) /\ Cardinality(1 .. n - 1) < n
  BY <1>1, <1>5, FS_Interval
<1>7. \E x, y \in S : x # y /\ f[x] = f[y]
  BY <1>1, <1>4, <1>6, FS_PigeonHole DEF n
<1>8. QED
  BY <1>3, <1>7

LEMMA HourBounded == \A at \in Instants : Hour(at) \in Nat /\ Hour(at) <= MaxClock
<1> SUFFICES ASSUME NEW at \in Instants  PROVE Hour(at) \in Nat /\ Hour(at) <= MaxClock
  OBVIOUS
<1>1. at \in Nat /\ at <= MaxClock /\ TicksPerHour \in Nat \ {0} /\ MaxClock \in Nat
  BY EvidenceAssumption DEF Instants
<1>2. at \div TicksPerHour \in Nat /\ at \div TicksPerHour <= at
  BY <1>1
<1>3. QED
  BY <1>1, <1>2 DEF Hour

\* authentication.py:99-116 and repositories.py:26-46: a DELETE and an INSERT in one
\* transaction lock rows of several hours, yet among any number of attempts that
\* record their outcome one can always go on, and none needs to be cancelled.
THEOREM AttemptsServed ==
  Spec => []((\E a \in Attempts : stage[a] \in Live) => \E a \in Attempts : CanGoOn(a))
<1>1. ASSUME Inv, NEW c \in Attempts, stage[c] \in Live, \A a \in Attempts : ~CanGoOn(a)
      PROVE  FALSE
  <2> DEFINE Waiting == {a \in Attempts : stage[a] = "inserting"}
             Hours   == {Hour(bearer[a].at) : a \in Waiting}
  <2> USE <1>1
  <2>1. \A a \in Attempts : stage[a] # "committing"
    BY DEF CanGoOn
  <2>2. Waiting # {}
    <3>1. stage[c] \in {"deleting", "inserting"}
      BY DEF CanGoOn, Live
    <3>2. CASE stage[c] = "deleting"
      <4>1. PICK b \in Contenders(c) : TRUE
        BY <3>2 DEF CanGoOn
      <4>2. b \in Attempts /\ stage[b] = "inserting"
        BY <2>1 DEF Contenders
      <4>3. QED  BY <4>2
    <3>3. QED  BY <3>1, <3>2
  <2>3. ASSUME NEW a \in Waiting
        PROVE  \E b \in Waiting : Hour(bearer[a].at) < Hour(bearer[b].at)
    <3>1. ~KeyFree(a)
      BY DEF CanGoOn
    <3>2. PICK b \in Attempts : /\ stage[b] = "inserting"
                                /\ \E r \in deleted[b] \cup inserted[b] : Key(r) = Key(Row(a))
      BY <2>1, <3>1 DEF KeyFree
    <3>3. PICK row \in deleted[b] \cup inserted[b] : Key(row) = Key(Row(a))
      BY <3>2
    <3>4. row \in deleted[b] /\ row.bucket + Retention < Hour(bearer[b].at)
      BY <3>2, <3>3 DEF Inv, Phase
    <3>5. row.bucket = Hour(bearer[a].at)
      BY <3>3 DEF Key, Row
    <3>6. bearer[a].at \in Instants /\ bearer[b].at \in Instants
      BY DEF Inv, TypeOK, Bearers
    <3>7. Hour(bearer[a].at) \in Nat /\ Hour(bearer[b].at) \in Nat /\ Retention \in Nat
      BY <3>6, HourBounded, EvidenceAssumption
    <3>8. QED
      BY <3>2, <3>4, <3>5, <3>7
  <2>4. Hours \in SUBSET Nat /\ Hours # {} /\ \A h \in Hours : h <= MaxClock
    BY <2>2, HourBounded DEF Inv, TypeOK, Bearers
  <2>5. PICK h \in Hours : \A other \in Hours : other <= h
    <3> HIDE DEF Hours
    <3>1. QED  BY <2>4, GreatestExists, EvidenceAssumption
  <2>6. PICK a \in Waiting : h = Hour(bearer[a].at)
    OBVIOUS
  <2>7. PICK b \in Waiting : Hour(bearer[a].at) < Hour(bearer[b].at)
    BY <2>3
  <2>8. Hour(bearer[b].at) \in Hours
    OBVIOUS
  <2>9. Hour(bearer[b].at) \in Nat /\ h \in Nat
    BY <2>4, <2>8
  <2> HIDE DEF Hours, Waiting
  <2>10. QED
    BY <2>5, <2>6, <2>7, <2>8, <2>9
<1>2. Inv => ((\E a \in Attempts : stage[a] \in Live) => \E a \in Attempts : CanGoOn(a))
  BY <1>1
<1>3. QED
  BY <1>2, Inductive, PTL

-----------------------------------------------------------------------------
(***************************************************************************)
(* The log.  The COMMIT of an attempt is one step of AuthenticationLog,    *)
(* every other step leaves the evidence and the answers as they are.       *)
(***************************************************************************)
Given    == {[attempt |-> a, row |-> Row(a)] : a \in {b \in Attempts : Observed(b)}}
Accepted == {a \in Attempts : stage[a] = "accepted"}

LEMMA Unanswered ==
  ASSUME evidence' = evidence,
         \A b \in Attempts :
           /\ Observed(b)' <=> Observed(b)
           /\ Observed(b) => Row(b)' = Row(b)
           /\ stage'[b] = "accepted" <=> stage[b] = "accepted"
  PROVE  UNCHANGED <<evidence, Given, Accepted>>
BY DEF Given, Accepted

LEMMA WorldUnlogged ==
  ASSUME Tick \/ UNCHANGED vars \/ (\E c \in Credentials : Revoke(c))
              \/ (\E p \in Principals : Disable(p))
  PROVE  UNCHANGED <<evidence, Given, Accepted>>
<1>1. UNCHANGED <<evidence, stage, bearer, outcome>>
  BY DEF Tick, Revoke, Disable, vars, lifecycle
<1>2. QED
  BY <1>1, Unanswered DEF Observed, Row

\* Before its commit an attempt has no answer; one that fails or is unknown gets none.
LEMMA AttemptUnlogged ==
  ASSUME Inv, NEW a \in Attempts,
         \/ \E c \in Credentials \cup {Unknown}, matches \in BOOLEAN : Present(a, c, matches)
         \/ RejectUnknown(a) \/ ReadCredential(a) \/ Judge(a)
         \/ StartPrune(a) \/ Prune(a) \/ Insert(a) \/ Abort(a)
  PROVE  UNCHANGED <<evidence, Given, Accepted>>
<1>1. /\ evidence' = evidence
      /\ stage[a] \in Live \cup {"idle"} /\ stage'[a] \in Live \cup {"rejected", "failed"}
      /\ stage'[a] = "rejected" => stage[a] = "reading" /\ outcome' = outcome
      /\ \A b \in Attempts \ {a} :
           stage'[b] = stage[b] /\ bearer'[b] = bearer[b] /\ outcome'[b] = outcome[b]
  BY DEF Inv, TypeOK, Present, RejectUnknown, ReadCredential, Judge, StartPrune, Prune, Insert,
         Abort, Advance, End, Live
<1>2. ~Observed(a) /\ ~Observed(a)' /\ stage[a] # "accepted" /\ stage'[a] # "accepted"
  BY <1>1 DEF Inv, Phase, Observed, Live, Ended
<1>3. QED
  BY <1>1, <1>2, Unanswered DEF Observed, Row

LEMMA CommitLogs ==
  ASSUME Inv, Inv', NEW a \in Attempts, Commit(a)
  PROVE  Log!Next
<1>0. PICK row : row = Row(a)
  OBVIOUS
<1>1. /\ stage[a] = "committing"
      /\ stage' = [stage EXCEPT ![a] = IF outcome[a] = "succeeded" THEN "accepted" ELSE "rejected"]
      /\ UNCHANGED <<bearer, outcome>>
      /\ evidence' = (evidence \ deleted[a]) \cup inserted[a]
      /\ stage \in [Attempts -> Live \cup Ended \cup {"idle", "failed"}]
  BY DEF Inv, TypeOK, Commit, Advance, End
<1>2. /\ outcome[a] # "none" /\ row \in Rows /\ inserted[a] \subseteq {row}
      /\ \A old \in deleted[a] : old.bucket + Retention < row.bucket
  BY <1>0, <1>1, RowType DEF Inv, Phase, Judged, Row
<1>3. ~Observed(a) /\ Observed(a)' /\ \A b \in Attempts \ {a} : Observed(b)' <=> Observed(b)
  BY <1>1, <1>2 DEF Observed, Ended
<1>4. \A b \in Attempts : Row(b)' = Row(b)
  BY <1>1 DEF Row
<1>5. Given' = Given \cup {[attempt |-> a, row |-> row]}
  BY <1>0, <1>3, <1>4 DEF Given
<1>6. Accepted' = Accepted \cup (IF row.outcome = "succeeded" THEN {a} ELSE {})
  BY <1>0, <1>1 DEF Accepted, Row
<1>7. \A given \in Given : given.attempt # a
  BY <1>3 DEF Given
<1>8. /\ evidence' \subseteq evidence \cup {row}
      /\ \A old \in evidence \ evidence' : Log!Outdated(old, row)
  BY <1>1, <1>2 DEF Log!Outdated
<1>9. row \in evidence' \ evidence => \A old \in evidence : Log!Key(old) # Log!Key(row)
  BY <1>0, <1>1 DEF Inv, TableInv, Key, Log!Key
<1>10. \/ \E new \in evidence' : Log!Key(new) = Log!Key(row)
       \/ \E given \in Given : Log!Outdated(row, given.row)
  <2>1. \/ \E new \in evidence' : Key(new) = Key(row)
        \/ \E b \in Attempts : Observed(b)' /\ Hour(bearer[b].at) > Hour(bearer[a].at) + Retention
    BY <1>0, <1>1, <1>3, <1>4 DEF Inv, VerdictsEvidenced, Key
  <2>2. ASSUME NEW b \in Attempts, Observed(b)', Hour(bearer[b].at) > Hour(bearer[a].at) + Retention
        PROVE  \E given \in Given : Log!Outdated(row, given.row)
    <3>1. bearer[a].at \in Instants /\ bearer[b].at \in Instants /\ Retention \in Nat
      BY EvidenceAssumption DEF Inv, TypeOK, Bearers
    <3>2. Hour(bearer[a].at) \in Nat /\ Hour(bearer[b].at) \in Nat
      BY <3>1, HourBounded
    <3>3. b # a /\ Hour(bearer[a].at) + Retention < Hour(bearer[b].at)
      BY <2>2, <3>1, <3>2
    <3>4. [attempt |-> b, row |-> Row(b)] \in Given
      BY <1>3, <2>2, <3>3 DEF Given
    <3>5. Log!Outdated(row, Row(b))
      BY <1>0, <3>3 DEF Row, Log!Outdated
    <3>6. QED
      BY <3>4, <3>5
  <2>3. QED
    BY <2>1, <2>2 DEF Key, Log!Key
<1>11. Log!Answer(a, row)
  BY <1>5, <1>6, <1>7, <1>8, <1>9, <1>10 DEF Given, Accepted, Log!Answer
<1>12. [attempt |-> a, row |-> row] \in Given' \ Given
  BY <1>5, <1>7
<1>13. \E given \in Given' \ Given :
         /\ given.attempt \in Attempts /\ given.row \in Rows
         /\ Log!Answer(given.attempt, given.row)
  <2>1. PICK given : given = [attempt |-> a, row |-> row]
    OBVIOUS
  <2>2. given \in Given' \ Given
    BY <1>12, <2>1
  <2>3. given.attempt \in Attempts /\ given.row \in Rows
    BY <1>2, <2>1
  <2>4. Log!Answer(given.attempt, given.row)
    BY <1>11, <2>1
  <2>5. QED
    BY <2>2, <2>3, <2>4
<1>14. QED
  BY <1>13 DEF Given, Log!Next

\* authentication.py:99-116 and repositories.py:26-46: the statements of an attempt are
\* one step of the log, for any number of attempts, credentials and hours.
THEOREM AttemptsAreLogged == Spec => ImplementsLog
<1>1. Init => Log!Init
  BY DEF Init, Log!Init, Observed, Ended
<1>2. Inv /\ Inv' /\ [Next]_vars => [Log!Next]_<<evidence, Given, Accepted>>
  BY WorldUnlogged, AttemptUnlogged, CommitLogs DEF Next, Step
<1>3. QED
  BY <1>1, <1>2, Inductive, PTL DEF Spec, ImplementsLog, Log!Spec, Given, Accepted

-----------------------------------------------------------------------------
(***************************************************************************)
(* Progress.  Together with AttemptsServed: what is left to a fair scheduler.*)
(***************************************************************************)
StagesLeft(s) ==
  CASE s = "idle"       -> 7
    [] s = "reading"    -> 6
    [] s = "judging"    -> 5
    [] s = "pruning"    -> 4
    [] s = "deleting"   -> 3
    [] s = "inserting"  -> 2
    [] s = "committing" -> 1
    [] OTHER            -> 0

Moves(a) ==
  \/ \E c \in Credentials \cup {Unknown}, matches \in BOOLEAN : Present(a, c, matches)
  \/ Step(a) \/ Abort(a)

HandlerStages == {"idle", "reading", "judging", "pruning", "deleting", "inserting", "committing",
                  "accepted", "rejected", "failed"}

\* What a step does takes its request from one stage to a later one.
Later(a) ==
  \E from, to \in HandlerStages : Advance(a, from, to) /\ StagesLeft(to) < StagesLeft(from)

LEMMA MovesLeadOn == \A a \in Attempts : Moves(a) => Later(a)
<1> SUFFICES ASSUME NEW a \in Attempts, Moves(a)  PROVE Later(a)
  OBVIOUS
<1>1. ASSUME NEW from \in HandlerStages, NEW to \in HandlerStages, Advance(a, from, to),
             StagesLeft(to) < StagesLeft(from)
      PROVE  Later(a)
  BY <1>1 DEF Later
<1>2. /\ StagesLeft("idle") = 7 /\ StagesLeft("reading") = 6 /\ StagesLeft("judging") = 5
      /\ StagesLeft("pruning") = 4 /\ StagesLeft("deleting") = 3 /\ StagesLeft("inserting") = 2
      /\ StagesLeft("committing") = 1 /\ StagesLeft("accepted") = 0 /\ StagesLeft("rejected") = 0
      /\ StagesLeft("failed") = 0
  BY DEF StagesLeft
<1>3. CASE \E c \in Credentials \cup {Unknown}, matches \in BOOLEAN : Present(a, c, matches)
  <2>1. Advance(a, "idle", "reading")
    BY <1>3 DEF Present
  <2>2. QED
    BY <1>1, <1>2, <2>1 DEF HandlerStages
<1>4. CASE RejectUnknown(a) \/ ReadCredential(a) \/ Judge(a)
  <2>1. \/ Advance(a, "reading", "rejected") \/ Advance(a, "reading", "judging")
        \/ Advance(a, "judging", "pruning")
    BY <1>4 DEF RejectUnknown, ReadCredential, Judge
  <2>2. QED
    BY <1>1, <1>2, <2>1 DEF HandlerStages
<1>5. CASE StartPrune(a) \/ Prune(a) \/ Insert(a)
  <2>1. \/ Advance(a, "pruning", "deleting") \/ Advance(a, "deleting", "inserting")
        \/ Advance(a, "inserting", "committing")
    BY <1>5 DEF StartPrune, Prune, Insert
  <2>2. QED
    BY <1>1, <1>2, <2>1 DEF HandlerStages
<1>6. CASE Commit(a)
  <2>1. \/ Advance(a, "committing", "accepted") \/ Advance(a, "committing", "rejected")
    BY <1>6 DEF Commit, Advance
  <2>2. QED
    BY <1>1, <1>2, <2>1 DEF HandlerStages
<1>7. CASE Abort(a)
  <2>1. \E from \in Live : Advance(a, from, "failed")
    BY <1>7 DEF Abort, Advance
  <2>2. QED
    BY <1>1, <1>2, <2>1 DEF HandlerStages, Live
<1>8. QED
  BY <1>3, <1>4, <1>5, <1>6, <1>7 DEF Moves, Step

\* authentication.py has no loop and no retry: no step leads an attempt back, nor another one.
THEOREM StepsLeadOn ==
  Spec => [][\A a \in Attempts :
               /\ Moves(a) => StagesLeft(stage'[a]) < StagesLeft(stage[a])
               /\ StagesLeft(stage'[a]) <= StagesLeft(stage[a])]_vars
<1>1. ASSUME Inv, NEW a \in Attempts, Moves(a)
      PROVE  /\ StagesLeft(stage'[a]) < StagesLeft(stage[a])
             /\ \A other \in Attempts \ {a} : stage'[other] = stage[other]
  BY <1>1, MovesLeadOn DEF Later, Advance, Inv, TypeOK
<1>2. \A s : StagesLeft(s) \in Nat
  BY DEF StagesLeft
<1>3. ASSUME Inv, [Next]_vars, NEW other \in Attempts
      PROVE  StagesLeft(stage'[other]) <= StagesLeft(stage[other])
  <2>1. CASE UNCHANGED stage
    BY <1>2, <2>1
  <2>2. ASSUME NEW a \in Attempts, Moves(a)
        PROVE  StagesLeft(stage'[other]) <= StagesLeft(stage[other])
    BY <1>1, <1>2, <1>3, <2>2
  <2>3. QED
    BY <1>3, <2>1, <2>2 DEF Next, Moves, Tick, Revoke, Disable, vars
<1>4. Inv /\ [Next]_vars =>
        [\A a \in Attempts :
           /\ Moves(a) => StagesLeft(stage'[a]) < StagesLeft(stage[a])
           /\ StagesLeft(stage'[a]) <= StagesLeft(stage[a])]_vars
  BY <1>1, <1>3
<1>5. QED
  BY <1>4, Inductive, PTL DEF Spec
=============================================================================
