----------------------- MODULE PermissionAdminProofs -----------------------
(***************************************************************************)
(* The permission PUT implements the atomic register of PermissionRegister *)
(* for any number of requests and keys, and its evidence describes the row *)
(* in force.  What makes it so: a transaction that has upserted a key      *)
(* keeps others from it, so the row it is to commit is still the one that  *)
(* follows from the committed one.  PUTs do not all wait, and none goes back. *)
(***************************************************************************)
EXTENDS PermissionAdmin, TLAPS

Commanded == \A p \in Puts : stage[p] # "idle" => command[p] \in Commands

OneOwner ==
  \A p, q \in Puts : p # q /\ stage[p] = "auditing" /\ stage[q] = "auditing" => Key(p) # Key(q)

PendingFollows ==
  \A p \in Puts : stage[p] = "auditing" =>
    pending[p] = UpsertedRow(p) /\ pending[p].updated >= pending[p].created

Read == {"writing", "auditing"}

BeforeIsPast ==
  /\ \A k \in Keys : FingerprintOf(k, rows[k]) \in Register!Once(k)
  /\ \A p \in Puts : stage[p] \in Read => previous[p] \in Register!Once(Key(p))

IInv == TypeOK /\ Commanded /\ OneOwner /\ PendingFollows /\ BeforeIsPast /\ EvidenceDescribesRow

USE DEF Live, Stages, Read

-----------------------------------------------------------------------------
LEMMA FingerprintTyped ==
  ASSUME NEW k \in Keys, NEW row \in Row \cup {NoRow}
  PROVE  FingerprintOf(k, row) \in Register!Fingerprints \cup {NoRow}
  BY DEF FingerprintOf, Row, Register!Row, Register!Fingerprint, Register!Fingerprints

LEMMA UpsertedRowTyped ==
  ASSUME TypeOK, NEW p \in Puts, command[p] \in Commands
  PROVE  /\ UpsertedRow(p) \in Row
         /\ UpsertedRow(p).effect = command[p].effect
         /\ UpsertedRow(p).updated = command[p].now
         /\ rows[Key(p)] # NoRow =>
              /\ UpsertedRow(p).id = rows[Key(p)].id
              /\ UpsertedRow(p).created = rows[Key(p)].created
<1>1. Key(p) \in Keys /\ command[p].effect \in Effects /\ command[p].now \in Times
  BY DEF Commands, Key
<1>2. CASE rows[Key(p)] = NoRow
  BY <1>1, <1>2 DEF UpsertedRow, Row, Register!Row
<1>3. CASE rows[Key(p)] # NoRow
  <2>1. rows[Key(p)] \in Row
    BY <1>1, <1>3 DEF TypeOK
  <2>2. QED  BY <1>1, <1>3, <2>1 DEF UpsertedRow, Row, Register!Row
<1>4. QED  BY <1>2, <1>3

\* A step that leaves the tables alone disturbs what is said of them in no way.
LEMMA TablesKept ==
  ASSUME IInv, rows' = rows, audits' = audits
  PROVE  /\ EvidenceDescribesRow'
         /\ \A k \in Keys : FingerprintOf(k, rows[k])' \in Register!Once(k)'
         /\ \A k : Register!Once(k)' = Register!Once(k)
<1>1. \A k : Register!Once(k)' = Register!Once(k)
  BY DEF Register!Once
<1>2. \A k \in Keys : FingerprintOf(k, rows[k])' = FingerprintOf(k, rows[k])
  BY DEF FingerprintOf, Register!Fingerprint
<1>3. \A k : RecordsOf(k)' = RecordsOf(k)
  BY DEF RecordsOf
<1>4. EvidenceDescribesRow'
  BY <1>2, <1>3 DEF IInv, EvidenceDescribesRow
<1>5. QED  BY <1>1, <1>2, <1>4 DEF IInv, BeforeIsPast

\* A request that ends or goes on before it owns a row.
LEMMA QuietStep ==
  ASSUME IInv, NEW p \in Puts, NEW to \in Stages \ Read,
         stage' = [stage EXCEPT ![p] = to], stage[p] # "idle",
         rows' = rows, audits' = audits, command' = command, clock' = clock,
         previous' \in {previous, [previous EXCEPT ![p] = NoRow]},
         pending' \in {pending, [pending EXCEPT ![p] = NoRow]},
         stage[p] = "auditing" => pending'[p] = NoRow
  PROVE  IInv'
<1>1. TypeOK'
  BY DEF IInv, TypeOK
<1>2. \A q \in Puts : stage'[q] \in Read => q # p /\ stage'[q] = stage[q]
  BY DEF IInv, TypeOK
<1>3. \A q \in Puts : q # p => previous'[q] = previous[q] /\ pending'[q] = pending[q]
  BY DEF IInv, TypeOK
<1>4. Commanded'
  BY DEF IInv, TypeOK, Commanded
<1>5. OneOwner'
  BY <1>2 DEF IInv, OneOwner, Key
<1>6. PendingFollows'
  BY <1>2, <1>3 DEF IInv, PendingFollows, UpsertedRow, Key
<1>7. BeforeIsPast'
  BY <1>2, <1>3, TablesKept DEF IInv, BeforeIsPast, Key
<1>8. QED  BY <1>1, <1>4, <1>5, <1>6, <1>7, TablesKept DEF IInv

-----------------------------------------------------------------------------
LEMMA InitEstablishes == Init => IInv
<1> SUFFICES ASSUME Init PROVE IInv
  OBVIOUS
<1>1. TypeOK
  BY PutsAssumption DEF Init, TypeOK, Times, Records
<1>2. EvidenceDescribesRow
  BY DEF Init, EvidenceDescribesRow, RecordsOf
<1>3. BeforeIsPast
  BY DEF Init, BeforeIsPast, FingerprintOf, Register!Once
<1>4. QED  BY <1>1, <1>2, <1>3 DEF Init, IInv, Commanded, OneOwner, PendingFollows

\* A row on its way to the table is what it was while its PUT waits and nothing
\* else writes.
LEMMA PendingKept ==
  ASSUME PendingFollows, UNCHANGED <<rows, pending>>,
         \A q \in Puts : stage'[q] = "auditing" => stage[q] = "auditing" /\ command'[q] = command[q]
  PROVE  PendingFollows'
<1> SUFFICES ASSUME NEW q \in Puts, stage'[q] = "auditing"
             PROVE  pending'[q] = UpsertedRow(q)' /\ (pending'[q].updated >= pending'[q].created)
  BY DEF PendingFollows
<1>1. pending[q] = UpsertedRow(q) /\ pending[q].updated >= pending[q].created
  BY DEF PendingFollows
<1>2. command'[q] = command[q] /\ rows' = rows /\ pending' = pending
  OBVIOUS
<1>3. Key(q)' = Key(q) /\ rows[Key(q)]' = rows[Key(q)]
  BY <1>2 DEF Key
<1>4. UpsertedRow(q)' = UpsertedRow(q)
  BY <1>2, <1>3 DEF UpsertedRow
<1>5. QED  BY <1>1, <1>2, <1>4

LEMMA TickStep == IInv /\ Tick => IInv'
<1> SUFFICES ASSUME IInv, Tick PROVE IInv'
  OBVIOUS
<1> USE DEF Tick, putVars
<1>1. TypeOK'
  BY PutsAssumption DEF IInv, TypeOK, Times
<1>2. PendingFollows'
  BY DEF IInv, PendingFollows, UpsertedRow, Key
<1>3. BeforeIsPast'
  BY TablesKept DEF IInv, BeforeIsPast, Key
<1>4. QED  BY <1>1, <1>2, <1>3, TablesKept DEF IInv, Commanded, OneOwner, Key

LEMMA ReceiveStep ==
  ASSUME IInv, NEW p \in Puts, NEW k \in Keys, NEW effect \in Effects, Receive(p, k, effect)
  PROVE  IInv'
<1> USE DEF Receive, Advance
<1> DEFINE new == [key |-> k, effect |-> effect, now |-> 0]
<1>1. new \in Commands
  BY PutsAssumption DEF Commands, Times
<1>2. TypeOK'
  BY <1>1 DEF IInv, TypeOK
<1>3. \A q \in Puts : stage'[q] \in Read => q # p /\ stage'[q] = stage[q] /\ command'[q] = command[q]
  BY DEF IInv, TypeOK
<1>4. Commanded'
  BY <1>1 DEF IInv, TypeOK, Commanded
<1>5. OneOwner'
  BY <1>3 DEF IInv, OneOwner, Key
<1>6. PendingFollows'
  BY <1>3, PendingKept DEF IInv
<1>7. BeforeIsPast'
  BY <1>3, TablesKept DEF IInv, BeforeIsPast, Key
<1>8. QED  BY <1>2, <1>4, <1>5, <1>6, <1>7, TablesKept DEF IInv

LEMMA AdmitStep ==
  ASSUME IInv, NEW p \in Puts, Admit(p)
  PROVE  IInv'
<1> USE DEF Admit, Advance
<1>1. command'[p] \in Commands /\ command' = [command EXCEPT ![p] = command'[p]]
  BY DEF IInv, TypeOK, Commanded, Commands
<1>2. TypeOK'
  BY <1>1 DEF IInv, TypeOK
<1>3. \A q \in Puts : stage'[q] \in Read => q # p /\ stage'[q] = stage[q] /\ command'[q] = command[q]
  BY DEF IInv, TypeOK
<1>4. Commanded'
  BY <1>1 DEF IInv, TypeOK, Commanded
<1>5. OneOwner'
  BY <1>3 DEF IInv, OneOwner, Key
<1>6. PendingFollows'
  BY <1>3, PendingKept DEF IInv
<1>7. BeforeIsPast'
  BY <1>3, TablesKept DEF IInv, BeforeIsPast, Key
<1>8. QED  BY <1>2, <1>4, <1>5, <1>6, <1>7, TablesKept DEF IInv

LEMMA ReadPreviousStep ==
  ASSUME IInv, NEW p \in Puts, ReadPrevious(p)
  PROVE  IInv'
<1> USE DEF ReadPrevious, Advance
<1>1. Key(p) \in Keys /\ rows[Key(p)] \in Row \cup {NoRow}
  BY DEF IInv, TypeOK, Commanded, Commands, Key
<1>2. TypeOK'
  BY <1>1, FingerprintTyped DEF IInv, TypeOK
<1>3. \A q \in Puts : q # p => stage'[q] = stage[q] /\ previous'[q] = previous[q]
  BY DEF IInv, TypeOK
<1>4. previous'[p] = FingerprintOf(Key(p), rows[Key(p)]) /\ stage'[p] = "writing"
  BY DEF IInv, TypeOK
<1>5. OneOwner' /\ Commanded' /\ PendingFollows'
  <2>1. \A q : Key(q)' = Key(q) /\ UpsertedRow(q)' = UpsertedRow(q)
    BY DEF Key, UpsertedRow
  <2>2. Commanded' /\ OneOwner'
    BY <1>3, <1>4, <2>1 DEF IInv, Commanded, OneOwner
  <2>3. PendingFollows'
    BY <1>3, <1>4, <2>1 DEF IInv, PendingFollows
  <2>4. QED  BY <2>2, <2>3
<1>6. BeforeIsPast'
  <2>1. \A q \in Puts : stage'[q] \in Read => previous'[q] \in Register!Once(Key(q))
    BY <1>1, <1>3, <1>4 DEF IInv, BeforeIsPast
  <2>2. \A q : Key(q)' = Key(q)
    BY DEF Key
  <2>3. QED  BY <2>1, <2>2, TablesKept DEF BeforeIsPast
<1>7. QED  BY <1>2, <1>5, <1>6, TablesKept DEF IInv

LEMMA UpsertStep ==
  ASSUME IInv, NEW p \in Puts, Upsert(p)
  PROVE  IInv'
<1> USE DEF Upsert, Advance
<1>1. command[p] \in Commands /\ UpsertedRow(p) \in Row
  BY UpsertedRowTyped DEF IInv, TypeOK, Commanded
<1>2. TypeOK'
  BY <1>1, NoRowAssumption DEF IInv, TypeOK
<1>3. \A q \in Puts : q # p => stage'[q] = stage[q] /\ pending'[q] = pending[q]
  BY DEF IInv, TypeOK
<1>4. pending'[p] = UpsertedRow(p) /\ stage'[p] = "auditing" /\ stage[p] = "writing"
  BY DEF IInv, TypeOK
<1>5. \A q : Key(q)' = Key(q) /\ UpsertedRow(q)' = UpsertedRow(q)
  BY DEF Key, UpsertedRow
<1>6. Commanded'
  BY <1>3, <1>4 DEF IInv, Commanded
<1>7. OneOwner'
  BY <1>3, <1>5 DEF IInv, OneOwner, Uncontended
<1>8. PendingFollows'
  BY <1>3, <1>4, <1>5 DEF IInv, PendingFollows
<1>9. BeforeIsPast'
  BY <1>3, <1>4, <1>5, TablesKept DEF IInv, BeforeIsPast
<1>10. QED  BY <1>2, <1>6, <1>7, <1>8, <1>9, TablesKept DEF IInv

LEMMA QuietActions ==
  ASSUME IInv, NEW p \in Puts, Refuse(p) \/ UpsertRejected(p) \/ Abort(p)
  PROVE  IInv'
<1>1. PICK to \in {"refused", "failed"} : stage' = [stage EXCEPT ![p] = to]
  BY DEF Refuse, UpsertRejected, Abort, Advance
<1>2. to \in Stages \ Read
  OBVIOUS
<1>3. stage[p] # "idle"
  BY DEF Refuse, UpsertRejected, Abort, Advance
<1>4. /\ rows' = rows /\ audits' = audits /\ command' = command /\ clock' = clock
      /\ previous' \in {previous, [previous EXCEPT ![p] = NoRow]}
      /\ pending' \in {pending, [pending EXCEPT ![p] = NoRow]}
  BY DEF Refuse, UpsertRejected, Abort
<1>6. stage[p] = "auditing" => pending'[p] = NoRow
  BY DEF IInv, TypeOK, Refuse, UpsertRejected, Abort, Advance
<1>5. QED  BY <1>1, <1>2, <1>3, <1>4, <1>6, QuietStep

-----------------------------------------------------------------------------
\* COMMIT of a row this request owns: the register's Put, and the evidence it appends.
LEMMA CommitFacts ==
  ASSUME IInv, NEW p \in Puts, Commit(p)
  PROVE  /\ Key(p) \in Keys
         /\ stage[p] = "auditing"
         /\ pending[p] \in Row
         /\ pending[p] = UpsertedRow(p)
         /\ Record(p) \in Records
         /\ Record(p).key = Key(p)
         /\ Record(p).resource = pending[p].id
         /\ Record(p).at = pending[p].updated
         /\ Record(p).before = previous[p]
         /\ Record(p).after = FingerprintOf(Key(p), pending[p])
         /\ Record(p).after = Register!Fingerprint(Key(p), pending[p].effect)
<1>1. /\ Key(p) \in Keys /\ stage[p] = "auditing" /\ pending[p] \in Row
      /\ pending[p] = UpsertedRow(p) /\ command[p].now \in Times
  BY UpsertedRowTyped DEF IInv, TypeOK, Commanded, Commands, Commit, Advance, PendingFollows, Key
<1>2. pending[p].updated = command[p].now
  BY <1>1, UpsertedRowTyped DEF IInv, Commanded
<1>3. FingerprintOf(Key(p), pending[p]) = Register!Fingerprint(Key(p), pending[p].effect)
  BY <1>1, NoRowAssumption DEF FingerprintOf
<1>4. pending[p].id \in Puts /\ pending[p].effect \in Effects
  BY <1>1 DEF Row, Register!Row
<1>5. Register!Fingerprint(Key(p), pending[p].effect) \in Register!Fingerprints
  BY <1>1, <1>4 DEF Register!Fingerprint, Register!Fingerprints
<1>6. previous[p] \in Register!Fingerprints \cup {NoRow}
  BY DEF IInv, TypeOK
<1>7. QED  BY <1>1, <1>2, <1>3, <1>4, <1>5, <1>6 DEF Record, Records

LEMMA CommitPuts ==
  ASSUME IInv, NEW p \in Puts, Commit(p)
  PROVE  Register!Put(Key(p), pending[p], previous[p])
<1>1. previous[p] \in Register!Once(Key(p))
  BY CommitFacts DEF IInv, BeforeIsPast
<1>2. pending[p].updated >= pending[p].created
  BY CommitFacts DEF IInv, PendingFollows
<1>3. rows[Key(p)] # NoRow => pending[p].id = rows[Key(p)].id /\ pending[p].created = rows[Key(p)].created
  BY CommitFacts, UpsertedRowTyped DEF IInv, Commanded
<1>4. audits' = Append(audits, [key |-> Key(p), resource |-> pending[p].id, at |-> pending[p].updated,
                                before |-> previous[p],
                                after |-> Register!Fingerprint(Key(p), pending[p].effect)])
  BY CommitFacts DEF Commit, Record
<1>5. rows' = [rows EXCEPT ![Key(p)] = pending[p]]
  BY DEF Commit
<1>6. QED  BY <1>1, <1>2, <1>3, <1>4, <1>5 DEF Register!Put

LEMMA CommitRecords ==
  ASSUME IInv, NEW p \in Puts, Commit(p)
  PROVE  /\ audits' \in Seq(Records)
         /\ Len(audits') = Len(audits) + 1
         /\ \A i \in 1 .. Len(audits) : audits'[i] = audits[i]
         /\ audits'[Len(audits) + 1] = Record(p)
         /\ \A k \in {Key(p)} : RecordsOf(k)' = RecordsOf(k) \cup {Len(audits) + 1}
         /\ \A k \in Keys \ {Key(p)} : RecordsOf(k)' = RecordsOf(k)
<1>1. audits \in Seq(Records) /\ Record(p) \in Records /\ audits' = Append(audits, Record(p))
  BY CommitFacts DEF IInv, TypeOK, Commit
<1>2. /\ audits' \in Seq(Records) /\ Len(audits') = Len(audits) + 1
      /\ \A i \in 1 .. Len(audits) : audits'[i] = audits[i]
      /\ audits'[Len(audits) + 1] = Record(p)
  BY <1>1
<1>3. \A k : RecordsOf(k)' = {i \in 1 .. Len(audits') : audits'[i].key = k}
  BY DEF RecordsOf
<1>4. Len(audits) \in Nat /\ 1 .. Len(audits') = (1 .. Len(audits)) \cup {Len(audits) + 1}
  BY <1>1, <1>2
<1>5. audits'[Len(audits) + 1].key = Key(p)
  BY <1>2, CommitFacts
<1>6. \A k : k = Key(p) => RecordsOf(k)' = RecordsOf(k) \cup {Len(audits) + 1}
  BY <1>2, <1>3, <1>4, <1>5 DEF RecordsOf
<1>7. \A k : k # Key(p) => RecordsOf(k)' = RecordsOf(k)
  BY <1>2, <1>3, <1>4, <1>5 DEF RecordsOf
<1>8. QED  BY <1>2, <1>6, <1>7, CommitFacts

LEMMA CommitStep ==
  ASSUME IInv, NEW p \in Puts, Commit(p)
  PROVE  IInv'
<1>1. Key(p) \in Keys /\ stage[p] = "auditing" /\ pending[p] \in Row
  BY CommitFacts
<1>2. TypeOK'
  BY <1>1, CommitRecords DEF IInv, TypeOK, Commit, Advance
<1>3. \A q \in Puts : q # p =>
        stage'[q] = stage[q] /\ previous'[q] = previous[q] /\ pending'[q] = pending[q]
  BY DEF IInv, TypeOK, Commit, Advance
<1>4. stage'[p] = "done"
  BY DEF IInv, TypeOK, Commit, Advance
<1>5. \A q : Key(q)' = Key(q) /\ command'[q] = command[q]
  BY DEF Commit, Key
<1>6. Commanded' /\ OneOwner'
  BY <1>1, <1>3, <1>4, <1>5 DEF IInv, Commanded, OneOwner
<1>7. \A k \in Keys : k # Key(p) => rows'[k] = rows[k]
  BY DEF Commit, IInv, TypeOK
<1>8. rows'[Key(p)] = pending[p] /\ pending[p] # NoRow
  BY <1>1, NoRowAssumption DEF Commit, IInv, TypeOK
<1>9. PendingFollows'
  <2> SUFFICES ASSUME NEW q \in Puts, stage'[q] = "auditing"
               PROVE  pending'[q] = UpsertedRow(q)' /\ pending'[q].updated >= pending'[q].created
    BY DEF PendingFollows
  <2>1. q # p /\ stage[q] = "auditing" /\ pending'[q] = pending[q]
    BY <1>3, <1>4
  <2>2. Key(q) \in Keys /\ Key(q) # Key(p)
    BY <1>1, <2>1 DEF IInv, OneOwner, Commanded, Commands, Key
  <2>3. rows'[Key(q)] = rows[Key(q)]
    BY <1>7, <2>2
  <2>4. UpsertedRow(q)' = UpsertedRow(q)
    BY <1>5, <2>3 DEF UpsertedRow
  <2>5. QED  BY <2>1, <2>4 DEF IInv, PendingFollows
<1>10. \A k \in Keys : Register!Once(k) \subseteq Register!Once(k)'
  <2>1. \A i \in 1 .. Len(audits) : i \in 1 .. Len(audits') /\ audits'[i] = audits[i]
    BY CommitRecords DEF IInv, TypeOK
  <2>2. QED  BY <2>1 DEF Register!Once
<1>11. BeforeIsPast'
  <2>1. \A k \in Keys : k # Key(p) => FingerprintOf(k, rows[k])' \in Register!Once(k)'
    BY <1>7, <1>10 DEF IInv, BeforeIsPast, FingerprintOf
  <2>2. FingerprintOf(Key(p), pending[p]) \in Register!Once(Key(p))'
    <3>1. Len(audits) + 1 \in {j \in 1 .. Len(audits') : audits'[j].key = Key(p)}
      BY CommitRecords, CommitFacts DEF IInv, TypeOK
    <3>2. audits'[Len(audits) + 1].after = FingerprintOf(Key(p), pending[p])
      BY CommitRecords, CommitFacts
    <3>3. QED  BY <1>5, <3>1, <3>2 DEF Register!Once
  <2>3. FingerprintOf(Key(p), rows'[Key(p)]) \in Register!Once(Key(p))'
    BY <1>8, <2>2
  <2>4. \A k \in Keys : FingerprintOf(k, rows[k])' \in Register!Once(k)'
    BY <1>5, <2>1, <2>3 DEF FingerprintOf
  <2>5. \A q \in Puts : stage'[q] \in Read => previous'[q] \in Register!Once(Key(q))'
    <3>1. \A q \in Puts : stage[q] \in Read => Key(q) \in Keys
      BY DEF IInv, Commanded, Commands, Key
    <3>2. QED  BY <1>3, <1>4, <1>5, <1>10, <3>1 DEF IInv, BeforeIsPast
  <2>6. QED  BY <2>4, <2>5 DEF BeforeIsPast
<1>12. EvidenceDescribesRow'
  <2> SUFFICES ASSUME NEW k \in Keys
               PROVE  IF rows'[k] = NoRow
                      THEN RecordsOf(k)' = {}
                      ELSE /\ \E newest \in RecordsOf(k)' :
                                /\ \A i \in RecordsOf(k)' : i <= newest
                                /\ audits'[newest].after = FingerprintOf(k, rows[k])'
                                /\ audits'[newest].at = rows'[k].updated
                           /\ \A i \in RecordsOf(k)' : audits'[i].resource = rows'[k].id
    BY DEF EvidenceDescribesRow
  <2>1. RecordsOf(k) \subseteq 1 .. Len(audits)
    BY DEF RecordsOf
  <2>2. CASE k # Key(p)
    <3>1. /\ RecordsOf(k)' = RecordsOf(k) /\ rows'[k] = rows[k]
          /\ FingerprintOf(k, rows[k])' = FingerprintOf(k, rows[k])
      BY <1>7, <2>2, CommitRecords DEF FingerprintOf
    <3>2. \A i \in RecordsOf(k) : audits'[i] = audits[i]
      BY <2>1, CommitRecords
    <3>3. QED  BY <3>1, <3>2 DEF IInv, EvidenceDescribesRow
  <2>3. CASE k = Key(p)
    <3> DEFINE last == Len(audits) + 1
    <3>1. RecordsOf(k)' = RecordsOf(k) \cup {last} /\ Len(audits) \in Nat
      BY <2>3, CommitRecords DEF IInv, TypeOK
    <3>2. \A i \in RecordsOf(k)' : i <= last
      BY <2>1, <3>1
    <3>3. /\ audits'[last].after = FingerprintOf(k, pending[p])
          /\ audits'[last].at = pending[p].updated
          /\ audits'[last].resource = pending[p].id
      BY <2>3, CommitFacts, CommitRecords
    <3>4. \A i \in RecordsOf(k) : audits'[i].resource = pending[p].id
      <4>1. CASE rows[k] = NoRow
        BY <4>1 DEF IInv, EvidenceDescribesRow
      <4>2. CASE rows[k] # NoRow
        <5>1. pending[p].id = rows[k].id
          BY <2>3, <4>2, CommitFacts, UpsertedRowTyped DEF IInv, Commanded
        <5>2. \A i \in RecordsOf(k) : audits'[i] = audits[i]
          BY <2>1, CommitRecords
        <5>3. QED  BY <4>2, <5>1, <5>2 DEF IInv, EvidenceDescribesRow
      <4>3. QED  BY <4>1, <4>2
    <3>5. FingerprintOf(k, rows[k])' = FingerprintOf(k, pending[p]) /\ rows'[k] = pending[p]
      BY <1>8, <2>3 DEF FingerprintOf
    <3>6. QED  BY <1>8, <2>3, <3>1, <3>2, <3>3, <3>4, <3>5
  <2>4. QED  BY <2>2, <2>3
<1>13. QED  BY <1>2, <1>6, <1>9, <1>11, <1>12 DEF IInv

LEMMA InvStep == IInv /\ [Next]_vars => IInv'
<1> SUFFICES ASSUME IInv, [Next]_vars PROVE IInv'
  OBVIOUS
<1>1. CASE Tick
  BY <1>1, TickStep
<1>2. ASSUME NEW p \in Puts,
             (\E k \in Keys, effect \in Effects : Receive(p, k, effect)) \/ Step(p) \/ Abort(p)
      PROVE  IInv'
  BY <1>2, ReceiveStep, AdmitStep, ReadPreviousStep, UpsertStep, CommitStep, QuietActions DEF Step
<1>3. CASE UNCHANGED vars
  <2> USE <1>3 DEF vars
  <2>1. TypeOK' /\ Commanded' /\ OneOwner'
    BY DEF IInv, TypeOK, Commanded, OneOwner, Key
  <2>2. PendingFollows'
    BY DEF IInv, PendingFollows, UpsertedRow, Key
  <2>3. BeforeIsPast'
    BY TablesKept DEF IInv, BeforeIsPast, Key
  <2>4. QED  BY <2>1, <2>2, <2>3, TablesKept DEF IInv
<1>4. QED  BY <1>1, <1>2, <1>3 DEF Next

THEOREM Inductive == Spec => []IInv
BY InitEstablishes, InvStep, PTL DEF Spec

\* No transaction ends with an uncommitted row left in its hands.
THEOREM NothingLeftPending == Spec => []TypeOK
<1>1. IInv => TypeOK
  BY DEF IInv
<1>2. QED  BY <1>1, Inductive, PTL

\* ADR-0018:9-13: whatever PUTs of a key overlap, its newest evidence is that of the
\* row in force, and all of its evidence names that row.
THEOREM NewestEvidenceDescribesRow == Spec => []EvidenceDescribesRow
<1>1. IInv => EvidenceDescribesRow
  BY DEF IInv
<1>2. QED  BY <1>1, Inductive, PTL

\* The SELECT, the upsert, the audit INSERT and the COMMIT are one Put of the
\* register, at the COMMIT; every other step leaves the register alone.
LEMMA StepRefines == IInv /\ [Next]_vars => [Register!Next]_<<rows, audits>>
<1> SUFFICES ASSUME IInv, [Next]_vars PROVE [Register!Next]_<<rows, audits>>
  OBVIOUS
<1>1. ASSUME NEW p \in Puts, Commit(p)
      PROVE  Register!Next
  <2>1. Key(p) \in Keys /\ pending[p] \in Register!Row /\ previous[p] \in Register!Once(Key(p))
    BY <1>1, CommitFacts DEF IInv, BeforeIsPast, Row
  <2>2. Register!Put(Key(p), pending[p], previous[p])
    BY <1>1, CommitPuts
  <2>3. QED  BY <2>1, <2>2 DEF Register!Next
<1>2. CASE Tick
  BY <1>2 DEF Tick
<1>3. ASSUME NEW p \in Puts,
             (\E k \in Keys, effect \in Effects : Receive(p, k, effect)) \/ Step(p) \/ Abort(p)
      PROVE  [Register!Next]_<<rows, audits>>
  <2>1. CASE Commit(p)
    BY <2>1, <1>1
  <2>2. CASE ~ Commit(p)
    BY <1>3, <2>2 DEF Receive, Step, Refuse, Admit, ReadPrevious, Upsert, UpsertRejected, Abort
  <2>3. QED  BY <2>1, <2>2
<1>4. CASE UNCHANGED vars
  BY <1>4 DEF vars
<1>5. QED  BY <1>2, <1>3, <1>4 DEF Next

\* docs/architecture/README.md:252: the PUT is atomic and keeps the id and the
\* creation time, for any number of requests, keys and instants.
THEOREM PutsAreAtomic == Spec => ImplementsRegister
<1>1. Init => Register!Init
  BY DEF Init, Register!Init
<1>2. QED  BY <1>1, StepRefines, Inductive, PTL DEF Spec, ImplementsRegister, Register!Spec

-----------------------------------------------------------------------------
\* The guards of Step(p), its upsert's and the rejected one's taken together.
CanGoOn(p) ==
  \/ stage[p] \in {"admitting", "reading", "auditing"}
  \/ stage[p] = "writing" /\ Uncontended(p)

\* repository.py's upsert locks one row and nothing after it: a PUT that waits,
\* waits for one that only has its evidence and COMMIT before it.
THEOREM PutsServed ==
  Spec => []((\E p \in Puts : stage[p] \in Live) => \E p \in Puts : CanGoOn(p))
<1>1. ASSUME NEW p \in Puts, stage[p] \in Live  PROVE \E q \in Puts : CanGoOn(q)
  <2>1. CASE \E q \in Puts : stage[q] = "auditing"
    BY <2>1 DEF CanGoOn
  <2>2. CASE \A q \in Puts : stage[q] # "auditing"
    BY <1>1, <2>2 DEF CanGoOn, Uncontended
  <2>3. QED  BY <2>1, <2>2
<1>2. (\E p \in Puts : stage[p] \in Live) => \E p \in Puts : CanGoOn(p)
  BY <1>1
<1>3. QED  BY <1>2, PTL

-----------------------------------------------------------------------------
(***************************************************************************)
(* Progress.  Together with PutsServed: what is left to a fair scheduler.  *)
(***************************************************************************)
StagesLeft(s) ==
  CASE s = "idle"      -> 5
    [] s = "admitting" -> 4
    [] s = "reading"   -> 3
    [] s = "writing"   -> 2
    [] s = "auditing"  -> 1
    [] OTHER           -> 0

Moves(p) ==
  \/ \E k \in Keys, effect \in Effects : Receive(p, k, effect)
  \/ Step(p) \/ Abort(p)

HandlerStages == {"idle", "admitting", "reading", "writing", "auditing", "refused", "failed",
                  "done"}

\* What a step does takes its request from one stage to a later one.
Later(p) ==
  \E from, to \in HandlerStages : Advance(p, from, to) /\ StagesLeft(to) < StagesLeft(from)

LEMMA MovesLeadOn == \A p \in Puts : Moves(p) => Later(p)
<1> SUFFICES ASSUME NEW p \in Puts, Moves(p)  PROVE Later(p)
  OBVIOUS
<1>1. ASSUME NEW from \in HandlerStages, NEW to \in HandlerStages, Advance(p, from, to),
             StagesLeft(to) < StagesLeft(from)
      PROVE  Later(p)
  BY <1>1 DEF Later
<1>2. /\ StagesLeft("idle") = 5 /\ StagesLeft("admitting") = 4 /\ StagesLeft("reading") = 3
      /\ StagesLeft("writing") = 2 /\ StagesLeft("auditing") = 1 /\ StagesLeft("refused") = 0
      /\ StagesLeft("failed") = 0 /\ StagesLeft("done") = 0
  BY DEF StagesLeft
<1>3. CASE \E k \in Keys, effect \in Effects : Receive(p, k, effect)
  <2>1. Advance(p, "idle", "admitting")
    BY <1>3 DEF Receive
  <2>2. QED
    BY <1>1, <1>2, <2>1 DEF HandlerStages
<1>4. CASE Refuse(p) \/ Admit(p) \/ ReadPrevious(p)
  <2>1. \/ Advance(p, "admitting", "refused") \/ Advance(p, "admitting", "reading")
        \/ Advance(p, "reading", "writing")
    BY <1>4 DEF Refuse, Admit, ReadPrevious
  <2>2. QED
    BY <1>1, <1>2, <2>1 DEF HandlerStages
<1>5. CASE Upsert(p) \/ UpsertRejected(p) \/ Commit(p)
  <2>1. \/ Advance(p, "writing", "auditing") \/ Advance(p, "writing", "failed")
        \/ Advance(p, "auditing", "done")
    BY <1>5 DEF Upsert, UpsertRejected, Commit
  <2>2. QED
    BY <1>1, <1>2, <2>1 DEF HandlerStages
<1>6. CASE Abort(p)
  <2>1. \E from \in {"admitting", "reading", "writing", "auditing"} : Advance(p, from, "failed")
    BY <1>6 DEF Abort, Live, Advance
  <2>2. QED
    BY <1>1, <1>2, <2>1 DEF HandlerStages
<1>7. QED
  BY <1>3, <1>4, <1>5, <1>6 DEF Moves, Step

\* set_permission.py has no loop and no retry: no step leads a PUT back, nor another one.
THEOREM StepsLeadOn ==
  Spec => [][\A p \in Puts :
               /\ Moves(p) => StagesLeft(stage'[p]) < StagesLeft(stage[p])
               /\ StagesLeft(stage'[p]) <= StagesLeft(stage[p])]_vars
<1>1. ASSUME IInv, NEW p \in Puts, Moves(p)
      PROVE  /\ StagesLeft(stage'[p]) < StagesLeft(stage[p])
             /\ \A other \in Puts \ {p} : stage'[other] = stage[other]
  BY <1>1, MovesLeadOn DEF Later, Advance, IInv, TypeOK
<1>2. \A s : StagesLeft(s) \in Nat
  BY DEF StagesLeft
<1>3. ASSUME IInv, [Next]_vars, NEW other \in Puts
      PROVE  StagesLeft(stage'[other]) <= StagesLeft(stage[other])
  <2>1. CASE UNCHANGED stage
    BY <1>2, <2>1
  <2>2. ASSUME NEW p \in Puts, Moves(p)
        PROVE  StagesLeft(stage'[other]) <= StagesLeft(stage[other])
    BY <1>1, <1>2, <1>3, <2>2
  <2>3. QED
    BY <1>3, <2>1, <2>2 DEF Next, Moves, Tick, putVars, vars
<1>4. IInv /\ [Next]_vars =>
        [\A p \in Puts :
           /\ Moves(p) => StagesLeft(stage'[p]) < StagesLeft(stage[p])
           /\ StagesLeft(stage'[p]) <= StagesLeft(stage[p])]_vars
  BY <1>1, <1>3
<1>5. QED
  BY <1>4, Inductive, PTL DEF Spec
=============================================================================
