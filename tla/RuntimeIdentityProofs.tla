------------------------- MODULE RuntimeIdentityProofs -------------------------
(***************************************************************************)
(* Proofs about RuntimeIdentity, for all values of its constants: what a   *)
(* binding has checked under its two locks still holds when it writes, so  *)
(* that a bound principal is the one its static configuration names.       *)
(***************************************************************************)
EXTENDS RuntimeIdentity, SequenceTheorems, FiniteSetTheorems, TLAPS

\* The part of TypeOK that speaks of one variable at a time.
Shape ==
  /\ clock \in Times
  /\ principals \in [Ids -> Principals \cup {None}]
  /\ credentials \in [Ids -> Credentials \cup {None}]
  /\ audits \in Seq(Records)
  /\ stage \in [Operations -> Live \cup {"idle", "refused", "failed", "done"}]
  /\ command \in [Operations -> Commands]
  /\ seen \in [Operations -> Principals \cup {None}]

\* What a request names: rows that existed, and no row is ever deleted, or the
\* call's own id, which no other call uses.
WellFormed(o, m) ==
  /\ m.kind \in Kinds
  /\ m.principal \in Ids /\ (Exists(m.principal) \/ m.principal = o)
  /\ m.kind = "create" =>
       m.binding \in Bindings /\ m.limits \in Limits /\ m.expires \in Expiries
  /\ m.kind = "issue" => m.expires \in Expiries
  /\ m.kind = "revoke" => m.credential \in Ids
  /\ m.kind = "limits" => m.limits \in Limits
  /\ m.kind = "bind" => m.legacy \in LegacyIds

\* A binding that may write: BindPermitted, as far as it is about what can be
\* compared with the table.
Cleared(o) ==
  LET l == command[o].legacy
  IN  /\ Active(seen[o]) /\ seen[o].legacy = None
      /\ ~Claimed(l)
      /\ l \in DOMAIN Static
      /\ Static[l].binding = seen[o].binding /\ Static[l].limits = seen[o].limits
      /\ HistoryAgrees(command[o].principal, l, seen[o].binding)

Call(o) ==
  /\ stage[o] \in Live => WellFormed(o, command[o])
  /\ stage[o] \in {"claiming", "locked"} => command[o].kind = "bind"
  /\ stage[o] = "writing" =>
       /\ command[o].kind = "revoke" => credentials[command[o].credential] # None
       /\ command[o].kind \in {"disable", "limits"} =>
            Exists(command[o].principal) /\ seen[o] \in Principals
  /\ stage[o] # "done" /\ o \in Operations => principals[o] = None /\ credentials[o] = None
  /\ Binding(o, {"locked", "writing"}) => principals[command[o].principal] = seen[o]
  /\ Binding(o, {"writing"}) => Cleared(o)

\* The two locks exclude.
Apart(o, q) ==
  /\ Binding(o, {"claiming", "locked", "writing"}) /\ Binding(q, {"claiming", "locked", "writing"})
       => command[o].legacy # command[q].legacy
  /\ Binding(o, {"locked", "writing"}) /\ Binding(q, {"locked", "writing"})
       => command[o].principal # command[q].principal

Locks == \A o \in Operations, q \in Operations : o # q => Apart(o, q)

IInv == Shape /\ (\A o \in Operations : Call(o)) /\ Locks /\ ContinuityFaithful

-----------------------------------------------------------------------------
LEMMA NoCommandType == NoCommand \in Commands /\ NoCommand.kind = None
BY ProvisioningAssumption DEF NoCommand, Commands, Times

LEMMA InitInv == Init => IInv
<1> SUFFICES ASSUME Init PROVE IInv
  OBVIOUS
<1>1. Shape
  <2>1. ASSUME NEW p \in DOMAIN Provisioned
        PROVE  /\ [binding |-> Provisioned[p], limits |-> None, legacy |-> None,
                   disabled |-> FALSE] \in Principals
               /\ [owner |-> p, expires |-> Never, revoked |-> FALSE] \in Credentials
    BY ProvisioningAssumption DEF Principals, Credentials, Ids
  <2>2. principals \in [Ids -> Principals \cup {None}]
    BY <2>1 DEF Init
  <2>3. credentials \in [Ids -> Credentials \cup {None}]
    BY <2>1 DEF Init
  <2>4. QED
    BY <2>2, <2>3, NoCommandType, ProvisioningAssumption DEF Init, Shape, Times, Live
<1>2. \A p \in Ids : Exists(p) => principals[p].legacy = None
  BY DEF Init, Exists
<1>3. ContinuityFaithful
  BY <1>2 DEF ContinuityFaithful
<1>4. \A o \in Operations : stage[o] = "idle" /\ principals[o] = None /\ credentials[o] = None
  BY ProvisioningAssumption DEF Init, Ids
<1>5. QED
  BY <1>1, <1>3, <1>4 DEF IInv, Call, Locks, Apart, Binding, Live

-----------------------------------------------------------------------------
\* What a step of one call leaves alone.
Only(o) ==
  \A q \in Operations \ {o} :
    stage'[q] = stage[q] /\ command'[q] = command[q] /\ seen'[q] = seen[q]

\* A step that leaves the tables alone.
LEMMA LocalStep ==
  ASSUME IInv, NEW o \in Operations, Only(o), UNCHANGED <<principals, credentials>>,
         Shape', Call(o)', \A q \in Operations \ {o} : Apart(o, q)'
  PROVE  IInv'
<1>1. \A q \in Operations \ {o} : Call(q)'
  BY DEF IInv, Only, Call, WellFormed, Binding, Cleared, Exists, Claimed
<1>2. \A q, r \in Operations \ {o} : q # r => Apart(q, r)'
  BY DEF IInv, Only, Locks, Apart, Binding
<1>3. \A q \in Operations \ {o} : Apart(q, o)'
  BY DEF Apart
<1>4. ContinuityFaithful'
  BY DEF IInv, ContinuityFaithful, Exists
<1>5. QED
  BY <1>1, <1>2, <1>3, <1>4 DEF IInv, Locks

\* The end of a call without a commit.
LEMMA EndInv ==
  ASSUME IInv, NEW o \in Operations, NEW from \in Live \cup {"idle"},
         NEW to \in {"refused", "failed"}, End(o, from, to),
         UNCHANGED <<clock, principals, credentials, audits>>
  PROVE  IInv'
<1>1. Shape' /\ Only(o) /\ stage[o] = from /\ stage'[o] = to
  BY NoCommandType DEF IInv, Shape, End, Advance, Only
<1>2. Call(o)' /\ \A q \in Operations \ {o} : Apart(o, q)'
  BY <1>1 DEF IInv, Call, Apart, Binding, Live
<1>3. QED
  BY <1>1, <1>2, LocalStep

LEMMA WorldInv == IInv /\ (Tick \/ UNCHANGED vars) => IInv'
<1> SUFFICES ASSUME IInv, Tick \/ UNCHANGED vars PROVE IInv'
  OBVIOUS
<1>1. UNCHANGED <<principals, credentials, audits, stage, command, seen>> /\ clock' \in Times
  BY ProvisioningAssumption DEF IInv, Shape, Tick, vars, Times
<1>2. Shape'
  BY <1>1 DEF IInv, Shape
<1>3. (\A o \in Operations : Call(o))' /\ Locks'
  BY <1>1 DEF IInv, Call, WellFormed, Locks, Apart, Binding, Cleared, Exists, Claimed
<1>4. ContinuityFaithful'
  BY <1>1 DEF IInv, ContinuityFaithful, Exists
<1>5. QED
  BY <1>2, <1>3, <1>4 DEF IInv

-----------------------------------------------------------------------------
LEMMA StartWellFormed ==
  ASSUME IInv, NEW o \in Operations, NEW request \in Commands, Start(o, request),
         WellFormed(o, request)
  PROVE  IInv'
<1> DEFINE new == [request EXCEPT !.now = clock]
<1>1. /\ new \in Commands /\ command' = [command EXCEPT ![o] = new]
      /\ new.kind = request.kind /\ new.principal = request.principal
      /\ new.binding = request.binding /\ new.limits = request.limits
      /\ new.expires = request.expires /\ new.credential = request.credential
      /\ new.legacy = request.legacy
  BY DEF IInv, Shape, Start, Commands
<1> HIDE DEF new
<1>2. /\ stage[o] = "idle" /\ stage'[o] = "opening" /\ command'[o] = new /\ Only(o)
      /\ Shape'
  BY <1>1 DEF IInv, Shape, Start, Advance, Only, Live
<1>3. UNCHANGED <<principals, credentials>>
  BY DEF Start
<1>4. WellFormed(o, command[o])'
  BY <1>1, <1>2, <1>3 DEF WellFormed, Exists
<1>5. Call(o)' /\ \A q \in Operations \ {o} : Apart(o, q)'
  BY <1>2, <1>3, <1>4 DEF IInv, Call, Apart, Binding
<1>6. QED
  BY <1>2, <1>3, <1>5, LocalStep

LEMMA StartInv ==
  ASSUME IInv, NEW o \in Operations, Requested(o)
  PROVE  IInv'
<1>1. o \in Ids /\ Targets(o, principals) \subseteq Ids /\ Targets(o, credentials) \subseteq Ids
  BY DEF Ids, Targets
<1>2. \A p \in Targets(o, principals) : Exists(p) \/ p = o
  BY DEF Targets, Exists
<1>3. ASSUME NEW b \in Bindings, NEW limits \in Limits, NEW expires \in Expiries,
             StartCreate(o, b, limits, expires)
      PROVE  IInv'
  <2> DEFINE request == [NoCommand EXCEPT !.kind = "create", !.principal = o, !.binding = b,
                                          !.limits = limits, !.expires = expires]
  <2>1. request \in Commands /\ Start(o, request)
    BY <1>1, <1>3, NoCommandType DEF StartCreate, Commands, Kinds
  <2>2. WellFormed(o, request)
    BY <1>1, NoCommandType DEF WellFormed, Kinds, Commands
  <2>3. QED
    BY <2>1, <2>2, StartWellFormed
<1>4. ASSUME NEW p \in Targets(o, principals), NEW expires \in Expiries,
             StartIssue(o, p, expires)
      PROVE  IInv'
  <2> DEFINE request == [NoCommand EXCEPT !.kind = "issue", !.principal = p,
                                          !.expires = expires]
  <2>1. request \in Commands
    BY <1>1, NoCommandType DEF Commands, Kinds
  <2>2. Start(o, request)
    BY <1>4 DEF StartIssue
  <2>3. WellFormed(o, request)
    BY <1>1, <1>2, NoCommandType DEF WellFormed, Kinds, Commands
  <2>4. QED
    BY <2>1, <2>2, <2>3, StartWellFormed
<1>5. ASSUME NEW p \in Targets(o, principals), NEW c \in Targets(o, credentials),
             StartRevoke(o, p, c)
      PROVE  IInv'
  <2> DEFINE request == [NoCommand EXCEPT !.kind = "revoke", !.principal = p,
                                          !.credential = c]
  <2>1. request \in Commands
    BY <1>1, NoCommandType DEF Commands, Kinds
  <2>2. Start(o, request)
    BY <1>5 DEF StartRevoke
  <2>3. WellFormed(o, request)
    BY <1>1, <1>2, NoCommandType DEF WellFormed, Kinds, Commands
  <2>4. QED
    BY <2>1, <2>2, <2>3, StartWellFormed
<1>6. ASSUME NEW p \in Targets(o, principals), StartDisable(o, p)
      PROVE  IInv'
  <2> DEFINE request == [NoCommand EXCEPT !.kind = "disable", !.principal = p]
  <2>1. request \in Commands /\ Start(o, request)
    BY <1>1, <1>6, NoCommandType DEF StartDisable, Commands, Kinds
  <2>2. WellFormed(o, request)
    BY <1>1, <1>2, NoCommandType DEF WellFormed, Kinds, Commands
  <2>3. QED
    BY <2>1, <2>2, StartWellFormed
<1>7. ASSUME NEW p \in Targets(o, principals), NEW limits \in Limits, StartLimits(o, p, limits)
      PROVE  IInv'
  <2> DEFINE request == [NoCommand EXCEPT !.kind = "limits", !.principal = p,
                                          !.limits = limits]
  <2>1. request \in Commands
    BY <1>1, NoCommandType DEF Commands, Kinds
  <2>2. Start(o, request)
    BY <1>7 DEF StartLimits
  <2>3. WellFormed(o, request)
    BY <1>1, <1>2, NoCommandType DEF WellFormed, Kinds, Commands
  <2>4. QED
    BY <2>1, <2>2, <2>3, StartWellFormed
<1>8. ASSUME NEW p \in Targets(o, principals), NEW l \in LegacyIds, StartBind(o, p, l)
      PROVE  IInv'
  <2> DEFINE request == [NoCommand EXCEPT !.kind = "bind", !.principal = p, !.legacy = l]
  <2>1. request \in Commands
    BY <1>1, NoCommandType DEF Commands, Kinds
  <2>2. Start(o, request)
    BY <1>8 DEF StartBind
  <2>3. WellFormed(o, request)
    BY <1>1, <1>2, NoCommandType DEF WellFormed, Kinds, Commands
  <2>4. QED
    BY <2>1, <2>2, <2>3, StartWellFormed
<1>9. QED
  BY <1>3, <1>4, <1>5, <1>6, <1>7, <1>8 DEF Requested

-----------------------------------------------------------------------------
LEMMA LockInv ==
  ASSUME IInv, NEW o \in Operations, LockLegacy(o) \/ LockRow(o)
  PROVE  IInv'
<1>1. CASE LockLegacy(o)
  <2>1. /\ stage[o] = "opening" /\ stage'[o] = "claiming" /\ command[o].kind = "bind"
        /\ Only(o) /\ Shape' /\ UNCHANGED <<principals, credentials, command, seen>>
    BY <1>1 DEF IInv, Shape, LockLegacy, Advance, Only, Live
  <2>2. Call(o)'
    BY <2>1 DEF IInv, Call, WellFormed, Binding, Exists, Live
  <2>3. \A q \in Operations \ {o} : Apart(o, q)'
    BY <1>1, <2>1 DEF LockLegacy, LegacyFree, Apart, Binding, Only
  <2>4. QED
    BY <2>1, <2>2, <2>3, LocalStep
<1>2. CASE LockRow(o)
  <2>1. /\ stage[o] = "claiming" /\ stage'[o] = "locked" /\ command[o].kind = "bind"
        /\ WellFormed(o, command[o])
    BY <1>2 DEF IInv, Shape, LockRow, Advance, Call, Live
  <2>2. /\ Only(o) /\ UNCHANGED <<principals, credentials, command>>
        /\ seen'[o] = principals[command[o].principal]
    BY <1>2 DEF IInv, Shape, LockRow, Advance, Only
  <2>3. Shape'
    BY <1>2, <2>1 DEF IInv, Shape, LockRow, Advance, WellFormed, Live
  <2>4. Call(o)'
    BY <2>1, <2>2 DEF IInv, Call, WellFormed, Binding, Exists
  <2>5. \A q \in Operations \ {o} : Apart(o, q)'
    BY <1>2, <2>1, <2>2 DEF IInv, Locks, LockRow, RowFree, Apart, Binding, Only
  <2>6. QED
    BY <2>2, <2>3, <2>4, <2>5, LocalStep
<1>3. QED
  BY <1>1, <1>2

LEMMA CheckInv ==
  ASSUME IInv, NEW o \in Operations, Read(o) \/ Check(o)
  PROVE  IInv'
<1>1. CASE Read(o)
  <2>1. /\ stage[o] = "opening" /\ stage'[o] = "writing" /\ command[o].kind # "bind"
        /\ WellFormed(o, command[o])
    BY <1>1 DEF IInv, Shape, Read, Advance, Call, Live
  <2>2. /\ Only(o) /\ UNCHANGED <<principals, credentials, command>>
        /\ seen'[o] = principals[command[o].principal]
    BY <1>1 DEF IInv, Shape, Read, Advance, Only
  <2>3. Shape'
    BY <1>1, <2>1 DEF IInv, Shape, Read, Advance, WellFormed, Live
  <2>4. /\ command[o].kind = "revoke" => credentials[command[o].credential] # None
        /\ command[o].kind \in {"disable", "limits"} => principals[command[o].principal] # None
    BY <1>1 DEF Read, Permitted, Active
  <2>5. principals[command[o].principal] # None => seen'[o] \in Principals
    BY <2>1, <2>2 DEF IInv, Shape, WellFormed
  <2>6. Call(o)'
    BY <2>1, <2>2, <2>4, <2>5 DEF IInv, Call, WellFormed, Binding, Exists
  <2>7. \A q \in Operations \ {o} : Apart(o, q)'
    BY <2>1, <2>2 DEF Apart, Binding
  <2>8. QED
    BY <2>2, <2>3, <2>6, <2>7, LocalStep
<1>2. CASE Check(o)
  <2>1. /\ stage[o] = "locked" /\ stage'[o] = "writing" /\ command[o].kind = "bind"
        /\ Only(o) /\ Shape' /\ UNCHANGED <<principals, credentials, command, seen>>
    BY <1>2 DEF IInv, Shape, Check, Advance, Only, Live, Call
  <2>2. Cleared(o)
    BY <1>2 DEF Check, BindPermitted, Preflight, Cleared
  <2>3. Cleared(o)'
    BY <2>1, <2>2 DEF Cleared, Claimed, Exists
  <2>4. Call(o)'
    BY <2>1, <2>3 DEF IInv, Call, WellFormed, Binding, Exists, Live
  <2>5. \A q \in Operations \ {o} : Apart(o, q)'
    BY <2>1 DEF IInv, Locks, Apart, Binding, Only
  <2>6. QED
    BY <2>1, <2>4, <2>5, LocalStep
<1>3. QED
  BY <1>1, <1>2

-----------------------------------------------------------------------------
LEMMA CommitFrame ==
  ASSUME IInv, NEW o \in Operations, NEW kind \in Kinds, Commit(o, kind)
  PROVE  /\ stage[o] = "writing" /\ stage'[o] = "done" /\ command[o].kind = kind /\ Only(o)
         /\ WellFormed(o, command[o])
         /\ principals[o] = None /\ credentials[o] = None /\ o \in Ids
         /\ clock' \in Times
         /\ stage' \in [Operations -> Live \cup {"idle", "refused", "failed", "done"}]
         /\ command' \in [Operations -> Commands]
         /\ seen' \in [Operations -> Principals \cup {None}]
BY NoCommandType DEF IInv, Shape, Call, Commit, End, Advance, Only, Live, Ids

LEMMA EvidenceType ==
  ASSUME IInv, NEW o \in Operations, command[o].kind \in Kinds, NEW id \in Ids,
         NEW before \in Principals \cup Credentials \cup {None},
         NEW after \in Principals \cup Credentials
  PROVE  /\ Evidence(o, id, before, after) \in Records
         /\ Audit(o, id, before, after) => audits' \in Seq(Records)
<1>1. Evidence(o, id, before, after) \in Records
  BY DEF Evidence, Records, Fingerprint
<1>2. QED
  BY <1>1 DEF Audit, IInv, Shape

\* The rows other calls go by: none is deleted, no call's own id comes into use
\* by another, and what a binding holds and claims stays.
RowsStay(o) ==
  /\ \A x \in Ids : Exists(x) => Exists(x)'
  /\ \A x \in Ids : credentials[x] # None => credentials'[x] # None
  /\ \A q \in Operations \ {o} :
       principals[q] = None /\ credentials[q] = None =>
         principals'[q] = None /\ credentials'[q] = None
  /\ \A q \in Operations \ {o} : Binding(q, {"locked", "writing"}) =>
       /\ principals'[command[q].principal] = principals[command[q].principal]
       /\ Claimed(command[q].legacy)' => Claimed(command[q].legacy)

LEMMA CommitStep ==
  ASSUME IInv, NEW o \in Operations, NEW kind \in Kinds, Commit(o, kind), RowsStay(o),
         principals' \in [Ids -> Principals \cup {None}],
         credentials' \in [Ids -> Credentials \cup {None}],
         audits' \in Seq(Records), ContinuityFaithful'
  PROVE  IInv'
<1>1. stage'[o] = "done" /\ Only(o) /\ Shape'
  BY CommitFrame DEF Shape
<1>2. ASSUME NEW q \in Operations \ {o}
      PROVE  Call(q)'
  <2>1. stage'[q] = stage[q] /\ command'[q] = command[q] /\ seen'[q] = seen[q] /\ Call(q)
    BY <1>1 DEF Only, IInv
  <2>2. stage'[q] \in Live => WellFormed(q, command[q])'
    BY <2>1 DEF Call, RowsStay, WellFormed
  <2>3. Binding(q, {"writing"})' => Binding(q, {"writing"}) /\ Binding(q, {"locked", "writing"})
    BY <2>1 DEF Binding
  <2>4. Binding(q, {"writing"})' => Cleared(q)'
    BY <2>1, <2>3 DEF Call, Cleared, RowsStay
  <2>5. Binding(q, {"locked", "writing"})' => principals'[command'[q].principal] = seen'[q]
    BY <2>1 DEF Call, RowsStay, Binding
  <2>6. stage'[q] = "writing" =>
          /\ command'[q].kind = "revoke" => credentials'[command'[q].credential] # None
          /\ command'[q].kind \in {"disable", "limits"} =>
               principals'[command'[q].principal] # None /\ seen'[q] \in Principals
    BY <2>1 DEF Call, RowsStay, WellFormed, Live, Exists
  <2>7. stage'[q] # "done" => principals'[q] = None /\ credentials'[q] = None
    BY <2>1 DEF Call, RowsStay
  <2>8. QED
    BY <2>1, <2>2, <2>4, <2>5, <2>6, <2>7 DEF Call, Exists
<1>3. Call(o)'
  BY <1>1 DEF Call, Binding, Live
<1>4. \A q, r \in Operations : q # r => Apart(q, r)'
  BY <1>1 DEF IInv, Only, Locks, Apart, Binding
<1>5. QED
  BY <1>1, <1>2, <1>3, <1>4 DEF IInv, Locks

\* A table whose rows were bound before, with the limits they had, or are not.
LEMMA FaithKept ==
  ASSUME IInv,
         \A p \in Ids : Exists(p)' /\ principals'[p].legacy # None =>
           /\ Exists(p) /\ principals'[p].legacy = principals[p].legacy
           /\ principals'[p].binding = principals[p].binding
           /\ principals[p].limits # None => principals'[p].limits = principals[p].limits
  PROVE  ContinuityFaithful'
<1> SUFFICES ASSUME NEW p \in Ids, Exists(p)', principals'[p].legacy # None
             PROVE  LET l == principals'[p].legacy
                    IN  /\ \A q \in Ids \ {p} : Exists(q)' => principals'[q].legacy # l
                        /\ l \in DOMAIN Static
                        /\ Static[l] = [binding |-> principals'[p].binding,
                                        limits |-> principals'[p].limits]
                        /\ \A h \in History : h[1] \in {l, p} => h[2] = principals'[p].binding
  BY DEF ContinuityFaithful
<1> DEFINE l == principals[p].legacy
<1>1. /\ l # None /\ Exists(p) /\ principals'[p].legacy = l
      /\ principals'[p].binding = principals[p].binding
      /\ principals[p].limits # None => principals'[p].limits = principals[p].limits
  OBVIOUS
<1>2. /\ \A q \in Ids \ {p} : Exists(q) => principals[q].legacy # l
      /\ l \in DOMAIN Static
      /\ Static[l] = [binding |-> principals[p].binding, limits |-> principals[p].limits]
      /\ \A h \in History : h[1] \in {l, p} => h[2] = principals[p].binding
  BY <1>1 DEF IInv, ContinuityFaithful
<1> HIDE DEF l
<1>3. principals[p].limits # None
  BY <1>2, ProvisioningAssumption
<1>4. \A q \in Ids \ {p} : Exists(q)' => principals'[q].legacy # l
  BY <1>1, <1>2
<1>5. QED
  BY <1>1, <1>2, <1>3, <1>4

-----------------------------------------------------------------------------
LEMMA NewCredentialType ==
  ASSUME IInv, NEW o \in Operations, WellFormed(o, command[o]),
         command[o].kind \in {"create", "issue"}
  PROVE  NewCredential(o) \in Credentials
BY DEF WellFormed, NewCredential, Credentials

LEMMA CreateInv ==
  ASSUME IInv, NEW o \in Operations, CommitCreate(o)
  PROVE  IInv'
<1> DEFINE row == [binding |-> command[o].binding, limits |-> command[o].limits,
                   legacy |-> None, disabled |-> FALSE]
<1>1. /\ Commit(o, "create") /\ "create" \in Kinds
      /\ principals' = [principals EXCEPT ![o] = row]
      /\ credentials' = [credentials EXCEPT ![o] = NewCredential(o)]
      /\ audits' = audits \o <<Evidence(o, o, None, row),
                               [Evidence(o, o, None, NewCredential(o)) EXCEPT !.action = "issue"]>>
  BY DEF CommitCreate, Kinds
<1>2. /\ WellFormed(o, command[o]) /\ command[o].kind = "create" /\ o \in Ids
      /\ principals[o] = None /\ credentials[o] = None /\ Only(o)
  BY <1>1, CommitFrame
<1>3. row \in Principals /\ NewCredential(o) \in Credentials /\ row.legacy = None
  BY <1>2, NewCredentialType DEF WellFormed, Principals
<1> HIDE DEF row
<1>4. audits' \in Seq(Records)
  <2>1. Evidence(o, o, None, row) \in Records
    BY <1>2, <1>3, EvidenceType DEF Kinds
  <2>2. Evidence(o, o, None, NewCredential(o)) \in Records
    BY <1>2, <1>3, EvidenceType DEF Kinds
  <2>3. [Evidence(o, o, None, NewCredential(o)) EXCEPT !.action = "issue"] \in Records
    BY <2>2 DEF Records, Kinds
  <2>4. QED
    BY <1>1, <2>1, <2>3 DEF IInv, Shape
<1>5. /\ principals' \in [Ids -> Principals \cup {None}]
      /\ credentials' \in [Ids -> Credentials \cup {None}]
      /\ principals'[o] = row /\ credentials'[o] = NewCredential(o)
      /\ \A x \in Ids \ {o} :
           principals'[x] = principals[x] /\ credentials'[x] = credentials[x]
  BY <1>1, <1>2, <1>3 DEF IInv, Shape
<1>6. RowsStay(o)
  <2>1. \A l \in LegacyIds : Claimed(l)' => Claimed(l)
    BY <1>3, <1>5, ProvisioningAssumption DEF Claimed, Exists
  <2>2. \A q \in Operations \ {o} : Binding(q, {"locked", "writing"}) =>
          /\ command[q].principal \in Ids \ {o}
          /\ command[q].legacy \in LegacyIds
    BY <1>2 DEF IInv, Call, WellFormed, Binding, Live, Exists
  <2>3. \A x \in Ids : Exists(x) => Exists(x)'
    BY <1>2, <1>5 DEF Exists
  <2>4. \A x \in Ids : credentials[x] # None => credentials'[x] # None
    BY <1>2, <1>5
  <2>5. QED
    BY <1>2, <1>5, <2>1, <2>2, <2>3, <2>4 DEF RowsStay, Ids, Only, Claimed, Exists
<1>7. ContinuityFaithful'
  BY <1>3, <1>5, FaithKept DEF Exists
<1>8. QED
  BY <1>1, <1>4, <1>5, <1>6, <1>7, CommitStep

\* Commits that touch only the credentials.
LEMMA CredentialInv ==
  ASSUME IInv, NEW o \in Operations, CommitIssue(o) \/ CommitRevoke(o)
  PROVE  IInv'
<1>1. principals' = principals
  BY DEF CommitIssue, CommitRevoke
<1>2. ContinuityFaithful'
  BY <1>1, FaithKept DEF Exists
<1>3. CASE CommitIssue(o)
  <2>1. /\ Commit(o, "issue") /\ "issue" \in Kinds
        /\ credentials' = [credentials EXCEPT ![o] = NewCredential(o)]
        /\ Audit(o, o, None, NewCredential(o))
    BY <1>3 DEF CommitIssue, Kinds
  <2>2. /\ WellFormed(o, command[o]) /\ command[o].kind = "issue" /\ o \in Ids
        /\ credentials[o] = None /\ Only(o)
    BY <2>1, CommitFrame
  <2>3. NewCredential(o) \in Credentials
    BY <2>2, NewCredentialType
  <2>4. audits' \in Seq(Records)
    BY <2>1, <2>2, <2>3, EvidenceType DEF Kinds
  <2>5. /\ credentials' \in [Ids -> Credentials \cup {None}]
        /\ \A x \in Ids \ {o} : credentials'[x] = credentials[x]
    BY <2>1, <2>2, <2>3 DEF IInv, Shape
  <2>6. RowsStay(o)
    BY <1>1, <2>2, <2>5 DEF RowsStay, Exists, Claimed, Ids, Only
  <2>7. QED
    BY <1>1, <1>2, <2>1, <2>4, <2>5, <2>6, CommitStep DEF IInv, Shape
<1>4. CASE CommitRevoke(o)
  <2> DEFINE c == command[o].credential
             before == [credentials[c] EXCEPT !.revoked = FALSE]
             after == [before EXCEPT !.revoked = TRUE]
             row == [credentials[c] EXCEPT !.revoked = TRUE]
  <2>1. /\ Commit(o, "revoke") /\ "revoke" \in Kinds
        /\ credentials' = [credentials EXCEPT ![c] = row]
        /\ Audit(o, c, before, after)
    BY <1>4 DEF CommitRevoke, Kinds
  <2>2. /\ WellFormed(o, command[o]) /\ command[o].kind = "revoke" /\ stage[o] = "writing"
        /\ Only(o)
    BY <2>1, CommitFrame
  <2>3. c \in Ids /\ credentials[c] \in Credentials
    BY <2>2 DEF IInv, Shape, Call, WellFormed
  <2>4. before \in Credentials /\ after \in Credentials /\ row \in Credentials
    BY <2>3 DEF Credentials
  <2> HIDE DEF c, before, after, row
  <2>5. audits' \in Seq(Records)
    BY <2>1, <2>2, <2>3, <2>4, EvidenceType DEF Kinds
  <2>6. /\ credentials' \in [Ids -> Credentials \cup {None}]
        /\ credentials'[c] # None
        /\ \A x \in Ids \ {c} : credentials'[x] = credentials[x]
    BY <2>1, <2>3, <2>4, NoneAssumption DEF IInv, Shape
  <2>7. credentials[c] # None
    BY <2>3, NoneAssumption
  <2>8. RowsStay(o)
    BY <1>1, <2>2, <2>6, <2>7 DEF RowsStay, Exists, Claimed, Ids, Only
  <2>9. QED
    BY <1>1, <1>2, <2>1, <2>5, <2>6, <2>8, CommitStep DEF IInv, Shape
<1>5. QED
  BY <1>3, <1>4

\* A commit that updates the row of a principal, which no binding of another call
\* holds; a new claim is of an identity no other binding is after.
Updates(o, p, row) ==
  /\ Commit(o, "disable") \/ Commit(o, "limits") \/ Commit(o, "bind")
  /\ credentials' = credentials /\ audits' \in Seq(Records)
  /\ p \in Ids /\ Exists(p) /\ row \in Principals
  /\ principals' = [principals EXCEPT ![p] = row]
  /\ \A q \in Operations \ {o} : Binding(q, {"locked", "writing"}) =>
       command[q].principal # p /\ (row.legacy # principals[p].legacy =>
                                      command[q].legacy # row.legacy)

LEMMA UpdateInv ==
  ASSUME IInv, NEW o \in Operations, NEW p, NEW row, Updates(o, p, row),
         ContinuityFaithful'
  PROVE  IInv'
<1> USE DEF Updates
<1>1. PICK kind \in Kinds : Commit(o, kind)
  BY DEF Kinds
<1>2. Only(o)
  BY <1>1, CommitFrame
<1>3. /\ principals' \in [Ids -> Principals \cup {None}]
      /\ principals'[p] = row /\ row # None
      /\ \A x \in Ids \ {p} : principals'[x] = principals[x]
  BY NoneAssumption DEF IInv, Shape
<1>4. \A q \in Operations \ {o} : Binding(q, {"locked", "writing"}) => command[q].principal \in Ids
  BY DEF IInv, Call, WellFormed, Binding, Live
<1>5. \A q \in Operations \ {o} : Binding(q, {"locked", "writing"}) =>
        (Claimed(command[q].legacy)' => Claimed(command[q].legacy))
  BY <1>2, <1>3 DEF Only, Claimed, Exists
<1>6. RowsStay(o)
  <2>1. \A x \in Ids : Exists(x) => Exists(x)'
    BY <1>3 DEF Exists
  <2>2. \A q \in Operations \ {o} : principals[q] = None => principals'[q] = None
    BY <1>3 DEF Exists, Ids
  <2>3. \A q \in Operations \ {o} : Binding(q, {"locked", "writing"}) =>
          principals'[command[q].principal] = principals[command[q].principal]
    BY <1>3, <1>4
  <2>4. QED
    BY <1>5, <2>1, <2>2, <2>3 DEF RowsStay
<1>7. QED
  BY <1>1, <1>3, <1>6, CommitStep DEF IInv, Shape

\* RowFree: no binding has the row.
LEMMA RowFreeMeans ==
  ASSUME NEW o \in Operations, RowFree(o)
  PROVE  \A q \in Operations \ {o} : Binding(q, {"locked", "writing"}) =>
           command[q].principal # command[o].principal
BY DEF RowFree

LEMMA DisableInv ==
  ASSUME IInv, NEW o \in Operations, CommitDisable(o)
  PROVE  IInv'
<1> DEFINE p == command[o].principal
           row == [principals[p] EXCEPT !.disabled = TRUE]
           after == [seen[o] EXCEPT !.disabled = TRUE]
<1>1. /\ Commit(o, "disable") /\ RowFree(o) /\ credentials' = credentials
      /\ principals' = [principals EXCEPT ![p] = row] /\ Audit(o, p, seen[o], after)
  BY DEF CommitDisable
<1>2. /\ stage[o] = "writing" /\ command[o].kind = "disable" /\ p \in Ids
  BY <1>1, CommitFrame DEF Kinds, WellFormed
<1>3. Exists(p) /\ principals[p] \in Principals /\ seen[o] \in Principals
  BY <1>2 DEF IInv, Shape, Call, Exists
<1>4. /\ row \in Principals /\ after \in Principals /\ row.legacy = principals[p].legacy
      /\ row.binding = principals[p].binding /\ row.limits = principals[p].limits
  BY <1>3 DEF Principals
<1> HIDE DEF row, after
<1>5. ContinuityFaithful'
  <2>1. principals'[p] = row /\ \A x \in Ids \ {p} : principals'[x] = principals[x]
    BY <1>1, <1>2 DEF IInv, Shape
  <2>2. QED
    BY <1>3, <1>4, <2>1, FaithKept DEF Exists
<1>6. \A q \in Operations \ {o} : Binding(q, {"locked", "writing"}) =>
        command[q].principal # p /\ (row.legacy # principals[p].legacy =>
                                       command[q].legacy # row.legacy)
  BY <1>1, <1>4, RowFreeMeans
<1>7. audits' \in Seq(Records)
  BY <1>1, <1>2, <1>3, <1>4, EvidenceType DEF Kinds
<1>8. Updates(o, p, row)
  BY <1>1, <1>2, <1>3, <1>4, <1>6, <1>7 DEF Updates
<1>9. QED
  BY <1>5, <1>8, UpdateInv

LEMMA LimitsInv ==
  ASSUME IInv, NEW o \in Operations, CommitLimits(o)
  PROVE  IInv'
<1> DEFINE p == command[o].principal
           row == [principals[p] EXCEPT !.limits = command[o].limits]
           after == [seen[o] EXCEPT !.limits = command[o].limits]
<1>1. /\ Commit(o, "limits") /\ RowFree(o) /\ credentials' = credentials
      /\ principals[p].limits = None
      /\ principals' = [principals EXCEPT ![p] = row] /\ Audit(o, p, seen[o], after)
  BY DEF CommitLimits
<1>2. /\ stage[o] = "writing" /\ command[o].kind = "limits" /\ p \in Ids
      /\ command[o].limits \in Limits
  BY <1>1, CommitFrame DEF Kinds, WellFormed
<1>3. Exists(p) /\ principals[p] \in Principals /\ seen[o] \in Principals
  BY <1>2 DEF IInv, Shape, Call, Exists
<1>4. /\ row \in Principals /\ after \in Principals /\ row.legacy = principals[p].legacy
      /\ row.binding = principals[p].binding
  BY <1>2, <1>3 DEF Principals
<1> HIDE DEF row, after
<1>5. ContinuityFaithful'
  <2>1. principals'[p] = row /\ \A x \in Ids \ {p} : principals'[x] = principals[x]
    BY <1>1, <1>2 DEF IInv, Shape
  <2>2. QED
    BY <1>1, <1>3, <1>4, <2>1, FaithKept DEF Exists
<1>6. \A q \in Operations \ {o} : Binding(q, {"locked", "writing"}) =>
        command[q].principal # p /\ (row.legacy # principals[p].legacy =>
                                       command[q].legacy # row.legacy)
  BY <1>1, <1>4, RowFreeMeans
<1>7. audits' \in Seq(Records)
  BY <1>1, <1>2, <1>3, <1>4, EvidenceType DEF Kinds
<1>8. Updates(o, p, row)
  BY <1>1, <1>2, <1>3, <1>4, <1>6, <1>7 DEF Updates
<1>9. QED
  BY <1>5, <1>8, UpdateInv

\* The row is the one the locks preserved, the claim nobody else's.
LEMMA BindInv ==
  ASSUME IInv, NEW o \in Operations, CommitBind(o)
  PROVE  IInv'
<1> DEFINE p == command[o].principal
           l == command[o].legacy
           row == [principals[p] EXCEPT !.legacy = l]
           after == [seen[o] EXCEPT !.legacy = l]
<1>1. /\ Commit(o, "bind") /\ credentials' = credentials
      /\ principals' = [principals EXCEPT ![p] = row] /\ Audit(o, p, seen[o], after)
  BY DEF CommitBind
<1>2. /\ stage[o] = "writing" /\ command[o].kind = "bind" /\ p \in Ids /\ l \in LegacyIds
  BY <1>1, CommitFrame DEF Kinds, WellFormed
<1>3. /\ principals[p] = seen[o] /\ Cleared(o)
      /\ \A q \in Operations \ {o} : Binding(q, {"locked", "writing"}) =>
           command[q].principal # p /\ command[q].legacy # l
  BY <1>2 DEF IInv, Call, Locks, Apart, Binding
<1>4. Exists(p) /\ principals[p] \in Principals /\ seen[o] \in Principals
  BY <1>2, <1>3 DEF IInv, Shape, Cleared, Active, Exists
<1>5. /\ row \in Principals /\ after \in Principals /\ row.legacy = l
      /\ row.binding = principals[p].binding /\ row.limits = principals[p].limits
  BY <1>2, <1>4 DEF Principals
<1> HIDE DEF row, after
<1>6. principals'[p] = row /\ \A x \in Ids \ {p} : principals'[x] = principals[x]
  BY <1>1, <1>2 DEF IInv, Shape
<1>7. \A x \in Ids : Exists(x) => principals[x].legacy # l
  BY <1>3 DEF Cleared, Claimed
<1>8. ContinuityFaithful'
  <2>1. /\ l \in DOMAIN Static
        /\ Static[l] = [binding |-> row.binding, limits |-> row.limits]
        /\ \A h \in History : h[1] \in {l, p} => h[2] = row.binding
    BY <1>3, <1>5, ProvisioningAssumption DEF Cleared, HistoryAgrees
  <2>2. ASSUME NEW x \in Ids, Exists(x)', principals'[x].legacy # None
        PROVE  LET m == principals'[x].legacy
               IN  /\ \A q \in Ids \ {x} : Exists(q)' => principals'[q].legacy # m
                   /\ m \in DOMAIN Static
                   /\ Static[m] = [binding |-> principals'[x].binding,
                                   limits |-> principals'[x].limits]
                   /\ \A h \in History : h[1] \in {m, x} => h[2] = principals'[x].binding
    <3>1. CASE x = p
      BY <1>5, <1>6, <1>7, <2>1, <3>1 DEF Exists
    <3>2. CASE x # p
      <4>1. /\ Exists(x) /\ principals'[x] = principals[x] /\ principals[x].legacy # l
        BY <1>6, <1>7, <2>2, <3>2 DEF Exists
      <4>2. /\ \A q \in Ids \ {x} : Exists(q) => principals[q].legacy # principals[x].legacy
            /\ principals[x].legacy \in DOMAIN Static
            /\ Static[principals[x].legacy] =
                 [binding |-> principals[x].binding, limits |-> principals[x].limits]
            /\ \A h \in History :
                 h[1] \in {principals[x].legacy, x} => h[2] = principals[x].binding
        BY <2>2, <4>1 DEF IInv, ContinuityFaithful
      <4>3. ASSUME NEW q \in Ids \ {x}, principals'[q] # None
            PROVE  principals'[q].legacy # principals[x].legacy
        BY <1>5, <1>6, <4>1, <4>2, <4>3 DEF Exists
      <4>4. QED
        BY <4>1, <4>2, <4>3 DEF Exists
    <3>3. QED
      BY <3>1, <3>2
  <2>3. QED
    BY <2>2 DEF ContinuityFaithful
<1>9. audits' \in Seq(Records)
  BY <1>1, <1>2, <1>4, <1>5, EvidenceType DEF Kinds
<1>10. Updates(o, p, row)
  BY <1>1, <1>2, <1>3, <1>4, <1>5, <1>9 DEF Updates
<1>11. QED
  BY <1>8, <1>10, UpdateInv

-----------------------------------------------------------------------------
LEMMA NextInv == IInv /\ [Next]_vars => IInv'
<1> SUFFICES ASSUME IInv, [Next]_vars PROVE IInv'
  OBVIOUS
<1>1. CASE Tick \/ UNCHANGED vars
  BY <1>1, WorldInv
<1>2. ASSUME NEW o \in Operations,
             Deny(o) \/ Refuse(o) \/ LoseLimits(o) \/ Abort(o)
      PROVE  IInv'
  BY <1>2, EndInv DEF Deny, Refuse, LoseLimits, Abort, Live
<1>3. ASSUME NEW o \in Operations, Transaction(o), ~Refuse(o), ~LoseLimits(o)
      PROVE  IInv'
  BY <1>3, LockInv, CheckInv, CreateInv, CredentialInv, DisableInv, LimitsInv, BindInv
  DEF Transaction
<1>4. QED
  BY <1>1, <1>2, <1>3, StartInv DEF Next

LEMMA Inductive == Spec => []IInv
BY InitInv, NextInv, PTL DEF Spec

\* What a binding has checked under its locks holds when it writes, whatever
\* unlocked calls and crashes come between.
THEOREM ChecksHold == Spec => []BindingChecksHold
<1>1. IInv => BindingChecksHold
  BY DEF IInv, BindingChecksHold, Call, Cleared, Binding
<1>2. QED
  BY <1>1, Inductive, PTL

\* A bound principal is the only one with its legacy id, and has the tenant,
\* the agent and the limits of the static identity.
THEOREM Continuity == Spec => []ContinuityFaithful
<1>1. IInv => ContinuityFaithful
  BY DEF IInv
<1>2. QED
  BY <1>1, Inductive, PTL

\* Every reachable state is well typed, and the two locks exclude.
THEOREM TypeCorrect == Spec => []TypeOK
<1>1. IInv => TypeOK
  BY DEF IInv, Shape, TypeOK, Locks, Apart, Binding
<1>2. QED
  BY <1>1, Inductive, PTL

-----------------------------------------------------------------------------
(***************************************************************************)
(* What a step may never do.                                               *)
(***************************************************************************)
Commits(o) ==
  \/ CommitCreate(o) \/ CommitIssue(o) \/ CommitRevoke(o) \/ CommitDisable(o)
  \/ CommitLimits(o) \/ CommitBind(o)

LEMMA OnlyCommitsWrite ==
  ASSUME IInv, [Next]_vars
  PROVE  UNCHANGED <<principals, credentials, audits>> \/ \E o \in Operations : Commits(o)
<1>1. CASE Tick \/ UNCHANGED vars
  BY <1>1 DEF Tick, vars
<1>2. ASSUME NEW o \in Operations, Requested(o)
      PROVE  UNCHANGED <<principals, credentials, audits>>
  BY <1>2 DEF Requested, StartCreate, StartIssue, StartRevoke, StartDisable, StartLimits,
              StartBind, Start
<1>3. ASSUME NEW o \in Operations, Transaction(o), ~Commits(o)
      PROVE  UNCHANGED <<principals, credentials, audits>>
  BY <1>3 DEF Transaction, Commits, LockLegacy, LockRow, Read, Check, Refuse, LoseLimits
<1>4. ASSUME NEW o \in Operations, Deny(o) \/ Abort(o)
      PROVE  UNCHANGED <<principals, credentials, audits>>
  BY <1>4 DEF Deny, Abort
<1>5. QED
  BY <1>1, <1>2, <1>3, <1>4 DEF Next

\* What a commit may do to one principal.
LEMMA PrincipalStep ==
  ASSUME IInv, NEW o \in Operations, Commits(o), NEW p \in Ids, Exists(p)
  PROVE  \/ principals'[p] = principals[p]
         \/ principals'[p] = [principals[p] EXCEPT !.disabled = TRUE]
         \/ /\ principals[p].limits = None
            /\ principals'[p] = [principals[p] EXCEPT !.limits = command[o].limits]
         \/ /\ principals[p].legacy = None /\ ~principals[p].disabled
            /\ principals'[p] = [principals[p] EXCEPT !.legacy = command[o].legacy]
<1>1. CASE CommitCreate(o)
  <2>1. principals[o] = None
    BY <1>1, CommitFrame DEF CommitCreate, Kinds
  <2>2. QED
    BY <1>1, <2>1 DEF CommitCreate, IInv, Shape, Exists
<1>2. CASE CommitIssue(o) \/ CommitRevoke(o)
  BY <1>2 DEF CommitIssue, CommitRevoke
<1>3. CASE CommitDisable(o)
  BY <1>3 DEF CommitDisable, IInv, Shape
<1>4. CASE CommitLimits(o)
  BY <1>4 DEF CommitLimits, IInv, Shape
<1>5. CASE CommitBind(o)
  <2>1. /\ principals[command[o].principal].legacy = None
        /\ principals' = [principals EXCEPT ![command[o].principal].legacy = command[o].legacy]
    BY <1>5 DEF CommitBind
  <2>2. ~principals[command[o].principal].disabled
    BY <1>5 DEF CommitBind, Commit, End, Advance, IInv, Call, Binding, Cleared, Active
  <2>3. QED
    BY <2>1, <2>2 DEF IInv, Shape
<1>6. QED
  BY <1>1, <1>2, <1>3, <1>4, <1>5 DEF Commits

LEMMA CredentialStep ==
  ASSUME IInv, NEW o \in Operations, Commits(o), NEW c \in Ids, credentials[c] # None
  PROVE  \/ credentials'[c] = credentials[c]
         \/ credentials'[c] = [credentials[c] EXCEPT !.revoked = TRUE]
<1>1. CASE CommitCreate(o) \/ CommitIssue(o)
  <2>1. credentials[o] = None
    BY <1>1, CommitFrame DEF CommitCreate, CommitIssue, Kinds
  <2>2. QED
    BY <1>1, <2>1 DEF CommitCreate, CommitIssue, IInv, Shape
<1>2. CASE CommitRevoke(o)
  BY <1>2 DEF CommitRevoke, IInv, Shape
<1>3. CASE CommitDisable(o) \/ CommitLimits(o) \/ CommitBind(o)
  BY <1>3 DEF CommitDisable, CommitLimits, CommitBind
<1>4. QED
  BY <1>1, <1>2, <1>3 DEF Commits

\* Bindings, limits, legacy ids, disablements and revocations are final, also
\* against a call that read the row before they were written.
THEOREM Final == Spec => NothingUndone
<1> DEFINE PrincipalKept(p) ==
      /\ principals'[p].binding = principals[p].binding
      /\ principals[p].limits # None => principals'[p].limits = principals[p].limits
      /\ principals[p].legacy # None => principals'[p].legacy = principals[p].legacy
      /\ principals[p].disabled => principals'[p].disabled
<1>1. ASSUME IInv, [Next]_vars, NEW p \in Ids, Exists(p)
      PROVE  PrincipalKept(p)
  <2>1. principals[p] \in Principals
    BY <1>1 DEF IInv, Shape, Exists
  <2>2. CASE principals' = principals
    BY <2>2
  <2>3. ASSUME NEW o \in Operations, Commits(o)
        PROVE  PrincipalKept(p)
    BY <1>1, <2>1, <2>3, PrincipalStep DEF Principals
  <2>4. QED
    BY <1>1, <2>2, <2>3, OnlyCommitsWrite
<1>2. ASSUME IInv, [Next]_vars, NEW c \in Ids, credentials[c] # None, credentials[c].revoked
      PROVE  credentials'[c] = [credentials[c] EXCEPT !.revoked = TRUE]
  <2>1. credentials[c] \in Credentials
    BY <1>2 DEF IInv, Shape
  <2>2. credentials[c] = [credentials[c] EXCEPT !.revoked = TRUE]
    BY <1>2, <2>1 DEF Credentials
  <2>3. ASSUME NEW o \in Operations, Commits(o)
        PROVE  credentials'[c] = [credentials[c] EXCEPT !.revoked = TRUE]
    BY <1>2, <2>2, <2>3, CredentialStep
  <2>4. QED
    BY <1>2, <2>2, <2>3, OnlyCommitsWrite
<1>3. IInv /\ [Next]_vars =>
        [/\ \A p \in Ids : Exists(p) => PrincipalKept(p)
         /\ \A c \in Ids : credentials[c] # None /\ credentials[c].revoked
              => credentials'[c] = [credentials[c] EXCEPT !.revoked = TRUE]]_vars
  BY <1>1, <1>2
<1>4. QED
  BY <1>3, Inductive, PTL DEF Spec, NothingUndone

\* Nobody binds a principal that is disabled when the binding commits.
THEOREM NoBindingOfDisabled == Spec => BoundWhileActive
<1>1. ASSUME IInv, [Next]_vars, NEW p \in Ids, Exists(p), principals[p].disabled
      PROVE  principals'[p].legacy = principals[p].legacy
  <2>1. principals[p] \in Principals
    BY <1>1 DEF IInv, Shape, Exists
  <2>2. ASSUME NEW o \in Operations, Commits(o)
        PROVE  principals'[p].legacy = principals[p].legacy
    BY <1>1, <2>1, <2>2, PrincipalStep DEF Principals
  <2>3. QED
    BY <1>1, <2>2, OnlyCommitsWrite
<1>2. IInv /\ [Next]_vars =>
        [\A p \in Ids : Exists(p) /\ principals[p].disabled =>
           principals'[p].legacy = principals[p].legacy]_vars
  BY <1>1
<1>3. QED
  BY <1>2, Inductive, PTL DEF Spec, BoundWhileActive
-----------------------------------------------------------------------------
(***************************************************************************)
(* Initialisation and binding are recorded exactly once.  The counts of    *)
(* PreparedOnce are those of sets that are empty before the conditional    *)
(* UPDATE and a singleton after it; that a principal created with limits   *)
(* never counts as initialised needs that it keeps having limits.          *)
(***************************************************************************)
Initialised(p) == p \in DOMAIN Provisioned /\ principals[p].limits # None
Bound(p) == Exists(p) /\ principals[p].legacy # None

Prepared(p) ==
  /\ p \in DOMAIN Provisioned => Exists(p)
  /\ Exists(p) /\ p \notin DOMAIN Provisioned => principals[p].limits # None
  /\ IF Initialised(p) THEN \E i : RecordsOf("limits", p) = {i}
                       ELSE RecordsOf("limits", p) = {}
  /\ IF Bound(p) THEN \E i : RecordsOf("bind", p) = {i} ELSE RecordsOf("bind", p) = {}

PreparedInv == \A p \in Ids : Prepared(p)

\* A step that neither initialises nor binds a principal and records neither.
LEMMA PreparedKept ==
  ASSUME NEW p \in Ids, Prepared(p), Exists(p)' <=> Exists(p),
         Exists(p) => /\ principals'[p].limits = principals[p].limits
                      /\ principals'[p].legacy = principals[p].legacy,
         RecordsOf("limits", p)' = RecordsOf("limits", p),
         RecordsOf("bind", p)' = RecordsOf("bind", p)
  PROVE  Prepared(p)'
BY DEF Prepared, Initialised, Bound

LEMMA AuditAppends ==
  ASSUME IInv, NEW o \in Operations, command[o].kind \in Kinds, NEW id \in Ids,
         NEW before \in Principals \cup Credentials \cup {None},
         NEW after \in Principals \cup Credentials, Audit(o, id, before, after),
         NEW action, NEW x
  PROVE  RecordsOf(action, x)' = IF action = command[o].kind /\ x = id
                                 THEN RecordsOf(action, x) \cup {Len(audits) + 1}
                                 ELSE RecordsOf(action, x)
<1> DEFINE record == Evidence(o, id, before, after)
<1>1. record \in Records /\ audits \in Seq(Records) /\ audits' = Append(audits, record)
  BY EvidenceType DEF IInv, Shape, Audit
<1>2. record.action = command[o].kind /\ record.resource = id
  BY DEF Evidence
<1> HIDE DEF record
<1>3. /\ Len(audits) \in Nat /\ Len(audits') = Len(audits) + 1
      /\ \A i \in 1 .. Len(audits) : audits'[i] = audits[i]
      /\ audits'[Len(audits) + 1] = record
  BY <1>1, AppendProperties
<1>4. QED
  BY <1>2, <1>3 DEF RecordsOf

LEMMA PreparedCreate ==
  ASSUME IInv, PreparedInv, NEW o \in Operations, CommitCreate(o)
  PROVE  PreparedInv'
<1> DEFINE row == [binding |-> command[o].binding, limits |-> command[o].limits,
                   legacy |-> None, disabled |-> FALSE]
           first == Evidence(o, o, None, row)
           second == [Evidence(o, o, None, NewCredential(o)) EXCEPT !.action = "issue"]
<1>1. /\ Commit(o, "create") /\ principals' = [principals EXCEPT ![o] = row]
      /\ audits' = audits \o <<first, second>>
  BY DEF CommitCreate
<1>2. /\ command[o].kind = "create" /\ WellFormed(o, command[o]) /\ principals[o] = None
      /\ o \in Ids /\ o \notin DOMAIN Provisioned
  BY <1>1, CommitFrame, ProvisioningAssumption DEF Kinds
<1>3. /\ row \in Principals /\ row.limits # None /\ row.legacy = None
  BY <1>2, ProvisioningAssumption DEF WellFormed, Principals
<1>4. first.action = "create" /\ second.action = "issue"
  BY <1>2 DEF Evidence
<1> HIDE DEF row, first, second
<1>5. ASSUME NEW action \in {"limits", "bind"}, NEW x
      PROVE  RecordsOf(action, x)' = RecordsOf(action, x)
  <2>1. /\ Len(audits) \in Nat /\ Len(audits') = Len(audits) + 2
        /\ \A i \in 1 .. Len(audits) : audits'[i] = audits[i]
        /\ audits'[Len(audits) + 1] = first /\ audits'[Len(audits) + 2] = second
    BY <1>1 DEF IInv, Shape
  <2>2. QED
    BY <1>4, <2>1 DEF RecordsOf
<1>6. principals'[o] = row /\ \A x \in Ids \ {o} : principals'[x] = principals[x]
  BY <1>1, <1>2 DEF IInv, Shape
<1>7. row # None
  BY <1>3, NoneAssumption
<1>8. ASSUME NEW p \in Ids PROVE Prepared(p)'
  <2>1. CASE p = o
    BY <1>2, <1>3, <1>5, <1>6, <1>7, <2>1 DEF PreparedInv, Prepared, Initialised, Bound, Exists
  <2>2. CASE p # o
    BY <1>5, <1>6, <2>2, PreparedKept DEF PreparedInv, Exists
  <2>3. QED
    BY <2>1, <2>2
<1>9. QED
  BY <1>8 DEF PreparedInv

\* The three UPDATEs of a principal's row: p is the row, `row` what it becomes.
LEMMA PreparedUpdate ==
  ASSUME IInv, PreparedInv, NEW o \in Operations, NEW p \in Ids, NEW row \in Principals,
         command[o].kind \in Kinds, Exists(p), principals' = [principals EXCEPT ![p] = row],
         NEW before \in Principals, NEW after \in Principals, Audit(o, p, before, after),
         \/ /\ command[o].kind = "disable"
            /\ row.limits = principals[p].limits /\ row.legacy = principals[p].legacy
         \/ /\ command[o].kind = "limits" /\ principals[p].limits = None
            /\ row.limits # None /\ row.legacy = principals[p].legacy
         \/ /\ command[o].kind = "bind" /\ principals[p].legacy = None
            /\ row.limits = principals[p].limits /\ row.legacy # None
  PROVE  PreparedInv'
<1>1. /\ row # None /\ principals'[p] = row
      /\ \A x \in Ids \ {p} : principals'[x] = principals[x]
  BY NoneAssumption DEF IInv, Shape
<1>2. ASSUME NEW action, NEW x
      PROVE  RecordsOf(action, x)' = IF action = command[o].kind /\ x = p
                                     THEN RecordsOf(action, x) \cup {Len(audits) + 1}
                                     ELSE RecordsOf(action, x)
  BY AuditAppends
<1>3. ASSUME NEW x \in Ids \ {p} PROVE Prepared(x)'
  <2>1. /\ RecordsOf("limits", x)' = RecordsOf("limits", x)
        /\ RecordsOf("bind", x)' = RecordsOf("bind", x)
    BY <1>2, <1>3
  <2>2. QED
    BY <1>1, <2>1, PreparedKept DEF PreparedInv, Exists
<1>4. Prepared(p)'
  <2>1. Prepared(p)
    BY DEF PreparedInv
  <2>2. CASE command[o].kind = "disable"
    BY <1>1, <1>2, <2>1, <2>2, PreparedKept DEF Exists
  <2>3. CASE command[o].kind = "limits"
    <3>1. p \in DOMAIN Provisioned /\ RecordsOf("limits", p) = {}
      BY <2>1, <2>3 DEF Prepared, Initialised
    <3>2. /\ RecordsOf("limits", p)' = {Len(audits) + 1}
          /\ RecordsOf("bind", p)' = RecordsOf("bind", p)
      BY <1>2, <2>3, <3>1
    <3>3. QED
      BY <1>1, <2>1, <2>3, <3>1, <3>2 DEF Prepared, Initialised, Bound, Exists
  <2>4. CASE command[o].kind = "bind"
    <3>1. RecordsOf("bind", p) = {}
      BY <2>1, <2>4 DEF Prepared, Bound
    <3>2. /\ RecordsOf("bind", p)' = {Len(audits) + 1}
          /\ RecordsOf("limits", p)' = RecordsOf("limits", p)
      BY <1>2, <2>4, <3>1
    <3>3. QED
      BY <1>1, <2>1, <2>4, <3>1, <3>2 DEF Prepared, Initialised, Bound, Exists
  <2>5. QED
    BY <2>2, <2>3, <2>4
<1>5. QED
  BY <1>3, <1>4 DEF PreparedInv
\* Commits that write no row of a principal record neither.
LEMMA PreparedCredential ==
  ASSUME IInv, PreparedInv, NEW o \in Operations, CommitIssue(o) \/ CommitRevoke(o)
  PROVE  PreparedInv'
<1>1. principals' = principals
  BY DEF CommitIssue, CommitRevoke
<1>2. ASSUME NEW action \in {"limits", "bind"}, NEW x
      PROVE  RecordsOf(action, x)' = RecordsOf(action, x)
  <2>1. CASE CommitIssue(o)
    <3> DEFINE after == NewCredential(o)
    <3>1. Commit(o, "issue") /\ Audit(o, o, None, after)
      BY <2>1 DEF CommitIssue
    <3>2. /\ command[o].kind = "issue" /\ command[o].kind \in Kinds /\ o \in Ids
          /\ WellFormed(o, command[o])
      BY <3>1, CommitFrame DEF Kinds
    <3>3. after \in Credentials
      BY <3>2, NewCredentialType
    <3> HIDE DEF after
    <3>4. RecordsOf(action, x)' = IF action = command[o].kind /\ x = o
                                  THEN RecordsOf(action, x) \cup {Len(audits) + 1}
                                  ELSE RecordsOf(action, x)
      <4> DEFINE before == None
      <4>1. /\ before \in Principals \cup Credentials \cup {None}
            /\ Audit(o, o, before, after) /\ after \in Principals \cup Credentials
        BY <3>1, <3>3
      <4> HIDE DEF before
      <4>2. QED
        BY <3>2, <4>1, AuditAppends
    <3>5. QED
      BY <3>2, <3>4
  <2>2. CASE CommitRevoke(o)
    <3> DEFINE c == command[o].credential
               before == [credentials[c] EXCEPT !.revoked = FALSE]
               after == [before EXCEPT !.revoked = TRUE]
    <3>1. Commit(o, "revoke") /\ Audit(o, c, before, after)
      BY <2>2 DEF CommitRevoke
    <3>2. /\ command[o].kind = "revoke" /\ command[o].kind \in Kinds /\ stage[o] = "writing"
          /\ WellFormed(o, command[o])
      BY <3>1, CommitFrame DEF Kinds
    <3>3. c \in Ids /\ credentials[c] \in Credentials
      BY <3>2 DEF IInv, Shape, Call, WellFormed
    <3>4. before \in Credentials /\ after \in Credentials
      BY <3>3 DEF Credentials
    <3> HIDE DEF c, before, after
    <3>5. QED
      BY <3>1, <3>2, <3>3, <3>4, AuditAppends
  <2>3. QED
    BY <2>1, <2>2
<1>3. QED
  BY <1>1, <1>2, PreparedKept DEF PreparedInv, Exists

LEMMA PreparedCommit ==
  ASSUME IInv, PreparedInv, NEW o \in Operations,
         CommitDisable(o) \/ CommitLimits(o) \/ CommitBind(o)
  PROVE  PreparedInv'
<1> DEFINE p == command[o].principal
<1>1. /\ command[o].kind \in {"disable", "limits", "bind"} /\ command[o].kind \in Kinds
      /\ stage[o] = "writing" /\ WellFormed(o, command[o])
  BY CommitFrame DEF CommitDisable, CommitLimits, CommitBind, Kinds
<1>2. p \in Ids /\ Exists(p) /\ principals[p] \in Principals /\ seen[o] \in Principals
  BY <1>1 DEF IInv, Shape, Call, WellFormed, Binding, Cleared, Active, Exists
<1>3. CASE CommitDisable(o)
  <2> DEFINE row == [principals[p] EXCEPT !.disabled = TRUE]
             after == [seen[o] EXCEPT !.disabled = TRUE]
  <2>1. /\ command[o].kind = "disable" /\ principals' = [principals EXCEPT ![p] = row]
        /\ Audit(o, p, seen[o], after)
    BY <1>3 DEF CommitDisable, Commit
  <2>2. /\ row \in Principals /\ after \in Principals
        /\ row.limits = principals[p].limits /\ row.legacy = principals[p].legacy
    BY <1>2 DEF Principals
  <2> HIDE DEF row, after
  <2>3. QED
    BY <1>1, <1>2, <2>1, <2>2, PreparedUpdate
<1>4. CASE CommitLimits(o)
  <2> DEFINE row == [principals[p] EXCEPT !.limits = command[o].limits]
             after == [seen[o] EXCEPT !.limits = command[o].limits]
  <2>1. /\ command[o].kind = "limits" /\ principals[p].limits = None
        /\ principals' = [principals EXCEPT ![p] = row] /\ Audit(o, p, seen[o], after)
    BY <1>4 DEF CommitLimits, Commit
  <2>2. command[o].limits \in Limits /\ command[o].limits # None
    BY <1>1, <2>1, ProvisioningAssumption DEF WellFormed
  <2>3. /\ row \in Principals /\ after \in Principals
        /\ row.limits # None /\ row.legacy = principals[p].legacy
    BY <1>2, <2>2 DEF Principals
  <2> HIDE DEF row, after
  <2>4. QED
    BY <1>1, <1>2, <2>1, <2>3, PreparedUpdate
<1>5. CASE CommitBind(o)
  <2> DEFINE row == [principals[p] EXCEPT !.legacy = command[o].legacy]
             after == [seen[o] EXCEPT !.legacy = command[o].legacy]
  <2>1. /\ command[o].kind = "bind" /\ principals[p].legacy = None
        /\ principals' = [principals EXCEPT ![p] = row] /\ Audit(o, p, seen[o], after)
    BY <1>5 DEF CommitBind, Commit
  <2>2. command[o].legacy \in LegacyIds /\ command[o].legacy # None
    BY <1>1, <2>1, ProvisioningAssumption DEF WellFormed
  <2>3. /\ row \in Principals /\ after \in Principals
        /\ row.limits = principals[p].limits /\ row.legacy # None
    BY <1>2, <2>2 DEF Principals
  <2> HIDE DEF row, after
  <2>4. QED
    BY <1>1, <1>2, <2>1, <2>3, PreparedUpdate
<1>6. QED
  BY <1>3, <1>4, <1>5

LEMMA PreparedNext == IInv /\ PreparedInv /\ [Next]_vars => PreparedInv'
<1> SUFFICES ASSUME IInv, PreparedInv, [Next]_vars PROVE PreparedInv'
  OBVIOUS
<1>1. CASE UNCHANGED <<principals, credentials, audits>>
  <2> SUFFICES ASSUME NEW p \in Ids PROVE Prepared(p)'
    BY DEF PreparedInv
  <2>1. Prepared(p) /\ (Exists(p)' <=> Exists(p))
    BY <1>1 DEF PreparedInv, Exists
  <2>2. /\ RecordsOf("limits", p)' = RecordsOf("limits", p)
        /\ RecordsOf("bind", p)' = RecordsOf("bind", p)
    BY <1>1 DEF RecordsOf
  <2>3. QED
    BY <1>1, <2>1, <2>2, PreparedKept
<1>2. ASSUME NEW o \in Operations, Commits(o) PROVE PreparedInv'
  BY <1>2, PreparedCreate, PreparedCredential, PreparedCommit DEF Commits
<1>3. QED
  BY <1>1, <1>2, OnlyCommitsWrite

LEMMA PreparedInit == Init => PreparedInv
<1> SUFFICES ASSUME Init, NEW p \in Ids PROVE Prepared(p)
  BY DEF PreparedInv
<1>1. \A action : RecordsOf(action, p) = {}
  BY DEF Init, RecordsOf
<1>2. CASE p \in DOMAIN Provisioned
  <2> DEFINE row == [binding |-> Provisioned[p], limits |-> None, legacy |-> None,
                     disabled |-> FALSE]
  <2>1. principals[p] = row
    BY <1>2 DEF Init
  <2>2. row \in Principals /\ row.limits = None /\ row.legacy = None
    BY <1>2, ProvisioningAssumption DEF Principals
  <2> HIDE DEF row
  <2>3. Exists(p) /\ ~Initialised(p) /\ ~Bound(p)
    BY <2>1, <2>2, NoneAssumption DEF Initialised, Bound, Exists
  <2>4. QED
    BY <1>1, <1>2, <2>3 DEF Prepared
<1>3. CASE p \notin DOMAIN Provisioned
  BY <1>1, <1>3 DEF Init, Prepared, Initialised, Bound, Exists
<1>4. QED
  BY <1>2, <1>3

\* Limits are initialised and identities bound at most once, each with exactly
\* one record, although several calls may pass the check before.
THEOREM RecordedOnce == Spec => []PreparedOnce
<1>1. ASSUME PreparedInv PROVE PreparedOnce
  <2>1. ASSUME NEW S, NEW i, S = {i} PROVE Cardinality(S) = 1
    BY <2>1, FS_Singleton
  <2>2. Cardinality({}) = 0
    BY FS_EmptySet
  <2>3. ASSUME NEW p \in Ids
        PROVE  /\ Cardinality(RecordsOf("limits", p)) = IF Initialised(p) THEN 1 ELSE 0
               /\ Cardinality(RecordsOf("bind", p)) = IF Bound(p) THEN 1 ELSE 0
    BY <1>1, <2>1, <2>2 DEF PreparedInv, Prepared
  <2>4. QED
    BY <2>3 DEF PreparedOnce, Initialised, Bound
<1>2. QED
  BY <1>1, PreparedInit, PreparedNext, Inductive, PTL DEF Spec

-----------------------------------------------------------------------------
(***************************************************************************)
(* Nobody waits for a call that waits.  That CanGoOn(o) makes              *)
(* Transaction(o) ENABLED is left to the run.                              *)
(***************************************************************************)

\* handlers.py:210-211, the order of the two locks: a binding that holds both waits
\* for nothing, one that holds the first waits for such a one, and everybody else
\* waits for one of the two, so among any number of open calls one goes on.
THEOREM CallsServed == Spec => []SomebodyCanGoOn
<1>1. ASSUME IInv  PROVE SomebodyCanGoOn
  <2> SUFFICES ASSUME NEW o \in Operations, stage[o] \in Live
               PROVE  \E q \in Operations : CanGoOn(q)
    BY DEF SomebodyCanGoOn
  <2> USE <1>1
  <2>1. ASSUME NEW q \in Operations, Binding(q, {"locked", "writing"})  PROVE CanGoOn(q)
    BY <2>1 DEF IInv, Call, Cleared, Binding, CanGoOn
  <2>2. CASE \A q \in Operations : ~Binding(q, {"locked", "writing"})
    <3>1. \A q \in Operations : RowFree(q)
      BY <2>2 DEF RowFree
    <3>2. ASSUME NEW q \in Operations, Binding(q, {"claiming"})  PROVE CanGoOn(q)
      BY <3>1, <3>2 DEF Binding, CanGoOn
    <3>3. CASE \A q \in Operations : ~Binding(q, {"claiming"})
      <4>1. LegacyFree(o)
        BY <2>2, <3>3 DEF LegacyFree, Binding
      <4>2. WellFormed(o, command[o]) /\ (stage[o] \in {"claiming", "locked"} => Binding(o, {stage[o]}))
        BY DEF IInv, Call, Binding
      <4>3. stage[o] \in {"opening", "writing"} /\ (stage[o] = "writing" => command[o].kind # "bind")
        BY <2>2, <3>3, <4>2 DEF Binding, Live
      <4>4. QED
        BY <3>1, <4>1, <4>2, <4>3 DEF CanGoOn, WellFormed, Kinds
    <3>4. QED
      BY <3>2, <3>3
  <2>3. QED
    BY <2>1, <2>2
<1>2. QED
  BY <1>1, Inductive, PTL

StagesLeft(s) ==
  CASE s = "idle"     -> 5
    [] s = "opening"  -> 4
    [] s = "claiming" -> 3
    [] s = "locked"   -> 2
    [] s = "writing"  -> 1
    [] OTHER          -> 0

Moves(o) == Deny(o) \/ Requested(o) \/ Transaction(o) \/ Abort(o)

\* What a call does takes it from one stage to a later one.
Later(o) == \E from, to \in {"idle", "opening", "claiming", "locked", "writing", "refused",
                             "failed", "done"} :
              Advance(o, from, to) /\ StagesLeft(to) < StagesLeft(from)

LEMMA MovesLeadOn == \A o \in Operations : Moves(o) => Later(o)
<1> SUFFICES ASSUME NEW o \in Operations, Moves(o)  PROVE Later(o)
  OBVIOUS
<1> DEFINE Stage == {"idle", "opening", "claiming", "locked", "writing", "refused", "failed", "done"}
<1>1. ASSUME NEW from \in Stage, NEW to \in Stage, Advance(o, from, to),
             StagesLeft(to) < StagesLeft(from)
      PROVE  Later(o)
  BY <1>1 DEF Later
<1>2. /\ StagesLeft("idle") = 5 /\ StagesLeft("opening") = 4 /\ StagesLeft("claiming") = 3
      /\ StagesLeft("locked") = 2 /\ StagesLeft("writing") = 1
      /\ StagesLeft("refused") = 0 /\ StagesLeft("failed") = 0 /\ StagesLeft("done") = 0
  BY DEF StagesLeft
<1>3. CASE Deny(o) \/ Requested(o)
  <2>1. Advance(o, "idle", "refused") \/ Advance(o, "idle", "opening")
    BY <1>3 DEF Deny, Requested, End, Start, StartCreate, StartIssue, StartRevoke, StartDisable,
       StartLimits, StartBind
  <2>2. QED
    BY <1>1, <1>2, <2>1
<1>4. CASE LockLegacy(o) \/ LockRow(o) \/ Read(o) \/ Check(o) \/ Refuse(o)
  <2>1. \/ Advance(o, "opening", "claiming") \/ Advance(o, "claiming", "locked")
        \/ Advance(o, "opening", "writing") \/ Advance(o, "locked", "writing")
        \/ Advance(o, "opening", "refused") \/ Advance(o, "locked", "refused")
    BY <1>4 DEF LockLegacy, LockRow, Read, Check, Refuse, End
  <2>2. QED
    BY <1>1, <1>2, <2>1
<1>5. CASE \/ CommitCreate(o) \/ CommitIssue(o) \/ CommitRevoke(o) \/ CommitDisable(o)
           \/ CommitLimits(o) \/ LoseLimits(o) \/ CommitBind(o)
  <2>1. Advance(o, "writing", "done") \/ Advance(o, "writing", "refused")
    BY <1>5 DEF CommitCreate, CommitIssue, CommitRevoke, CommitDisable, CommitLimits, LoseLimits,
       CommitBind, Commit, End
  <2>2. QED
    BY <1>1, <1>2, <2>1
<1>6. CASE Abort(o)
  <2>1. \E from \in Live : Advance(o, from, "failed")
    BY <1>6 DEF Abort, End
  <2>2. QED
    BY <1>1, <1>2, <2>1 DEF Live
<1>7. QED
  BY <1>3, <1>4, <1>5, <1>6 DEF Moves, Transaction

\* No step leads a call back, nor another one: there is no loop and no retry in
\* handlers.py.  With CallsServed, what is left to a fair scheduler is to take steps.
THEOREM StepsLeadOn ==
  Spec => [][\A o \in Operations :
               /\ Moves(o) => StagesLeft(stage'[o]) < StagesLeft(stage[o])
               /\ StagesLeft(stage'[o]) <= StagesLeft(stage[o])]_vars
<1>1. ASSUME IInv, NEW o \in Operations, Moves(o)
      PROVE  /\ StagesLeft(stage'[o]) < StagesLeft(stage[o])
             /\ \A q \in Operations \ {o} : stage'[q] = stage[q]
  BY <1>1, MovesLeadOn DEF Later, Advance, IInv, Shape
<1>2. \A s : StagesLeft(s) \in Nat
  BY DEF StagesLeft
<1>3. ASSUME IInv, [Next]_vars, NEW q \in Operations
      PROVE  StagesLeft(stage'[q]) <= StagesLeft(stage[q])
  <2>1. CASE UNCHANGED stage
    BY <1>2, <2>1
  <2>2. ASSUME NEW o \in Operations, Moves(o)
        PROVE  StagesLeft(stage'[q]) <= StagesLeft(stage[q])
    BY <1>1, <1>2, <1>3, <2>2
  <2>3. QED
    BY <1>3, <2>1, <2>2 DEF Next, Moves, Tick, vars
<1>4. IInv /\ [Next]_vars =>
        [\A o \in Operations :
           /\ Moves(o) => StagesLeft(stage'[o]) < StagesLeft(stage[o])
           /\ StagesLeft(stage'[o]) <= StagesLeft(stage[o])]_vars
  BY <1>1, <1>3
<1>5. QED
  BY <1>4, Inductive, PTL DEF Spec
=============================================================================
