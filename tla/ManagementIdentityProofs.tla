----------------------- MODULE ManagementIdentityProofs -----------------------
(***************************************************************************)
(* Proofs about ManagementIdentity, for all values of its constants: its   *)
(* types, that removals never lock the managers out, that it               *)
(* bootstraps once, that every removal happens once and is recorded once,  *)
(* what a removal leaves behind where credentials expire, that its calls   *)
(* implement IdentityDirectory, and that they do not all wait.             *)
(***************************************************************************)
EXTENDS ManagementIdentity, FiniteSetTheorems, TLAPS

(***************************************************************************)
(* What a call in flight knows: its kind fixes its stages, its actor and   *)
(* the rows it checked exist (no row is ever deleted), and its own ids are *)
(* unused until it commits.                                                *)
(***************************************************************************)
WellFormed(m, at) ==
  /\ at \in {"opening", "waiting", "checking"} => m.kind \in Locked
  /\ at = "reading" => m.kind = "issue"
  /\ at = "writing" => m.kind \in Kinds
  /\ at \in Live /\ (at = "authenticated" \/ m.kind # "bootstrap") =>
       m.actor \in Operations /\ Exists(m.actor)
  /\ at \in {"reading", "writing"} /\ m.kind = "issue" =>
       m.principal \in Operations /\ m.expires \in Expiries
  /\ at \in Live \ {"authenticated"} /\ m.kind = "bootstrap" =>
       m.manager = TRUE /\ m.expires = Never
  /\ at \in Live \ {"authenticated"} /\ m.kind \in {"revoke", "disable"} =>
       m.principal \in Operations
  /\ at \in Live \ {"authenticated"} /\ m.kind = "revoke" => m.credential \in Operations
  /\ at = "writing" /\ m.kind = "revoke" => Issued(m.credential)
  /\ at = "writing" /\ m.kind = "disable" => Exists(m.principal)

CallInv ==
  \A o \in Operations :
    /\ WellFormed(command[o], stage[o])
    /\ stage[o] # "done" => principals[o] = None /\ credentials[o] = None

\* The advisory lock excludes: a locked call past its wait is the holder.
LockInv ==
  \A o \in Operations :
    stage[o] = "checking" \/ (stage[o] = "writing" /\ command[o].kind \in Locked) => lock = o

\* A removal that is about to be written goes on from a row of its kind.
SeenInv ==
  \A o \in Operations : stage[o] = "writing" =>
    /\ command[o].kind = "revoke" => seen[o] \in Credentials
    /\ command[o].kind = "disable" => seen[o] \in Principals

TypeInv == TypeOK /\ CallInv /\ LockInv /\ SeenInv

-----------------------------------------------------------------------------
LEMMA InitType == Init => TypeInv
BY OperationsAssumption
DEF Init, TypeInv, TypeOK, CallInv, WellFormed, LockInv, SeenInv, Times, Commands, NoCommand, Stages, Live

LEMMA NoCommandType == NoCommand \in Commands
BY OperationsAssumption DEF NoCommand, Commands, Times

LEMMA TickType == TypeInv /\ Tick => TypeInv'
BY OperationsAssumption
DEF Tick, TypeInv, TypeOK, CallInv, WellFormed, LockInv, SeenInv, Times, Exists, Issued

LEMMA EndType ==
  ASSUME TypeInv, NEW o \in Operations, NEW from \in Live,
         NEW to \in {"refused", "failed"}, End(o, from, to), Release(o),
         UNCHANGED <<clock, principals, credentials, audits>>
  PROVE  TypeInv'
<1>1. TypeOK'
  BY OperationsAssumption
  DEF TypeInv, TypeOK, End, Advance, Release, NoCommand, Commands, Times, Stages, Live
<1>2. CallInv'
  BY <1>1 DEF TypeInv, TypeOK, CallInv, WellFormed, End, Advance, Live, Exists, Issued
<1>3. LockInv'
  BY OperationsAssumption DEF TypeInv, TypeOK, LockInv, End, Advance, Release
<1>4. SeenInv'
  BY DEF TypeInv, TypeOK, SeenInv, End, Advance
<1>5. QED
  BY <1>1, <1>2, <1>3, <1>4 DEF TypeInv

\* A call moves on with a well-formed request; it neither takes nor frees the lock.
LEMMA RequestType ==
  ASSUME TypeInv, NEW o \in Operations, NEW from \in Stages \ {"checking", "writing", "done"},
         NEW to \in Live \ {"checking"}, NEW request \in Commands,
         Advance(o, from, to), command' = [command EXCEPT ![o] = request],
         WellFormed(request, to), to = "writing" => request.kind \notin Locked,
         UNCHANGED <<clock, principals, credentials, audits, lock, seen>>
  PROVE  TypeInv'
<1>1. TypeOK'
  BY DEF TypeInv, TypeOK, Advance, Stages, Live
<1>2. /\ stage[o] = from /\ stage'[o] = to /\ command'[o] = request
      /\ \A q \in Operations \ {o} : stage'[q] = stage[q] /\ command'[q] = command[q]
  BY DEF TypeInv, TypeOK, Advance
<1>3. CallInv'
  BY <1>2 DEF TypeInv, CallInv, WellFormed, Live, Exists, Issued
<1>4. LockInv'
  BY <1>2 DEF TypeInv, LockInv, Live
<1>5. SeenInv'
  BY <1>2 DEF TypeInv, SeenInv, Locked
<1>6. QED
  BY <1>1, <1>3, <1>4, <1>5 DEF TypeInv

LEMMA AuthenticateType ==
  ASSUME TypeInv, NEW o \in Operations, NEW c \in Operations, Authenticate(o, c)
  PROVE  TypeInv'
<1>1. /\ credentials[c].owner \in Operations /\ Exists(credentials[c].owner)
      /\ stage[o] = "idle" /\ command[o] \in Commands
  BY DEF TypeInv, TypeOK, Authenticate, Advance, Usable, Active, Issued, Credentials
<1>2. DEFINE request == [command[o] EXCEPT !.actor = credentials[c].owner]
<1>3. command' = [command EXCEPT ![o] = request]
  BY DEF Authenticate, TypeInv, TypeOK
<1>4. request \in Commands /\ request.actor = credentials[c].owner
  BY <1>1 DEF Commands
<1>5. WellFormed(request, "authenticated")
  BY <1>1, <1>4 DEF WellFormed, Live
<1>6. QED
  BY <1>1, <1>3, <1>4, <1>5, RequestType DEF Authenticate, Stages, Live

\* A call that opens its transaction, or starts to read or to write, holds a
\* well-formed request of its kind.
LEMMA StartType ==
  ASSUME TypeInv, NEW o \in Operations,
         \/ StartBootstrap(o)
         \/ \E manager \in BOOLEAN : StartCreate(o, manager)
         \/ \E p \in Operations, expires \in Expiries : StartIssue(o, p, expires)
         \/ \E p, c \in Operations : StartRevoke(o, p, c)
         \/ \E p \in Operations : StartDisable(o, p)
  PROVE  TypeInv'
<1>1. /\ command[o] \in Commands /\ clock \in Times
      /\ stage[o] = "authenticated" =>
           command[o].actor \in Operations /\ Exists(command[o].actor)
  BY DEF TypeInv, TypeOK, CallInv, WellFormed, Live
<1>2. CASE StartBootstrap(o)
  <2> DEFINE request == [NoCommand EXCEPT !.kind = "bootstrap", !.manager = TRUE,
                                     !.expires = Never, !.now = clock]
  <2>1. Start(o, "idle", "opening", request)
    BY <1>2 DEF StartBootstrap
  <2>2. request \in Commands
    BY <1>1, NoCommandType, OperationsAssumption DEF Commands, Kinds, Locked
  <2>3. /\ request.kind = "bootstrap" /\ request.manager = TRUE /\ request.expires = Never
    BY NoCommandType DEF Commands
  <2> HIDE DEF request
  <2>4. WellFormed(request, "opening")
    BY <1>1, <2>1, <2>3 DEF WellFormed, Locked, Start, Advance
  <2>5. QED
    BY <2>1, <2>2, <2>3, <2>4, RequestType DEF Start, Stages, Live, Locked
<1>3. ASSUME NEW manager \in BOOLEAN, StartCreate(o, manager)
      PROVE  TypeInv'
  <2> DEFINE request == [command[o] EXCEPT !.kind = "create", !.manager = manager, !.now = clock]
  <2>1. Start(o, "authenticated", "writing", request)
    BY <1>3 DEF StartCreate
  <2>2. request \in Commands
    BY <1>1 DEF Commands, Kinds, Locked
  <2>3. /\ request.kind = "create" /\ request.actor = command[o].actor
    BY <1>1 DEF Commands
  <2> HIDE DEF request
  <2>4. WellFormed(request, "writing")
    BY <1>1, <2>1, <2>3 DEF WellFormed, Kinds, Locked, Start, Advance
  <2>5. QED
    BY <2>1, <2>2, <2>3, <2>4, RequestType DEF Start, Stages, Live, Locked
<1>4. ASSUME NEW p \in Operations, NEW expires \in Expiries, StartIssue(o, p, expires)
      PROVE  TypeInv'
  <2> DEFINE request == [command[o] EXCEPT !.kind = "issue", !.principal = p,
                                      !.expires = expires, !.now = clock]
  <2>1. Start(o, "authenticated", "reading", request)
    BY <1>4 DEF StartIssue
  <2>2. request \in Commands
    BY <1>1 DEF Commands, Kinds, Locked
  <2>3. /\ request.kind = "issue" /\ request.actor = command[o].actor
        /\ request.principal = p /\ request.expires = expires
    BY <1>1 DEF Commands
  <2> HIDE DEF request
  <2>4. WellFormed(request, "reading")
    BY <1>1, <2>1, <2>3 DEF WellFormed, Locked, Start, Advance
  <2>5. QED
    BY <2>1, <2>2, <2>3, <2>4, RequestType DEF Start, Stages, Live, Locked
<1>5. ASSUME NEW p \in Operations, NEW c \in Operations, StartRevoke(o, p, c)
      PROVE  TypeInv'
  <2> DEFINE request == [command[o] EXCEPT !.kind = "revoke", !.principal = p,
                                      !.credential = c, !.now = clock]
  <2>1. Start(o, "authenticated", "opening", request)
    BY <1>5 DEF StartRevoke
  <2>2. request \in Commands
    BY <1>1 DEF Commands, Kinds, Locked
  <2>3. /\ request.kind = "revoke" /\ request.actor = command[o].actor
        /\ request.principal = p /\ request.credential = c
    BY <1>1 DEF Commands
  <2> HIDE DEF request
  <2>4. WellFormed(request, "opening")
    BY <1>1, <2>1, <2>3 DEF WellFormed, Locked, Start, Advance
  <2>5. QED
    BY <2>1, <2>2, <2>3, <2>4, RequestType DEF Start, Stages, Live, Locked
<1>6. ASSUME NEW p \in Operations, StartDisable(o, p)
      PROVE  TypeInv'
  <2> DEFINE request == [command[o] EXCEPT !.kind = "disable", !.principal = p, !.now = clock]
  <2>1. Start(o, "authenticated", "opening", request)
    BY <1>6 DEF StartDisable
  <2>2. request \in Commands
    BY <1>1 DEF Commands, Kinds, Locked
  <2>3. /\ request.kind = "disable" /\ request.actor = command[o].actor
        /\ request.principal = p
    BY <1>1 DEF Commands
  <2> HIDE DEF request
  <2>4. WellFormed(request, "opening")
    BY <1>1, <2>1, <2>3 DEF WellFormed, Locked, Start, Advance
  <2>5. QED
    BY <2>1, <2>2, <2>3, <2>4, RequestType DEF Start, Stages, Live, Locked
<1>7. QED
  BY <1>2, <1>3, <1>4, <1>5, <1>6

LEMMA LockType ==
  ASSUME TypeInv, NEW o \in Operations, RequestLock(o) \/ AcquireLock(o) \/ Check(o)
  PROVE  TypeInv'
<1>1. CASE RequestLock(o)
  <2>1. TypeOK'
    BY <1>1 DEF TypeInv, TypeOK, RequestLock, Advance, Commands, Times, Stages, Live
  <2>2. CallInv' /\ LockInv'
    BY <1>1, <2>1
    DEF TypeInv, TypeOK, CallInv, WellFormed, LockInv, RequestLock, Advance, Commands, Live, Exists, Issued
  <2>3. SeenInv'
    BY <1>1 DEF TypeInv, TypeOK, SeenInv, RequestLock, Advance
  <2>4. QED
    BY <2>1, <2>2, <2>3 DEF TypeInv
<1>2. CASE AcquireLock(o)
  <2>1. TypeOK'
    BY <1>2 DEF TypeInv, TypeOK, AcquireLock, Advance, Stages, Live
  <2>2. CallInv' /\ LockInv'
    BY <1>2, <2>1, OperationsAssumption
    DEF TypeInv, TypeOK, CallInv, WellFormed, LockInv, AcquireLock, Advance, Live, Exists, Issued
  <2>3. SeenInv'
    BY <1>2 DEF TypeInv, TypeOK, SeenInv, AcquireLock, Advance
  <2>4. QED
    BY <2>1, <2>2, <2>3 DEF TypeInv
<1>3. CASE Check(o)
  <2>0. /\ Target(o) \in Rows \cup {None}
        /\ command[o].kind = "revoke" => Target(o) \in Credentials
        /\ command[o].kind = "disable" => Target(o) \in Principals
    <3>1. /\ command[o].kind = "revoke" =>
               command[o].credential \in Operations /\ Issued(command[o].credential)
          /\ command[o].kind = "disable" =>
               command[o].principal \in Operations /\ Exists(command[o].principal)
      BY <1>3
      DEF TypeInv, CallInv, WellFormed, Live, Check, Advance, Permitted, RevokePermitted,
          DisablePermitted, Active
    <3>2. CASE command[o].kind = "revoke"
      BY <3>1, <3>2 DEF Target, TypeInv, TypeOK, Issued, Rows
    <3>3. CASE command[o].kind = "disable"
      BY <3>1, <3>3 DEF Target, TypeInv, TypeOK, Exists, Rows
    <3>4. QED
      BY <3>2, <3>3 DEF Target
  <2>1. TypeOK'
    BY <1>3, <2>0 DEF TypeInv, TypeOK, Check, Advance, Stages, Live
  <2>2. CallInv'
    <3>1. /\ command[o].kind = "revoke" => Issued(command[o].credential)
          /\ command[o].kind = "disable" => Exists(command[o].principal)
      BY <1>3 DEF Check, Permitted, RevokePermitted, DisablePermitted, Active
    <3>2. /\ stage[o] \in {"checking", "reading"} /\ stage'[o] = "writing"
          /\ \A q \in Operations \ {o} : stage'[q] = stage[q]
          /\ UNCHANGED <<principals, credentials, command>>
      BY <1>3 DEF TypeInv, TypeOK, Check, Advance
    <3>3. WellFormed(command[o], "writing")
      BY <3>1, <3>2 DEF TypeInv, CallInv, WellFormed, Live, Locked, Kinds
    <3>4. QED
      BY <3>2, <3>3 DEF TypeInv, CallInv, WellFormed, Exists, Issued
  <2>3. LockInv'
    BY <1>3, <2>1 DEF TypeInv, TypeOK, CallInv, WellFormed, LockInv, Check, Advance, Locked
  <2>4. SeenInv'
    BY <1>3, <2>0 DEF TypeInv, TypeOK, SeenInv, Check, Advance
  <2>5. QED
    BY <2>1, <2>2, <2>3, <2>4 DEF TypeInv
<1>4. QED
  BY <1>1, <1>2, <1>3

\* What every commit does to the call, the lock and the audit trail.
LEMMA CommitFrame ==
  ASSUME TypeInv, NEW o \in Operations, NEW kind \in Kinds, Commit(o, kind)
  PROVE  /\ stage[o] = "writing" /\ command[o].kind = kind
         /\ stage' \in [Operations -> Stages] /\ command' \in [Operations -> Commands]
         /\ lock' \in {q \in Operations : stage'[q] \in {"checking", "writing"}} \cup {None}
         /\ seen' \in [Operations -> Rows \cup {None}]
         /\ LockInv' /\ SeenInv'
BY OperationsAssumption
DEF TypeInv, TypeOK, LockInv, SeenInv, Commit, End, Advance, Release, NoCommand, Commands,
    Times, Stages, Live

LEMMA AuditType ==
  ASSUME TypeInv, NEW o \in Operations, NEW resource \in Operations,
         command[o].kind \in Kinds, command[o].actor \in Operations,
         NEW after \in Rows, Audit(o, resource, after)
  PROVE  audits' \subseteq Records
<1> DEFINE record == [id |-> o, actor |-> command[o].actor, action |-> command[o].kind,
                      resource |-> resource, before |-> seen[o], after |-> after]
<1>1. record \in Records /\ audits' = audits \cup {record}
  BY DEF TypeInv, TypeOK, Audit, Records
<1> HIDE DEF record
<1>2. QED
  BY <1>1 DEF TypeInv, TypeOK

\* Whoever commits anything but the bootstrap was authenticated.
LEMMA ActorKnown ==
  ASSUME TypeInv, NEW o \in Operations, stage[o] = "writing", command[o].kind # "bootstrap"
  PROVE  command[o].actor \in Operations /\ Exists(command[o].actor)
BY DEF TypeInv, CallInv, WellFormed, Live

\* CallInv of the other calls needs only that no row disappears, and that
\* nothing but the committing call's own ids comes into use.
LEMMA CommitCalls ==
  ASSUME TypeInv, NEW o \in Operations, NEW kind \in Kinds, Commit(o, kind),
         \A q \in Operations : Exists(q) => Exists(q)',
         \A q \in Operations : Issued(q) => Issued(q)',
         \A q \in Operations \ {o} : ~Exists(q) => ~Exists(q)',
         \A q \in Operations \ {o} : ~Issued(q) => ~Issued(q)'
  PROVE  CallInv'
BY DEF TypeInv, TypeOK, CallInv, WellFormed, Commit, End, Advance, Live, Exists, Issued

LEMMA CommitType ==
  ASSUME TypeInv, NEW o \in Operations,
         \/ CommitBootstrap(o) \/ CommitCreate(o) \/ CommitIssue(o)
         \/ CommitRevoke(o) \/ CommitDisable(o)
  PROVE  TypeInv'
<1> USE NoneAssumption, OperationsAssumption
<1>1. CASE CommitBootstrap(o)
  <2>1. /\ NewPrincipal(o) \in Principals
        /\ NewCredential(o, o) \in Credentials
    BY <1>1, CommitFrame
    DEF TypeInv, TypeOK, CallInv, WellFormed, CommitBootstrap, Commit, End, Advance, Kinds, Locked, Live,
        NewPrincipal, NewCredential, Principals, Credentials, Commands
  <2>2. TypeOK'
    BY <1>1, <2>1, CommitFrame
    DEF TypeInv, TypeOK, CommitBootstrap, Commit, Kinds, Locked
  <2>3. CallInv'
    BY <1>1, <2>1, CommitCalls
    DEF TypeInv, TypeOK, CommitBootstrap, Exists, Issued, Kinds, Locked
  <2>4. QED
    BY <1>1, <2>2, <2>3, CommitFrame DEF TypeInv, CommitBootstrap, Kinds, Locked
<1>2. CASE CommitCreate(o)
  <2>1. NewPrincipal(o) \in Principals
    BY DEF TypeInv, TypeOK, NewPrincipal, Principals, Commands
  <2>2. TypeOK'
    <3>1. /\ Commit(o, "create") /\ Audit(o, o, NewPrincipal(o)) /\ NewPrincipal(o) \in Rows
          /\ stage[o] = "writing" /\ command[o].kind = "create" /\ "create" \in Kinds
      BY <1>2, <2>1 DEF CommitCreate, Commit, End, Advance, Rows, Kinds
    <3>2. audits' \subseteq Records
      BY <3>1, ActorKnown, AuditType
    <3>3. QED
      BY <1>2, <2>1, <3>1, <3>2, CommitFrame DEF TypeInv, TypeOK, CommitCreate, Commit
  <2>3. CallInv'
    BY <1>2, <2>1, CommitCalls DEF TypeInv, TypeOK, CommitCreate, Exists, Issued, Kinds
  <2>4. QED
    BY <1>2, <2>2, <2>3, CommitFrame DEF TypeInv, CommitCreate, Kinds
<1>3. CASE CommitIssue(o)
  <2>1. NewCredential(o, command[o].principal) \in Credentials
    BY <1>3
    DEF TypeInv, CallInv, WellFormed, CommitIssue, Commit, End, Advance, NewCredential, Credentials
  <2>2. TypeOK'
    <3> DEFINE row == NewCredential(o, command[o].principal)
    <3>1. /\ Commit(o, "issue") /\ Audit(o, o, row) /\ row \in Rows
          /\ stage[o] = "writing" /\ command[o].kind = "issue" /\ "issue" \in Kinds
      BY <1>3, <2>1 DEF CommitIssue, Commit, End, Advance, Rows, Kinds
    <3>2. audits' \subseteq Records
      <4> HIDE DEF row
      <4> QED
        BY <3>1, ActorKnown, AuditType
    <3>3. QED
      BY <1>3, <2>1, <3>1, <3>2, CommitFrame DEF TypeInv, TypeOK, CommitIssue, Commit
  <2>3. CallInv'
    BY <1>3, <2>1, CommitCalls DEF TypeInv, TypeOK, CommitIssue, Exists, Issued, Kinds
  <2>4. QED
    BY <1>3, <2>2, <2>3, CommitFrame DEF TypeInv, CommitIssue, Kinds
<1>4. CASE CommitRevoke(o)
  <2>1. /\ command[o].credential \in Operations
        /\ credentials[command[o].credential] \in Credentials
    BY <1>4
    DEF TypeInv, TypeOK, CallInv, WellFormed, CommitRevoke, Commit, End, Advance, Live, Issued
  <2>2. [credentials[command[o].credential] EXCEPT !.revoked = TRUE] \in Credentials
    BY <2>1 DEF Credentials
  <2>3. TypeOK'
    <3> DEFINE after == [seen[o] EXCEPT !.revoked = TRUE]
    <3>1. /\ Commit(o, "revoke") /\ Audit(o, command[o].credential, after)
          /\ stage[o] = "writing" /\ command[o].kind = "revoke" /\ "revoke" \in Kinds
      BY <1>4 DEF CommitRevoke, Commit, End, Advance, Kinds, Locked
    <3>2. after \in Rows
      BY <3>1 DEF TypeInv, SeenInv, Credentials, Rows
    <3>3. audits' \subseteq Records
      <4> HIDE DEF after
      <4> QED
        BY <2>1, <3>1, <3>2, ActorKnown, AuditType
    <3>4. QED
      BY <1>4, <2>1, <2>2, <3>1, <3>3, CommitFrame DEF TypeInv, TypeOK, CommitRevoke, Commit
  <2>4. CallInv'
    BY <1>4, <2>1, <2>2, CommitCalls
    DEF TypeInv, TypeOK, CommitRevoke, Exists, Issued, Kinds, Locked
  <2>5. QED
    BY <1>4, <2>3, <2>4, CommitFrame DEF TypeInv, CommitRevoke, Kinds, Locked
<1>5. CASE CommitDisable(o)
  <2>1. /\ command[o].principal \in Operations
        /\ principals[command[o].principal] \in Principals
    BY <1>5
    DEF TypeInv, TypeOK, CallInv, WellFormed, CommitDisable, Commit, End, Advance, Live, Exists
  <2>2. [principals[command[o].principal] EXCEPT !.disabled = TRUE] \in Principals
    BY <2>1 DEF Principals
  <2>3. TypeOK'
    <3> DEFINE after == [seen[o] EXCEPT !.disabled = TRUE]
    <3>1. /\ Commit(o, "disable") /\ Audit(o, command[o].principal, after)
          /\ stage[o] = "writing" /\ command[o].kind = "disable" /\ "disable" \in Kinds
      BY <1>5 DEF CommitDisable, Commit, End, Advance, Kinds, Locked
    <3>2. after \in Rows
      BY <3>1 DEF TypeInv, SeenInv, Principals, Rows
    <3>3. audits' \subseteq Records
      <4> HIDE DEF after
      <4> QED
        BY <2>1, <3>1, <3>2, ActorKnown, AuditType
    <3>4. QED
      BY <1>5, <2>1, <2>2, <3>1, <3>3, CommitFrame DEF TypeInv, TypeOK, CommitDisable, Commit
  <2>4. CallInv'
    BY <1>5, <2>1, <2>2, CommitCalls
    DEF TypeInv, TypeOK, CommitDisable, Exists, Issued, Kinds, Locked
  <2>5. QED
    BY <1>5, <2>3, <2>4, CommitFrame DEF TypeInv, CommitDisable, Kinds, Locked
<1>6. QED
  BY <1>1, <1>2, <1>3, <1>4, <1>5

LEMMA OperationType ==
  ASSUME TypeInv, NEW o \in Operations, Requested(o) \/ Transaction(o) \/ Abort(o)
  PROVE  TypeInv'
<1>1. CASE RefuseRequest(o)
  BY <1>1, EndType DEF RefuseRequest, Release, End, Advance, TypeInv, TypeOK, Live, LockInv
<1>2. CASE Refuse(o)
  BY <1>2, EndType DEF Refuse, Live
<1>3. CASE Abort(o)
  BY <1>3, EndType DEF Abort
<1>4. CASE Requested(o) /\ ~RefuseRequest(o)
  BY <1>4, StartType DEF Requested, Targets
<1>5. CASE Transaction(o) /\ ~Refuse(o)
  BY <1>5, LockType, CommitType DEF Transaction
<1>6. QED
  BY <1>1, <1>2, <1>3, <1>4, <1>5

LEMMA NextType == TypeInv /\ [Next]_vars => TypeInv'
<1> SUFFICES ASSUME TypeInv, [Next]_vars PROVE TypeInv'
  OBVIOUS
<1>1. CASE Tick
  BY <1>1, TickType
<1>2. ASSUME NEW o \in Operations, StartBootstrap(o)
      PROVE  TypeInv'
  BY <1>2, StartType
<1>3. CASE UNCHANGED vars
  BY <1>3 DEF vars, TypeInv, TypeOK, CallInv, WellFormed, LockInv, SeenInv, Exists, Issued
<1>4. QED
  BY <1>1, <1>2, <1>3, AuthenticateType, OperationType DEF Next

\* Every reachable state is well typed, and the advisory lock is never leaked.
THEOREM TypeCorrect == Spec => []TypeOK
<1>1. TypeInv => TypeOK
  BY DEF TypeInv
<1>2. QED
  BY InitType, NextType, <1>1, PTL DEF Spec

\* The guards of Requested(o) and Transaction(o): of these the lock alone makes a
\* call wait.
CanGoOn(o) ==
  \/ stage[o] \in {"authenticated", "opening", "checking", "reading"}
  \/ stage[o] = "waiting" /\ lock = None
  \/ stage[o] = "writing" /\ command[o].kind \in Kinds

\* handlers.py:208-267: whoever waits for the advisory lock waits for a call that
\* is past it and waits for nothing, so that of any number of calls one goes on.
THEOREM LockServes ==
  Spec => []((\E o \in Operations : stage[o] \in Live) => \E o \in Operations : CanGoOn(o))
<1>1. ASSUME TypeInv, NEW o \in Operations, stage[o] \in Live
      PROVE  \E q \in Operations : CanGoOn(q)
  <2>1. CASE stage[o] = "waiting" /\ lock # None
    <3>1. lock \in Operations /\ stage[lock] \in {"checking", "writing"}
      BY <1>1, <2>1 DEF TypeInv, TypeOK
    <3>2. QED
      BY <1>1, <3>1 DEF TypeInv, CallInv, WellFormed, CanGoOn
  <2>2. CASE ~(stage[o] = "waiting" /\ lock # None)
    BY <1>1, <2>2 DEF TypeInv, CallInv, WellFormed, CanGoOn, Live
  <2>3. QED
    BY <2>1, <2>2
<1>2. TypeInv => ((\E o \in Operations : stage[o] \in Live) => \E o \in Operations : CanGoOn(o))
  BY <1>1
<1>3. QED
  BY InitType, NextType, <1>2, PTL DEF Spec

-----------------------------------------------------------------------------
(***************************************************************************)
(* Recoverability.  Some active manager holds a credential that nobody     *)
(* revoked, whether or not it expires by itself.  The mutation that a call *)
(* under the lock is about to commit leaves one: that is GuardInv, the     *)
(* conclusion of the call's check kept alive until its commit.  Where no   *)
(* credential expires that manager is recoverable at every instant.        *)
(***************************************************************************)
Recovers(p, c) ==
  /\ Active(p) /\ principals[p].manager
  /\ Issued(c) /\ ~credentials[c].revoked /\ credentials[c].owner = p

GuardInv ==
  \A o \in Operations : stage[o] = "writing" =>
    /\ command[o].kind = "revoke" =>
         \E p, c \in Operations : Recovers(p, c) /\ c # command[o].credential
    /\ command[o].kind = "disable" =>
         \E p, c \in Operations : Recovers(p, c) /\ p # command[o].principal

Manned == (\E p \in Operations : Exists(p)) => \E p, c \in Operations : Recovers(p, c)

RecoverInv == TypeInv /\ GuardInv /\ Manned

LEMMA UsableIsUnrevoked ==
  ASSUME TypeInv, Expiries = {Never}, NEW c \in Operations, NEW at
  PROVE  Usable(c, at) <=> Issued(c) /\ ~credentials[c].revoked
BY DEF TypeInv, TypeOK, Usable, Issued, Credentials

LEMMA RecoverableHolds ==
  ASSUME NEW at
  PROVE  \A p \in RecoverableManagers(at) : \E c \in Operations : Recovers(p, c)
BY DEF RecoverableManagers, Recovers, Usable

LEMMA RecoverableMeans ==
  ASSUME TypeInv, Expiries = {Never}, NEW at
  PROVE  \A p : p \in RecoverableManagers(at) <=>
                  p \in Operations /\ \E c \in Operations : Recovers(p, c)
BY UsableIsUnrevoked DEF RecoverableManagers, Recovers

\* A step that neither revokes nor disables keeps every recoverable manager.
LEMMA RecoversKept ==
  ASSUME TypeInv, NEW p \in Operations, NEW c \in Operations, Recovers(p, c),
         principals'[p] = principals[p], credentials'[c] = credentials[c]
  PROVE  Recovers(p, c)'
BY DEF Recovers, Active, Exists, Issued

\* The check of a revocation or a disablement establishes GuardInv.
LEMMA CheckGuards ==
  ASSUME RecoverInv, NEW o \in Operations, Check(o)
  PROVE  /\ command[o].kind = "revoke" =>
              \E p, c \in Operations : Recovers(p, c) /\ c # command[o].credential
         /\ command[o].kind = "disable" =>
              \E p, c \in Operations : Recovers(p, c) /\ p # command[o].principal
<1> DEFINE t == command[o].principal
           d == command[o].credential
<1>1. \A at : OtherManager(t, at) =>
        \E p, c \in Operations : Recovers(p, c) /\ p # t
  <2> SUFFICES ASSUME NEW at, NEW p \in RecoverableManagers(at), p # t
               PROVE  p \in Operations /\ \E c \in Operations : Recovers(p, c)
    BY DEF OtherManager
  <2> QED
    BY RecoverableHolds DEF RecoverableManagers
<1>2. stage[o] \in {"checking", "reading"} /\ Permitted(o)
  BY DEF Check, Advance
<1>3. ASSUME command[o].kind = "revoke"
      PROVE  \E p, c \in Operations : Recovers(p, c) /\ c # d
  <2>1. RevokePermitted(o) /\ t \in Operations /\ d \in Operations
    BY <1>2, <1>3 DEF Permitted, RecoverInv, TypeInv, CallInv, WellFormed, Live
  <2>2. credentials[d].owner = t /\ Exists(t)
    BY <2>1 DEF RevokePermitted
  <2>3. CASE OtherManager(t, command[o].begun)
    BY <1>1, <2>2, <2>3 DEF Recovers
  <2>4. CASE /\ Active(t) /\ principals[t].manager
             /\ \E c \in Operations \ {d} :
                  Usable(c, command[o].now) /\ credentials[c].owner = t
    BY <2>1, <2>4 DEF Recovers, Usable
  <2>5. CASE ~(Active(t) /\ principals[t].manager)
    BY <2>1, <2>2, <2>5 DEF RecoverInv, Manned, Recovers
  <2>6. QED
    BY <2>1, <2>3, <2>4, <2>5 DEF RevokePermitted
<1>4. ASSUME command[o].kind = "disable"
      PROVE  \E p, c \in Operations : Recovers(p, c) /\ p # t
  <2>1. DisablePermitted(o) /\ t \in Operations
    BY <1>2, <1>4 DEF Permitted, RecoverInv, TypeInv, CallInv, WellFormed, Live
  <2>2. CASE OtherManager(t, command[o].begun)
    BY <1>1, <2>2
  <2>3. CASE ~principals[t].manager
    BY <2>1, <2>3 DEF DisablePermitted, RecoverInv, Manned, Recovers, Active
  <2>4. QED
    BY <2>1, <2>2, <2>3 DEF DisablePermitted
<1>5. QED
  BY <1>3, <1>4

\* A step that leaves both tables alone, and moves no call but by Check to the
\* writing of a revocation or a disablement.
LEMMA QuietStep ==
  ASSUME RecoverInv, UNCHANGED <<principals, credentials>>,
         \A o \in Operations :
           stage'[o] = "writing" =>
             \/ stage[o] = "writing" /\ command'[o] = command[o]
             \/ command'[o].kind \notin {"revoke", "disable"}
             \/ Check(o)
  PROVE  GuardInv' /\ Manned'
<1>1. \A p, c \in Operations : Recovers(p, c)' <=> Recovers(p, c)
  BY DEF Recovers, Active, Exists, Issued
<1>2. Manned'
  BY <1>1 DEF RecoverInv, Manned, Exists
<1>3. ASSUME NEW o \in Operations, stage'[o] = "writing"
      PROVE  /\ command'[o].kind = "revoke" =>
                  \E p, c \in Operations : Recovers(p, c)' /\ c # command'[o].credential
             /\ command'[o].kind = "disable" =>
                  \E p, c \in Operations : Recovers(p, c)' /\ p # command'[o].principal
  <2>1. CASE stage[o] = "writing" /\ command'[o] = command[o]
    BY <2>1, <1>1 DEF RecoverInv, GuardInv
  <2>2. CASE command'[o].kind \notin {"revoke", "disable"}
    BY <2>2
  <2>3. CASE Check(o)
    BY <2>3, <1>1, CheckGuards DEF Check
  <2>4. QED
    BY <1>3, <2>1, <2>2, <2>3
<1>4. GuardInv'
  BY <1>3 DEF GuardInv
<1>5. QED
  BY <1>2, <1>4

\* A commit that adds rows under the call's own ids.
LEMMA AddingStep ==
  ASSUME RecoverInv, NEW o \in Operations,
         CommitBootstrap(o) \/ CommitCreate(o) \/ CommitIssue(o)
  PROVE  GuardInv' /\ Manned'
<1>1. /\ stage[o] = "writing" /\ stage'[o] = "done"
      /\ \A q \in Operations \ {o} : stage'[q] = stage[q] /\ command'[q] = command[q]
      /\ principals[o] = None /\ credentials[o] = None
  BY DEF RecoverInv, TypeInv, TypeOK, CallInv, CommitBootstrap, CommitCreate, CommitIssue,
         Commit, End, Advance
<1>2. \A x \in Operations \ {o} :
        principals'[x] = principals[x] /\ credentials'[x] = credentials[x]
  BY DEF RecoverInv, TypeInv, TypeOK, CommitBootstrap, CommitCreate, CommitIssue
<1>3. principals' \in [Operations -> Principals \cup {None}] /\
      credentials' \in [Operations -> Credentials \cup {None}]
  BY CommitType DEF RecoverInv, TypeInv, TypeOK
<1>4. ASSUME NEW p \in Operations, NEW c \in Operations, Recovers(p, c)
      PROVE  Recovers(p, c)'
  <2>1. principals[p] # None /\ credentials[c] # None
    BY <1>4 DEF Recovers, Active, Exists, Issued
  <2>2. CASE CommitBootstrap(o) \/ CommitCreate(o)
    BY <1>1, <1>2, <1>4, <2>1, RecoversKept DEF RecoverInv
  <2>3. CASE CommitIssue(o)
    BY <1>1, <1>2, <1>4, <2>1, <2>3, RecoversKept DEF RecoverInv, CommitIssue
  <2>4. QED
    BY <2>2, <2>3
<1>5. GuardInv'
  BY <1>1, <1>4 DEF RecoverInv, GuardInv
<1>6. Manned'
  <2>1. CASE CommitBootstrap(o)
    <3>1. /\ principals'[o] = NewPrincipal(o) /\ credentials'[o] = NewCredential(o, o)
          /\ command[o].manager = TRUE
          /\ NewPrincipal(o) \in Principals /\ NewCredential(o, o) \in Credentials
      BY <2>1, OperationsAssumption
      DEF RecoverInv, TypeInv, TypeOK, CallInv, WellFormed, CommitBootstrap, Commit, End,
          Advance, Live, NewPrincipal, NewCredential, Principals, Credentials, Commands
    <3>2. principals'[o] # None /\ credentials'[o] # None
      BY <3>1, NoneAssumption
    <3>3. /\ principals'[o].manager = command[o].manager /\ principals'[o].disabled = FALSE
          /\ credentials'[o].revoked = FALSE /\ credentials'[o].owner = o
      BY <3>1 DEF NewPrincipal, NewCredential
    <3>4. Active(o)' /\ principals'[o].manager
      BY <3>1, <3>2, <3>3, Zenon DEF Active, Exists
    <3>5. Recovers(o, o)'
      BY <3>2, <3>3, <3>4 DEF Recovers, Issued
    <3>6. QED
      BY <3>5 DEF Manned
  <2>2. CASE CommitCreate(o) \/ CommitIssue(o)
    <3>1. \E p \in Operations : Exists(p)
      BY <2>2
      DEF RecoverInv, TypeInv, CallInv, WellFormed, CommitCreate, CommitIssue, Commit, End,
          Advance, Live
    <3>2. \E p, c \in Operations : Recovers(p, c)
      BY <3>1 DEF RecoverInv, Manned
    <3>3. QED
      BY <3>2, <1>4 DEF Manned
  <2>3. QED
    BY <2>1, <2>2
<1>7. QED
  BY <1>5, <1>6

\* Only the holder of the lock revokes or disables, and what its check found
\* is still there.
LEMMA RemovingStep ==
  ASSUME RecoverInv, NEW o \in Operations, CommitRevoke(o) \/ CommitDisable(o)
  PROVE  GuardInv' /\ Manned'
<1>1. /\ stage[o] = "writing" /\ stage'[o] = "done" /\ command[o].kind \in Locked
      /\ \A q \in Operations \ {o} : stage'[q] = stage[q] /\ command'[q] = command[q]
  BY DEF RecoverInv, TypeInv, TypeOK, CommitRevoke, CommitDisable, Commit, End, Advance, Locked
<1>2. \A q \in Operations \ {o} : stage[q] = "writing" => command[q].kind \notin Locked
  BY <1>1 DEF RecoverInv, TypeInv, LockInv
<1>3. GuardInv'
  BY <1>1, <1>2 DEF GuardInv, Locked
<1>4. CASE CommitRevoke(o)
  <2>1. PICK p \in Operations, c \in Operations :
             Recovers(p, c) /\ c # command[o].credential
    BY <1>1, <1>4 DEF RecoverInv, GuardInv, CommitRevoke, Commit
  <2>2. principals'[p] = principals[p] /\ credentials'[c] = credentials[c]
    BY <1>4, <2>1 DEF CommitRevoke, RecoverInv, TypeInv, TypeOK
  <2>3. QED
    BY <1>3, <2>1, <2>2, RecoversKept DEF Manned, RecoverInv
<1>5. CASE CommitDisable(o)
  <2>1. PICK p \in Operations, c \in Operations :
             Recovers(p, c) /\ p # command[o].principal
    BY <1>1, <1>5 DEF RecoverInv, GuardInv, CommitDisable, Commit
  <2>2. principals'[p] = principals[p] /\ credentials'[c] = credentials[c]
    BY <1>5, <2>1 DEF CommitDisable, RecoverInv, TypeInv, TypeOK
  <2>3. QED
    BY <1>3, <2>1, <2>2, RecoversKept DEF Manned, RecoverInv
<1>6. QED
  BY <1>4, <1>5

\* Outside the commits, a call begins to write by passing its check or, when it
\* creates a Principal, as soon as it is authenticated.
LEMMA OnlyChecksWrite ==
  ASSUME TypeInv, NEW o \in Operations,
         \/ StartBootstrap(o) \/ RequestLock(o) \/ AcquireLock(o) \/ Check(o) \/ Refuse(o)
         \/ Requested(o) \/ Abort(o) \/ \E c \in Operations : Authenticate(o, c)
  PROVE  stage'[o] = "writing" => Check(o) \/ command'[o].kind = "create"
<1>1. stage \in [Operations -> Stages] /\ command \in [Operations -> Commands]
  BY DEF TypeInv, TypeOK
<1>2. CASE StartBootstrap(o) \/ \E c \in Operations : Authenticate(o, c)
  BY <1>1, <1>2 DEF StartBootstrap, Authenticate, Start, Advance
<1>3. CASE RequestLock(o) \/ AcquireLock(o) \/ Refuse(o) \/ Abort(o)
  BY <1>1, <1>3 DEF RequestLock, AcquireLock, Refuse, Abort, End, Advance
<1>4. CASE \E manager \in BOOLEAN : StartCreate(o, manager)
  BY <1>1, <1>4 DEF StartCreate, Start, Commands
<1>5. CASE Requested(o) /\ ~\E manager \in BOOLEAN : StartCreate(o, manager)
  BY <1>1, <1>5
  DEF Requested, RefuseRequest, StartIssue, StartRevoke, StartDisable, Start, End, Advance
<1>6. QED
  BY <1>2, <1>3, <1>4, <1>5

LEMMA RecoverNext ==
  ASSUME RecoverInv, [Next]_vars
  PROVE  RecoverInv'
<1>1. TypeInv'
  BY NextType DEF RecoverInv
<1>2. CASE Tick \/ UNCHANGED vars
  BY <1>1, <1>2, QuietStep DEF RecoverInv, Tick, vars
<1>3. ASSUME NEW o \in Operations,
             \/ StartBootstrap(o) \/ RequestLock(o) \/ AcquireLock(o) \/ Check(o) \/ Refuse(o)
             \/ Requested(o) \/ Abort(o) \/ \E c \in Operations : Authenticate(o, c)
      PROVE  GuardInv' /\ Manned'
  <2>1. UNCHANGED <<principals, credentials>>
    BY <1>3
    DEF StartBootstrap, RequestLock, AcquireLock, Check, Refuse, Requested, Abort, Authenticate,
        RefuseRequest, StartCreate, StartIssue, StartRevoke, StartDisable, Start
  <2>2. \A q \in Operations \ {o} : stage'[q] = stage[q] /\ command'[q] = command[q]
    BY <1>3
    DEF RecoverInv, TypeInv, TypeOK, StartBootstrap, RequestLock, AcquireLock, Check, Refuse,
        Requested, Abort, Authenticate, RefuseRequest, StartCreate, StartIssue, StartRevoke,
        StartDisable, Start, End, Advance
  <2>3. stage'[o] = "writing" => Check(o) \/ command'[o].kind = "create"
    BY <1>3, OnlyChecksWrite DEF RecoverInv
  <2>4. QED
    BY <2>1, <2>2, <2>3, QuietStep
<1>4. QED
  BY <1>1, <1>2, <1>3, AddingStep, RemovingStep DEF RecoverInv, Next, Transaction

LEMMA RecoverInvariant == Spec => []RecoverInv
<1>1. Init => RecoverInv
  BY InitType DEF Init, RecoverInv, GuardInv, Manned, Exists
<1>2. RecoverInv /\ [Next]_vars => RecoverInv'
  BY RecoverNext
<1>3. QED
  BY <1>1, <1>2, PTL DEF Spec

\* Whatever revocations, disablements, issuances and crashes interleave, a
\* bootstrapped deployment whose credentials do not expire keeps a manager that
\* can authenticate.
THEOREM Recoverable ==
  ASSUME Expiries = {Never}
  PROVE  Spec => []AlwaysRecoverable
<1>1. RecoverInv => AlwaysRecoverable
  BY RecoverableMeans DEF RecoverInv, Manned, AlwaysRecoverable
<1>2. QED
  BY <1>1, RecoverInvariant, PTL
-----------------------------------------------------------------------------
(***************************************************************************)
(* Bootstrap, and the records of what was removed.                         *)
(***************************************************************************)
Recorded(action, x) == \E a \in audits : a.action = action /\ a.resource = x

\* What a check under the lock found is still so when its call commits.
FreshInv ==
  \A o \in Operations : stage[o] = "writing" =>
    /\ command[o].kind = "bootstrap" => \A p \in Operations : ~Exists(p)
    /\ command[o].kind = "revoke" => ~credentials[command[o].credential].revoked
    /\ command[o].kind = "disable" => ~principals[command[o].principal].disabled

OneFounder ==
  \A p, q \in Operations :
    /\ Exists(p) /\ ~Recorded("create", p)
    /\ Exists(q) /\ ~Recorded("create", q)
    => p = q

RecordsMatch ==
  /\ \A x \in Operations :
       /\ Recorded("revoke", x) <=> Issued(x) /\ credentials[x].revoked
       /\ Recorded("disable", x) <=> Exists(x) /\ principals[x].disabled
  /\ \A a, b \in audits :
       /\ a.action \in {"revoke", "disable"}
       /\ b.action = a.action /\ b.resource = a.resource
       => a = b

OnceInv == TypeInv /\ FreshInv /\ OneFounder /\ RecordsMatch

-----------------------------------------------------------------------------
LEMMA CheckFinds ==
  ASSUME TypeInv, NEW o \in Operations, Check(o)
  PROVE  /\ command[o].kind = "bootstrap" => \A p \in Operations : ~Exists(p)
         /\ command[o].kind = "revoke" => ~credentials[command[o].credential].revoked
         /\ command[o].kind = "disable" => ~principals[command[o].principal].disabled
BY DEF Check, Permitted, BootstrapPermitted, RevokePermitted, DisablePermitted, Active

\* A step that leaves the tables and the trail alone, and moves no call but by
\* Check to the writing of a mutation that takes the lock.
LEMMA QuietOnce ==
  ASSUME OnceInv, UNCHANGED <<principals, credentials, audits>>,
         \A o \in Operations :
           stage'[o] = "writing" =>
             \/ stage[o] = "writing" /\ command'[o] = command[o]
             \/ command'[o].kind = "create"
             \/ Check(o)
  PROVE  FreshInv' /\ OneFounder' /\ RecordsMatch'
<1>1. FreshInv'
  <2> SUFFICES ASSUME NEW o \in Operations, stage'[o] = "writing"
               PROVE  /\ command'[o].kind = "bootstrap" => \A p \in Operations : ~Exists(p)'
                      /\ command'[o].kind = "revoke" =>
                           ~credentials'[command'[o].credential].revoked
                      /\ command'[o].kind = "disable" =>
                           ~principals'[command'[o].principal].disabled
    BY DEF FreshInv
  <2>1. CASE stage[o] = "writing" /\ command'[o] = command[o]
    BY <2>1 DEF OnceInv, FreshInv, Exists
  <2>2. CASE Check(o)
    <3>1. command'[o] = command[o]
      BY <2>2 DEF Check
    <3>2. QED
      BY <2>2, <3>1, CheckFinds DEF OnceInv, Exists
  <2>3. QED
    BY <2>1, <2>2
<1>2. OneFounder' /\ RecordsMatch'
  BY DEF OnceInv, OneFounder, RecordsMatch, Recorded, Exists, Issued
<1>3. QED
  BY <1>1, <1>2

-----------------------------------------------------------------------------
Committing(o) ==
  \/ CommitBootstrap(o) \/ CommitCreate(o) \/ CommitIssue(o)
  \/ CommitRevoke(o) \/ CommitDisable(o)

\* A commit ends its own call and moves no other; the rows of its own ids are new.
LEMMA CommitMoves ==
  ASSUME TypeInv, NEW o \in Operations, Committing(o)
  PROVE  /\ stage[o] = "writing" /\ stage'[o] = "done" /\ command[o].kind \in Kinds
         /\ \A q \in Operations \ {o} : stage'[q] = stage[q] /\ command'[q] = command[q]
         /\ principals[o] = None /\ credentials[o] = None
         /\ command[o].kind # "bootstrap" => \E p \in Operations : Exists(p)
BY DEF Committing, TypeInv, TypeOK, CallInv, WellFormed, CommitBootstrap, CommitCreate,
       CommitIssue, CommitRevoke, CommitDisable, Commit, End, Advance, Live, Kinds, Locked

\* Two calls past their wait for the lock do not exist.
LEMMA OneUnderLock ==
  ASSUME TypeInv, NEW o \in Operations, NEW q \in Operations \ {o},
         stage[o] = "writing", stage[q] = "writing", command[q].kind \in Locked
  PROVE  command[o].kind \notin Locked
BY DEF TypeInv, LockInv

LEMMA FreshKept ==
  ASSUME OnceInv, NEW o \in Operations, Committing(o)
  PROVE  FreshInv'
<1>1. TypeInv
  BY DEF OnceInv
<1> SUFFICES ASSUME NEW q \in Operations, stage'[q] = "writing", command'[q].kind \in Locked
             PROVE  /\ command'[q].kind = "bootstrap" => \A p \in Operations : ~Exists(p)'
                    /\ command'[q].kind = "revoke" =>
                         ~credentials'[command'[q].credential].revoked
                    /\ command'[q].kind = "disable" =>
                         ~principals'[command'[q].principal].disabled
  BY DEF FreshInv, Locked
<1>2. /\ q # o /\ stage[q] = "writing" /\ command'[q] = command[q]
      /\ command[q].kind \in Locked
  BY <1>1, CommitMoves
<1>3. CommitCreate(o) \/ CommitIssue(o)
  BY <1>1, <1>2, CommitMoves, OneUnderLock
  DEF Committing, CommitBootstrap, CommitRevoke, CommitDisable, Commit, Locked
<1>4. command[o].kind # "bootstrap"
  BY <1>3 DEF CommitCreate, CommitIssue, Commit
<1>5. command[q].kind # "bootstrap"
  BY <1>1, <1>2, <1>4, CommitMoves DEF OnceInv, FreshInv
<1>6. /\ command[q].kind = "revoke" => command[q].credential # o
      /\ command[q].kind = "disable" => command[q].principal # o
  BY <1>1, <1>2, CommitMoves DEF TypeInv, CallInv, WellFormed, Live, Exists, Issued
<1>7. \A x \in Operations \ {o} :
        principals'[x] = principals[x] /\ credentials'[x] = credentials[x]
  BY <1>1, <1>3 DEF TypeInv, TypeOK, CommitCreate, CommitIssue
<1>8. /\ command[q].kind = "revoke" => command[q].credential \in Operations
      /\ command[q].kind = "disable" => command[q].principal \in Operations
  BY <1>1, <1>2 DEF TypeInv, CallInv, WellFormed, Live
<1>9. QED
  BY <1>2, <1>5, <1>6, <1>7, <1>8 DEF OnceInv, FreshInv

-----------------------------------------------------------------------------
\* Every commit but the bootstrap adds its record, and adds no other.
LEMMA AuditAdds ==
  ASSUME NEW o \in Operations, NEW resource \in Operations, NEW after, Audit(o, resource, after),
         NEW action, NEW x
  PROVE  Recorded(action, x)' <=>
           Recorded(action, x) \/ (action = command[o].kind /\ x = resource)
<1> DEFINE new == [id |-> o, actor |-> command[o].actor, action |-> command[o].kind,
                   resource |-> resource, before |-> seen[o], after |-> after]
<1>1. audits' = audits \cup {new}
  BY DEF Audit
<1>2. new.action = command[o].kind /\ new.resource = resource
  OBVIOUS
<1> HIDE DEF new
<1>3. QED
  BY <1>1, <1>2 DEF Recorded

\* Records of removals stay unique if the new one is of another kind or the
\* first of its resource.
LEMMA RecordsUnique ==
  ASSUME OnceInv, NEW o \in Operations, NEW resource \in Operations, NEW after,
         Audit(o, resource, after),
         \/ command[o].kind \notin {"revoke", "disable"}
         \/ ~Recorded(command[o].kind, resource)
  PROVE  \A a, b \in audits' :
           /\ a.action \in {"revoke", "disable"}
           /\ b.action = a.action /\ b.resource = a.resource
           => a = b
<1> DEFINE new == [id |-> o, actor |-> command[o].actor, action |-> command[o].kind,
                   resource |-> resource, before |-> seen[o], after |-> after]
<1>1. audits' = audits \cup {new}
  BY DEF Audit
<1>2. new.action = command[o].kind /\ new.resource = resource
  OBVIOUS
<1> HIDE DEF new
<1>3. QED
  BY <1>1, <1>2 DEF OnceInv, RecordsMatch, Recorded

\* The bootstrap finds no Principal; a creation is recorded with its Principal.
LEMMA FounderKept ==
  ASSUME OnceInv, NEW o \in Operations, Committing(o)
  PROVE  OneFounder'
<1>1. TypeInv
  BY DEF OnceInv
<1>2. CASE CommitBootstrap(o)
  <2>1. \A p \in Operations : ~Exists(p)
    BY <1>1, <1>2, CommitMoves DEF OnceInv, FreshInv, CommitBootstrap, Commit
  <2>2. \A p \in Operations \ {o} : ~Exists(p)'
    BY <1>1, <1>2, <2>1 DEF TypeInv, TypeOK, CommitBootstrap, Exists
  <2>3. QED
    BY <2>2 DEF OneFounder
<1>3. CASE CommitCreate(o)
  <2>1. /\ Audit(o, o, NewPrincipal(o)) /\ command[o].kind = "create"
        /\ principals' = [principals EXCEPT ![o] = NewPrincipal(o)]
    BY <1>3 DEF CommitCreate, Commit
  <2>2. Recorded("create", o)'
    BY <2>1, AuditAdds
  <2>3. \A p \in Operations : Recorded("create", p) => Recorded("create", p)'
    BY <2>1, AuditAdds
  <2>4. \A p \in Operations \ {o} : Exists(p)' <=> Exists(p)
    BY <1>1, <2>1 DEF TypeInv, TypeOK, Exists
  <2>5. QED
    BY <2>2, <2>3, <2>4 DEF OnceInv, OneFounder
<1>4. CASE CommitIssue(o) \/ CommitRevoke(o) \/ CommitDisable(o)
  <2>1. \A p \in Operations : Exists(p)' => Exists(p)
    <3>1. CASE CommitIssue(o) \/ CommitRevoke(o)
      BY <3>1 DEF CommitIssue, CommitRevoke, Exists
    <3>2. CASE CommitDisable(o)
      BY <1>1, <3>2, CommitMoves
      DEF TypeInv, TypeOK, CallInv, WellFormed, CommitDisable, Commit, Live, Exists
    <3>3. QED
      BY <1>4, <3>1, <3>2
  <2>2. audits \subseteq audits'
    BY <1>4 DEF CommitIssue, CommitRevoke, CommitDisable, Audit
  <2>3. QED
    BY <2>1, <2>2 DEF OnceInv, OneFounder, Recorded
<1>5. QED
  BY <1>2, <1>3, <1>4 DEF Committing

\* The rows a commit adds are neither revoked nor disabled, and it disturbs no other.
LEMMA AddedRows ==
  ASSUME TypeInv, NEW o \in Operations,
         CommitBootstrap(o) \/ CommitCreate(o) \/ CommitIssue(o)
  PROVE  \A x \in Operations :
           /\ (Issued(x) /\ credentials[x].revoked)' <=> Issued(x) /\ credentials[x].revoked
           /\ (Exists(x) /\ principals[x].disabled)' <=> Exists(x) /\ principals[x].disabled
<1>1. principals[o] = None /\ credentials[o] = None
  BY CommitMoves DEF Committing
<1>2. \A x \in Operations \ {o} :
        principals'[x] = principals[x] /\ credentials'[x] = credentials[x]
  BY DEF TypeInv, TypeOK, CommitBootstrap, CommitCreate, CommitIssue
<1>3. /\ principals'[o] = None \/ ~principals'[o].disabled
      /\ credentials'[o] = None \/ ~credentials'[o].revoked
  <2>1. /\ principals'[o] \in {None, NewPrincipal(o)}
        /\ \/ credentials'[o] = None
           \/ \E owner : credentials'[o] = NewCredential(o, owner)
    BY <1>1 DEF TypeInv, TypeOK, CommitBootstrap, CommitCreate, CommitIssue
  <2>2. ~NewPrincipal(o).disabled /\ \A owner : ~NewCredential(o, owner).revoked
    BY DEF NewPrincipal, NewCredential
  <2>3. QED
    BY <2>1, <2>2
<1>4. QED
  BY <1>1, <1>2, <1>3 DEF Exists, Issued

LEMMA RecordsKept ==
  ASSUME OnceInv, NEW o \in Operations, Committing(o)
  PROVE  RecordsMatch'
<1>1. TypeInv
  BY DEF OnceInv
<1>2. CASE CommitBootstrap(o)
  BY <1>1, <1>2, AddedRows DEF OnceInv, RecordsMatch, Recorded, CommitBootstrap
<1>3. CASE CommitCreate(o) \/ CommitIssue(o)
  <2>1. (\E after : Audit(o, o, after)) /\ command[o].kind \in {"create", "issue"}
    BY <1>3 DEF CommitCreate, CommitIssue, Commit
  <2>2. \A x \in Operations :
          /\ Recorded("revoke", x)' <=> Recorded("revoke", x)
          /\ Recorded("disable", x)' <=> Recorded("disable", x)
    BY <2>1, AuditAdds
  <2>3. QED
    BY <1>1, <1>3, <2>1, <2>2, AddedRows, RecordsUnique DEF OnceInv, RecordsMatch
<1>4. CASE CommitRevoke(o)
  <2> DEFINE c == command[o].credential
  <2>1. /\ (\E after : Audit(o, c, after)) /\ command[o].kind = "revoke" /\ stage[o] = "writing"
        /\ credentials' = [credentials EXCEPT ![c].revoked = TRUE]
        /\ principals' = principals
    BY <1>1, <1>4, CommitMoves DEF Committing, CommitRevoke, Commit
  <2>2. c \in Operations /\ Issued(c) /\ ~credentials[c].revoked
    BY <1>1, <2>1 DEF OnceInv, FreshInv, TypeInv, CallInv, WellFormed, Live
  <2> HIDE DEF c
  <2>3. /\ \A x \in Operations \ {c} : credentials'[x] = credentials[x]
        /\ credentials'[c] # None /\ credentials'[c].revoked
    <3>1. credentials \in [Operations -> Credentials \cup {None}]
      BY <1>1 DEF TypeInv, TypeOK
    <3>2. credentials[c] \in Credentials
      BY <2>2, <3>1 DEF Issued
    <3>3. credentials'[c] = [credentials[c] EXCEPT !.revoked = TRUE]
      BY <2>1, <2>2, <3>1
    <3>4. credentials'[c] \in Credentials /\ credentials'[c].revoked = TRUE
      BY <3>2, <3>3 DEF Credentials
    <3>5. QED
      BY <2>1, <2>2, <3>1, <3>4, NoneAssumption
  <2>4. ~Recorded("revoke", c)
    BY <2>2 DEF OnceInv, RecordsMatch
  <2>5. \A x \in Operations :
          /\ Recorded("revoke", x)' <=> Recorded("revoke", x) \/ x = c
          /\ Recorded("disable", x)' <=> Recorded("disable", x)
    BY <2>1, <2>2, AuditAdds
  <2>6. \A a, b \in audits' :
          /\ a.action \in {"revoke", "disable"}
          /\ b.action = a.action /\ b.resource = a.resource
          => a = b
    BY <2>1, <2>2, <2>4, RecordsUnique
  <2>7. ASSUME NEW x \in Operations
        PROVE  /\ Recorded("revoke", x)' <=> Issued(x)' /\ credentials'[x].revoked
               /\ Recorded("disable", x)' <=> Exists(x)' /\ principals'[x].disabled
    <3>1. CASE x = c
      BY <2>1, <2>3, <2>5, <3>1 DEF OnceInv, RecordsMatch, Issued, Exists
    <3>2. CASE x # c
      BY <2>1, <2>3, <2>5, <3>2 DEF OnceInv, RecordsMatch, Issued, Exists
    <3>3. QED
      BY <3>1, <3>2
  <2>8. QED
    BY <2>6, <2>7 DEF RecordsMatch
<1>5. CASE CommitDisable(o)
  <2> DEFINE p == command[o].principal
  <2>1. /\ (\E after : Audit(o, p, after)) /\ command[o].kind = "disable" /\ stage[o] = "writing"
        /\ principals' = [principals EXCEPT ![p].disabled = TRUE]
        /\ credentials' = credentials
    BY <1>1, <1>5, CommitMoves DEF Committing, CommitDisable, Commit
  <2>2. p \in Operations /\ Exists(p) /\ ~principals[p].disabled
    BY <1>1, <2>1 DEF OnceInv, FreshInv, TypeInv, CallInv, WellFormed, Live
  <2> HIDE DEF p
  <2>3. /\ \A x \in Operations \ {p} : principals'[x] = principals[x]
        /\ principals'[p] # None /\ principals'[p].disabled
    <3>1. principals \in [Operations -> Principals \cup {None}]
      BY <1>1 DEF TypeInv, TypeOK
    <3>2. principals[p] \in Principals
      BY <2>2, <3>1 DEF Exists
    <3>3. principals'[p] = [principals[p] EXCEPT !.disabled = TRUE]
      BY <2>1, <2>2, <3>1
    <3>4. principals'[p] \in Principals /\ principals'[p].disabled = TRUE
      BY <3>2, <3>3 DEF Principals
    <3>5. QED
      BY <2>1, <2>2, <3>1, <3>4, NoneAssumption
  <2>4. ~Recorded("disable", p)
    BY <2>2 DEF OnceInv, RecordsMatch
  <2>5. \A x \in Operations :
          /\ Recorded("disable", x)' <=> Recorded("disable", x) \/ x = p
          /\ Recorded("revoke", x)' <=> Recorded("revoke", x)
    BY <2>1, <2>2, AuditAdds
  <2>6. \A a, b \in audits' :
          /\ a.action \in {"revoke", "disable"}
          /\ b.action = a.action /\ b.resource = a.resource
          => a = b
    BY <2>1, <2>2, <2>4, RecordsUnique
  <2>7. ASSUME NEW x \in Operations
        PROVE  /\ Recorded("disable", x)' <=> Exists(x)' /\ principals'[x].disabled
               /\ Recorded("revoke", x)' <=> Issued(x)' /\ credentials'[x].revoked
    <3>1. CASE x = p
      BY <2>1, <2>3, <2>5, <3>1 DEF OnceInv, RecordsMatch, Issued, Exists
    <3>2. CASE x # p
      BY <2>1, <2>3, <2>5, <3>2 DEF OnceInv, RecordsMatch, Issued, Exists
    <3>3. QED
      BY <3>1, <3>2
  <2>8. QED
    BY <2>6, <2>7 DEF RecordsMatch
<1>6. QED
  BY <1>2, <1>3, <1>4, <1>5 DEF Committing

-----------------------------------------------------------------------------
LEMMA OnceNext == OnceInv /\ [Next]_vars => OnceInv'
<1> SUFFICES ASSUME OnceInv, [Next]_vars PROVE OnceInv'
  OBVIOUS
<1>1. TypeInv'
  BY NextType DEF OnceInv
<1>2. CASE Tick \/ UNCHANGED vars
  BY <1>1, <1>2, QuietOnce DEF OnceInv, Tick, vars
<1>3. ASSUME NEW o \in Operations,
             \/ StartBootstrap(o) \/ RequestLock(o) \/ AcquireLock(o) \/ Check(o) \/ Refuse(o)
             \/ Requested(o) \/ Abort(o) \/ \E c \in Operations : Authenticate(o, c)
      PROVE  FreshInv' /\ OneFounder' /\ RecordsMatch'
  <2>1. UNCHANGED <<principals, credentials, audits>>
    BY <1>3
    DEF StartBootstrap, RequestLock, AcquireLock, Check, Refuse, Requested, Abort, Authenticate,
        RefuseRequest, StartCreate, StartIssue, StartRevoke, StartDisable, Start
  <2>2. \A q \in Operations \ {o} : stage'[q] = stage[q] /\ command'[q] = command[q]
    BY <1>3
    DEF OnceInv, TypeInv, TypeOK, StartBootstrap, RequestLock, AcquireLock, Check, Refuse,
        Requested, Abort, Authenticate, RefuseRequest, StartCreate, StartIssue, StartRevoke,
        StartDisable, Start, End, Advance
  <2>3. stage'[o] = "writing" => Check(o) \/ command'[o].kind = "create"
    BY <1>3, OnlyChecksWrite DEF OnceInv
  <2>4. QED
    BY <2>1, <2>2, <2>3, QuietOnce
<1>4. ASSUME NEW o \in Operations, Committing(o)
      PROVE  FreshInv' /\ OneFounder' /\ RecordsMatch'
  BY <1>4, FreshKept, FounderKept, RecordsKept
<1>5. QED
  BY <1>1, <1>2, <1>3, <1>4 DEF OnceInv, Next, Transaction, Committing

LEMMA OnceInvariant == Spec => []OnceInv
<1>1. Init => OnceInv
  BY InitType
  DEF Init, OnceInv, FreshInv, OneFounder, RecordsMatch, Recorded, Exists, Issued
<1>2. QED
  BY <1>1, OnceNext, PTL DEF Spec

\* Whatever bootstraps and creations compete, at most one Principal was created
\* without a recorded actor.
THEOREM OneBootstrap == Spec => []BootstrapOnce
<1>1. ASSUME OnceInv
      PROVE  BootstrapOnce
  <2> DEFINE founders == {p \in Operations :
                Exists(p) /\ ~\E a \in audits : a.action = "create" /\ a.resource = p}
  <2>1. CASE founders = {}
    BY <2>1, FS_EmptySet DEF BootstrapOnce
  <2>2. ASSUME NEW p \in founders
        PROVE  BootstrapOnce
    <3>1. founders = {p}
      BY <1>1, <2>2 DEF OnceInv, OneFounder, Recorded
    <3>2. Cardinality(founders) = 1
      BY <3>1, FS_Singleton
    <3>3. QED
      BY <3>2 DEF BootstrapOnce
  <2>3. QED
    BY <2>1, <2>2
<1>2. QED
  BY <1>1, OnceInvariant, PTL

\* A removal that is repeated, raced or overtaken takes effect and is recorded
\* exactly once.
THEOREM RemovalsRecordedOnce == Spec => []EvidenceExact
<1>1. ASSUME OnceInv, NEW action \in {"revoke", "disable"}, NEW x \in Operations
      PROVE  Cardinality({a \in audits : a.action = action /\ a.resource = x}) =
               (IF Recorded(action, x) THEN 1 ELSE 0)
  <2> DEFINE about == {a \in audits : a.action = action /\ a.resource = x}
  <2>1. CASE ~Recorded(action, x)
    <3>1. about = {}
      BY <2>1 DEF Recorded
    <3>2. QED
      BY <2>1, <3>1, FS_EmptySet
  <2>2. CASE Recorded(action, x)
    <3>1. PICK a \in audits : a.action = action /\ a.resource = x
      BY <2>2 DEF Recorded
    <3>2. about = {a}
      BY <1>1, <3>1 DEF OnceInv, RecordsMatch
    <3>3. QED
      BY <2>2, <3>2, FS_Singleton
  <2>3. QED
    BY <2>1, <2>2
<1>2. ASSUME OnceInv
      PROVE  EvidenceExact
  BY <1>1, <1>2 DEF EvidenceExact, OnceInv, RecordsMatch
<1>3. QED
  BY <1>2, OnceInvariant, PTL
-----------------------------------------------------------------------------
(***************************************************************************)
(* Protected removals.  The handler reads its clock before the transaction *)
(* begins, so what a check found usable at the transaction's begin was     *)
(* usable at the handler's instant; a removal keeps what its check found   *)
(* until it commits, for other calls only add rows while it holds the lock.*)
(***************************************************************************)
InstantsInv ==
  \A o \in Operations :
    /\ stage[o] = "opening" => command[o].now <= clock
    /\ stage[o] \in {"waiting", "checking"} => command[o].now <= command[o].begun

Saves(o, p, c) ==
  /\ Active(p) /\ principals[p].manager
  /\ Usable(c, command[o].now) /\ credentials[c].owner = p
  /\ command[o].kind = "revoke" => c # command[o].credential
  /\ command[o].kind = "disable" => p # command[o].principal

Guarded(o) ==
  /\ Exists(command[o].principal)
  /\ Active(command[o].principal) /\ principals[command[o].principal].manager =>
       \E p, c \in Operations : Saves(o, p, c)

ProtectedInv ==
  \A o \in Operations :
    stage[o] = "writing" /\ command[o].kind \in {"revoke", "disable"} => Guarded(o)

ProtectInv == TypeInv /\ InstantsInv /\ ProtectedInv

LEMMA UsableEarlier ==
  ASSUME TypeInv, NEW c \in Operations, NEW at \in Times, NEW then \in Times,
         at <= then, Usable(c, then)
  PROVE  Usable(c, at)
<1>1. credentials[c].expires \in Nat \cup {Never}
  BY OperationsAssumption DEF TypeInv, TypeOK, Usable, Issued, Credentials
<1>2. at \in Nat /\ then \in Nat
  BY OperationsAssumption DEF Times
<1>3. QED
  BY <1>1, <1>2 DEF Usable

LEMMA CheckSaves ==
  ASSUME ProtectInv, NEW o \in Operations, Check(o), command[o].kind \in {"revoke", "disable"}
  PROVE  Guarded(o)
<1> DEFINE t == command[o].principal
           d == command[o].credential
<1>1. /\ stage[o] = "checking" /\ Permitted(o) /\ t \in Operations
      /\ command[o].kind = "revoke" => d \in Operations
  BY DEF Check, Advance, ProtectInv, TypeInv, CallInv, WellFormed, Live
<1>2. /\ command[o].now \in Times /\ command[o].begun \in Times
      /\ command[o].now <= command[o].begun
  BY <1>1 DEF ProtectInv, TypeInv, TypeOK, InstantsInv, Commands
<1>3. ASSUME OtherManager(t, command[o].begun), Exists(t),
             command[o].kind = "revoke" => credentials[d].owner = t
      PROVE  \E p, c \in Operations : Saves(o, p, c)
  <2>1. PICK p \in Operations, c \in Operations :
             /\ p # t /\ Active(p) /\ principals[p].manager
             /\ Usable(c, command[o].begun) /\ credentials[c].owner = p
    BY <1>3 DEF OtherManager, RecoverableManagers
  <2>2. Usable(c, command[o].now)
    BY <1>2, <2>1, UsableEarlier DEF ProtectInv
  <2>3. Saves(o, p, c)
    BY <1>3, <2>1, <2>2 DEF Saves
  <2>4. QED
    BY <2>3
<1>4. CASE command[o].kind = "revoke"
  <2>1. RevokePermitted(o)
    BY <1>1, <1>4 DEF Permitted
  <2>2. ASSUME Active(t), principals[t].manager, NEW c \in Operations \ {d},
               Usable(c, command[o].now), credentials[c].owner = t
        PROVE  Saves(o, t, c)
    BY <1>4, <2>2 DEF Saves
  <2>3. QED
    BY <1>1, <1>3, <2>1, <2>2 DEF RevokePermitted, Guarded
<1>5. CASE command[o].kind = "disable"
  <2>1. DisablePermitted(o)
    BY <1>1, <1>5 DEF Permitted
  <2>2. QED
    BY <1>3, <1>5, <2>1 DEF DisablePermitted, Guarded, Active
<1>6. QED
  BY <1>4, <1>5

\* What was found is still there as long as its rows are.
LEMMA SavesKept ==
  ASSUME NEW o \in Operations, NEW p \in Operations, NEW c \in Operations, Saves(o, p, c),
         command'[o] = command[o], principals'[p] = principals[p],
         credentials'[c] = credentials[c]
  PROVE  Saves(o, p, c)'
BY DEF Saves, Active, Exists, Usable, Issued

LEMMA GuardedKept ==
  ASSUME NEW o \in Operations, Guarded(o), command'[o] = command[o],
         command[o].principal \in Operations,
         \A x \in Operations :
           /\ principals[x] # None => principals'[x] = principals[x]
           /\ credentials[x] # None => credentials'[x] = credentials[x]
  PROVE  Guarded(o)'
<1>1. principals'[command[o].principal] = principals[command[o].principal]
  BY DEF Guarded, Exists
<1>2. ASSUME NEW p \in Operations, NEW c \in Operations, Saves(o, p, c)
      PROVE  Saves(o, p, c)'
  BY <1>2, SavesKept DEF Saves, Active, Exists, Usable, Issued
<1>3. QED
  BY <1>1, <1>2 DEF Guarded, Active, Exists

\* A step that keeps existing rows, and moves no call but by Check to the
\* writing of a removal.
LEMMA ProtectedStep ==
  ASSUME ProtectInv,
         \A x \in Operations :
           /\ principals[x] # None => principals'[x] = principals[x]
           /\ credentials[x] # None => credentials'[x] = credentials[x],
         \A o \in Operations :
           stage'[o] = "writing" =>
             \/ stage[o] = "writing" /\ command'[o] = command[o]
             \/ command'[o].kind = "create"
             \/ Check(o)
  PROVE  ProtectedInv'
<1> SUFFICES ASSUME NEW o \in Operations, stage'[o] = "writing",
                    command'[o].kind \in {"revoke", "disable"}
             PROVE  Guarded(o)'
  BY DEF ProtectedInv
<1>1. CASE stage[o] = "writing" /\ command'[o] = command[o]
  <2>1. Guarded(o) /\ command[o].principal \in Operations
    BY <1>1 DEF ProtectInv, ProtectedInv, TypeInv, CallInv, WellFormed, Live
  <2>2. QED
    BY <1>1, <2>1, GuardedKept
<1>2. CASE Check(o)
  <2>1. command'[o] = command[o] /\ stage[o] \in Live \ {"authenticated"}
    BY <1>2 DEF Check, Advance, Live
  <2>2. Guarded(o) /\ command[o].principal \in Operations
    BY <1>2, <2>1, CheckSaves DEF ProtectInv, TypeInv, CallInv, WellFormed
  <2>3. QED
    BY <2>1, <2>2, GuardedKept
<1>3. QED
  BY <1>1, <1>2

\* While a removal holds the lock no other removal is about to commit.
LEMMA RemovalProtects ==
  ASSUME ProtectInv, NEW o \in Operations, CommitRevoke(o) \/ CommitDisable(o)
  PROVE  ProtectedInv'
<1>1. /\ stage[o] = "writing" /\ stage'[o] = "done" /\ command[o].kind \in Locked
      /\ \A q \in Operations \ {o} : stage'[q] = stage[q] /\ command'[q] = command[q]
  BY CommitMoves DEF ProtectInv, Committing, CommitRevoke, CommitDisable, Commit, Locked
<1>2. \A q \in Operations \ {o} : stage[q] = "writing" => command[q].kind \notin Locked
  BY <1>1, OneUnderLock DEF ProtectInv
<1>3. QED
  BY <1>1, <1>2 DEF ProtectedInv, Locked

LEMMA InstantsNext == TypeInv /\ InstantsInv /\ [Next]_vars => InstantsInv'
<1> SUFFICES ASSUME TypeInv, InstantsInv, [Next]_vars, NEW q \in Operations
             PROVE  /\ stage'[q] = "opening" => command'[q].now <= clock'
                    /\ stage'[q] \in {"waiting", "checking"} =>
                         command'[q].now <= command'[q].begun
  BY DEF InstantsInv
<1>0. /\ clock \in Int /\ command[q].now \in Int
      /\ stage[q] = "opening" => command[q].now <= clock
      /\ stage[q] \in {"waiting", "checking"} => command[q].now <= command[q].begun
      /\ stage \in [Operations -> Stages] /\ command \in [Operations -> Commands]
  BY OperationsAssumption DEF InstantsInv, TypeInv, TypeOK, Times, Commands
<1>1. CASE UNCHANGED vars
  BY <1>0, <1>1 DEF vars
<1>2. CASE Tick
  BY <1>0, <1>2 DEF Tick
<1>3. ASSUME NEW o \in Operations, Requested(o) \/ StartBootstrap(o)
                \/ \E c \in Operations : Authenticate(o, c)
      PROVE  /\ stage'[q] = "opening" => command'[q].now <= clock'
             /\ stage'[q] \in {"waiting", "checking"} =>
                  command'[q].now <= command'[q].begun
  <2> USE <1>0 DEF Start, Advance, Commands
  <2>1. CASE StartBootstrap(o)
    BY <2>1 DEF StartBootstrap, NoCommand
  <2>2. CASE \E c \in Operations : Authenticate(o, c)
    BY <2>2 DEF Authenticate
  <2>3. CASE RefuseRequest(o)
    BY <2>3 DEF RefuseRequest, End
  <2>4. ASSUME NEW manager \in BOOLEAN, StartCreate(o, manager)
        PROVE  (stage'[q] = stage[q] /\ command'[q] = command[q]) \/ stage'[q] = "writing"
    BY <2>4 DEF StartCreate
  <2>5. ASSUME NEW p \in Targets(o, principals), NEW expires \in Expiries, StartIssue(o, p, expires)
        PROVE  (stage'[q] = stage[q] /\ command'[q] = command[q]) \/ stage'[q] = "reading"
    BY <2>5 DEF StartIssue
  <2>6. ASSUME NEW p \in Targets(o, principals), NEW c \in Targets(o, credentials),
               StartRevoke(o, p, c)
        PROVE  \/ stage'[q] = stage[q] /\ command'[q] = command[q]
               \/ stage'[q] = "opening" /\ command'[q].now = clock
    BY <2>6 DEF StartRevoke
  <2>7. ASSUME NEW p \in Targets(o, principals), StartDisable(o, p)
        PROVE  \/ stage'[q] = stage[q] /\ command'[q] = command[q]
               \/ stage'[q] = "opening" /\ command'[q].now = clock
    BY <2>7 DEF StartDisable
  <2>8. UNCHANGED clock
    BY <1>3 DEF Requested, StartBootstrap, Authenticate, RefuseRequest, StartCreate, StartIssue,
       StartRevoke, StartDisable
  <2>9. QED
    BY <1>3, <2>1, <2>2, <2>3, <2>4, <2>5, <2>6, <2>7, <2>8 DEF Requested
<1>4. ASSUME NEW o \in Operations, RequestLock(o) \/ AcquireLock(o) \/ Check(o) \/ Refuse(o) \/ Abort(o)
      PROVE  /\ stage'[q] = "opening" => command'[q].now <= clock'
             /\ stage'[q] \in {"waiting", "checking"} =>
                  command'[q].now <= command'[q].begun
  BY <1>0, <1>4 DEF RequestLock, AcquireLock, Check, Refuse, Abort, End, Advance, Commands
<1>5. ASSUME NEW o \in Operations, Committing(o)
      PROVE  /\ stage'[q] = "opening" => command'[q].now <= clock'
             /\ stage'[q] \in {"waiting", "checking"} =>
                  command'[q].now <= command'[q].begun
  <2>1. UNCHANGED clock
    BY <1>5 DEF Committing, CommitBootstrap, CommitCreate, CommitIssue, CommitRevoke,
       CommitDisable, Commit
  <2>2. QED
    BY <1>0, <1>5, <2>1, CommitMoves
<1>6. QED
  BY <1>1, <1>2, <1>3, <1>4, <1>5 DEF Next, Transaction, Committing

LEMMA ProtectNext == ProtectInv /\ [Next]_vars => ProtectInv'
<1> SUFFICES ASSUME ProtectInv, [Next]_vars PROVE ProtectInv'
  OBVIOUS
<1>1. TypeInv' /\ InstantsInv'
  BY NextType, InstantsNext DEF ProtectInv
<1>2. CASE Tick \/ UNCHANGED vars
  BY <1>1, <1>2, ProtectedStep DEF ProtectInv, Tick, vars
<1>3. ASSUME NEW o \in Operations,
             \/ StartBootstrap(o) \/ RequestLock(o) \/ AcquireLock(o) \/ Check(o) \/ Refuse(o)
             \/ Requested(o) \/ Abort(o) \/ \E c \in Operations : Authenticate(o, c)
      PROVE  ProtectedInv'
  <2>1. UNCHANGED <<principals, credentials>>
    BY <1>3
    DEF StartBootstrap, RequestLock, AcquireLock, Check, Refuse, Requested, Abort, Authenticate,
        RefuseRequest, StartCreate, StartIssue, StartRevoke, StartDisable, Start
  <2>2. \A q \in Operations \ {o} : stage'[q] = stage[q] /\ command'[q] = command[q]
    BY <1>3
    DEF ProtectInv, TypeInv, TypeOK, StartBootstrap, RequestLock, AcquireLock, Check, Refuse,
        Requested, Abort, Authenticate, RefuseRequest, StartCreate, StartIssue, StartRevoke,
        StartDisable, Start, End, Advance
  <2>3. stage'[o] = "writing" => Check(o) \/ command'[o].kind = "create"
    BY <1>3, OnlyChecksWrite DEF ProtectInv
  <2>4. QED
    BY <2>1, <2>2, <2>3, ProtectedStep
<1>4. ASSUME NEW o \in Operations, CommitBootstrap(o) \/ CommitCreate(o) \/ CommitIssue(o)
      PROVE  ProtectedInv'
  <2>1. /\ principals[o] = None /\ credentials[o] = None /\ stage'[o] = "done"
        /\ \A q \in Operations \ {o} : stage'[q] = stage[q] /\ command'[q] = command[q]
    BY <1>4, CommitMoves DEF Committing, ProtectInv
  <2>2. \A x \in Operations \ {o} :
          principals'[x] = principals[x] /\ credentials'[x] = credentials[x]
    BY <1>4 DEF ProtectInv, TypeInv, TypeOK, CommitBootstrap, CommitCreate, CommitIssue
  <2>3. QED
    BY <2>1, <2>2, ProtectedStep
<1>5. QED
  BY <1>1, <1>2, <1>3, <1>4, RemovalProtects DEF ProtectInv, Next, Transaction

LEMMA ProtectInvariant == Spec => []ProtectInv
<1>1. Init => ProtectInv
  BY InitType DEF Init, ProtectInv, InstantsInv, ProtectedInv
<1>2. QED
  BY <1>1, ProtectNext, PTL DEF Spec

\* Where credentials expire, a committed revocation or disablement of an active
\* manager leaves one that was recoverable at the instant its handler read.
THEOREM RemovalsLeaveAManager == Spec => ProtectedAsOfItsClock
<1> DEFINE Protected ==
      \A o \in Operations, now \in Times :
        (/\ stage[o] = "writing" /\ stage'[o] = "done"
         /\ command[o].kind \in {"revoke", "disable"} /\ command[o].now = now
         /\ Active(command[o].principal) /\ principals[command[o].principal].manager)
          => RecoverableManagers(now)' # {}
<1>1. ASSUME ProtectInv, [Next]_vars, NEW o \in Operations, NEW now \in Times,
             stage[o] = "writing", stage'[o] = "done",
             command[o].kind \in {"revoke", "disable"}, command[o].now = now,
             Active(command[o].principal), principals[command[o].principal].manager
      PROVE  RecoverableManagers(now)' # {}
  <2>1. CommitRevoke(o) \/ CommitDisable(o)
    <3>1. ASSUME NEW q \in Operations, Committing(q)
          PROVE  q = o
      BY <1>1, <3>1, CommitMoves DEF ProtectInv
    <3>2. ASSUME NEW q \in Operations,
                 \/ StartBootstrap(q) \/ RequestLock(q) \/ AcquireLock(q) \/ Check(q) \/ Refuse(q)
                 \/ Requested(q) \/ Abort(q) \/ \E c \in Operations : Authenticate(q, c)
          PROVE  FALSE
      BY <1>1, <3>2
      DEF ProtectInv, TypeInv, TypeOK, StartBootstrap, RequestLock, AcquireLock, Check, Refuse,
          Requested, Abort, Authenticate, RefuseRequest, StartCreate, StartIssue, StartRevoke,
          StartDisable, Start, End, Advance
    <3>3. ~Tick /\ ~UNCHANGED vars
      BY <1>1 DEF Tick, vars
    <3>4. Committing(o)
      BY <1>1, <3>1, <3>2, <3>3 DEF Next, Transaction, Committing
    <3>5. QED
      BY <1>1, <3>4 DEF Committing, CommitBootstrap, CommitCreate, CommitIssue, Commit
  <2>2. PICK p \in Operations, c \in Operations : Saves(o, p, c)
    BY <1>1 DEF ProtectInv, ProtectedInv, Guarded
  <2>3. principals'[p] = principals[p] /\ credentials'[c] = credentials[c]
    BY <1>1, <2>1, <2>2
    DEF ProtectInv, TypeInv, TypeOK, CommitRevoke, CommitDisable, Commit, Saves
  <2>4. p \in RecoverableManagers(now)'
    BY <1>1, <2>2, <2>3 DEF Saves, RecoverableManagers, Active, Exists, Usable, Issued
  <2>5. QED
    BY <2>4
<1>2. ProtectInv /\ [Next]_vars => [Protected]_vars
  BY <1>1
<1>3. Spec => [][Protected]_vars
  BY <1>2, ProtectInvariant, PTL DEF Spec
<1>4. QED
  BY <1>3 DEF ProtectedAsOfItsClock

-----------------------------------------------------------------------------
(***************************************************************************)
(* The service is a directory.  A call past _require_manager has a manager *)
(* for its actor, and manager is never changed; a row that a removal has   *)
(* read under the lock is still the row of the table when it commits; a    *)
(* record is written in the step that ends its call, so that none is       *)
(* written twice.                                                          *)
(***************************************************************************)
Acts(o) ==
  /\ stage[o] \in Live \ {"authenticated"} /\ command[o].kind # "bootstrap" =>
       principals[command[o].actor].manager
  /\ stage[o] = "writing" /\ command[o].kind = "issue" => Exists(command[o].principal)
  /\ seen[o] = IF stage[o] = "writing" THEN Target(o) ELSE None

ActsInv  == \A o \in Operations : Acts(o)
TrailInv == \A a \in audits : stage[a.id] = "done"

DirectoryInv == OnceInv /\ RecoverInv /\ ActsInv /\ TrailInv

Quiet(o) ==
  \/ StartBootstrap(o) \/ RequestLock(o) \/ AcquireLock(o) \/ Check(o) \/ Refuse(o)
  \/ Requested(o) \/ Abort(o) \/ \E c \in Operations : Authenticate(o, c)

\* Until it commits, a call changes nothing but its own locals and the lock.
LEMMA QuietMoves ==
  ASSUME TypeInv, NEW o \in Operations, Quiet(o)
  PROVE  /\ UNCHANGED <<principals, credentials, audits>>
         /\ stage[o] # "done"
         /\ \A q \in Operations \ {o} :
              stage'[q] = stage[q] /\ command'[q] = command[q] /\ seen'[q] = seen[q]
<1>0. /\ stage \in [Operations -> Stages] /\ command \in [Operations -> Commands]
      /\ seen \in [Operations -> Rows \cup {None}]
  BY DEF TypeInv, TypeOK
<1>1. CASE StartBootstrap(o) \/ \E c \in Operations : Authenticate(o, c)
  BY <1>0, <1>1 DEF StartBootstrap, Authenticate, Start, Advance
<1>2. CASE RequestLock(o) \/ AcquireLock(o) \/ Check(o)
  BY <1>0, <1>2 DEF RequestLock, AcquireLock, Check, Advance
<1>3. CASE Refuse(o) \/ Abort(o) \/ RefuseRequest(o)
  BY <1>0, <1>3 DEF Refuse, Abort, RefuseRequest, End, Advance, Live
<1>4. CASE Requested(o) /\ ~RefuseRequest(o)
  BY <1>0, <1>4 DEF Requested, StartCreate, StartIssue, StartRevoke, StartDisable, Start, Advance
<1>5. QED
  BY <1>1, <1>2, <1>3, <1>4 DEF Quiet

LEMMA QuietActs ==
  ASSUME TypeInv, ActsInv, NEW o \in Operations, Quiet(o)
  PROVE  ActsInv'
<1>0. /\ stage \in [Operations -> Stages] /\ command \in [Operations -> Commands]
      /\ seen \in [Operations -> Rows \cup {None}] /\ Acts(o) /\ command[o] \in Commands
      /\ UNCHANGED <<principals, credentials>>
  BY QuietMoves DEF TypeInv, TypeOK, ActsInv
<1>1. ASSUME NEW q \in Operations \ {o}
      PROVE  Acts(q)'
  BY <1>0, <1>1, QuietMoves DEF ActsInv, Acts, Target, Exists
<1> SUFFICES Acts(o)'
  BY <1>1 DEF ActsInv
<1>2. CASE StartBootstrap(o) \/ \E c \in Operations : Authenticate(o, c)
  <2>1. CASE StartBootstrap(o)
    <3>1. stage'[o] = "opening" /\ command'[o].kind = "bootstrap" /\ seen'[o] = None
      BY <1>0, <2>1 DEF StartBootstrap, Start, Advance, NoCommand, Acts
    <3>2. QED
      BY <3>1 DEF Acts
  <2>2. CASE \E c \in Operations : Authenticate(o, c)
    BY <1>0, <2>2 DEF Authenticate, Advance, Acts
  <2>3. QED
    BY <1>2, <2>1, <2>2
<1>3. CASE RequestLock(o) \/ AcquireLock(o)
  <2>1. /\ stage[o] \in {"opening", "waiting"} /\ stage'[o] \in {"waiting", "checking"}
        /\ command'[o].kind = command[o].kind /\ command'[o].actor = command[o].actor
        /\ seen'[o] = seen[o]
    BY <1>0, <1>3 DEF RequestLock, AcquireLock, Advance, Commands
  <2>2. QED
    BY <1>0, <2>1 DEF Acts, Live
<1>4. CASE Check(o)
  <2>1. /\ stage[o] \in {"checking", "reading"} /\ stage'[o] = "writing"
        /\ command'[o] = command[o] /\ seen'[o] = Target(o) /\ Permitted(o)
    BY <1>0, <1>4 DEF Check, Advance
  <2>2. command[o].kind = "issue" => Exists(command[o].principal)
    BY <2>1 DEF Permitted, IssuePermitted, Active
  <2>3. Target(o)' = Target(o)
    BY <1>0, <2>1 DEF Target
  <2>4. QED
    BY <1>0, <2>1, <2>2, <2>3 DEF Acts, Live, Exists
<1>5. CASE Refuse(o) \/ Abort(o) \/ RefuseRequest(o)
  <2>1. stage'[o] \in {"refused", "failed"} /\ seen'[o] = None
    BY <1>0, <1>5 DEF Refuse, Abort, RefuseRequest, End, Advance
  <2>2. QED
    BY <2>1 DEF Acts, Live
<1>6. CASE Requested(o) /\ ~RefuseRequest(o)
  <2>1. /\ stage[o] = "authenticated" /\ seen'[o] = None /\ Authorized(o)
        /\ command'[o].actor = command[o].actor
        /\ \/ stage'[o] \in {"reading", "opening"}
           \/ stage'[o] = "writing" /\ command'[o].kind = "create"
    <3> USE <1>0
    <3>1. CASE \E manager \in BOOLEAN : StartCreate(o, manager)
      BY <3>1 DEF StartCreate, Start, Advance, Acts, Commands
    <3>2. CASE \E p \in Targets(o, principals), expires \in Expiries : StartIssue(o, p, expires)
      BY <3>2 DEF StartIssue, Start, Advance, Acts, Commands
    <3>3. CASE \E p \in Targets(o, principals), c \in Targets(o, credentials) : StartRevoke(o, p, c)
      BY <3>3 DEF StartRevoke, Start, Advance, Acts, Commands
    <3>4. CASE \E p \in Targets(o, principals) : StartDisable(o, p)
      BY <3>4 DEF StartDisable, Start, Advance, Acts, Commands
    <3>5. QED
      BY <1>6, <3>1, <3>2, <3>3, <3>4 DEF Requested
  <2>2. QED
    BY <1>0, <2>1 DEF Acts, Authorized, Target
<1>7. QED
  BY <1>2, <1>3, <1>4, <1>5, <1>6 DEF Quiet

-----------------------------------------------------------------------------
\* What a commit leaves of the rows that others count on.
LEMMA CommitKeeps ==
  ASSUME TypeInv, NEW o \in Operations, Committing(o)
  PROVE  /\ \A p \in Operations : Exists(p) =>
              Exists(p)' /\ principals'[p].manager = principals[p].manager
         /\ \A q \in Operations \ {o} : seen'[q] = seen[q]
         /\ seen'[o] = None
<1>1. /\ principals \in [Operations -> Principals \cup {None}]
      /\ seen \in [Operations -> Rows \cup {None}] /\ principals[o] = None
      /\ stage[o] = "writing"
  BY CommitMoves DEF TypeInv, TypeOK
<1>2. seen' = [seen EXCEPT ![o] = None]
  BY DEF Committing, CommitBootstrap, CommitCreate, CommitIssue, CommitRevoke, CommitDisable,
         Commit, End
<1>3. CASE CommitBootstrap(o) \/ CommitCreate(o)
  BY <1>1, <1>2, <1>3 DEF CommitBootstrap, CommitCreate, Exists
<1>4. CASE CommitIssue(o) \/ CommitRevoke(o)
  BY <1>1, <1>2, <1>4 DEF CommitIssue, CommitRevoke, Exists
<1>5. CASE CommitDisable(o)
  <2>1. /\ principals' = [principals EXCEPT ![command[o].principal].disabled = TRUE]
        /\ command[o].principal \in Operations /\ Exists(command[o].principal)
    BY <1>1, <1>5 DEF CommitDisable, Commit, TypeInv, CallInv, WellFormed, Live
  <2>2. ASSUME NEW p \in Operations, Exists(p)
        PROVE  Exists(p)' /\ principals'[p].manager = principals[p].manager
    BY <1>1, <2>1, <2>2, NoneAssumption DEF Exists, Principals
  <2>3. QED
    BY <1>1, <1>2, <2>2
<1>6. QED
  BY <1>3, <1>4, <1>5 DEF Committing

\* The row of another removal: its call holds the lock, and this one adds rows.
LEMMA TargetKept ==
  ASSUME TypeInv, NEW o \in Operations, Committing(o),
         NEW q \in Operations \ {o}, stage[q] = "writing"
  PROVE  Target(q)' = Target(q)
<1>0. command'[q] = command[q] /\ stage[o] = "writing"
  BY CommitMoves
<1>1. CASE command[q].kind \notin {"revoke", "disable"}
  BY <1>0, <1>1 DEF Target
<1>2. CASE command[q].kind \in {"revoke", "disable"}
  <2>1. CommitCreate(o) \/ CommitIssue(o)
    BY <1>0, <1>2, OneUnderLock
    DEF Committing, CommitBootstrap, CommitRevoke, CommitDisable, Commit, Locked
  <2>2. /\ command[q].kind = "revoke" =>
             command[q].credential \in Operations \ {o} /\ Issued(command[q].credential)
        /\ command[q].kind = "disable" =>
             command[q].principal \in Operations \ {o} /\ Exists(command[q].principal)
    BY <1>2, CommitMoves DEF TypeInv, CallInv, WellFormed, Live, Exists, Issued
  <2>3. \A x \in Operations \ {o} :
          principals'[x] = principals[x] /\ credentials'[x] = credentials[x]
    BY <2>1 DEF TypeInv, TypeOK, CommitCreate, CommitIssue
  <2>4. QED
    BY <1>0, <1>2, <2>2, <2>3 DEF Target
<1>3. QED
  BY <1>1, <1>2

LEMMA CommitActs ==
  ASSUME TypeInv, ActsInv, NEW o \in Operations, Committing(o)
  PROVE  ActsInv'
<1>1. Acts(o)'
  <2>1. stage'[o] = "done" /\ seen'[o] = None
    BY CommitMoves, CommitKeeps
  <2>2. QED
    BY <2>1 DEF Acts, Live
<1>2. ASSUME NEW q \in Operations \ {o}
      PROVE  Acts(q)'
  <2>1. stage'[q] = stage[q] /\ command'[q] = command[q] /\ seen'[q] = seen[q] /\ Acts(q)
    BY CommitMoves, CommitKeeps DEF ActsInv
  <2>2. stage[q] \in Live \ {"authenticated"} /\ command[q].kind # "bootstrap" =>
          command[q].actor \in Operations /\ Exists(command[q].actor)
    BY DEF TypeInv, CallInv, WellFormed
  <2>3. stage[q] = "writing" /\ command[q].kind = "issue" => command[q].principal \in Operations
    BY DEF TypeInv, CallInv, WellFormed
  <2>4. QED
    BY <2>1, <2>2, <2>3, CommitKeeps, TargetKept DEF Acts
<1>3. QED
  BY <1>1, <1>2 DEF ActsInv

-----------------------------------------------------------------------------
LEMMA TrailNext ==
  ASSUME TypeInv, TrailInv, NEW o \in Operations, Quiet(o) \/ Committing(o)
  PROVE  TrailInv'
<1>0. \A a \in audits : a.id \in Operations
  BY DEF TypeInv, TypeOK, Records
<1>1. CASE Quiet(o)
  BY <1>0, <1>1, QuietMoves DEF TrailInv
<1>2. CASE Committing(o)
  <2>1. \A a \in audits' : a \in audits \/ a.id = o
    BY <1>2 DEF Committing, CommitBootstrap, CommitCreate, CommitIssue, CommitRevoke,
                CommitDisable, Audit
  <2>2. /\ stage[o] = "writing" /\ stage'[o] = "done"
        /\ \A q \in Operations \ {o} : stage'[q] = stage[q]
    BY <1>2, CommitMoves
  <2>3. QED
    BY <1>0, <2>1, <2>2 DEF TrailInv
<1>3. QED
  BY <1>1, <1>2

LEMMA DirectoryNext == DirectoryInv /\ [Next]_vars => DirectoryInv'
<1> SUFFICES ASSUME DirectoryInv, [Next]_vars PROVE DirectoryInv'
  OBVIOUS
<1>1. OnceInv' /\ RecoverInv' /\ TypeInv
  BY OnceNext, RecoverNext DEF DirectoryInv, OnceInv
<1>2. CASE Tick \/ UNCHANGED vars
  BY <1>1, <1>2 DEF DirectoryInv, ActsInv, Acts, TrailInv, Target, Exists, Tick, vars
<1>3. ASSUME NEW o \in Operations, Quiet(o) \/ Committing(o)
      PROVE  ActsInv' /\ TrailInv'
  BY <1>1, <1>3, QuietActs, CommitActs, TrailNext DEF DirectoryInv
<1>4. QED
  BY <1>1, <1>2, <1>3 DEF DirectoryInv, Next, Transaction, Quiet, Committing

LEMMA DirectoryInvariant == Spec => []DirectoryInv
<1>1. Init => DirectoryInv
  BY InitType
  DEF Init, DirectoryInv, ActsInv, Acts, TrailInv, Live, RecoverInv, GuardInv, Manned,
      OnceInv, FreshInv, OneFounder, RecordsMatch, Recorded, Exists, Issued
<1>2. QED
  BY <1>1, DirectoryNext, PTL DEF Spec

-----------------------------------------------------------------------------
\* The record of a commit: the actor is a manager, the row before is the one in
\* the table, and no call leaves two.
LEMMA EvidenceOfChange ==
  ASSUME DirectoryInv, NEW o \in Operations, Committing(o), command[o].kind # "bootstrap",
         NEW resource, NEW after, Audit(o, resource, after)
  PROVE  Directory!Evidence(o, command[o].actor, command[o].kind, resource, Target(o), after)
<1>1. stage[o] = "writing" /\ TypeInv /\ Acts(o)
  BY CommitMoves DEF DirectoryInv, OnceInv, ActsInv
<1>2. seen[o] = Target(o) /\ Directory!Manager(command[o].actor)
  BY <1>1, ActorKnown DEF Acts, Live, Directory!Manager, Exists
<1>3. \A a \in audits : a.id # o
  BY <1>1 DEF DirectoryInv, TrailInv
<1>4. QED
  BY <1>2, <1>3 DEF Audit, Directory!Evidence

LEMMA CommitIsMannedAfter ==
  ASSUME RecoverInv', \E p \in Operations : Exists(p)'
  PROVE  Directory!Manned'
BY DEF RecoverInv, Manned, Recovers, Active, Exists, Issued, Directory!Manned, Directory!Manager

LEMMA CommitRefines ==
  ASSUME DirectoryInv, DirectoryInv', NEW o \in Operations, Committing(o)
  PROVE  Directory!Next
<1> DEFINE actor == command[o].actor
<1>0. /\ TypeInv /\ stage[o] = "writing" /\ principals[o] = None /\ credentials[o] = None
      /\ principals \in [Operations -> Principals \cup {None}]
      /\ credentials \in [Operations -> Credentials \cup {None}]
      /\ command[o] \in Commands /\ Acts(o)
  BY CommitMoves DEF DirectoryInv, OnceInv, TypeInv, TypeOK, ActsInv
<1>1. command[o].kind # "bootstrap" => actor \in Operations /\ Exists(actor)
  BY <1>0, ActorKnown
<1>2. CASE CommitBootstrap(o)
  <2>1. NewPrincipal(o) = [manager |-> TRUE, disabled |-> FALSE]
    BY <1>0, <1>2
    DEF CommitBootstrap, Commit, NewPrincipal, TypeInv, CallInv, WellFormed, Live
  <2>2. NewCredential(o, o) = [owner |-> o, expires |-> Never, revoked |-> FALSE]
    BY <1>0, <1>2
    DEF CommitBootstrap, Commit, NewCredential, TypeInv, CallInv, WellFormed, Live
  <2>3. \A p \in Operations : principals[p] = None
    BY <1>0, <1>2 DEF DirectoryInv, OnceInv, FreshInv, CommitBootstrap, Commit, Exists
  <2>4. Directory!Found(o)
    BY <1>2, <2>1, <2>2, <2>3 DEF CommitBootstrap, Directory!Found
  <2>5. QED
    BY <2>4 DEF Directory!Next
<1>3. CASE CommitCreate(o)
  <2>1. /\ command[o].kind = "create" /\ command[o].manager \in BOOLEAN
        /\ Audit(o, o, NewPrincipal(o)) /\ Target(o) = None
    BY <1>0, <1>3 DEF CommitCreate, Commit, Commands, Target
  <2>2. Directory!Evidence(o, actor, "create", o, None, NewPrincipal(o))
    BY <2>1, EvidenceOfChange
  <2>3. Directory!Create(o, actor, command[o].manager)
    BY <1>0, <1>3, <2>2 DEF CommitCreate, NewPrincipal, Directory!Create
  <2>4. QED
    BY <1>1, <2>1, <2>3 DEF Directory!Next
<1>4. CASE CommitIssue(o)
  <2> DEFINE p == command[o].principal
             expires == command[o].expires
  <2>1. /\ command[o].kind = "issue" /\ p \in Operations /\ expires \in Expiries /\ Exists(p)
        /\ Audit(o, o, NewCredential(o, p)) /\ Target(o) = None
    BY <1>0, <1>4 DEF CommitIssue, Commit, TypeInv, CallInv, WellFormed, Acts, Target
  <2>2. Directory!Evidence(o, actor, "issue", o, None, NewCredential(o, p))
    BY <2>1, EvidenceOfChange
  <2>3. Directory!Issue(o, actor, p, expires)
    BY <1>0, <1>4, <2>1, <2>2 DEF CommitIssue, NewCredential, Exists, Directory!Issue
  <2>4. QED
    BY <1>1, <2>1, <2>3 DEF Directory!Next
<1>5. CASE CommitRevoke(o)
  <2> DEFINE c == command[o].credential
             row == [credentials[c] EXCEPT !.revoked = TRUE]
  <2>1. /\ command[o].kind = "revoke" /\ c \in Operations /\ Issued(c) /\ ~credentials[c].revoked
        /\ Target(o) = credentials[c] /\ seen[o] = credentials[c]
    BY <1>0, <1>5
    DEF CommitRevoke, Commit, TypeInv, CallInv, WellFormed, Live, Acts, Target,
        DirectoryInv, OnceInv, FreshInv
  <2>2. /\ Audit(o, c, row) /\ credentials' = [credentials EXCEPT ![c] = row]
        /\ UNCHANGED principals
    BY <1>0, <1>5, <2>1 DEF CommitRevoke
  <2>3. Directory!Evidence(o, actor, "revoke", c, credentials[c], row)
    BY <2>1, <2>2, EvidenceOfChange
  <2>4. Directory!Manned'
    BY <1>1, <2>1, <2>2, CommitIsMannedAfter DEF DirectoryInv, Exists
  <2>5. Directory!Revoke(o, actor, c)
    BY <2>1, <2>2, <2>3, <2>4 DEF Issued, Directory!Revoke
  <2>6. QED
    BY <1>1, <2>1, <2>5 DEF Directory!Next
<1>6. CASE CommitDisable(o)
  <2> DEFINE p == command[o].principal
             row == [principals[p] EXCEPT !.disabled = TRUE]
  <2>1. /\ command[o].kind = "disable" /\ p \in Operations /\ Exists(p) /\ ~principals[p].disabled
        /\ Target(o) = principals[p] /\ seen[o] = principals[p]
    BY <1>0, <1>6
    DEF CommitDisable, Commit, TypeInv, CallInv, WellFormed, Live, Acts, Target,
        DirectoryInv, OnceInv, FreshInv
  <2>2. /\ Audit(o, p, row) /\ principals' = [principals EXCEPT ![p] = row]
        /\ UNCHANGED credentials
    BY <1>0, <1>6, <2>1 DEF CommitDisable
  <2>3. Directory!Evidence(o, actor, "disable", p, principals[p], row)
    BY <2>1, <2>2, EvidenceOfChange
  <2>4. \E q \in Operations : Exists(q)'
    BY <1>0, <2>1, CommitKeeps
  <2>5. Directory!Manned'
    BY <2>4, CommitIsMannedAfter DEF DirectoryInv
  <2>6. Directory!Disable(o, actor, p)
    BY <2>1, <2>2, <2>3, <2>5 DEF Exists, Directory!Disable
  <2>7. QED
    BY <1>1, <2>1, <2>6 DEF Directory!Next
<1>7. QED
  BY <1>2, <1>3, <1>4, <1>5, <1>6 DEF Committing

\* handlers.py:109-267: each call that commits is one atomic operation of the
\* directory, for any number of calls, any expiries and any interleaving.
THEOREM ServiceIsADirectory == Spec => ImplementsDirectory
<1>1. Init => Directory!Init
  BY DEF Init, Directory!Init
<1>2. ASSUME DirectoryInv, DirectoryInv', [Next]_vars
      PROVE  [Directory!Next]_<<principals, credentials, audits>>
  <2>1. CASE Tick \/ UNCHANGED vars
    BY <2>1 DEF Tick, vars
  <2>2. ASSUME NEW o \in Operations, Quiet(o)
        PROVE  UNCHANGED <<principals, credentials, audits>>
    BY <1>2, <2>2, QuietMoves DEF DirectoryInv, OnceInv
  <2>3. ASSUME NEW o \in Operations, Committing(o)
        PROVE  Directory!Next
    BY <1>2, <2>3, CommitRefines
  <2>4. QED
    BY <1>2, <2>1, <2>2, <2>3 DEF Next, Transaction, Quiet, Committing
<1>3. QED
  BY <1>1, <1>2, DirectoryInvariant, PTL DEF Spec, ImplementsDirectory, Directory!Spec

-----------------------------------------------------------------------------
(***************************************************************************)
(* Progress.  Together with LockServes: what is left to a fair scheduler.  *)
(***************************************************************************)
StagesLeft(s) ==
  CASE s = "idle"                    -> 6
    [] s = "authenticated"           -> 5
    [] s = "opening"                 -> 4
    [] s = "waiting"                 -> 3
    [] s \in {"checking", "reading"} -> 2
    [] s = "writing"                 -> 1
    [] OTHER                         -> 0

Moves(o) ==
  \/ \E c \in Operations : Authenticate(o, c)
  \/ StartBootstrap(o) \/ Requested(o) \/ Transaction(o) \/ Abort(o)

\* What a call does takes it from one stage to a later one.
Later(o) ==
  \E from, to \in Stages : Advance(o, from, to) /\ StagesLeft(to) < StagesLeft(from)

LEMMA MovesLeadOn == \A o \in Operations : Moves(o) => Later(o)
<1> SUFFICES ASSUME NEW o \in Operations, Moves(o)  PROVE Later(o)
  OBVIOUS
<1>1. ASSUME NEW from \in Stages, NEW to \in Stages, Advance(o, from, to),
             StagesLeft(to) < StagesLeft(from)
      PROVE  Later(o)
  BY <1>1 DEF Later
<1>2. /\ StagesLeft("idle") = 6 /\ StagesLeft("authenticated") = 5 /\ StagesLeft("opening") = 4
      /\ StagesLeft("waiting") = 3 /\ StagesLeft("checking") = 2 /\ StagesLeft("reading") = 2
      /\ StagesLeft("writing") = 1 /\ StagesLeft("refused") = 0
      /\ StagesLeft("failed") = 0 /\ StagesLeft("done") = 0
  BY DEF StagesLeft
<1>3. {"idle", "authenticated", "opening", "waiting", "checking", "reading", "writing",
       "refused", "failed", "done"} \subseteq Stages
  BY DEF Stages, Live
<1>4. CASE (\E c \in Operations : Authenticate(o, c)) \/ StartBootstrap(o) \/ Requested(o)
  <2>1. \/ Advance(o, "idle", "authenticated") \/ Advance(o, "idle", "opening")
        \/ Advance(o, "authenticated", "refused") \/ Advance(o, "authenticated", "writing")
        \/ Advance(o, "authenticated", "reading") \/ Advance(o, "authenticated", "opening")
    BY <1>4 DEF Authenticate, StartBootstrap, Requested, RefuseRequest, End, Start, StartCreate,
       StartIssue, StartRevoke, StartDisable
  <2>2. QED
    BY <1>1, <1>2, <1>3, <2>1
<1>5. CASE RequestLock(o) \/ AcquireLock(o) \/ Check(o) \/ Refuse(o)
  <2>1. \/ Advance(o, "opening", "waiting") \/ Advance(o, "waiting", "checking")
        \/ Advance(o, "checking", "writing") \/ Advance(o, "reading", "writing")
        \/ Advance(o, "checking", "refused") \/ Advance(o, "reading", "refused")
    BY <1>5 DEF RequestLock, AcquireLock, Check, Refuse, End
  <2>2. QED
    BY <1>1, <1>2, <1>3, <2>1
<1>6. CASE \/ CommitBootstrap(o) \/ CommitCreate(o) \/ CommitIssue(o)
           \/ CommitRevoke(o) \/ CommitDisable(o)
  <2>1. Advance(o, "writing", "done")
    BY <1>6 DEF CommitBootstrap, CommitCreate, CommitIssue, CommitRevoke, CommitDisable, Commit, End
  <2>2. QED
    BY <1>1, <1>2, <1>3, <2>1
<1>7. CASE Abort(o)
  <2>1. \E from \in Live : Advance(o, from, "failed")
    BY <1>7 DEF Abort, End
  <2>2. QED
    BY <1>1, <1>2, <1>3, <2>1 DEF Live
<1>8. QED
  BY <1>4, <1>5, <1>6, <1>7 DEF Moves, Transaction

\* handlers.py has no loop and no retry: no step leads a call back, nor another one.
THEOREM StepsLeadOn ==
  Spec => [][\A o \in Operations :
               /\ Moves(o) => StagesLeft(stage'[o]) < StagesLeft(stage[o])
               /\ StagesLeft(stage'[o]) <= StagesLeft(stage[o])]_vars
<1>1. ASSUME TypeInv, NEW o \in Operations, Moves(o)
      PROVE  /\ StagesLeft(stage'[o]) < StagesLeft(stage[o])
             /\ \A q \in Operations \ {o} : stage'[q] = stage[q]
  BY <1>1, MovesLeadOn DEF Later, Advance, TypeInv, TypeOK
<1>2. \A s : StagesLeft(s) \in Nat
  BY DEF StagesLeft
<1>3. ASSUME TypeInv, [Next]_vars, NEW q \in Operations
      PROVE  StagesLeft(stage'[q]) <= StagesLeft(stage[q])
  <2>1. CASE UNCHANGED stage
    BY <1>2, <2>1
  <2>2. ASSUME NEW o \in Operations, Moves(o)
        PROVE  StagesLeft(stage'[q]) <= StagesLeft(stage[q])
    BY <1>1, <1>2, <1>3, <2>2
  <2>3. QED
    BY <1>3, <2>1, <2>2 DEF Next, Moves, Tick, vars
<1>4. TypeInv /\ [Next]_vars =>
        [\A o \in Operations :
           /\ Moves(o) => StagesLeft(stage'[o]) < StagesLeft(stage[o])
           /\ StagesLeft(stage'[o]) <= StagesLeft(stage[o])]_vars
  BY <1>1, <1>3
<1>5. QED
  BY <1>4, InitType, NextType, PTL DEF Spec
=============================================================================
