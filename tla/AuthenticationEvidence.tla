------------------------ MODULE AuthenticationEvidence ------------------------
(***************************************************************************)
(* Authentication of a Management bearer and the evidence it leaves:       *)
(* ManagementAuthenticator (management_identity/application/               *)
(* authentication.py) and observe (infrastructure/repositories.py).        *)
(* Attempts interleave with each other and with revocations of credentials *)
(* and disablements of principals.  Every statement is a step; what one    *)
(* transaction has deleted or inserted stays locked until it ends.         *)
(***************************************************************************)
EXTENDS Naturals, FiniteSets

CONSTANTS
  Attempts,      \* bearers presented
  Credentials, Principals,
  Owner,         \* credential -> its principal
  Expiry,        \* credential -> instant at which it expires, or Never
  Unknown,       \* a well-formed bearer whose credential does not exist
  Never,
  TicksPerHour,  \* instants told apart in an hour
  Retention,     \* hours a bucket is kept: ninety days
  MaxClock       \* bound: last instant

ASSUME EvidenceAssumption ==
  /\ Unknown \notin Credentials /\ Never \notin Nat
  /\ Owner \in [Credentials -> Principals]
  /\ Expiry \in [Credentials -> Nat \cup {Never}]
  /\ TicksPerHour \in Nat \ {0} /\ Retention \in Nat /\ MaxClock \in Nat

VARIABLES
  clock,
  revoked,    \* credentials with revoked_at
  disabled,   \* principals with disabled_at
  evidence,   \* management_authentication_evidence, committed
  stage,
  bearer,     \* what an attempt presents, and `at`
  seen,       \* the credential's revoked_at as the attempt read it
  outcome,
  deleted,    \* rows its open transaction has deleted
  inserted    \* rows its open transaction has inserted

vars == <<clock, revoked, disabled, evidence, stage, bearer, seen, outcome,
          deleted, inserted>>
lifecycle == <<revoked, disabled>>

Instants == 0 .. MaxClock
Hour(at) == at \div TicksPerHour
Outcomes == {"succeeded", "credential_mismatch", "revoked", "expired", "principal_disabled"}
Rows     == [credential : Credentials, outcome : Outcomes,
             bucket : {Hour(at) : at \in Instants}, first : Instants]
\* barred: the credential was no longer valid when the attempt began.
Bearers  == [credential : Credentials \cup {Unknown}, matches : BOOLEAN,
             at : Instants, barred : BOOLEAN]
NoBearer == [credential |-> Unknown, matches |-> FALSE, at |-> 0, barred |-> FALSE]
Live     == {"reading", "judging", "pruning", "deleting", "inserting", "committing"}
Ended    == {"accepted", "rejected"}

\* The primary key.
Key(row) == <<row.credential, row.outcome, row.bucket>>
Row(a)   == [credential |-> bearer[a].credential, outcome |-> outcome[a],
             bucket |-> Hour(bearer[a].at), first |-> bearer[a].at]
Observed(a) == stage[a] \in Ended /\ outcome[a] # "none"

Log == INSTANCE AuthenticationLog WITH
  Observations <- Rows,
  log <- evidence,
  answers <- {[attempt |-> a, row |-> Row(a)] : a \in {b \in Attempts : Observed(b)}},
  admitted <- {a \in Attempts : stage[a] = "accepted"}

\* The shape of the state: a key has one row, and a transaction that is not
\* open holds none (repositories.py 26-46, sqlalchemy_uow.py 18-29).
TypeOK ==
  /\ clock \in Instants
  /\ revoked \subseteq Credentials /\ disabled \subseteq Principals
  /\ evidence \subseteq Rows
  /\ \A row, other \in evidence : Key(row) = Key(other) => row = other
  /\ stage \in [Attempts -> Live \cup Ended \cup {"idle", "failed"}]
  /\ bearer \in [Attempts -> Bearers]
  /\ seen \in [Attempts -> BOOLEAN]
  /\ outcome \in [Attempts -> Outcomes \cup {"none"}]
  /\ deleted \in [Attempts -> SUBSET Rows] /\ inserted \in [Attempts -> SUBSET Rows]
  /\ \A a \in Attempts : stage[a] \notin Live => deleted[a] = {} /\ inserted[a] = {}

Advance(a, from, to) ==
  /\ stage[a] = from
  /\ stage' = [stage EXCEPT ![a] = to]

ExpiredAt(c, at) == Expiry[c] # Never /\ at >= Expiry[c]

-----------------------------------------------------------------------------
Tick ==
  /\ clock < MaxClock
  /\ clock' = clock + 1
  /\ UNCHANGED <<lifecycle, evidence, stage, bearer, seen, outcome, deleted, inserted>>

\* Committed by the lifecycle operations; both are terminal.
Revoke(c) ==
  /\ c \notin revoked
  /\ revoked' = revoked \cup {c}
  /\ UNCHANGED <<clock, disabled, evidence, stage, bearer, seen, outcome, deleted, inserted>>

Disable(p) ==
  /\ p \notin disabled
  /\ disabled' = disabled \cup {p}
  /\ UNCHANGED <<clock, revoked, evidence, stage, bearer, seen, outcome, deleted, inserted>>

\* The bearer parses; `at` is read before the transaction opens.
Present(a, c, matches) ==
  /\ Advance(a, "idle", "reading")
  /\ bearer' = [bearer EXCEPT ![a] =
       [credential |-> c, matches |-> matches, at |-> clock,
        barred |-> c = Unknown \/ c \in revoked \/ Owner[c] \in disabled
                     \/ ExpiredAt(c, clock)]]
  /\ UNCHANGED <<clock, lifecycle, evidence, seen, outcome, deleted, inserted>>

\* credentials.get: an unknown credential leaves nothing.
RejectUnknown(a) ==
  /\ Advance(a, "reading", "rejected")
  /\ bearer[a].credential = Unknown
  /\ UNCHANGED <<clock, lifecycle, evidence, bearer, seen, outcome, deleted, inserted>>

ReadCredential(a) ==
  /\ Advance(a, "reading", "judging")
  /\ bearer[a].credential # Unknown
  /\ seen' = [seen EXCEPT ![a] = bearer[a].credential \in revoked]
  /\ UNCHANGED <<clock, lifecycle, evidence, bearer, outcome, deleted, inserted>>

VerdictBeforeSecret(a) ==
  LET c == bearer[a].credential
  IN  CASE seen[a] -> "revoked"
        [] ~seen[a] /\ ~bearer[a].matches -> "credential_mismatch"
        [] ~seen[a] /\ bearer[a].matches /\ ExpiredAt(c, bearer[a].at) -> "expired"
        [] OTHER -> IF Owner[c] \in disabled THEN "principal_disabled" ELSE "succeeded"

VerdictByCredential(a) ==
  LET c == bearer[a].credential
  IN  CASE ~bearer[a].matches -> "credential_mismatch"
        [] bearer[a].matches /\ seen[a] -> "revoked"
        [] bearer[a].matches /\ ~seen[a] /\ ExpiredAt(c, bearer[a].at) -> "expired"
        [] OTHER -> "succeeded"

\* In the order the code asks: the secret first.
Verdict(a) ==
  LET c == bearer[a].credential
  IN  CASE ~bearer[a].matches -> "credential_mismatch"
        [] bearer[a].matches /\ seen[a] -> "revoked"
        [] bearer[a].matches /\ ~seen[a] /\ ExpiredAt(c, bearer[a].at) -> "expired"
        [] OTHER -> IF Owner[c] \in disabled THEN "principal_disabled" ELSE "succeeded"

\* principals.get follows the read of the credential.
Judge(a) ==
  /\ Advance(a, "judging", "pruning")
  /\ outcome' = [outcome EXCEPT ![a] = Verdict(a)]
  /\ UNCHANGED <<clock, lifecycle, evidence, bearer, seen, deleted, inserted>>

StaleWithBoundary(at) == {row \in evidence : row.bucket + Retention <= Hour(at)}

\* The DELETE begins on the rows committed so far ..
Stale(at) == {row \in evidence : row.bucket + Retention < Hour(at)}

StartPrune(a) ==
  /\ Advance(a, "pruning", "deleting")
  /\ deleted' = [deleted EXCEPT ![a] = Stale(bearer[a].at)]
  /\ UNCHANGED <<clock, lifecycle, evidence, bearer, seen, outcome, inserted>>

\* .. waits for transactions that have deleted one of them, and then skips what
\* they removed.  All DELETEs scan in one order, so its rows are locked as one.
Contenders(a) ==
  {b \in Attempts \ {a} : stage[b] \in {"inserting", "committing"}
                          /\ deleted[b] \cap deleted[a] # {}}

Prune(a) ==
  /\ Advance(a, "deleting", "inserting")
  /\ Contenders(a) = {}
  /\ deleted' = [deleted EXCEPT ![a] = @ \cap evidence]
  /\ UNCHANGED <<clock, lifecycle, evidence, bearer, seen, outcome, inserted>>

\* An INSERT waits for a transaction that has inserted or deleted its key.
EveryKeyFree(a) == a \in Attempts

KeyFree(a) ==
  \A b \in Attempts \ {a} : stage[b] \in {"inserting", "committing"} =>
    \A row \in deleted[b] \cup inserted[b] : Key(row) # Key(Row(a))

\* ON CONFLICT DO NOTHING
Insert(a) ==
  /\ Advance(a, "inserting", "committing")
  /\ KeyFree(a)
  /\ inserted' = [inserted EXCEPT ![a] =
       IF \E row \in evidence : Key(row) = Key(Row(a)) THEN {} ELSE {Row(a)}]
  /\ UNCHANGED <<clock, lifecycle, evidence, bearer, seen, outcome, deleted>>

\* The end of a transaction, which frees what it had locked.
End(a) ==
  /\ deleted'  = [deleted EXCEPT ![a] = {}]
  /\ inserted' = [inserted EXCEPT ![a] = {}]
  /\ UNCHANGED <<clock, lifecycle, bearer, seen>>

\* uow.commit decides the attempt: after it only its own answer is given, which a
\* process that dies here leaves unsent.
Commit(a) ==
  /\ Advance(a, "committing", IF outcome[a] = "succeeded" THEN "accepted" ELSE "rejected")
  /\ evidence' = (evidence \ deleted[a]) \cup inserted[a]
  /\ End(a)
  /\ UNCHANGED outcome

\* A statement or the process fails: nothing is kept and nobody is let in.
Abort(a) ==
  /\ stage[a] \in Live
  /\ stage' = [stage EXCEPT ![a] = "failed"]
  /\ End(a)
  /\ UNCHANGED <<evidence, outcome>>

Step(a) ==
  \/ RejectUnknown(a) \/ ReadCredential(a) \/ Judge(a)
  \/ StartPrune(a) \/ Prune(a) \/ Insert(a) \/ Commit(a)

Init ==
  /\ clock = 0 /\ revoked = {} /\ disabled = {} /\ evidence = {}
  /\ stage = [a \in Attempts |-> "idle"]
  /\ bearer = [a \in Attempts |-> NoBearer]
  /\ seen = [a \in Attempts |-> FALSE]
  /\ outcome = [a \in Attempts |-> "none"]
  /\ deleted = [a \in Attempts |-> {}] /\ inserted = [a \in Attempts |-> {}]

Next ==
  \/ Tick
  \/ \E c \in Credentials : Revoke(c)
  \/ \E p \in Principals : Disable(p)
  \/ \E a \in Attempts :
       \/ \E c \in Credentials \cup {Unknown}, matches \in BOOLEAN : Present(a, c, matches)
       \/ Step(a) \/ Abort(a)

Spec == Init /\ [][Next]_vars

-----------------------------------------------------------------------------
\* Whoever is let in, or turned away from a known credential, has left its row:
\* of that credential, outcome and hour, committed before any answer.  Only a
\* later attempt, more than the retention away, may have removed it
\* (authentication.py 99-116, repositories.py 26-46).
VerdictsEvidenced ==
  \A a \in Attempts : Observed(a) =>
    \/ \E row \in evidence : Key(row) = Key(Row(a))
    \/ \E b \in Attempts : Observed(b) /\ Hour(bearer[b].at) > Hour(bearer[a].at) + Retention

\* A row stands for an attempt whose verdict is its outcome, reached at its time,
\* and nobody without the secret can have left a lifecycle outcome.
EvidenceAttributable ==
  \A row \in evidence : \E a \in Attempts :
    /\ Observed(a) /\ Row(a) = row
    /\ row.outcome # "credential_mismatch" => bearer[a].matches

\* An attempt that began after the revocation, expiry or disablement had
\* committed is not let in, however its reads fall between other commits.
BarredStayOut ==
  \A a \in Attempts : bearer[a].barred => stage[a] # "accepted"

\* ADR-0020: the transaction of an attempt (authentication.py 99-116,
\* repositories.py 26-46) is one step of the log, whatever its DELETE and its
\* INSERT met: it takes away only what its own hour has outlived, replaces no
\* row, and its verdict appears together with its observation.
ImplementsLog == Log!Spec
=============================================================================
