------------------------- MODULE PermissionRegister -------------------------
(***************************************************************************)
(* What the permission PUT promises (ADR-0018, docs/architecture/README.md *)
(* "PUT atomically creates or replaces the current effect while preserving *)
(* PermissionId and creation time"): a register per (tenant, agent, model) *)
(* whose every change appends its evidence in the same instant.            *)
(***************************************************************************)
EXTENDS Naturals, Sequences

CONSTANTS Keys, Ids, Effects, Times, NoRow

VARIABLES rows, audits

Row == [id : Ids, effect : Effects, created : Times, updated : Times]
Fingerprint(k, effect) == <<k, effect>>
Fingerprints == Keys \X Effects

Init ==
  /\ rows = [k \in Keys |-> NoRow]
  /\ audits = <<>>

\* What the key has been so far: without a row, then whatever its evidence says.
Once(k) == {NoRow} \cup {audits[i].after : i \in {j \in 1 .. Len(audits) : audits[j].key = k}}

\* The first PUT of a key fixes id and creation time, a later one keeps them.
\* Its evidence starts from a state the key has once been in; the register leaves
\* open which.
Put(k, row, before) ==
  /\ before \in Once(k)
  /\ row.updated >= row.created
  /\ rows[k] # NoRow => row.id = rows[k].id /\ row.created = rows[k].created
  /\ rows' = [rows EXCEPT ![k] = row]
  /\ audits' = Append(audits, [key |-> k, resource |-> row.id, at |-> row.updated,
                               before |-> before, after |-> Fingerprint(k, row.effect)])

Next == \E k \in Keys, row \in Row : \E before \in Once(k) : Put(k, row, before)

Spec == Init /\ [][Next]_<<rows, audits>>
=============================================================================
