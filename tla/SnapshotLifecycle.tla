-------------------------- MODULE SnapshotLifecycle ---------------------------
(***************************************************************************)
(* What the header comment of src/pogls_v4_snapshot.h promises of a        *)
(* snapshot's life: PENDING -> CERTIFIED, PENDING -> AUTO -> VOID, ids     *)
(* handed out in order and never again, a certified snapshot never         *)
(* changing, and none certified under audit once health has degraded.      *)
(* `sealed` holds what a certified snapshot vouches for.                   *)
(***************************************************************************)
EXTENDS Integers, Sequences

CONSTANT NoSeal

VARIABLES
  stage,     \* the state of every snapshot created, by id
  sealed,    \* what each vouches for, NoSeal until certified
  degraded   \* audit health

lifecycle == << stage, sealed, degraded >>

Init == stage = << >> /\ sealed = << >> /\ degraded = FALSE

Create ==
  /\ stage' = Append(stage, "PENDING")
  /\ sealed' = Append(sealed, NoSeal)
  /\ UNCHANGED degraded

\* An auditor seals a pending snapshot; without one there is nothing to seal.
Certify(i, seal) ==
  /\ stage[i] = "PENDING"
  /\ seal # NoSeal => ~degraded
  /\ stage' = [stage EXCEPT ![i] = "CERTIFIED"]
  /\ sealed' = [sealed EXCEPT ![i] = seal]
  /\ UNCHANGED degraded

Promote(i) ==
  /\ stage[i] = "PENDING"
  /\ stage' = [stage EXCEPT ![i] = "AUTO"]
  /\ UNCHANGED << sealed, degraded >>

Invalidate(i) ==
  /\ stage[i] = "AUTO"
  /\ stage' = [stage EXCEPT ![i] = "VOID"]
  /\ UNCHANGED << sealed, degraded >>

Degrade ==
  /\ degraded' = TRUE
  /\ UNCHANGED << stage, sealed >>

\* seal is whatever the step recorded: the constraint is on when, not on what.
Next ==
  \/ Create \/ Degrade
  \/ \E i \in DOMAIN stage : Certify(i, sealed'[i]) \/ Promote(i) \/ Invalidate(i)

Spec == Init /\ [][Next]_lifecycle
=============================================================================
