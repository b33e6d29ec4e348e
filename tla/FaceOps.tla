------------------------------- MODULE FaceOps -------------------------------
(***************************************************************************)
(* src/core/pogls_face_state.h: the activity of a face and the state       *)
(* machine it drives.  EngineBridge ticks the faces; FaceIslands splits    *)
(* and merges them.                                                        *)
(***************************************************************************)
EXTENDS Naturals

CONSTANTS
  NumNodes,     \* NODE_MAX
  Stride,       \* FSTATE_ANCHOR_STRIDE, and FACE_ANCHOR_STRIDE of pogls_face_sleep.h
  Share,        \* 2^ACTIVITY_DECAY_SHIFT: the part of the activity that a tick takes
  SplitThresh,  \* split_threshold
  ActMax,       \* ACTIVITY_MAX
  GhostTicks    \* ghost_threshold

\* 8 and 6 in the code: an activity too small to decay is already a hot one.
ASSUME FaceAssumption ==
  /\ NumNodes \in Nat \ {0} /\ Stride \in Nat \ {0} /\ GhostTicks \in Nat
  /\ Share \in Nat /\ SplitThresh \in Nat /\ ActMax \in Nat
  /\ SplitThresh + 1 < Share /\ Share <= ActMax

FaceIds == 0 .. (NumNodes - 1)

IsAnchorFace(n) == n % Stride = 0

\* activity_update: a share of the score decays, rounded down, and a hit adds one.
Updated_idleLosesOne(score, hit) ==
  IF score = ActMax /\ hit THEN ActMax
  ELSE IF hit THEN score - score \div Share + 1
  ELSE IF score = 0 THEN 0 ELSE score - 1 - (score - 1) \div Share

Updated(score, hit) ==
  IF score = ActMax /\ hit THEN ActMax
  ELSE score - score \div Share + (IF hit THEN 1 ELSE 0)

\* The transitions of fstate_tick at tick now, for a face whose activity and
\* last_tick have been brought up to date.
Moved(n, f, hit, now) ==
  CASE f.state = "NORMAL" /\ ~IsAnchorFace(n) /\ f.activity > SplitThresh -> "ACTIVE_LOOP"
    [] f.state = "NORMAL" /\ ~IsAnchorFace(n) /\ f.activity <= SplitThresh
         /\ now - f.last_tick > GhostTicks -> "GHOST"
    [] f.state = "ACTIVE_LOOP" /\ f.activity < SplitThresh \div 2 -> "NORMAL"
    [] f.state = "GHOST" /\ hit -> "WAKING"
    [] OTHER -> f.state

\* fstate_tick
Ticked(n, face, hit, now) ==
  LET f == [face EXCEPT !.activity = Updated(face.activity, hit),
                        !.last_tick = IF hit THEN now ELSE face.last_tick]
  IN  [f EXCEPT !.state = Moved(n, f, hit, now)]
=============================================================================
