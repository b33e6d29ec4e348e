-------------------------------- MODULE MCHydra --------------------------------
(***************************************************************************)
(* The heads, the stages in front of them and the guard of the resources.  *)
(* No file of the repository joins them (dispatch_cb is set by a caller    *)
(* that is not there, and none asks the guard), so that a behaviour here   *)
(* is that of one part, chosen at the start.                               *)
(***************************************************************************)
EXTENDS HydraHeads, HydraFront, ResourceGuard

VARIABLE part

HydraInit == part \in {"heads", "front", "guard"} /\ Init /\ FrontInit /\ GuardInit

HydraNext ==
  /\ UNCHANGED part
  /\ \/ part = "heads" /\ Next /\ UNCHANGED << front, guard >>
     \/ part = "front" /\ FrontNext /\ UNCHANGED << vars, guard >>
     \/ part = "guard" /\ GuardNext /\ UNCHANGED << vars, front >>

HydraSpec == HydraInit /\ [][HydraNext]_<< vars, front, guard, part >>

\* The two limits of what is admitted: the rate of the limiter (HydraFront) and what
\* the guard lets the heads grow to (ResourceGuard).
LimitsAreKept == RateIsKept /\ GrowthIsBacked
=============================================================================
