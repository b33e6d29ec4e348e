-------------------------------- MODULE MCCore --------------------------------
(***************************************************************************)
(* Three parts of the V3 core: the rewind buffer, the sleep of nodes and   *)
(* the engine bridge.  The bridge leaves its rewind pointer NULL, and      *)
(* nothing in the repository puts a node to sleep, so that none reads or   *)
(* writes the state of another: a behaviour of all of them is one of each, *)
(* and a behaviour here is that of one part, chosen at the start.          *)
(***************************************************************************)
EXTENDS RewindBuffer, FaceSleep, EngineBridge

VARIABLE part

CoreInit == part \in {"rewind", "sleep", "bridge"} /\ Init /\ SleepInit /\ BridgeInit

CoreNext ==
  /\ UNCHANGED part
  /\ \/ part = "rewind" /\ Next /\ UNCHANGED << sleepvars, bridge >>
     \/ part = "sleep" /\ SleepNext /\ UNCHANGED << vars, bridge >>
     \/ part = "bridge" /\ BridgeNext /\ UNCHANGED << vars, sleepvars >>

CoreSpec == CoreInit /\ [][CoreNext]_<< vars, sleepvars, bridge, part >>
=============================================================================
