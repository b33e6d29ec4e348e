------------------------------- MODULE MCRouting -------------------------------
(***************************************************************************)
(* The components that only answer or observe: the L3 router, the Infinity *)
(* Castle, the evo routers, the mesh and its buffer.  None reads or writes *)
(* the state of another, so that a behaviour of all of them is one of      *)
(* each, and a behaviour here is that of one part, chosen at the start.    *)
(***************************************************************************)
EXTENDS L3Route, InfinityCastle, EvoRouters, Mesh, MeshEntryBuf, Bitwise

VARIABLE part

allVars == << vars, castle, evo, mesh, buf, part >>

BitXor(x, y) == x ^^ y
BitAnd(x, y) == x & y

\* L3 on a circle of 16: the golden ratio scales to 26 and 10, and all addresses are
\* routed, one above the scale among them.
AllAddresses == 0 .. Scale

\* Two addresses that fold to 5, one that folds to the empty key 0, one with the bits
\* of the lane set, on the edge of the Mandelbrot set.
FoldingAddresses == {<< 0, 0 >>, << 0, 5 >>, << 1, 4 >>, << 0, 3 * 2^19 + 2048 >>, << 0, 7 >>}
OneBucket(key)   == 0
EvoOps           == << 4, 7, 7 >>

\* The code's seeds divided by 64, as its scale is.
Seeds == << << 1624, 620 >>, << 8140, 3109 >>, << 8881, 9650 >>, << 1263, 6740 >>,
            << 3824, 7719 >>, << 11405, 4356 >>, << 6360, 8688 >>, << 4890, 1867 >>,
            << 14716, 5621 >> >>

\* 3 and 57 have the same lane and cluster, 6 and its ghost the same cluster.
MixedAddresses == {3, 6, 57, 9000, 16390}

RoutingInit ==
  /\ part \in {"l3", "castle", "evo", "mesh", "buffer"}
  /\ Init /\ CastleInit /\ EvoInit /\ MeshInit /\ BufInit
  /\ part # "evo" => version = 1

RoutingNext ==
  /\ UNCHANGED part
  /\ \/ part = "l3" /\ Next /\ UNCHANGED << castle, evo, mesh, buf >>
     \/ part = "castle" /\ CastleNext /\ UNCHANGED << vars, evo, mesh, buf >>
     \/ part = "evo" /\ EvoNext /\ UNCHANGED << vars, castle, mesh, buf >>
     \/ part = "mesh" /\ MeshNext /\ UNCHANGED << vars, castle, evo, buf >>
     \/ part = "buffer" /\ BufNext /\ UNCHANGED << vars, castle, evo, mesh >>

RoutingSpec == RoutingInit /\ [][RoutingNext]_allVars
=============================================================================
