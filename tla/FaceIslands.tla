----------------------------- MODULE FaceIslands -----------------------------
(***************************************************************************)
(* Faces that are split and their execution islands: fstate_split and      *)
(* fstate_merge_complete and the HydraContextPool of                       *)
(* src/core/pogls_face_state.h.  Their caller, the topology engine, is not *)
(* in the repository; it is taken to do what the comments ask of it: split *)
(* no anchor and no face that is split, over two faces that are no         *)
(* anchors, not split and nobody's children, spawn a context for the       *)
(* children, and retire it at the merge.                                   *)
(***************************************************************************)
EXTENDS Naturals, Sequences, FiniteSets

CONSTANTS
  Nodes,        \* the NODE_MAX nodes
  Anchors,      \* every 20th of them, as both headers define it
  NumContexts,  \* HYDRA_CTX_MAX
  LocalSize,    \* HYDRA_CTX_REWIND_SIZE
  Blocks,       \* blocks pushed to a context
  Nobody,       \* model value: no node, no context, no block
  MaxBlocks     \* bound: blocks in a timeline

ASSUME IslandAssumption ==
  /\ Anchors \subseteq Nodes
  /\ NumContexts \in Nat \ {0} /\ LocalSize \in Nat \ {0} /\ MaxBlocks \in Nat
  /\ Nobody \notin Nodes \cup Blocks

Contexts == 0 .. (NumContexts - 1)

VARIABLES
  face,        \* ft->nodes: hydra_id, and the children of one that is split
  active,      \* active_mask of the pool
  ctx,         \* per context: its face, and its local rewind
  \* History.
  pushed,      \* per context, the blocks pushed and not rewound
  top,         \* per context, the highest head since it was spawned
  reclaimed    \* contexts whose face was reclaimed as the child of another

islands == << active, ctx, pushed, top >>
islandvars == << face, islands, reclaimed >>

Unused == [parent |-> Nobody, head |-> 0, slots |-> [i \in 0 .. (LocalSize - 1) |-> Nobody]]

IslandsInit ==
  /\ face = [n \in Nodes |-> [hydra_id |-> Nobody, children |-> {}]]
  /\ active = {} /\ ctx = [c \in Contexts |-> Unused]
  /\ pushed = [c \in Contexts |-> << >>] /\ top = [c \in Contexts |-> 0]
  /\ reclaimed = {}

-----------------------------------------------------------------------------
FaceIsAnchor(n) == n \in Anchors
IsSplit(n)  == face[n].children # {}

Plain(n) == ~FaceIsAnchor(n) /\ ~IsSplit(n) /\ \A m \in Nodes : n \notin face[m].children

\* hctx_spawn takes the first free context, if there is one.
Free_afterLast(c) == c = Cardinality(active)

Free(c) == c \notin active /\ \A d \in Contexts : d < c => d \in active

\* hctx_spawn and fstate_split.
Split(n, children, c) ==
  /\ ~FaceIsAnchor(n) /\ ~IsSplit(n) /\ Free(c)
  /\ \A m \in children : m # n /\ Plain(m)
  /\ active' = active \cup {c}
  /\ ctx' = [ctx EXCEPT ![c] = [Unused EXCEPT !.parent = n]]
  /\ pushed' = [pushed EXCEPT ![c] = << >>] /\ top' = [top EXCEPT ![c] = 0]
  /\ face' = [m \in Nodes |->
       IF m = n THEN [hydra_id |-> c, children |-> children]
       ELSE IF m \in children THEN [hydra_id |-> c, children |-> {}] ELSE face[m]]
  /\ reclaimed' = reclaimed \ {c}

\* fstate_merge_complete zeroes the children, splits of their own included, which
\* leaves them to context 0; hctx_retire clears the context.
Retired(n) == active \ {face[n].hydra_id}

Merge(n) ==
  LET c == face[n].hydra_id
  IN  /\ IsSplit(n)
      /\ face' = [m \in Nodes |->
           IF m \in face[n].children THEN [hydra_id |-> 0, children |-> {}]
           ELSE IF m = n THEN [hydra_id |-> Nobody, children |-> {}] ELSE face[m]]
      /\ active' = Retired(n)
      /\ ctx' = [ctx EXCEPT ![c] = Unused]
      /\ pushed' = [pushed EXCEPT ![c] = << >>] /\ top' = [top EXCEPT ![c] = 0]
      /\ reclaimed' = (reclaimed \ {c}) \cup
                      {face[m].hydra_id : m \in {k \in face[n].children : IsSplit(k)}}

-----------------------------------------------------------------------------
\* hctx_push
PushLocal(c) ==
  /\ c \in active /\ Len(pushed[c]) < MaxBlocks
  /\ \E block \in Blocks :
       /\ ctx' = [ctx EXCEPT ![c] = [@ EXCEPT !.slots[ctx[c].head % LocalSize] = block,
                                              !.head = ctx[c].head + 1]]
       /\ pushed' = [pushed EXCEPT ![c] = Append(@, block)]
  /\ top' = [top EXCEPT ![c] = IF @ > ctx[c].head THEN @ ELSE ctx[c].head + 1]
  /\ UNCHANGED << active, face, reclaimed >>

RewoundBy_one(c, n) == IF n < ctx[c].head THEN n + 1 ELSE ctx[c].head

\* hctx_rewind: nothing sets confirmed, so that all that was pushed may be rewound.
RewoundBy(c, n) == IF n < ctx[c].head THEN n ELSE ctx[c].head

RewindLocal(c, n) ==
  /\ c \in active
  /\ ctx' = [ctx EXCEPT ![c].head = @ - RewoundBy(c, n)]
  /\ pushed' = [pushed EXCEPT ![c] =
       SubSeq(@, 1, IF n < Len(@) THEN Len(@) - n ELSE 0)]
  /\ UNCHANGED << active, top, face, reclaimed >>

IslandsNext ==
  \/ \E n \in Nodes, c \in Contexts, children \in SUBSET Nodes :
       Cardinality(children) = 2 /\ Split(n, children, c)
  \/ \E n \in Nodes : Merge(n)
  \/ \E c \in Contexts : PushLocal(c) \/ \E n \in 1 .. MaxBlocks : RewindLocal(c, n)

IslandsSpec == IslandsInit /\ [][IslandsNext]_islandvars

-----------------------------------------------------------------------------
\* Every active context belongs to one split face, which names it and which it
\* names, unless that face was itself a child when its parent was merged: then
\* fstate_merge_complete has wiped it out and nobody can retire its context.
IslandsOwned ==
  /\ \A c \in active \ reclaimed :
       \A n \in Nodes : IsSplit(n) /\ face[n].hydra_id = c <=> n = ctx[c].parent
  /\ \A n \in Nodes : IsSplit(n) => face[n].hydra_id \in active

\* "execution island ... local rewind": a local rewind keeps the newest blocks of
\* its timeline, as many as its ring holds less those rewound since the highest
\* head, although rewinds and pushes alternate and may go all the way back.
LocalWindow ==
  \A c \in active :
    /\ ctx[c].head = Len(pushed[c])
    /\ \A i \in 0 .. (ctx[c].head - 1) :
         i >= top[c] - LocalSize => ctx[c].slots[i % LocalSize] = pushed[c][i + 1]
=============================================================================
