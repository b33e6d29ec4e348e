------------------------------ MODULE FaceSleep ------------------------------
(***************************************************************************)
(* src/core/pogls_face_sleep.h: nodes are put to sleep one by one or all   *)
(* idle ones at once, and their memory is given back to the system with    *)
(* madvise, which knows pages and not nodes: it refuses an address that no *)
(* page starts at, and takes whole pages, with whatever else they hold.    *)
(*                                                                         *)
(* The data of node i are DataStride bytes at Base + i * DataStride, as in *)
(* face_sleep_idle_nodes.  A write of a node and the append of its delta   *)
(* are their caller's, who marks the node dirty and clean; to wake it      *)
(* first is the caller's duty too, and nothing here relies on it.          *)
(* Counters are left out.                                                  *)
(***************************************************************************)
EXTENDS Integers

CONSTANTS
  NodeMax,      \* NODE_MAX
  AnchorStride, \* FACE_ANCHOR_STRIDE
  PageSize,     \* the system's, 4096
  Base,         \* base_ptr: where the data of node 0 begin in memory
  DataStride,   \* stride: bytes from one node's data to the next
  NodeBytes     \* node_bytes that face_sleep is called with, 130 or the stride

ASSUME SleepAssumption ==
  /\ NodeMax \in Nat /\ AnchorStride \in Nat \ {0} /\ PageSize \in Nat \ {0}
  /\ Base \in Nat /\ DataStride \in Nat \ {0} /\ NodeBytes \subseteq Nat

Faces == 0 .. (NodeMax - 1)

IsAnchor(n) == n % AnchorStride = 0

-----------------------------------------------------------------------------
\* madvise with MADV_DONTNEED of private memory, of size bytes at the data of n: it
\* fails if no page starts there, and the last page goes with its rest.
Start(n)   == Base + n * DataStride
Data(n)    == Start(n) .. (Start(n) + DataStride - 1)
Aligned(n) == Start(n) % PageSize = 0

Pages(size) == (size + PageSize - 1) \div PageSize

Swept(n, size) ==
  {m \in Faces : Data(m) \cap (Start(n) .. (Start(n) + Pages(size) * PageSize - 1)) # {}}

VARIABLES
  sleeping,  \* ctx->sleeping
  dirty,     \* ctx->dirty
  memory,    \* nodes whose newest data are in memory
  \* History.
  saved,     \* nodes whose newest data are in the delta lane
  released   \* nodes whose own memory has ever been given back

sleepvars == << sleeping, dirty, memory, saved, released >>

SleepTypeOK ==
  sleeping \subseteq Faces /\ dirty \subseteq Faces /\ memory \subseteq Faces
  /\ saved \subseteq Faces /\ released \subseteq Faces

\* face_sleep_init
SleepInit ==
  sleeping = {} /\ dirty = {} /\ memory = Faces /\ saved = Faces /\ released = {}

-----------------------------------------------------------------------------
\* A write of the node, and face_mark_dirty.
WriteFace(n) ==
  /\ memory' = memory \cup {n} /\ saved' = saved \ {n}
  /\ dirty' = dirty \cup {n}
  /\ UNCHANGED << sleeping, released >>

\* delta_append of what is in memory, and face_mark_clean.
SaveFace(n) ==
  /\ n \in dirty
  /\ saved' = IF n \in memory THEN saved \cup {n} ELSE saved
  /\ dirty' = dirty \ {n}
  /\ UNCHANGED << sleeping, memory, released >>

CanSleep(n) == ~IsAnchor(n) /\ n \notin dirty /\ n \notin sleeping

\* face_sleep of every one of the nodes, where given says whether the caller passes
\* an address: a node that madvise refuses stays awake.
FallAsleep(nodes, given, size) ==
  LET advised == given /\ size > 0
      gone    == {n \in nodes : CanSleep(n) /\ (advised => Aligned(n))}
  IN  /\ gone # {}
      /\ sleeping' = sleeping \cup gone
      /\ memory' = IF advised THEN {m \in memory : \A n \in gone : m \notin Swept(n, size)}
                   ELSE memory
      /\ released' = IF advised THEN released \cup gone ELSE released
      /\ UNCHANGED << dirty, saved >>

Sleep(n, given, size) == FallAsleep({n}, given, size)

\* face_sleep_idle_nodes, of those that may sleep and have a low density.
SleepIdle(idle, given) == FallAsleep(idle, given, DataStride)

WakeUp_cleans(woken) ==
  /\ woken # {}
  /\ sleeping' = sleeping \ woken /\ dirty' = dirty \ woken
  /\ UNCHANGED << memory, saved, released >>

\* face_wake: MADV_WILLNEED brings back nothing that MADV_DONTNEED has taken.
WakeUp(woken) ==
  /\ woken # {}
  /\ sleeping' = sleeping \ woken
  /\ UNCHANGED << dirty, memory, saved, released >>

\* face_wake, and FACE_WAKE_BEFORE_SPLIT.
Wake(n) == WakeUp({n} \cap sleeping)

\* face_wake_all
WakeAll == WakeUp(sleeping)

SleepNext ==
  \/ \E n \in Faces : WriteFace(n) \/ SaveFace(n) \/ Wake(n)
  \/ \E n \in Faces, given \in BOOLEAN, size \in NodeBytes : Sleep(n, given, size)
  \/ \E idle \in SUBSET {n \in Faces : CanSleep(n)}, given \in BOOLEAN : SleepIdle(idle, given)
  \/ WakeAll

SleepSpec == SleepInit /\ [][SleepNext]_sleepvars

-----------------------------------------------------------------------------
\* Nodes with data in the pages of another that may be put to sleep.
Exposed ==
  {m \in Faces : \E n \in Faces \ {m} :
     /\ ~IsAnchor(n) /\ Aligned(n)
     /\ \E size \in NodeBytes \cup {DataStride} : m \in Swept(n, size)}

\* Lines 23 and 25, "do not sleep a node that is dirty (delta pending)" and "anchor
\* nodes must not sleep", as far as they protect any data: of a node that shares no
\* page with a sleeper the newest data are in memory or in the delta lane, and an
\* anchor's in memory, however it is written, saved, put to sleep, written in its
\* sleep and woken.  A node that shares one can lose what it has not saved.
PendingDataKept ==
  \A n \in Faces \ Exposed :
    n \in memory \/ (n \in saved /\ ~IsAnchor(n))

\* madvise has only ever taken the memory of nodes that lie a whole number of pages
\* apart.
PagesApart ==
  \A m, n \in released : (Start(m) - Start(n)) % PageSize = 0

\* Line 40 has 162 sleeping nodes free 21 KB: of nodes of FACE_BYTES_PER_NODE = 130
\* bytes no more than one ever gives its memory back.
OneReleased == \A m, n \in released : m = n
=============================================================================
