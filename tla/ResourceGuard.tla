---------------------------- MODULE ResourceGuard ----------------------------
(***************************************************************************)
(* src/hydra/pogls_resource_guard.h: what the heads may do with the memory *)
(* and processor time there is.  Each question first updates the guard, at *)
(* most once in a second of time(), which may be set back.  Either file of *)
(* /proc may be unreadable at any time: then the old metric stays.         *)
(***************************************************************************)
EXTENDS Naturals

CONSTANTS
  RamMin,    \* RG_RAM_MIN_KB
  RamMax,    \* bound: the most memory there is
  CpuMax,    \* RG_CPU_MAX_PCT
  LoadMax,   \* 100%
  HydraMin,  \* RG_HYDRA_MIN
  HydraMax,  \* RG_HYDRA_MAX
  Seconds,   \* bound: what time() returns, 1 .. Seconds
  MaxAsked   \* bound: questions asked

ASSUME GuardAssumption ==
  /\ RamMin \in Nat \ {0} /\ RamMax \in Nat /\ RamMax >= 2 * RamMin
  /\ CpuMax \in Nat /\ LoadMax \in Nat /\ HydraMin \in Nat /\ HydraMax \in Nat
  /\ Seconds \in Nat \ {0} /\ MaxAsked \in Nat

VARIABLES
  ram_avail, cpu_load,
  cpu_prev,              \* /proc/stat has been read before
  block_expand, force_shrink, throttle_rate,
  last_update, rg_now,
  \* History.
  readings,  \* what the last reading of /proc/meminfo that worked showed, if any has
  granted,   \* the questions answered with yes since the last update
  asked_rg   \* questions asked

guard == << ram_avail, cpu_load, cpu_prev, block_expand, force_shrink, throttle_rate,
            last_update, rg_now, readings, granted, asked_rg >>

Questions == {"expand", "spawn", "shrink", "throttle"}

\* rg_init.  hydra_heads_active is HydraMin from here on: nothing ever updates it.
GuardInit ==
  /\ ram_avail = 0 /\ cpu_load = 0 /\ cpu_prev = FALSE
  /\ block_expand = FALSE /\ force_shrink = FALSE /\ throttle_rate = FALSE
  /\ last_update = 0 /\ rg_now = 1
  /\ readings = {} /\ granted = {} /\ asked_rg = 0

-----------------------------------------------------------------------------
\* rg_read_ram
ReadRam ==
  \/ UNCHANGED << ram_avail, readings >>
  \/ \E kb \in 0 .. RamMax : ram_avail' = kb /\ readings' = {kb}

\* rg_read_cpu.  The load is what went by since the reading before, if there was one
\* and time has gone by.
ReadCpu ==
  \/ UNCHANGED << cpu_load, cpu_prev >>
  \/ /\ cpu_prev' = TRUE
     /\ IF cpu_prev THEN \E load \in 0 .. LoadMax : cpu_load' = load
                    ELSE cpu_load' = cpu_load

\* The flags are cleared, and set again by the thresholds.
ApplyThresholds ==
  /\ block_expand' = (ram_avail' < RamMin)
  /\ force_shrink' = (ram_avail' < RamMin)
  /\ throttle_rate' = (ram_avail' < RamMin \/ cpu_load' > CpuMax)

\* rg_update.  The difference of the times is unsigned: an earlier time is far off.
Update ==
  \/ rg_now = last_update
     /\ UNCHANGED << ram_avail, cpu_load, cpu_prev, block_expand, force_shrink,
                     throttle_rate, last_update, readings >>
  \/ /\ rg_now # last_update
     /\ ReadRam /\ ReadCpu /\ ApplyThresholds
     /\ last_update' = rg_now

Kept == IF rg_now = last_update THEN granted ELSE {}

\* rg_can_expand, rg_can_spawn_hydra, rg_should_shrink, rg_should_throttle
Answer(question) ==
  CASE question = "expand"   -> ~block_expand'
    [] question = "spawn"    -> ~block_expand' /\ HydraMin < HydraMax /\ ram_avail' >= 2 * RamMin
    [] question = "shrink"   -> force_shrink'
    [] question = "throttle" -> throttle_rate'

Ask(question) ==
  /\ asked_rg < MaxAsked /\ asked_rg' = asked_rg + 1
  /\ Update
  /\ granted' = IF Answer(question) THEN Kept \cup {question} ELSE Kept
  /\ UNCHANGED rg_now

Passes == /\ rg_now' \in 1 .. Seconds
          /\ UNCHANGED << ram_avail, cpu_load, cpu_prev, block_expand, force_shrink,
                          throttle_rate, last_update, readings, granted, asked_rg >>

GuardNext == Passes \/ \E question \in Questions : Ask(question)

-----------------------------------------------------------------------------
\* Between two updates the heads are never told both to grow and to shrink; growth is
\* only granted on the memory that /proc/meminfo last showed, twice the minimum for a
\* head, never before it could be read, and a guard that could not read it yet asks to
\* shrink.  (The memory shown may be of any age: rg_update takes a failed reading for
\* one that worked, lines 104 and 117.)
GrowthIsBacked ==
  /\ "shrink" \in granted => granted \cap {"expand", "spawn"} = {}
  /\ "expand" \in granted => \E kb \in readings : kb >= RamMin
  /\ "spawn"  \in granted => \E kb \in readings : kb >= 2 * RamMin
  /\ "shrink" \in granted => \A kb \in readings : kb < RamMin
=============================================================================
