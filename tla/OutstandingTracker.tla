------------------------- MODULE OutstandingTracker -------------------------
(***************************************************************************)
(* The outstanding-transaction tracker (rtl/core/outstanding_tracker.sv).  *)
(*                                                                         *)
(* DEPTH slots hold the transactions that were admitted and not yet        *)
(* answered. A transaction is named by a composite tag {generation, slot}; *)
(* the generation of a slot is bumped each time it is allocated, so that a *)
(* delayed response to an earlier occupant is recognised. An entry whose   *)
(* age reaches the threshold is quarantined: it stays live until its       *)
(* response, or an explicit reclaim request, frees it.                     *)
(*                                                                         *)
(* One clock edge is one step. TrackerEdge(in) is the whole always_ff      *)
(* block for the inputs in, the operators before it the combinational      *)
(* logic it uses.                                                          *)
(***************************************************************************)
EXTENDS Integers, FiniteSets, Ports

CONSTANTS
  DEPTH,        \* number of slots, not necessarily a power of two
  SLOT_SPACE,   \* 2^SLOT_W: the slot numbers a tag can carry
  GEN_MOD,      \* 2^GEN_W
  TS_MOD,       \* 2^TS_W
  CNT_MAX,      \* 2^CNT_W - 1, where the diagnostic counters saturate
  Entry,        \* what an allocation stores; an entry has a field "meta"
  ZeroEntry,    \* the stored fields after reset
  TrackerInputs \* the input vectors the environment may present at an edge

Slots == 0 .. DEPTH - 1
Tags  == [slot : 0 .. SLOT_SPACE - 1, gen : 0 .. GEN_MOD - 1]

(***************************************************************************)
(* alloc is the entry presented with alloc_req, resp the tag presented     *)
(* with resp_valid, reclaim the tag presented with reclaim_req_valid.      *)
(***************************************************************************)
TrackerInputType ==
  [ts : 0 .. TS_MOD - 1, timeout_enable : BOOLEAN, timeout_thresh : 0 .. TS_MOD - 1,
   alloc : Entry \cup {None}, resp : Tags \cup {None}, reclaim : Tags \cup {None},
   reclaim_rsp_ready : BOOLEAN]

RespClasses    == {"VALID", "INVALID_SLOT", "NON_LIVE", "STALE_GEN"}
ReclaimClasses == {"OK", "INVALID_SLOT", "NOT_LIVE", "STALE_GEN",
                   "NOT_QUARANTINED", "SUPERSEDED"}
Counters       == {"alloc", "retire", "full", "timeout", "reclaim",
                   "invalid_slot", "non_live", "stale_gen"}
Metas          == {e.meta : e \in Entry}
ReclaimRsp     == [tag : Tags, class : ReclaimClasses, meta : Metas]

ASSUME TrackerSizeAssumption ==
  /\ DEPTH \in Nat \ {0}
  /\ SLOT_SPACE \in Nat /\ SLOT_SPACE >= DEPTH
  /\ GEN_MOD \in Nat \ {0} /\ TS_MOD \in Nat \ {0} /\ CNT_MAX \in Nat

ASSUME DataAssumption ==
  /\ ZeroEntry \in Entry
  /\ None \notin Entry /\ None \notin Tags /\ None \notin ReclaimRsp

ASSUME TrackerInputAssumption == TrackerInputs \subseteq TrackerInputType

VARIABLES
  live,             \* the slots whose live bit is set
  gen,              \* generation of each slot
  entry,            \* epoch, op, meta and credit_vec of each slot
  issue_ts,         \* timestamp of each slot's allocation
  timed_out,        \* the slots whose timed_out bit is set
  occupancy,
  high_watermark,
  reclaim_rsp,      \* the registered reclaim response, None when not valid
  count,            \* the diagnostic counters
  err_first_class   \* class of the first bad response; VALID while not sticky

slotVars    == <<live, gen, entry, issue_ts, timed_out>>
trackerVars == <<slotVars, occupancy, high_watermark, reclaim_rsp, count, err_first_class>>

-----------------------------------------------------------------------------
(* Combinational logic, a function of the registers before the edge. *)

full == occupancy = DEPTH

\* Mutant: a quarantined slot counts as free.
FreeSlot_Quarantined ==
  {s \in Slots \ (live \ timed_out) : \A t \in Slots \ (live \ timed_out) : s <= t}

\* The lowest-index free slot, as a set: empty when every slot is live.
FreeSlot == {s \in Slots \ live : \A t \in Slots \ live : s <= t}

\* The slot granted to an allocation (alloc_gnt); empty when none is granted.
AllocSet(in) == IF in.alloc # None /\ ~full THEN FreeSlot ELSE {}

\* Mutant: the generation does not wrap.
NextGen_NoWrap(s) == gen[s] + 1

NextGen(s) == (gen[s] + 1) % GEN_MOD

\* Mutant: the tag carries the generation before the bump.
AllocTag_OldGen(in) == {[slot |-> s, gen |-> gen[s]] : s \in AllocSet(in)}

\* alloc_tag, as a set with one tag when the allocation is granted.
AllocTag(in) == {[slot |-> s, gen |-> NextGen(s)] : s \in AllocSet(in)}

\* Mutant: the generation is not compared.
RespClass_NoGen(tag) ==
  IF tag.slot \notin Slots     THEN "INVALID_SLOT"
  ELSE IF tag.slot \notin live THEN "NON_LIVE"
  ELSE "VALID"

RespClass(tag) ==
  IF tag.slot \notin Slots        THEN "INVALID_SLOT"
  ELSE IF tag.slot \notin live    THEN "NON_LIVE"
  ELSE IF tag.gen # gen[tag.slot] THEN "STALE_GEN"
  ELSE "VALID"

\* resp_retire, as the set of slots retired at this edge.
RetireSet(in) ==
  IF in.resp # None /\ RespClass(in.resp) = "VALID" THEN {in.resp.slot} ELSE {}

ReclaimAccept(in) == in.reclaim # None /\ reclaim_rsp = None

\* Mutant: a response retiring the slot at the same edge does not take precedence.
ReclaimClass_NoSuperseded(in) ==
  LET tag == in.reclaim IN
  IF tag.slot \notin Slots              THEN "INVALID_SLOT"
  ELSE IF tag.slot \notin live          THEN "NOT_LIVE"
  ELSE IF tag.gen # gen[tag.slot]       THEN "STALE_GEN"
  ELSE IF tag.slot \notin timed_out     THEN "NOT_QUARANTINED"
  ELSE "OK"

ReclaimClass(in) ==
  LET tag == in.reclaim IN
  IF tag.slot \notin Slots              THEN "INVALID_SLOT"
  ELSE IF tag.slot \notin live          THEN "NOT_LIVE"
  ELSE IF tag.gen # gen[tag.slot]       THEN "STALE_GEN"
  ELSE IF tag.slot \notin timed_out     THEN "NOT_QUARANTINED"
  ELSE IF tag.slot \in RetireSet(in)    THEN "SUPERSEDED"
  ELSE "OK"

\* reclaim_success_fire, as the set of slots reclaimed at this edge.
ReclaimSet(in) ==
  IF ReclaimAccept(in) /\ ReclaimClass(in) = "OK" THEN {in.reclaim.slot} ELSE {}

Freed(in) == RetireSet(in) \cup ReclaimSet(in)

timeout_active(in) == in.timeout_enable /\ in.timeout_thresh # 0

\* Mutant: the age is a plain difference.
Age_NoModulo(in, s) == in.ts - issue_ts[s]

Age(in, s) == (in.ts - issue_ts[s]) % TS_MOD

\* The slots newly marked, of those that are not freed at this edge.
NewTimeout(in, freed) ==
  IF ~timeout_active(in) THEN {}
  ELSE {s \in (live \ timed_out) \ freed : Age(in, s) >= in.timeout_thresh}

quarantined_count == Cardinality(live \cap timed_out)

-----------------------------------------------------------------------------
(* The registers. *)

One(b) == IF b THEN 1 ELSE 0
SatAdd(c, n) == IF c + n > CNT_MAX THEN CNT_MAX ELSE c + n

TrackerInit ==
  /\ live = {} /\ timed_out = {}
  /\ gen = [s \in Slots |-> 0]
  /\ entry = [s \in Slots |-> ZeroEntry]
  /\ issue_ts = [s \in Slots |-> 0]
  /\ occupancy = 0 /\ high_watermark = 0
  /\ reclaim_rsp = None
  /\ count = [c \in Counters |-> 0]
  /\ err_first_class = "VALID"

\* Asynchronous reset.
TrackerReset ==
  /\ live' = {} /\ timed_out' = {}
  /\ gen' = [s \in Slots |-> 0]
  /\ entry' = [s \in Slots |-> ZeroEntry]
  /\ issue_ts' = [s \in Slots |-> 0]
  /\ occupancy' = 0 /\ high_watermark' = 0
  /\ reclaim_rsp' = None
  /\ count' = [c \in Counters |-> 0]
  /\ err_first_class' = "VALID"

\* An allocation writes the fields of its slot and bumps the generation.
WriteEntry(in, granted) ==
  /\ gen'      = [s \in Slots |-> IF s \in granted THEN NextGen(s) ELSE gen[s]]
  /\ entry'    = [s \in Slots |-> IF s \in granted THEN in.alloc ELSE entry[s]]
  /\ issue_ts' = [s \in Slots |-> IF s \in granted THEN in.ts ELSE issue_ts[s]]

UpdateLive(in, granted, freed) ==
  /\ live'      = (live \ freed) \cup granted
  /\ timed_out' = ((timed_out \ freed) \cup NewTimeout(in, freed)) \ granted

\* Mutants: one decrement for a retirement and a reclaim at one edge, and none
\* for a reclaim.
occ_next_OneDecrement(granted, retired, reclaimed) ==
  occupancy + One(granted # {}) - One(retired \cup reclaimed # {})

occ_next_NoReclaim(granted, retired, reclaimed) ==
  occupancy + One(granted # {}) - One(retired # {})

occ_next(granted, retired, reclaimed) ==
  occupancy + One(granted # {}) - One(retired # {}) - One(reclaimed # {})

UpdateOccupancy(granted, retired, reclaimed) ==
  /\ occupancy' = occ_next(granted, retired, reclaimed)
  /\ high_watermark' = IF occupancy' > high_watermark THEN occupancy' ELSE high_watermark

\* Mutant: the response is dropped after one edge, taken or not.
UpdateReclaimRsp_Pulse(in) ==
  reclaim_rsp' =
    IF ReclaimAccept(in)
    THEN [tag |-> in.reclaim, class |-> ReclaimClass(in),
          meta |-> IF ReclaimClass(in) = "OK" THEN entry[in.reclaim.slot].meta
                                              ELSE ZeroEntry.meta]
    ELSE None

\* The response of an accepted request is held until the requester takes it.
\* Metadata accompanies a successful reclaim only.
UpdateReclaimRsp(in) ==
  reclaim_rsp' =
    IF ReclaimAccept(in)
    THEN [tag   |-> in.reclaim,
          class |-> ReclaimClass(in),
          meta  |-> IF ReclaimClass(in) = "OK" THEN entry[in.reclaim.slot].meta
                                               ELSE ZeroEntry.meta]
    ELSE IF in.reclaim_rsp_ready THEN None ELSE reclaim_rsp

\* Mutant: a reclaim counts as a retirement too.
Events_ReclaimRetires(in, granted, retired, reclaimed) ==
  LET bad(class) == in.resp # None /\ RespClass(in.resp) = class IN
  [alloc        |-> One(granted # {}),
   retire       |-> One(retired # {}) + One(reclaimed # {}),
   reclaim      |-> One(reclaimed # {}),
   timeout      |-> Cardinality(NewTimeout(in, retired \cup reclaimed)),
   full         |-> One(in.alloc # None /\ (full \/ live = Slots)),
   invalid_slot |-> One(bad("INVALID_SLOT")),
   non_live     |-> One(bad("NON_LIVE")),
   stale_gen    |-> One(bad("STALE_GEN"))]

Events(in, granted, retired, reclaimed) ==
  LET bad(class) == in.resp # None /\ RespClass(in.resp) = class IN
  [alloc        |-> One(granted # {}),
   retire       |-> One(retired # {}),
   reclaim      |-> One(reclaimed # {}),
   timeout      |-> Cardinality(NewTimeout(in, retired \cup reclaimed)),
   full         |-> One(in.alloc # None /\ (full \/ live = Slots)),
   invalid_slot |-> One(bad("INVALID_SLOT")),
   non_live     |-> One(bad("NON_LIVE")),
   stale_gen    |-> One(bad("STALE_GEN"))]

UpdateDiagnostics(in, events) ==
  /\ count' = [c \in Counters |-> SatAdd(count[c], events[c])]
  /\ err_first_class' =
       IF err_first_class = "VALID" /\ in.resp # None THEN RespClass(in.resp)
                                                      ELSE err_first_class

TrackerEdge(in) ==
  LET granted   == AllocSet(in)
      retired   == RetireSet(in)
      reclaimed == ReclaimSet(in)
  IN /\ WriteEntry(in, granted)
     /\ UpdateLive(in, granted, retired \cup reclaimed)
     /\ UpdateOccupancy(granted, retired, reclaimed)
     /\ UpdateReclaimRsp(in)
     /\ UpdateDiagnostics(in, Events(in, granted, retired, reclaimed))

TrackerNext == TrackerReset \/ \E in \in TrackerInputs : TrackerEdge(in)

TrackerSpec == TrackerInit /\ [][TrackerNext]_trackerVars

-----------------------------------------------------------------------------
TrackerTypeOK ==
  /\ live \subseteq Slots
  /\ timed_out \subseteq Slots
  /\ gen \in [Slots -> 0 .. GEN_MOD - 1]
  /\ entry \in [Slots -> Entry]
  /\ issue_ts \in [Slots -> 0 .. TS_MOD - 1]
  /\ occupancy \in 0 .. DEPTH
  /\ high_watermark \in 0 .. DEPTH
  /\ reclaim_rsp \in ReclaimRsp \cup {None}
  /\ count \in [Counters -> 0 .. CNT_MAX]
  /\ err_first_class \in RespClasses
-----------------------------------------------------------------------------
(* Safety properties. *)

\* The occupancy register, which is added to and subtracted from on its own,
\* always equals the number of live slots, whatever allocation, retirement and
\* reclaim fall on one edge (occ_next, the FORMAL assert occupancy == live_pop).
OccupancyExact == occupancy = Cardinality(live)

\* Only a live entry is quarantined: a slot never carries the timed_out bit of
\* an earlier occupant, whatever frees it at the edge that would mark it.
QuarantineOnlyLive == timed_out \subseteq live

\* A slot that is live on both sides of an edge holds the same transaction:
\* same tag, same stored fields, and a quarantine that is never lifted. No edge
\* frees a slot and hands it to a new request (no same-cycle reuse).
KeepsLiveEntries ==
  \A s \in live \cap live' :
    /\ gen'[s] = gen[s] /\ entry'[s] = entry[s] /\ issue_ts'[s] = issue_ts[s]
    /\ s \in timed_out => s \in timed_out'

LiveEntryKept == [][KeepsLiveEntries]_trackerVars

\* The counters account for every transaction: until the allocation counter
\* saturates, allocations are retirements plus reclaims plus what is live, so no
\* entry is freed twice and none disappears.
AllocationsAccounted ==
  count["alloc"] < CNT_MAX =>
    count["alloc"] = count["retire"] + count["reclaim"] + occupancy
=============================================================================
