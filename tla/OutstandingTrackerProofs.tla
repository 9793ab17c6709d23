---------------------- MODULE OutstandingTrackerProofs ----------------------
(***************************************************************************)
(* Theorems about OutstandingTracker, for every number of slots, every     *)
(* width and every set of inputs.                                          *)
(***************************************************************************)
EXTENDS TrackerReplay, Numbers

AtMostOne(S) == \A s, t \in S : s = t

\* The lowest free slot is one slot: an edge allocates at most once.
LEMMA AllocSetFacts ==
  ASSUME NEW in
  PROVE  AllocSet(in) \subseteq Slots \ live /\ AtMostOne(AllocSet(in))
  BY DEF AtMostOne, AllocSet, FreeSlot, Slots

\* Retirement frees at most one slot, and a live one.
LEMMA RetireSetFacts ==
  ASSUME NEW in
  PROVE  RetireSet(in) \subseteq live /\ AtMostOne(RetireSet(in))
  BY DEF AtMostOne, RetireSet, RespClass

\* Reclaim frees at most one slot, a quarantined live one, and never the slot
\* retired at the same edge (RCL_SUPERSEDED).
LEMMA ReclaimSetFacts ==
  ASSUME NEW in
  PROVE  /\ ReclaimSet(in) \subseteq live \cap timed_out
         /\ AtMostOne(ReclaimSet(in))
         /\ ReclaimSet(in) \cap RetireSet(in) = {}
  BY DEF AtMostOne, ReclaimSet, ReclaimClass

\* A set with at most one element has that many elements.
LEMMA AtMostOneCardinality ==
  ASSUME NEW S, AtMostOne(S)
  PROVE  IsFiniteSet(S) /\ Cardinality(S) = One(S # {})
<1>1. CASE S = {}
  BY <1>1, FS_EmptySet DEF One
<1>2. CASE S # {}
  <2>1. PICK x : S = {x}
    BY <1>2 DEF AtMostOne
  <2>2. QED
    BY <1>2, <2>1, FS_Singleton DEF One
<1>3. QED
  BY <1>1, <1>2

\* How the number of live slots moves at an edge that adds A and removes R and C.
LEMMA CardinalityAfterEdge ==
  ASSUME NEW L, IsFiniteSet(L), NEW A, NEW R, NEW C,
         A \cap L = {}, R \subseteq L, C \subseteq L, C \cap R = {},
         AtMostOne(A), AtMostOne(R), AtMostOne(C)
  PROVE  /\ IsFiniteSet((L \ (R \cup C)) \cup A)
         /\ Cardinality((L \ (R \cup C)) \cup A)
              = Cardinality(L) + One(A # {}) - One(R # {}) - One(C # {})
<1> DEFINE F == R \cup C
           K == L \ F
<1>1. /\ IsFiniteSet(A) /\ Cardinality(A) = One(A # {})
      /\ IsFiniteSet(R) /\ Cardinality(R) = One(R # {})
      /\ IsFiniteSet(C) /\ Cardinality(C) = One(C # {})
  BY AtMostOneCardinality
<1>2. IsFiniteSet(F) /\ Cardinality(F) = Cardinality(R) + Cardinality(C)
  <2>1. /\ IsFiniteSet(R \cup C)
        /\ Cardinality(R \cup C) = Cardinality(R) + Cardinality(C) - Cardinality(R \cap C)
    BY <1>1, FS_Union
  <2>2. Cardinality(R \cap C) = 0
    <3>1. R \cap C = {}
      OBVIOUS
    <3>2. QED
      BY <3>1, FS_EmptySet
  <2>3. Cardinality(R) \in Nat /\ Cardinality(C) \in Nat
    BY <1>1, FS_CardinalityType
  <2>4. QED
    BY <2>1, <2>2, <2>3
<1>3. IsFiniteSet(K)
  BY FS_Subset
<1>4. Cardinality(L) = Cardinality(K) + Cardinality(F)
  <2>1. K \cup F = L /\ K \cap F = {}
    OBVIOUS
  <2> HIDE DEF F, K
  <2>2. Cardinality(K \cup F) = Cardinality(K) + Cardinality(F) - Cardinality(K \cap F)
    BY <1>2, <1>3, FS_Union
  <2>3. Cardinality(K \cap F) = 0
    BY <2>1, FS_EmptySet
  <2>4. Cardinality(K) \in Nat /\ Cardinality(F) \in Nat
    BY <1>2, <1>3, FS_CardinalityType
  <2>5. Cardinality(K \cup F) = Cardinality(L)
    BY <2>1, Zenon
  <2>6. QED
    BY <2>2, <2>3, <2>4, <2>5
<1>5. IsFiniteSet(K \cup A) /\ Cardinality(K \cup A) = Cardinality(K) + Cardinality(A)
  <2>1. /\ IsFiniteSet(K \cup A)
        /\ Cardinality(K \cup A) = Cardinality(K) + Cardinality(A) - Cardinality(K \cap A)
    BY <1>1, <1>3, FS_Union
  <2>2. Cardinality(K \cap A) = 0
    <3>1. K \cap A = {}
      OBVIOUS
    <3>2. QED
      BY <3>1, FS_EmptySet
  <2>3. Cardinality(K) \in Nat /\ Cardinality(A) \in Nat
    BY <1>1, <1>3, FS_CardinalityType
  <2>4. QED
    BY <2>1, <2>2, <2>3
<1>6. /\ Cardinality(K) \in Nat /\ Cardinality(A) \in Nat /\ Cardinality(L) \in Nat
      /\ Cardinality(R) \in Nat /\ Cardinality(C) \in Nat
  BY <1>1, <1>3, FS_CardinalityType
<1> HIDE DEF F, K
<1>7. Cardinality(K \cup A) = Cardinality(L) + Cardinality(A) - Cardinality(R) - Cardinality(C)
  BY <1>2, <1>4, <1>5, <1>6
<1>8. QED
  BY <1>1, <1>5, <1>7 DEF F, K

-----------------------------------------------------------------------------
(***************************************************************************)
(* The inductive invariant. Its conjuncts need each other: an edge keeps   *)
(* occupancy equal to the number of live slots only because what it frees  *)
(* was live, and occupancy stays within DEPTH only because it is that      *)
(* number.                                                                 *)
(***************************************************************************)
SlotsOK == live \subseteq Slots /\ OccupancyExact /\ QuarantineOnlyLive

TrackerInv == TrackerTypeOK /\ OccupancyExact /\ QuarantineOnlyLive

LEMMA SlotsFinite == IsFiniteSet(Slots) /\ Cardinality(Slots) = DEPTH
  BY TrackerSizeAssumption, FS_Interval DEF Slots

LEMMA InitTrackerInv == TrackerInit => TrackerInv
<1> SUFFICES ASSUME TrackerInit PROVE TrackerInv
  OBVIOUS
<1>1. TrackerTypeOK
  BY TrackerSizeAssumption, DataAssumption DEF TrackerInit, TrackerTypeOK, RespClasses
<1>2. OccupancyExact
  BY FS_EmptySet DEF TrackerInit, OccupancyExact
<1>3. QED
  BY <1>1, <1>2 DEF TrackerInit, TrackerInv, QuarantineOnlyLive

LEMMA ResetTrackerInv == TrackerReset => TrackerInv'
<1> SUFFICES ASSUME TrackerReset PROVE TrackerInv'
  OBVIOUS
<1>1. TrackerTypeOK'
  BY TrackerSizeAssumption, DataAssumption DEF TrackerReset, TrackerTypeOK, RespClasses
<1>2. OccupancyExact'
  BY FS_EmptySet DEF TrackerReset, OccupancyExact
<1>3. QED
  BY <1>1, <1>2 DEF TrackerReset, TrackerInv, QuarantineOnlyLive

\* What an edge makes of the slots, whatever the inputs.
LEMMA EdgeSlots ==
  ASSUME SlotsOK, NEW in, TrackerEdge(in)
  PROVE  SlotsOK' /\ occupancy' \in 0 .. DEPTH
<1> DEFINE A == AllocSet(in)
           R == RetireSet(in)
           C == ReclaimSet(in)
<1>1. /\ live' = (live \ (R \cup C)) \cup A
      /\ timed_out' = ((timed_out \ (R \cup C)) \cup NewTimeout(in, R \cup C)) \ A
      /\ occupancy' = occupancy + One(A # {}) - One(R # {}) - One(C # {})
  BY DEF TrackerEdge, UpdateLive, UpdateOccupancy, occ_next
<1>2. /\ AtMostOne(A) /\ AtMostOne(R) /\ AtMostOne(C)
      /\ A \subseteq Slots \ live /\ R \subseteq live /\ C \subseteq live
      /\ C \cap R = {}
  BY AllocSetFacts, RetireSetFacts, ReclaimSetFacts
<1>3. live \subseteq Slots /\ timed_out \subseteq live /\ occupancy = Cardinality(live)
  BY DEF SlotsOK, OccupancyExact, QuarantineOnlyLive
<1>4. IsFiniteSet(live)
  BY <1>3, SlotsFinite, FS_Subset
<1>5. live' \subseteq Slots
  BY <1>1, <1>2, <1>3
<1>6. timed_out' \subseteq live'
  BY <1>1, <1>2, <1>3 DEF NewTimeout
<1>7. occupancy' = Cardinality(live')
  <2> HIDE DEF A, R, C
  <2>1. A \cap live = {} /\ R \subseteq live /\ C \subseteq live /\ C \cap R = {}
    BY <1>2
  <2>2. Cardinality((live \ (R \cup C)) \cup A)
          = Cardinality(live) + One(A # {}) - One(R # {}) - One(C # {})
    BY <2>1, <1>2, <1>4, CardinalityAfterEdge
  <2>3. QED
    BY <2>2, <1>1, <1>3
<1>8. Cardinality(live') \in 0 .. DEPTH
  BY <1>5, SlotsFinite, FS_Subset, FS_CardinalityType, TrackerSizeAssumption
<1>9. QED
  BY <1>5, <1>6, <1>7, <1>8 DEF SlotsOK, OccupancyExact, QuarantineOnlyLive

LEMMA EdgeType ==
  ASSUME TrackerInv, NEW in \in TrackerInputType, TrackerEdge(in)
  PROVE  TrackerTypeOK'
<1> USE DEF TrackerInv, TrackerTypeOK
<1>1. /\ live' \subseteq Slots /\ timed_out' \subseteq Slots
      /\ occupancy' \in 0 .. DEPTH
  BY EdgeSlots DEF SlotsOK, QuarantineOnlyLive
<1>2. high_watermark' \in 0 .. DEPTH
  BY <1>1 DEF TrackerEdge, UpdateOccupancy
<1>3. gen' \in [Slots -> 0 .. GEN_MOD - 1]
  <2>1. \A s \in Slots : NextGen(s) \in 0 .. GEN_MOD - 1
    BY TrackerSizeAssumption DEF NextGen
  <2>2. QED
    BY <2>1 DEF TrackerEdge, WriteEntry
<1>4. entry' \in [Slots -> Entry]
  <2>1. AllocSet(in) # {} => in.alloc \in Entry
    BY DEF AllocSet, TrackerInputType
  <2>2. QED
    BY <2>1 DEF TrackerEdge, WriteEntry
<1>5. issue_ts' \in [Slots -> 0 .. TS_MOD - 1]
  BY DEF TrackerEdge, WriteEntry, TrackerInputType
<1>6. reclaim_rsp' \in ReclaimRsp \cup {None}
  <2>1. CASE ReclaimAccept(in)
    <3>1. in.reclaim \in Tags
      BY <2>1 DEF ReclaimAccept, TrackerInputType
    <3>2. ReclaimClass(in) \in ReclaimClasses
      BY DEF ReclaimClass, ReclaimClasses
    <3>3. ReclaimClass(in) = "OK" => in.reclaim.slot \in Slots
      BY DEF ReclaimClass
    <3>4. \A s \in Slots : entry[s].meta \in Metas
      BY DEF Metas
    <3>5. ZeroEntry.meta \in Metas
      BY DataAssumption DEF Metas
    <3>6. (IF ReclaimClass(in) = "OK" THEN entry[in.reclaim.slot].meta
                                      ELSE ZeroEntry.meta) \in Metas
      BY <3>3, <3>4, <3>5
    <3>7. QED
      BY <2>1, <3>1, <3>2, <3>6 DEF TrackerEdge, UpdateReclaimRsp, ReclaimRsp
  <2>2. CASE ~ReclaimAccept(in)
    BY <2>2 DEF TrackerEdge, UpdateReclaimRsp
  <2>3. QED
    BY <2>1, <2>2
<1>7. count' \in [Counters -> 0 .. CNT_MAX]
  <2> DEFINE ev == Events(in, AllocSet(in), RetireSet(in), ReclaimSet(in))
  <2>1. count' = [c \in Counters |-> SatAdd(count[c], ev[c])]
    BY DEF TrackerEdge, UpdateDiagnostics
  <2>2. \A c \in Counters : ev[c] \in Nat
    <3>1. Cardinality(NewTimeout(in, RetireSet(in) \cup ReclaimSet(in))) \in Nat
      <4>1. NewTimeout(in, RetireSet(in) \cup ReclaimSet(in)) \subseteq Slots
        BY DEF NewTimeout
      <4>2. QED
        BY <4>1, SlotsFinite, FS_Subset, FS_CardinalityType
    <3>2. \A b \in BOOLEAN : One(b) \in Nat
      BY DEF One
    <3> HIDE DEF TrackerInv, TrackerTypeOK
    <3>3. QED
      BY <3>1, <3>2 DEF Events, Counters, One
  <2> HIDE DEF ev
  <2>3. \A c \in Counters : SatAdd(count[c], ev[c]) \in 0 .. CNT_MAX
    BY <2>2, TrackerSizeAssumption DEF SatAdd
  <2>4. QED
    BY <2>1, <2>3
<1>8. err_first_class' \in RespClasses
  BY DEF TrackerEdge, UpdateDiagnostics, RespClass, RespClasses
<1>9. QED
  BY <1>1, <1>2, <1>3, <1>4, <1>5, <1>6, <1>7, <1>8

LEMMA TrackerStep == TrackerInv /\ [TrackerNext]_trackerVars => TrackerInv'
<1> SUFFICES ASSUME TrackerInv, [TrackerNext]_trackerVars PROVE TrackerInv'
  OBVIOUS
<1>1. CASE TrackerReset
  BY <1>1, ResetTrackerInv
<1>2. ASSUME NEW in \in TrackerInputs, TrackerEdge(in) PROVE TrackerInv'
  <2>1. in \in TrackerInputType
    BY TrackerInputAssumption
  <2>2. QED
    BY <1>2, <2>1, EdgeSlots, EdgeType DEF TrackerInv, TrackerTypeOK, SlotsOK
<1>3. CASE UNCHANGED trackerVars
  BY <1>3 DEF trackerVars, slotVars, TrackerInv, TrackerTypeOK, OccupancyExact, QuarantineOnlyLive
<1>4. QED
  BY <1>1, <1>2, <1>3 DEF TrackerNext

\* The inductive invariant holds at every edge, for every input sequence.
THEOREM TrackerCorrect == TrackerSpec => []TrackerInv
  BY InitTrackerInv, TrackerStep, PTL DEF TrackerSpec

\* Every register stays within its width.
THEOREM TrackerTypeCorrect == TrackerSpec => []TrackerTypeOK
<1>1. TrackerInv => TrackerTypeOK
  BY DEF TrackerInv
<1>2. QED
  BY <1>1, TrackerCorrect, PTL

\* The occupancy register is the number of live slots.
THEOREM TrackerOccupancy == TrackerSpec => []OccupancyExact
<1>1. TrackerInv => OccupancyExact
  BY DEF TrackerInv
<1>2. QED
  BY <1>1, TrackerCorrect, PTL

\* No slot carries the quarantine of an earlier occupant.
THEOREM TrackerQuarantine == TrackerSpec => []QuarantineOnlyLive
<1>1. TrackerInv => QuarantineOnlyLive
  BY DEF TrackerInv
<1>2. QED
  BY <1>1, TrackerCorrect, PTL

\* While the allocation counter has room, so have the two that count what it
\* counted, so no addition of this edge saturates.
LEMMA EdgeAccounts ==
  ASSUME TrackerInv, AllocationsAccounted, NEW in \in TrackerInputType, TrackerEdge(in)
  PROVE  AllocationsAccounted'
<1> DEFINE a == One(AllocSet(in) # {})
           r == One(RetireSet(in) # {})
           c == One(ReclaimSet(in) # {})
<1>1. a \in {0, 1} /\ r \in {0, 1} /\ c \in {0, 1}
  BY DEF One
<1>2. /\ count["alloc"] \in 0 .. CNT_MAX /\ count["retire"] \in 0 .. CNT_MAX
      /\ count["reclaim"] \in 0 .. CNT_MAX /\ occupancy \in Nat
  BY TrackerSizeAssumption DEF TrackerInv, TrackerTypeOK, Counters
<1>3. /\ count'["alloc"] = SatAdd(count["alloc"], a)
      /\ count'["retire"] = SatAdd(count["retire"], r)
      /\ count'["reclaim"] = SatAdd(count["reclaim"], c)
  BY DEF TrackerEdge, UpdateDiagnostics, Events, Counters
<1>4. occupancy' = occupancy + a - r - c
  BY DEF TrackerEdge, UpdateOccupancy, occ_next
<1> HIDE DEF a, r, c
<1>5. SUFFICES ASSUME count'["alloc"] < CNT_MAX
               PROVE  count'["alloc"] = count'["retire"] + count'["reclaim"] + occupancy'
  BY DEF AllocationsAccounted
<1>6. count["alloc"] < CNT_MAX /\ count'["alloc"] = count["alloc"] + a
  BY <1>1, <1>2, <1>3, <1>5, TrackerSizeAssumption DEF SatAdd
<1>7. count["alloc"] = count["retire"] + count["reclaim"] + occupancy
  BY <1>6 DEF AllocationsAccounted
<1>8. count'["retire"] = count["retire"] + r /\ count'["reclaim"] = count["reclaim"] + c
  BY <1>1, <1>2, <1>3, <1>6, <1>7, TrackerSizeAssumption DEF SatAdd
<1>9. QED
  BY <1>1, <1>2, <1>4, <1>6, <1>7, <1>8

\* The counters account for every transaction.
THEOREM TrackerAccounts == TrackerSpec => []AllocationsAccounted
<1>1. TrackerInit => AllocationsAccounted
  BY DEF TrackerInit, AllocationsAccounted, Counters
<1>2. TrackerInv /\ AllocationsAccounted /\ [TrackerNext]_trackerVars => AllocationsAccounted'
  <2> SUFFICES ASSUME TrackerInv, AllocationsAccounted, [TrackerNext]_trackerVars
               PROVE  AllocationsAccounted'
    OBVIOUS
  <2>1. CASE TrackerReset
    BY <2>1 DEF TrackerReset, AllocationsAccounted, Counters
  <2>2. ASSUME NEW in \in TrackerInputs, TrackerEdge(in) PROVE AllocationsAccounted'
    BY <2>2, EdgeAccounts, TrackerInputAssumption
  <2>3. CASE UNCHANGED trackerVars
    BY <2>3 DEF trackerVars, AllocationsAccounted
  <2>4. QED
    BY <2>1, <2>2, <2>3 DEF TrackerNext
<1>3. QED
  BY <1>1, <1>2, TrackerCorrect, PTL DEF TrackerSpec

\* A slot live before and after an edge holds the same transaction: nothing is
\* reallocated at the edge that frees it, and no quarantine is lifted.
THEOREM TrackerKeepsEntries == TrackerSpec => LiveEntryKept
<1>1. TrackerInv /\ [TrackerNext]_trackerVars => [KeepsLiveEntries]_trackerVars
  <2> SUFFICES ASSUME TrackerInv, [TrackerNext]_trackerVars, NEW s \in live \cap live'
               PROVE  /\ gen'[s] = gen[s] /\ entry'[s] = entry[s] /\ issue_ts'[s] = issue_ts[s]
                      /\ s \in timed_out => s \in timed_out'
    BY DEF KeepsLiveEntries
  <2>1. CASE TrackerReset
    BY <2>1 DEF TrackerReset
  <2>2. ASSUME NEW in \in TrackerInputs, TrackerEdge(in)
        PROVE  /\ gen'[s] = gen[s] /\ entry'[s] = entry[s] /\ issue_ts'[s] = issue_ts[s]
               /\ s \in timed_out => s \in timed_out'
    <3>1. s \in Slots
      BY DEF TrackerInv, TrackerTypeOK
    <3>2. s \notin AllocSet(in)
      BY AllocSetFacts
    <3>3. s \notin RetireSet(in) \cup ReclaimSet(in)
      BY <2>2, <3>2 DEF TrackerEdge, UpdateLive
    <3>4. /\ gen'[s] = gen[s] /\ entry'[s] = entry[s] /\ issue_ts'[s] = issue_ts[s]
      BY <2>2, <3>1, <3>2 DEF TrackerEdge, WriteEntry
    <3>5. s \in timed_out => s \in timed_out'
      BY <2>2, <3>2, <3>3 DEF TrackerEdge, UpdateLive
    <3>6. QED
      BY <3>4, <3>5
  <2>3. CASE UNCHANGED trackerVars
    BY <2>3 DEF trackerVars, slotVars
  <2>4. QED
    BY <2>1, <2>2, <2>3 DEF TrackerNext
<1>2. QED
  BY <1>1, TrackerCorrect, PTL DEF TrackerSpec, LiveEntryKept

-----------------------------------------------------------------------------
(* The tracker and its model. The model's step() is a program, so each of  *)
(* its assignments is first brought to one form, an object written out     *)
(* field by field; what the last one leaves is then compared with the      *)
(* registers after the edge.                                               *)

Obj(l, t, g, e, i, o, h, r, f, c) ==
  [live |-> l, timed |-> t, gen |-> g, entry |-> e, issue_ts |-> i,
   occ |-> o, hwm |-> h, rr |-> r, err_first |-> f, c |-> c]

Bump(c, k, n) == [c EXCEPT ![k] = Ref!satn(@, n)]

\* The two modules count with one operator.
LEMMA SameCardinality ==
  ASSUME NEW S
  PROVE  Ref!Cardinality(S) = Cardinality(S)
  BY Zenon DEF Ref!Cardinality, Cardinality

LEMMA MarkedObj ==
  ASSUME NEW l, NEW t, NEW g, NEW e, NEW i, NEW o, NEW h, NEW r, NEW f, NEW c,
         NEW in, NEW freed, NEW marked,
         marked = IF in.timeout_enable /\ in.timeout_thresh # 0
                  THEN {s \in (l \ t) \ freed : (in.ts - i[s]) % TS_MOD >= in.timeout_thresh}
                  ELSE {}
  PROVE  Ref!mark_timeouts(Obj(l, t, g, e, i, o, h, r, f, c), in, freed)
           = Obj(l, t \cup marked, g, e, i, o, h, r, f, Bump(c, "timeout", Cardinality(marked)))
<1> DEFINE m    == Obj(l, t, g, e, i, o, h, r, f, c)
           size == Ref!satn(c["timeout"], Cardinality(marked))
           Marked(x, S) ==
             [x EXCEPT !.timed = @ \cup S, !.c.timeout = Ref!satn(@, Ref!Cardinality(S))]
           Aged(x) == IF in.timeout_enable /\ in.timeout_thresh # 0
                      THEN {s \in (x.live \ x.timed) \ freed :
                              (in.ts - x.issue_ts[s]) % TS_MOD >= in.timeout_thresh}
                      ELSE {}
<1>1. m.live = l /\ m.timed = t /\ m.issue_ts = i /\ m.c = c
  BY DEF Obj
<1>2. Ref!mark_timeouts(m, in, freed) = Marked(m, Aged(m))
  <2> HIDE DEF m
  <2> QED BY Zenon DEF Ref!mark_timeouts
<1>3. Aged(m) = marked
  <2> HIDE DEF m
  <2> QED BY <1>1
<1>4. Marked(m, marked) = [m EXCEPT !.timed = t \cup marked, !.c = [c EXCEPT !["timeout"] = size]]
  <2>1. Ref!satn(m.c.timeout, Ref!Cardinality(marked)) = size
    BY <1>1, SameCardinality
  <2> HIDE DEF m, size
  <2> QED BY <1>1, <2>1
<1>5. Bump(c, "timeout", Cardinality(marked)) = [c EXCEPT !["timeout"] = size]
  BY DEF Bump
<1> HIDE DEF size, Aged, Marked
<1> QED BY <1>2, <1>3, <1>4, <1>5 DEF Obj

LEMMA RetiredObj ==
  ASSUME NEW l, NEW t, NEW g, NEW e, NEW i, NEW o, NEW h, NEW r, NEW f, NEW c,
         NEW in, in.resp # None
  PROVE  Ref!respond(Obj(l, t, g, e, i, o, h, r, f, c), in, "VALID")
           = Obj(l \ {in.resp.slot}, t \ {in.resp.slot}, g, e, i, o, h, r, f, Bump(c, "retire", 1))
  BY DEF Ref!respond, Obj, Bump

LEMMA RefusedObj ==
  ASSUME NEW l, NEW t, NEW g, NEW e, NEW i, NEW o, NEW h, NEW r, NEW f, NEW c,
         NEW in, in.resp # None, NEW class, class # "VALID",
         NEW f1, f1 = IF f = "VALID" THEN class ELSE f
  PROVE  Ref!respond(Obj(l, t, g, e, i, o, h, r, f, c), in, class)
           = Obj(l, t, g, e, i, o, h, r, f1, Bump(c, Ref!counter_of[class], 1))
  BY DEF Ref!respond, Obj, Bump

LEMMA RegisteredObj ==
  ASSUME NEW l, NEW t, NEW g, NEW e, NEW i, NEW o, NEW h, NEW r, NEW f, NEW c,
         NEW in, NEW accepted, NEW class, NEW meta
  PROVE  Ref!register_reclaim(Obj(l, t, g, e, i, o, h, r, f, c), in, accepted, class, meta)
           = Obj(l, t, g, e, i, o, h,
                 IF accepted
                 THEN [tag |-> in.reclaim, class |-> class,
                       meta |-> IF class = "OK" THEN meta ELSE ZeroEntry.meta]
                 ELSE IF in.reclaim_rsp_ready THEN None ELSE r, f, c)
  BY DEF Ref!register_reclaim, Obj

LEMMA ReclaimedObj ==
  ASSUME NEW l, NEW t, NEW g, NEW e, NEW i, NEW o, NEW h, NEW r, NEW f, NEW c, NEW slots
  PROVE  Ref!free_reclaimed(Obj(l, t, g, e, i, o, h, r, f, c), slots)
           = IF slots = {} THEN Obj(l, t, g, e, i, o, h, r, f, c)
             ELSE Obj(l \ slots, t \ slots, g, e, i, o, h, r, f, Bump(c, "reclaim", 1))
<1>1. CASE slots = {}
  BY <1>1 DEF Ref!free_reclaimed
<1>2. ASSUME slots # {},
             NEW a, a = l \ slots, NEW b, b = t \ slots, NEW n, n = Ref!satn(c["reclaim"], 1)
      PROVE  Ref!free_reclaimed(Obj(l, t, g, e, i, o, h, r, f, c), slots)
               = Obj(a, b, g, e, i, o, h, r, f, [c EXCEPT !["reclaim"] = n])
  <2>1. Ref!free_reclaimed(Obj(l, t, g, e, i, o, h, r, f, c), slots)
          = [Obj(l, t, g, e, i, o, h, r, f, c) EXCEPT !.live = a, !.timed = b, !.c.reclaim = n]
    BY <1>2 DEF Ref!free_reclaimed, Obj
  <2> QED BY <2>1 DEF Obj
<1>3. Bump(c, "reclaim", 1) = [c EXCEPT !["reclaim"] = Ref!satn(c["reclaim"], 1)]
  BY DEF Bump
<1> QED BY <1>1, <1>2, <1>3

LEMMA AllocatedObj ==
  ASSUME NEW l, NEW t, NEW g, NEW e, NEW i, NEW o, NEW h, NEW r, NEW f, NEW c, NEW in, NEW slots
  PROVE  Ref!allocate(Obj(l, t, g, e, i, o, h, r, f, c), in, slots)
           = IF slots = {} THEN Obj(l, t, g, e, i, o, h, r, f, c)
             ELSE Obj(l \cup slots, t \ slots,
                      [s \in Slots |-> IF s \in slots THEN (g[s] + 1) % GEN_MOD ELSE g[s]],
                      [s \in Slots |-> IF s \in slots THEN in.alloc ELSE e[s]],
                      [s \in Slots |-> IF s \in slots THEN in.ts ELSE i[s]],
                      o, h, r, f, Bump(c, "alloc", 1))
<1> DEFINE m  == Obj(l, t, g, e, i, o, h, r, f, c)
           G(x) == [s \in Slots |-> IF s \in slots THEN (x.gen[s] + 1) % GEN_MOD ELSE x.gen[s]]
           E(x) == [s \in Slots |-> IF s \in slots THEN in.alloc ELSE x.entry[s]]
           I(x) == [s \in Slots |-> IF s \in slots THEN in.ts ELSE x.issue_ts[s]]
<1>0. m.live = l /\ m.timed = t /\ m.gen = g /\ m.entry = e /\ m.issue_ts = i /\ m.c = c
  BY DEF Obj
<1>1. CASE slots = {}
  BY <1>1 DEF Ref!allocate
<1>2. ASSUME slots # {},
             NEW a, a = l \cup slots, NEW b, b = t \ slots, NEW n, n = Ref!satn(c["alloc"], 1),
             NEW gg, gg = G(m), NEW ee, ee = E(m), NEW ii, ii = I(m)
      PROVE  Ref!allocate(m, in, slots) = Obj(a, b, gg, ee, ii, o, h, r, f, [c EXCEPT !["alloc"] = n])
  <2>1. Ref!allocate(m, in, slots)
          = [m EXCEPT !.live = @ \cup slots, !.gen = G(m), !.entry = E(m), !.issue_ts = I(m),
                      !.timed = @ \ slots, !.c.alloc = Ref!satn(@, 1)]
    <3> HIDE DEF m
    <3> QED BY <1>2, Zenon DEF Ref!allocate, Ref!new_gen, Ref!Range0, Slots
  <2>2. [m EXCEPT !.live = @ \cup slots, !.gen = G(m), !.entry = E(m), !.issue_ts = I(m),
                      !.timed = @ \ slots, !.c.alloc = Ref!satn(@, 1)]
         = [m EXCEPT !.live = a, !.gen = gg, !.entry = ee, !.issue_ts = ii, !.timed = b, !.c.alloc = n]
    <3> HIDE DEF m, G, E, I
    <3> QED BY <1>0, <1>2
  <2>3. [m EXCEPT !.live = a, !.gen = gg, !.entry = ee, !.issue_ts = ii, !.timed = b, !.c.alloc = n]
         = Obj(a, b, gg, ee, ii, o, h, r, f, [c EXCEPT !["alloc"] = n])
    <3> HIDE DEF G, E, I
    <3>1. [m EXCEPT !.live = a] = Obj(a, t, g, e, i, o, h, r, f, c)
      BY DEF Obj
    <3>2. [Obj(a, t, g, e, i, o, h, r, f, c) EXCEPT !.gen = gg]
            = Obj(a, t, gg, e, i, o, h, r, f, c)
      BY DEF Obj
    <3>3. [Obj(a, t, gg, e, i, o, h, r, f, c) EXCEPT !.entry = ee]
            = Obj(a, t, gg, ee, i, o, h, r, f, c)
      BY DEF Obj
    <3>4. [Obj(a, t, gg, ee, i, o, h, r, f, c) EXCEPT !.issue_ts = ii]
            = Obj(a, t, gg, ee, ii, o, h, r, f, c)
      BY DEF Obj
    <3>5. [Obj(a, t, gg, ee, ii, o, h, r, f, c) EXCEPT !.timed = b]
            = Obj(a, b, gg, ee, ii, o, h, r, f, c)
      BY DEF Obj
    <3>6. [Obj(a, b, gg, ee, ii, o, h, r, f, c) EXCEPT !.c.alloc = n]
            = Obj(a, b, gg, ee, ii, o, h, r, f, [c EXCEPT !["alloc"] = n])
      BY DEF Obj
    <3> HIDE DEF m
    <3>7. [m EXCEPT !.live = a, !.gen = gg, !.entry = ee] = Obj(a, t, gg, ee, i, o, h, r, f, c)
      BY <3>1, <3>2, <3>3, Zenon
    <3>8. [m EXCEPT !.live = a, !.gen = gg, !.entry = ee, !.issue_ts = ii, !.timed = b]
            = Obj(a, b, gg, ee, ii, o, h, r, f, c)
      BY <3>4, <3>5, <3>7, Zenon
    <3> QED BY <3>6, <3>8, Zenon
  <2> QED BY <2>1, <2>2, <2>3
<1>3. Bump(c, "alloc", 1) = [c EXCEPT !["alloc"] = Ref!satn(c["alloc"], 1)]
  BY DEF Bump
<1>4. /\ G(m) = [s \in Slots |-> IF s \in slots THEN (g[s] + 1) % GEN_MOD ELSE g[s]]
      /\ E(m) = [s \in Slots |-> IF s \in slots THEN in.alloc ELSE e[s]]
      /\ I(m) = [s \in Slots |-> IF s \in slots THEN in.ts ELSE i[s]]
  <2> HIDE DEF m
  <2> QED BY <1>0
<1> HIDE DEF G, E, I
<1> QED BY <1>1, <1>2, <1>3, <1>4

LEMMA FullObj ==
  ASSUME NEW l, NEW t, NEW g, NEW e, NEW i, NEW o, NEW h, NEW r, NEW f, NEW c, NEW in, NEW refused
  PROVE  Ref!count_full(Obj(l, t, g, e, i, o, h, r, f, c), in, refused)
           = Obj(l, t, g, e, i, o, h, r, f,
                 IF in.alloc # None /\ refused THEN Bump(c, "full", 1) ELSE c)
  BY DEF Ref!count_full, Obj, Bump

LEMMA OccupiedObj ==
  ASSUME NEW l, NEW t, NEW g, NEW e, NEW i, NEW o, NEW h, NEW r, NEW f, NEW c, NEW n
  PROVE  Ref!occupy(Obj(l, t, g, e, i, o, h, r, f, c), n)
           = Obj(l, t, g, e, i, o + n, IF o + n > h THEN o + n ELSE h, r, f, c)
<1>1. ASSUME NEW p, p = o + n, NEW q, q = IF o + n > h THEN o + n ELSE h
      PROVE  Ref!occupy(Obj(l, t, g, e, i, o, h, r, f, c), n) = Obj(l, t, g, e, i, p, q, r, f, c)
  <2>1. Ref!occupy(Obj(l, t, g, e, i, o, h, r, f, c), n)
          = [Obj(l, t, g, e, i, o, h, r, f, c) EXCEPT !.occ = p, !.hwm = q]
    BY <1>1 DEF Ref!occupy, Obj
  <2> QED BY <2>1 DEF Obj
<1> QED BY <1>1

-----------------------------------------------------------------------------
(* The same decisions. *)

LEMMA SameDecisions ==
  ASSUME TrackerInv, NEW in \in TrackerInputType
  PROVE  LET m == ModelOfRegisters IN
         /\ Ref!is_full(m) = full /\ Ref!do_alloc(m, in) = AllocSet(in)
         /\ (Ref!is_full(m) \/ Ref!free_slot(m) = {}) = (full \/ live = Slots)
         /\ in.resp # None => Ref!classify(m, in.resp) = RespClass(in.resp)
         /\ Ref!do_retire(m, in) = RetireSet(in)
         /\ Ref!reclaim_accept(m, in) = ReclaimAccept(in)
         /\ in.reclaim # None => Ref!reclaim_class(m, in.reclaim, RetireSet(in)) = ReclaimClass(in)
         /\ Ref!do_reclaim(m, in, RetireSet(in)) = ReclaimSet(in)
<1> DEFINE m == ModelOfRegisters
<1>1. /\ m.live = live /\ m.timed = timed_out /\ m.gen = gen /\ m.rr = reclaim_rsp
      /\ m.occ = occupancy /\ Ref!Range0 = Slots
  BY DEF ModelOfRegisters, Ref!Range0, Slots
<1> HIDE DEF m
<1>2. Ref!is_full(m) = full /\ Ref!free_slot(m) = FreeSlot
  BY <1>1 DEF Ref!is_full, full, Ref!free_slot, FreeSlot
<1>3. Ref!do_alloc(m, in) = AllocSet(in)
  BY <1>2 DEF Ref!do_alloc, AllocSet
<1>4. FreeSlot = {} <=> live = Slots
  <2>1. CASE live = Slots
    <3>1. Slots \ live = {}
      BY <2>1
    <3>2. FreeSlot = {}
      BY <3>1 DEF FreeSlot
    <3> QED BY <2>1, <3>2
  <2>2. CASE live # Slots
    <3>0. live \subseteq Slots /\ Slots \subseteq Nat
      BY TrackerSizeAssumption DEF TrackerInv, TrackerTypeOK, Slots
    <3>1. Slots \ live # {} /\ Slots \ live \subseteq Nat
      BY <2>2, <3>0
    <3> QED BY <2>2, <3>1, LowestExists DEF FreeSlot
  <2> QED BY <2>1, <2>2
<1>5. \A tag \in Tags : tag.slot >= DEPTH <=> tag.slot \notin Slots
  BY TrackerSizeAssumption DEF Tags, Slots
<1>6. in.resp # None => Ref!classify(m, in.resp) = RespClass(in.resp)
  BY <1>1, <1>5 DEF TrackerInputType, Ref!classify, RespClass
<1>7. Ref!do_retire(m, in) = RetireSet(in)
  BY <1>6 DEF Ref!do_retire, RetireSet
<1>8. Ref!reclaim_accept(m, in) = ReclaimAccept(in)
  BY <1>1 DEF Ref!reclaim_accept, Ref!reclaim_ready, ReclaimAccept
<1>9. in.reclaim # None => Ref!reclaim_class(m, in.reclaim, RetireSet(in)) = ReclaimClass(in)
  BY <1>1, <1>5 DEF TrackerInputType, Ref!reclaim_class, ReclaimClass
<1>10. Ref!do_reclaim(m, in, RetireSet(in)) = ReclaimSet(in)
  BY <1>8, <1>9 DEF Ref!do_reclaim, ReclaimSet, ReclaimAccept
<1> QED BY <1>2, <1>3, <1>4, <1>6, <1>7, <1>8, <1>9, <1>10 DEF m

-----------------------------------------------------------------------------
(* The counters. *)

CountType == [Counters -> 0 .. CNT_MAX]

LEMMA BumpFacts ==
  ASSUME NEW c \in CountType, NEW k \in Counters, NEW n \in Nat
  PROVE  /\ Bump(c, k, n) \in CountType
         /\ Bump(c, k, n)[k] = SatAdd(c[k], n)
         /\ \A j \in Counters : j # k => Bump(c, k, n)[j] = c[j]
<1>1. Ref!satn(c[k], n) = SatAdd(c[k], n) /\ SatAdd(c[k], n) \in 0 .. CNT_MAX
  BY TrackerSizeAssumption DEF CountType, Ref!satn, SatAdd
<1> QED BY <1>1 DEF Bump, CountType

LEMMA BumpEvents ==
  ASSUME NEW c \in CountType, NEW k \in Counters, NEW ev, \A j \in Counters : ev[j] \in Nat
  PROVE  /\ Bump(c, k, ev[k]) \in CountType
         /\ Bump(c, k, ev[k])[k] = SatAdd(c[k], ev[k])
         /\ \A j \in Counters : j # k => Bump(c, k, ev[k])[j] = c[j]
<1>1. Ref!satn(c[k], ev[k]) = SatAdd(c[k], ev[k]) /\ SatAdd(c[k], ev[k]) \in 0 .. CNT_MAX
  BY TrackerSizeAssumption DEF CountType, Ref!satn, SatAdd
<1> QED BY <1>1 DEF Bump, CountType

LEMMA BumpZero ==
  ASSUME NEW c \in CountType, NEW k \in Counters
  PROVE  Bump(c, k, 0) = c
<1>1. Ref!satn(c[k], 0) = c[k]
  BY TrackerSizeAssumption DEF CountType, Ref!satn
<1> QED BY <1>1 DEF Bump, CountType

\* What respond() does to the counters.
RespCount(c, in) ==
  IF in.resp = None THEN c
  ELSE IF RespClass(in.resp) = "VALID" THEN Bump(c, "retire", 1)
  ELSE Bump(c, Ref!counter_of[RespClass(in.resp)], 1)

EdgeEvents(in) == Events(in, AllocSet(in), RetireSet(in), ReclaimSet(in))

LEMMA EdgeEventsFacts ==
  ASSUME TrackerInv, NEW in \in TrackerInputType
  PROVE  LET ev == EdgeEvents(in) IN
         /\ \A k \in Counters : ev[k] \in Nat
         /\ ev["timeout"] = Cardinality(NewTimeout(in, Freed(in)))
         /\ ev["alloc"] = IF AllocSet(in) = {} THEN 0 ELSE 1
         /\ ev["reclaim"] = IF ReclaimSet(in) = {} THEN 0 ELSE 1
         /\ ev["full"] = IF in.alloc # None /\ (full \/ live = Slots) THEN 1 ELSE 0
         /\ ev["retire"] = IF in.resp # None /\ RespClass(in.resp) = "VALID" THEN 1 ELSE 0
         /\ ev["invalid_slot"] = IF in.resp # None /\ RespClass(in.resp) = "INVALID_SLOT" THEN 1 ELSE 0
         /\ ev["non_live"] = IF in.resp # None /\ RespClass(in.resp) = "NON_LIVE" THEN 1 ELSE 0
         /\ ev["stale_gen"] = IF in.resp # None /\ RespClass(in.resp) = "STALE_GEN" THEN 1 ELSE 0
<1>1. Cardinality(NewTimeout(in, Freed(in))) \in Nat
  <2>1. NewTimeout(in, Freed(in)) \subseteq Slots
    BY DEF NewTimeout, TrackerInv, TrackerTypeOK
  <2> QED BY <2>1, SlotsFinite, FS_Subset, FS_CardinalityType
<1>2. RetireSet(in) # {} <=> in.resp # None /\ RespClass(in.resp) = "VALID"
  BY DEF RetireSet
<1> QED BY <1>1, <1>2 DEF EdgeEvents, Events, Freed, One, Counters

LEMMA RespCountFacts ==
  ASSUME TrackerInv, NEW in \in TrackerInputType, NEW c \in CountType,
         NEW ev, ev = EdgeEvents(in), NEW k, k = RespCount(c, in)
  PROVE  /\ k \in CountType
         /\ \A j \in {"retire", "invalid_slot", "non_live", "stale_gen"} : k[j] = SatAdd(c[j], ev[j])
         /\ \A j \in {"alloc", "full", "timeout", "reclaim"} : k[j] = c[j]
<1>1. /\ ev["retire"] = IF in.resp # None /\ RespClass(in.resp) = "VALID" THEN 1 ELSE 0
      /\ ev["invalid_slot"] = IF in.resp # None /\ RespClass(in.resp) = "INVALID_SLOT" THEN 1 ELSE 0
      /\ ev["non_live"] = IF in.resp # None /\ RespClass(in.resp) = "NON_LIVE" THEN 1 ELSE 0
      /\ ev["stale_gen"] = IF in.resp # None /\ RespClass(in.resp) = "STALE_GEN" THEN 1 ELSE 0
      /\ RespClass(in.resp) \in RespClasses
  BY EdgeEventsFacts DEF RespClass, RespClasses
<1>2. \A j \in Counters : SatAdd(c[j], 0) = c[j]
  BY TrackerSizeAssumption DEF CountType, SatAdd
<1>3. \A a \in Counters : /\ Bump(c, a, 1) \in CountType /\ Bump(c, a, 1)[a] = SatAdd(c[a], 1)
                         /\ \A j \in Counters : j # a => Bump(c, a, 1)[j] = c[j]
  BY BumpFacts
<1>4. CASE in.resp = None
  BY <1>1, <1>2, <1>4 DEF RespCount, Counters
<1>5. CASE in.resp # None /\ RespClass(in.resp) = "VALID"
  BY <1>1, <1>2, <1>3, <1>5 DEF RespCount, Counters
<1>6. CASE in.resp # None /\ RespClass(in.resp) = "INVALID_SLOT"
  BY <1>1, <1>2, <1>3, <1>6 DEF RespCount, Counters, Ref!counter_of
<1>7. CASE in.resp # None /\ RespClass(in.resp) = "NON_LIVE"
  BY <1>1, <1>2, <1>3, <1>7 DEF RespCount, Counters, Ref!counter_of
<1>8. CASE in.resp # None /\ RespClass(in.resp) = "STALE_GEN"
  BY <1>1, <1>2, <1>3, <1>8 DEF RespCount, Counters, Ref!counter_of
<1> QED BY <1>1, <1>4, <1>5, <1>6, <1>7, <1>8 DEF RespClasses

\* The counters after all the assignments of step(), in their order.
CountsAfter(in) ==
  LET c1 == Bump(count, "timeout", Cardinality(NewTimeout(in, Freed(in))))
      c2 == RespCount(c1, in)
      c3 == IF ReclaimSet(in) = {} THEN c2 ELSE Bump(c2, "reclaim", 1)
      c4 == IF AllocSet(in) = {} THEN c3 ELSE Bump(c3, "alloc", 1)
  IN IF in.alloc # None /\ (full \/ live = Slots) THEN Bump(c4, "full", 1) ELSE c4

LEMMA CountsMatch ==
  ASSUME TrackerInv, NEW in \in TrackerInputType
  PROVE  CountsAfter(in) = [k \in Counters |-> SatAdd(count[k], EdgeEvents(in)[k])]
<1> DEFINE ev == EdgeEvents(in)
           c1 == Bump(count, "timeout", Cardinality(NewTimeout(in, Freed(in))))
           c2 == RespCount(c1, in)
           c3 == IF ReclaimSet(in) = {} THEN c2 ELSE Bump(c2, "reclaim", 1)
           c4 == IF AllocSet(in) = {} THEN c3 ELSE Bump(c3, "alloc", 1)
           c5 == IF in.alloc # None /\ (full \/ live = Slots) THEN Bump(c4, "full", 1) ELSE c4
<1>a. CountsAfter(in) = c5
  BY DEF CountsAfter
<1>b. c2 = RespCount(c1, in) /\ ev = EdgeEvents(in)
  OBVIOUS
<1>c. c1 = Bump(count, "timeout", ev["timeout"])
  BY EdgeEventsFacts
<1> HIDE DEF ev, c1, c2
<1>d. c3 = IF ReclaimSet(in) = {} THEN c2 ELSE Bump(c2, "reclaim", 1)
  OBVIOUS
<1> HIDE DEF c3
<1>e. c4 = IF AllocSet(in) = {} THEN c3 ELSE Bump(c3, "alloc", 1)
  OBVIOUS
<1> HIDE DEF c4
<1>f. c5 = IF in.alloc # None /\ (full \/ live = Slots) THEN Bump(c4, "full", 1) ELSE c4
  OBVIOUS
<1> HIDE DEF c5
<1>0. count \in CountType /\ \A k \in Counters : ev[k] \in Nat
  BY <1>b, EdgeEventsFacts DEF TrackerInv, TrackerTypeOK, CountType
<1>1. /\ c1 \in CountType /\ c1["timeout"] = SatAdd(count["timeout"], ev["timeout"])
      /\ \A j \in Counters : j # "timeout" => c1[j] = count[j]
  <2>1. "timeout" \in Counters
    BY DEF Counters
  <2> QED BY <1>0, <1>c, <2>1, BumpEvents
<1>2. /\ c2 \in CountType
      /\ \A j \in {"retire", "invalid_slot", "non_live", "stale_gen"} : c2[j] = SatAdd(c1[j], ev[j])
      /\ \A j \in {"alloc", "full", "timeout", "reclaim"} : c2[j] = c1[j]
  BY <1>b, <1>1, RespCountFacts
<1>3. /\ c3 \in CountType /\ c3["reclaim"] = SatAdd(c2["reclaim"], ev["reclaim"])
      /\ \A j \in Counters : j # "reclaim" => c3[j] = c2[j]
  <2>1. c3 = Bump(c2, "reclaim", ev["reclaim"]) /\ "reclaim" \in Counters
    BY <1>b, <1>d, <1>2, EdgeEventsFacts, BumpZero DEF Counters
  <2> QED BY <1>0, <1>2, <2>1, BumpEvents
<1>4. /\ c4 \in CountType /\ c4["alloc"] = SatAdd(c3["alloc"], ev["alloc"])
      /\ \A j \in Counters : j # "alloc" => c4[j] = c3[j]
  <2>1. c4 = Bump(c3, "alloc", ev["alloc"]) /\ "alloc" \in Counters
    BY <1>b, <1>e, <1>3, EdgeEventsFacts, BumpZero DEF Counters
  <2> QED BY <1>0, <1>3, <2>1, BumpEvents
<1>5. /\ c5 \in CountType /\ c5["full"] = SatAdd(c4["full"], ev["full"])
      /\ \A j \in Counters : j # "full" => c5[j] = c4[j]
  <2>1. c5 = Bump(c4, "full", ev["full"]) /\ "full" \in Counters
    BY <1>b, <1>f, <1>4, EdgeEventsFacts, BumpZero DEF Counters
  <2> QED BY <1>0, <1>4, <2>1, BumpEvents
<1>6. \A j \in Counters : c5[j] = SatAdd(count[j], ev[j])
  BY <1>1, <1>2, <1>3, <1>4, <1>5 DEF Counters
<1> QED BY <1>a, <1>5, <1>6 DEF CountType, ev

-----------------------------------------------------------------------------
(* One edge. *)

LEMMA EdgeMatches ==
  ASSUME TrackerInv, NEW in \in TrackerInputType, TrackerEdge(in)
  PROVE  Ref!step(ModelOfRegisters, in) = ModelOfRegisters'
<1> DEFINE m == ModelOfRegisters
           A == AllocSet(in)
           R == RetireSet(in)
           C == ReclaimSet(in)
           N == NewTimeout(in, Freed(in))
           ev == EdgeEvents(in)
           class  == IF in.resp = None THEN "VALID" ELSE RespClass(in.resp)
           acc    == ReclaimAccept(in)
           rclass == IF acc THEN ReclaimClass(in) ELSE "OK"
           meta   == IF acc /\ in.reclaim.slot < DEPTH THEN entry[in.reclaim.slot].meta
                                                        ELSE ZeroEntry.meta
           refused == full \/ live = Slots
           Run(al, cl, re, ac, rc, me, rl, fu) ==
             LET m1 == Ref!mark_timeouts(m, in, re \cup rl)
                 m2 == Ref!respond(m1, in, cl)
                 m3 == Ref!register_reclaim(m2, in, ac, rc, me)
                 m4 == Ref!free_reclaimed(m3, rl)
                 m5 == Ref!allocate(m4, in, al)
                 m6 == Ref!count_full(m5, in, fu)
             IN Ref!occupy(m6, Ref!size(al) - Ref!size(re) - Ref!size(rl))
<1>1. m = Obj(live, timed_out, gen, entry, issue_ts, occupancy, high_watermark, reclaim_rsp,
              err_first_class, count)
  BY DEF ModelOfRegisters, Obj
<1>2. Ref!step(m, in) = Run(A, class, R, acc, rclass, meta, C, refused)
  <2> DEFINE dR == Ref!do_retire(m, in)
  <2>1. Ref!step(m, in) =
          Run(Ref!do_alloc(m, in),
              IF in.resp = None THEN "VALID" ELSE Ref!classify(m, in.resp),
              dR,
              Ref!reclaim_accept(m, in),
              IF Ref!reclaim_accept(m, in) THEN Ref!reclaim_class(m, in.reclaim, dR) ELSE "OK",
              IF Ref!reclaim_accept(m, in) /\ in.reclaim.slot < DEPTH
              THEN m.entry[in.reclaim.slot].meta ELSE ZeroEntry.meta,
              Ref!do_reclaim(m, in, dR),
              Ref!is_full(m) \/ Ref!free_slot(m) = {})
    <3> HIDE DEF m
    <3> QED BY Zenon DEF Ref!step
  <2>2. m.entry = entry
    BY DEF ModelOfRegisters
  <2>3. /\ Ref!do_alloc(m, in) = A
        /\ in.resp # None => Ref!classify(m, in.resp) = RespClass(in.resp)
        /\ dR = R /\ Ref!reclaim_accept(m, in) = acc
        /\ Ref!do_reclaim(m, in, R) = C
        /\ (Ref!is_full(m) \/ Ref!free_slot(m) = {}) = refused
    BY SameDecisions
  <2>4. acc => Ref!reclaim_class(m, in.reclaim, R) = ReclaimClass(in)
    BY SameDecisions DEF ReclaimAccept
  <2> HIDE DEF m, A, R, C, Run, refused, dR, acc
  <2>5. (IF in.resp = None THEN "VALID" ELSE Ref!classify(m, in.resp)) = class
    BY <2>3
  <2>6. (IF Ref!reclaim_accept(m, in) THEN Ref!reclaim_class(m, in.reclaim, dR) ELSE "OK") = rclass
    BY <2>3, <2>4
  <2>7. (IF Ref!reclaim_accept(m, in) /\ in.reclaim.slot < DEPTH
              THEN m.entry[in.reclaim.slot].meta ELSE ZeroEntry.meta) = meta
    BY <2>2, <2>3
  <2> HIDE DEF class, rclass, meta
  <2> QED BY <2>1, <2>3, <2>5, <2>6, <2>7, Zenon
<1> DEFINE c1 == Bump(count, "timeout", Cardinality(N))
           c2 == RespCount(c1, in)
           c3 == IF C = {} THEN c2 ELSE Bump(c2, "reclaim", 1)
           c4 == IF A = {} THEN c3 ELSE Bump(c3, "alloc", 1)
           c5 == IF in.alloc # None /\ refused THEN Bump(c4, "full", 1) ELSE c4
           m1 == Ref!mark_timeouts(m, in, R \cup C)
           m2 == Ref!respond(m1, in, class)
           m3 == Ref!register_reclaim(m2, in, acc, rclass, meta)
           m4 == Ref!free_reclaimed(m3, C)
           m5 == Ref!allocate(m4, in, A)
           m6 == Ref!count_full(m5, in, refused)
           n  == Ref!size(A) - Ref!size(R) - Ref!size(C)
<1>3. Run(A, class, R, acc, rclass, meta, C, refused) = Ref!occupy(m6, n)
  OBVIOUS
<1> HIDE DEF Run
<1>4. m1 = Obj(live, timed_out \cup N, gen, entry, issue_ts, occupancy, high_watermark, reclaim_rsp,
               err_first_class, c1)
  <2>1. N = IF in.timeout_enable /\ in.timeout_thresh # 0
            THEN {s \in (live \ timed_out) \ (R \cup C) : (in.ts - issue_ts[s]) % TS_MOD >= in.timeout_thresh}
            ELSE {}
    BY DEF NewTimeout, Freed, timeout_active, Age
  <2> HIDE DEF m, N, R, C
  <2> QED BY <1>1, <2>1, MarkedObj
<1>5. m2 = Obj(live \ R, (timed_out \cup N) \ R, gen, entry, issue_ts, occupancy, high_watermark,
               reclaim_rsp, err_first_class', c2)
  <2> DEFINE t == timed_out \cup N
  <2>1. CASE in.resp = None
    <3>1. R = {} /\ c2 = c1 /\ err_first_class' = err_first_class
      BY <2>1 DEF RetireSet, RespCount, TrackerEdge, UpdateDiagnostics
    <3>2. live \ R = live /\ t \ R = t
      BY <3>1
    <3> HIDE DEF m1, c1, c2, R, t
    <3>3. m2 = m1
      BY <2>1 DEF Ref!respond
    <3> QED BY <3>1, <3>2, <3>3, <1>4 DEF t
  <2>2. CASE in.resp # None /\ RespClass(in.resp) = "VALID"
    <3>1. R = {in.resp.slot} /\ c2 = Bump(c1, "retire", 1) /\ class = "VALID"
      BY <2>2 DEF RetireSet, RespCount
    <3>2. err_first_class' = err_first_class
      BY <2>2 DEF TrackerEdge, UpdateDiagnostics
    <3> HIDE DEF m1, c1, c2, R, class
    <3> QED BY <2>2, <3>1, <3>2, <1>4, RetiredObj
  <2>3. CASE in.resp # None /\ RespClass(in.resp) # "VALID"
    <3>1. R = {} /\ c2 = Bump(c1, Ref!counter_of[class], 1) /\ class = RespClass(in.resp)
      BY <2>3 DEF RetireSet, RespCount
    <3>2. err_first_class' = IF err_first_class = "VALID" THEN class ELSE err_first_class
      BY <2>3 DEF TrackerEdge, UpdateDiagnostics
    <3>3. live \ R = live /\ t \ R = t
      BY <3>1
    <3> HIDE DEF m1, c1, c2, R, class, t
    <3>4. m2 = Obj(live, t, gen, entry, issue_ts, occupancy, high_watermark, reclaim_rsp,
                   err_first_class', Bump(c1, Ref!counter_of[class], 1))
      <4>1. m1 = Obj(live, t, gen, entry, issue_ts, occupancy, high_watermark, reclaim_rsp,
                     err_first_class, c1)
        BY <1>4 DEF t
      <4> QED BY <2>3, <3>1, <3>2, <4>1, RefusedObj
    <3> QED BY <3>1, <3>2, <3>3, <3>4 DEF t
  <2> QED BY <2>1, <2>2, <2>3
<1> DEFINE T == (timed_out \cup N) \ R
<1>6. m3 = Obj(live \ R, T, gen, entry, issue_ts, occupancy, high_watermark, reclaim_rsp',
               err_first_class', c2)
  <2>1. reclaim_rsp' = IF acc
                       THEN [tag |-> in.reclaim, class |-> rclass,
                             meta |-> IF rclass = "OK" THEN meta ELSE ZeroEntry.meta]
                       ELSE IF in.reclaim_rsp_ready THEN None ELSE reclaim_rsp
    <3>1. acc /\ rclass = "OK" => in.reclaim.slot < DEPTH
      BY TrackerSizeAssumption DEF ReclaimClass, Slots
    <3>2. acc /\ rclass = "OK" => meta = entry[in.reclaim.slot].meta
      BY <3>1
    <3>3. acc => rclass = ReclaimClass(in)
      OBVIOUS
    <3>4. reclaim_rsp' =
            IF acc
            THEN [tag |-> in.reclaim, class |-> ReclaimClass(in),
                  meta |-> IF ReclaimClass(in) = "OK" THEN entry[in.reclaim.slot].meta ELSE ZeroEntry.meta]
            ELSE IF in.reclaim_rsp_ready THEN None ELSE reclaim_rsp
      BY DEF TrackerEdge, UpdateReclaimRsp
    <3> HIDE DEF acc, rclass, meta
    <3> QED BY <3>2, <3>3, <3>4
  <2>2. m2 = Obj(live \ R, T, gen, entry, issue_ts, occupancy, high_watermark, reclaim_rsp,
                 err_first_class', c2)
    BY <1>5
  <2> HIDE DEF acc, rclass, meta, m2, c2, T, R
  <2> QED BY <2>1, <2>2, RegisteredObj
<1> DEFINE L  == (live \ R) \ C
           T4 == T \ C
<1>7. m4 = Obj(L, T4, gen, entry, issue_ts, occupancy, high_watermark, reclaim_rsp',
               err_first_class', c3)
  <2>1. CASE C = {}
    <3>1. L = live \ R /\ T4 = T /\ c3 = c2
      BY <2>1
    <3> HIDE DEF m3, T, C, R, L, T4, c3, c2
    <3> QED BY <2>1, <3>1, <1>6 DEF Ref!free_reclaimed
  <2>2. CASE C # {}
    <3>1. c3 = Bump(c2, "reclaim", 1)
      BY <2>2
    <3> HIDE DEF m3, T, C, R, c3, c2
    <3> QED BY <2>2, <3>1, <1>6, ReclaimedObj
  <2> QED BY <2>1, <2>2
<1>8. m5 = Obj(L \cup A, T4 \ A, gen', entry', issue_ts', occupancy, high_watermark, reclaim_rsp',
               err_first_class', c4)
  <2>1. /\ gen' = [s \in Slots |-> IF s \in A THEN (gen[s] + 1) % GEN_MOD ELSE gen[s]]
        /\ entry' = [s \in Slots |-> IF s \in A THEN in.alloc ELSE entry[s]]
        /\ issue_ts' = [s \in Slots |-> IF s \in A THEN in.ts ELSE issue_ts[s]]
    BY DEF TrackerEdge, WriteEntry, NextGen
  <2>2. CASE A = {}
    <3>1. L \cup A = L /\ T4 \ A = T4 /\ c4 = c3
      BY <2>2
    <3>2. gen' = gen /\ entry' = entry /\ issue_ts' = issue_ts
      BY <2>1, <2>2 DEF TrackerInv, TrackerTypeOK
    <3> HIDE DEF m4, T4, A, L, c3, c4
    <3> QED BY <2>2, <3>1, <3>2, <1>7 DEF Ref!allocate
  <2>3. CASE A # {}
    <3>1. c4 = Bump(c3, "alloc", 1)
      BY <2>3
    <3> HIDE DEF m4, T4, A, L, c3, c4
    <3> QED BY <2>1, <2>3, <3>1, <1>7, AllocatedObj
  <2> QED BY <2>2, <2>3
<1>9. m6 = Obj(L \cup A, T4 \ A, gen', entry', issue_ts', occupancy, high_watermark, reclaim_rsp',
               err_first_class', c5)
  <2> HIDE DEF m5, L, A, T4, c4, refused
  <2> QED BY <1>8, FullObj
<1>10. /\ occupancy' = occupancy + n
       /\ high_watermark' = IF occupancy + n > high_watermark THEN occupancy + n ELSE high_watermark
  <2>1. n = One(A # {}) - One(R # {}) - One(C # {})
    BY DEF Ref!size, One
  <2>2. occupancy' = occupancy + One(A # {}) - One(R # {}) - One(C # {})
    BY DEF TrackerEdge, UpdateOccupancy, occ_next
  <2>3. /\ One(A # {}) \in Int /\ One(R # {}) \in Int /\ One(C # {}) \in Int /\ occupancy \in Int
    BY TrackerSizeAssumption DEF One, TrackerInv, TrackerTypeOK
  <2>4. high_watermark' = IF occupancy' > high_watermark THEN occupancy' ELSE high_watermark
    BY DEF TrackerEdge, UpdateOccupancy
  <2>5. occupancy' = occupancy + n
    <3> HIDE DEF A, R, C, n
    <3> QED BY <2>1, <2>2, <2>3
  <2> QED BY <2>4, <2>5
<1>11. count' = c5
  <2>1. count' = [k \in Counters |-> SatAdd(count[k], ev[k])]
    BY DEF TrackerEdge, UpdateDiagnostics, EdgeEvents
  <2>2. CountsAfter(in) = c5
    BY DEF CountsAfter
  <2> HIDE DEF c5
  <2> QED BY <2>1, <2>2, CountsMatch
<1>12. live' = L \cup A /\ timed_out' = T4 \ A
  <2>1. /\ live' = (live \ (R \cup C)) \cup A
        /\ timed_out' = ((timed_out \ (R \cup C)) \cup N) \ A
    BY DEF TrackerEdge, UpdateLive, Freed
  <2>2. N \cap (R \cup C) = {}
    BY DEF NewTimeout, Freed
  <2> HIDE DEF A, R, C, N
  <2> QED BY <2>1, <2>2
<1>13. ModelOfRegisters' = Obj(live', timed_out', gen', entry', issue_ts', occupancy', high_watermark',
                               reclaim_rsp', err_first_class', count')
  BY DEF ModelOfRegisters, Obj
<1> HIDE DEF m6, n, c5, L, A, T4
<1>14. Ref!occupy(m6, n) = Obj(L \cup A, T4 \ A, gen', entry', issue_ts', occupancy', high_watermark',
                               reclaim_rsp', err_first_class', c5)
  BY <1>9, <1>10, OccupiedObj
<1>15. Ref!occupy(m6, n) = ModelOfRegisters'
  BY <1>11, <1>12, <1>13, <1>14
<1> HIDE DEF m, R, C, class, acc, rclass, meta, refused
<1>16. Ref!step(m, in) = ModelOfRegisters'
  BY <1>2, <1>3, <1>15, Zenon
<1> QED BY <1>16 DEF m

ReplayInv == TrackerInv /\ TrackerMatchesModel

LEMMA NewMatches ==
  /\ TrackerInit => ModelOfRegisters = Ref!New
  /\ TrackerReset => ModelOfRegisters' = Ref!New
<1>1. [c \in Counters |-> 0] = Ref!New.c
  BY DEF Counters, Ref!New
<1>2. Ref!New = Obj({}, {}, [i \in Slots |-> 0], [i \in Slots |-> ZeroEntry], [i \in Slots |-> 0],
                    0, 0, None, "VALID", Ref!New.c)
  BY DEF Ref!New, Obj, Ref!Range0, Slots
<1> QED BY <1>1, <1>2 DEF TrackerInit, TrackerReset, ModelOfRegisters, Obj

LEMMA NextReplayInv == ReplayInv /\ [ReplayNext]_replayVars => ReplayInv'
<1> SUFFICES ASSUME ReplayInv, [ReplayNext]_replayVars PROVE ReplayInv'
  OBVIOUS
<1>1. TrackerInv'
  <2>1. ReplayReset => TrackerNext
    BY DEF ReplayReset, TrackerNext
  <2>2. \A in \in TrackerInputs : ReplayEdge(in) => TrackerNext
    BY DEF ReplayEdge, TrackerNext
  <2>3. UNCHANGED replayVars => UNCHANGED trackerVars
    BY DEF replayVars
  <2>4. [TrackerNext]_trackerVars
    BY <2>1, <2>2, <2>3 DEF ReplayNext
  <2> QED BY <2>4, TrackerStep DEF ReplayInv
<1>2. ReplayReset => TrackerMatchesModel'
  BY NewMatches DEF ReplayReset, TrackerMatchesModel
<1>3. ASSUME NEW in \in TrackerInputs, ReplayEdge(in) PROVE TrackerMatchesModel'
  BY <1>3, EdgeMatches, TrackerInputAssumption DEF ReplayInv, TrackerMatchesModel, ReplayEdge
<1>4. UNCHANGED replayVars => TrackerMatchesModel'
  BY DEF replayVars, trackerVars, slotVars, ReplayInv, TrackerMatchesModel, ModelOfRegisters
<1>5. TrackerMatchesModel'
  BY <1>2, <1>3, <1>4 DEF ReplayNext
<1> QED BY <1>1, <1>5 DEF ReplayInv

\* The hardware's tracker and the Python one hold the same after any sequence of
\* beats, of any length, for any number of slots and any widths.
THEOREM TrackerAlwaysMatchesModel == ReplaySpec => []TrackerMatchesModel
<1>1. ReplayInit => ReplayInv
  BY InitTrackerInv, NewMatches DEF ReplayInit, ReplayInv, TrackerMatchesModel
<1>2. ReplayInv => TrackerMatchesModel
  BY DEF ReplayInv
<1> QED BY <1>1, <1>2, NextReplayInv, PTL DEF ReplaySpec

\* So do their ports, in every cycle: what tb_outstanding_tracker.sv compares.
THEOREM TrackerPortsAgree ==
  ASSUME TrackerInv, TrackerMatchesModel, NEW in \in TrackerInputType
  PROVE  TrackerPorts(in) = Ref!outputs(ref, in)
<1> DEFINE m == ModelOfRegisters
           A == AllocSet(in)
           R == RetireSet(in)
           C == ReclaimSet(in)
           Q(x) == {i \in Slots : i \in x.live /\ i \in x.timed}
           Out(tags, fu, cl, shown, re, rl, rd, q, any) ==
             [alloc_tag |-> tags, full |-> fu, resp_class |-> cl, retired |-> shown,
              retire_commit |-> re, reclaim_commit |-> rl,
              reclaim_req_ready |-> rd, reclaim_rsp |-> m.rr,
              occupancy |-> m.occ, high_watermark |-> m.hwm,
              quarantined_count |-> q, timeout_any |-> any,
              counters |-> m.c, err_first_class |-> m.err_first]
           shown == IF in.resp # None /\ in.resp.slot \in Slots THEN entry[in.resp.slot] ELSE ZeroEntry
           class == IF in.resp = None THEN "VALID" ELSE RespClass(in.resp)
           dR    == Ref!do_retire(m, in)
<1>1. /\ m.live = live /\ m.timed = timed_out /\ m.gen = gen /\ m.entry = entry /\ m.rr = reclaim_rsp
      /\ m.occ = occupancy /\ m.hwm = high_watermark /\ m.c = count /\ m.err_first = err_first_class
      /\ ref = m /\ Ref!Range0 = Slots
  BY DEF ModelOfRegisters, TrackerMatchesModel, Ref!Range0, Slots
<1>2. /\ Ref!do_alloc(m, in) = A /\ Ref!is_full(m) = full /\ dR = R
      /\ in.resp # None => Ref!classify(m, in.resp) = RespClass(in.resp)
      /\ Ref!do_reclaim(m, in, R) = C
  BY SameDecisions
<1> HIDE DEF m, A, R, C
<1>3. TrackerPorts(in) = Out({[slot |-> s, gen |-> NextGen(s)] : s \in A}, full, class, shown,
                             {entry[s] : s \in R}, {entry[s] : s \in C}, reclaim_rsp = None,
                             Cardinality(live \cap timed_out), live \cap timed_out # {})
  BY <1>1, Zenon DEF TrackerPorts, AllocTag, quarantined_count, A, R, C
<1>4. Ref!outputs(m, in) =
        Out({[slot |-> i, gen |-> Ref!new_gen(m, i)] : i \in Ref!do_alloc(m, in)}, Ref!is_full(m),
            IF in.resp = None THEN "VALID" ELSE Ref!classify(m, in.resp),
            IF in.resp # None /\ in.resp.slot < DEPTH THEN m.entry[in.resp.slot] ELSE ZeroEntry,
            {m.entry[i] : i \in dR}, {m.entry[i] : i \in Ref!do_reclaim(m, in, dR)},
            Ref!reclaim_ready(m),
            Ref!Cardinality({i \in Ref!Range0 : i \in m.live /\ i \in m.timed}),
            \E i \in Ref!Range0 : i \in m.live /\ i \in m.timed)
  BY Zenon DEF Ref!outputs
<1>5. {[slot |-> i, gen |-> Ref!new_gen(m, i)] : i \in Ref!do_alloc(m, in)}
        = {[slot |-> s, gen |-> NextGen(s)] : s \in A}
  BY <1>1, <1>2, Zenon DEF Ref!new_gen, NextGen
<1>6. (IF in.resp = None THEN "VALID" ELSE Ref!classify(m, in.resp)) = class
  BY <1>2
<1>7. (IF in.resp # None /\ in.resp.slot < DEPTH THEN m.entry[in.resp.slot] ELSE ZeroEntry) = shown
  <2>1. in.resp # None => (in.resp.slot < DEPTH <=> in.resp.slot \in Slots)
    BY TrackerSizeAssumption DEF TrackerInputType, Tags, Slots
  <2> QED BY <1>1, <2>1
<1>8. /\ {m.entry[i] : i \in dR} = {entry[s] : s \in R}
      /\ {m.entry[i] : i \in Ref!do_reclaim(m, in, dR)} = {entry[s] : s \in C}
  BY <1>1, <1>2, Zenon
<1>9. Ref!reclaim_ready(m) = (reclaim_rsp = None)
  BY <1>1 DEF Ref!reclaim_ready
<1>10. Ref!Cardinality({i \in Ref!Range0 : i \in m.live /\ i \in m.timed})
         = Cardinality(live \cap timed_out)
  <2>1. {i \in Ref!Range0 : i \in m.live /\ i \in m.timed} = live \cap timed_out
    BY <1>1 DEF TrackerInv, TrackerTypeOK
  <2> QED BY <2>1, SameCardinality
<1>11. (\E i \in Ref!Range0 : i \in m.live /\ i \in m.timed) = (live \cap timed_out # {})
  BY <1>1 DEF TrackerInv, TrackerTypeOK
<1> HIDE DEF Out, class, shown, dR
<1> QED BY <1>1, <1>2, <1>3, <1>4, <1>5, <1>6, <1>7, <1>8, <1>9, <1>10, <1>11, Zenon

-----------------------------------------------------------------------------
(* The directed beats. *)

\* A tag read from the model names the occupant of its slot.
LEMMA TagOfModel ==
  ASSUME TrackerInv, TrackerMatchesModel, NEW s \in ref.live
  PROVE  /\ s \in live /\ s \in Slots
         /\ tag_of(s) # None /\ tag_of(s).slot = s /\ tag_of(s).gen = gen[s]
         /\ RespClass(tag_of(s)) = "VALID"
<1>1. ref.live = live /\ ref.gen = gen
  BY DEF TrackerMatchesModel, ModelOfRegisters
<1>2. s \in live /\ s \in Slots
  BY <1>1 DEF TrackerInv, TrackerTypeOK
<1>3. tag_of(s) \in Tags /\ tag_of(s) = [slot |-> s, gen |-> gen[s]]
  BY <1>1, <1>2, TrackerSizeAssumption DEF TrackerInv, TrackerTypeOK, tag_of, Tags, Slots
<1> QED BY <1>2, <1>3, DataAssumption DEF RespClass

\* On the edge a threshold after its allocation an entry has the threshold's age.
LEMMA AgeAtCrossing ==
  ASSUME NEW i \in 0 .. TS_MOD - 1, NEW t \in 0 .. TS_MOD - 1
  PROVE  (((i + t) % TS_MOD) - i) % TS_MOD = t
<1> DEFINE x == i + t
           c == x % TS_MOD
           y == c - i
<1>1. x \in Int /\ TS_MOD \in Nat \ {0}
  BY TrackerSizeAssumption
<1>2. PICK q \in Int : x = TS_MOD * q + c /\ c \in 0 .. TS_MOD - 1
  <2> HIDE DEF x
  <2> QED BY <1>1, DivMod
<1>3. y = TS_MOD * (-q) + t /\ -q \in Int /\ y \in Int
  <2> DEFINE u == TS_MOD * q
  <2>1. TS_MOD * (-q) = -u /\ u \in Int
    BY <1>1
  <2> HIDE DEF c, u
  <2>2. y = -u + t /\ y \in Int
    BY <1>1, <1>2, <2>1 DEF u
  <2> QED BY <2>1, <2>2
<1> HIDE DEF y
<1>4. y % TS_MOD = t
  BY <1>1, <1>3, ModUnique
<1> QED BY <1>4 DEF y

\* The directed beats of the generators hit the cases they are made for, in every
\* state of any replay, for any depth and widths.
THEOREM DirectedBeatsAlwaysHit == ReplaySpec => []DirectedBeatsHit
<1>1. ReplayInit => ReplayInv
  BY InitTrackerInv, NewMatches DEF ReplayInit, ReplayInv, TrackerMatchesModel
<1>2. ReplayInv => DirectedBeatsHit
  <2> SUFFICES ASSUME TrackerInv, TrackerMatchesModel, NEW in \in DrawnBeats
               PROVE  /\ \A b \in CrossingRetire(in) :
                           /\ RespClass(b.resp) = "VALID"
                           /\ timeout_active(b) => b.resp.slot \in NewTimeout(b, {})
                      /\ \A b \in EarlyReclaim(in) :
                           ReclaimAccept(b) /\ ReclaimClass(b) = "NOT_QUARANTINED"
                      /\ \A b \in Superseding(in) :
                           ReclaimAccept(b) /\ ReclaimClass(b) = "SUPERSEDED"
                      /\ \A b \in DualCommit(in) :
                           RetireSet(b) # {} /\ ReclaimSet(b) \ RetireSet(b) # {}
                      /\ \A b \in DrainStep(in) : RetireSet(b) \cup ReclaimSet(b) # {}
    BY DEF ReplayInv, DirectedBeatsHit
  <2>1. in \in TrackerInputType /\ in.resp = None /\ in.reclaim = None
    BY TrackerInputAssumption DEF DrawnBeats
  <2>2. /\ ref.live = live /\ ref.timed = timed_out /\ ref.gen = gen
        /\ ref.issue_ts = issue_ts /\ ref.rr = reclaim_rsp
    BY DEF TrackerMatchesModel, ModelOfRegisters
  <2>3. ASSUME NEW b \in CrossingRetire(in)
        PROVE  /\ RespClass(b.resp) = "VALID"
               /\ timeout_active(b) => b.resp.slot \in NewTimeout(b, {})
    <3>1. PICK s \in ref.live \ ref.timed :
            b = [in EXCEPT !.ts = (ref.issue_ts[s] + in.timeout_thresh) % TS_MOD, !.resp = tag_of(s)]
      BY DEF CrossingRetire
    <3>2. /\ b.ts = (issue_ts[s] + in.timeout_thresh) % TS_MOD /\ b.resp = tag_of(s)
          /\ b.timeout_thresh = in.timeout_thresh
      BY <2>1, <2>2, <3>1 DEF TrackerInputType
    <3>3. s \in live \ timed_out /\ issue_ts[s] \in 0 .. TS_MOD - 1
          /\ in.timeout_thresh \in 0 .. TS_MOD - 1
      BY <2>1, <2>2, TagOfModel DEF TrackerInv, TrackerTypeOK, TrackerInputType
    <3>4. Age(b, s) = b.timeout_thresh
      BY <3>2, <3>3, AgeAtCrossing DEF Age
    <3> QED BY <3>2, <3>3, <3>4, TagOfModel DEF NewTimeout
  <2>4. ASSUME NEW b \in EarlyReclaim(in)
        PROVE  ReclaimAccept(b) /\ ReclaimClass(b) = "NOT_QUARANTINED"
    <3>1. PICK s \in ref.live \ ref.timed : b = [in EXCEPT !.reclaim = tag_of(s)] /\ ref.rr = None
      BY DEF EarlyReclaim
    <3>2. b.reclaim = tag_of(s)
      BY <2>1, <3>1 DEF TrackerInputType
    <3> QED BY <2>2, <3>1, <3>2, TagOfModel DEF ReclaimAccept, ReclaimClass
  <2>5. ASSUME NEW b \in Superseding(in)
        PROVE  ReclaimAccept(b) /\ ReclaimClass(b) = "SUPERSEDED"
    <3>1. PICK s \in ref.live \cap ref.timed :
            b = [in EXCEPT !.reclaim = tag_of(s), !.resp = tag_of(s)] /\ ref.rr = None
      BY DEF Superseding
    <3>2. b.reclaim = tag_of(s) /\ b.resp = tag_of(s)
      BY <2>1, <3>1 DEF TrackerInputType
    <3> QED BY <2>2, <3>1, <3>2, TagOfModel DEF ReclaimAccept, ReclaimClass, RetireSet
  <2>6. ASSUME NEW b \in DualCommit(in)
        PROVE  RetireSet(b) # {} /\ ReclaimSet(b) \ RetireSet(b) # {}
    <3>1. PICK x \in ref.live \ ref.timed, y \in ref.live \cap ref.timed :
            b = [in EXCEPT !.resp = tag_of(x), !.reclaim = tag_of(y)] /\ ref.rr = None
      BY DEF DualCommit
    <3>2. b.resp = tag_of(x) /\ b.reclaim = tag_of(y)
      BY <2>1, <3>1 DEF TrackerInputType
    <3>3. RetireSet(b) = {x} /\ x # y
      BY <3>2, TagOfModel DEF RetireSet
    <3>4. ReclaimAccept(b) /\ ReclaimClass(b) = "OK"
      BY <2>2, <3>1, <3>2, <3>3, TagOfModel DEF ReclaimAccept, ReclaimClass
    <3> QED BY <3>2, <3>3, <3>4, TagOfModel DEF ReclaimSet
  <2>7. ASSUME NEW b \in DrainStep(in)
        PROVE  RetireSet(b) \cup ReclaimSet(b) # {}
    <3>1. CASE ref.live \ ref.timed # {}
      <4>1. PICK s \in ref.live : b = [in EXCEPT !.resp = tag_of(s)]
        BY <3>1 DEF DrainStep
      <4>2. b.resp = tag_of(s)
        BY <2>1, <4>1 DEF TrackerInputType
      <4> QED BY <4>2, TagOfModel DEF RetireSet
    <3>2. CASE ref.live \ ref.timed = {}
      <4>1. PICK s \in ref.live :
              b = [in EXCEPT !.reclaim = tag_of(s), !.reclaim_rsp_ready = TRUE] /\ ref.rr = None
        BY <3>2 DEF DrainStep
      <4>2. b.reclaim = tag_of(s) /\ b.resp = None
        BY <2>1, <4>1 DEF TrackerInputType
      <4>3. ReclaimAccept(b) /\ ReclaimClass(b) = "OK"
        BY <2>2, <3>2, <4>1, <4>2, TagOfModel DEF ReclaimAccept, ReclaimClass, RetireSet
      <4> QED BY <4>3 DEF ReclaimSet
    <3> QED BY <3>1, <3>2
  <2> QED BY <2>3, <2>4, <2>5, <2>6, <2>7
<1> QED BY <1>1, <1>2, NextReplayInv, PTL DEF ReplaySpec
=============================================================================
