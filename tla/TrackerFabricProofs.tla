------------------------ MODULE TrackerFabricProofs ------------------------
(***************************************************************************)
(* Theorems about TrackerFabric: tags, recovery and timeouts of a tracker  *)
(* whose messages are delayed, duplicated, reordered and lost, for every   *)
(* number of slots, generations and reuses and every timestamp width.      *)
(***************************************************************************)
EXTENDS TrackerFabric, OutstandingTrackerProofs

-----------------------------------------------------------------------------
(***************************************************************************)
(* The inductive invariant: a slot's generation is the number of its       *)
(* incarnations modulo GEN_MOD, no response about an incarnation outlives  *)
(* LIFETIME reuses, and the age the tracker computes is the true one until *)
(* the entry is marked.                                                    *)
(***************************************************************************)
BirthsOK ==
  /\ born \in [Slots -> 0 .. MAX_BORN]
  /\ \A s \in Slots : gen[s] = born[s] % GEN_MOD
  /\ fabric \subseteq Recent(born)

AgesOK ==
  /\ now \in 0 .. TS_MOD - 1
  /\ age \in [Slots -> 0 .. AGE_CAP]
  /\ \A s \in live \ timed_out : age[s] = (now - issue_ts[s]) % TS_MOD

FabricInv == TrackerInv /\ BirthsOK /\ AgesOK /\ NoAlias /\ ReclaimReportedOnce /\ TimeoutExact

\* The inputs that FabricEdge presents to the tracker.
Presented(d, alloc, delivered, requested, ready) ==
  [ts |-> (now + d) % TS_MOD, timeout_enable |-> TRUE,
   timeout_thresh |-> THRESH, alloc |-> alloc, resp |-> Beat(delivered),
   reclaim |-> Beat(requested), reclaim_rsp_ready |-> ready]

\* A message that matches a slot in number and generation is about the occupant:
\* it is too young for the generation to have come round.
LEMMA MessageFacts ==
  ASSUME BirthsOK, NEW m \in Recent(born) \cup Strays
  PROVE  /\ m # None /\ Beat(m) = TagOf(m) /\ TagOf(m) \in Tags /\ TagOf(m) # None
         /\ TagOf(m).slot \in Slots /\ TagOf(m).gen = gen[TagOf(m).slot]
              => m = <<TagOf(m).slot, born[TagOf(m).slot]>>
<1>1. GEN_MOD \in Nat \ {0} /\ SLOT_SPACE \in Nat /\ DEPTH \in Nat /\ SLOT_SPACE >= DEPTH
  BY TrackerSizeAssumption
<1>2. PICK s \in 0 .. SLOT_SPACE - 1, n \in Nat : m = <<s, n>>
  BY <1>1, FabricAssumption DEF Recent, Strays, Slots
<1>3. m # None
  BY <1>1, <1>2, FabricAssumption
<1>4. TagOf(m) = [slot |-> s, gen |-> n % GEN_MOD]
  BY <1>2 DEF TagOf
<1>5. n % GEN_MOD \in 0 .. GEN_MOD - 1
  BY <1>1, DivMod
<1>6. TagOf(m) \in Tags
  BY <1>4, <1>5 DEF Tags
<1>7. TagOf(m) # None
  BY <1>6, DataAssumption
<1>8. ASSUME s \in Slots, n % GEN_MOD = gen[s] PROVE n = born[s]
  <2>1. n <= born[s] /\ born[s] - n <= LIFETIME
    BY <1>1, <1>2, <1>8 DEF Recent, Strays, Slots
  <2>2. born[s] \in Nat /\ gen[s] = born[s] % GEN_MOD
    BY <1>8, FabricAssumption DEF BirthsOK
  <2>3. born[s] % GEN_MOD = n % GEN_MOD /\ -GEN_MOD < born[s] - n /\ born[s] - n < GEN_MOD
    BY <1>1, <1>2, <1>8, <2>1, <2>2, FabricAssumption
  <2> QED BY <1>1, <1>2, <2>2, <2>3, SameResidue
<1> QED BY <1>2, <1>3, <1>4, <1>6, <1>7, <1>8 DEF Beat

\* What an edge frees, it frees for the message about it.
LEMMA FreedBy ==
  ASSUME BirthsOK, SlotsOK,
         NEW d, NEW alloc, NEW delivered \in fabric \cup Strays \cup {None},
         NEW requested \in Recent(born) \cup Strays \cup {None}, NEW ready,
         NEW in, in = Presented(d, alloc, delivered, requested, ready)
  PROVE  /\ \A s \in RetireSet(in) : delivered = <<s, born[s]>>
         /\ \A s \in ReclaimSet(in) :
              /\ requested = <<s, born[s]>> /\ delivered # <<s, born[s]>>
              /\ in.reclaim = TagOf(<<s, born[s]>>)
<1>1. in.resp = Beat(delivered) /\ in.reclaim = Beat(requested)
  BY DEF Presented
<1>2. fabric \subseteq Recent(born) /\ live \subseteq Slots
  BY DEF BirthsOK, SlotsOK
<1>3. ASSUME NEW s \in RetireSet(in) PROVE delivered = <<s, born[s]>>
  <2>1. in.resp # None /\ RespClass(in.resp) = "VALID" /\ s = in.resp.slot
    BY DEF RetireSet
  <2>2. delivered \in Recent(born) \cup Strays
    BY <1>1, <1>2, <2>1 DEF Beat
  <2>3. in.resp = TagOf(delivered)
    BY <1>1, <2>2, MessageFacts
  <2>4. in.resp.slot \in Slots /\ in.resp.gen = gen[in.resp.slot]
    BY <2>1 DEF RespClass
  <2> QED BY <2>1, <2>2, <2>3, <2>4, MessageFacts
<1>4. ASSUME NEW s \in ReclaimSet(in)
      PROVE  requested = <<s, born[s]>> /\ in.reclaim = TagOf(requested) /\ s \in live
  <2>1. in.reclaim # None /\ ReclaimClass(in) = "OK" /\ s = in.reclaim.slot
    BY DEF ReclaimSet, ReclaimAccept
  <2>2. requested \in Recent(born) \cup Strays
    BY <1>1, <2>1 DEF Beat
  <2>3. in.reclaim = TagOf(requested)
    BY <1>1, <2>2, MessageFacts
  <2>4. in.reclaim.slot \in live /\ in.reclaim.slot \in Slots /\ in.reclaim.gen = gen[in.reclaim.slot]
    BY <2>1 DEF ReclaimClass
  <2> QED BY <2>1, <2>2, <2>3, <2>4, MessageFacts
<1>5. ASSUME NEW s \in ReclaimSet(in), delivered = <<s, born[s]>> PROVE FALSE
  <2>1. requested = delivered /\ s \in live
    BY <1>4, <1>5
  <2>2. delivered \in Recent(born) \cup Strays
    <3>1. in.reclaim # None
      BY <1>5 DEF ReclaimSet, ReclaimAccept
    <3> QED BY <1>1, <1>2, <2>1, <3>1 DEF Beat
  <2>3. in.resp = in.reclaim /\ in.resp # None
    BY <1>1, <2>1, <2>2, MessageFacts
  <2>4. ReclaimClass(in) = "OK" /\ s = in.reclaim.slot
    BY <1>5 DEF ReclaimSet
  <2>5. RespClass(in.resp) = "VALID"
    BY <2>3, <2>4 DEF ReclaimClass, RespClass
  <2>6. s \in RetireSet(in)
    BY <2>3, <2>4, <2>5 DEF RetireSet
  <2> QED BY <1>5, <2>6, ReclaimSetFacts
<1> QED BY <1>3, <1>4, <1>5

LEMMA InitFabricInv == FabricInit => FabricInv
<1> SUFFICES ASSUME FabricInit PROVE FabricInv
  OBVIOUS
<1>1. TrackerInv
  BY InitTrackerInv DEF FabricInit
<1>2. 0 % GEN_MOD = 0
  BY TrackerSizeAssumption, ResidueOfZero
<1>3. BirthsOK
  BY <1>2, FabricAssumption DEF FabricInit, TrackerInit, BirthsOK
<1>4. AgesOK /\ TimeoutExact
  BY TrackerSizeAssumption, FabricAssumption DEF FabricInit, TrackerInit, AgesOK, TimeoutExact
<1>5. NoAlias /\ ReclaimReportedOnce
  BY DEF FabricInit, TrackerInit, NoAlias, ReclaimReportedOnce
<1> QED BY <1>1, <1>3, <1>4, <1>5 DEF FabricInv

\* What moves in the tracker at an edge.
LEMMA TrackerMoves ==
  ASSUME FabricInv,
         NEW d \in Steps, NEW alloc \in Entry \cup {None},
         NEW delivered \in fabric \cup Strays \cup {None},
         NEW requested \in Recent(born) \cup Strays \cup {None}, NEW ready \in BOOLEAN,
         NEW in, in = Presented(d, alloc, delivered, requested, ready), TrackerEdge(in)
  PROVE  /\ in \in TrackerInputType /\ TrackerInv'
         /\ live \ live' = RetireSet(in) \cup ReclaimSet(in)
         /\ live' \ live = AllocSet(in) /\ live \subseteq Slots
         /\ gen' = [s \in Slots |-> IF s \in AllocSet(in) THEN NextGen(s) ELSE gen[s]]
         /\ issue_ts' = [s \in Slots |-> IF s \in AllocSet(in) THEN in.ts ELSE issue_ts[s]]
<1>1. BirthsOK /\ SlotsOK
  BY DEF FabricInv, TrackerInv, TrackerTypeOK, SlotsOK
<1>2. (now + d) % TS_MOD \in 0 .. TS_MOD - 1
  <2>1. now + d \in Int /\ TS_MOD \in Nat \ {0}
    BY TrackerSizeAssumption, FabricAssumption DEF FabricInv, AgesOK
  <2> QED BY <2>1, DivMod
<1>3. THRESH \in 0 .. TS_MOD - 1
  BY TrackerSizeAssumption, FabricAssumption
<1>4. Beat(delivered) \in Tags \cup {None} /\ Beat(requested) \in Tags \cup {None}
  <2>1. \A m \in Recent(born) \cup Strays \cup {None} : Beat(m) \in Tags \cup {None}
    BY <1>1, MessageFacts DEF Beat
  <2> QED BY <1>1, <2>1 DEF BirthsOK
<1>5. in \in TrackerInputType
  BY <1>2, <1>3, <1>4 DEF Presented, TrackerInputType
<1>6. TrackerInv'
  BY <1>1, <1>5, EdgeSlots, EdgeType DEF FabricInv, TrackerInv, SlotsOK
<1>7. live' = (live \ (RetireSet(in) \cup ReclaimSet(in))) \cup AllocSet(in)
  BY DEF TrackerEdge, UpdateLive
<1>8. /\ AllocSet(in) \subseteq Slots \ live /\ RetireSet(in) \subseteq live
      /\ ReclaimSet(in) \subseteq live
  BY AllocSetFacts, RetireSetFacts, ReclaimSetFacts
<1>9. /\ gen' = [s \in Slots |-> IF s \in AllocSet(in) THEN NextGen(s) ELSE gen[s]]
      /\ issue_ts' = [s \in Slots |-> IF s \in AllocSet(in) THEN in.ts ELSE issue_ts[s]]
  BY DEF TrackerEdge, WriteEntry
<1> QED BY <1>1, <1>5, <1>6, <1>7, <1>8, <1>9 DEF SlotsOK

\* Births and generations go together, so no message becomes ambiguous.
LEMMA EdgeBirths ==
  ASSUME FabricInv, NEW A \in SUBSET (Slots \ live),
         gen' = [s \in Slots |-> IF s \in A THEN NextGen(s) ELSE gen[s]],
         born' = [s \in Slots |-> IF s \in A THEN born[s] + 1 ELSE born[s]],
         \A s \in Slots \ live : born[s] < MAX_BORN,
         fabric' \subseteq Recent(born')
  PROVE  BirthsOK'
<1>1. /\ GEN_MOD \in Nat \ {0} /\ MAX_BORN \in Nat /\ born \in [Slots -> 0 .. MAX_BORN]
      /\ \A s \in Slots : gen[s] = born[s] % GEN_MOD
  BY TrackerSizeAssumption, FabricAssumption DEF FabricInv, BirthsOK
<1>2. born' \in [Slots -> 0 .. MAX_BORN]
  BY <1>1
<1>3. ASSUME NEW s \in Slots PROVE gen'[s] = born'[s] % GEN_MOD
  <2>1. CASE s \in A
    <3>1. born[s] \in Int /\ born'[s] = born[s] + 1 /\ gen'[s] = ((born[s] % GEN_MOD) + 1) % GEN_MOD
      BY <1>1, <2>1 DEF NextGen
    <3>2. (born[s] + 1) % GEN_MOD = ((born[s] % GEN_MOD) + 1) % GEN_MOD
      BY <1>1, <3>1, NextResidue
    <3> QED BY <3>1, <3>2
  <2>2. CASE s \notin A
    BY <1>1, <2>2
  <2> QED BY <2>1, <2>2
<1>4. Recent(born)' = Recent(born')
  BY DEF Recent
<1> QED BY <1>2, <1>3, <1>4 DEF BirthsOK

\* While an entry is unmarked its age is below the threshold, so one more step
\* does not take it round the timestamp: the tracker sees the true age.
LEMMA EdgeAges ==
  ASSUME FabricInv, NEW d \in Steps,
         NEW in, in.ts = now', in.timeout_enable, in.timeout_thresh = THRESH,
         NEW A \in SUBSET (Slots \ live), NEW F \in SUBSET live,
         live' = (live \ F) \cup A,
         timed_out' = ((timed_out \ F) \cup NewTimeout(in, F)) \ A,
         issue_ts' = [s \in Slots |-> IF s \in A THEN in.ts ELSE issue_ts[s]],
         Pass(d)
  PROVE  AgesOK' /\ TimeoutExact'
<1>1. /\ TS_MOD \in Nat \ {0} /\ THRESH \in Nat \ {0} /\ 2 * THRESH < TS_MOD
      /\ d \in 0 .. TS_MOD - THRESH /\ AGE_CAP \in Nat /\ AGE_CAP >= THRESH
  BY TrackerSizeAssumption, FabricAssumption
<1>2. /\ now \in 0 .. TS_MOD - 1 /\ age \in [Slots -> 0 .. AGE_CAP]
      /\ issue_ts \in [Slots -> 0 .. TS_MOD - 1] /\ live \subseteq Slots /\ timed_out \subseteq live
      /\ \A s \in live \ timed_out : age[s] = (now - issue_ts[s]) % TS_MOD
      /\ \A s \in live : s \in timed_out <=> age[s] >= THRESH
  BY DEF FabricInv, TrackerInv, TrackerTypeOK, QuarantineOnlyLive, AgesOK, TimeoutExact
<1>3. /\ now' = (now + d) % TS_MOD /\ in.ts = now'
      /\ age' = [s \in Slots |-> IF s \in live \cap live' THEN Capped(age[s] + d) ELSE 0]
  BY DEF Pass
<1>4. now' \in 0 .. TS_MOD - 1
  BY <1>1, <1>2, <1>3, DivMod
<1>5. timeout_active(in)
  BY <1>1 DEF timeout_active
<1>6. ASSUME NEW s \in live \ timed_out
      PROVE  (now' - issue_ts[s]) % TS_MOD = age[s] + d /\ age[s] < THRESH
  <2>1. /\ issue_ts[s] \in 0 .. TS_MOD - 1 /\ age[s] \in Nat /\ age[s] < THRESH
        /\ age[s] = (now - issue_ts[s]) % TS_MOD
    BY <1>1, <1>2
  <2>2. ((now - issue_ts[s]) % TS_MOD) + d < TS_MOD
    BY <1>1, <2>1
  <2>3. (((now + d) % TS_MOD) - issue_ts[s]) % TS_MOD = ((now - issue_ts[s]) % TS_MOD) + d
    <3>1. issue_ts[s] \in 0 .. TS_MOD - 1 /\ d \in Nat
      BY <1>1, <2>1
    <3>2. PICK n \in 0 .. TS_MOD - 1, i \in 0 .. TS_MOD - 1 : n = now /\ i = issue_ts[s]
      BY <1>2, <3>1
    <3>3. PICK a, c : /\ a = (n - i) % TS_MOD /\ c = (n + d) % TS_MOD
                      /\ IsResidue(a, n - i, TS_MOD) /\ IsResidue(c, n + d, TS_MOD)
      BY Zenon DEF IsResidue
    <3>4. a + d < TS_MOD
      BY <2>2, <3>2, <3>3
    <3>5. IsResidue(a + d, c - i, TS_MOD)
      BY <1>1, <3>1, <3>3, <3>4, AgeStep
    <3>6. (c - i) % TS_MOD = a + d
      BY <3>5 DEF IsResidue
    <3> QED BY <3>2, <3>3, <3>6, Zenon
  <2> QED BY <1>3, <2>1, <2>3
<1>7. \A s \in live \ timed_out : s \in NewTimeout(in, F) <=> s \notin F /\ age[s] + d >= THRESH
  BY <1>3, <1>5, <1>6 DEF NewTimeout, Age
<1>8. age' \in [Slots -> 0 .. AGE_CAP]
  BY <1>1, <1>2, <1>3 DEF Capped
<1>9. ASSUME NEW s \in live' PROVE s \in timed_out' <=> age'[s] >= THRESH
  <2>1. CASE s \in A
    BY <1>1, <1>3, <2>1
  <2>2. CASE s \in timed_out \ F
    <3>1. age'[s] = Capped(age[s] + d) /\ age[s] \in Nat /\ age[s] >= THRESH /\ s \in timed_out'
      BY <1>2, <1>3, <2>2
    <3> QED BY <1>1, <3>1 DEF Capped
  <2>3. CASE s \in live \ (timed_out \cup F)
    <3>1. age'[s] = Capped(age[s] + d) /\ age[s] \in Nat
      BY <1>2, <1>3, <2>3
    <3>2. s \in timed_out' <=> age[s] + d >= THRESH
      BY <1>7, <2>3
    <3> QED BY <1>1, <3>1, <3>2 DEF Capped
  <2> QED BY <2>1, <2>2, <2>3
<1>10. ASSUME NEW s \in live' \ timed_out' PROVE age'[s] = (now' - issue_ts'[s]) % TS_MOD
  <2>1. CASE s \in A
    <3>1. age'[s] = 0 /\ issue_ts'[s] = now'
      BY <1>3, <2>1
    <3>2. 0 % TS_MOD = 0
      BY <1>1, ResidueOfZero
    <3> QED BY <1>4, <3>1, <3>2
  <2>2. CASE s \in live \ (timed_out \cup F)
    <3>1. age'[s] = Capped(age[s] + d) /\ age[s] \in Nat /\ issue_ts'[s] = issue_ts[s]
      BY <1>2, <1>3, <2>2
    <3>2. age[s] + d < THRESH
      BY <1>1, <1>7, <1>10, <2>2, <3>1
    <3> QED BY <1>1, <1>6, <2>2, <3>1, <3>2 DEF Capped
  <2>3. s \in A \/ s \in live \ (timed_out \cup F)
    BY <1>10
  <2> QED BY <2>1, <2>2, <2>3
<1> QED BY <1>4, <1>8, <1>9, <1>10 DEF AgesOK, TimeoutExact

\* Exactly the entries the tracker reclaims leave without a response of their
\* own, and the register reports the one it holds.
LEMMA EdgeReports ==
  ASSUME ReclaimReportedOnce, TrackerTypeOK,
         NEW in \in TrackerInputType, NEW ready, in.reclaim_rsp_ready = ready,
         ready \in {FALSE, reclaim_rsp # None},
         UpdateReclaimRsp(in),
         NEW told, told = {[tag |-> in.reclaim, meta |-> entry[s].meta] : s \in ReclaimSet(in)},
         unreported' = (unreported \ Reported(ready)) \cup told
  PROVE  ReclaimReportedOnce'
<1> DEFINE rsp == [tag |-> in.reclaim, class |-> ReclaimClass(in),
                   meta |-> IF ReclaimClass(in) = "OK" THEN entry[in.reclaim.slot].meta
                                                       ELSE ZeroEntry.meta]
           held(r) == IF r # None /\ r.class = "OK" THEN {[tag |-> r.tag, meta |-> r.meta]} ELSE {}
<1>1. unreported = held(reclaim_rsp)
  BY DEF ReclaimReportedOnce
<1>2. SUFFICES unreported' = held(reclaim_rsp')
  BY DEF ReclaimReportedOnce
<1>3. CASE ReclaimAccept(in)
  <2>1. reclaim_rsp = None /\ in.reclaim \in Tags /\ reclaim_rsp' = rsp
    BY <1>3 DEF ReclaimAccept, UpdateReclaimRsp, TrackerInputType
  <2>2. rsp # None
    <3>1. ReclaimClass(in) \in ReclaimClasses
      BY DEF ReclaimClass, ReclaimClasses
    <3>2. rsp.meta \in Metas
      <4>1. ReclaimClass(in) = "OK" => in.reclaim.slot \in Slots
        BY DEF ReclaimClass
      <4> QED BY <4>1, DataAssumption DEF TrackerTypeOK, Metas
    <3>3. rsp \in ReclaimRsp
      BY <2>1, <3>1, <3>2 DEF ReclaimRsp
    <3> QED BY <3>3, DataAssumption
  <2>3. unreported = {} /\ Reported(ready) = {}
    BY <1>1, <2>1 DEF Reported
  <2>4. CASE ReclaimClass(in) = "OK"
    <3>1. ReclaimSet(in) = {in.reclaim.slot}
      BY <1>3, <2>4 DEF ReclaimSet
    <3>2. told = {[tag |-> rsp.tag, meta |-> rsp.meta]}
      BY <2>4, <3>1
    <3>3. rsp.class = "OK"
      BY <2>4
    <3> HIDE DEF rsp
    <3> QED BY <2>1, <2>2, <2>3, <3>2, <3>3
  <2>5. CASE ReclaimClass(in) # "OK"
    <3>1. told = {} /\ rsp.class # "OK"
      BY <2>5 DEF ReclaimSet
    <3> HIDE DEF rsp
    <3> QED BY <2>1, <2>3, <3>1
  <2> QED BY <2>4, <2>5
<1>4. CASE ~ReclaimAccept(in)
  <2>1. told = {} /\ reclaim_rsp' = IF ready THEN None ELSE reclaim_rsp
    BY <1>4 DEF ReclaimSet, UpdateReclaimRsp
  <2>2. Reported(ready) = IF ready THEN held(reclaim_rsp) ELSE {}
    BY DEF Reported
  <2> QED BY <1>1, <2>1, <2>2
<1> QED BY <1>3, <1>4

LEMMA EdgeFabricInv ==
  ASSUME FabricInv,
         NEW d \in Steps, NEW alloc \in (Entry \ {ZeroEntry}) \cup {None},
         NEW delivered \in fabric \cup Strays \cup {None},
         NEW requested \in Recent(born) \cup Strays \cup {None},
         NEW ready \in {FALSE, reclaim_rsp # None},
         FabricEdge(d, alloc, delivered, requested, ready)
  PROVE  FabricInv'
<1> PICK in : in = Presented(d, alloc, delivered, requested, ready)
  OBVIOUS
<1> DEFINE A == AllocSet(in)
           R == RetireSet(in)
           C == ReclaimSet(in)
<1>1. TrackerEdge(in) /\ Pass(d) /\ \A s \in Slots \ live : born[s] < MAX_BORN
  BY DEF FabricEdge, Presented
<1>2. /\ in.ts = now' /\ in.timeout_enable /\ in.timeout_thresh = THRESH
      /\ in.reclaim_rsp_ready = ready
  BY <1>1 DEF Presented, Pass
<1>3. /\ \A s \in R : delivered = <<s, born[s]>>
      /\ \A s \in C : /\ requested = <<s, born[s]>> /\ delivered # <<s, born[s]>>
                      /\ in.reclaim = TagOf(<<s, born[s]>>)
  <2>1. BirthsOK /\ SlotsOK
    BY DEF FabricInv, TrackerInv, TrackerTypeOK, SlotsOK
  <2> QED BY <2>1, FreedBy
<1>4. /\ in \in TrackerInputType /\ TrackerInv'
      /\ live \ live' = R \cup C /\ live' \ live = A /\ live \subseteq Slots
      /\ gen' = [s \in Slots |-> IF s \in A THEN NextGen(s) ELSE gen[s]]
      /\ issue_ts' = [s \in Slots |-> IF s \in A THEN in.ts ELSE issue_ts[s]]
  <2>1. alloc \in Entry \cup {None} /\ ready \in BOOLEAN
    OBVIOUS
  <2>2. in \in TrackerInputType /\ TrackerInv' /\ live \subseteq Slots
    BY <1>1, <2>1, TrackerMoves
  <2>3. live \ live' = R \cup C
    BY <1>1, <2>1, TrackerMoves
  <2>4. live' \ live = A
    <3>1. live' = (live \ (R \cup C)) \cup A
      BY <1>1 DEF TrackerEdge, UpdateLive
    <3>2. A \subseteq Slots \ live /\ R \cup C \subseteq live
      BY AllocSetFacts, RetireSetFacts, ReclaimSetFacts
    <3> HIDE DEF A, R, C
    <3> QED BY <3>1, <3>2
  <2>5. gen' = [s \in Slots |-> IF s \in A THEN NextGen(s) ELSE gen[s]]
    BY <1>1, <2>1, TrackerMoves
  <2>6. issue_ts' = [s \in Slots |-> IF s \in A THEN in.ts ELSE issue_ts[s]]
    BY <1>1 DEF TrackerEdge, WriteEntry
  <2> HIDE DEF A, R, C
  <2> QED BY <2>2, <2>3, <2>4, <2>5, <2>6
<1>5. /\ born' = [s \in Slots |-> IF s \in A THEN born[s] + 1 ELSE born[s]]
      /\ fabric' \subseteq Recent(born')
      /\ misfreed' = misfreed \cup
           {<<s, born[s]>> : s \in {t \in R \cup C : <<t, born[t]>> \notin {delivered, requested}}}
      /\ unreported' = (unreported \ Reported(ready)) \cup
           {[tag |-> TagOf(<<s, born[s]>>), meta |-> entry[s].meta] :
              s \in {t \in R \cup C : <<t, born[t]>> # delivered}}
  <2> HIDE DEF A, R, C
  <2> QED BY <1>4 DEF FabricEdge
<1>6. /\ live' = (live \ (R \cup C)) \cup A
      /\ timed_out' = ((timed_out \ (R \cup C)) \cup NewTimeout(in, R \cup C)) \ A
      /\ UpdateReclaimRsp(in)
  BY <1>1 DEF TrackerEdge, UpdateLive
<1>7. A \in SUBSET (Slots \ live) /\ (R \cup C) \in SUBSET live
  BY AllocSetFacts, RetireSetFacts, ReclaimSetFacts
<1> HIDE DEF A, R, C
<1>8. BirthsOK'
  BY <1>1, <1>4, <1>5, <1>7, EdgeBirths
<1>9. AgesOK' /\ TimeoutExact'
  <2>1. PICK F : F = R \cup C
    OBVIOUS
  <2>2. /\ F \in SUBSET live /\ live' = (live \ F) \cup A
        /\ timed_out' = ((timed_out \ F) \cup NewTimeout(in, F)) \ A
    BY <1>6, <1>7, <2>1, Zenon
  <2> QED BY <1>1, <1>2, <1>4, <1>7, <2>2, EdgeAges
<1>10. NoAlias'
  <2>1. {t \in R \cup C : <<t, born[t]>> \notin {delivered, requested}} = {}
    BY <1>3
  <2> QED BY <1>5, <2>1 DEF FabricInv, NoAlias
<1>11. ReclaimReportedOnce'
  <2>1. {t \in R \cup C : <<t, born[t]>> # delivered} = C
    BY <1>3
  <2> DEFINE told == {[tag |-> in.reclaim, meta |-> entry[s].meta] : s \in C}
  <2>2. told = {[tag |-> TagOf(<<s, born[s]>>), meta |-> entry[s].meta] : s \in C}
    BY <1>3
  <2>3. unreported' = (unreported \ Reported(ready)) \cup told
    BY <1>5, <2>1, <2>2
  <2>4. told = {[tag |-> in.reclaim, meta |-> entry[s].meta] : s \in ReclaimSet(in)}
    BY DEF C
  <2> HIDE DEF told
  <2> QED BY <1>2, <1>4, <1>6, <2>3, <2>4, EdgeReports DEF FabricInv, TrackerInv
<1> QED BY <1>4, <1>8, <1>9, <1>10, <1>11 DEF FabricInv

LEMMA NextFabricInv == FabricInv /\ [FabricNext]_fabricVars => FabricInv'
<1> SUFFICES ASSUME FabricInv, [FabricNext]_fabricVars PROVE FabricInv'
  OBVIOUS
<1>1. ASSUME NEW d \in Steps, NEW alloc \in (Entry \ {ZeroEntry}) \cup {None},
             NEW delivered \in fabric \cup Strays \cup {None},
             NEW requested \in Recent(born) \cup Strays \cup {None},
             NEW ready \in {FALSE, reclaim_rsp # None},
             FabricEdge(d, alloc, delivered, requested, ready)
      PROVE  FabricInv'
  BY <1>1, EdgeFabricInv
<1>2. ASSUME UNCHANGED <<trackerVars, now, age, born, misfreed, unreported>>, fabric' \subseteq fabric
      PROVE  FabricInv'
  <2>1. TrackerInv'
    BY <1>2, TrackerStep DEF FabricInv
  <2>2. BirthsOK'
    BY <1>2 DEF FabricInv, BirthsOK, Recent, trackerVars, slotVars
  <2>3. AgesOK' /\ TimeoutExact' /\ NoAlias' /\ ReclaimReportedOnce'
    BY <1>2 DEF FabricInv, AgesOK, TimeoutExact, NoAlias, ReclaimReportedOnce, trackerVars, slotVars
  <2> QED BY <2>1, <2>2, <2>3 DEF FabricInv
<1>3. CASE Lose
  BY <1>2, <1>3 DEF Lose
<1>4. CASE UNCHANGED fabricVars
  BY <1>2, <1>4 DEF fabricVars
<1> QED BY <1>1, <1>3, <1>4 DEF FabricNext

\* The inductive invariant of the tracker in its surroundings.
THEOREM FabricCorrect == FabricSpec => []FabricInv
  BY InitFabricInv, NextFabricInv, PTL DEF FabricSpec

\* A message about an earlier occupant of a slot never frees the present one, as
\* long as it does not outlive as many reuses as there are generations.
THEOREM TagsNeverAlias == FabricSpec => []NoAlias
<1>1. FabricInv => NoAlias
  BY DEF FabricInv
<1> QED BY <1>1, FabricCorrect, PTL

\* Each reclaimed entry is reported once, with its tag and metadata.
THEOREM ReclaimsReported == FabricSpec => []ReclaimReportedOnce
<1>1. FabricInv => ReclaimReportedOnce
  BY DEF FabricInv
<1> QED BY <1>1, FabricCorrect, PTL

\* A live entry is quarantined at the threshold, neither earlier nor later,
\* however often the timestamp has wrapped.
THEOREM TimeoutsExact == FabricSpec => []TimeoutExact
<1>1. FabricInv => TimeoutExact
  BY DEF FabricInv
<1> QED BY <1>1, FabricCorrect, PTL
=============================================================================
