----------------------------- MODULE HdmProofs -----------------------------
(***************************************************************************)
(* Proofs about the address windows, for any number of windows, address    *)
(* widths and line size. First pure arithmetic: windows that pass the      *)
(* validator decode cleanly. Then an inductive invariant of the update     *)
(* sequence, which holds what the four safety properties need: a frozen    *)
(* update has been validated, no response waits meanwhile, and a commit    *)
(* finds nothing in flight.                                                *)
(***************************************************************************)
EXTENDS HdmTraffic, Numbers, FiniteSetTheorems, TLAPS

\* Between two line boundaries there is room for a line.
LEMMA NextLine ==
  ASSUME NEW L \in Nat \ {0}, NEW x \in Int, NEW y \in Int,
         x % L = 0, y % L = 0, x < y
  PROVE  x + L <= y
<1> DEFINE k == x \div L
           j == y \div L
<1>1. k \in Int /\ j \in Int /\ x = L * k /\ y = L * j
  BY SMT
<1> HIDE DEF k, j
<1>2. k + 1 <= j
  <2> SUFFICES ASSUME j <= k PROVE FALSE
    BY <1>1
  <2>1. \A a \in Int, b \in Int : a <= b => L * a <= L * b
    BY SMT
  <2> QED BY <2>1, <1>1
<1>3. L * (k + 1) <= L * j
  BY <1>1, <1>2, SMT
<1>4. L * (k + 1) = L * k + L
  BY <1>1, SMT
<1> QED BY <1>1, <1>3, <1>4

\* Sums and differences of line boundaries are line boundaries.
LEMMA LineSum ==
  ASSUME NEW L \in Nat \ {0}, NEW x \in Int, NEW y \in Int,
         x % L = 0, y % L = 0
  PROVE  (x + y) % L = 0 /\ (x - y) % L = 0
<1> DEFINE k == x \div L
           j == y \div L
<1>1. k \in Int /\ j \in Int /\ x = L * k /\ y = L * j
  BY SMT
<1> HIDE DEF k, j
<1>2. x + y = L * (k + j) /\ x - y = L * (k - j)
  BY <1>1, SMT
<1>3. \A a \in Int : (L * a) % L = 0
  BY SMT
<1> QED BY <1>1, <1>2, <1>3

\* The diagnostic index names the only match.
LEMMA SelectedIs ==
  ASSUME NEW m, NEW hpa, NEW i \in WinIds, match_onehot(m, hpa) = {i}
  PROVE  selected(m, hpa) = m.win[i] /\ ~miss(m, hpa)
<1>1. ~miss(m, hpa)
  BY DEF miss
<1>2. (CHOOSE k \in {i} : \A j \in {i} : k <= j) = i
  BY HdmSizeAssumption DEF WinIds
<1> QED BY <1>1, <1>2 DEF selected, win_id

\* Legal windows do not overlap, so an address lies in one at most.
LEMMA OneMatch ==
  ASSUME NEW m \in Mapping, mapping_ok(m), NEW hpa \in Hpas, ~miss(m, hpa)
  PROVE  \E i \in WinIds : match_onehot(m, hpa) = {i}
<1>1. PICK i \in WinIds : i \in match_onehot(m, hpa)
  BY DEF miss, match_onehot
<1>2. ASSUME NEW j \in match_onehot(m, hpa), j # i
      PROVE  FALSE
  <2>1. j \in WinIds /\ i \in Int /\ j \in Int
    BY HdmSizeAssumption DEF match_onehot, WinIds
  <2>2. m.win[i] \in Window /\ m.win[j] \in Window /\ hpa \in Int
    BY <2>1, HdmSizeAssumption DEF Mapping, Hpas
  <2>3. overlap(m.win[i], m.win[j]) /\ overlap(m.win[j], m.win[i])
    BY <2>2, <1>1, HdmSizeAssumption DEF overlap, match_onehot, limit, Window, Hpas
  <2>4. i < j \/ j < i
    BY <2>1, <1>2
  <2> QED BY <2>1, <2>3, <2>4 DEF mapping_ok
<1> QED BY <1>1, <1>2

\* The validator (hdm_config) is strong enough for the decoder and the
\* translator: windows it passes never make them fail closed, a line that
\* starts in a window is accepted, and all of it lies on the device.
LEMMA LegalDecodes ==
  ASSUME NEW m \in Mapping, mapping_ok(m)
  PROVE  DecodesCleanly(m)
<1> SUFFICES ASSUME NEW hpa \in Hpas
             PROVE  /\ ~overlap_reject(m, hpa) /\ ~underflow(m, hpa)
                    /\ aligned(hpa) /\ ~miss(m, hpa) => accept(m, hpa)
                    /\ accept(m, hpa) => /\ aligned(dpa_start(m, hpa))
                                         /\ dpa_start(m, hpa) >= 0
                                         /\ dpa_start(m, hpa) + LINE <= m.cap
  BY DEF DecodesCleanly
<1>1. CASE miss(m, hpa)
  <2>1. ~single_match(m, hpa)
    BY <1>1 DEF miss, single_match
  <2> QED BY <1>1, <2>1 DEF overlap_reject, underflow, accept, translated
<1>2. CASE ~miss(m, hpa)
  <2>1. PICK i \in WinIds : match_onehot(m, hpa) = {i}
    BY <1>2, OneMatch
  <2> DEFINE w == m.win[i]
  <2>2. selected(m, hpa) = w
    BY <2>1, SelectedIs
  <2>3. w \in Window /\ m.cap \in Int /\ hpa \in Int
    BY HdmSizeAssumption DEF Mapping, Hpas, Capacities
  <2>4. /\ w.en /\ w.base \in Int /\ w.size \in Int /\ w.dpa \in Int /\ w.dpa >= 0
        /\ LINE \in Nat \ {0}
        /\ w.base <= hpa /\ hpa < w.base + w.size
    BY <2>1, <2>3, HdmSizeAssumption DEF match_onehot, limit, Window, Hpas
  <2>5. /\ w.base % LINE = 0 /\ w.size % LINE = 0 /\ w.dpa % LINE = 0
        /\ w.dpa + w.size <= DPA_SPACE /\ w.dpa + w.size <= m.cap
    BY <2>4 DEF mapping_ok, window_ok, aligned
  <2>6. single_match(m, hpa)
    BY <2>1 DEF single_match
  <2>7. /\ offset(m, hpa) = hpa - w.base
        /\ dpa_start(m, hpa) = w.dpa + (hpa - w.base)
        /\ dpa_end(m, hpa) = w.dpa + (hpa - w.base) + LINE - 1
    BY <2>2 DEF offset, dpa_start, dpa_end
  <2> HIDE DEF w
  <2>8. translated(m, hpa) /\ ~underflow(m, hpa) /\ ~overlap_reject(m, hpa)
    BY <2>3, <2>4, <2>6, <2>7 DEF translated, underflow, overlap_reject
  <2>9. ASSUME aligned(hpa)
        PROVE  hpa + LINE <= w.base + w.size
    <3>1. (w.base + w.size) % LINE = 0
      BY <2>4, <2>5, LineSum
    <3> QED BY <2>3, <2>4, <2>9, <3>1, NextLine DEF aligned
  <2>10. ASSUME aligned(hpa)
         PROVE  accept(m, hpa)
    <3>1. ~line_oob(m, hpa)
      BY <2>2, <2>3, <2>4, <2>9, <2>10 DEF line_oob, limit
    <3>2. ~xlate_overflow(m, hpa) /\ ~dpa_oob(m, hpa)
      BY <2>3, <2>4, <2>5, <2>7, <2>9, <2>10, HdmSizeAssumption DEF xlate_overflow, dpa_oob
    <3> QED BY <2>8, <2>10, <3>1, <3>2 DEF accept
  <2>11. ASSUME accept(m, hpa)
         PROVE  /\ aligned(dpa_start(m, hpa))
                /\ dpa_start(m, hpa) >= 0
                /\ dpa_start(m, hpa) + LINE <= m.cap
    <3>1. aligned(hpa)
      BY <2>11 DEF accept
    <3>2. (hpa - w.base) % LINE = 0
      BY <2>3, <2>4, <2>5, <3>1, LineSum DEF aligned
    <3>3. (w.dpa + (hpa - w.base)) % LINE = 0
      BY <2>3, <2>4, <2>5, <3>2, LineSum
    <3> QED BY <2>3, <2>4, <2>5, <2>7, <2>9, <3>1, <3>3 DEF aligned
  <2> QED BY <1>2, <2>8, <2>10, <2>11
<1> QED BY <1>1, <1>2

-----------------------------------------------------------------------------
\* Between the snapshot and the commit the update is a legal one, it is the
\* one that was asked for, and no response waits.
Updating ==
  hdm_state # "ACTIVE" =>
    /\ mapping_ok(pend.map) /\ to_legal(pend.to)
    /\ hdm_rsp = None /\ asked = pend

\* The commit edge finds the datapath empty.
CommitsDrained == hdm_state = "COMMIT" => InFlight = {}

\* The inductive invariant.
HdmInv ==
  /\ HdmTypeOK
  /\ mapping_ok(act.map) /\ to_legal(act.to)
  /\ Updating /\ CommitsDrained
  /\ AdmittedStays /\ AnswerTellsTruth

\* The reset values are legal: all windows off, timeouts off.
LEMMA InitialParams ==
  NoParams \in HdmParams /\ NoMapping \in Mapping /\ mapping_ok(NoMapping) /\ to_legal(NoParams.to)
<1>1. NoWindow \in Window
  BY HdmSizeAssumption DEF NoWindow, Window, Hpas
<1>2. NoMapping \in Mapping
  BY <1>1, HdmSizeAssumption DEF NoMapping, Mapping, Capacities
<1>3. mapping_ok(NoMapping)
  BY DEF mapping_ok, NoMapping, NoWindow, window_ok, overlap
<1>4. NoParams.to \in Timeout /\ to_legal(NoParams.to)
  BY HdmAssumption DEF NoParams, Timeout, to_legal
<1> QED BY <1>2, <1>3, <1>4 DEF NoParams, HdmParams

\* The invariant holds out of reset.
LEMMA InitialInv ==
  ASSUME HdmInit, flight = [p \in InFlightPlaces |-> None], asked = None
  PROVE  HdmInv
<1>1. InFlight = {}
  BY DEF InFlight
<1>2. HdmTypeOK
  BY InitialParams, HdmAssumption DEF HdmInit, HdmTypeOK
<1>3. mapping_ok(act.map) /\ to_legal(act.to)
  BY InitialParams DEF HdmInit, NoParams
<1>4. Updating /\ CommitsDrained /\ AdmittedStays
  BY <1>1 DEF HdmInit, Updating, CommitsDrained, AdmittedStays
<1>5. AnswerTellsTruth
  BY HdmAssumption DEF HdmInit, AnswerTellsTruth
<1> QED BY <1>2, <1>3, <1>4, <1>5 DEF HdmInv

\* Every edge keeps the registers in their ranges.
LEMMA EdgeType ==
  ASSUME HdmTypeOK, NEW in \in HdmInputs, NEW n, NEW fire, HdmEdge(in, n, fire)
  PROVE  HdmTypeOK'
<1>1. in \in HdmInputType
  BY HdmAssumption
<1>2. shadow' \in Mapping
  BY <1>1 DEF HdmEdge, WriteShadow, HdmTypeOK, Mapping, HdmInputType
<1>3. rsp_kept(in) \in {"OK", "INVALID", None}
  BY DEF rsp_kept, HdmTypeOK
<1>4. next_epoch \in 0 .. EPOCH_MOD - 1
  BY HdmAssumption DEF next_epoch, HdmTypeOK
<1>5. hdm_req_accept(in) => in.req \in Timeout
  BY <1>1 DEF hdm_req_accept, HdmInputType
<1>6. HdmSnapshot(in) => pend' \in HdmParams
  BY <1>5 DEF HdmSnapshot, HdmParams, HdmTypeOK
<1>7. /\ pend' \in HdmParams /\ act' \in HdmParams
      /\ hdm_state' \in {"ACTIVE", "FREEZE", "COMMIT"}
      /\ hdm_rsp' \in {"OK", "INVALID", None}
      /\ cfg_epoch' \in 0 .. EPOCH_MOD - 1
  BY <1>3, <1>4, <1>6
  DEF HdmEdge, HdmReject, HdmSnapshot, HdmDrained, HdmCommit, HdmHold, committed, HdmTypeOK
<1> QED BY <1>2, <1>7 DEF HdmTypeOK

\* What is in flight after an edge was before it, or was admitted at it.
LEMMA EntersOrStays ==
  ASSUME NEW in \in HdmInputs, NEW done \in SUBSET InFlight, Edge(in, done, Open),
         NEW p \in InFlight'
  PROVE  \/ p \in InFlight /\ flight'[p] = flight[p]
         \/ /\ hdm_state = "ACTIVE"
            /\ \E hpa \in Hpas : accept(act.map, hpa) /\ flight'[p] = Admitted(hpa)
<1>1. p \in InFlightPlaces /\ flight'[p] # None
  BY DEF InFlight
<1>2. CASE DrainEdge(in, done)
  BY <1>1, <1>2 DEF DrainEdge, InFlight
<1>3. ASSUME NEW hpa \in Open, NEW q \in InFlightPlaces \ InFlight, AdmitEdge(in, done, hpa, q)
      PROVE  \/ p \in InFlight /\ flight'[p] = flight[p]
             \/ /\ hdm_state = "ACTIVE"
                /\ accept(act.map, hpa) /\ flight'[p] = Admitted(hpa)
  BY <1>1, <1>3 DEF AdmitEdge, InFlight, Open, CanAdmit, hdm_accept_enable
<1> QED BY <1>2, <1>3 DEF Edge, Open

\* Edges that leave the active windows alone keep what is in flight true.
LEMMA AdmittedKept ==
  ASSUME AdmittedStays, NEW in \in HdmInputs, NEW done \in SUBSET InFlight, Edge(in, done, Open),
         UNCHANGED <<act, cfg_epoch>>
  PROVE  AdmittedStays'
<1> SUFFICES ASSUME NEW p \in InFlight'
             PROVE  /\ flight'[p].epoch = cfg_epoch
                    /\ accept(act.map, flight'[p].hpa)
                    /\ dpa_start(act.map, flight'[p].hpa) = flight'[p].dpa
  BY DEF AdmittedStays
<1>1. CASE p \in InFlight /\ flight'[p] = flight[p]
  BY <1>1 DEF AdmittedStays
<1>2. ASSUME NEW hpa \in Hpas, accept(act.map, hpa), flight'[p] = Admitted(hpa)
      PROVE  /\ flight'[p].epoch = cfg_epoch
             /\ accept(act.map, flight'[p].hpa)
             /\ dpa_start(act.map, flight'[p].hpa) = flight'[p].dpa
  BY <1>2 DEF Admitted
<1> QED BY <1>1, <1>2, EntersOrStays

\* Every clock edge keeps the invariant.
LEMMA EdgeInv ==
  ASSUME HdmInv, NEW in \in HdmInputs, NEW done \in SUBSET InFlight, Edge(in, done, Open)
  PROVE  HdmInv'
<1>1. HdmEdge(in, outstanding_cnt, FALSE) \/ HdmEdge(in, outstanding_cnt, TRUE)
  BY DEF Edge, DrainEdge, AdmitEdge
<1>2. Ask(in)
  BY DEF Edge, DrainEdge, AdmitEdge
<1>3. HdmTypeOK'
  BY <1>1, EdgeType DEF HdmInv
<1>4. hdm_req_accept(in) => [map |-> shadow, to |-> in.req] \in HdmParams
  BY HdmAssumption DEF hdm_req_accept, HdmInputType, HdmInv, HdmTypeOK, HdmParams
<1>5. hdm_state # "ACTIVE" => InFlight' \subseteq InFlight
  BY EntersOrStays
<1>6. CASE HdmReject(in)
  <2>1. /\ hdm_state' = "ACTIVE" /\ hdm_rsp' = "INVALID"
        /\ asked' = [map |-> shadow, to |-> in.req]
        /\ ~req_ok(in.req) /\ act' = act
    BY <1>2, <1>6 DEF HdmReject, Ask, hdm_req_accept, hdm_req_ready
  <2>2. asked' # None
    BY <1>4, <1>6, <2>1, HdmAssumption DEF HdmReject
  <2>3. AnswerTellsTruth'
    BY <2>1, <2>2, HdmAssumption DEF AnswerTellsTruth, req_ok
  <2>4. AdmittedStays'
    BY <1>6, AdmittedKept DEF HdmInv, HdmReject
  <2> QED BY <1>3, <2>1, <2>3, <2>4 DEF HdmInv, Updating, CommitsDrained
<1>7. CASE HdmSnapshot(in)
  <2>1. /\ hdm_state' = "FREEZE" /\ hdm_rsp' = None /\ act' = act
        /\ pend' = [map |-> shadow, to |-> in.req] /\ asked' = pend'
        /\ mapping_ok(shadow) /\ to_legal(in.req)
    BY <1>2, <1>7
    DEF HdmSnapshot, Ask, hdm_req_accept, hdm_req_ready, rsp_kept, req_ok
  <2>2. asked' # None
    BY <1>4, <1>7, <2>1, HdmAssumption DEF HdmSnapshot
  <2>3. AnswerTellsTruth' /\ Updating' /\ CommitsDrained'
    BY <2>1, <2>2, HdmAssumption DEF AnswerTellsTruth, Updating, CommitsDrained
  <2>4. AdmittedStays'
    BY <1>7, AdmittedKept DEF HdmInv, HdmSnapshot
  <2> QED BY <1>3, <2>1, <2>3, <2>4 DEF HdmInv
<1>8. ASSUME NEW fire \in BOOLEAN, HdmDrained(in, outstanding_cnt, fire)
      PROVE  HdmInv'
  <2>1. /\ hdm_state = "FREEZE" /\ hdm_state' = "COMMIT" /\ hdm_rsp = None /\ hdm_rsp' = None
        /\ act' = act /\ pend' = pend /\ asked' = asked
        /\ Cardinality(InFlight) = 0
    BY <1>2, <1>8
    DEF HdmDrained, drained, outstanding_cnt, Ask, hdm_req_accept, hdm_req_ready, rsp_kept,
        HdmInv, Updating
  <2>2. InFlight = {}
    <3>1. IsFiniteSet(InFlight)
      BY TrafficAssumption, FS_Subset DEF InFlight
    <3> QED BY <2>1, <3>1, FS_EmptySet
  <2>3. AnswerTellsTruth' /\ Updating' /\ CommitsDrained'
    BY <1>5, <2>1, <2>2, HdmAssumption DEF AnswerTellsTruth, Updating, CommitsDrained, HdmInv
  <2>4. AdmittedStays'
    BY <1>8, AdmittedKept DEF HdmInv, HdmDrained
  <2> QED BY <1>3, <2>1, <2>3, <2>4 DEF HdmInv
<1>9. CASE HdmCommit
  <2>1. /\ hdm_state = "COMMIT" /\ hdm_state' = "ACTIVE" /\ hdm_rsp' = "OK"
        /\ act' = pend /\ asked' = asked /\ asked = pend
        /\ mapping_ok(pend.map) /\ to_legal(pend.to) /\ InFlight = {}
    BY <1>2, <1>9
    DEF HdmCommit, committed, Ask, hdm_req_accept, hdm_req_ready, HdmInv, Updating, CommitsDrained
  <2>2. AnswerTellsTruth' /\ Updating' /\ CommitsDrained'
    BY <2>1, HdmAssumption DEF AnswerTellsTruth, Updating, CommitsDrained, HdmInv
  <2>3. AdmittedStays'
    BY <1>5, <2>1 DEF AdmittedStays
  <2> QED BY <1>3, <2>1, <2>2, <2>3 DEF HdmInv
<1>10. ASSUME NEW fire \in BOOLEAN, HdmHold(in, outstanding_cnt, fire)
       PROVE  HdmInv'
  <2>1. /\ hdm_state' = hdm_state /\ act' = act /\ pend' = pend
        /\ hdm_rsp' = rsp_kept(in) /\ hdm_state # "COMMIT" /\ ~hdm_req_accept(in)
    BY <1>10 DEF HdmHold, hdm_req_accept, hdm_req_ready
  <2>2. /\ asked' = IF hdm_rsp # None /\ in.rsp_ready THEN None ELSE asked
        /\ hdm_rsp' = IF in.rsp_ready THEN None ELSE hdm_rsp
    BY <1>2, <2>1 DEF Ask, rsp_kept
  <2>3. AnswerTellsTruth' /\ Updating' /\ CommitsDrained'
    BY <2>1, <2>2, HdmAssumption DEF AnswerTellsTruth, Updating, CommitsDrained, HdmInv
  <2>4. AdmittedStays'
    BY <1>10, AdmittedKept DEF HdmInv, HdmHold
  <2> QED BY <1>3, <2>1, <2>3, <2>4 DEF HdmInv
<1> QED BY <1>1, <1>6, <1>7, <1>8, <1>9, <1>10 DEF HdmEdge

\* The invariant holds throughout, resets included.
THEOREM HdmInvariant == TrafficSpec => []HdmInv
<1>1. TrafficInit => HdmInv
  BY InitialInv DEF TrafficInit
<1>2. HdmInv /\ [TrafficNext]_trafficVars => HdmInv'
  <2> SUFFICES ASSUME HdmInv, [TrafficNext]_trafficVars
               PROVE  HdmInv'
    OBVIOUS
  <2>1. CASE TrafficReset
    <3>1. HdmInit' /\ flight' = [p \in InFlightPlaces |-> None] /\ asked' = None
      BY <2>1 DEF TrafficReset, HdmReset, HdmInit
    <3> QED BY <3>1, InitialParams, HdmAssumption
    DEF HdmInit, HdmInv, HdmTypeOK, Updating, CommitsDrained, AdmittedStays, AnswerTellsTruth, InFlight, NoParams
  <2>2. ASSUME NEW in \in HdmInputs, NEW done \in SUBSET InFlight, Edge(in, done, Open)
        PROVE  HdmInv'
    BY <2>2, EdgeInv
  <2>3. CASE UNCHANGED trafficVars
    BY <2>3
    DEF trafficVars, hdmVars, HdmInv, HdmTypeOK, Updating, CommitsDrained, AdmittedStays,
        AnswerTellsTruth, InFlight
  <2> QED BY <2>1, <2>2, <2>3 DEF TrafficNext, Clock
<1> QED BY <1>1, <1>2, PTL DEF TrafficSpec

\* The configuration block's registers hold values of their widths.
THEOREM HdmTypesHold == TrafficSpec => []HdmTypeOK
<1>1. HdmInv => HdmTypeOK
  BY DEF HdmInv
<1> QED BY <1>1, HdmInvariant, PTL

\* Whatever software writes and whenever it does, addresses are decoded
\* against windows that never make the decoder fail closed.
THEOREM ActiveAlwaysClean == TrafficSpec => []ActiveDecodesCleanly
<1>1. HdmInv => ActiveDecodesCleanly
  <2> SUFFICES ASSUME HdmInv PROVE ActiveDecodesCleanly
    OBVIOUS
  <2>1. act.map \in Mapping /\ mapping_ok(act.map) /\ to_legal(act.to)
    BY DEF HdmInv, HdmTypeOK, HdmParams
  <2> QED BY <2>1, LegalDecodes DEF ActiveDecodesCleanly
<1> QED BY <1>1, HdmInvariant, PTL

\* No update of the windows overtakes a transaction in flight.
THEOREM AdmittedAlwaysStays == TrafficSpec => []AdmittedStays
<1>1. HdmInv => AdmittedStays
  BY DEF HdmInv
<1> QED BY <1>1, HdmInvariant, PTL

\* The response to an update is the true outcome of that very update.
THEOREM AnswersAlwaysTrue == TrafficSpec => []AnswerTellsTruth
<1>1. HdmInv => AnswerTellsTruth
  BY DEF HdmInv
<1> QED BY <1>1, HdmInvariant, PTL

-----------------------------------------------------------------------------
(***************************************************************************)
(* The two implementations of the address windows agree on every mapping   *)
(* and every address: what gen_vectors.py samples. The rules of a window   *)
(* are the same one by one, so the windows that break one are the same,    *)
(* and so is the lowest; an address lies in the same windows, and with a   *)
(* single one both compute the same sums.                                  *)
(***************************************************************************)
\* One window is refused by both, for the same reason, or by neither.
LEMMA WindowReasons ==
  ASSUME NEW w \in Window, NEW cap \in Capacities
  PROVE  /\ win_reason(w, cap) = IF w.en THEN Ref!broken(w, cap) ELSE "OK"
         /\ window_ok(w, cap) <=> win_reason(w, cap) = "OK"
<1>1. win_reason(w, cap) = IF w.en THEN Ref!broken(w, cap) ELSE "OK"
  BY DEF win_reason, Ref!broken, aligned, limit
<1>2. window_ok(w, cap) <=> win_reason(w, cap) = "OK"
  BY HdmSizeAssumption DEF win_reason, window_ok, aligned, limit, Window, Hpas, Capacities
<1> QED BY <1>1, <1>2

\* A set of windows is refused by both, for the same reason, or by neither:
\* hdm_config.sv reports what validate() of hdm_model.py returns.
THEOREM ReasonsAlwaysAgree ==
  ASSUME NEW m \in Mapping
  PROVE  ReasonsAgree(m)
<1> DEFINE bad    == {i \in WinIds : win_reason(m.win[i], m.cap) # "OK"}
           refbad == {i \in Ref!Enabled(m) : Ref!broken(m.win[i], m.cap) # "OK"}
<1>1. /\ m.cap \in Capacities
      /\ \A i \in WinIds : m.win[i] \in Window
  BY DEF Mapping
<1>2. \A i \in WinIds :
        /\ win_reason(m.win[i], m.cap) =
             IF m.win[i].en THEN Ref!broken(m.win[i], m.cap) ELSE "OK"
        /\ window_ok(m.win[i], m.cap) <=> win_reason(m.win[i], m.cap) = "OK"
  BY <1>1, WindowReasons
<1>3. bad = refbad
  BY <1>2 DEF Ref!Enabled, WinIds
<1>4. Ref!overlapping(m) <=> \E i, j \in WinIds : i < j /\ overlap(m.win[i], m.win[j])
  BY DEF Ref!overlapping, Ref!Enabled, WinIds, overlap, limit
<1> DEFINE first == CHOOSE i \in bad : \A j \in bad : i <= j
<1>5. bad # {} => first \in bad
  <2>1. bad \subseteq Nat
    BY HdmSizeAssumption DEF WinIds
  <2> HIDE DEF bad
  <2> QED BY <2>1, LowestIn
<1>6. shadow_reason(m) = Ref!validate(m)
  <2>1. CASE bad = {}
    BY <2>1, <1>3, <1>4 DEF shadow_reason, Ref!validate
  <2>2. CASE bad # {}
    <3>1. first = CHOOSE i \in refbad : \A j \in refbad : i <= j
      BY <1>3, Zenon
    <3>2. win_reason(m.win[first], m.cap) = Ref!broken(m.win[first], m.cap)
      BY <2>2, <1>5, <1>2
    <3>3. shadow_reason(m) = win_reason(m.win[first], m.cap)
      BY <2>2 DEF shadow_reason
    <3>4. Ref!validate(m) = Ref!broken(m.win[first], m.cap)
      BY <2>2, <1>3, <3>1 DEF Ref!validate
    <3> QED BY <3>2, <3>3, <3>4
  <2> QED BY <2>1, <2>2
<1>7. mapping_ok(m) <=> shadow_reason(m) = "OK"
  <2>1. CASE bad = {}
    BY <2>1, <1>2 DEF mapping_ok, shadow_reason
  <2>2. CASE bad # {}
    <3>1. first \in WinIds /\ win_reason(m.win[first], m.cap) # "OK"
      BY <2>2, <1>5
    <3>2. shadow_reason(m) = win_reason(m.win[first], m.cap)
      BY <2>2 DEF shadow_reason
    <3> HIDE DEF first
    <3> QED BY <3>1, <3>2, <1>2 DEF mapping_ok
  <2> QED BY <2>1, <2>2
<1> QED BY <1>6, <1>7 DEF ReasonsAgree

\* An address, of a request or any other, is decoded by both alike: hit or not,
\* index, translation, and every verdict that the model has.
THEOREM DecodingsAlwaysAgree ==
  ASSUME NEW m \in Mapping
  PROVE  DecodingsAgree(m)
<1> SUFFICES ASSUME NEW hpa \in Hpas
             PROVE  DecoderPorts(m, hpa) = Ref!decode(m, hpa)
  BY DEF DecodingsAgree
<1> DEFINE hit == match_onehot(m, hpa)
<1>1. Ref!matches(m, hpa) = hit
  BY DEF Ref!matches, Ref!Enabled, match_onehot, limit, WinIds
<1>2. single_match(m, hpa) <=> \E i \in hit : hit = {i}
  BY DEF single_match, match_onehot
<1>3. win_id(m, hpa) = IF hit = {} THEN 0 ELSE CHOOSE i \in hit : \A j \in hit : i <= j
  BY DEF win_id, miss
<1>4. DecoderPorts(m, hpa).verdict =
        IF single_match(m, hpa) THEN Ref!verdict(m.win[CHOOSE i \in hit : TRUE], m.cap, hpa)
        ELSE Ref!NoVerdict
  <2>1. CASE ~single_match(m, hpa)
    BY <2>1 DEF DecoderPorts, line_oob, xlate_overflow, dpa_oob, translated, accept, Ref!NoVerdict
  <2>2. CASE single_match(m, hpa)
    <3>1. PICK i \in WinIds : hit = {i}
      BY <2>2 DEF single_match
    <3> DEFINE w == m.win[i]
    <3>2. selected(m, hpa) = w
      BY <3>1, SelectedIs
    <3>3. (CHOOSE k \in hit : TRUE) = i
      BY <3>1
    <3>4. /\ w \in Window /\ m.cap \in Capacities
          /\ w.base <= hpa
      BY <3>1 DEF Mapping, match_onehot
    <3>5. translated(m, hpa)
      BY <2>2, <3>2, <3>4 DEF translated, offset, Window, Hpas
    <3>6. dpa_start(m, hpa) = w.dpa + (hpa - w.base)
      BY <3>2 DEF dpa_start, offset
    <3>7. /\ line_oob(m, hpa) = (hpa + LINE - 1 >= w.base + w.size)
          /\ xlate_overflow(m, hpa) = (w.dpa + (hpa - w.base) + LINE - 1 >= DPA_SPACE)
          /\ dpa_oob(m, hpa) = (w.dpa + (hpa - w.base) + LINE - 1 >= m.cap)
      BY <2>2, <3>2, <3>5, <3>6 DEF line_oob, limit, xlate_overflow, dpa_oob, dpa_end
    <3>8. accept(m, hpa) =
            /\ hpa % LINE = 0 /\ ~(hpa + LINE - 1 >= w.base + w.size)
            /\ ~(w.dpa + (hpa - w.base) + LINE - 1 >= DPA_SPACE)
            /\ ~(w.dpa + (hpa - w.base) + LINE - 1 >= m.cap)
      BY <3>5, <3>7 DEF accept, aligned
    <3>9. DecoderPorts(m, hpa).verdict =
            [line_oob |-> line_oob(m, hpa), ovf |-> xlate_overflow(m, hpa), oob |-> dpa_oob(m, hpa),
             dpa |-> dpa_start(m, hpa) % DPA_SPACE, accept |-> accept(m, hpa)]
      BY <3>5 DEF DecoderPorts
    <3> HIDE DEF w
    <3>10. Ref!verdict(w, m.cap, hpa) =
            [line_oob |-> line_oob(m, hpa), ovf |-> xlate_overflow(m, hpa), oob |-> dpa_oob(m, hpa),
             dpa |-> dpa_start(m, hpa) % DPA_SPACE, accept |-> accept(m, hpa)]
      BY <3>6, <3>7, <3>8, Zenon DEF Ref!verdict
    <3> QED BY <2>2, <3>3, <3>9, <3>10 DEF w
  <2> QED BY <2>1, <2>2
<1>5. /\ miss(m, hpa) = (hit = {})
      /\ single_match(m, hpa) = \E i \in hit : hit = {i}
      /\ overlap_reject(m, hpa) = (hit # {} /\ ~ \E i \in hit : hit = {i})
  BY <1>2 DEF miss, single_match, overlap_reject
<1>6. DecoderPorts(m, hpa) =
        [miss |-> miss(m, hpa), overlap |-> overlap_reject(m, hpa), single |-> single_match(m, hpa),
         unaligned |-> hpa % LINE # 0, win_id |-> win_id(m, hpa),
         verdict |-> DecoderPorts(m, hpa).verdict]
  BY DEF DecoderPorts, aligned
<1> DEFINE Out(a, b, c, i, w) ==
             [miss |-> a, overlap |-> b, single |-> c,
              unaligned |-> hpa % LINE # 0, win_id |-> i, verdict |-> w]
           v == IF single_match(m, hpa) THEN Ref!verdict(m.win[CHOOSE i \in hit : TRUE], m.cap, hpa)
                ELSE Ref!NoVerdict
<1>7. Ref!decode(m, hpa) =
        Out(miss(m, hpa), overlap_reject(m, hpa), single_match(m, hpa), win_id(m, hpa), v)
  <2> DEFINE none(h) == h = {}
             only(h) == \E i \in h : h = {i}
             many(h) == h # {} /\ ~ \E i \in h : h = {i}
             low(h)  == IF h = {} THEN 0 ELSE CHOOSE i \in h : \A j \in h : i <= j
             verd(h) == IF \E i \in h : h = {i} THEN Ref!verdict(m.win[CHOOSE i \in h : TRUE], m.cap, hpa)
                        ELSE Ref!NoVerdict
             Decoded(h) == Out(none(h), many(h), only(h), low(h), verd(h))
  <2>1. Ref!decode(m, hpa) = Decoded(Ref!matches(m, hpa))
    BY Zenon DEF Ref!decode
  <2>2. Decoded(Ref!matches(m, hpa)) = Decoded(hit)
    <3> HIDE DEF Decoded, hit
    <3> QED BY <1>1
  <2>3. /\ none(hit) = miss(m, hpa) /\ many(hit) = overlap_reject(m, hpa)
        /\ only(hit) = single_match(m, hpa) /\ low(hit) = win_id(m, hpa)
    <3> HIDE DEF hit
    <3> QED BY <1>3, <1>5, Zenon
  <2>4. verd(hit) = v
    BY <1>2
  <2> HIDE DEF Out, none, only, many, low, verd, v
  <2> QED BY <2>1, <2>2, <2>3, <2>4, Zenon
<1> QED BY <1>4, <1>6, <1>7

\* So in every state of the block, whatever software has left in the shadow,
\* validator and decoder answer as the model does.
THEOREM HdmAlwaysMatchesModel == TrafficSpec => []HdmMatchesModel
<1>1. HdmTypeOK => HdmMatchesModel
  BY ReasonsAlwaysAgree, DecodingsAlwaysAgree DEF HdmTypeOK, HdmMatchesModel
<1> QED BY <1>1, HdmTypesHold, PTL
=============================================================================
