------------------------ MODULE CreditManagerProofs ------------------------
(***************************************************************************)
(* Proofs about CreditManager for any number of pools and any widths. The  *)
(* ledger is safe because legality is decided against the registers before *)
(* the edge and a commit, which alone changes the maxima, finds them all   *)
(* unused and blocks both ports: LedgerInv is inductive as it stands.      *)
(***************************************************************************)
EXTENDS CreditReplay, Numbers

LedgerInv == LedgerTypeOK /\ UsedWithinMax /\ HwmCoversUsed

LEMMA InitLedgerInv == CreditInit => LedgerInv
  BY CreditSizeAssumption
  DEF CreditInit, LedgerInv, LedgerTypeOK, UsedWithinMax, HwmCoversUsed

LEMMA ResetLedgerInv == CreditReset => LedgerInv'
  BY CreditSizeAssumption
  DEF CreditReset, LedgerInv, LedgerTypeOK, UsedWithinMax, HwmCoversUsed

\* What the input ports can carry, pool by pool.
LEMMA InputAmounts ==
  ASSUME NEW in \in CreditInputs, NEW p \in Pools
  PROVE  /\ in.consume # None => in.consume[p] \in Nat
         /\ in.return # None => in.return[p] \in Nat
         /\ in.committed_max # None => in.committed_max[p] \in Nat
  BY CreditSizeAssumption, CreditInputAssumption DEF CreditInputType

\* The use of a pool after an edge: within the maximum in force before it, and
\* zero at a commit.
LEMMA NextUsedBounds ==
  ASSUME LedgerInv, NEW in \in CreditInputs, NEW p \in Pools
  PROVE  /\ next_used(in, p) \in 0 .. cmax[p]
         /\ CommitFire(in) => next_used(in, p) = 0
         /\ ~ConsumeFire(in) /\ ~ReturnAccepted(in) => next_used(in, p) = used[p]
<1>1. /\ used[p] \in Nat /\ cmax[p] \in Nat /\ used[p] <= cmax[p]
  BY CreditSizeAssumption DEF LedgerInv, LedgerTypeOK, UsedWithinMax
<1>2. ConsumeFire(in) => in.consume[p] \in Nat /\ in.consume[p] <= cmax[p] - used[p]
  BY InputAmounts DEF ConsumeFire, ConsumeLegal, available
<1>3. ReturnAccepted(in) => in.return[p] \in Nat /\ in.return[p] <= used[p]
  BY InputAmounts DEF ReturnAccepted, ReturnLegal
<1>4. CommitFire(in) => ~ConsumeFire(in) /\ ~ReturnAccepted(in) /\ used[p] = 0
  BY DEF CommitFire, ConsumeFire, ReturnAccepted, all_unused
<1> QED BY <1>1, <1>2, <1>3, <1>4 DEF next_used

LEMMA EdgeLedgerInv ==
  ASSUME LedgerInv, NEW in \in CreditInputs, CreditEdge(in)
  PROVE  LedgerInv'
<1>1. ASSUME NEW p \in Pools
      PROVE  /\ used'[p] \in 0 .. COUNT_MAX
             /\ cmax'[p] \in 0 .. COUNT_MAX
             /\ hwm'[p] \in 0 .. COUNT_MAX
             /\ used'[p] <= cmax'[p] /\ used'[p] <= hwm'[p]
  <2>1. /\ used[p] \in Nat /\ cmax[p] \in 0 .. COUNT_MAX /\ hwm[p] \in 0 .. COUNT_MAX
        /\ used[p] <= hwm[p]
    BY CreditSizeAssumption, <1>1 DEF LedgerInv, LedgerTypeOK, HwmCoversUsed
  <2>2. used'[p] = next_used(in, p)
    BY <1>1 DEF CreditEdge, UpdateLedger
  <2>3. cmax'[p] = IF CommitFire(in) THEN in.committed_max[p] ELSE cmax[p]
    BY <1>1 DEF CreditEdge, UpdateLedger
  <2>4. CommitFire(in) => in.committed_max[p] \in 0 .. COUNT_MAX
    BY <1>1, InputAmounts, CreditSizeAssumption DEF CommitFire, Unrepresentable
  <2>5. /\ next_used(in, p) \in 0 .. cmax[p]
        /\ CommitFire(in) => next_used(in, p) = 0
        /\ ~ConsumeFire(in) /\ ~ReturnAccepted(in) => next_used(in, p) = used[p]
    BY <1>1, NextUsedBounds
  <2>6. hwm'[p] \in {next_used(in, p), hwm[p]} /\ next_used(in, p) <= hwm'[p]
    <3>1. hwm'[p] = IF \/ in.diagnostic_clear
                       \/ (ConsumeFire(in) \/ ReturnAccepted(in)) /\ next_used(in, p) > hwm[p]
                    THEN next_used(in, p) ELSE hwm[p]
      BY <1>1 DEF CreditEdge, UpdateLedger
    <3> QED BY <3>1, <2>1, <2>5
  <2> QED BY <2>1, <2>2, <2>3, <2>4, <2>5, <2>6, CreditSizeAssumption
<1>2. /\ used' = [p \in Pools |-> used'[p]]
      /\ cmax' = [p \in Pools |-> cmax'[p]]
      /\ hwm' = [p \in Pools |-> hwm'[p]]
  BY DEF CreditEdge, UpdateLedger
<1> QED BY <1>1, <1>2 DEF LedgerInv, LedgerTypeOK, UsedWithinMax, HwmCoversUsed

LEMMA NextLedgerInv == LedgerInv /\ [CreditNext]_creditVars => LedgerInv'
<1> SUFFICES ASSUME LedgerInv, [CreditNext]_creditVars PROVE LedgerInv'
  OBVIOUS
<1>1. CASE CreditReset
  BY <1>1, ResetLedgerInv
<1>2. ASSUME NEW in \in CreditInputs, CreditEdge(in) PROVE LedgerInv'
  BY <1>2, EdgeLedgerInv
<1>3. CASE UNCHANGED creditVars
  BY <1>3 DEF creditVars, LedgerInv, LedgerTypeOK, UsedWithinMax, HwmCoversUsed
<1> QED BY <1>1, <1>2, <1>3 DEF CreditNext

\* The three ledger registers stay in range, so that nothing is cut off where the
\* code stores COUNT_W bits of a wider sum.
THEOREM LedgerCorrect == CreditSpec => []LedgerInv
  BY InitLedgerInv, NextLedgerInv, PTL DEF CreditSpec

\* No pool is over-committed, in any number of pools and for any amounts.
THEOREM LedgerWithinMax == CreditSpec => []UsedWithinMax
<1>1. LedgerInv => UsedWithinMax
  BY DEF LedgerInv
<1> QED BY <1>1, LedgerCorrect, PTL

\* The high watermark is never below the use.
THEOREM LedgerWatermark == CreditSpec => []HwmCoversUsed
<1>1. LedgerInv => HwmCoversUsed
  BY DEF LedgerInv
<1> QED BY <1>1, LedgerCorrect, PTL

\* An edge that changes a maximum leaves every pool unused.
THEOREM LedgerMaxMoves == CreditSpec => MaxMovesOnlyUnused
<1>1. ASSUME LedgerInv, [CreditNext]_creditVars
      PROVE  [cmax' # cmax => \A p \in Pools : used'[p] = 0]_creditVars
  <2>1. CASE CreditReset
    BY <2>1 DEF CreditReset
  <2>2. ASSUME NEW in \in CreditInputs, CreditEdge(in)
        PROVE  cmax' # cmax => \A p \in Pools : used'[p] = 0
    <3>1. CASE CommitFire(in)
      <4>1. \A p \in Pools : used'[p] = next_used(in, p)
        BY <2>2 DEF CreditEdge, UpdateLedger
      <4> QED BY <4>1, <3>1, <1>1, <2>2, NextUsedBounds
    <3>2. CASE ~CommitFire(in)
      <4>1. cmax' = [p \in Pools |-> cmax[p]]
        BY <3>2, <2>2 DEF CreditEdge, UpdateLedger
      <4> QED BY <4>1, <1>1 DEF LedgerInv, LedgerTypeOK
    <3> QED BY <3>1, <3>2
  <2>3. CASE UNCHANGED creditVars
    BY <2>3
  <2> QED BY <1>1, <2>1, <2>2, <2>3 DEF CreditNext
<1> QED BY <1>1, LedgerCorrect, PTL DEF CreditSpec, MaxMovesOnlyUnused

-----------------------------------------------------------------------------
(* The ledger and its model. Both are safe, by the above, so that the      *)
(* sums of the two agree; the model's program decides each edge from the   *)
(* same comparisons and assigns the same values.                           *)

\* A register of the sticky error that is not set is clear; the counters are in
\* their range, so that both ways to saturate them are one.
ErrorInv ==
  /\ first_err.type = "NONE" => first_err = NoError
  /\ diag \in [DiagCounters -> 0 .. DIAG_MAX]

ReplayInv == LedgerInv /\ ErrorInv /\ CreditMatchesModel

\* What the edge decides, in the model and in the hardware.
LEMMA DecisionsAgree ==
  ASSUME LedgerInv, NEW in \in CreditInputs
  PROVE  LET d == Ref!decode(ModelOfRegisters, in) IN
         /\ d.cfg_fire = CommitFire(in) /\ d.cfg_refuse = CommitReject(in)
         /\ d.cfire = ConsumeFire(in) /\ d.blocked = ConsumeBlocked(in)
         /\ d.racc = ReturnAccepted(in) /\ d.illegal_ret = IllegalReturn(in)
         /\ d.cfg_reason = IF CommitReject(in) THEN RejectReason(in) ELSE "NONE"
<1> DEFINE M == ModelOfRegisters
           d == Ref!decode(M, in)
<1>1. /\ M.used = used /\ M.cmax = cmax /\ Ref!Range0 = Pools
  BY DEF ModelOfRegisters, Ref!Range0, Pools
<1>2. in.consume # None => (Ref!consume_legal(M, in.consume) <=> ConsumeLegal(in.consume))
  BY <1>1 DEF Ref!consume_legal, Ref!avail, ConsumeLegal, available
<1>3. in.return # None => (Ref!return_legal(M, in.return) <=> ReturnLegal(in.return))
  BY <1>1 DEF Ref!return_legal, ReturnLegal
<1>4. Ref!unused(M) <=> all_unused
  BY <1>1 DEF Ref!unused, all_unused
<1>5. in.committed_max # None =>
        (Ref!representable(in.committed_max) <=> Unrepresentable(in.committed_max) = {})
  BY <1>1, InputAmounts, CreditSizeAssumption DEF Ref!representable, Unrepresentable
<1> HIDE DEF M
<1>6. d.cfg_fire = CommitFire(in)
  BY <1>4, <1>5 DEF Ref!decode, CommitFire
<1>7. d.cfg_refuse = CommitReject(in)
  BY <1>4, <1>5 DEF Ref!decode, CommitFire, CommitReject
<1>8. d.cfire = ConsumeFire(in) /\ d.blocked = ConsumeBlocked(in)
  BY <1>2, <1>4, <1>5 DEF Ref!decode, CommitFire, ConsumeFire, ConsumeBlocked
<1>9. d.racc = ReturnAccepted(in) /\ d.illegal_ret = IllegalReturn(in)
  BY <1>3, <1>4, <1>5 DEF Ref!decode, CommitFire, ReturnAccepted, IllegalReturn
<1>10. d.cfg_reason = IF CommitReject(in) THEN RejectReason(in) ELSE "NONE"
  BY <1>4, <1>5 DEF Ref!decode, CommitFire, CommitReject, RejectReason
<1> QED BY <1>6, <1>7, <1>8, <1>9, <1>10 DEF M

LEMMA InitReplayInv == ReplayInit => ReplayInv
<1> SUFFICES ASSUME ReplayInit PROVE ReplayInv
  OBVIOUS
<1>1. LedgerInv
  BY InitLedgerInv DEF ReplayInit
<1>2. ErrorInv
  BY CreditSizeAssumption DEF ReplayInit, CreditInit, ErrorInv
<1>3. CreditMatchesModel
  BY DEF ReplayInit, CreditInit, CreditMatchesModel, ModelOfRegisters, Ref!New, Ref!Range0, Pools,
         NoError, Ref!NoError, Ref!NoEvents, DiagCounters
<1> QED BY <1>1, <1>2, <1>3 DEF ReplayInv

\* The same for a new file of vectors.
LEMMA ResetReplayInv == ReplayReset => ReplayInv'
<1> SUFFICES ASSUME ReplayReset PROVE ReplayInv'
  OBVIOUS
<1>1. LedgerInv'
  BY ResetLedgerInv DEF ReplayReset
<1>2. ErrorInv'
  BY CreditSizeAssumption DEF ReplayReset, CreditReset, ErrorInv
<1>3. CreditMatchesModel'
  BY DEF ReplayReset, CreditReset, CreditMatchesModel, ModelOfRegisters, Ref!New, Ref!Range0, Pools,
         NoError, Ref!NoError, Ref!NoEvents, DiagCounters
<1> QED BY <1>1, <1>2, <1>3 DEF ReplayInv

\* The sticky error: both look for the lowest offending pool, and the amount
\* that the hardware cuts to AMT_W bits has no more.
LEMMA ErrorsAgree ==
  ASSUME LedgerInv, NEW in \in CreditInputs, emits(in),
         NEW d, d = Ref!decode(ModelOfRegisters, in),
         IllegalReturn(in) \/ CommitReject(in)
  PROVE  ErrorNow(in) = IF d.illegal_ret THEN Ref!underflow(ModelOfRegisters, in)
                        ELSE Ref!refusal(in, d.cfg_reason)
<1> DEFINE M == ModelOfRegisters
<1>1. M.used = used /\ Ref!Range0 = Pools
  BY DEF ModelOfRegisters, Ref!Range0, Pools
<1>2. d.illegal_ret = IllegalReturn(in) /\ d.cfg_reason = IF CommitReject(in) THEN RejectReason(in) ELSE "NONE"
  BY DecisionsAgree
<1> HIDE DEF M
<1>3. CASE IllegalReturn(in)
  <2> DEFINE over == {q \in Pools : in.return[q] > used[q]}
             p    == Lowest(over)
  <2>1. over # {}
    BY <1>3, InputAmounts DEF IllegalReturn, ReturnLegal, LedgerInv, LedgerTypeOK
  <2>2. p \in over
    <3>1. over \subseteq Nat
      BY CreditSizeAssumption DEF Pools
    <3> HIDE DEF over
    <3> QED BY <3>1, <2>1, LowestIn DEF Lowest
  <2>3. in.return[p] % (AMT_MAX + 1) = in.return[p]
    <3>1. in.return[p] \in 0 .. AMT_MAX
      <4>1. p \in Pools
        BY <2>2
      <4> HIDE DEF p
      <4> QED BY <4>1, <1>3, InputAmounts, CreditSizeAssumption DEF emits, IllegalReturn
    <3> HIDE DEF p
    <3> QED BY <3>1, CreditSizeAssumption
  <2>4. ErrorNow(in) = [type |-> "RETURN_UNDERFLOW", pool |-> p, amount |-> in.return[p]]
    BY <1>3, <2>3 DEF ErrorNow
  <2>5. Ref!underflow(M, in) = [type |-> "RETURN_UNDERFLOW", pool |-> p, amount |-> in.return[p]]
    BY <1>1 DEF Ref!underflow, Ref!first, Lowest
  <2> QED BY <1>2, <1>3, <2>4, <2>5 DEF M
<1>4. CASE ~IllegalReturn(in)
  <2>1. CommitReject(in)
    BY <1>4
  <2>2. Unrepresentable(in.committed_max) = {} <=> Ref!representable(in.committed_max)
    BY <1>1, <2>1, InputAmounts, CreditSizeAssumption
    DEF CommitReject, Ref!representable, Unrepresentable
  <2>3. ErrorNow(in) = Ref!refusal(in, RejectReason(in))
    <3> DEFINE B == Unrepresentable(in.committed_max)
    <3>1. B = {q \in Ref!Range0 : in.committed_max[q] > COUNT_MAX}
      BY <1>1 DEF Unrepresentable
    <3>2. Ref!first(B) = Lowest(B)
      BY DEF Ref!first, Lowest
    <3>3. ErrorNow(in) = [type |-> RejectReason(in), pool |-> IF B = {} THEN 0 ELSE Lowest(B), amount |-> 0]
      BY <1>4, <2>1 DEF ErrorNow
    <3>4. Ref!refusal(in, RejectReason(in))
            = [type |-> RejectReason(in), amount |-> 0,
               pool |-> IF Ref!representable(in.committed_max) THEN 0
                        ELSE Ref!first({q \in Ref!Range0 : in.committed_max[q] > COUNT_MAX})]
      BY DEF Ref!refusal
    <3>5. (IF B = {} THEN 0 ELSE Lowest(B))
            = IF Ref!representable(in.committed_max) THEN 0
              ELSE Ref!first({q \in Ref!Range0 : in.committed_max[q] > COUNT_MAX})
      <4> HIDE DEF B
      <4> QED BY <2>2, <3>1, <3>2 DEF B
    <3> HIDE DEF B
    <3> QED BY <3>3, <3>4, <3>5
  <2> QED BY <1>2, <1>4, <2>1, <2>3 DEF M
<1> QED BY <1>3, <1>4

LEMMA EdgeMatches ==
  ASSUME ReplayInv, NEW in \in CreditInputs, ReplayEdge(in)
  PROVE  ErrorInv' /\ CreditMatchesModel'
<1> DEFINE M == ModelOfRegisters
           d == Ref!decode(M, in)
           u == Ref!new_used(M, in, d)
<1>1. /\ M.used = used /\ M.cmax = cmax /\ M.hwm = hwm /\ M.err = first_err /\ M.c = diag
      /\ Ref!Range0 = Pools
  BY DEF ModelOfRegisters, Ref!Range0, Pools
<1>2. /\ LedgerInv /\ ErrorInv /\ ref = M
      /\ emits(in) /\ CreditEdge(in) /\ ref' = Ref!step(M, in)
      /\ UpdateLedger(in) /\ CountEvents(in, DiagEvents(in))
  BY DEF ReplayInv, ReplayEdge, CreditEdge, CreditMatchesModel
<1>3. /\ d.cfg_fire = CommitFire(in) /\ d.cfg_refuse = CommitReject(in)
      /\ d.cfire = ConsumeFire(in) /\ d.blocked = ConsumeBlocked(in)
      /\ d.racc = ReturnAccepted(in) /\ d.illegal_ret = IllegalReturn(in)
      /\ d.cfg_reason = IF CommitReject(in) THEN RejectReason(in) ELSE "NONE"
  BY <1>2, DecisionsAgree
<1>e. IllegalReturn(in) \/ CommitReject(in) =>
        ErrorNow(in) = IF d.illegal_ret THEN Ref!underflow(M, in) ELSE Ref!refusal(in, d.cfg_reason)
  BY <1>2, ErrorsAgree
<1> HIDE DEF M, d
<1>4. u = [p \in Pools |-> next_used(in, p)] /\ used' = u
  BY <1>1, <1>2, <1>3 DEF Ref!new_used, next_used, UpdateLedger
<1>5. cmax' = IF d.cfg_fire THEN in.committed_max ELSE M.cmax
  <2>1. CommitFire(in) => in.committed_max = [p \in Pools |-> in.committed_max[p]]
    BY CreditInputAssumption DEF CommitFire, CreditInputType
  <2>2. cmax = [p \in Pools |-> cmax[p]]
    BY <1>2 DEF LedgerInv, LedgerTypeOK
  <2> QED BY <2>1, <2>2, <1>1, <1>2, <1>3 DEF UpdateLedger
<1>6. hwm' = IF in.diagnostic_clear THEN u ELSE Ref!peak(M.hwm, u, d)
  BY <1>1, <1>2, <1>3, <1>4 DEF UpdateLedger, Ref!peak
<1>7. diag' = IF in.diagnostic_clear THEN Ref!NoEvents ELSE Ref!events(M.c, d)
  <2>1. \A n \in 0 .. DIAG_MAX : Ref!sat1(n) = Saturated(n)
    BY CreditSizeAssumption DEF Ref!sat1, Saturated
  <2>2. \A e \in DiagCounters : diag[e] \in 0 .. DIAG_MAX
    BY <1>2 DEF ErrorInv
  <2>3. CASE in.diagnostic_clear
    BY <2>3, <1>2 DEF CountEvents, Ref!NoEvents, DiagCounters
  <2>4. CASE ~in.diagnostic_clear
    BY <2>4, <2>1, <2>2, <1>1, <1>2, <1>3
    DEF CountEvents, Ref!events, Ref!count_if, DiagCounters, DiagEvents
  <2> QED BY <2>3, <2>4
<1>8. first_err' = IF in.diagnostic_clear THEN NoError ELSE Ref!snapshot(M, in, d)
  BY <1>1, <1>2, <1>3, <1>e DEF CountEvents, Ref!snapshot, ErrorNow, ErrorInv
<1>9. ErrorInv'
  <2>1. first_err'.type = "NONE" => first_err' = NoError
    BY <1>2 DEF CountEvents, ErrorInv, ErrorNow, NoError, RejectReason
  <2>2. diag' \in [DiagCounters -> 0 .. DIAG_MAX]
    BY <1>2, CreditSizeAssumption DEF CountEvents, ErrorInv, Saturated
  <2> QED BY <2>1, <2>2 DEF ErrorInv
<1>10. ref' = ModelOfRegisters'
  <2>1. ModelOfRegisters' = [used |-> used', cmax |-> cmax', hwm |-> hwm', err |-> first_err', c |-> diag']
    BY DEF ModelOfRegisters
  <2>2. Ref!NoError = NoError
    BY DEF Ref!NoError, NoError
  <2>3. CASE in.diagnostic_clear
    BY <2>1, <2>2, <2>3, <1>1, <1>2, <1>4, <1>5, <1>6, <1>7, <1>8 DEF Ref!step, d
  <2>4. CASE ~in.diagnostic_clear
    BY <2>1, <2>4, <1>1, <1>2, <1>4, <1>5, <1>6, <1>7, <1>8 DEF Ref!step, d
  <2> QED BY <2>3, <2>4
<1> QED BY <1>9, <1>10 DEF CreditMatchesModel

LEMMA NextReplayInv == ReplayInv /\ [ReplayNext]_replayVars => ReplayInv'
<1> SUFFICES ASSUME ReplayInv, [ReplayNext]_replayVars PROVE ReplayInv'
  OBVIOUS
<1>1. CASE ReplayReset
  BY <1>1, ResetReplayInv
<1>2. ASSUME NEW in \in CreditInputs, ReplayEdge(in) PROVE ReplayInv'
  <2>1. LedgerInv'
    BY <1>2, EdgeLedgerInv DEF ReplayInv, ReplayEdge
  <2> QED BY <2>1, <1>2, EdgeMatches DEF ReplayInv
<1>3. CASE UNCHANGED replayVars
  <2>1. LedgerInv'
    BY <1>3, NextLedgerInv DEF ReplayInv, replayVars
  <2> QED BY <2>1, <1>3
  DEF replayVars, creditVars, ReplayInv, ErrorInv, CreditMatchesModel, ModelOfRegisters
<1> QED BY <1>1, <1>2, <1>3 DEF ReplayNext

\* The hardware's ledger and the Python one agree after any sequence of beats, of
\* any length, for any number of pools and any widths, provided the amounts
\* returned fit the port they are reported on.
THEOREM LedgerAlwaysMatchesModel == ReplaySpec => []CreditMatchesModel
<1>1. ReplayInv => CreditMatchesModel
  BY DEF ReplayInv
<1> QED BY <1>1, InitReplayInv, NextReplayInv, PTL DEF ReplaySpec

\* So do their ports, in every cycle: what tb_credit_manager.sv compares.
THEOREM LedgerPortsAgree ==
  ASSUME LedgerInv, CreditMatchesModel, NEW in \in CreditInputs
  PROVE  CreditPorts(in) = Ref!outputs(ref, in)
<1> DEFINE M == ModelOfRegisters
           d == Ref!decode(M, in)
<1>1. /\ M.used = used /\ M.cmax = cmax /\ M.hwm = hwm /\ M.err = first_err /\ M.c = diag
      /\ ref = M /\ Ref!Range0 = Pools
  BY DEF ModelOfRegisters, Ref!Range0, Pools, CreditMatchesModel
<1>2. /\ d.cfg_fire = CommitFire(in) /\ d.cfg_refuse = CommitReject(in)
      /\ d.cfire = ConsumeFire(in) /\ d.racc = ReturnAccepted(in)
      /\ d.cfg_reason = IF CommitReject(in) THEN RejectReason(in) ELSE "NONE"
  BY DecisionsAgree
<1> HIDE DEF M
<1>3. (in.consume = None \/ ConsumeLegal(in.consume)) = (in.consume = None \/ Ref!consume_legal(M, in.consume))
  BY <1>1 DEF Ref!consume_legal, Ref!avail, ConsumeLegal, available
<1>4. [p \in Pools |-> available(p)] = [p \in Pools |-> Ref!avail(M, p)]
  BY <1>1 DEF Ref!avail, available
<1>5. Ref!decode(M, in) = d
  OBVIOUS
<1> HIDE DEF d
<1> QED BY <1>1, <1>2, <1>3, <1>4, <1>5 DEF CreditPorts, Ref!outputs
=============================================================================
