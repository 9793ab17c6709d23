------------------------- MODULE ControlPlaneProofs -------------------------
(***************************************************************************)
(* Proofs about AdmissionTop and about ControlPlane, which is the same     *)
(* datapath driven by the controller, for any number of slots and pools,   *)
(* any widths, configurations and inputs. The datapath alone obeys whoever *)
(* drives its commit port, so its theorems assume CommitsFrozen; the       *)
(* controller is shown to keep that contract.                              *)
(***************************************************************************)
EXTENDS ControlPlaneReplay, AdmissionReplay, OutstandingTrackerProofs

-----------------------------------------------------------------------------
(***************************************************************************)
(* The datapath. Conservation of credits joins two counts: what the ledger *)
(* adds and subtracts at an edge, and the credits stored in the entries    *)
(* that appear and disappear there. It is what makes every return legal,   *)
(* and it needs every return to be legal: the two are one induction.       *)
(***************************************************************************)

\* The credits of pool p stored for the slots of L in the entries E.
Held(L, E, p) == {u \in L \X (1 .. AMT_MAX) : u[2] <= E[u[1]].credit[p]}

LEMMA HeldFinite ==
  ASSUME NEW L, IsFiniteSet(L), NEW E, NEW p
  PROVE  IsFiniteSet(Held(L, E, p)) /\ Cardinality(Held(L, E, p)) \in Nat
<1>1. IsFiniteSet(L \X (1 .. AMT_MAX))
  <2>1. 1 \in Int /\ AMT_MAX \in Int
    BY CreditSizeAssumption
  <2>2. IsFiniteSet(1 .. AMT_MAX)
    BY <2>1, FS_Interval
  <2> QED BY <2>2, FS_Product
<1>2. Held(L, E, p) \subseteq L \X (1 .. AMT_MAX)
  BY DEF Held
<1>3. IsFiniteSet(Held(L, E, p))
  BY <1>1, <1>2, FS_Subset
<1> QED BY <1>3, FS_CardinalityType

\* One slot holds as many credits as its entry says.
LEMMA HeldByOne ==
  ASSUME NEW s, NEW E, NEW p, NEW n \in 0 .. AMT_MAX, E[s].credit[p] = n
  PROVE  Cardinality(Held({s}, E, p)) = n
<1>1. Held({s}, E, p) = {s} \X (1 .. n)
  BY CreditSizeAssumption DEF Held
<1>2. IsFiniteSet({s}) /\ Cardinality({s}) = 1
  BY FS_Singleton
<1>3. IsFiniteSet(1 .. n) /\ Cardinality(1 .. n) = n
  <2>1. 1 \in Int /\ n \in Int /\ n >= 0
    BY CreditSizeAssumption
  <2>2. IsFiniteSet(1 .. n) /\ Cardinality(1 .. n) = IF 1 > n THEN 0 ELSE n - 1 + 1
    BY <2>1, FS_Interval
  <2> QED BY <2>1, <2>2
<1>4. Cardinality({s} \X (1 .. n)) = 1 * n
  BY <1>2, <1>3, FS_Product
<1>5. 1 * n = n
  BY CreditSizeAssumption
<1> QED BY <1>1, <1>4, <1>5

LEMMA HeldByNone ==
  ASSUME NEW E, NEW p
  PROVE  Cardinality(Held({}, E, p)) = 0
<1>1. Held({}, E, p) = {}
  BY DEF Held
<1> QED BY <1>1, FS_EmptySet

\* Slots apart hold their credits apart.
LEMMA HeldByBoth ==
  ASSUME NEW K, IsFiniteSet(K), NEW S, IsFiniteSet(S), K \cap S = {}, NEW E, NEW p
  PROVE  Cardinality(Held(K \cup S, E, p)) = Cardinality(Held(K, E, p)) + Cardinality(Held(S, E, p))
<1>1. Held(K \cup S, E, p) = Held(K, E, p) \cup Held(S, E, p)
  BY DEF Held
<1>2. Held(K, E, p) \cap Held(S, E, p) = {}
  BY DEF Held
<1>3. /\ IsFiniteSet(Held(K, E, p)) /\ Cardinality(Held(K, E, p)) \in Nat
      /\ IsFiniteSet(Held(S, E, p)) /\ Cardinality(Held(S, E, p)) \in Nat
  BY HeldFinite
<1>4. Cardinality(Held(K, E, p) \cup Held(S, E, p))
        = Cardinality(Held(K, E, p)) + Cardinality(Held(S, E, p))
            - Cardinality(Held(K, E, p) \cap Held(S, E, p))
  BY <1>3, FS_Union
<1>5. Cardinality(Held(K, E, p) \cap Held(S, E, p)) = 0
  BY <1>2, FS_EmptySet
<1>6. Cardinality(Held(K, E, p) \cup Held(S, E, p))
        = Cardinality(Held(K, E, p)) + Cardinality(Held(S, E, p))
  BY <1>3, <1>4, <1>5
<1> QED BY <1>1, <1>6

\* How the held credits move at an edge that grants A and frees R and C.
LEMMA HeldAfterEdge ==
  ASSUME NEW L, IsFiniteSet(L), NEW A, NEW R, NEW C, IsFiniteSet(A),
         A \cap L = {}, R \subseteq L, C \subseteq L, C \cap R = {},
         NEW E, NEW F, \A s \in L : F[s] = E[s], NEW p
  PROVE  Cardinality(Held((L \ (R \cup C)) \cup A, F, p))
           = Cardinality(Held(L, E, p)) + Cardinality(Held(A, F, p))
               - Cardinality(Held(R, E, p)) - Cardinality(Held(C, E, p))
<1> DEFINE K == L \ (R \cup C)
           h(S, X) == Cardinality(Held(S, X, p))
<1>1. /\ IsFiniteSet(K) /\ IsFiniteSet(R) /\ IsFiniteSet(C)
      /\ K \cap A = {} /\ K \cap (R \cup C) = {} /\ R \cap C = {}
      /\ L = K \cup (R \cup C)
  BY FS_Subset
<1>2. IsFiniteSet(R \cup C)
  BY <1>1, FS_Union
<1>3. Held(K, F, p) = Held(K, E, p)
  BY DEF Held
<1> HIDE DEF K
<1>4. h(K \cup A, F) = h(K, F) + h(A, F)
  BY <1>1, HeldByBoth
<1>5. h(K \cup (R \cup C), E) = h(K, E) + h(R \cup C, E)
  BY <1>1, <1>2, HeldByBoth
<1>6. h(R \cup C, E) = h(R, E) + h(C, E)
  BY <1>1, HeldByBoth
<1>7. h(L, E) = h(K, E) + h(R \cup C, E)
  BY <1>1, <1>5
<1>8. /\ h(K, E) \in Nat /\ h(A, F) \in Nat /\ h(R, E) \in Nat /\ h(C, E) \in Nat
      /\ h(K, F) = h(K, E)
  BY <1>1, <1>3, HeldFinite
<1> HIDE DEF h
<1>9. h(K \cup A, F) = h(L, E) + h(A, F) - h(R, E) - h(C, E)
  BY <1>4, <1>6, <1>7, <1>8
<1> QED BY <1>9 DEF h, K

-----------------------------------------------------------------------------
(***************************************************************************)
(* The inductive invariant. The registers it bounds are those the sums at  *)
(* an edge are made of.                                                    *)
(***************************************************************************)
StoredOK == /\ gen \in [Slots -> 0 .. GEN_MOD - 1] /\ entry \in [Slots -> Entry]
            /\ issue \in Tags \cup {None}

LedgerOK == /\ used \in [Pools -> 0 .. COUNT_MAX] /\ cmax \in [Pools -> 0 .. COUNT_MAX]
            /\ UsedWithinMax

AdmInv == SlotsOK /\ StoredOK /\ LedgerOK /\ CreditConservation /\ LedgerNeverRefuses

(***************************************************************************)
(* What the ports an edge depends on carry, and that a commit comes only   *)
(* with admission held off: config_ctrl freezes before it commits, and     *)
(* without it this block has its commit inputs tied low.                   *)
(***************************************************************************)
PortsOK(in) ==
  /\ in.req \in Requests \cup {None} /\ in.active_epoch \in Epochs
  /\ in.committed_max \in [Pools -> 0 .. 2 * COUNT_MAX + 1] \cup {None}
  /\ in.committed_max # None /\ in.frozen_and_empty => ~in.req_accept_enable

LEMMA EntryCredits ==
  /\ \A e \in Entry, p \in Pools : e.credit[p] \in 0 .. AMT_MAX
  /\ \A r \in Requests, p \in Pools : r.credit[p] \in 0 .. AMT_MAX
  BY AdmissionAssumption DEF CreditVecs, Requests

\* A tracker that is not full has a slot to grant.
LEMMA FreeSlotExists ==
  ASSUME SlotsOK, ~full
  PROVE  FreeSlot # {}
<1>1. live # Slots
  BY SlotsFinite DEF SlotsOK, OccupancyExact, full
<1>2. Slots \ live # {} /\ Slots \ live \subseteq Nat
  <2>1. live \subseteq Slots
    BY DEF SlotsOK
  <2>2. Slots \subseteq Nat
    BY TrackerSizeAssumption DEF Slots
  <2> QED BY <1>1, <2>1, <2>2
<1>3. \E s \in Slots \ live : \A t \in Slots \ live : s <= t
  BY <1>2, LowestExists
<1> QED BY <1>3 DEF FreeSlot

\* One accept event: the tracker allocates exactly when the request is accepted,
\* and stores that request.
LEMMA AcceptAllocates ==
  ASSUME SlotsOK, NEW in, PortsOK(in), NEW t, t = ToTracker(in)
  PROVE  /\ AllocSet(t) # {} <=> req_accept(in)
         /\ req_accept(in) => t.alloc \in Entry /\ t.alloc.credit = in.req.credit
         /\ RetireSet(t) = RetireSet(in) /\ ReclaimSet(t) = ReclaimSet(in)
<1>1. t.alloc = IF req_accept(in)
                THEN [epoch |-> in.active_epoch, meta |-> in.req.meta, credit |-> in.req.credit]
                ELSE None
  BY DEF ToTracker
<1>2. req_accept(in) => t.alloc \in Entry /\ t.alloc.credit = in.req.credit
  BY <1>1, AdmissionAssumption DEF PortsOK, Requests, req_accept
<1>3. req_accept(in) => ~full
  BY DEF req_accept, req_ready
<1>4. AllocSet(t) # {} <=> req_accept(in)
  BY <1>1, <1>2, <1>3, FreeSlotExists, DataAssumption DEF AllocSet
<1>5. t.resp = in.resp /\ t.reclaim = in.reclaim
  BY DEF ToTracker
<1>6. RetireSet(t) = RetireSet(in)
  BY <1>5 DEF RetireSet
<1>7. ReclaimSet(t) = ReclaimSet(in)
  BY <1>5, <1>6 DEF ReclaimSet, ReclaimAccept, ReclaimClass
<1> QED BY <1>2, <1>4, <1>6, <1>7

\* What a request takes and an edge gives back, for one pool.
Taken(in, p)     == IF req_accept(in) THEN in.req.credit[p] ELSE 0
Retired(in, p)   == IF RetireSet(in) # {} THEN entry[in.resp.slot].credit[p] ELSE 0
Reclaimed(in, p) == IF ReclaimSet(in) # {} THEN entry[in.reclaim.slot].credit[p] ELSE 0

\* The entries' side of an edge. What is freed was held.
LEMMA EdgeHeld ==
  ASSUME SlotsOK, StoredOK, NEW in, PortsOK(in), AdmissionEdge(in), NEW p \in Pools
  PROVE  /\ Taken(in, p) \in 0 .. AMT_MAX
         /\ Retired(in, p) \in 0 .. AMT_MAX /\ Reclaimed(in, p) \in 0 .. AMT_MAX
         /\ Cardinality(HeldCredits(p)) \in Nat
         /\ Retired(in, p) + Reclaimed(in, p) <= Cardinality(HeldCredits(p))
         /\ Cardinality(HeldCredits(p)')
              = Cardinality(HeldCredits(p)) + Taken(in, p) - Retired(in, p) - Reclaimed(in, p)
<1> DEFINE t == ToTracker(in)
           A == AllocSet(t)
           R == RetireSet(in)
           C == ReclaimSet(in)
<1>1. /\ TrackerEdge(t) /\ RetireSet(t) = R /\ ReclaimSet(t) = C
      /\ A # {} <=> req_accept(in)
      /\ req_accept(in) => t.alloc \in Entry /\ t.alloc.credit = in.req.credit
  BY AcceptAllocates DEF AdmissionEdge
<1>2. /\ AtMostOne(A) /\ A \subseteq Slots \ live
      /\ R \subseteq live /\ C \subseteq live /\ C \cap R = {}
  BY AllocSetFacts, RetireSetFacts, ReclaimSetFacts
<1>3. /\ R # {} => R = {in.resp.slot}
      /\ C # {} => C = {in.reclaim.slot}
  BY DEF RetireSet, ReclaimSet
<1>4. live \subseteq Slots /\ IsFiniteSet(live) /\ IsFiniteSet(A)
  BY <1>2, SlotsFinite, FS_Subset DEF SlotsOK
<1> HIDE DEF t, A, R, C
<1>5. /\ live' = (live \ (R \cup C)) \cup A
      /\ entry' = [s \in Slots |-> IF s \in A THEN t.alloc ELSE entry[s]]
  BY <1>1 DEF TrackerEdge, UpdateLive, WriteEntry, A
<1>6. Taken(in, p) \in 0 .. AMT_MAX /\ Cardinality(Held(A, entry', p)) = Taken(in, p)
  <2>1. CASE A = {}
    BY <2>1, <1>1, HeldByNone, CreditSizeAssumption DEF Taken
  <2>2. CASE A # {}
    <3>1. PICK s \in Slots : A = {s}
      BY <2>2, <1>2 DEF AtMostOne
    <3>2. entry'[s].credit[p] = Taken(in, p) /\ Taken(in, p) \in 0 .. AMT_MAX
      BY <2>2, <3>1, <1>1, <1>5, EntryCredits DEF Taken
    <3> QED BY <3>1, <3>2, HeldByOne
  <2> QED BY <2>1, <2>2
<1>7. Retired(in, p) \in 0 .. AMT_MAX /\ Cardinality(Held(R, entry, p)) = Retired(in, p)
  <2>1. CASE R = {}
    BY <2>1, HeldByNone, CreditSizeAssumption DEF Retired, R
  <2>2. CASE R # {}
    <3>1. in.resp.slot \in Slots /\ R = {in.resp.slot}
      BY <2>2, <1>2, <1>3, <1>4
    <3>2. Retired(in, p) = entry[in.resp.slot].credit[p] /\ Retired(in, p) \in 0 .. AMT_MAX
      BY <2>2, <3>1, EntryCredits DEF Retired, StoredOK, R
    <3> QED BY <3>1, <3>2, HeldByOne
  <2> QED BY <2>1, <2>2
<1>8. Reclaimed(in, p) \in 0 .. AMT_MAX /\ Cardinality(Held(C, entry, p)) = Reclaimed(in, p)
  <2>1. CASE C = {}
    BY <2>1, HeldByNone, CreditSizeAssumption DEF Reclaimed, C
  <2>2. CASE C # {}
    <3>1. in.reclaim.slot \in Slots /\ C = {in.reclaim.slot}
      BY <2>2, <1>2, <1>3, <1>4
    <3>2. Reclaimed(in, p) = entry[in.reclaim.slot].credit[p] /\ Reclaimed(in, p) \in 0 .. AMT_MAX
      BY <2>2, <3>1, EntryCredits DEF Reclaimed, StoredOK, C
    <3> QED BY <3>1, <3>2, HeldByOne
  <2> QED BY <2>1, <2>2
<1>9. HeldCredits(p) = Held(live, entry, p) /\ HeldCredits(p)' = Held(live', entry', p)
  BY DEF HeldCredits, Held
<1>10. Cardinality(Held(live', entry', p))
         = Cardinality(Held(live, entry, p)) + Taken(in, p) - Retired(in, p) - Reclaimed(in, p)
  <2>1. A \cap live = {} /\ \A s \in live : entry'[s] = entry[s]
    BY <1>2, <1>4, <1>5
  <2>2. Cardinality(Held((live \ (R \cup C)) \cup A, entry', p))
          = Cardinality(Held(live, entry, p)) + Cardinality(Held(A, entry', p))
              - Cardinality(Held(R, entry, p)) - Cardinality(Held(C, entry, p))
    BY <1>2, <1>4, <2>1, HeldAfterEdge
  <2> QED BY <2>2, <1>5, <1>6, <1>7, <1>8
<1>11. Cardinality(Held(live, entry, p)) \in Nat
  BY <1>4, HeldFinite
<1>12. Retired(in, p) + Reclaimed(in, p) <= Cardinality(Held(live, entry, p))
  <2> DEFINE K == (live \ (R \cup C)) \cup {}
  <2>1. IsFiniteSet(K) /\ IsFiniteSet({})
    BY <1>4, FS_Subset, FS_EmptySet
  <2>2. Cardinality(Held(K, entry, p)) \in Nat
    BY <2>1, HeldFinite
  <2>3. Cardinality(Held(K, entry, p))
          = Cardinality(Held(live, entry, p)) + Cardinality(Held({}, entry, p))
              - Cardinality(Held(R, entry, p)) - Cardinality(Held(C, entry, p))
    <3>1. {} \cap live = {}
      OBVIOUS
    <3> QED BY <1>2, <1>4, <2>1, <3>1, HeldAfterEdge
  <2>4. Cardinality(Held({}, entry, p)) = 0
    BY HeldByNone
  <2> HIDE DEF K
  <2> QED BY <1>7, <1>8, <1>11, <2>2, <2>3, <2>4, CreditSizeAssumption
<1> QED BY <1>6, <1>7, <1>8, <1>9, <1>10, <1>11, <1>12

\* The ledger's side: it refuses nothing, and moves by the same amounts.
LEMMA EdgeLedgerMoves ==
  ASSUME AdmInv, NEW in, PortsOK(in), AdmissionEdge(in)
  PROVE  /\ LedgerOK' /\ CreditConservation' /\ LedgerNeverRefuses'
         /\ CommitFire(ToCredit(in)) => used' = used /\ cmax' = in.committed_max
         /\ ~CommitFire(ToCredit(in)) =>
              /\ used' = [p \in Pools |-> used[p] + Taken(in, p) - (Retired(in, p) + Reclaimed(in, p))]
              /\ cmax' = cmax
<1> DEFINE c == ToCredit(in)
<1>1. CreditEdge(c)
  BY DEF AdmissionEdge
<1>2. /\ c.consume = IF req_accept(in) THEN in.req.credit ELSE None
      /\ c.return = IF Freed(in) # {} THEN ReturnVec(in) ELSE None
      /\ c.committed_max = in.committed_max /\ c.frozen_and_empty = in.frozen_and_empty
      /\ c.diagnostic_clear = FALSE
  BY DEF ToCredit
<1>3. \A p \in Pools :
        /\ used[p] \in 0 .. COUNT_MAX /\ cmax[p] \in 0 .. COUNT_MAX /\ used[p] <= cmax[p]
        /\ used[p] = Cardinality(HeldCredits(p))
  BY DEF AdmInv, LedgerOK, UsedWithinMax, CreditConservation
<1>4. \A p \in Pools :
        /\ Taken(in, p) \in 0 .. AMT_MAX
        /\ Retired(in, p) \in 0 .. AMT_MAX /\ Reclaimed(in, p) \in 0 .. AMT_MAX
        /\ Retired(in, p) + Reclaimed(in, p) <= used[p]
        /\ Cardinality(HeldCredits(p)')
             = used[p] + Taken(in, p) - Retired(in, p) - Reclaimed(in, p)
  BY <1>3, EdgeHeld DEF AdmInv
<1>5. \A p \in Pools : ReturnVec(in)[p] = Retired(in, p) + Reclaimed(in, p)
  <2>1. RET_MAX + 1 = 2 * AMT_MAX + 2 /\ AMT_MAX \in Nat
    BY AdmissionAssumption, CreditSizeAssumption
  <2>2. \A n \in 0 .. 2 * AMT_MAX : n % (RET_MAX + 1) = n
    BY <2>1
  <2>3. \A p \in Pools : Retired(in, p) + Reclaimed(in, p) \in 0 .. 2 * AMT_MAX
    BY <1>4, <2>1
  <2>4. \A p \in Pools : ReturnVec(in)[p] = (Retired(in, p) + Reclaimed(in, p)) % (RET_MAX + 1)
    BY DEF ReturnVec, Retired, Reclaimed
  <2> QED BY <2>2, <2>3, <2>4
<1>6. c.return # None => ReturnLegal(c.return)
  BY <1>2, <1>4, <1>5 DEF ReturnLegal
<1>7. c.consume # None => ConsumeLegal(c.consume)
  BY <1>2 DEF req_accept, req_ready
<1>8. \A p \in Pools : Freed(in) = {} => Retired(in, p) + Reclaimed(in, p) = 0
  BY DEF Freed, Retired, Reclaimed
<1>9. req_accept(in) => in.req.credit # None
  BY CreditInputAssumption DEF req_accept, PortsOK, Requests, CreditVecs
<1>10. Freed(in) # {} => ReturnVec(in) # None
  <2>1. ReturnVec(in) = [p \in Pools |-> Retired(in, p) + Reclaimed(in, p)]
    BY <1>5 DEF ReturnVec
  <2>2. \A p \in Pools : Retired(in, p) + Reclaimed(in, p) \in 0 .. RET_MAX
    BY <1>4, AdmissionAssumption, CreditSizeAssumption
  <2>3. ReturnVec(in) \in [Pools -> 0 .. RET_MAX]
    BY <2>1, <2>2
  <2> QED BY <2>3, CreditInputAssumption
<1>11. LedgerNeverRefuses'
  <2>1. ~IllegalReturn(c) /\ ~ConsumeBlocked(c)
    BY <1>6, <1>7 DEF IllegalReturn, ConsumeBlocked
  <2> HIDE DEF c
  <2> QED BY <1>1, <1>2, <2>1 DEF CreditEdge, CountEvents, DiagEvents, DiagCounters, AdmInv, LedgerNeverRefuses
<1>12. CASE CommitFire(c)
  <2>1. ~req_accept(in)
    BY <1>2, <1>12 DEF CommitFire, PortsOK, req_accept, req_ready
  <2>2. /\ \A p \in Pools : used[p] = 0
        /\ in.committed_max \in [Pools -> 0 .. 2 * COUNT_MAX + 1]
        /\ \A p \in Pools : in.committed_max[p] <= COUNT_MAX
    BY <1>2, <1>12, CreditSizeAssumption DEF CommitFire, all_unused, Unrepresentable, PortsOK
  <2>3. ~ConsumeFire(c) /\ ~ReturnAccepted(c)
    BY <1>12 DEF ConsumeFire, ReturnAccepted
  <2> HIDE DEF c
  <2>4. \A p \in Pools : next_used(c, p) = 0
    BY <2>2, <2>3 DEF next_used
  <2>5. used' = [p \in Pools |-> 0]
    BY <1>1, <2>4 DEF CreditEdge, UpdateLedger
  <2>6. cmax' = [p \in Pools |-> in.committed_max[p]]
    BY <1>1, <1>2, <1>12 DEF CreditEdge, UpdateLedger
  <2>7. \A p \in Pools : Cardinality(HeldCredits(p)') = 0
    <3>1. \A p \in Pools : Taken(in, p) = 0
      BY <2>1 DEF Taken
    <3> QED BY <1>4, <2>2, <3>1, CreditSizeAssumption
  <2>8. LedgerOK'
    BY <2>2, <2>5, <2>6, CreditSizeAssumption DEF LedgerOK, UsedWithinMax
  <2>9. CreditConservation'
    BY <2>5, <2>7 DEF CreditConservation
  <2>10. used' = used /\ cmax' = in.committed_max
    BY <2>2, <2>5, <2>6 DEF AdmInv, LedgerOK
  <2> QED BY <1>11, <1>12, <2>8, <2>9, <2>10 DEF c
<1>13. CASE ~CommitFire(c)
  <2>1. \A p \in Pools :
          next_used(c, p) = used[p] + Taken(in, p) - (Retired(in, p) + Reclaimed(in, p))
    <3> SUFFICES ASSUME NEW p \in Pools
                 PROVE  next_used(c, p) = used[p] + Taken(in, p) - (Retired(in, p) + Reclaimed(in, p))
      OBVIOUS
    <3>1. (IF ConsumeFire(c) THEN c.consume[p] ELSE 0) = Taken(in, p)
      BY <1>2, <1>7, <1>9, <1>13 DEF ConsumeFire, Taken
    <3>2. (IF ReturnAccepted(c) THEN c.return[p] ELSE 0) = Retired(in, p) + Reclaimed(in, p)
      <4>1. CASE Freed(in) = {}
        BY <4>1, <1>2, <1>8 DEF ReturnAccepted
      <4>2. CASE Freed(in) # {}
        BY <4>2, <1>2, <1>5, <1>6, <1>10, <1>13 DEF ReturnAccepted
      <4> QED BY <4>1, <4>2
    <3> QED BY <3>1, <3>2 DEF next_used
  <2>2. \A p \in Pools : Taken(in, p) <= cmax[p] - used[p]
    BY <1>2, <1>3, <1>7, <1>9 DEF Taken, ConsumeLegal, available
  <2> HIDE DEF c
  <2>3. /\ used' = [p \in Pools |-> used[p] + Taken(in, p) - (Retired(in, p) + Reclaimed(in, p))]
        /\ cmax' = [p \in Pools |-> cmax[p]]
    BY <1>1, <1>13, <2>1 DEF CreditEdge, UpdateLedger
  <2>4. \A p \in Pools : used'[p] \in 0 .. cmax[p] /\ used'[p] = Cardinality(HeldCredits(p)')
    BY <1>3, <1>4, <2>2, <2>3, CreditSizeAssumption
  <2>5. LedgerOK'
    <3>1. \A p \in Pools : used'[p] \in 0 .. COUNT_MAX /\ used'[p] <= cmax'[p]
      BY <1>3, <2>3, <2>4, CreditSizeAssumption
    <3> QED BY <1>3, <2>3, <3>1 DEF LedgerOK, UsedWithinMax
  <2>6. CreditConservation'
    BY <2>4 DEF CreditConservation
  <2>7. cmax' = cmax
    BY <2>3 DEF AdmInv, LedgerOK
  <2> QED BY <1>11, <1>13, <2>3, <2>5, <2>6, <2>7 DEF c
<1> QED BY <1>12, <1>13

\* The tag that enters the issue buffer at an edge is that of the slot granted.
LEMMA EdgeIssues ==
  ASSUME SlotsOK, StoredOK, NEW in, PortsOK(in), AdmissionEdge(in)
  PROVE  StoredOK' /\ IssuesWhatItAllocates
<1> DEFINE t == ToTracker(in)
           A == AllocSet(t)
<1>1. /\ TrackerEdge(t) /\ UpdateIssue(in)
      /\ A # {} <=> req_accept(in)
      /\ req_accept(in) => t.alloc \in Entry
  BY AcceptAllocates DEF AdmissionEdge
<1>2. AtMostOne(A) /\ A \subseteq Slots \ live
  BY AllocSetFacts
<1>3. AllocTag(t) = {[slot |-> s, gen |-> NextGen(s)] : s \in A}
  BY DEF AllocTag
<1>4. live' \ live = A
  BY <1>1, <1>2, RetireSetFacts, ReclaimSetFacts DEF TrackerEdge, UpdateLive
<1> HIDE DEF t, A
<1>5. /\ gen' = [s \in Slots |-> IF s \in A THEN NextGen(s) ELSE gen[s]]
      /\ entry' = [s \in Slots |-> IF s \in A THEN t.alloc ELSE entry[s]]
  BY <1>1 DEF TrackerEdge, WriteEntry, A
<1>6. \A s \in Slots : NextGen(s) \in 0 .. GEN_MOD - 1
  BY TrackerSizeAssumption DEF NextGen, StoredOK
<1>7. \A s \in Slots : [slot |-> s, gen |-> NextGen(s)] \in Tags
  <2>1. Slots \subseteq 0 .. SLOT_SPACE - 1
    BY TrackerSizeAssumption DEF Slots
  <2> QED BY <1>6, <2>1 DEF Tags
<1>8. gen' \in [Slots -> 0 .. GEN_MOD - 1] /\ entry' \in [Slots -> Entry]
  BY <1>1, <1>5, <1>6 DEF StoredOK
<1>9. CASE req_accept(in)
  <2>1. PICK s \in Slots : A = {s}
    BY <1>1, <1>2, <1>9 DEF AtMostOne
  <2>2. issue = None /\ issue' = [slot |-> s, gen |-> NextGen(s)]
    BY <1>1, <1>3, <1>9, <2>1 DEF UpdateIssue, req_accept, req_ready, t
  <2>3. issue' \in Tags /\ issue' # None
    BY <1>7, <2>2, DataAssumption
  <2>4. IssuesWhatItAllocates
    BY <1>4, <1>5, <2>1, <2>2, <2>3 DEF IssuesWhatItAllocates
  <2> QED BY <1>8, <2>3, <2>4 DEF StoredOK
<1>10. CASE ~req_accept(in)
  <2>1. A = {} /\ (issue' = None \/ issue' = issue)
    BY <1>1, <1>10 DEF UpdateIssue
  <2>2. IssuesWhatItAllocates
    BY <1>4, <2>1 DEF IssuesWhatItAllocates
  <2> QED BY <1>8, <2>1, <2>2 DEF StoredOK
<1> QED BY <1>9, <1>10

LEMMA EdgeAdmInv ==
  ASSUME AdmInv, NEW in, PortsOK(in), AdmissionEdge(in)
  PROVE  AdmInv'
<1>1. SlotsOK'
  BY EdgeSlots DEF AdmInv, AdmissionEdge
<1> QED BY <1>1, EdgeIssues, EdgeLedgerMoves DEF AdmInv

LEMMA NoneHeld ==
  ASSUME live = {}
  PROVE  \A p \in Pools : Cardinality(HeldCredits(p)) = 0
<1>1. \A p \in Pools : HeldCredits(p) = {}
  BY DEF HeldCredits
<1> QED BY <1>1, FS_EmptySet

LEMMA NoneHeldPrimed ==
  ASSUME live' = {}
  PROVE  \A p \in Pools : Cardinality(HeldCredits(p)') = 0
<1>1. \A p \in Pools : HeldCredits(p)' = {}
  BY DEF HeldCredits
<1> QED BY <1>1, FS_EmptySet

LEMMA InitAdmInv == AdmissionInit => AdmInv
<1> SUFFICES ASSUME AdmissionInit PROVE AdmInv
  OBVIOUS
<1> USE DEF AdmissionInit
<1>1. SlotsOK
  BY FS_EmptySet DEF TrackerInit, SlotsOK, OccupancyExact, QuarantineOnlyLive
<1>2. StoredOK
  BY TrackerSizeAssumption, DataAssumption DEF TrackerInit, StoredOK
<1>3. LedgerOK
  BY CreditSizeAssumption DEF CreditInit, LedgerOK, UsedWithinMax
<1>4. CreditConservation
  BY NoneHeld DEF TrackerInit, CreditInit, CreditConservation
<1>5. LedgerNeverRefuses
  BY DEF CreditInit, DiagCounters, LedgerNeverRefuses
<1> QED BY <1>1, <1>2, <1>3, <1>4, <1>5 DEF AdmInv

LEMMA ResetAdmInv == AdmissionReset => AdmInv'
<1> SUFFICES ASSUME AdmissionReset PROVE AdmInv'
  OBVIOUS
<1> USE DEF AdmissionReset
<1>1. SlotsOK'
  BY FS_EmptySet DEF TrackerReset, SlotsOK, OccupancyExact, QuarantineOnlyLive
<1>2. StoredOK'
  BY TrackerSizeAssumption, DataAssumption DEF TrackerReset, StoredOK
<1>3. LedgerOK'
  BY CreditSizeAssumption DEF CreditReset, LedgerOK, UsedWithinMax
<1>4. CreditConservation'
  BY NoneHeldPrimed DEF TrackerReset, CreditReset, CreditConservation
<1>5. LedgerNeverRefuses'
  BY DEF CreditReset, DiagCounters, LedgerNeverRefuses
<1> QED BY <1>1, <1>2, <1>3, <1>4, <1>5 DEF AdmInv

LEMMA StutterAdmInv == AdmInv /\ UNCHANGED admVars => AdmInv'
<1> SUFFICES ASSUME AdmInv, UNCHANGED admVars PROVE AdmInv'
  OBVIOUS
<1>1. \A p \in Pools : HeldCredits(p)' = HeldCredits(p)
  BY DEF admVars, trackerVars, slotVars, HeldCredits
<1>2. CreditConservation'
  BY <1>1 DEF admVars, creditVars, AdmInv, CreditConservation
<1>3. SlotsOK' /\ StoredOK' /\ LedgerOK' /\ LedgerNeverRefuses'
  BY DEF admVars, trackerVars, slotVars, creditVars, AdmInv, SlotsOK, OccupancyExact,
         QuarantineOnlyLive, StoredOK, LedgerOK, UsedWithinMax, LedgerNeverRefuses
<1> QED BY <1>2, <1>3 DEF AdmInv

\* What whoever drives the commit port of the datapath owes it: admission is off
\* while a commit is presented (config_ctrl.sv enables it in S_IDLE only and commits
\* in S_DRAIN).
CommitsFrozen ==
  \A in \in AdmInputs : in.committed_max # None /\ in.frozen_and_empty => ~in.req_accept_enable

LEMMA AdmissionStep ==
  ASSUME CommitsFrozen, AdmInv, [AdmissionNext]_admVars
  PROVE  AdmInv' /\ [IssuesWhatItAllocates]_admVars
<1>1. CASE AdmissionReset
  <2>1. IssuesWhatItAllocates
    BY <1>1 DEF AdmissionReset, TrackerReset, IssuesWhatItAllocates
  <2> QED BY <1>1, <2>1, ResetAdmInv
<1>2. ASSUME NEW in \in AdmInputs, AdmissionEdge(in)
      PROVE  AdmInv' /\ IssuesWhatItAllocates
  <2>1. PortsOK(in)
    BY AdmissionAssumption DEF CommitsFrozen, PortsOK, AdmInputType
  <2> QED BY <1>2, <2>1, EdgeAdmInv, EdgeIssues DEF AdmInv
<1>3. CASE UNCHANGED admVars
  BY <1>3, StutterAdmInv
<1> QED BY <1>1, <1>2, <1>3 DEF AdmissionNext

\* The invariant of tracker and ledger together.
THEOREM AdmissionCorrect ==
  ASSUME CommitsFrozen
  PROVE  AdmissionSpec => []AdmInv
<1>1. AdmInv /\ [AdmissionNext]_admVars => AdmInv'
  BY AdmissionStep
<1> QED BY <1>1, InitAdmInv, PTL DEF AdmissionSpec

\* The ledger's use of every pool is what the live entries hold: nothing leaks and
\* nothing is returned twice (admission_top.sv, the return aggregation).
THEOREM AdmissionConserves ==
  ASSUME CommitsFrozen
  PROVE  AdmissionSpec => []CreditConservation
<1>1. AdmInv => CreditConservation
  BY DEF AdmInv
<1> QED BY <1>1, AdmissionCorrect, PTL

\* No return is illegal and no accepted request finds its credits gone: the ledger
\* refuses nothing the datapath presents (credit_manager.sv, its error outputs).
THEOREM AdmissionNeverRefused ==
  ASSUME CommitsFrozen
  PROVE  AdmissionSpec => []LedgerNeverRefuses
<1>1. AdmInv => LedgerNeverRefuses
  BY DEF AdmInv
<1> QED BY <1>1, AdmissionCorrect, PTL

\* Tracker, ledger and issue buffer accept on the same edges, and the tag issued is
\* that of the entry allocated (admission_top.sv, the accept event).
THEOREM AdmissionAcceptsOnce ==
  ASSUME CommitsFrozen
  PROVE  AdmissionSpec => OneAcceptEvent
<1>1. AdmInv /\ [AdmissionNext]_admVars => [IssuesWhatItAllocates]_admVars
  BY AdmissionStep
<1> QED BY <1>1, AdmissionCorrect, PTL DEF AdmissionSpec, OneAcceptEvent

-----------------------------------------------------------------------------
(***************************************************************************)
(* The datapath and its model. The model's tracker has been proved to      *)
(* follow the hardware's; what is left is that the model's own ledger,     *)
(* which refuses nothing, and its accept event are the hardware's. They    *)
(* are because the hardware's ledger has nothing to refuse either.         *)
(***************************************************************************)

\* The tracker inside the model is the tracker's model: its decisions first.
LEMMA SameTrackerDecisions ==
  ASSUME NEW m, NEW in, NEW retired, NEW tag
  PROVE  /\ AdmRef!Tracker!is_full(m) = Ref!is_full(m)
         /\ AdmRef!Tracker!free_slot(m) = Ref!free_slot(m)
         /\ AdmRef!Tracker!do_alloc(m, in) = Ref!do_alloc(m, in)
         /\ AdmRef!Tracker!classify(m, tag) = Ref!classify(m, tag)
         /\ AdmRef!Tracker!do_retire(m, in) = Ref!do_retire(m, in)
         /\ AdmRef!Tracker!reclaim_accept(m, in) = Ref!reclaim_accept(m, in)
         /\ AdmRef!Tracker!reclaim_class(m, tag, retired) = Ref!reclaim_class(m, tag, retired)
         /\ AdmRef!Tracker!do_reclaim(m, in, retired) = Ref!do_reclaim(m, in, retired)
<1>1. AdmRef!Tracker!is_full(m) = Ref!is_full(m)
  BY DEF AdmRef!Tracker!is_full, Ref!is_full
<1>2. AdmRef!Tracker!free_slot(m) = Ref!free_slot(m)
  BY DEF AdmRef!Tracker!free_slot, Ref!free_slot, AdmRef!Tracker!Range0, Ref!Range0
<1>3. \A g : AdmRef!Tracker!classify(m, g) = Ref!classify(m, g)
  BY DEF AdmRef!Tracker!classify, Ref!classify
<1>4. \A g : AdmRef!Tracker!reclaim_class(m, g, retired) = Ref!reclaim_class(m, g, retired)
  BY DEF AdmRef!Tracker!reclaim_class, Ref!reclaim_class
<1>5. AdmRef!Tracker!reclaim_accept(m, in) = Ref!reclaim_accept(m, in)
  BY DEF AdmRef!Tracker!reclaim_accept, Ref!reclaim_accept, AdmRef!Tracker!reclaim_ready,
         Ref!reclaim_ready
<1>6. AdmRef!Tracker!do_alloc(m, in) = Ref!do_alloc(m, in)
  BY <1>1, <1>2, Zenon DEF AdmRef!Tracker!do_alloc, Ref!do_alloc
<1>7. AdmRef!Tracker!do_retire(m, in) = Ref!do_retire(m, in)
  BY <1>3 DEF AdmRef!Tracker!do_retire, Ref!do_retire
<1>8. AdmRef!Tracker!do_reclaim(m, in, retired) = Ref!do_reclaim(m, in, retired)
  BY <1>4, <1>5 DEF AdmRef!Tracker!do_reclaim, Ref!do_reclaim
<1> QED BY <1>1, <1>2, <1>3, <1>4, <1>5, <1>6, <1>7, <1>8

\* Then its assignments.
LEMMA SameTrackerAssignments ==
  ASSUME NEW m, NEW in, NEW x, NEW y, NEW z
  PROVE  /\ AdmRef!Tracker!New = Ref!New
         /\ AdmRef!Tracker!mark_timeouts(m, in, x) = Ref!mark_timeouts(m, in, x)
         /\ AdmRef!Tracker!respond(m, in, x) = Ref!respond(m, in, x)
         /\ AdmRef!Tracker!register_reclaim(m, in, x, y, z) = Ref!register_reclaim(m, in, x, y, z)
         /\ AdmRef!Tracker!free_reclaimed(m, x) = Ref!free_reclaimed(m, x)
         /\ AdmRef!Tracker!allocate(m, in, x) = Ref!allocate(m, in, x)
         /\ AdmRef!Tracker!count_full(m, in, x) = Ref!count_full(m, in, x)
         /\ AdmRef!Tracker!occupy(m, x) = Ref!occupy(m, x)
         /\ AdmRef!Tracker!size(x) = Ref!size(x)
<1>1. AdmRef!Tracker!New = Ref!New
  BY DEF AdmRef!Tracker!New, Ref!New, AdmRef!Tracker!Range0, Ref!Range0
<1>2. AdmRef!Tracker!mark_timeouts(m, in, x) = Ref!mark_timeouts(m, in, x)
  BY Zenon DEF AdmRef!Tracker!mark_timeouts, Ref!mark_timeouts, AdmRef!Tracker!satn, Ref!satn,
         AdmRef!Tracker!Cardinality, Ref!Cardinality
<1>3. AdmRef!Tracker!respond(m, in, x) = Ref!respond(m, in, x)
  BY Zenon DEF AdmRef!Tracker!respond, Ref!respond, AdmRef!Tracker!satn, Ref!satn,
         AdmRef!Tracker!counter_of, Ref!counter_of
<1>4. AdmRef!Tracker!register_reclaim(m, in, x, y, z) = Ref!register_reclaim(m, in, x, y, z)
  BY Zenon DEF AdmRef!Tracker!register_reclaim, Ref!register_reclaim
<1>5. AdmRef!Tracker!free_reclaimed(m, x) = Ref!free_reclaimed(m, x)
  BY Zenon DEF AdmRef!Tracker!free_reclaimed, Ref!free_reclaimed, AdmRef!Tracker!satn, Ref!satn
<1>6. AdmRef!Tracker!allocate(m, in, x) = Ref!allocate(m, in, x)
  BY Zenon DEF AdmRef!Tracker!allocate, Ref!allocate, AdmRef!Tracker!satn, Ref!satn,
         AdmRef!Tracker!new_gen, Ref!new_gen, AdmRef!Tracker!Range0, Ref!Range0
<1>7. AdmRef!Tracker!count_full(m, in, x) = Ref!count_full(m, in, x)
  BY Zenon DEF AdmRef!Tracker!count_full, Ref!count_full, AdmRef!Tracker!satn, Ref!satn
<1>8. AdmRef!Tracker!occupy(m, x) = Ref!occupy(m, x)
  BY Zenon DEF AdmRef!Tracker!occupy, Ref!occupy
<1>9. AdmRef!Tracker!size(x) = Ref!size(x)
  BY DEF AdmRef!Tracker!size, Ref!size
<1> QED BY <1>1, <1>2, <1>3, <1>4, <1>5, <1>6, <1>7, <1>8, <1>9

LEMMA SameTrackerStep ==
  ASSUME NEW m, NEW in
  PROVE  AdmRef!Tracker!step(m, in) = Ref!step(m, in)
<1> DEFINE A  == Ref!do_alloc(m, in)
           R  == Ref!do_retire(m, in)
           C  == Ref!do_reclaim(m, in, R)
           ok == Ref!reclaim_accept(m, in)
           class  == IF in.resp = None THEN "VALID" ELSE Ref!classify(m, in.resp)
           rclass == IF ok THEN Ref!reclaim_class(m, in.reclaim, R) ELSE "OK"
           meta   == IF ok /\ in.reclaim.slot < DEPTH THEN m.entry[in.reclaim.slot].meta ELSE ZeroEntry.meta
           refused == Ref!is_full(m) \/ Ref!free_slot(m) = {}
           n  == Ref!size(A) - Ref!size(R) - Ref!size(C)
           m1 == Ref!mark_timeouts(m, in, R \cup C)
           m2 == Ref!respond(m1, in, class)
           m3 == Ref!register_reclaim(m2, in, ok, rclass, meta)
           m4 == Ref!free_reclaimed(m3, C)
           m5 == Ref!allocate(m4, in, A)
           m6 == Ref!count_full(m5, in, refused)
           Run(a, r, c, k, cl, rc, me, re) ==
             AdmRef!Tracker!occupy(
               AdmRef!Tracker!count_full(
                 AdmRef!Tracker!allocate(
                   AdmRef!Tracker!free_reclaimed(
                     AdmRef!Tracker!register_reclaim(
                       AdmRef!Tracker!respond(
                         AdmRef!Tracker!mark_timeouts(m, in, r \cup c), in, cl),
                       in, k, rc, me), c), in, a), in, re),
               AdmRef!Tracker!size(a) - AdmRef!Tracker!size(r) - AdmRef!Tracker!size(c))
           dR == AdmRef!Tracker!do_retire(m, in)
           dk == AdmRef!Tracker!reclaim_accept(m, in)
<1>1. Ref!step(m, in) = Ref!occupy(m6, n)
  BY Zenon DEF Ref!step
<1>2. AdmRef!Tracker!step(m, in)
        = Run(AdmRef!Tracker!do_alloc(m, in), dR, AdmRef!Tracker!do_reclaim(m, in, dR), dk,
              IF in.resp = None THEN "VALID" ELSE AdmRef!Tracker!classify(m, in.resp),
              IF dk THEN AdmRef!Tracker!reclaim_class(m, in.reclaim, dR) ELSE "OK",
              IF dk /\ in.reclaim.slot < DEPTH THEN m.entry[in.reclaim.slot].meta ELSE ZeroEntry.meta,
              AdmRef!Tracker!is_full(m) \/ AdmRef!Tracker!free_slot(m) = {})
  BY Zenon DEF AdmRef!Tracker!step
<1>3. /\ AdmRef!Tracker!do_alloc(m, in) = A /\ dR = R /\ dk = ok
      /\ AdmRef!Tracker!do_reclaim(m, in, R) = C
  BY SameTrackerDecisions
<1>4. AdmRef!Tracker!classify(m, in.resp) = Ref!classify(m, in.resp)
  BY SameTrackerDecisions
<1>5. AdmRef!Tracker!reclaim_class(m, in.reclaim, R) = Ref!reclaim_class(m, in.reclaim, R)
  BY SameTrackerDecisions
<1>6. (AdmRef!Tracker!is_full(m) \/ AdmRef!Tracker!free_slot(m) = {}) = refused
  BY SameTrackerDecisions
<1> HIDE DEF Run, A, R, C, ok, dR, dk, refused
<1>7. (IF in.resp = None THEN "VALID" ELSE AdmRef!Tracker!classify(m, in.resp)) = class
  BY <1>4
<1>8. (IF dk THEN AdmRef!Tracker!reclaim_class(m, in.reclaim, dR) ELSE "OK") = rclass
  BY <1>3, <1>5
<1>9. (IF dk /\ in.reclaim.slot < DEPTH THEN m.entry[in.reclaim.slot].meta ELSE ZeroEntry.meta) = meta
  BY <1>3
<1> HIDE DEF class, rclass, meta
<1>10. AdmRef!Tracker!step(m, in) = Run(A, R, C, ok, class, rclass, meta, refused)
  BY <1>2, <1>3, <1>6, <1>7, <1>8, <1>9, Zenon
<1>11. AdmRef!Tracker!mark_timeouts(m, in, R \cup C) = m1
  BY SameTrackerAssignments
<1> HIDE DEF m1
<1>12. AdmRef!Tracker!respond(m1, in, class) = m2
  BY SameTrackerAssignments
<1> HIDE DEF m2
<1>13. AdmRef!Tracker!register_reclaim(m2, in, ok, rclass, meta) = m3
  BY SameTrackerAssignments, Zenon
<1> HIDE DEF m3
<1>14. AdmRef!Tracker!free_reclaimed(m3, C) = m4
  BY SameTrackerAssignments
<1> HIDE DEF m4
<1>15. AdmRef!Tracker!allocate(m4, in, A) = m5
  BY SameTrackerAssignments
<1> HIDE DEF m5
<1>16. AdmRef!Tracker!count_full(m5, in, refused) = m6
  BY SameTrackerAssignments, Zenon
<1> HIDE DEF m6
<1>17. AdmRef!Tracker!size(A) - AdmRef!Tracker!size(R) - AdmRef!Tracker!size(C) = n
  BY SameTrackerAssignments
<1> HIDE DEF n
<1>18. AdmRef!Tracker!occupy(m6, n) = Ref!occupy(m6, n)
  BY SameTrackerAssignments
<1>19. Run(A, R, C, ok, class, rclass, meta, refused) = AdmRef!Tracker!occupy(m6, n)
  BY <1>11, <1>12, <1>13, <1>14, <1>15, <1>16, <1>17, Zenon DEF Run
<1> QED BY <1>1, <1>10, <1>18, <1>19, Zenon

\* The object that holds what the datapath's registers hold.
ModelOfDatapath == [used |-> used, cmax |-> cmax, issue |-> issue, trk |-> ModelOfRegisters]

LEMMA ToTrackerType ==
  ASSUME NEW in \in AdmInputType
  PROVE  ToTracker(in) \in TrackerInputType
<1>1. req_accept(in) =>
        [epoch |-> in.active_epoch, meta |-> in.req.meta, credit |-> in.req.credit] \in Entry
  BY AdmissionAssumption DEF AdmInputType, Requests, req_accept
<1> QED BY <1>1 DEF ToTracker, AdmInputType, TrackerInputType

\* Model and hardware decide the same at an edge.
LEMMA SameAdmission ==
  ASSUME AdmInv, TrackerInv, NEW in \in AdmInputType, NEW m, m = ModelOfDatapath
  PROVE  /\ AdmRef!admit(m, in) = req_accept(in)
         /\ AdmRef!tracker_inp(in, req_accept(in)) = ToTracker(in)
         /\ AdmRef!credit_cfg_fire(m, in) = CommitFire(ToCredit(in))
         /\ AdmRef!retire_commit(m, in) = RetireSet(in)
         /\ AdmRef!reclaim_commit(m, in) = ReclaimSet(in)
<1> DEFINE t == ToTracker(in)
           o == ModelOfRegisters
<1>1. m.used = used /\ m.cmax = cmax /\ m.issue = issue /\ m.trk = o /\ AdmRef!Pools0 = Pools
  BY DEF ModelOfDatapath, AdmRef!Pools0, Pools
<1>2. t \in TrackerInputType /\ t.resp = in.resp /\ t.reclaim = in.reclaim
  BY ToTrackerType DEF ToTracker
<1>3. /\ Ref!is_full(o) = full /\ Ref!do_retire(o, t) = RetireSet(t)
      /\ Ref!do_reclaim(o, t, RetireSet(t)) = ReclaimSet(t)
  BY <1>2, SameDecisions
<1>4. /\ Ref!do_retire(o, t) = Ref!do_retire(o, in)
      /\ \A r : Ref!do_reclaim(o, t, r) = Ref!do_reclaim(o, in, r)
  BY <1>2 DEF Ref!do_retire, Ref!do_reclaim, Ref!reclaim_accept
<1>5. RetireSet(t) = RetireSet(in)
  BY <1>2 DEF RetireSet
<1>6. ReclaimSet(t) = ReclaimSet(in)
  BY <1>2, <1>5 DEF ReclaimSet, ReclaimAccept, ReclaimClass
<1> HIDE DEF t, o
<1>7. AdmRef!Tracker!is_full(m.trk) = full
  BY <1>1, <1>3, SameTrackerDecisions
<1>8. AdmRef!retire_commit(m, in) = RetireSet(in)
  BY <1>1, <1>3, <1>4, <1>5, SameTrackerDecisions DEF AdmRef!retire_commit
<1>9. AdmRef!reclaim_commit(m, in) = ReclaimSet(in)
  <2>1. AdmRef!Tracker!do_reclaim(m.trk, in, RetireSet(in)) = Ref!do_reclaim(o, in, RetireSet(in))
    BY <1>1, SameTrackerDecisions
  <2> QED BY <1>3, <1>4, <1>5, <1>6, <1>8, <2>1 DEF AdmRef!reclaim_commit
<1>10. AdmRef!admit(m, in) = req_accept(in)
  <2>1. AdmRef!consume_ready(m, in.req.credit) = ConsumeLegal(in.req.credit)
    BY <1>1 DEF AdmRef!consume_ready, ConsumeLegal, available
  <2> QED BY <1>1, <1>7, <2>1 DEF AdmRef!admit, req_accept, req_ready
<1>11. AdmRef!tracker_inp(in, req_accept(in)) = ToTracker(in)
  BY Zenon DEF AdmRef!tracker_inp, ToTracker
<1>12. AdmRef!credit_cfg_fire(m, in) = CommitFire(ToCredit(in))
  <2> DEFINE c == ToCredit(in)
  <2>1. c.committed_max = in.committed_max /\ c.frozen_and_empty = in.frozen_and_empty
    BY DEF ToCredit
  <2> HIDE DEF c
  <2>2. in.committed_max # None =>
          (Unrepresentable(in.committed_max) = {} <=> \A p \in Pools : in.committed_max[p] <= COUNT_MAX)
    BY CreditSizeAssumption DEF Unrepresentable, AdmInputType
  <2>3. AdmRef!credit_cfg_fire(m, in) = CommitFire(c)
    BY <1>1, <2>1, <2>2 DEF AdmRef!credit_cfg_fire, CommitFire, all_unused
  <2> QED BY <2>3 DEF c
<1> QED BY <1>8, <1>9, <1>10, <1>11, <1>12

\* What the model gives back at an edge is what the entries freed there held.
LEMMA SameReturn ==
  ASSUME AdmInv, TrackerInv, NEW in \in AdmInputType, NEW m, m = ModelOfDatapath, NEW p \in Pools
  PROVE  AdmRef!return_agg(m, in)[p] = Retired(in, p) + Reclaimed(in, p)
<1>1. m.trk.entry = entry /\ AdmRef!Pools0 = Pools
  BY DEF ModelOfDatapath, ModelOfRegisters, AdmRef!Pools0, Pools
<1>2. AdmRef!retire_commit(m, in) = RetireSet(in) /\ AdmRef!reclaim_commit(m, in) = ReclaimSet(in)
  BY SameAdmission
<1>3. /\ RetireSet(in) # {} => RetireSet(in) = {in.resp.slot}
      /\ ReclaimSet(in) # {} => ReclaimSet(in) = {in.reclaim.slot}
  BY DEF RetireSet, ReclaimSet
<1>4. AdmRef!held(m, RetireSet(in), p) = Retired(in, p)
  BY <1>1, <1>3 DEF AdmRef!held, Retired
<1>5. AdmRef!held(m, ReclaimSet(in), p) = Reclaimed(in, p)
  BY <1>1, <1>3 DEF AdmRef!held, Reclaimed
<1> QED BY <1>1, <1>2, <1>4, <1>5 DEF AdmRef!return_agg

LEMMA DatapathEdgeMatches ==
  ASSUME AdmInv, TrackerInv, NEW in \in AdmInputType, PortsOK(in), AdmissionEdge(in)
  PROVE  AdmRef!step(ModelOfDatapath, in) = ModelOfDatapath'
<1> DEFINE m   == ModelOfDatapath
           acc == req_accept(in)
           t   == ToTracker(in)
           moved == AdmRef!move_credits(m, in, acc)
<1>1. /\ AdmRef!admit(m, in) = acc /\ AdmRef!tracker_inp(in, acc) = t
      /\ AdmRef!credit_cfg_fire(m, in) = CommitFire(ToCredit(in))
  BY SameAdmission
<1>2. m = [used |-> used, cmax |-> cmax, issue |-> issue, trk |-> ModelOfRegisters]
  BY DEF ModelOfDatapath
<1>3. AdmRef!step(m, in)
        = [moved EXCEPT !.issue = AdmRef!buffer(m, in, acc),
                        !.trk = AdmRef!Tracker!step(moved.trk, AdmRef!tracker_inp(in, acc))]
  <2> DEFINE S(a) == [AdmRef!move_credits(m, in, a) EXCEPT
                        !.issue = AdmRef!buffer(m, in, a),
                        !.trk = AdmRef!Tracker!step(@, AdmRef!tracker_inp(in, a))]
             Q(a) == [AdmRef!move_credits(m, in, a) EXCEPT
                        !.issue = AdmRef!buffer(m, in, a),
                        !.trk = AdmRef!Tracker!step(AdmRef!move_credits(m, in, a).trk,
                                                    AdmRef!tracker_inp(in, a))]
  <2> HIDE DEF m
  <2>1. AdmRef!step(m, in) = S(AdmRef!admit(m, in))
    BY Zenon DEF AdmRef!step
  <2>2. S(acc) = Q(acc)
    OBVIOUS
  <2> HIDE DEF S, Q
  <2>3. S(AdmRef!admit(m, in)) = S(acc)
    BY <1>1, Zenon
  <2> QED BY <2>1, <2>2, <2>3, Zenon DEF Q
<1>4. moved = [used |-> used', cmax |-> cmax', issue |-> issue, trk |-> ModelOfRegisters]
  <2> DEFINE agg == AdmRef!return_agg(m, in)
  <2>1. CASE CommitFire(ToCredit(in))
    <3>1. used' = used /\ cmax' = in.committed_max
      BY <2>1, EdgeLedgerMoves
    <3>2. moved = [m EXCEPT !.cmax = in.committed_max]
      BY <2>1, <1>1 DEF AdmRef!move_credits
    <3> QED BY <3>1, <3>2, <1>2
  <2>2. CASE ~CommitFire(ToCredit(in))
    <3>1. /\ used' = [p \in Pools |-> used[p] + Taken(in, p) - (Retired(in, p) + Reclaimed(in, p))]
          /\ cmax' = cmax
      BY <2>2, EdgeLedgerMoves
    <3>2. AdmRef!Pools0 = Pools
      BY DEF AdmRef!Pools0, Pools
    <3>3. moved = [m EXCEPT !.used = [p \in Pools |->
                     m.used[p] + (IF acc THEN in.req.credit[p] ELSE 0) - agg[p]]]
      <4> HIDE DEF m, agg
      <4> QED BY <2>2, <1>1, <3>2 DEF AdmRef!move_credits, agg
    <3>4. \A p \in Pools : agg[p] = Retired(in, p) + Reclaimed(in, p)
      BY SameReturn
    <3> HIDE DEF agg, m, moved
    <3>5. m.used = used
      BY <1>2
    <3>6. [p \in Pools |-> m.used[p] + (IF acc THEN in.req.credit[p] ELSE 0) - agg[p]] = used'
      BY <3>1, <3>4, <3>5 DEF Taken
    <3> QED BY <1>2, <3>1, <3>3, <3>6
  <2> QED BY <2>1, <2>2
<1>5. AdmRef!buffer(m, in, acc) = issue'
  <2>1. UpdateIssue(in)
    BY DEF AdmissionEdge
  <2>2. CASE ~acc
    BY <1>2, <2>1, <2>2 DEF AdmRef!buffer, UpdateIssue
  <2>3. CASE acc
    <3>1. AllocSet(t) # {} /\ AtMostOne(AllocSet(t)) /\ AllocSet(t) \subseteq Slots
      BY <2>3, AcceptAllocates, AllocSetFacts DEF AdmInv
    <3>2. AllocSet(t) = FreeSlot
      BY <3>1 DEF AllocSet
    <3>3. PICK s \in Slots : FreeSlot = {s}
      BY <3>1, <3>2 DEF AtMostOne
    <3>4. issue' = [slot |-> s, gen |-> NextGen(s)]
      BY <2>1, <2>3, <3>2, <3>3 DEF UpdateIssue, AllocTag
    <3>5. AdmRef!Tracker!free_slot(m.trk) = FreeSlot
      <4>1. Ref!free_slot(ModelOfRegisters) = FreeSlot
        BY DEF Ref!free_slot, ModelOfRegisters, Ref!Range0, FreeSlot, Slots
      <4> QED BY <4>1, <1>2, SameTrackerDecisions
    <3>6. (CHOOSE i \in AdmRef!Tracker!free_slot(m.trk) : TRUE) = s
      BY <3>3, <3>5
    <3>7. AdmRef!Tracker!new_gen(m.trk, s) = NextGen(s)
      BY <1>2 DEF AdmRef!Tracker!new_gen, NextGen, ModelOfRegisters
    <3>8. AdmRef!issued_tag(m) = [slot |-> s, gen |-> NextGen(s)]
      <4> HIDE DEF m
      <4> QED BY <3>6, <3>7 DEF AdmRef!issued_tag
    <3> QED BY <2>3, <3>4, <3>8 DEF AdmRef!buffer
  <2> QED BY <2>2, <2>3
<1>6. AdmRef!Tracker!step(moved.trk, AdmRef!tracker_inp(in, acc)) = ModelOfRegisters'
  <2>1. moved.trk = ModelOfRegisters
    BY <1>4
  <2>2. t \in TrackerInputType /\ TrackerEdge(t)
    BY ToTrackerType DEF AdmissionEdge
  <2>3. Ref!step(ModelOfRegisters, t) = ModelOfRegisters'
    BY <2>2, EdgeMatches
  <2>4. AdmRef!Tracker!step(ModelOfRegisters, t) = Ref!step(ModelOfRegisters, t)
    BY SameTrackerStep
  <2> HIDE DEF moved, t
  <2> QED BY <2>1, <2>3, <2>4, <1>1
<1>7. ModelOfDatapath' = [used |-> used', cmax |-> cmax', issue |-> issue', trk |-> ModelOfRegisters']
  BY DEF ModelOfDatapath
<1> HIDE DEF moved, m, acc
<1>8. AdmRef!step(m, in) = ModelOfDatapath'
  BY <1>3, <1>4, <1>5, <1>6, <1>7
<1> QED BY <1>8 DEF m

LEMMA NewDatapathMatches ==
  /\ AdmissionInit => ModelOfDatapath = AdmRef!New
  /\ AdmissionReset => ModelOfDatapath' = AdmRef!New
<1>1. AdmRef!New = [used |-> [p \in Pools |-> 0], cmax |-> [p \in Pools |-> RESET_MAX],
                    issue |-> None, trk |-> Ref!New]
  BY SameTrackerAssignments DEF AdmRef!New, AdmRef!Pools0, Pools
<1>2. AdmissionInit => ModelOfRegisters = Ref!New
  BY NewMatches DEF AdmissionInit
<1>3. AdmissionReset => ModelOfRegisters' = Ref!New
  BY NewMatches DEF AdmissionReset
<1> QED BY <1>1, <1>2, <1>3 DEF AdmissionInit, AdmissionReset, CreditInit, CreditReset, ModelOfDatapath

\* A full object, not its fields alone: what the model assigns next needs them all.
AdmReplayInv == AdmInv /\ TrackerInv /\ adm_ref = ModelOfDatapath

LEMMA AdmReplayMatches == AdmReplayInv => AdmissionMatchesModel
<1>1. ModelOfRegisters = TrackerPart!ModelOfRegisters
  BY DEF ModelOfRegisters, TrackerPart!ModelOfRegisters
<1> QED BY <1>1 DEF AdmReplayInv, ModelOfDatapath, AdmissionMatchesModel, TrackerPart!TrackerMatchesModel

LEMMA NextAdmReplayInv ==
  ASSUME CommitsFrozen, AdmReplayInv, [AdmReplayNext]_admReplayVars
  PROVE  AdmReplayInv'
<1>1. [AdmissionNext]_admVars
  BY DEF AdmReplayNext, AdmReplayReset, AdmReplayEdge, AdmissionNext, admReplayVars
<1>2. AdmInv'
  BY <1>1, AdmissionStep DEF AdmReplayInv
<1>3. CASE AdmReplayReset
  <2>1. TrackerInv'
    BY <1>3, ResetTrackerInv DEF AdmReplayReset, AdmissionReset
  <2> QED BY <1>2, <1>3, <2>1, NewDatapathMatches DEF AdmReplayInv, AdmReplayReset
<1>4. ASSUME NEW in \in AdmInputs, AdmReplayEdge(in) PROVE AdmReplayInv'
  <2>1. in \in AdmInputType /\ PortsOK(in) /\ AdmissionEdge(in)
    BY <1>4, AdmissionAssumption DEF AdmReplayEdge, CommitsFrozen, PortsOK, AdmInputType
  <2>2. TrackerInv'
    <3>1. ToTracker(in) \in TrackerInputType /\ TrackerEdge(ToTracker(in))
      BY <2>1, ToTrackerType DEF AdmissionEdge
    <3> QED BY <3>1, EdgeSlots, EdgeType DEF AdmReplayInv, TrackerInv, TrackerTypeOK, SlotsOK
  <2>3. adm_ref' = ModelOfDatapath'
    BY <1>4, <2>1, DatapathEdgeMatches DEF AdmReplayInv, AdmReplayEdge
  <2> QED BY <1>2, <2>2, <2>3 DEF AdmReplayInv
<1>5. CASE UNCHANGED admReplayVars
  <2>1. TrackerInv'
    BY <1>5, TrackerStep DEF admReplayVars, admVars, AdmReplayInv
  <2>2. adm_ref' = ModelOfDatapath'
    BY <1>5 DEF admReplayVars, admVars, trackerVars, slotVars, creditVars, AdmReplayInv,
                ModelOfDatapath, ModelOfRegisters
  <2> QED BY <1>2, <2>1, <2>2 DEF AdmReplayInv
<1> QED BY <1>3, <1>4, <1>5 DEF AdmReplayNext

\* The datapath and its model hold the same after any sequence of beats
\* (admission_model.py, compared port by port in its bench).
THEOREM AdmissionAlwaysMatchesModel ==
  ASSUME CommitsFrozen
  PROVE  AdmReplaySpec => []AdmissionMatchesModel
<1>1. AdmReplayInit => AdmReplayInv
  BY InitAdmInv, InitTrackerInv, NewDatapathMatches DEF AdmReplayInit, AdmissionInit, AdmReplayInv
<1>2. AdmReplayInv /\ [AdmReplayNext]_admReplayVars => AdmReplayInv'
  BY NextAdmReplayInv
<1> QED BY <1>1, <1>2, AdmReplayMatches, PTL DEF AdmReplaySpec

-----------------------------------------------------------------------------
(***************************************************************************)
(* The control plane. A commit finds occupancy zero; that no entry is live *)
(* then rests on the tracker's own invariant, SlotsOK. The two commits,    *)
(* the controller's and the ledger's, are one because what is drained for  *)
(* was validated: the ledger has no reason left to refuse.                 *)
(***************************************************************************)

ConfigOK == /\ pending \in Configs /\ active \in Configs
            /\ cfg_state \in CfgStates
            /\ DrainsForValid

CPInv == /\ AdmInv /\ SlotsOK /\ ConfigOK /\ ActiveIsValid
         /\ LiveEntriesOfActiveEpoch /\ OneSharedCommit /\ EmptyAfterCommit

LEMMA NoSlotLive ==
  ASSUME SlotsOK
  PROVE  occupancy = 0 => live = {}
<1>1. IsFiniteSet(live)
  BY SlotsFinite, FS_Subset DEF SlotsOK
<1>2. QED
  BY <1>1, FS_EmptySet DEF SlotsOK, OccupancyExact

LEMMA InitCPInv == CPInit => CPInv
<1> SUFFICES ASSUME CPInit PROVE CPInv
  OBVIOUS
<1> USE DEF CPInit, AdmissionInit, CfgInit
<1>1. SlotsOK
  BY FS_EmptySet DEF TrackerInit, SlotsOK, OccupancyExact, QuarantineOnlyLive
<1>2. ConfigOK /\ ActiveIsValid
  BY ConfigAssumption DEF ConfigOK, CfgStates, DrainsForValid, ActiveIsValid
<1>3. OneSharedCommit
  BY DEF OneSharedCommit, CreditInit, DiagCounters
<1>4. LiveEntriesOfActiveEpoch /\ EmptyAfterCommit
  BY DEF TrackerInit, LiveEntriesOfActiveEpoch, EmptyAfterCommit
<1>5. QED
  BY <1>1, <1>2, <1>3, <1>4, InitAdmInv DEF CPInv

LEMMA ResetCPInv == CPReset => CPInv'
<1> SUFFICES ASSUME CPReset PROVE CPInv'
  OBVIOUS
<1> USE DEF CPReset, AdmissionReset, CfgReset
<1>1. SlotsOK'
  BY FS_EmptySet DEF TrackerReset, SlotsOK, OccupancyExact, QuarantineOnlyLive
<1>2. ConfigOK' /\ ActiveIsValid'
  BY ConfigAssumption DEF ConfigOK, CfgStates, DrainsForValid, ActiveIsValid
<1>3. OneSharedCommit'
  BY DEF OneSharedCommit, CreditReset, DiagCounters
<1>4. LiveEntriesOfActiveEpoch' /\ EmptyAfterCommit'
  BY DEF TrackerReset, LiveEntriesOfActiveEpoch, EmptyAfterCommit
<1>5. QED
  BY <1>1, <1>2, <1>3, <1>4, ResetAdmInv DEF CPInv

\* The datapath's ports as this block wires them: the controller holds admission
\* off while it commits.
LEMMA EdgePortsOK ==
  ASSUME ConfigOK, NEW in \in CPInputs
  PROVE  PortsOK(ToAdmission(in))
<1> DEFINE adm == ToAdmission(in)
<1>1. /\ adm.req = in.req /\ adm.active_epoch = active.epoch
      /\ adm.req_accept_enable = req_accept_enable
      /\ adm.committed_max = IF global_cfg_commit_fire(in) THEN pending.cmax ELSE None
  BY DEF ToAdmission, Wired
<1>2. global_cfg_commit_fire(in) => ~req_accept_enable
  BY DEF global_cfg_commit_fire, req_accept_enable
<1>3. /\ in.req \in Requests \cup {None} /\ active.epoch \in Epochs
      /\ pending.cmax \in [Pools -> 0 .. 2 * COUNT_MAX + 1]
  BY ControlPlaneAssumption DEF ConfigOK, CPInputType
<1> HIDE DEF adm
<1>4. PortsOK(adm)
  BY <1>1, <1>2, <1>3 DEF PortsOK
<1> QED BY <1>4 DEF adm

\* The controller's side of an edge.
LEMMA EdgeConfigOK ==
  ASSUME ConfigOK, NEW in \in CPInputs, CPEdge(in)
  PROVE  /\ ConfigOK'
         /\ active' = IF global_cfg_commit_fire(in) THEN pending ELSE active
         /\ cfg_state' = "RSP_OK" => global_cfg_commit_fire(in) \/ cfg_state = "RSP_OK"
<1>1. CfgEdge(in.cfg_req, quiescent(in), in.cfg_rsp_ready)
  BY DEF CPEdge
<1>2. CASE CfgAccept(in.cfg_req)
  <2>1. in.cfg_req \in Configs
    BY <1>2, ControlPlaneAssumption DEF CfgAccept, CPInputType
  <2>2. QED
    BY <1>2, <2>1 DEF CfgAccept, ConfigOK, CfgStates, DrainsForValid, ValidConfig,
                      to_ok, cmax_ok, hdm_ok, global_cfg_commit_fire
<1>3. CASE CfgCommit(quiescent(in))
  BY <1>3 DEF CfgCommit, ConfigOK, CfgStates, DrainsForValid, ValidConfig,
              to_ok, cmax_ok, hdm_ok, global_cfg_commit_fire
<1>4. CASE CfgRespond(in.cfg_rsp_ready)
  BY <1>4 DEF CfgRespond, cfg_rsp_valid, ConfigOK, CfgStates, DrainsForValid, ValidConfig,
              to_ok, cmax_ok, hdm_ok, global_cfg_commit_fire
<1>5. CASE CfgHold(in.cfg_req, quiescent(in), in.cfg_rsp_ready)
  BY <1>5 DEF CfgHold, cfgVars, ConfigOK, CfgStates, DrainsForValid, ValidConfig,
              to_ok, cmax_ok, hdm_ok, global_cfg_commit_fire
<1>6. QED
  BY <1>1, <1>2, <1>3, <1>4, <1>5 DEF CfgEdge

\* The datapath's side: the inputs of its blocks at an edge, and what admission
\* does. Nothing is accepted outside IDLE.
LEMMA EdgeAdmission ==
  ASSUME NEW in, CPEdge(in), NEW t, t = ToTracker(ToAdmission(in))
  PROVE  /\ TrackerEdge(t)
         /\ cfg_state # "IDLE" => AllocSet(t) = {} /\ (issue' # None => issue' = issue)
         /\ AllocSet(t) # {} => t.alloc.epoch = active.epoch
<1> DEFINE adm == ToAdmission(in)
<1>1. TrackerEdge(t) /\ UpdateIssue(adm)
  BY DEF CPEdge, AdmissionEdge
<1>2. adm.req_accept_enable = req_accept_enable /\ adm.active_epoch = active.epoch
  BY DEF ToAdmission, Wired
<1>3. cfg_state # "IDLE" => ~req_accept(adm)
  BY <1>2 DEF req_accept, req_ready, req_accept_enable
<1>4. /\ ~req_accept(adm) => t.alloc = None
      /\ req_accept(adm) => t.alloc.epoch = active.epoch
  BY <1>2 DEF ToTracker
<1>5. AllocSet(t) # {} => t.alloc # None
  BY DEF AllocSet
<1>6. ~req_accept(adm) => (issue' # None => issue' = issue)
  BY <1>1 DEF UpdateIssue
<1>7. QED
  BY <1>1, <1>3, <1>4, <1>5, <1>6

\* The slots after an edge.
LEMMA EdgeEntries ==
  ASSUME SlotsOK, NEW in, CPEdge(in)
  PROVE  /\ SlotsOK'
         /\ cfg_state # "IDLE" => live' \subseteq live
         /\ \A s \in live' : \/ s \in live /\ entry'[s] = entry[s]
                             \/ entry'[s].epoch = active.epoch
<1> DEFINE t == ToTracker(ToAdmission(in))
<1>1. /\ TrackerEdge(t)
      /\ cfg_state # "IDLE" => AllocSet(t) = {}
      /\ AllocSet(t) # {} => t.alloc.epoch = active.epoch
  BY EdgeAdmission
<1> HIDE DEF t
<1>2. SlotsOK'
  BY <1>1, EdgeSlots
<1>3. live' \subseteq live \cup AllocSet(t)
  BY <1>1 DEF TrackerEdge, UpdateLive
<1>4. \A s \in Slots : entry'[s] = IF s \in AllocSet(t) THEN t.alloc ELSE entry[s]
  BY <1>1 DEF TrackerEdge, WriteEntry
<1>5. live' \subseteq Slots
  BY <1>2 DEF SlotsOK
<1>6. QED
  BY <1>1, <1>2, <1>3, <1>4, <1>5

\* A commit meets an empty datapath and leaves it empty.
LEMMA CommitLeavesEmpty ==
  ASSUME SlotsOK, NEW in, CPEdge(in), global_cfg_commit_fire(in)
  PROVE  live' = {} /\ issue' = None
<1>1. cfg_state = "DRAIN" /\ occupancy = 0 /\ issue = None
  BY DEF global_cfg_commit_fire, quiescent
<1>2. live = {}
  BY <1>1, NoSlotLive
<1>3. QED
  BY <1>1, <1>2, EdgeEntries, EdgeAdmission

\* The ledger's side: it commits exactly when the controller does.
LEMMA EdgeLedger ==
  ASSUME ConfigOK, OneSharedCommit, NEW in \in CPInputs, CPEdge(in)
  PROVE  OneSharedCommit'
<1> DEFINE c == ToCredit(ToAdmission(in))
<1>1. CreditEdge(c)
  BY DEF CPEdge, AdmissionEdge
<1>2. CASE global_cfg_commit_fire(in)
  <2>1. /\ c.committed_max = pending.cmax /\ c.frozen_and_empty
        /\ all_unused /\ cfg_state = "DRAIN"
    BY <1>2 DEF ToCredit, ToAdmission, Wired, global_cfg_commit_fire, quiescent
  <2>2. /\ pending \in Configs /\ ValidConfig(pending)
        /\ pending.cmax \in [Pools -> 0 .. 2 * COUNT_MAX + 1]
    BY <2>1, ControlPlaneAssumption DEF ConfigOK, DrainsForValid
  <2>3. CommitFire(c) /\ ~CommitReject(c)
    <3>1. Unrepresentable(pending.cmax) = {}
      BY <2>2, ControlPlaneAssumption, CreditSizeAssumption
      DEF Unrepresentable, ValidConfig, cmax_ok
    <3>2. pending.cmax # None
      BY <2>2, ControlPlaneAssumption
    <3>3. QED
      BY <2>1, <3>1, <3>2 DEF CommitFire, CommitReject
  <2>4. active' = pending /\ pending # ZeroConfig
    BY <1>2, <2>2, EdgeConfigOK, ConfigAssumption DEF ValidConfig, hdm_ok
  <2> HIDE DEF c
  <2>5. /\ \A p \in Pools : cmax'[p] = pending.cmax[p]
        /\ diag'["cfg_reject"] = diag["cfg_reject"] \/ diag'["cfg_reject"] = 0
    BY <1>1, <2>1, <2>3 DEF CreditEdge, UpdateLedger, CountEvents, DiagEvents, DiagCounters
  <2>6. QED
    BY <2>4, <2>5 DEF OneSharedCommit
<1>3. CASE ~global_cfg_commit_fire(in)
  <2>1. c.committed_max = None
    BY <1>3 DEF ToCredit, ToAdmission, Wired
  <2>2. ~CommitFire(c) /\ ~CommitReject(c)
    BY <2>1 DEF CommitFire, CommitReject
  <2>3. active' = active
    BY <1>3, EdgeConfigOK
  <2> HIDE DEF c
  <2>4. /\ \A p \in Pools : cmax'[p] = cmax[p]
        /\ diag'["cfg_reject"] = diag["cfg_reject"] \/ diag'["cfg_reject"] = 0
    BY <1>1, <2>2 DEF CreditEdge, UpdateLedger, CountEvents, DiagEvents, DiagCounters
  <2>5. QED
    BY <2>3, <2>4 DEF OneSharedCommit
<1>4. QED
  BY <1>2, <1>3

LEMMA EdgeCPInv ==
  ASSUME CPInv, NEW in \in CPInputs, CPEdge(in)
  PROVE  CPInv'
<1> USE DEF CPInv
<1>1. SlotsOK' /\ ConfigOK' /\ OneSharedCommit'
  BY EdgeEntries, EdgeConfigOK, EdgeLedger
<1>2. LiveEntriesOfActiveEpoch'
  <2>1. CASE global_cfg_commit_fire(in)
    BY <2>1, CommitLeavesEmpty DEF LiveEntriesOfActiveEpoch
  <2>2. CASE ~global_cfg_commit_fire(in)
    BY <2>2, EdgeEntries, EdgeConfigOK DEF LiveEntriesOfActiveEpoch
  <2>3. QED
    BY <2>1, <2>2
<1>3. EmptyAfterCommit'
  <2>1. CASE global_cfg_commit_fire(in)
    BY <2>1, CommitLeavesEmpty DEF EmptyAfterCommit
  <2>2. CASE ~global_cfg_commit_fire(in)
    <3> SUFFICES ASSUME cfg_state' = "RSP_OK" PROVE live' = {} /\ issue' = None
      BY DEF EmptyAfterCommit
    <3>1. cfg_state = "RSP_OK" /\ live = {} /\ issue = None
      BY <2>2, EdgeConfigOK DEF EmptyAfterCommit
    <3>2. QED
      BY <3>1, EdgeEntries, EdgeAdmission
  <2>3. QED
    BY <2>1, <2>2
<1>4. ActiveIsValid'
  <2>1. CASE global_cfg_commit_fire(in)
    <3>1. ValidConfig(pending) /\ active' = pending
      BY <2>1, EdgeConfigOK DEF ConfigOK, DrainsForValid, global_cfg_commit_fire
    <3>2. QED
      BY <3>1 DEF ActiveIsValid, ValidConfig, to_ok, cmax_ok, hdm_ok
  <2>2. CASE ~global_cfg_commit_fire(in)
    BY <2>2, EdgeConfigOK DEF ActiveIsValid, ValidConfig, to_ok, cmax_ok, hdm_ok
  <2>3. QED
    BY <2>1, <2>2
<1>5. AdmInv'
  BY EdgePortsOK, EdgeAdmInv DEF CPEdge
<1>6. QED
  BY <1>1, <1>2, <1>3, <1>4, <1>5

LEMMA NextCPInv == CPInv /\ [CPNext]_cpVars => CPInv'
<1> SUFFICES ASSUME CPInv, [CPNext]_cpVars PROVE CPInv'
  OBVIOUS
<1>1. CASE CPReset
  BY <1>1, ResetCPInv
<1>2. ASSUME NEW in \in CPInputs, CPEdge(in) PROVE CPInv'
  BY <1>2, EdgeCPInv
<1>3. CASE UNCHANGED cpVars
  BY <1>3, StutterAdmInv DEF cpVars, admVars, trackerVars, slotVars, creditVars, cfgVars, CPInv,
         SlotsOK,
              OccupancyExact, QuarantineOnlyLive, ConfigOK, DrainsForValid, ValidConfig,
              to_ok, cmax_ok, hdm_ok, ActiveIsValid, LiveEntriesOfActiveEpoch, OneSharedCommit, EmptyAfterCommit
<1>4. QED
  BY <1>1, <1>2, <1>3 DEF CPNext

\* The invariant of controller and datapath together.
THEOREM ControlPlaneCorrect == CPSpec => []CPInv
  BY InitCPInv, NextCPInv, PTL DEF CPSpec

\* Nothing unvalidated is ever active: a commit applies the snapshot that was
\* judged when the request was taken (config_ctrl.sv, S_IDLE and S_DRAIN).
THEOREM ActiveWasValidated == CPSpec => []ActiveIsValid
<1>1. CPInv => ActiveIsValid
  BY DEF CPInv
<1>2. QED
  BY <1>1, ControlPlaneCorrect, PTL

\* No transaction lives across a commit: the controller waits for the datapath to be
\* empty (config_ctrl.sv, S_DRAIN).
THEOREM EpochsNeverMix == CPSpec => []LiveEntriesOfActiveEpoch
<1>1. CPInv => LiveEntriesOfActiveEpoch
  BY DEF CPInv
<1>2. QED
  BY <1>1, ControlPlaneCorrect, PTL

\* The ledger's maxima are those of the active configuration.
THEOREM CommitsAreOne == CPSpec => []OneSharedCommit
<1>1. CPInv => OneSharedCommit
  BY DEF CPInv
<1>2. QED
  BY <1>1, ControlPlaneCorrect, PTL

\* The datapath stays empty from a commit until its response is taken, since
\* admission is enabled in S_IDLE only (config_ctrl.sv).
THEOREM CommitThenEmpty == CPSpec => []EmptyAfterCommit
<1>1. CPInv => EmptyAfterCommit
  BY DEF CPInv
<1>2. QED
  BY <1>1, ControlPlaneCorrect, PTL

\* Nothing is admitted while a configuration request is in flight.
THEOREM ConfiguringFreezes == CPSpec => FrozenWhileConfiguring
<1> DEFINE Frozen == cfg_state # "IDLE" => live' \subseteq live /\ (issue' # None => issue' = issue)
<1>1. CPInv /\ [CPNext]_cpVars => [Frozen]_cpVars
  <2> SUFFICES ASSUME CPInv, CPNext PROVE Frozen
    OBVIOUS
  <2>1. CASE CPReset
    BY <2>1 DEF CPReset, AdmissionReset, TrackerReset
  <2>2. ASSUME NEW in \in CPInputs, CPEdge(in) PROVE Frozen
    BY <2>2, EdgeEntries, EdgeAdmission DEF CPInv
  <2>3. QED
    BY <2>1, <2>2 DEF CPNext
<1>2. QED
  BY <1>1, ControlPlaneCorrect, PTL DEF CPSpec, FrozenWhileConfiguring

\* The credits in use are those of the live entries across commits too.
THEOREM CommitsKeepConservation == CPSpec => []CreditConservation
<1>1. CPInv => CreditConservation
  BY DEF CPInv, AdmInv
<1>2. QED
  BY <1>1, ControlPlaneCorrect, PTL

\* No commit makes the ledger refuse what the datapath presents (credit_manager.sv,
\* the commit and its reasons to refuse).
THEOREM CommitsNeverRefuse == CPSpec => []LedgerNeverRefuses
<1>1. CPInv => LedgerNeverRefuses
  BY DEF CPInv, AdmInv
<1>2. QED
  BY <1>1, ControlPlaneCorrect, PTL

\* Nor does it part tracker, ledger and issue buffer.
THEOREM CommitsKeepOneAccept == CPSpec => OneAcceptEvent
<1>1. CPInv /\ [CPNext]_cpVars => [IssuesWhatItAllocates]_admVars
  <2> SUFFICES ASSUME CPInv, CPNext PROVE IssuesWhatItAllocates \/ UNCHANGED admVars
    BY DEF cpVars
  <2>1. CASE CPReset
    BY <2>1 DEF CPReset, AdmissionReset, TrackerReset, IssuesWhatItAllocates
  <2>2. ASSUME NEW in \in CPInputs, CPEdge(in) PROVE IssuesWhatItAllocates
    BY <2>2, EdgePortsOK, EdgeIssues DEF CPEdge, CPInv, AdmInv
  <2> QED BY <2>1, <2>2 DEF CPNext
<1>2. QED
  BY <1>1, ControlPlaneCorrect, PTL DEF CPSpec, OneAcceptEvent

-----------------------------------------------------------------------------
(***************************************************************************)
(* The control plane and its model, which contains the datapath's model,   *)
(* which contains the tracker's.                                           *)
(***************************************************************************)

\* The two instances of the tracker's model: their decisions first.
LEMMA SameInnerTrackerDecisions ==
  ASSUME NEW m, NEW in, NEW retired, NEW tag
  PROVE  /\ CPRef!Adm!Tracker!is_full(m) = AdmRef!Tracker!is_full(m)
         /\ CPRef!Adm!Tracker!free_slot(m) = AdmRef!Tracker!free_slot(m)
         /\ CPRef!Adm!Tracker!do_alloc(m, in) = AdmRef!Tracker!do_alloc(m, in)
         /\ CPRef!Adm!Tracker!classify(m, tag) = AdmRef!Tracker!classify(m, tag)
         /\ CPRef!Adm!Tracker!do_retire(m, in) = AdmRef!Tracker!do_retire(m, in)
         /\ CPRef!Adm!Tracker!reclaim_accept(m, in) = AdmRef!Tracker!reclaim_accept(m, in)
         /\ CPRef!Adm!Tracker!reclaim_class(m, tag, retired) = AdmRef!Tracker!reclaim_class(m, tag, retired)
         /\ CPRef!Adm!Tracker!do_reclaim(m, in, retired) = AdmRef!Tracker!do_reclaim(m, in, retired)
<1>1. CPRef!Adm!Tracker!is_full(m) = AdmRef!Tracker!is_full(m)
  BY DEF CPRef!Adm!Tracker!is_full, AdmRef!Tracker!is_full
<1>2. CPRef!Adm!Tracker!free_slot(m) = AdmRef!Tracker!free_slot(m)
  BY DEF CPRef!Adm!Tracker!free_slot, AdmRef!Tracker!free_slot, CPRef!Adm!Tracker!Range0,
         AdmRef!Tracker!Range0
<1>3. \A g : CPRef!Adm!Tracker!classify(m, g) = AdmRef!Tracker!classify(m, g)
  BY DEF CPRef!Adm!Tracker!classify, AdmRef!Tracker!classify
<1>4. \A g : CPRef!Adm!Tracker!reclaim_class(m, g, retired) = AdmRef!Tracker!reclaim_class(m, g, retired)
  BY DEF CPRef!Adm!Tracker!reclaim_class, AdmRef!Tracker!reclaim_class
<1>5. CPRef!Adm!Tracker!reclaim_accept(m, in) = AdmRef!Tracker!reclaim_accept(m, in)
  BY DEF CPRef!Adm!Tracker!reclaim_accept, AdmRef!Tracker!reclaim_accept,
         CPRef!Adm!Tracker!reclaim_ready, AdmRef!Tracker!reclaim_ready
<1>6. CPRef!Adm!Tracker!do_alloc(m, in) = AdmRef!Tracker!do_alloc(m, in)
  BY <1>1, <1>2, Zenon DEF CPRef!Adm!Tracker!do_alloc, AdmRef!Tracker!do_alloc
<1>7. CPRef!Adm!Tracker!do_retire(m, in) = AdmRef!Tracker!do_retire(m, in)
  BY <1>3 DEF CPRef!Adm!Tracker!do_retire, AdmRef!Tracker!do_retire
<1>8. CPRef!Adm!Tracker!do_reclaim(m, in, retired) = AdmRef!Tracker!do_reclaim(m, in, retired)
  BY <1>4, <1>5 DEF CPRef!Adm!Tracker!do_reclaim, AdmRef!Tracker!do_reclaim
<1> QED BY <1>1, <1>2, <1>3, <1>4, <1>5, <1>6, <1>7, <1>8

\* Then its assignments.
LEMMA SameInnerTrackerAssignments ==
  ASSUME NEW m, NEW in, NEW x, NEW y, NEW z
  PROVE  /\ CPRef!Adm!Tracker!New = AdmRef!Tracker!New
         /\ CPRef!Adm!Tracker!mark_timeouts(m, in, x) = AdmRef!Tracker!mark_timeouts(m, in, x)
         /\ CPRef!Adm!Tracker!respond(m, in, x) = AdmRef!Tracker!respond(m, in, x)
         /\ CPRef!Adm!Tracker!register_reclaim(m, in, x, y, z) = AdmRef!Tracker!register_reclaim(m, in, x, y, z)
         /\ CPRef!Adm!Tracker!free_reclaimed(m, x) = AdmRef!Tracker!free_reclaimed(m, x)
         /\ CPRef!Adm!Tracker!allocate(m, in, x) = AdmRef!Tracker!allocate(m, in, x)
         /\ CPRef!Adm!Tracker!count_full(m, in, x) = AdmRef!Tracker!count_full(m, in, x)
         /\ CPRef!Adm!Tracker!occupy(m, x) = AdmRef!Tracker!occupy(m, x)
         /\ CPRef!Adm!Tracker!size(x) = AdmRef!Tracker!size(x)
<1>1. CPRef!Adm!Tracker!New = AdmRef!Tracker!New
  BY DEF CPRef!Adm!Tracker!New, AdmRef!Tracker!New, CPRef!Adm!Tracker!Range0, AdmRef!Tracker!Range0
<1>2. CPRef!Adm!Tracker!mark_timeouts(m, in, x) = AdmRef!Tracker!mark_timeouts(m, in, x)
  BY Zenon DEF CPRef!Adm!Tracker!mark_timeouts, AdmRef!Tracker!mark_timeouts,
         CPRef!Adm!Tracker!satn, AdmRef!Tracker!satn, CPRef!Adm!Tracker!Cardinality,
         AdmRef!Tracker!Cardinality
<1>3. CPRef!Adm!Tracker!respond(m, in, x) = AdmRef!Tracker!respond(m, in, x)
  BY Zenon DEF CPRef!Adm!Tracker!respond, AdmRef!Tracker!respond, CPRef!Adm!Tracker!satn,
         AdmRef!Tracker!satn, CPRef!Adm!Tracker!counter_of, AdmRef!Tracker!counter_of
<1>4. CPRef!Adm!Tracker!register_reclaim(m, in, x, y, z) = AdmRef!Tracker!register_reclaim(m, in, x, y, z)
  BY Zenon DEF CPRef!Adm!Tracker!register_reclaim, AdmRef!Tracker!register_reclaim
<1>5. CPRef!Adm!Tracker!free_reclaimed(m, x) = AdmRef!Tracker!free_reclaimed(m, x)
  BY Zenon DEF CPRef!Adm!Tracker!free_reclaimed, AdmRef!Tracker!free_reclaimed,
         CPRef!Adm!Tracker!satn, AdmRef!Tracker!satn
<1>6. CPRef!Adm!Tracker!allocate(m, in, x) = AdmRef!Tracker!allocate(m, in, x)
  BY Zenon DEF CPRef!Adm!Tracker!allocate, AdmRef!Tracker!allocate, CPRef!Adm!Tracker!satn,
         AdmRef!Tracker!satn, CPRef!Adm!Tracker!new_gen, AdmRef!Tracker!new_gen,
         CPRef!Adm!Tracker!Range0, AdmRef!Tracker!Range0
<1>7. CPRef!Adm!Tracker!count_full(m, in, x) = AdmRef!Tracker!count_full(m, in, x)
  BY Zenon DEF CPRef!Adm!Tracker!count_full, AdmRef!Tracker!count_full, CPRef!Adm!Tracker!satn,
         AdmRef!Tracker!satn
<1>8. CPRef!Adm!Tracker!occupy(m, x) = AdmRef!Tracker!occupy(m, x)
  BY Zenon DEF CPRef!Adm!Tracker!occupy, AdmRef!Tracker!occupy
<1>9. CPRef!Adm!Tracker!size(x) = AdmRef!Tracker!size(x)
  BY DEF CPRef!Adm!Tracker!size, AdmRef!Tracker!size
<1> QED BY <1>1, <1>2, <1>3, <1>4, <1>5, <1>6, <1>7, <1>8, <1>9

LEMMA SameInnerTrackerStep ==
  ASSUME NEW m, NEW in
  PROVE  CPRef!Adm!Tracker!step(m, in) = AdmRef!Tracker!step(m, in)
<1> DEFINE A  == AdmRef!Tracker!do_alloc(m, in)
           R  == AdmRef!Tracker!do_retire(m, in)
           C  == AdmRef!Tracker!do_reclaim(m, in, R)
           ok == AdmRef!Tracker!reclaim_accept(m, in)
           class  == IF in.resp = None THEN "VALID" ELSE AdmRef!Tracker!classify(m, in.resp)
           rclass == IF ok THEN AdmRef!Tracker!reclaim_class(m, in.reclaim, R) ELSE "OK"
           meta   == IF ok /\ in.reclaim.slot < DEPTH THEN m.entry[in.reclaim.slot].meta ELSE ZeroEntry.meta
           refused == AdmRef!Tracker!is_full(m) \/ AdmRef!Tracker!free_slot(m) = {}
           n  == AdmRef!Tracker!size(A) - AdmRef!Tracker!size(R) - AdmRef!Tracker!size(C)
           m1 == AdmRef!Tracker!mark_timeouts(m, in, R \cup C)
           m2 == AdmRef!Tracker!respond(m1, in, class)
           m3 == AdmRef!Tracker!register_reclaim(m2, in, ok, rclass, meta)
           m4 == AdmRef!Tracker!free_reclaimed(m3, C)
           m5 == AdmRef!Tracker!allocate(m4, in, A)
           m6 == AdmRef!Tracker!count_full(m5, in, refused)
           Run(a, r, c, k, cl, rc, me, re) ==
             CPRef!Adm!Tracker!occupy(
               CPRef!Adm!Tracker!count_full(
                 CPRef!Adm!Tracker!allocate(
                   CPRef!Adm!Tracker!free_reclaimed(
                     CPRef!Adm!Tracker!register_reclaim(
                       CPRef!Adm!Tracker!respond(
                         CPRef!Adm!Tracker!mark_timeouts(m, in, r \cup c), in, cl),
                       in, k, rc, me), c), in, a), in, re),
               CPRef!Adm!Tracker!size(a) - CPRef!Adm!Tracker!size(r) - CPRef!Adm!Tracker!size(c))
           dR == CPRef!Adm!Tracker!do_retire(m, in)
           dk == CPRef!Adm!Tracker!reclaim_accept(m, in)
<1>1. AdmRef!Tracker!step(m, in) = AdmRef!Tracker!occupy(m6, n)
  BY Zenon DEF AdmRef!Tracker!step
<1>2. CPRef!Adm!Tracker!step(m, in)
        = Run(CPRef!Adm!Tracker!do_alloc(m, in), dR, CPRef!Adm!Tracker!do_reclaim(m, in, dR), dk,
              IF in.resp = None THEN "VALID" ELSE CPRef!Adm!Tracker!classify(m, in.resp),
              IF dk THEN CPRef!Adm!Tracker!reclaim_class(m, in.reclaim, dR) ELSE "OK",
              IF dk /\ in.reclaim.slot < DEPTH THEN m.entry[in.reclaim.slot].meta ELSE ZeroEntry.meta,
              CPRef!Adm!Tracker!is_full(m) \/ CPRef!Adm!Tracker!free_slot(m) = {})
  BY Zenon DEF CPRef!Adm!Tracker!step
<1>3. /\ CPRef!Adm!Tracker!do_alloc(m, in) = A /\ dR = R /\ dk = ok
      /\ CPRef!Adm!Tracker!do_reclaim(m, in, R) = C
  BY SameInnerTrackerDecisions
<1>4. CPRef!Adm!Tracker!classify(m, in.resp) = AdmRef!Tracker!classify(m, in.resp)
  BY SameInnerTrackerDecisions
<1>5. CPRef!Adm!Tracker!reclaim_class(m, in.reclaim, R) = AdmRef!Tracker!reclaim_class(m, in.reclaim, R)
  BY SameInnerTrackerDecisions
<1>6. (CPRef!Adm!Tracker!is_full(m) \/ CPRef!Adm!Tracker!free_slot(m) = {}) = refused
  BY SameInnerTrackerDecisions
<1> HIDE DEF Run, A, R, C, ok, dR, dk, refused
<1>7. (IF in.resp = None THEN "VALID" ELSE CPRef!Adm!Tracker!classify(m, in.resp)) = class
  BY <1>4
<1>8. (IF dk THEN CPRef!Adm!Tracker!reclaim_class(m, in.reclaim, dR) ELSE "OK") = rclass
  BY <1>3, <1>5
<1>9. (IF dk /\ in.reclaim.slot < DEPTH THEN m.entry[in.reclaim.slot].meta ELSE ZeroEntry.meta) = meta
  BY <1>3
<1> HIDE DEF class, rclass, meta
<1>10. CPRef!Adm!Tracker!step(m, in) = Run(A, R, C, ok, class, rclass, meta, refused)
  BY <1>2, <1>3, <1>6, <1>7, <1>8, <1>9, Zenon
<1>11. CPRef!Adm!Tracker!mark_timeouts(m, in, R \cup C) = m1
  BY SameInnerTrackerAssignments
<1> HIDE DEF m1
<1>12. CPRef!Adm!Tracker!respond(m1, in, class) = m2
  BY SameInnerTrackerAssignments
<1> HIDE DEF m2
<1>13. CPRef!Adm!Tracker!register_reclaim(m2, in, ok, rclass, meta) = m3
  BY SameInnerTrackerAssignments, Zenon
<1> HIDE DEF m3
<1>14. CPRef!Adm!Tracker!free_reclaimed(m3, C) = m4
  BY SameInnerTrackerAssignments
<1> HIDE DEF m4
<1>15. CPRef!Adm!Tracker!allocate(m4, in, A) = m5
  BY SameInnerTrackerAssignments
<1> HIDE DEF m5
<1>16. CPRef!Adm!Tracker!count_full(m5, in, refused) = m6
  BY SameInnerTrackerAssignments, Zenon
<1> HIDE DEF m6
<1>17. CPRef!Adm!Tracker!size(A) - CPRef!Adm!Tracker!size(R) - CPRef!Adm!Tracker!size(C) = n
  BY SameInnerTrackerAssignments
<1> HIDE DEF n
<1>18. CPRef!Adm!Tracker!occupy(m6, n) = AdmRef!Tracker!occupy(m6, n)
  BY SameInnerTrackerAssignments
<1>19. Run(A, R, C, ok, class, rclass, meta, refused) = CPRef!Adm!Tracker!occupy(m6, n)
  BY <1>11, <1>12, <1>13, <1>14, <1>15, <1>16, <1>17, Zenon DEF Run
<1> QED BY <1>1, <1>10, <1>18, <1>19, Zenon

\* The datapath inside the model is the datapath's model.
LEMMA SameDatapathModel ==
  ASSUME NEW m, NEW in
  PROVE  /\ CPRef!Adm!New = AdmRef!New
         /\ CPRef!Adm!admit(m, in) = AdmRef!admit(m, in)
         /\ CPRef!Adm!retire_commit(m, in) = AdmRef!retire_commit(m, in)
         /\ CPRef!Adm!reclaim_commit(m, in) = AdmRef!reclaim_commit(m, in)
         /\ CPRef!Adm!step(m, in) = AdmRef!step(m, in)
<1>1. CPRef!Adm!New = AdmRef!New
  BY SameInnerTrackerAssignments DEF CPRef!Adm!New, AdmRef!New, CPRef!Adm!Pools0, AdmRef!Pools0
<1>2. CPRef!Adm!consume_ready(m, in.req.credit) = AdmRef!consume_ready(m, in.req.credit)
  BY DEF CPRef!Adm!consume_ready, AdmRef!consume_ready, CPRef!Adm!Pools0, AdmRef!Pools0
<1>3. CPRef!Adm!Tracker!is_full(m.trk) = AdmRef!Tracker!is_full(m.trk)
  BY SameInnerTrackerDecisions
<1>4. CPRef!Adm!admit(m, in) = AdmRef!admit(m, in)
  BY <1>2, <1>3 DEF CPRef!Adm!admit, AdmRef!admit
<1>5. CPRef!Adm!retire_commit(m, in) = AdmRef!retire_commit(m, in)
  BY SameInnerTrackerDecisions DEF CPRef!Adm!retire_commit, AdmRef!retire_commit
<1>6. CPRef!Adm!reclaim_commit(m, in) = AdmRef!reclaim_commit(m, in)
  BY <1>5, SameInnerTrackerDecisions DEF CPRef!Adm!reclaim_commit, AdmRef!reclaim_commit
<1>7. CPRef!Adm!return_agg(m, in) = AdmRef!return_agg(m, in)
  BY <1>5, <1>6 DEF CPRef!Adm!return_agg, AdmRef!return_agg, CPRef!Adm!held, AdmRef!held,
                    CPRef!Adm!Pools0, AdmRef!Pools0
<1>8. CPRef!Adm!credit_cfg_fire(m, in) = AdmRef!credit_cfg_fire(m, in)
  BY DEF CPRef!Adm!credit_cfg_fire, AdmRef!credit_cfg_fire, CPRef!Adm!Pools0, AdmRef!Pools0
<1> DEFINE acc   == AdmRef!admit(m, in)
           moved == AdmRef!move_credits(m, in, acc)
           tin   == AdmRef!tracker_inp(in, acc)
<1>9. CPRef!Adm!move_credits(m, in, acc) = moved
  <2> HIDE DEF acc
  <2> QED BY <1>7, <1>8, Zenon DEF CPRef!Adm!move_credits, AdmRef!move_credits,
                                   CPRef!Adm!Pools0, AdmRef!Pools0
<1>10. CPRef!Adm!issued_tag(m) = AdmRef!issued_tag(m)
  <2>1. CPRef!Adm!Tracker!free_slot(m.trk) = AdmRef!Tracker!free_slot(m.trk)
    BY SameInnerTrackerDecisions
  <2>2. \A s : CPRef!Adm!Tracker!new_gen(m.trk, s) = AdmRef!Tracker!new_gen(m.trk, s)
    BY DEF CPRef!Adm!Tracker!new_gen, AdmRef!Tracker!new_gen
  <2> QED BY <2>1, <2>2 DEF CPRef!Adm!issued_tag, AdmRef!issued_tag
<1>11. CPRef!Adm!buffer(m, in, acc) = AdmRef!buffer(m, in, acc)
  <2> HIDE DEF acc
  <2> QED BY <1>10 DEF CPRef!Adm!buffer, AdmRef!buffer
<1>12. CPRef!Adm!tracker_inp(in, acc) = tin
  <2> HIDE DEF acc
  <2> QED BY Zenon DEF CPRef!Adm!tracker_inp, AdmRef!tracker_inp
<1>13. CPRef!Adm!Tracker!step(moved.trk, tin) = AdmRef!Tracker!step(moved.trk, tin)
  BY SameInnerTrackerStep
<1>14. CPRef!Adm!step(m, in) = AdmRef!step(m, in)
  <2> DEFINE S(a, mv, b) == [mv EXCEPT !.issue = b, !.trk = CPRef!Adm!Tracker!step(mv.trk, CPRef!Adm!tracker_inp(in, a))]
             Q(mv, b, tn) == [mv EXCEPT !.issue = b, !.trk = AdmRef!Tracker!step(mv.trk, tn)]
  <2>1. CPRef!Adm!step(m, in)
          = S(CPRef!Adm!admit(m, in), CPRef!Adm!move_credits(m, in, CPRef!Adm!admit(m, in)),
              CPRef!Adm!buffer(m, in, CPRef!Adm!admit(m, in)))
    BY DEF CPRef!Adm!step
  <2>2. AdmRef!step(m, in) = Q(moved, AdmRef!buffer(m, in, acc), tin)
    BY DEF AdmRef!step
  <2>3. S(acc, moved, AdmRef!buffer(m, in, acc)) = Q(moved, AdmRef!buffer(m, in, acc), tin)
    <3> HIDE DEF acc, moved, tin
    <3> QED BY <1>12, <1>13
  <2> HIDE DEF S, Q, moved, tin, acc
  <2>4. S(CPRef!Adm!admit(m, in), CPRef!Adm!move_credits(m, in, CPRef!Adm!admit(m, in)),
          CPRef!Adm!buffer(m, in, CPRef!Adm!admit(m, in)))
          = S(acc, moved, AdmRef!buffer(m, in, acc))
    <3>1. CPRef!Adm!admit(m, in) = acc
      BY <1>4 DEF acc
    <3> QED BY <3>1, <1>9, <1>11, Zenon
  <2> QED BY <2>1, <2>2, <2>3, <2>4
<1> QED BY <1>1, <1>4, <1>5, <1>6, <1>14

Object(s, p, a, r, d) ==
  [state |-> s, pending |-> p, active |-> a, rsp_reason |-> r, adm |-> d]

\* The object that holds what the registers hold.
ModelOfControlPlane == Object(cfg_state, pending, active, rsp_reason, ModelOfDatapath)

LEMMA EdgeInputType ==
  ASSUME ConfigOK, NEW in \in CPInputs
  PROVE  Wired(in) \in AdmInputType /\ ToAdmission(in) \in AdmInputType
<1>1. /\ active.timeout_en \in BOOLEAN /\ active.timeout_thresh \in 0 .. TS_MOD - 1
      /\ active.epoch \in Epochs /\ req_accept_enable \in BOOLEAN
      /\ pending.cmax \in [Pools -> 0 .. 2 * COUNT_MAX + 1]
  BY ControlPlaneAssumption DEF ConfigOK, req_accept_enable
<1>2. in \in CPInputType
  BY ControlPlaneAssumption
<1>3. Wired(in) \in AdmInputType
  BY <1>1, <1>2 DEF Wired, AdmInputType, CPInputType
<1>4. [Wired(in) EXCEPT !.committed_max = pending.cmax, !.frozen_and_empty = TRUE] \in AdmInputType
  BY <1>1, <1>2 DEF Wired, AdmInputType, CPInputType
<1> QED BY <1>3, <1>4 DEF ToAdmission

\* The model sees from its first pass what the hardware sees on the edge.
LEMMA SameQuiescence ==
  ASSUME AdmInv, TrackerInv, ConfigOK, NEW in \in CPInputs, NEW m, m = ModelOfControlPlane
  PROVE  /\ CPRef!quiescent(m, in) = quiescent(in)
         /\ CPRef!real(m, in) = ToAdmission(in)
<1> DEFINE w == Wired(in)
           d == ModelOfDatapath
<1>1. /\ m.state = cfg_state /\ m.pending = pending /\ m.active = active /\ m.adm = d
  BY DEF ModelOfControlPlane, Object
<1>2. CPRef!base(m, in) = w
  BY <1>1 DEF CPRef!base, Wired, req_accept_enable
<1>3. w \in AdmInputType
  BY EdgeInputType
<1>4. /\ RetireSet(w) \cup ReclaimSet(w) = Freed(in)
  BY DEF Wired, Freed, RetireSet, ReclaimSet, ReclaimAccept, ReclaimClass
<1>5. /\ d.used = used /\ d.issue = issue /\ d.trk.occ = occupancy
      /\ d.trk.live = live /\ d.trk.timed = timed_out
  BY DEF ModelOfDatapath, ModelOfRegisters
<1>6. /\ CPRef!Adm!admit(d, w) = req_accept(w)
      /\ CPRef!Adm!retire_commit(d, w) = RetireSet(w)
      /\ CPRef!Adm!reclaim_commit(d, w) = ReclaimSet(w)
  BY <1>3, SameAdmission, SameDatapathModel
<1>7. quarantined_count = 0 <=> live \cap timed_out = {}
  <2>1. IsFiniteSet(live \cap timed_out)
    BY SlotsFinite, FS_Subset DEF AdmInv, SlotsOK
  <2> QED BY <2>1, FS_EmptySet DEF quarantined_count
<1>8. DOMAIN used = Pools
  BY DEF AdmInv, LedgerOK
<1> HIDE DEF w, d
<1>9. CPRef!quiescent(m, in) =
        /\ occupancy = 0 /\ live \cap timed_out = {}
        /\ \A p \in Pools : used[p] = 0
        /\ issue = None /\ ~req_accept(w)
        /\ RetireSet(w) = {} /\ ReclaimSet(w) = {}
  <2> DEFINE o == CPRef!Adm!outputs(d, w)
  <2>1. /\ o.occupancy = occupancy /\ o.quarantined = live \cap timed_out
        /\ o.used = used /\ o.issue_tag = issue
        /\ o.req_accept = req_accept(w)
        /\ o.retire_commit_fire = (RetireSet(w) # {})
        /\ o.reclaim_commit_fire = (ReclaimSet(w) # {})
    BY <1>5, <1>6 DEF CPRef!Adm!outputs
  <2>2. CPRef!quiescent(m, in) =
          /\ o.occupancy = 0 /\ o.quarantined = {}
          /\ \A p \in DOMAIN o.used : o.used[p] = 0
          /\ o.issue_tag = None /\ ~o.req_accept
          /\ ~o.retire_commit_fire /\ ~o.reclaim_commit_fire
    BY <1>1, <1>2, Zenon DEF CPRef!quiescent
  <2> HIDE DEF o
  <2> QED BY <2>1, <2>2, <1>8
<1>10. CPRef!quiescent(m, in) = quiescent(in)
  BY <1>4, <1>7, <1>9 DEF quiescent, all_unused, w
<1>11. CPRef!gcommit(m, in) = global_cfg_commit_fire(in)
  BY <1>1, <1>10 DEF CPRef!gcommit, global_cfg_commit_fire
<1>12. CPRef!real(m, in) = ToAdmission(in)
  BY <1>1, <1>2, <1>11 DEF CPRef!real, ToAdmission, w
<1> QED BY <1>10, <1>12

LEMMA SameReason ==
  ASSUME NEW c \in Configs
  PROVE  /\ CPRef!reason(c) = req_reason(c)
         /\ CPRef!reason(c) = "OK" <=> ValidConfig(c)
<1>1. cmax_ok(c) <=> ~\E p \in DOMAIN c.cmax : c.cmax[p] > COUNT_MAX
  BY ControlPlaneAssumption, CreditSizeAssumption DEF cmax_ok
<1>2. CPRef!reason(c) = req_reason(c)
  BY <1>1 DEF CPRef!reason, req_reason, to_ok, hdm_ok
<1>3. req_reason(c) = "OK" <=> ValidConfig(c)
  BY DEF req_reason, ValidConfig
<1> QED BY <1>2, <1>3

\* Its control block does what the controller's edge does.
LEMMA ControlMatches ==
  ASSUME ConfigOK, NEW in \in CPInputs, NEW q \in BOOLEAN,
         CfgEdge(in.cfg_req, q, in.cfg_rsp_ready), NEW m, m = ModelOfControlPlane
  PROVE  CPRef!control(m, in, q)
           = Object(cfg_state', pending', active', rsp_reason', ModelOfDatapath)
<1> DEFINE req == in.cfg_req
           d   == ModelOfDatapath
<1>1. m = Object(cfg_state, pending, active, rsp_reason, d)
  BY DEF ModelOfControlPlane
<1>2. req # None => req \in Configs
  BY ControlPlaneAssumption DEF CPInputType
<1>3. cfg_state \in {"IDLE", "DRAIN", "RSP_OK", "RSP_INV"}
  BY DEF ConfigOK, CfgStates
<1> HIDE DEF d, req
<1>4. m.state = cfg_state /\ m.pending = pending
  BY <1>1 DEF Object
<1>5. CASE CfgAccept(req)
  <2>1. /\ CPRef!reason(req) = rsp_reason' /\ req = pending' /\ active' = active
        /\ cfg_state' = IF CPRef!reason(req) = "OK" THEN "DRAIN" ELSE "RSP_INV"
        /\ m.state = "IDLE" /\ req # None
    BY <1>2, <1>4, <1>5, SameReason DEF CfgAccept
  <2>2. CPRef!control(m, in, q) = CPRef!take(m, req)
    BY <2>1 DEF CPRef!control, req
  <2>3. CPRef!take(m, req) =
          [m EXCEPT !.pending = pending', !.rsp_reason = rsp_reason', !.state = cfg_state']
    BY <2>1 DEF CPRef!take
  <2>4. [Object(cfg_state, pending, active, rsp_reason, d)
           EXCEPT !.pending = pending', !.rsp_reason = rsp_reason', !.state = cfg_state']
          = Object(cfg_state', pending', active, rsp_reason', d)
    <3>1. [Object(cfg_state, pending, active, rsp_reason, d) EXCEPT !.pending = pending']
            = Object(cfg_state, pending', active, rsp_reason, d)
      BY DEF Object
    <3>2. [Object(cfg_state, pending', active, rsp_reason, d) EXCEPT !.rsp_reason = rsp_reason']
            = Object(cfg_state, pending', active, rsp_reason', d)
      BY DEF Object
    <3>3. [Object(cfg_state, pending', active, rsp_reason', d) EXCEPT !.state = cfg_state']
            = Object(cfg_state', pending', active, rsp_reason', d)
      BY DEF Object
    <3>4. [Object(cfg_state, pending, active, rsp_reason, d)
             EXCEPT !.pending = pending', !.rsp_reason = rsp_reason']
            = Object(cfg_state, pending', active, rsp_reason', d)
      BY <3>1, <3>2
    <3> QED BY <3>3, <3>4, Zenon
  <2>5. CPRef!control(m, in, q) = Object(cfg_state', pending', active, rsp_reason', d)
    BY <1>1, <2>2, <2>3, <2>4, Zenon
  <2> QED BY <2>1, <2>5 DEF d
<1>6. CASE CfgCommit(q)
  <2>1. /\ m.state = "DRAIN" /\ q /\ active' = pending /\ cfg_state' = "RSP_OK"
        /\ pending' = pending /\ rsp_reason' = rsp_reason
    BY <1>4, <1>6 DEF CfgCommit
  <2>2. CPRef!control(m, in, q) = [m EXCEPT !.active = active', !.state = cfg_state']
    BY <1>4, <2>1 DEF CPRef!control
  <2>3. [Object(cfg_state, pending, active, rsp_reason, d)
           EXCEPT !.active = active', !.state = cfg_state']
          = Object(cfg_state', pending, active', rsp_reason, d)
    <3>1. [Object(cfg_state, pending, active, rsp_reason, d) EXCEPT !.active = active']
            = Object(cfg_state, pending, active', rsp_reason, d)
      BY DEF Object
    <3>2. [Object(cfg_state, pending, active', rsp_reason, d) EXCEPT !.state = cfg_state']
            = Object(cfg_state', pending, active', rsp_reason, d)
      BY DEF Object
    <3> QED BY <3>1, <3>2
  <2>4. CPRef!control(m, in, q) = Object(cfg_state', pending, active', rsp_reason, d)
    BY <1>1, <2>2, <2>3, Zenon
  <2> QED BY <2>1, <2>4 DEF d
<1>7. CASE CfgRespond(in.cfg_rsp_ready)
  <2>1. /\ m.state # "IDLE" /\ m.state # "DRAIN" /\ in.cfg_rsp_ready /\ cfg_state' = "IDLE"
        /\ pending' = pending /\ rsp_reason' = rsp_reason /\ active' = active
    BY <1>4, <1>7 DEF CfgRespond, cfg_rsp_valid
  <2>2. CPRef!control(m, in, q) = [m EXCEPT !.state = cfg_state']
    BY <2>1 DEF CPRef!control
  <2>3. [Object(cfg_state, pending, active, rsp_reason, d) EXCEPT !.state = cfg_state']
          = Object(cfg_state', pending, active, rsp_reason, d)
    BY DEF Object
  <2>4. CPRef!control(m, in, q) = Object(cfg_state', pending, active, rsp_reason, d)
    BY <1>1, <2>2, <2>3, Zenon
  <2> QED BY <2>1, <2>4 DEF d
<1>8. CASE CfgHold(req, q, in.cfg_rsp_ready)
  <2>1. /\ m.state = "IDLE" => req = None
        /\ m.state = "DRAIN" => ~q
        /\ m.state # "IDLE" /\ m.state # "DRAIN" => ~in.cfg_rsp_ready
        /\ cfg_state' = cfg_state /\ pending' = pending
        /\ rsp_reason' = rsp_reason /\ active' = active
    BY <1>3, <1>4, <1>8 DEF CfgHold, cfg_rsp_valid, cfgVars
  <2>2. CPRef!control(m, in, q) = m
    BY <2>1 DEF CPRef!control, req
  <2> QED BY <1>1, <2>1, <2>2 DEF d
<1> QED BY <1>5, <1>6, <1>7, <1>8 DEF CfgEdge, req

LEMMA ControlPlaneEdgeMatches ==
  ASSUME CPInv, TrackerInv, NEW in \in CPInputs, CPEdge(in)
  PROVE  CPRef!step(ModelOfControlPlane, in) = ModelOfControlPlane'
<1> DEFINE m == ModelOfControlPlane
           q == quiescent(in)
           d == ModelOfDatapath
           next == Object(cfg_state', pending', active', rsp_reason', d)
<1>1. CPRef!quiescent(m, in) = q /\ CPRef!real(m, in) = ToAdmission(in)
  BY SameQuiescence DEF CPInv
<1>2. q \in BOOLEAN
  BY DEF quiescent
<1>3. CfgEdge(in.cfg_req, q, in.cfg_rsp_ready)
  BY DEF CPEdge
<1>4. CPRef!control(m, in, q) = next
  <2> HIDE DEF q
  <2> QED BY <1>2, <1>3, ControlMatches DEF CPInv
<1>5. CPRef!Adm!step(d, ToAdmission(in)) = ModelOfDatapath'
  <2>1. ToAdmission(in) \in AdmInputType /\ PortsOK(ToAdmission(in))
    BY EdgeInputType, EdgePortsOK DEF CPInv
  <2>2. AdmRef!step(d, ToAdmission(in)) = ModelOfDatapath'
    BY <2>1, DatapathEdgeMatches DEF CPInv, CPEdge
  <2> HIDE DEF d
  <2> QED BY <2>2, SameDatapathModel
<1>6. CPRef!step(m, in) = [next EXCEPT !.adm = CPRef!Adm!step(d, ToAdmission(in))]
  <2> DEFINE S(k, r) == [CPRef!control(m, in, k) EXCEPT !.adm = CPRef!Adm!step(@, r)]
  <2> HIDE DEF m, q
  <2>1. CPRef!step(m, in) = S(CPRef!quiescent(m, in), CPRef!real(m, in))
    BY Zenon DEF CPRef!step
  <2>2. S(q, ToAdmission(in)) = [next EXCEPT !.adm = CPRef!Adm!step(next.adm, ToAdmission(in))]
    <3> HIDE DEF next
    <3> QED BY <1>4
  <2>3. next.adm = d
    BY DEF Object
  <2> HIDE DEF S, next, d
  <2> QED BY <1>1, <2>1, <2>2, <2>3, Zenon
<1>7. ModelOfControlPlane' = Object(cfg_state', pending', active', rsp_reason', ModelOfDatapath')
  BY DEF ModelOfControlPlane, Object
<1> HIDE DEF m, d
<1>8. [next EXCEPT !.adm = ModelOfDatapath']
        = Object(cfg_state', pending', active', rsp_reason', ModelOfDatapath')
  BY DEF Object
<1> HIDE DEF next
<1>9. CPRef!step(m, in) = ModelOfControlPlane'
  BY <1>5, <1>6, <1>7, <1>8, Zenon
<1> QED BY <1>9 DEF m

LEMMA NewControlPlaneMatches ==
  /\ CPInit => ModelOfControlPlane = CPRef!New
  /\ CPReset => ModelOfControlPlane' = CPRef!New
<1>1. CPRef!New = [state |-> "IDLE", pending |-> ZeroConfig, active |-> ZeroConfig,
                   rsp_reason |-> "OK", adm |-> AdmRef!New]
  BY SameDatapathModel DEF CPRef!New
<1> QED BY <1>1, NewDatapathMatches DEF CPInit, CPReset, CfgInit, CfgReset,
               ModelOfControlPlane, Object

CPReplayInv == CPInv /\ TrackerInv /\ cp_ref = ModelOfControlPlane

LEMMA CPReplayMatches == CPReplayInv => ControlPlaneMatchesModel
<1>1. ModelOfRegisters = AdmissionPart!TrackerPart!ModelOfRegisters
  BY DEF ModelOfRegisters, AdmissionPart!TrackerPart!ModelOfRegisters
<1> QED BY <1>1 DEF CPReplayInv, ModelOfControlPlane, Object, ModelOfDatapath, ControlPlaneMatchesModel,
                    AdmissionPart!AdmissionMatchesModel, AdmissionPart!TrackerPart!TrackerMatchesModel

LEMMA NextCPReplayInv == CPReplayInv /\ [CPReplayNext]_cpReplayVars => CPReplayInv'
<1> SUFFICES ASSUME CPReplayInv, [CPReplayNext]_cpReplayVars PROVE CPReplayInv'
  OBVIOUS
<1>1. [CPNext]_cpVars
  BY DEF CPReplayNext, CPReplayReset, CPReplayEdge, CPNext, cpReplayVars
<1>2. CPInv'
  BY <1>1, NextCPInv DEF CPReplayInv
<1>3. CASE CPReplayReset
  <2>1. TrackerInv'
    BY <1>3, ResetTrackerInv DEF CPReplayReset, CPReset, AdmissionReset
  <2> QED BY <1>2, <1>3, <2>1, NewControlPlaneMatches DEF CPReplayInv, CPReplayReset
<1>4. ASSUME NEW in \in CPInputs, CPReplayEdge(in) PROVE CPReplayInv'
  <2>1. TrackerInv'
    <3>1. ToTracker(ToAdmission(in)) \in TrackerInputType /\ TrackerEdge(ToTracker(ToAdmission(in)))
      BY <1>4, EdgeInputType, ToTrackerType DEF CPReplayInv, CPInv, CPReplayEdge, CPEdge, AdmissionEdge
    <3> QED BY <3>1, EdgeSlots, EdgeType DEF CPReplayInv, TrackerInv, TrackerTypeOK, SlotsOK
  <2>2. cp_ref' = ModelOfControlPlane'
    BY <1>4, ControlPlaneEdgeMatches DEF CPReplayInv, CPReplayEdge
  <2> QED BY <1>2, <2>1, <2>2 DEF CPReplayInv
<1>5. CASE UNCHANGED cpReplayVars
  <2>1. TrackerInv'
    BY <1>5, TrackerStep DEF cpReplayVars, cpVars, admVars, CPReplayInv
  <2>2. cp_ref' = ModelOfControlPlane'
    BY <1>5 DEF cpReplayVars, cpVars, admVars, trackerVars, slotVars, creditVars, cfgVars, CPReplayInv,
                ModelOfControlPlane, Object, ModelOfDatapath, ModelOfRegisters
  <2> QED BY <1>2, <2>1, <2>2 DEF CPReplayInv
<1> QED BY <1>3, <1>4, <1>5 DEF CPReplayNext

\* The control plane and its model hold the same after any sequence of beats, though
\* the model decides a commit in a pass over its datapath of its own
\* (config_model.py, step).
THEOREM ControlPlaneAlwaysMatchesModel == CPReplaySpec => []ControlPlaneMatchesModel
<1>1. CPReplayInit => CPReplayInv
  BY InitCPInv, InitTrackerInv, NewControlPlaneMatches
  DEF CPReplayInit, CPInit, AdmissionInit, CPReplayInv
<1>2. QED
  BY <1>1, NextCPReplayInv, CPReplayMatches, PTL DEF CPReplaySpec
=============================================================================
