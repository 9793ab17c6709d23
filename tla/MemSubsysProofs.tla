--------------------------- MODULE MemSubsysProofs ---------------------------
(***************************************************************************)
(* Proofs about the memory datapath: the scheduler, the memory, and the    *)
(* two wired together beside their model. Tables and buffers have any      *)
(* size, tags, addresses and data are any sets.                            *)
(***************************************************************************)
EXTENDS MemSubsysReplay, SequenceTheorems, FiniteSetTheorems, TLAPS

-----------------------------------------------------------------------------
(***************************************************************************)
(* RwScheduler. Neither the order of ages nor that of the accesses is      *)
(* inductive alone: an access is issued when no older entry blocks it,     *)
(* which says something only while age is a total order of the valid       *)
(* entries, and the matrix keeps bits of freed entries that the next       *)
(* acceptance into their slot must wipe out.                               *)
(***************************************************************************)

SchedulerInv == SchedulerTypeOK /\ DoneWasIssued /\ AgeTotalOrder /\ PerAddressOrder

\* A selection is one slot at most.
LEMMA LowestIsOne ==
  ASSUME NEW S \in SUBSET SchSlots
  PROVE  /\ LowestOf(S) \subseteq S
         /\ \A i, j \in LowestOf(S) : i = j
  BY SchedulerAssumption DEF LowestOf, SchSlots

LEMMA AcceptFacts ==
  ASSUME NEW in
  PROVE  /\ AcceptSet(in) \subseteq SchSlots \ vld
         /\ \A i, j \in AcceptSet(in) : i = j
         /\ AcceptSet(in) # {} => in.iss # None
  BY LowestIsOne DEF AcceptSet, free_slot

\* An access is issued for an entry that waits and that nothing blocks.
LEMMA IssueFacts ==
  ASSUME SchedulerTypeOK, NEW in
  PROVE  IssueSet(in) \subseteq elig
  BY LowestIsOne DEF IssueSet, mem_sel, elig, SchedulerTypeOK

LEMMA HitFacts ==
  ASSUME NEW in
  PROVE  mc_hit(in) \subseteq (vld \cap issd) \ done
  BY DEF mc_hit

LEMMA RespondFacts ==
  ASSUME SchedulerTypeOK, NEW in
  PROVE  RespondSet(in) \subseteq vld \cap done
  BY LowestIsOne DEF RespondSet, rsp_sel, SchedulerTypeOK

LEMMA SchedulerInputFacts ==
  ASSUME NEW in \in SchedulerInputType
  PROVE  /\ in.iss # None => in.iss \in Txn
         /\ in.mc # None => in.mc.rdata \in Data
  BY DEF SchedulerInputType, Completion

LEMMA InitSchedulerInv == SchedulerInit => SchedulerInv
  BY SchedulerAssumption, MemoryPortAssumption
  DEF SchedulerInit, SchedulerInv, SchedulerTypeOK, DoneWasIssued, AgeTotalOrder,
      PerAddressOrder, ZeroData, Txn

LEMMA ResetSchedulerInv == SchedulerReset => SchedulerInv'
  BY SchedulerAssumption, MemoryPortAssumption
  DEF SchedulerReset, SchedulerInv, SchedulerTypeOK, DoneWasIssued, AgeTotalOrder,
      PerAddressOrder, ZeroData, Txn

\* The age order survives an edge: the new entry is younger than every valid one
\* and nothing else between valid entries changes.
LEMMA AgeOrderKept ==
  ASSUME AgeTotalOrder,
         NEW accepted \in SUBSET (SchSlots \ vld),
         \A i, j \in accepted : i = j,
         NEW responded,
         vld' = (vld \ responded) \cup accepted,
         older' = AgeAfter(accepted)
  PROVE  AgeTotalOrder'
<1>1. ASSUME NEW i \in vld', NEW j \in vld'
      PROVE  <<i, j>> \in older' <=>
               \/ i \in vld /\ j \in vld /\ <<i, j>> \in older
               \/ i \in vld /\ j \in accepted
  BY <1>1 DEF AgeAfter
<1>2. \A i \in vld' : (i \in vld /\ i \notin accepted) \/ (i \in accepted /\ i \notin vld)
  OBVIOUS
<1>3. \A i \in vld' : <<i, i>> \notin older'
  BY <1>1, <1>2 DEF AgeTotalOrder
<1>4. \A i, j \in vld' : i # j => (<<i, j>> \in older' <=> <<j, i>> \notin older')
  BY <1>1, <1>2 DEF AgeTotalOrder
<1>5. \A i, j, k \in vld' :
        <<i, j>> \in older' /\ <<j, k>> \in older' => <<i, k>> \in older'
  BY <1>1, <1>2 DEF AgeTotalOrder
<1> QED BY <1>3, <1>4, <1>5 DEF AgeTotalOrder

LEMMA EdgeSchedulerInv ==
  ASSUME SchedulerInv, NEW in \in SchedulerInputType, SchedulerEdge(in)
  PROVE  SchedulerInv'
<1> DEFINE accepted  == AcceptSet(in)
           issued    == IssueSet(in)
           hit       == mc_hit(in)
           responded == RespondSet(in)
<1>1. /\ accepted \subseteq SchSlots \ vld
      /\ \A i, j \in accepted : i = j
      /\ accepted # {} => in.iss \in Txn
  BY AcceptFacts, SchedulerInputFacts
<1>2. issued \subseteq elig
  BY IssueFacts DEF SchedulerInv
<1>3. /\ hit \subseteq (vld \cap issd) \ done
      /\ hit # {} => in.mc.rdata \in Data
  <2>1. hit \subseteq (vld \cap issd) \ done
    BY HitFacts
  <2>2. hit # {} => in.mc # None
    BY DEF mc_hit
  <2> QED BY <2>1, <2>2, SchedulerInputFacts
<1>4. responded \subseteq vld \cap done
  BY RespondFacts DEF SchedulerInv
<1>5. /\ vld'   = (vld \ responded) \cup accepted
      /\ issd'  = ((issd \ responded) \cup issued) \ accepted
      /\ done'  = ((done \ responded) \cup hit) \ accepted
      /\ rdat'  = [i \in SchSlots |-> IF i \in hit THEN in.mc.rdata ELSE rdat[i]]
      /\ txn'   = [i \in SchSlots |-> IF i \in accepted THEN in.iss ELSE txn[i]]
      /\ older' = AgeAfter(accepted)
  BY DEF SchedulerEdge, UpdateTable
<1> HIDE DEF accepted, issued, hit, responded
<1>6. SchedulerTypeOK'
  <2>1. issued \subseteq SchSlots
    BY <1>2 DEF elig, SchedulerInv, SchedulerTypeOK
  <2>2. /\ vld' \subseteq SchSlots /\ issd' \subseteq SchSlots /\ done' \subseteq SchSlots
    BY <1>1, <1>3, <1>5, <2>1 DEF SchedulerInv, SchedulerTypeOK
  <2>3. txn' \in [SchSlots -> Txn] /\ rdat' \in [SchSlots -> Data]
    BY <1>1, <1>3, <1>5 DEF SchedulerInv, SchedulerTypeOK
  <2>4. older' \subseteq SchSlots \X SchSlots
    BY <1>1, <1>5 DEF SchedulerInv, SchedulerTypeOK, AgeAfter
  <2> QED BY <2>2, <2>3, <2>4 DEF SchedulerTypeOK
<1>7. DoneWasIssued'
  BY <1>1, <1>2, <1>3, <1>4, <1>5 DEF SchedulerInv, DoneWasIssued, elig
<1>8. AgeTotalOrder'
  BY <1>1, <1>5, AgeOrderKept DEF SchedulerInv
<1>9. PerAddressOrder'
  <2> SUFFICES ASSUME NEW i \in vld', NEW j \in vld',
                      <<i, j>> \in older', txn'[i].adr = txn'[j].adr, j \in issd'
               PROVE  i \in done'
    BY DEF PerAddressOrder
  <2>1. j \notin accepted /\ i \notin accepted /\ <<i, j>> \in older
    BY <1>1, <1>5 DEF AgeAfter
  <2>2. i \in vld /\ j \in vld /\ i \notin responded
    BY <2>1, <1>1, <1>4, <1>5
  <2>3. i \in SchSlots /\ j \in SchSlots /\ txn[i].adr = txn[j].adr
    BY <2>1, <2>2, <1>5 DEF SchedulerInv, SchedulerTypeOK
  <2>4. CASE j \in issd
    BY <2>1, <2>2, <2>3, <2>4, <1>5 DEF SchedulerInv, PerAddressOrder
  <2>5. CASE j \in issued
    BY <2>1, <2>2, <2>3, <2>5, <1>2, <1>5 DEF elig, Blocks
  <2> QED BY <2>4, <2>5, <1>5
<1> QED BY <1>6, <1>7, <1>8, <1>9 DEF SchedulerInv

LEMMA NextSchedulerInv == SchedulerInv /\ [SchedulerNext]_schedulerVars => SchedulerInv'
<1> SUFFICES ASSUME SchedulerInv, [SchedulerNext]_schedulerVars PROVE SchedulerInv'
  OBVIOUS
<1>1. CASE SchedulerReset
  BY <1>1, ResetSchedulerInv
<1>2. ASSUME NEW in \in SchedulerInputs, SchedulerEdge(in) PROVE SchedulerInv'
  BY <1>2, EdgeSchedulerInv, SchedulerAssumption
<1>3. CASE UNCHANGED schedulerVars
  BY <1>3 DEF schedulerVars, SchedulerInv, SchedulerTypeOK, DoneWasIssued, AgeTotalOrder,
              PerAddressOrder
<1> QED BY <1>1, <1>2, <1>3 DEF SchedulerNext

\* The scheduler's inductive invariant.
THEOREM SchedulerCorrect == SchedulerSpec => []SchedulerInv
  BY InitSchedulerInv, NextSchedulerInv, PTL DEF SchedulerSpec

\* Age is a strict total order of the valid entries of a table of any size.
THEOREM SchedulerAge == SchedulerSpec => []AgeTotalOrder
<1>1. SchedulerInv => AgeTotalOrder
  BY DEF SchedulerInv
<1> QED BY <1>1, SchedulerCorrect, PTL

\* Accesses to one address never overtake each other on the way to the memory.
THEOREM SchedulerAddressOrder == SchedulerSpec => []PerAddressOrder
<1>1. SchedulerInv => PerAddressOrder
  BY DEF SchedulerInv
<1> QED BY <1>1, SchedulerCorrect, PTL

-----------------------------------------------------------------------------
(***************************************************************************)
(* MemBackend implements TaggedMemory. The step to prove is about a        *)
(* circular buffer in which a push writes behind the last occupied place:  *)
(* the invariant relates tail, head and cnt, which the code moves apart    *)
(* from each other.                                                        *)
(***************************************************************************)

BackendInv == BackendTypeOK /\ QueueConsistent

LEMMA InitBackendInv == BackendInit => BackendInv
  BY BackendAssumption, MemoryPortAssumption
  DEF BackendInit, BackendInv, BackendTypeOK, QueueConsistent, Wrapped, Places,
      ZeroData, ZeroCompletion, Completion, Txn

LEMMA ResetBackendInv == BackendReset => BackendInv'
  BY BackendAssumption, MemoryPortAssumption
  DEF BackendReset, BackendInv, BackendTypeOK, QueueConsistent, Wrapped, Places,
      ZeroData, ZeroCompletion, Completion, Txn

\* Where the pointers and the count go at an edge.
LEMMA EdgePointers ==
  ASSUME BackendInv, NEW in \in BackendInputType, BackendEdge(in)
  PROVE  /\ head' \in Places /\ tail' \in Places /\ cnt' \in 0 .. CQ_DEPTH
         /\ QueueConsistent'
<1>1. /\ CQ_DEPTH \in Nat \ {0}
      /\ head \in 0 .. CQ_DEPTH - 1 /\ tail \in 0 .. CQ_DEPTH - 1
      /\ cnt \in 0 .. CQ_DEPTH
      /\ tail = IF head + cnt < CQ_DEPTH THEN head + cnt ELSE head + cnt - CQ_DEPTH
  BY BackendAssumption DEF BackendInv, BackendTypeOK, QueueConsistent, Wrapped, Places
<1>2. /\ accept_be(in) => cnt # CQ_DEPTH
      /\ pop(in) => cnt # 0
  BY DEF accept_be, req_ready_be, pop, cmp
<1>3. /\ tail' = IF accept_be(in) THEN (IF tail = CQ_DEPTH - 1 THEN 0 ELSE tail + 1) ELSE tail
      /\ head' = IF pop(in) THEN (IF head = CQ_DEPTH - 1 THEN 0 ELSE head + 1) ELSE head
      /\ cnt' = cnt + (IF accept_be(in) THEN 1 ELSE 0) - (IF pop(in) THEN 1 ELSE 0)
  BY DEF BackendEdge, Push, pinc, cnt_next
<1>4. QED
  <2>1. CASE accept_be(in) /\ pop(in)
    BY <1>1, <1>2, <1>3, <2>1 DEF QueueConsistent, Wrapped, Places
  <2>2. CASE accept_be(in) /\ ~pop(in)
    BY <1>1, <1>2, <1>3, <2>2 DEF QueueConsistent, Wrapped, Places
  <2>3. CASE ~accept_be(in) /\ pop(in)
    BY <1>1, <1>2, <1>3, <2>3 DEF QueueConsistent, Wrapped, Places
  <2>4. CASE ~accept_be(in) /\ ~pop(in)
    BY <1>1, <1>2, <1>3, <2>4 DEF QueueConsistent, Wrapped, Places
  <2>5. QED
    BY <2>1, <2>2, <2>3, <2>4

LEMMA EnqueuedType ==
  ASSUME BackendTypeOK, NEW req \in Txn
  PROVE  Enqueued(req) \in Completion
  BY MemoryPortAssumption DEF Enqueued, BackendTypeOK, Completion, Txn, ZeroData

LEMMA EdgeBackendInv ==
  ASSUME BackendInv, NEW in \in BackendInputType, BackendEdge(in)
  PROVE  BackendInv'
<1>1. accept_be(in) => in.req \in Txn
  BY DEF accept_be, BackendInputType
<1>2. mem' \in [Addrs -> Data]
  BY <1>1 DEF BackendInv, BackendTypeOK, BackendEdge, Push, Txn
<1>3. cq' \in [Places -> Completion]
  BY <1>1, EnqueuedType DEF BackendInv, BackendTypeOK, BackendEdge, Push
<1>4. QED
  BY <1>2, <1>3, EdgePointers DEF BackendInv, BackendTypeOK

LEMMA NextBackendInv == BackendInv /\ [BackendNext]_backendVars => BackendInv'
<1> SUFFICES ASSUME BackendInv, [BackendNext]_backendVars PROVE BackendInv'
  OBVIOUS
<1>1. CASE BackendReset
  BY <1>1, ResetBackendInv
<1>2. ASSUME NEW in \in BackendInputs, BackendEdge(in) PROVE BackendInv'
  BY <1>2, EdgeBackendInv, BackendAssumption
<1>3. CASE UNCHANGED backendVars
  BY <1>3 DEF backendVars, BackendInv, BackendTypeOK, QueueConsistent, Wrapped
<1>4. QED
  BY <1>1, <1>2, <1>3 DEF BackendNext

\* Pointers, count and data stay in range, and the occupied places are the cnt
\* ones from head on.
THEOREM BackendCorrect == BackendSpec => []BackendInv
  BY InitBackendInv, NextBackendInv, PTL DEF BackendSpec

\* The occupied places are the cnt ones from head on.
THEOREM BackendQueue == BackendSpec => []QueueConsistent
<1>1. BackendInv => QueueConsistent
  BY DEF BackendInv
<1>2. QED
  BY <1>1, BackendCorrect, PTL
-----------------------------------------------------------------------------
(***************************************************************************)
(* The refinement: each edge is one action of the memory with a queue.     *)
(***************************************************************************)

\* The n values of the circle q from h on.
FromCircle(q, h, n) == [k \in 1 .. n |-> q[Wrapped(h + k - 1)]]

LEMMA FromCircleSeq ==
  ASSUME NEW q \in [Places -> Completion], NEW h \in Places, NEW n \in 0 .. CQ_DEPTH
  PROVE  /\ FromCircle(q, h, n) \in Seq(Completion) /\ Len(FromCircle(q, h, n)) = n
         /\ \A k \in 1 .. n : FromCircle(q, h, n)[k] = q[Wrapped(h + k - 1)]
<1>1. CQ_DEPTH \in Nat /\ h \in 0 .. CQ_DEPTH - 1 /\ n \in Nat
  BY BackendAssumption DEF Places
<1>2. \A k \in 1 .. n : Wrapped(h + k - 1) \in Places
  BY <1>1 DEF Wrapped, Places
<1>3. \A k \in 1 .. n : q[Wrapped(h + k - 1)] \in Completion
  BY <1>2
<1>4. FromCircle(q, h, n) \in [1 .. n -> Completion]
  BY <1>3 DEF FromCircle
<1>5. FromCircle(q, h, n) \in Seq(Completion)
  BY <1>1, <1>4, SeqDef
<1>6. Len(FromCircle(q, h, n)) = n
  BY <1>1, <1>4, <1>5, LenProperties
<1>7. QED
  BY <1>5, <1>6 DEF FromCircle

LEMMA QueuedSeq ==
  ASSUME BackendInv
  PROVE  /\ Queued \in Seq(Completion) /\ Len(Queued) = cnt
         /\ \A k \in 1 .. cnt : Queued[k] = cq[Wrapped(head + k - 1)]
<1>1. Queued = FromCircle(cq, head, cnt)
  BY DEF Queued, FromCircle
<1>2. QED
  BY <1>1, FromCircleSeq DEF BackendInv, BackendTypeOK

\* The same after the edge.
LEMMA QueuedSeqPrimed ==
  ASSUME BackendInv'
  PROVE  /\ Queued' \in Seq(Completion) /\ Len(Queued') = cnt'
         /\ \A k \in 1 .. cnt' : Queued'[k] = cq'[Wrapped(head' + k - 1)]
<1>1. cq' \in [Places -> Completion] /\ head' \in Places /\ cnt' \in 0 .. CQ_DEPTH
  BY DEF BackendInv, BackendTypeOK
<1>2. Queued' = FromCircle(cq', head', cnt')
  BY DEF Queued, FromCircle, Wrapped
<1>3. QED
  BY <1>1, <1>2, FromCircleSeq

\* The k-th completion owed after an edge: a delivery moves the queue up by one,
\* and what is pushed comes last.
LEMMA QueuedAfterEdge ==
  ASSUME BackendInv, NEW in \in BackendInputType, BackendEdge(in)
  PROVE  \A k \in 1 .. cnt' :
           LET j == IF pop(in) THEN k + 1 ELSE k
           IN Queued'[k] = IF j <= cnt THEN Queued[j] ELSE Enqueued(in.req)
<1>1. /\ CQ_DEPTH \in Nat /\ cnt \in 0 .. CQ_DEPTH
      /\ head \in 0 .. CQ_DEPTH - 1 /\ tail = Wrapped(head + cnt)
  BY BackendAssumption DEF BackendInv, BackendTypeOK, QueueConsistent, Places
<1>2. /\ accept_be(in) => cnt # CQ_DEPTH
      /\ pop(in) => cnt # 0
  BY DEF accept_be, req_ready_be, pop, cmp
<1>3. /\ head' = IF pop(in) THEN Wrapped(head + 1) ELSE head
      /\ cnt' = cnt + (IF accept_be(in) THEN 1 ELSE 0) - (IF pop(in) THEN 1 ELSE 0)
      /\ \A p \in Places : cq'[p] = IF accept_be(in) /\ p = tail THEN Enqueued(in.req) ELSE cq[p]
  <2>1. pinc(head) = Wrapped(head + 1)
    BY <1>1 DEF pinc, Wrapped
  <2>2. \A p \in Places : cq'[p] = IF accept_be(in) /\ p = tail THEN Enqueued(in.req) ELSE cq[p]
    BY DEF BackendEdge, Push
  <2>3. QED
    BY <2>1, <2>2 DEF BackendEdge, cnt_next
<1>4. BackendInv'
  BY EdgeBackendInv
<1>5. SUFFICES ASSUME NEW k \in 1 .. cnt', NEW j, j = IF pop(in) THEN k + 1 ELSE k
               PROVE  Queued'[k] = IF j <= cnt THEN Queued[j] ELSE Enqueued(in.req)
  OBVIOUS
<1>6. /\ j \in 1 .. cnt + 1 /\ (j = cnt + 1 => accept_be(in))
      /\ Wrapped(head' + k - 1) = Wrapped(head + j - 1)
      /\ Wrapped(head + j - 1) \in Places
  BY <1>1, <1>2, <1>3, <1>5 DEF Wrapped, Places
<1>7. Queued'[k] = cq'[Wrapped(head + j - 1)]
  BY <1>4, <1>5, <1>6, QueuedSeqPrimed
<1>8. CASE j = cnt + 1
  BY <1>1, <1>3, <1>6, <1>7, <1>8
<1>9. CASE j <= cnt
  <2>1. accept_be(in) => Wrapped(head + j - 1) # tail
    BY <1>1, <1>2, <1>6, <1>9 DEF Wrapped
  <2>2. Queued'[k] = cq[Wrapped(head + j - 1)]
    BY <1>3, <1>6, <1>7, <2>1
  <2>3. QED
    BY <1>6, <1>9, <2>2, QueuedSeq
<1>10. QED
  BY <1>1, <1>6, <1>8, <1>9

\* The queue as a sequence after an edge.
LEMMA QueueAfterEdge ==
  ASSUME BackendInv, NEW in \in BackendInputType, BackendEdge(in)
  PROVE  /\ Queued \in Seq(Completion) /\ Len(Queued) = cnt
         /\ accept_be(in) => in.req \in Txn /\ Enqueued(in.req) \in Completion
         /\ pop(in) => Queued # <<>>
         /\ accept_be(in) /\ pop(in)   => Queued' = Append(Tail(Queued), Enqueued(in.req))
         /\ accept_be(in) /\ ~pop(in)  => Queued' = Append(Queued, Enqueued(in.req))
         /\ ~accept_be(in) /\ pop(in)  => Queued' = Tail(Queued)
         /\ ~accept_be(in) /\ ~pop(in) => Queued' = Queued
<1>1. BackendInv'
  BY EdgeBackendInv
<1>2. /\ Queued \in Seq(Completion) /\ Len(Queued) = cnt
      /\ Queued' \in Seq(Completion) /\ Len(Queued') = cnt'
  BY <1>1, QueuedSeq, QueuedSeqPrimed
<1>3. cnt \in 0 .. CQ_DEPTH /\ CQ_DEPTH \in Nat
  BY BackendAssumption DEF BackendInv, BackendTypeOK
<1>4. cnt' = cnt + (IF accept_be(in) THEN 1 ELSE 0) - (IF pop(in) THEN 1 ELSE 0)
  BY DEF BackendEdge, cnt_next
<1>5. accept_be(in) => in.req \in Txn /\ Enqueued(in.req) \in Completion
  BY EnqueuedType DEF accept_be, BackendInputType, BackendInv
<1>6. pop(in) => Queued # <<>>
  BY <1>2 DEF pop, cmp
<1>7. \A k \in 1 .. cnt' :
        Queued'[k] = IF (IF pop(in) THEN k + 1 ELSE k) <= cnt
                     THEN Queued[IF pop(in) THEN k + 1 ELSE k] ELSE Enqueued(in.req)
  BY QueuedAfterEdge
<1>8. accept_be(in) /\ pop(in) => Queued' = Append(Tail(Queued), Enqueued(in.req))
  BY <1>2, <1>3, <1>4, <1>5, <1>6, <1>7
<1>9. accept_be(in) /\ ~pop(in) => Queued' = Append(Queued, Enqueued(in.req))
  BY <1>2, <1>3, <1>4, <1>5, <1>7
<1>10. ~accept_be(in) /\ pop(in) => Queued' = Tail(Queued)
  BY <1>2, <1>3, <1>4, <1>6, <1>7
<1>11. ~accept_be(in) /\ ~pop(in) => Queued' = Queued
  BY <1>2, <1>3, <1>4, <1>7
<1>12. QED
  BY <1>2, <1>5, <1>6, <1>8, <1>9, <1>10, <1>11

LEMMA EdgeRefines ==
  ASSUME BackendInv, NEW in \in BackendInputType, BackendEdge(in)
  PROVE  Abstract!Next \/ UNCHANGED <<mem, Queued>>
<1>1. Len(Queued) = cnt /\ cnt \in 0 .. CQ_DEPTH /\ CQ_DEPTH \in Nat
  BY QueueAfterEdge, BackendAssumption DEF BackendInv, BackendTypeOK
<1>2. ASSUME accept_be(in)
      PROVE  /\ in.req \in Txn /\ Len(Queued) < CQ_DEPTH
             /\ Abstract!Answer(in.req) = Enqueued(in.req)
             /\ Abstract!Apply(in.req)
  <2>1. in.req \in Txn /\ Len(Queued) < CQ_DEPTH
    BY <1>1, <1>2 DEF accept_be, req_ready_be, BackendInputType
  <2>2. Abstract!Answer(in.req) = Enqueued(in.req)
    BY DEF Abstract!Answer, Enqueued, Abstract!ZeroData, ZeroData
  <2>3. mem \in [Addrs -> Data] /\ in.req.adr \in Addrs
    BY <2>1 DEF BackendInv, BackendTypeOK, Txn
  <2>4. mem' = [a \in Addrs |-> IF in.req.wr /\ a = in.req.adr THEN in.req.wdat ELSE mem[a]]
    BY <1>2 DEF BackendEdge, Push
  <2>5. Abstract!Apply(in.req)
    BY <2>3, <2>4 DEF Abstract!Apply
  <2>6. QED
    BY <2>1, <2>2, <2>5
<1>3. ~accept_be(in) => mem' = mem
  BY DEF BackendEdge, Push
<1>4. CASE accept_be(in) /\ pop(in)
  BY <1>2, <1>4, QueueAfterEdge DEF Abstract!Next, Abstract!ServeAndDeliver, Abstract!Txn, Txn
<1>5. CASE accept_be(in) /\ ~pop(in)
  BY <1>2, <1>5, QueueAfterEdge DEF Abstract!Next, Abstract!Serve, Abstract!Txn, Txn
<1>6. CASE ~accept_be(in) /\ pop(in)
  BY <1>3, <1>6, QueueAfterEdge DEF Abstract!Next, Abstract!Deliver
<1>7. CASE ~accept_be(in) /\ ~pop(in)
  BY <1>3, <1>7, QueueAfterEdge
<1>8. QED
  BY <1>4, <1>5, <1>6, <1>7

\* The memory with its circular buffer implements the memory with a queue.
THEOREM BackendRefines == BackendSpec => ImplementsTaggedMemory
<1>1. BackendInit => Abstract!Init
  BY DEF BackendInit, Abstract!Init, Abstract!Zeroed, Abstract!ZeroData, ZeroData, Queued
<1>2. BackendInv /\ [BackendNext]_backendVars => [Abstract!Next]_<<mem, Queued>>
  <2> SUFFICES ASSUME BackendInv, [BackendNext]_backendVars
               PROVE  Abstract!Next \/ UNCHANGED <<mem, Queued>>
    OBVIOUS
  <2>1. CASE BackendReset
    <3>1. mem' = Abstract!Zeroed /\ Queued' = <<>>
      BY <2>1 DEF BackendReset, Queued, Abstract!Zeroed, Abstract!ZeroData, ZeroData
    <3>2. QED
      BY <3>1 DEF Abstract!Next, Abstract!Restart
  <2>2. ASSUME NEW in \in BackendInputs, BackendEdge(in)
        PROVE  Abstract!Next \/ UNCHANGED <<mem, Queued>>
    BY <2>2, EdgeRefines, BackendAssumption
  <2>3. CASE UNCHANGED backendVars
    BY <2>3 DEF backendVars, Queued, Wrapped
  <2>4. QED
    BY <2>1, <2>2, <2>3 DEF BackendNext
<1>3. QED
  BY <1>1, <1>2, BackendCorrect, PTL DEF BackendSpec, ImplementsTaggedMemory, Abstract!Spec

-----------------------------------------------------------------------------
(***************************************************************************)
(* The two wired together. Every access issued and not completed has one   *)
(* completion queued, found by its tag, with the data its response needs.  *)
(* What an access still waiting will find in the array is told by the      *)
(* writes waiting before it: the youngest one's datum, or the array's if   *)
(* there is none. The scheduler keeps this up, since it issues an access   *)
(* only when no older access to the address is incomplete.                 *)
(***************************************************************************)

Outstanding == issd \ done

TagsDiffer == \A i, j \in vld : txn[i].tag = txn[j].tag => i = j

\* The completions queued and the accesses outstanding are one to one.
OwedOneToOne ==
  /\ \A k \in 1 .. cnt : \E i \in Outstanding : Queued[k].tag = txn[i].tag
  /\ \A i \in Outstanding : \E k \in 1 .. cnt : Queued[k].tag = txn[i].tag
  /\ \A k, l \in 1 .. cnt : Queued[k].tag = Queued[l].tag => k = l

OwedData ==
  \A k \in 1 .. cnt, i \in Outstanding :
    Queued[k].tag = txn[i].tag /\ ~txn[i].wr => Queued[k].rdata = expected[i]

\* v is what the youngest of the writes W leaves, or, without any, u.
Leaves(W, order, t, u, v) ==
  /\ W = {} => u = v
  /\ \A j \in W : (\A k \in W \ {j} : <<k, j>> \in order) => t[j].wdat = v

WaitingWrites(a) == {j \in vld \ issd : txn[j].wr /\ txn[j].adr = a}

WritesBefore(i) == {j \in WaitingWrites(txn[i].adr) : <<j, i>> \in older}

ShadowOK == \A a \in Addrs : Leaves(WaitingWrites(a), older, txn, mem[a], shadow[a])

WaitingReadsOK ==
  \A i \in vld \ issd :
    ~txn[i].wr => Leaves(WritesBefore(i), older, txn, mem[txn[i].adr], expected[i])

ObserversOK == shadow \in [Addrs -> Data] /\ expected \in [SchSlots -> Data]

SubsysInv ==
  /\ SchedulerInv /\ BackendInv /\ ObserversOK
  /\ TagsDiffer /\ OwedOneToOne /\ OwedData
  /\ ShadowOK /\ WaitingReadsOK /\ ReadAfterWrite

\* The wiring, in the terms of the invariant.
LEMMA WiringFacts ==
  ASSUME SubsysInv, NEW in \in SubsysInputType, NEW s, s = ToScheduler(in)
  PROVE  /\ s \in SchedulerInputType /\ ToBackend \in BackendInputType
         /\ s.iss = in.iss
         /\ accept_be(ToBackend) <=> IssueSet(s) # {}
         /\ \A i \in IssueSet(s) : mem_request = txn[i]
         /\ pop(ToBackend) <=> cnt # 0
         /\ mc_hit(s) = IF cnt = 0 THEN {}
                        ELSE {i \in Outstanding : txn[i].tag = Queued[1].tag}
         /\ cnt # 0 => s.mc = Queued[1]
<1>1. /\ vld \subseteq SchSlots /\ done \subseteq issd /\ issd \subseteq vld
      /\ txn \in [SchSlots -> Txn]
  BY DEF SubsysInv, SchedulerInv, SchedulerTypeOK, DoneWasIssued
<1>2. /\ cnt \in 0 .. CQ_DEPTH /\ head \in Places /\ CQ_DEPTH \in Nat \ {0}
      /\ cq \in [Places -> Completion]
  BY BackendAssumption DEF SubsysInv, BackendInv, BackendTypeOK
<1>3. mem_sel \subseteq vld /\ \A i, j \in mem_sel : i = j
  BY <1>1, LowestIsOne DEF mem_sel, elig
<1>4. /\ mem_sel = {} => mem_request = None
      /\ \A i \in mem_sel : mem_request = txn[i]
  BY <1>3 DEF mem_request
<1>5. mem_request \in Txn \cup {None} /\ (mem_sel # {} => mem_request \in Txn)
  BY <1>1, <1>3, <1>4
<1>6. cmp = IF cnt = 0 THEN None ELSE Queued[1]
  <2>1. cnt # 0 => Queued[1] = cq[Wrapped(head + 1 - 1)]
    BY <1>2, QueuedSeq DEF SubsysInv
  <2>2. Wrapped(head + 1 - 1) = head
    BY <1>2 DEF Wrapped, Places
  <2> QED BY <2>1, <2>2 DEF cmp
<1>7. cnt # 0 => Queued[1] \in Completion
  BY <1>2, <1>6 DEF cmp
<1>8. /\ s.iss = in.iss /\ s.mem_ready = req_ready_be /\ s.mc = cmp
      /\ s.rsp_ready = in.rsp_ready
  BY DEF ToScheduler
<1>9. s \in SchedulerInputType
  <2>1. /\ in.iss \in Txn \cup {None} /\ in.rsp_ready \in BOOLEAN
        /\ req_ready_be \in BOOLEAN /\ cmp \in Completion \cup {None}
    BY <1>6, <1>7 DEF SubsysInputType, req_ready_be
  <2> QED BY <2>1 DEF SchedulerInputType, ToScheduler
<1>10. ToBackend \in BackendInputType
  BY <1>5 DEF ToBackend, BackendInputType
<1>11. accept_be(ToBackend) <=> IssueSet(s) # {}
  BY <1>4, <1>5, <1>8, MemoryPortAssumption DEF accept_be, ToBackend, IssueSet
<1>12. \A i \in IssueSet(s) : mem_request = txn[i]
  BY <1>4 DEF IssueSet
<1>13. pop(ToBackend) <=> cnt # 0
  BY <1>6, <1>7, MemoryPortAssumption DEF pop, ToBackend
<1>14. mc_hit(s) = IF cnt = 0 THEN {} ELSE {i \in Outstanding : txn[i].tag = Queued[1].tag}
  BY <1>1, <1>6, <1>7, <1>8, MemoryPortAssumption DEF mc_hit, Outstanding
<1> QED BY <1>6, <1>8, <1>9, <1>10, <1>11, <1>12, <1>13, <1>14

\* What moves at an edge: the new entry, the access issued, the access completed
\* and the entry answered are each one slot at most.
LEMMA SubsysMoves ==
  ASSUME SubsysInv, NEW in \in SubsysInputType, FreshTag(in), SubsysEdge(in)
  PROVE  \E accepted, issued, hit, responded :
           /\ accepted = AcceptSet(ToScheduler(in)) /\ issued = IssueSet(ToScheduler(in))
           /\ hit = mc_hit(ToScheduler(in)) /\ responded = RespondSet(ToScheduler(in))
           /\ accepted \subseteq SchSlots \ vld /\ \A i, j \in accepted : i = j
           /\ accepted # {} => in.iss \in Txn /\ \A i \in vld : txn[i].tag # in.iss.tag
           /\ issued \subseteq elig /\ \A i, j \in issued : i = j
           /\ hit \subseteq Outstanding /\ responded \subseteq vld \cap done
           /\ vld'   = (vld \ responded) \cup accepted
           /\ issd'  = ((issd \ responded) \cup issued) \ accepted
           /\ done'  = ((done \ responded) \cup hit) \ accepted
           /\ rdat'  = [i \in SchSlots |-> IF i \in hit THEN Queued[1].rdata ELSE rdat[i]]
           /\ txn'   = [i \in SchSlots |-> IF i \in accepted THEN in.iss ELSE txn[i]]
           /\ older' = AgeAfter(accepted)
           /\ shadow' = IF accepted # {} /\ in.iss.wr
                        THEN [shadow EXCEPT ![in.iss.adr] = in.iss.wdat] ELSE shadow
           /\ expected' = [i \in SchSlots |-> IF i \in accepted THEN shadow[in.iss.adr]
                                                                ELSE expected[i]]
<1> DEFINE s == ToScheduler(in)
<1>1. /\ s \in SchedulerInputType /\ s.iss = in.iss
      /\ mc_hit(s) = IF cnt = 0 THEN {} ELSE {i \in Outstanding : txn[i].tag = Queued[1].tag}
      /\ cnt # 0 => s.mc = Queued[1]
  BY WiringFacts
<1>2. SchedulerEdge(s) /\ Observe(in, AcceptSet(in))
  BY DEF SubsysEdge
<1> HIDE DEF s
<1>3. AcceptSet(in) = AcceptSet(s)
  BY <1>1 DEF AcceptSet
<1>4. /\ AcceptSet(s) \subseteq SchSlots \ vld /\ \A i, j \in AcceptSet(s) : i = j
      /\ AcceptSet(s) # {} => in.iss # None
  BY <1>1, AcceptFacts
<1>5. AcceptSet(s) # {} => in.iss \in Txn /\ \A i \in vld : txn[i].tag # in.iss.tag
  BY <1>4 DEF SubsysInputType, FreshTag
<1>6. IssueSet(s) \subseteq elig /\ \A i, j \in IssueSet(s) : i = j
  <2>1. elig \in SUBSET SchSlots
    BY DEF elig, SubsysInv, SchedulerInv, SchedulerTypeOK
  <2> QED BY <2>1, LowestIsOne DEF IssueSet, mem_sel
<1>7. mc_hit(s) \subseteq Outstanding /\ RespondSet(s) \subseteq vld \cap done
  BY <1>1, RespondFacts DEF SubsysInv, SchedulerInv
<1>8. rdat' = [i \in SchSlots |-> IF i \in mc_hit(s) THEN Queued[1].rdata ELSE rdat[i]]
  <2>1. rdat' = [i \in SchSlots |-> IF i \in mc_hit(s) THEN s.mc.rdata ELSE rdat[i]]
    BY <1>2 DEF SchedulerEdge, UpdateTable
  <2>2. mc_hit(s) # {} => s.mc = Queued[1]
    BY <1>1
  <2> QED BY <2>1, <2>2
<1>9. /\ vld'   = (vld \ RespondSet(s)) \cup AcceptSet(s)
      /\ issd'  = ((issd \ RespondSet(s)) \cup IssueSet(s)) \ AcceptSet(s)
      /\ done'  = ((done \ RespondSet(s)) \cup mc_hit(s)) \ AcceptSet(s)
      /\ txn'   = [i \in SchSlots |-> IF i \in AcceptSet(s) THEN in.iss ELSE txn[i]]
      /\ older' = AgeAfter(AcceptSet(s))
  BY <1>1, <1>2 DEF SchedulerEdge, UpdateTable
<1>10. /\ shadow' = IF AcceptSet(s) # {} /\ in.iss.wr
                    THEN [shadow EXCEPT ![in.iss.adr] = in.iss.wdat] ELSE shadow
       /\ expected' = [i \in SchSlots |-> IF i \in AcceptSet(s) THEN shadow[in.iss.adr]
                                                               ELSE expected[i]]
  BY <1>2, <1>3 DEF Observe
<1> QED BY <1>4, <1>5, <1>6, <1>7, <1>8, <1>9, <1>10 DEF s

\* The queue of completions after an edge: its first element, if any, is taken,
\* and the access issued, if any, is answered behind the others.
LEMMA QueueMoves ==
  ASSUME SubsysInv, NEW in \in SubsysInputType, SubsysEdge(in),
         NEW issued, issued = IssueSet(ToScheduler(in))
  PROVE  /\ cnt' = cnt + (IF issued # {} THEN 1 ELSE 0) - (IF cnt # 0 THEN 1 ELSE 0)
         /\ \A k \in 1 .. cnt' :
              LET j == IF cnt # 0 THEN k + 1 ELSE k
              IN IF j <= cnt THEN Queued'[k] = Queued[j]
                 ELSE \E i \in issued : Queued'[k] = Enqueued(txn[i])
         /\ issued # {} =>
              /\ cnt' \in 1 .. CQ_DEPTH
              /\ \E i \in issued : Queued'[cnt'] = Enqueued(txn[i])
         /\ \A a \in Addrs :
              /\ \A i \in issued : txn[i].wr /\ txn[i].adr = a => mem'[a] = txn[i].wdat
              /\ (\A i \in issued : txn[i].wr => txn[i].adr # a) => mem'[a] = mem[a]
<1> DEFINE b == ToBackend
<1>1. /\ b \in BackendInputType /\ BackendEdge(b) /\ BackendInv
      /\ accept_be(b) <=> issued # {}
      /\ \A i \in issued : b.req = txn[i]
      /\ pop(b) <=> cnt # 0
  BY WiringFacts DEF SubsysInv, SubsysEdge, ToBackend
<1> HIDE DEF b
<1>2. cnt' = cnt + (IF issued # {} THEN 1 ELSE 0) - (IF cnt # 0 THEN 1 ELSE 0)
  BY <1>1 DEF BackendEdge, cnt_next
<1>3. \A k \in 1 .. cnt' :
        LET j == IF pop(b) THEN k + 1 ELSE k
        IN Queued'[k] = IF j <= cnt THEN Queued[j] ELSE Enqueued(b.req)
  BY <1>1, QueuedAfterEdge
<1>4. cnt \in 0 .. CQ_DEPTH /\ cnt' \in 0 .. CQ_DEPTH /\ CQ_DEPTH \in Nat
  BY <1>1, EdgePointers, BackendAssumption DEF BackendInv, BackendTypeOK
<1>5. ASSUME NEW k \in 1 .. cnt', NEW j, j = IF cnt # 0 THEN k + 1 ELSE k
      PROVE  IF j <= cnt THEN Queued'[k] = Queued[j]
             ELSE \E i \in issued : Queued'[k] = Enqueued(txn[i])
  <2>1. CASE j <= cnt
    BY <1>1, <1>3, <1>5, <2>1
  <2>2. CASE ~(j <= cnt)
    <3>1. Queued'[k] = Enqueued(b.req)
      BY <1>1, <1>3, <1>5, <2>2
    <3>2. PICK i \in issued : TRUE
      BY <1>2, <1>4, <1>5, <2>2
    <3>3. b.req = txn[i]
      BY <1>1
    <3> QED BY <2>2, <3>1, <3>3
  <2> QED BY <2>1, <2>2
<1>6. issued # {} => /\ cnt' \in 1 .. CQ_DEPTH
                     /\ \E i \in issued : Queued'[cnt'] = Enqueued(txn[i])
  <2> SUFFICES ASSUME issued # {}
               PROVE  /\ cnt' \in 1 .. CQ_DEPTH
                      /\ \E i \in issued : Queued'[cnt'] = Enqueued(txn[i])
    OBVIOUS
  <2>1. cnt' \in 1 .. CQ_DEPTH /\ ~((IF cnt # 0 THEN cnt' + 1 ELSE cnt') <= cnt)
    BY <1>2, <1>4
  <2>2. \E i \in issued : Queued'[cnt'] = Enqueued(txn[i])
    BY <1>4, <1>5, <2>1
  <2> QED BY <2>1, <2>2
<1>7. ASSUME NEW a \in Addrs
      PROVE  /\ \A i \in issued : txn[i].wr /\ txn[i].adr = a => mem'[a] = txn[i].wdat
             /\ (\A i \in issued : txn[i].wr => txn[i].adr # a) => mem'[a] = mem[a]
  BY <1>1 DEF BackendEdge, Push
<1> QED BY <1>2, <1>5, <1>6, <1>7

LEMMA InitSubsysInv == SubsysInit => SubsysInv
<1> SUFFICES ASSUME SubsysInit PROVE SubsysInv
  OBVIOUS
<1>1. SchedulerInv /\ BackendInv
  BY InitSchedulerInv, InitBackendInv DEF SubsysInit
<1>2. /\ vld = {} /\ issd = {} /\ done = {} /\ cnt = 0 /\ shadow = mem
      /\ mem = [a \in Addrs |-> ZeroData] /\ expected = [i \in SchSlots |-> ZeroData]
  BY DEF SubsysInit, SchedulerInit, BackendInit
<1>3. ZeroData \in Data
  BY MemoryPortAssumption DEF ZeroData, Txn
<1>4. ShadowOK /\ WaitingReadsOK
  BY <1>2 DEF ShadowOK, WaitingReadsOK, WaitingWrites, Leaves
<1> QED BY <1>1, <1>2, <1>3, <1>4 DEF SubsysInv, ObserversOK, TagsDiffer, OwedOneToOne, OwedData,
                                      ReadAfterWrite, Outstanding

LEMMA ResetSubsysInv == SubsysReset => SubsysInv'
<1> SUFFICES ASSUME SubsysReset PROVE SubsysInv'
  OBVIOUS
<1>1. SchedulerInv' /\ BackendInv'
  BY ResetSchedulerInv, ResetBackendInv DEF SubsysReset
<1>2. /\ vld' = {} /\ issd' = {} /\ done' = {} /\ cnt' = 0 /\ shadow' = mem'
      /\ mem' = [a \in Addrs |-> ZeroData] /\ expected' = [i \in SchSlots |-> ZeroData]
  BY DEF SubsysReset, SchedulerReset, BackendReset
<1>3. ZeroData \in Data
  BY MemoryPortAssumption DEF ZeroData, Txn
<1>4. ShadowOK' /\ WaitingReadsOK'
  BY <1>2 DEF ShadowOK, WaitingReadsOK, WaitingWrites, Leaves
<1> QED BY <1>1, <1>2, <1>3, <1>4 DEF SubsysInv, ObserversOK, TagsDiffer, OwedOneToOne, OwedData,
                                      ReadAfterWrite, Outstanding

\* The completions queued and the accesses outstanding after an edge.
LEMMA EdgeOwed ==
  ASSUME SubsysInv, NEW in \in SubsysInputType, FreshTag(in), SubsysEdge(in)
  PROVE  TagsDiffer' /\ OwedOneToOne' /\ OwedData' /\ ReadAfterWrite' /\ ObserversOK'
<1>1. PICK accepted, issued, hit, responded :
           /\ accepted = AcceptSet(ToScheduler(in)) /\ issued = IssueSet(ToScheduler(in))
           /\ hit = mc_hit(ToScheduler(in)) /\ responded = RespondSet(ToScheduler(in))
           /\ accepted \subseteq SchSlots \ vld /\ \A i, j \in accepted : i = j
           /\ accepted # {} => in.iss \in Txn /\ \A i \in vld : txn[i].tag # in.iss.tag
           /\ issued \subseteq elig /\ \A i, j \in issued : i = j
           /\ hit \subseteq Outstanding /\ responded \subseteq vld \cap done
           /\ vld'   = (vld \ responded) \cup accepted
           /\ issd'  = ((issd \ responded) \cup issued) \ accepted
           /\ done'  = ((done \ responded) \cup hit) \ accepted
           /\ rdat'  = [i \in SchSlots |-> IF i \in hit THEN Queued[1].rdata ELSE rdat[i]]
           /\ txn'   = [i \in SchSlots |-> IF i \in accepted THEN in.iss ELSE txn[i]]
           /\ older' = AgeAfter(accepted)
           /\ shadow' = IF accepted # {} /\ in.iss.wr
                        THEN [shadow EXCEPT ![in.iss.adr] = in.iss.wdat] ELSE shadow
           /\ expected' = [i \in SchSlots |-> IF i \in accepted THEN shadow[in.iss.adr]
                                                                ELSE expected[i]]
  BY SubsysMoves
<1>2. /\ cnt' = cnt + (IF issued # {} THEN 1 ELSE 0) - (IF cnt # 0 THEN 1 ELSE 0)
      /\ \A k \in 1 .. cnt' :
           LET j == IF cnt # 0 THEN k + 1 ELSE k
           IN IF j <= cnt THEN Queued'[k] = Queued[j]
              ELSE \E i \in issued : Queued'[k] = Enqueued(txn[i])
      /\ issued # {} => /\ cnt' \in 1 .. CQ_DEPTH
                        /\ \E i \in issued : Queued'[cnt'] = Enqueued(txn[i])
  BY <1>1, QueueMoves
<1>3. /\ hit = IF cnt = 0 THEN {} ELSE {i \in Outstanding : txn[i].tag = Queued[1].tag}
  BY <1>1, WiringFacts
<1>4. /\ cnt \in Nat /\ vld \subseteq SchSlots /\ done \subseteq issd /\ issd \subseteq vld
      /\ txn \in [SchSlots -> Txn] /\ rdat \in [SchSlots -> Data]
  BY DEF SubsysInv, SchedulerInv, SchedulerTypeOK, DoneWasIssued, BackendInv, BackendTypeOK
<1>5. issued \subseteq vld \ issd
  BY <1>1 DEF elig
<1>6. Outstanding' = (Outstanding \ hit) \cup issued
  BY <1>1, <1>4, <1>5 DEF Outstanding
<1>7. \A i \in vld : txn'[i] = txn[i] /\ expected'[i] = expected[i]
  BY <1>1, <1>4
<1>8. Outstanding \subseteq vld /\ Outstanding \cap issued = {}
  BY <1>4, <1>5 DEF Outstanding
<1>9. TagsDiffer'
  BY <1>1, <1>4 DEF SubsysInv, TagsDiffer
<1>10. ObserversOK'
  BY <1>1 DEF SubsysInv, ObserversOK, Txn
<1>11. ReadAfterWrite'
  <2> SUFFICES ASSUME NEW i \in vld' \cap done', ~txn'[i].wr PROVE rdat'[i] = expected'[i]
    BY DEF ReadAfterWrite
  <2>1. i \in vld /\ i \in SchSlots /\ ~txn[i].wr /\ (i \in done \/ i \in hit)
    BY <1>1, <1>4, <1>7
  <2>2. CASE i \in hit
    <3>1. cnt # 0 /\ i \in Outstanding /\ Queued[1].tag = txn[i].tag /\ 1 \in 1 .. cnt
      BY <1>3, <1>4, <2>2
    <3> QED BY <1>1, <1>7, <2>1, <2>2, <3>1 DEF SubsysInv, OwedData
  <2>3. CASE i \notin hit
    BY <1>1, <1>7, <2>1, <2>3 DEF SubsysInv, ReadAfterWrite
  <2> QED BY <2>2, <2>3
<1>12. \A i \in issued : Enqueued(txn[i]).tag = txn[i].tag
  BY DEF Enqueued
<1>13. ASSUME NEW k \in 1 .. cnt'
       PROVE  \/ \E j \in 1 .. cnt : /\ j = (IF cnt # 0 THEN k + 1 ELSE k) /\ j <= cnt
                                     /\ (cnt # 0 => j # 1) /\ Queued'[k] = Queued[j]
              \/ \E i \in issued : /\ k = cnt' /\ Queued'[k] = Enqueued(txn[i])
  <2> DEFINE j == IF cnt # 0 THEN k + 1 ELSE k
  <2>1. CASE j <= cnt
    <3>1. j \in 1 .. cnt /\ (cnt # 0 => j # 1)
      BY <1>4, <2>1
    <3> QED BY <1>2, <2>1, <3>1
  <2>2. CASE ~(j <= cnt)
    <3>1. k = cnt'
      BY <1>2, <1>4, <2>2
    <3> QED BY <1>2, <2>2, <3>1
  <2> QED BY <2>1, <2>2
<1>14. OwedOneToOne'
  <2>1. ASSUME NEW k \in 1 .. cnt' PROVE \E i \in Outstanding' : Queued'[k].tag = txn'[i].tag
    <3>1. CASE \E j \in 1 .. cnt : (cnt # 0 => j # 1) /\ Queued'[k] = Queued[j]
      <4>1. PICK j \in 1 .. cnt : j # 1 /\ Queued'[k] = Queued[j]
        BY <1>4, <3>1
      <4>2. PICK i \in Outstanding : Queued[j].tag = txn[i].tag
        BY <4>1 DEF SubsysInv, OwedOneToOne
      <4>3. i \notin hit
        <5>1. 1 \in 1 .. cnt /\ cnt # 0
          BY <1>4
        <5> QED BY <1>3, <4>1, <4>2, <5>1 DEF SubsysInv, OwedOneToOne
      <4> QED BY <1>6, <1>7, <1>8, <4>1, <4>2, <4>3
    <3>2. CASE \E i \in issued : Queued'[k] = Enqueued(txn[i])
      BY <1>5, <1>6, <1>7, <1>12, <3>2
    <3> QED BY <1>13, <3>1, <3>2
  <2>2. ASSUME NEW i \in Outstanding' PROVE \E k \in 1 .. cnt' : Queued'[k].tag = txn'[i].tag
    <3>1. CASE i \in issued
      <4>1. Queued'[cnt'] = Enqueued(txn[i]) /\ cnt' \in 1 .. cnt'
        BY <1>1, <1>2, <3>1
      <4> QED BY <1>5, <1>7, <1>12, <3>1, <4>1
    <3>2. CASE i \in Outstanding \ hit
      <4>1. PICK j \in 1 .. cnt : Queued[j].tag = txn[i].tag
        BY <3>2 DEF SubsysInv, OwedOneToOne
      <4>2. j # 1 /\ cnt # 0
        BY <1>3, <1>4, <3>2, <4>1
      <4>3. j - 1 \in 1 .. cnt' /\ (j - 1) + 1 = j /\ j <= cnt
        BY <1>2, <1>4, <4>2
      <4>4. Queued'[j - 1] = Queued[j]
        BY <1>2, <4>2, <4>3
      <4> QED BY <1>7, <1>8, <3>2, <4>1, <4>3, <4>4
    <3> QED BY <1>6, <3>1, <3>2
  <2>3. ASSUME NEW k \in 1 .. cnt', NEW l \in 1 .. cnt', Queued'[k].tag = Queued'[l].tag
        PROVE  k = l
    <3>1. ASSUME NEW x \in 1 .. cnt, NEW i \in issued PROVE Queued[x].tag # txn[i].tag
      <4>1. PICK o \in Outstanding : Queued[x].tag = txn[o].tag
        BY DEF SubsysInv, OwedOneToOne
      <4> QED BY <1>5, <1>8, <4>1 DEF SubsysInv, TagsDiffer
    <3>2. CASE (\E j \in 1 .. cnt : j = (IF cnt # 0 THEN k + 1 ELSE k) /\ Queued'[k] = Queued[j])
               /\ (\E j \in 1 .. cnt : j = (IF cnt # 0 THEN l + 1 ELSE l) /\ Queued'[l] = Queued[j])
      BY <1>4, <2>3, <3>2 DEF SubsysInv, OwedOneToOne
    <3>3. CASE (\E j \in 1 .. cnt : Queued'[k] = Queued[j])
               /\ (\E i \in issued : Queued'[l] = Enqueued(txn[i]))
      BY <1>12, <2>3, <3>1, <3>3
    <3>4. CASE (\E i \in issued : Queued'[k] = Enqueued(txn[i]))
               /\ (\E j \in 1 .. cnt : Queued'[l] = Queued[j])
      BY <1>12, <2>3, <3>1, <3>4
    <3>5. CASE k = cnt' /\ l = cnt'
      BY <3>5
    <3> QED BY <1>13, <3>2, <3>3, <3>4, <3>5
  <2> QED BY <2>1, <2>2, <2>3 DEF OwedOneToOne
<1>15. OwedData'
  <2> SUFFICES ASSUME NEW k \in 1 .. cnt', NEW i \in Outstanding',
                      Queued'[k].tag = txn'[i].tag, ~txn'[i].wr
               PROVE  Queued'[k].rdata = expected'[i]
    BY DEF OwedData
  <2>1. /\ i \in vld /\ txn'[i] = txn[i] /\ expected'[i] = expected[i]
    BY <1>5, <1>6, <1>7, <1>8
  <2>2. CASE \E j \in 1 .. cnt : Queued'[k] = Queued[j]
    <3>1. PICK j \in 1 .. cnt : Queued'[k] = Queued[j]
      BY <2>2
    <3>2. PICK o \in Outstanding : Queued[j].tag = txn[o].tag
      BY DEF SubsysInv, OwedOneToOne
    <3>3. o = i
      BY <1>8, <2>1, <3>1, <3>2 DEF SubsysInv, TagsDiffer
    <3> QED BY <2>1, <3>1, <3>2, <3>3 DEF SubsysInv, OwedData
  <2>3. CASE \E o \in issued : Queued'[k] = Enqueued(txn[o])
    <3>1. PICK o \in issued : Queued'[k] = Enqueued(txn[o])
      BY <2>3
    <3>2. o = i
      BY <1>5, <1>12, <2>1, <3>1 DEF SubsysInv, TagsDiffer
    <3>3. Queued'[k].rdata = mem[txn[i].adr]
      BY <2>1, <3>1, <3>2 DEF Enqueued
    <3>4. WritesBefore(i) = {}
      BY <1>1, <1>4, <3>1, <3>2 DEF WritesBefore, WaitingWrites, elig, Blocks
    <3>5. mem[txn[i].adr] = expected[i]
      BY <1>5, <2>1, <3>2, <3>4 DEF SubsysInv, WaitingReadsOK, Leaves
    <3> QED BY <2>1, <3>3, <3>5
  <2> QED BY <1>13, <2>2, <2>3
<1> QED BY <1>9, <1>10, <1>11, <1>14, <1>15

\* An access issued is older than every other waiting access to its address.
LEMMA IssuedIsOldest ==
  ASSUME SubsysInv, NEW i \in elig, NEW j \in vld \ issd, txn[j].adr = txn[i].adr, j # i
  PROVE  <<i, j>> \in older
<1>1. i \in vld /\ j \in SchSlots /\ j \notin done
  BY DEF elig, SubsysInv, SchedulerInv, SchedulerTypeOK, DoneWasIssued
<1>2. ~Blocks(j, i)
  BY <1>1 DEF elig
<1> QED BY <1>1, <1>2 DEF Blocks, SubsysInv, SchedulerInv, AgeTotalOrder

\* What writes leave is not changed by an age order that agrees on them, and when
\* the oldest of them is applied the others still leave the same.
LEMMA LeavesKept ==
  ASSUME NEW W, NEW o, NEW o2, NEW t, NEW t2, NEW u, NEW v, Leaves(W, o, t, u, v),
         \A j, k \in W : <<j, k>> \in o <=> <<j, k>> \in o2,
         \A j \in W : t2[j] = t[j]
  PROVE  Leaves(W, o2, t2, u, v)
  BY DEF Leaves

LEMMA LeavesApplied ==
  ASSUME NEW W, NEW o, NEW t, NEW u, NEW v, Leaves(W, o, t, u, v),
         NEW i \in W, \A j \in W \ {i} : <<i, j>> \in o
  PROVE  Leaves(W \ {i}, o, t, t[i].wdat, v)
  BY DEF Leaves

LEMMA EdgeShadow ==
  ASSUME SubsysInv, NEW in \in SubsysInputType, FreshTag(in), SubsysEdge(in)
  PROVE  ShadowOK' /\ WaitingReadsOK'
<1>1. PICK accepted, issued, hit, responded :
           /\ accepted = AcceptSet(ToScheduler(in)) /\ issued = IssueSet(ToScheduler(in))
           /\ hit = mc_hit(ToScheduler(in)) /\ responded = RespondSet(ToScheduler(in))
           /\ accepted \subseteq SchSlots \ vld /\ \A i, j \in accepted : i = j
           /\ accepted # {} => in.iss \in Txn /\ \A i \in vld : txn[i].tag # in.iss.tag
           /\ issued \subseteq elig /\ \A i, j \in issued : i = j
           /\ hit \subseteq Outstanding /\ responded \subseteq vld \cap done
           /\ vld'   = (vld \ responded) \cup accepted
           /\ issd'  = ((issd \ responded) \cup issued) \ accepted
           /\ done'  = ((done \ responded) \cup hit) \ accepted
           /\ rdat'  = [i \in SchSlots |-> IF i \in hit THEN Queued[1].rdata ELSE rdat[i]]
           /\ txn'   = [i \in SchSlots |-> IF i \in accepted THEN in.iss ELSE txn[i]]
           /\ older' = AgeAfter(accepted)
           /\ shadow' = IF accepted # {} /\ in.iss.wr
                        THEN [shadow EXCEPT ![in.iss.adr] = in.iss.wdat] ELSE shadow
           /\ expected' = [i \in SchSlots |-> IF i \in accepted THEN shadow[in.iss.adr]
                                                                ELSE expected[i]]
  BY SubsysMoves
<1>2. \A a \in Addrs :
        /\ \A i \in issued : txn[i].wr /\ txn[i].adr = a => mem'[a] = txn[i].wdat
        /\ (\A i \in issued : txn[i].wr => txn[i].adr # a) => mem'[a] = mem[a]
  BY <1>1, QueueMoves
<1>3. /\ vld \subseteq SchSlots /\ done \subseteq issd /\ issd \subseteq vld
      /\ txn \in [SchSlots -> Txn] /\ shadow \in [Addrs -> Data]
  BY DEF SubsysInv, SchedulerInv, SchedulerTypeOK, DoneWasIssued, ObserversOK
<1>4. issued \subseteq vld \ issd
  BY <1>1 DEF elig
<1>5. vld' \ issd' = ((vld \ issd) \ issued) \cup accepted
  BY <1>1, <1>3, <1>4
<1>6. \A i \in vld \ issd : txn'[i] = txn[i] /\ expected'[i] = expected[i]
  BY <1>1, <1>3
<1>7. \A i \in accepted : txn'[i] = in.iss /\ in.iss \in Txn
  BY <1>1
<1>8. \A i, j \in vld : <<i, j>> \in older' <=> <<i, j>> \in older
  BY <1>1 DEF AgeAfter
<1>9. \A n \in accepted : \A i \in vld : <<i, n>> \in older' /\ <<n, i>> \notin older'
  BY <1>1 DEF AgeAfter
<1>10. \A a : WaitingWrites(a)' = (WaitingWrites(a) \ issued)
                                   \cup {n \in accepted : in.iss.wr /\ in.iss.adr = a}
  <2> SUFFICES ASSUME NEW a
               PROVE  WaitingWrites(a)' = (WaitingWrites(a) \ issued)
                                   \cup {n \in accepted : in.iss.wr /\ in.iss.adr = a}
    OBVIOUS
  <2>1. WaitingWrites(a)' = {j \in vld' \ issd' : txn'[j].wr /\ txn'[j].adr = a}
    BY DEF WaitingWrites
  <2>2. \A j : j \in WaitingWrites(a)' <=>
               j \in (WaitingWrites(a) \ issued) \cup {n \in accepted : in.iss.wr /\ in.iss.adr = a}
    BY <1>5, <1>6, <1>7, <2>1 DEF WaitingWrites
  <2> QED BY <2>2
\* The writes to a that were waiting, without the one issued, leave on the new
\* array what all of them left on the old one; so do those of them older than i.
<1>11. ASSUME NEW a \in Addrs, NEW W \in SUBSET WaitingWrites(a), NEW v,
              Leaves(W, older, txn, mem[a], v),
              (WaitingWrites(a) \cap issued) \subseteq W
       PROVE  Leaves(W \ issued, older', txn', mem'[a], v)
  <2>1. Leaves(W \ issued, older, txn, mem'[a], v)
    <3>1. CASE \E i \in issued : txn[i].wr /\ txn[i].adr = a
      <4>1. PICK i \in issued : txn[i].wr /\ txn[i].adr = a
        BY <3>1
      <4>2. issued = {i}
        BY <1>1
      <4>3. mem'[a] = txn[i].wdat
        BY <1>2, <4>1
      <4>4. i \in W
        BY <1>4, <1>11, <4>1 DEF WaitingWrites
      <4>5. \A j \in W \ {i} : <<i, j>> \in older
        BY <1>1, <4>1, IssuedIsOldest DEF WaitingWrites
      <4>6. Leaves(W \ {i}, older, txn, txn[i].wdat, v)
        BY <1>11, <4>4, <4>5, LeavesApplied
      <4> QED BY <4>2, <4>3, <4>6
    <3>2. CASE ~\E i \in issued : txn[i].wr /\ txn[i].adr = a
      <4>1. mem'[a] = mem[a]
        BY <1>2, <3>2
      <4>2. W \ issued = W
        BY <3>2 DEF WaitingWrites
      <4> QED BY <1>11, <4>1, <4>2
    <3> QED BY <3>1, <3>2
  <2>2. W \ issued \subseteq vld \ issd
    BY DEF WaitingWrites
  <2> DEFINE R == W \ issued
  <2>3. /\ \A j, k \in R : <<j, k>> \in older <=> <<j, k>> \in older'
        /\ \A j \in R : txn'[j] = txn[j]
    BY <1>6, <1>8, <2>2
  <2>4. Leaves(R, older, txn, mem'[a], v)
    BY <2>1
  <2> HIDE DEF R
  <2>5. Leaves(R, older', txn', mem'[a], v)
    BY <2>3, <2>4, LeavesKept
  <2> QED BY <2>5 DEF R
<1>12. ShadowOK'
  <2> SUFFICES ASSUME NEW a \in Addrs
               PROVE  Leaves(WaitingWrites(a)', older', txn', mem'[a], shadow'[a])
    BY DEF ShadowOK
  <2>1. Leaves(WaitingWrites(a) \ issued, older', txn', mem'[a], shadow[a])
    BY <1>11 DEF SubsysInv, ShadowOK
  <2>2. CASE \E n \in accepted : in.iss.wr /\ in.iss.adr = a
    <3>1. PICK n \in accepted : in.iss.wr /\ in.iss.adr = a
      BY <2>2
    <3>2. shadow'[a] = in.iss.wdat /\ txn'[n].wdat = in.iss.wdat
      BY <1>1, <1>3, <1>7, <3>1
    <3>3. WaitingWrites(a)' = (WaitingWrites(a) \ issued) \cup {n}
      BY <1>1, <1>10, <3>1
    <3>4. \A j \in WaitingWrites(a) : <<n, j>> \notin older' /\ j # n
      BY <1>1, <1>9 DEF WaitingWrites
    <3> QED BY <3>2, <3>3, <3>4 DEF Leaves
  <2>3. CASE ~\E n \in accepted : in.iss.wr /\ in.iss.adr = a
    <3>1. shadow'[a] = shadow[a]
      BY <1>1, <1>3, <2>3
    <3>2. WaitingWrites(a)' = WaitingWrites(a) \ issued
      BY <1>10, <2>3
    <3> QED BY <2>1, <3>1, <3>2
  <2> QED BY <2>2, <2>3
<1>13. WaitingReadsOK'
  <2> SUFFICES ASSUME NEW i \in vld' \ issd', ~txn'[i].wr
               PROVE  Leaves(WritesBefore(i)', older', txn', mem'[txn'[i].adr], expected'[i])
    BY DEF WaitingReadsOK
  <2>0. PICK a : a = txn'[i].adr
    OBVIOUS
  <2>1. WritesBefore(i)' = {j \in WaitingWrites(a)' : <<j, i>> \in older'}
    BY <2>0 DEF WritesBefore, WaitingWrites
  <2>2. CASE i \in accepted
    <3>1. a = in.iss.adr /\ a \in Addrs /\ ~in.iss.wr /\ expected'[i] = shadow[a]
      BY <1>1, <1>7, <2>0, <2>2 DEF Txn
    <3>2. WaitingWrites(a)' = WaitingWrites(a) \ issued
      BY <1>10, <3>1
    <3>3. WritesBefore(i)' = WaitingWrites(a) \ issued
      <4>1. WaitingWrites(a) \subseteq vld
        BY DEF WaitingWrites
      <4> QED BY <1>9, <2>1, <2>2, <3>2, <4>1
    <3>4. Leaves(WaitingWrites(a) \ issued, older', txn', mem'[a], shadow[a])
      <4> QED BY <1>11, <3>1 DEF SubsysInv, ShadowOK
    <3> QED BY <2>0, <3>1, <3>3, <3>4
  <2>3. CASE i \in (vld \ issd) \ issued
    <3>1. /\ a = txn[i].adr /\ a \in Addrs /\ ~txn[i].wr /\ expected'[i] = expected[i]
      BY <1>3, <1>6, <2>0, <2>3 DEF Txn
    <3>2. WritesBefore(i)' = WritesBefore(i) \ issued
      <4>1. \A n \in accepted : <<n, i>> \notin older'
        BY <1>9, <2>3
      <4>2. WaitingWrites(a) \subseteq vld
        BY DEF WaitingWrites
      <4>3. WritesBefore(i) = {j \in WaitingWrites(a) : <<j, i>> \in older}
        BY <3>1 DEF WritesBefore
      <4> QED BY <1>8, <1>10, <2>1, <2>3, <4>1, <4>2, <4>3
    <3>3. WritesBefore(i) \subseteq WaitingWrites(a)
      BY <3>1 DEF WritesBefore
    <3>4. (WaitingWrites(a) \cap issued) \subseteq WritesBefore(i)
      BY <1>1, <2>3, <3>1, IssuedIsOldest DEF WritesBefore, WaitingWrites
    <3>5. Leaves(WritesBefore(i), older, txn, mem[a], expected[i])
      BY <2>3, <3>1 DEF SubsysInv, WaitingReadsOK
    <3>6. Leaves(WritesBefore(i) \ issued, older', txn', mem'[a], expected[i])
      BY <1>11, <3>1, <3>3, <3>4, <3>5
    <3> QED BY <2>0, <3>1, <3>2, <3>6
  <2> QED BY <1>5, <2>2, <2>3
<1> QED BY <1>12, <1>13

LEMMA NextSubsysInv == SubsysInv /\ [SubsysNext]_subsysVars => SubsysInv'
<1> SUFFICES ASSUME SubsysInv, [SubsysNext]_subsysVars PROVE SubsysInv'
  OBVIOUS
<1>1. CASE SubsysReset
  BY <1>1, ResetSubsysInv
<1>2. ASSUME NEW in \in SubsysInputs, FreshTag(in), SubsysEdge(in) PROVE SubsysInv'
  <2>1. in \in SubsysInputType
    BY SubsysInputAssumption
  <2>2. SchedulerInv' /\ BackendInv'
    BY <1>2, <2>1, WiringFacts, EdgeSchedulerInv, EdgeBackendInv DEF SubsysInv, SubsysEdge
  <2> QED BY <1>2, <2>1, <2>2, EdgeOwed, EdgeShadow DEF SubsysInv
<1>3. CASE UNCHANGED subsysVars
  <2>1. SchedulerInv' /\ BackendInv'
    BY <1>3, NextSchedulerInv, NextBackendInv DEF SubsysInv, subsysVars
  <2>2. /\ vld' = vld /\ issd' = issd /\ done' = done /\ txn' = txn /\ rdat' = rdat
        /\ older' = older /\ mem' = mem /\ cnt' = cnt /\ Queued' = Queued
        /\ shadow' = shadow /\ expected' = expected
    BY <1>3 DEF subsysVars, schedulerVars, backendVars, Queued, Wrapped
  <2>3. ShadowOK' /\ WaitingReadsOK'
    BY <2>2 DEF SubsysInv, ShadowOK, WaitingReadsOK, WaitingWrites, WritesBefore
  <2> QED BY <2>1, <2>2, <2>3 DEF SubsysInv, ObserversOK, TagsDiffer, OwedOneToOne, OwedData,
                                  ReadAfterWrite, Outstanding
<1> QED BY <1>1, <1>2, <1>3 DEF SubsysNext

\* The datapath's inductive invariant.
THEOREM SubsysCorrect == SubsysSpec => []SubsysInv
  BY InitSubsysInv, NextSubsysInv, PTL DEF SubsysSpec

\* A read returns the last write to its address accepted before it, whatever was
\* reordered in between.
THEOREM ReadsSeeWrites == SubsysSpec => []ReadAfterWrite
<1>1. SubsysInv => ReadAfterWrite
  BY DEF SubsysInv
<1> QED BY <1>1, SubsysCorrect, PTL

\* When no write to an address is pending, the array holds the last one accepted.
THEOREM MemorySettles == SubsysSpec => []QuiescentMemory
<1>1. SubsysInv => QuiescentMemory
  <2> SUFFICES ASSUME SubsysInv, NEW a \in Addrs,
                      \A i \in vld \ done : txn[i].wr => txn[i].adr # a
               PROVE  mem[a] = shadow[a]
    BY DEF QuiescentMemory
  <2>1. WaitingWrites(a) = {}
    BY DEF WaitingWrites, SubsysInv, SchedulerInv, DoneWasIssued
  <2> QED BY <2>1 DEF SubsysInv, ShadowOK, Leaves
<1> QED BY <1>1, SubsysCorrect, PTL

\* One to one means as many, and one for each.
LEMMA OwedCounted == SubsysInv => OwedOnce
<1> SUFFICES ASSUME SubsysInv PROVE OwedOnce
  OBVIOUS
<1> USE DEF SubsysInv
<1>1. cnt \in Nat /\ Outstanding \subseteq vld
  BY DEF BackendInv, BackendTypeOK, SchedulerInv, DoneWasIssued, Outstanding
<1>2. \A i, j \in Outstanding : txn[i].tag = txn[j].tag => i = j
  BY <1>1 DEF TagsDiffer
<1> DEFINE f == [k \in 1 .. cnt |-> CHOOSE i \in Outstanding : Queued[k].tag = txn[i].tag]
<1>3. \A k \in 1 .. cnt : f[k] \in Outstanding /\ Queued[k].tag = txn[f[k]].tag
  BY DEF OwedOneToOne
<1>4. f \in Bijection(1 .. cnt, Outstanding)
  <2>1. f \in [1 .. cnt -> Outstanding]
    BY <1>3
  <2> HIDE DEF f
  <2>2. \A k, l \in 1 .. cnt : f[k] = f[l] => k = l
    BY <1>3 DEF OwedOneToOne
  <2>3. \A i \in Outstanding : \E k \in 1 .. cnt : f[k] = i
    BY <1>2, <1>3 DEF OwedOneToOne
  <2> QED BY <2>1, <2>2, <2>3 DEF Bijection, Injection, Surjection, IsInjective
<1>5. cnt = Cardinality(Outstanding)
  <2>1. IsFiniteSet(1 .. cnt) /\ Cardinality(1 .. cnt) = cnt
    BY <1>1, FS_Interval
  <2>2. ExistsBijection(1 .. cnt, Outstanding)
    BY <1>4 DEF ExistsBijection
  <2> QED BY <2>1, <2>2, FS_Bijection
<1>6. ASSUME NEW i \in Outstanding
      PROVE  Cardinality({k \in 1 .. cnt : Queued[k].tag = txn[i].tag}) = 1
  <2>1. PICK k \in 1 .. cnt : Queued[k].tag = txn[i].tag
    BY DEF OwedOneToOne
  <2>2. {l \in 1 .. cnt : Queued[l].tag = txn[i].tag} = {k}
    BY <2>1 DEF OwedOneToOne
  <2> QED BY <2>2, FS_Singleton
<1> QED BY <1>5, <1>6 DEF OwedOnce, Outstanding

\* The memory owes one completion for each access issued and not completed.
THEOREM CompletionsOwedOnce == SubsysSpec => []OwedOnce
  BY OwedCounted, SubsysCorrect, PTL

-----------------------------------------------------------------------------
(***************************************************************************)
(* The memory datapath and its model: the model's table is updated one     *)
(* assignment after the other, its completions are a sequence, and what a  *)
(* response must carry is kept by tag.                                     *)
(***************************************************************************)

Table(v, i, d, o, t, r) ==
  [vld |-> v, issd |-> i, done |-> d, older |-> o, txn |-> t, rdat |-> r]

LEMMA RespondMatches ==
  ASSUME NEW v, NEW i, NEW d, NEW o, NEW t, NEW r, NEW S
  PROVE  Ref!Scheduler!respond(Table(v, i, d, o, t, r), S) = Table(v \ S, i \ S, d \ S, o, t, r)
<1> DEFINE m == Table(v, i, d, o, t, r)
<1>1. m.vld = v /\ m.issd = i /\ m.done = d
  BY DEF Table
<1> DEFINE vs == v \ S
           is == i \ S
           ds == d \ S
<1>2. Ref!Scheduler!respond(m, S) = [m EXCEPT !.vld = vs, !.issd = is, !.done = ds]
  <2> HIDE DEF m
  <2> QED BY <1>1 DEF Ref!Scheduler!respond
<1> HIDE DEF vs, is, ds
<1>3. [m EXCEPT !.vld = vs] = Table(vs, i, d, o, t, r)
  BY DEF Table
<1>4. [Table(vs, i, d, o, t, r) EXCEPT !.issd = is] = Table(vs, is, d, o, t, r)
  BY DEF Table
<1>5. [Table(vs, is, d, o, t, r) EXCEPT !.done = ds] = Table(vs, is, ds, o, t, r)
  BY DEF Table
<1>6. [m EXCEPT !.vld = vs, !.issd = is] = Table(vs, is, d, o, t, r)
  BY <1>3, <1>4, Zenon
<1>7. [m EXCEPT !.vld = vs, !.issd = is, !.done = ds] = Table(vs, is, ds, o, t, r)
  BY <1>5, <1>6, Zenon
<1> QED BY <1>2, <1>7 DEF vs, is, ds

LEMMA CompleteMatches ==
  ASSUME NEW v, NEW i, NEW d, NEW o, NEW t, NEW r \in [SchSlots -> Data], NEW S, NEW in
  PROVE  Ref!Scheduler!complete(Table(v, i, d, o, t, r), S, in)
           = Table(v, i, d \cup S, o, t,
                   [x \in SchSlots |-> IF x \in S THEN in.mc.rdata ELSE r[x]])
<1> DEFINE m  == Table(v, i, d, o, t, r)
           ds == d \cup S
           rs == [x \in SchSlots |-> IF x \in S THEN in.mc.rdata ELSE r[x]]
<1>1. m.done = d /\ m.rdat = r /\ Ref!Scheduler!Range0 = SchSlots
  BY DEF Table, Ref!Scheduler!Range0, SchSlots
<1>2. CASE S = {}
  <2>1. ds = d /\ rs = r
    BY <1>2
  <2>2. Ref!Scheduler!complete(m, S, in) = m
    BY <1>2 DEF Ref!Scheduler!complete
  <2> HIDE DEF ds, rs
  <2> QED BY <2>1, <2>2 DEF ds, rs
<1>3. CASE S # {}
  <2>1. Ref!Scheduler!complete(m, S, in) = [m EXCEPT !.done = ds, !.rdat = rs]
    <3> HIDE DEF m
    <3> QED BY <1>1, <1>3 DEF Ref!Scheduler!complete
  <2> HIDE DEF ds, rs
  <2>2. [m EXCEPT !.done = ds] = Table(v, i, ds, o, t, r)
    BY DEF Table
  <2>3. [Table(v, i, ds, o, t, r) EXCEPT !.rdat = rs] = Table(v, i, ds, o, t, rs)
    BY DEF Table
  <2>4. [m EXCEPT !.done = ds, !.rdat = rs] = Table(v, i, ds, o, t, rs)
    BY <2>2, <2>3, Zenon
  <2> QED BY <2>1, <2>4 DEF ds, rs
<1> QED BY <1>2, <1>3

LEMMA AcceptMatches ==
  ASSUME NEW v, NEW i, NEW d, NEW o, NEW t, NEW r, NEW S, NEW pre, NEW in, S # {},
         NEW os, NEW ts
  PROVE  /\ os = {p \in o : p[1] \notin S /\ p[2] \notin S} \cup {p \in pre \X S : p[1] # p[2]}
         /\ ts = [x \in SchSlots |-> IF x \in S THEN in.iss ELSE t[x]]
         => Ref!Scheduler!accept(Table(v, i, d, o, t, r), S, pre, in)
              = Table(v \cup S, i \ S, d \ S, os, ts, r)
<1> DEFINE m  == Table(v, i, d, o, t, r)
           vs == v \cup S
           is == i \ S
           ds == d \ S
<1>1. m.vld = v /\ m.issd = i /\ m.done = d /\ m.older = o /\ m.txn = t
  BY DEF Table
<1>2. /\ os = {p \in o : p[1] \notin S /\ p[2] \notin S} \cup {p \in pre \X S : p[1] # p[2]}
      /\ ts = [x \in SchSlots |-> IF x \in S THEN in.iss ELSE t[x]]
      => Ref!Scheduler!accept(m, S, pre, in)
           = [m EXCEPT !.vld = vs, !.issd = is, !.done = ds, !.txn = ts, !.older = os]
  <2>1. Ref!Scheduler!accept(m, S, pre, in)
          = [m EXCEPT !.vld = m.vld \cup S, !.issd = m.issd \ S, !.done = m.done \ S,
                      !.txn = [x \in SchSlots |-> IF x \in S THEN in.iss ELSE m.txn[x]],
                      !.older = {p \in m.older : p[1] \notin S /\ p[2] \notin S}
                                  \cup {p \in pre \X S : p[1] # p[2]}]
    <3> HIDE DEF m
    <3> QED BY DEF Ref!Scheduler!accept, Ref!Scheduler!Range0, SchSlots
  <2> HIDE DEF m
  <2> QED BY <1>1, <2>1
<1> HIDE DEF vs, is, ds
<1>3. [m EXCEPT !.vld = vs] = Table(vs, i, d, o, t, r)
  BY DEF Table
<1>4. [Table(vs, i, d, o, t, r) EXCEPT !.issd = is] = Table(vs, is, d, o, t, r)
  BY DEF Table
<1>5. [Table(vs, is, d, o, t, r) EXCEPT !.done = ds] = Table(vs, is, ds, o, t, r)
  BY DEF Table
<1>6. [Table(vs, is, ds, o, t, r) EXCEPT !.txn = ts] = Table(vs, is, ds, o, ts, r)
  BY DEF Table
<1>7. [Table(vs, is, ds, o, ts, r) EXCEPT !.older = os] = Table(vs, is, ds, os, ts, r)
  BY DEF Table
<1>8. [m EXCEPT !.vld = vs, !.issd = is] = Table(vs, is, d, o, t, r)
  BY <1>3, <1>4, Zenon
<1>9. [m EXCEPT !.vld = vs, !.issd = is, !.done = ds] = Table(vs, is, ds, o, t, r)
  BY <1>5, <1>8, Zenon
<1>10. [m EXCEPT !.vld = vs, !.issd = is, !.done = ds, !.txn = ts] = Table(vs, is, ds, o, ts, r)
  BY <1>6, <1>9, Zenon
<1>11. [m EXCEPT !.vld = vs, !.issd = is, !.done = ds, !.txn = ts, !.older = os]
         = Table(vs, is, ds, os, ts, r)
  BY <1>7, <1>10, Zenon
<1> QED BY <1>2, <1>11 DEF vs, is, ds

ModelOfTable == Table(vld, issd, done, older, txn, rdat)

\* The model selects what the hardware selects.
LEMMA SameSelections ==
  ASSUME SchedulerTypeOK, NEW in, NEW m, m = ModelOfTable
  PROVE  /\ Ref!Scheduler!free_slot(m) = free_slot
         /\ Ref!Scheduler!mem_sel(m) = mem_sel
         /\ Ref!Scheduler!rsp_sel(m) = rsp_sel
         /\ Ref!Scheduler!mc_hit(m, in) = mc_hit(in)
<1>1. /\ m.vld = vld /\ m.issd = issd /\ m.done = done /\ m.older = older /\ m.txn = txn
  BY DEF ModelOfTable, Table
<1>2. \A S : Ref!Scheduler!lowest(S) = LowestOf(S)
  BY DEF Ref!Scheduler!lowest, LowestOf
<1>3. Ref!Scheduler!free_slot(m) = free_slot
  BY <1>1, <1>2 DEF Ref!Scheduler!free_slot, free_slot, Ref!Scheduler!Range0, SchSlots
<1>4. Ref!Scheduler!eligible(m) = elig
  BY <1>1 DEF Ref!Scheduler!eligible, elig, Ref!Scheduler!blockers, Blocks, SchedulerTypeOK
<1>5. {i \in m.vld : i \in m.done} = vld \cap done
  BY <1>1
<1>6. Ref!Scheduler!mc_hit(m, in) = mc_hit(in)
  BY <1>1 DEF Ref!Scheduler!mc_hit, mc_hit
<1> QED BY <1>2, <1>3, <1>4, <1>5, <1>6
        DEF Ref!Scheduler!mem_sel, mem_sel, Ref!Scheduler!rsp_sel, rsp_sel

LEMMA TableMatches ==
  ASSUME SchedulerInv, NEW in \in SchedulerInputType, SchedulerEdge(in)
  PROVE  Ref!Scheduler!step(ModelOfTable, in) = ModelOfTable'
<1> DEFINE m         == ModelOfTable
           accepted  == AcceptSet(in)
           issued    == IssueSet(in)
           hit       == mc_hit(in)
           responded == RespondSet(in)
           m1 == IF in.rsp_ready THEN Ref!Scheduler!respond(m, Ref!Scheduler!rsp_sel(m)) ELSE m
           m2 == IF in.mem_ready THEN [m1 EXCEPT !.issd = @ \cup Ref!Scheduler!mem_sel(m)] ELSE m1
           m3 == Ref!Scheduler!complete(m2, Ref!Scheduler!mc_hit(m, in), in)
           is == (issd \ responded) \cup issued
           rs == [x \in SchSlots |-> IF x \in hit THEN in.mc.rdata ELSE rdat[x]]
<1>1. Ref!Scheduler!step(m, in)
        = IF in.iss = None THEN m3
          ELSE Ref!Scheduler!accept(m3, Ref!Scheduler!free_slot(m), m.vld, in)
  BY Zenon DEF Ref!Scheduler!step
<1>2. /\ Ref!Scheduler!free_slot(m) = free_slot /\ Ref!Scheduler!mem_sel(m) = mem_sel
      /\ Ref!Scheduler!rsp_sel(m) = rsp_sel /\ Ref!Scheduler!mc_hit(m, in) = hit
  BY SameSelections DEF SchedulerInv
<1>3. m = Table(vld, issd, done, older, txn, rdat) /\ m.vld = vld
  BY DEF ModelOfTable, Table
<1>4. /\ vld'   = (vld \ responded) \cup accepted
      /\ issd'  = is \ accepted
      /\ done'  = ((done \ responded) \cup hit) \ accepted
      /\ rdat'  = rs
      /\ txn'   = [i \in SchSlots |-> IF i \in accepted THEN in.iss ELSE txn[i]]
      /\ older' = AgeAfter(accepted)
  BY DEF SchedulerEdge, UpdateTable
<1>5. /\ accepted \subseteq SchSlots \ vld
      /\ rdat \in [SchSlots -> Data] /\ txn \in [SchSlots -> Txn]
      /\ older \subseteq SchSlots \X SchSlots
  BY AcceptFacts DEF SchedulerInv, SchedulerTypeOK
<1>6. /\ responded = (IF in.rsp_ready THEN rsp_sel ELSE {})
      /\ issued = (IF in.mem_ready THEN mem_sel ELSE {})
      /\ accepted = (IF in.iss # None THEN free_slot ELSE {})
  BY DEF RespondSet, IssueSet, AcceptSet
<1> HIDE DEF m, accepted, issued, hit, responded
<1>7. m1 = Table(vld \ responded, issd \ responded, done \ responded, older, txn, rdat)
  <2>1. CASE in.rsp_ready
    BY <1>2, <1>3, <1>6, <2>1, RespondMatches
  <2>2. CASE ~in.rsp_ready
    <3>1. vld \ responded = vld /\ issd \ responded = issd /\ done \ responded = done
      BY <1>6, <2>2
    <3> QED BY <1>3, <2>2, <3>1
  <2> QED BY <2>1, <2>2
<1> HIDE DEF m1
<1>8. m2 = Table(vld \ responded, is, done \ responded, older, txn, rdat)
  <2> DEFINE ir == issd \ responded
             vr == vld \ responded
             dr == done \ responded
  <2>1. CASE in.mem_ready
    <3>1. m1.issd = ir
      BY <1>7 DEF Table
    <3>2. m2 = [m1 EXCEPT !.issd = is]
      BY <1>2, <1>6, <2>1, <3>1
    <3>3. m1 = Table(vr, ir, dr, older, txn, rdat)
      BY <1>7
    <3> HIDE DEF m2, is, ir, vr, dr
    <3>4. [Table(vr, ir, dr, older, txn, rdat) EXCEPT !.issd = is] = Table(vr, is, dr, older, txn, rdat)
      BY DEF Table
    <3>5. m2 = Table(vr, is, dr, older, txn, rdat)
      BY <3>2, <3>3, <3>4, Zenon
    <3> QED BY <3>5 DEF vr, dr
  <2>2. CASE ~in.mem_ready
    <3>1. is = issd \ responded
      BY <1>6, <2>2
    <3> HIDE DEF is
    <3> QED BY <1>7, <2>2, <3>1
  <2> QED BY <2>1, <2>2
<1> HIDE DEF m2, is
<1>9. m3 = Table(vld \ responded, is, (done \ responded) \cup hit, older, txn, rs)
  BY <1>2, <1>5, <1>8, CompleteMatches
<1> HIDE DEF m3, rs
<1>10. ModelOfTable' = Table(vld', issd', done', older', txn', rdat')
  BY DEF ModelOfTable, Table
<1>11. CASE accepted = {}
  <2>1. Ref!Scheduler!step(m, in) = m3
    BY <1>1, <1>2, <1>6, <1>11 DEF Ref!Scheduler!accept
  <2>2. /\ vld' = vld \ responded /\ issd' = is /\ done' = (done \ responded) \cup hit
        /\ txn' = txn /\ rdat' = rs
    BY <1>4, <1>5, <1>11
  <2>3. older' = older
    BY <1>4, <1>5, <1>11 DEF AgeAfter
  <2> QED BY <1>9, <1>10, <2>1, <2>2, <2>3 DEF m
<1>12. CASE accepted # {}
  <2>1. Ref!Scheduler!step(m, in) = Ref!Scheduler!accept(m3, accepted, vld, in)
    BY <1>1, <1>2, <1>3, <1>6, <1>12
  <2>2. {p \in older : p[1] \notin accepted /\ p[2] \notin accepted}
          \cup {p \in vld \X accepted : p[1] # p[2]} = older'
    <3>1. {p \in vld \X accepted : p[1] # p[2]} = vld \X accepted
      BY <1>5
    <3> QED BY <1>4, <3>1 DEF AgeAfter
  <2> DEFINE vs == vld \ responded
             ds == (done \ responded) \cup hit
             ts == [x \in SchSlots |-> IF x \in accepted THEN in.iss ELSE txn[x]]
             os == {p \in older : p[1] \notin accepted /\ p[2] \notin accepted}
                     \cup {p \in vld \X accepted : p[1] # p[2]}
  <2>3. Ref!Scheduler!accept(Table(vs, is, ds, older, txn, rs), accepted, vld, in)
          = Table(vs \cup accepted, is \ accepted, ds \ accepted, os, ts, rs)
    <3>1. /\ os = {p \in older : p[1] \notin accepted /\ p[2] \notin accepted}
                     \cup {p \in vld \X accepted : p[1] # p[2]}
          /\ ts = [x \in SchSlots |-> IF x \in accepted THEN in.iss ELSE txn[x]]
      OBVIOUS
    <3> HIDE DEF vs, ds, ts, os
    <3> QED BY <1>12, <3>1, AcceptMatches
  <2>4. m3 = Table(vs, is, ds, older, txn, rs)
    BY <1>9
  <2>5. vs \cup accepted = vld' /\ is \ accepted = issd' /\ ds \ accepted = done'
        /\ os = older' /\ ts = txn' /\ rs = rdat'
    BY <1>4, <2>2
  <2> HIDE DEF vs, ds, ts, os
  <2> QED BY <1>10, <2>1, <2>3, <2>4, <2>5, Zenon DEF m
<1> QED BY <1>11, <1>12 DEF m

ModelOfMemory == [mem |-> mem, cq |-> Queued]

LEMMA MemoryMatches ==
  ASSUME BackendInv, NEW in \in BackendInputType, BackendEdge(in), in.cmp_ready
  PROVE  Ref!Backend!step(ModelOfMemory, in) = ModelOfMemory'
<1> DEFINE b == ModelOfMemory
           popped == IF pop(in) THEN Tail(Queued) ELSE Queued
<1>1. b = [mem |-> mem, cq |-> Queued] /\ ModelOfMemory' = [mem |-> mem', cq |-> Queued']
  BY DEF ModelOfMemory
<1>2. /\ Queued \in Seq(Completion) /\ Len(Queued) = cnt
      /\ accept_be(in) => in.req \in Txn
  BY QueueAfterEdge
<1>3. cnt \in 0 .. CQ_DEPTH /\ mem \in [Addrs -> Data]
      /\ (cnt # 0 => cq[head] \in Completion)
  BY DEF BackendInv, BackendTypeOK
<1>4. accept_be(in) <=> in.req # None /\ Len(Queued) # CQ_DEPTH
  BY <1>2 DEF accept_be, req_ready_be
<1>5. pop(in) <=> Queued # <<>>
  <2>1. pop(in) <=> cnt # 0
    BY <1>3, MemoryPortAssumption DEF pop, cmp
  <2> QED BY <1>2, <2>1
<1>6. Queued' = IF accept_be(in) THEN Append(popped, Enqueued(in.req)) ELSE popped
  BY QueueAfterEdge
<1>7. mem' = IF accept_be(in) /\ in.req.wr THEN [mem EXCEPT ![in.req.adr] = in.req.wdat] ELSE mem
  BY <1>2, <1>3 DEF BackendEdge, Push, Txn
<1>8. Ref!Backend!enqueued(b, in.req) = Enqueued(in.req)
  BY <1>1 DEF Ref!Backend!enqueued, Enqueued, Ref!Backend!ZeroData, ZeroData
<1> HIDE DEF b
<1>9. (IF b.cq # <<>> /\ in.cmp_ready THEN Tail(b.cq) ELSE b.cq) = popped
  BY <1>1, <1>5
<1> HIDE DEF popped
<1>10. Ref!Backend!step(b, in)
         = IF ~(in.req # None /\ Len(b.cq) # CQ_DEPTH) THEN [b EXCEPT !.cq = popped]
           ELSE [mem |-> IF in.req.wr THEN [b.mem EXCEPT ![in.req.adr] = in.req.wdat] ELSE b.mem,
                 cq  |-> Append(popped, Ref!Backend!enqueued(b, in.req))]
  BY <1>9 DEF Ref!Backend!step
<1>11. CASE accept_be(in)
  BY <1>1, <1>4, <1>6, <1>7, <1>8, <1>10, <1>11 DEF b
<1>12. CASE ~accept_be(in)
  BY <1>1, <1>4, <1>6, <1>7, <1>10, <1>12 DEF b
<1> QED BY <1>11, <1>12

-----------------------------------------------------------------------------
(* What the responses must carry, by tag: a dictionary of the entries in V. *)

Carried(e, x) == IF e.wr THEN None ELSE x

Dict(V, t, e) ==
  [g \in {t[i].tag : i \in V} |->
     LET i == CHOOSE i \in V : t[i].tag = g
     IN IF t[i].wr THEN None ELSE e[i]]

\* A dictionary with one record more, and without one.
WithRecord(D, e, x) ==
  [g \in DOMAIN D \cup {e.tag} |-> IF g # e.tag THEN D[g] ELSE Carried(e, x)]

WithoutTag(D, tag) == [g \in DOMAIN D \ {tag} |-> D[g]]

OneEachTag(V, t) == \A i, j \in V : t[i].tag = t[j].tag => i = j

Carries(D, V, t, e) ==
  /\ DOMAIN D = {t[i].tag : i \in V}
  /\ \A i \in V : D[t[i].tag] = Carried(t[i], e[i])

LEMMA DictAt ==
  ASSUME NEW V, NEW t, NEW e, OneEachTag(V, t)
  PROVE  Carries(Dict(V, t, e), V, t, e)
<1>1. DOMAIN Dict(V, t, e) = {t[i].tag : i \in V}
  BY DEF Dict
<1>2. ASSUME NEW i \in V PROVE Dict(V, t, e)[t[i].tag] = Carried(t[i], e[i])
  <2> DEFINE k == CHOOSE j \in V : t[j].tag = t[i].tag
  <2>1. k \in V /\ t[k].tag = t[i].tag
    OBVIOUS
  <2>2. Dict(V, t, e)[t[i].tag] = Carried(t[k], e[k])
    BY DEF Dict, Carried
  <2> HIDE DEF k
  <2>3. k = i
    BY <2>1 DEF OneEachTag
  <2> QED BY <2>2, <2>3
<1> QED BY <1>1, <1>2 DEF Carries

LEMMA DictIsFunction ==
  ASSUME NEW V, NEW t, NEW e
  PROVE  Dict(V, t, e) = [g \in DOMAIN Dict(V, t, e) |-> Dict(V, t, e)[g]]
  BY DEF Dict

\* An entry with a new tag adds its record to the dictionary.
LEMMA DictAdded ==
  ASSUME NEW V, NEW t, NEW e, NEW t2, NEW e2, NEW n, n \notin V,
         OneEachTag(V, t), OneEachTag(V \cup {n}, t2),
         \A i \in V : t2[i] = t[i] /\ e2[i] = e[i]
  PROVE  Dict(V \cup {n}, t2, e2) = WithRecord(Dict(V, t, e), t2[n], e2[n])
<1> DEFINE D == Dict(V, t, e)
           W == V \cup {n}
           E == Dict(W, t2, e2)
<1>1. Carries(D, V, t, e)
  BY DictAt
<1>2. Carries(E, W, t2, e2)
  <2>1. OneEachTag(W, t2)
    OBVIOUS
  <2> HIDE DEF W
  <2> QED BY <2>1, DictAt
<1>3. E = [g \in DOMAIN E |-> E[g]]
  <2> HIDE DEF W
  <2> QED BY DictIsFunction
<1> HIDE DEF D, E
<1>4. DOMAIN E = DOMAIN D \cup {t2[n].tag}
  BY <1>1, <1>2 DEF Carries
<1>5. \A i \in V : t2[i].tag # t2[n].tag
  BY DEF OneEachTag
<1>6. \A g \in DOMAIN E : E[g] = IF g # t2[n].tag THEN D[g] ELSE Carried(t2[n], e2[n])
  <2> SUFFICES ASSUME NEW i \in W
               PROVE  E[t2[i].tag] = IF t2[i].tag # t2[n].tag THEN D[t2[i].tag]
                                     ELSE Carried(t2[n], e2[n])
    BY <1>2 DEF Carries
  <2>1. CASE i = n
    BY <1>2, <2>1 DEF Carries
  <2>2. CASE i \in V
    <3>1. t2[i].tag = t[i].tag /\ t2[i] = t[i] /\ e2[i] = e[i]
      BY <2>2
    <3> QED BY <1>1, <1>2, <1>5, <2>2, <3>1 DEF Carries
  <2> QED BY <2>1, <2>2
<1> QED BY <1>3, <1>4, <1>6 DEF D, E, WithRecord

\* An entry that leaves takes its record along.
LEMMA DictRemoved ==
  ASSUME NEW V, NEW t, NEW e, NEW n \in V, OneEachTag(V, t)
  PROVE  Dict(V \ {n}, t, e) = WithoutTag(Dict(V, t, e), t[n].tag)
<1> DEFINE D == Dict(V, t, e)
           W == V \ {n}
           E == Dict(W, t, e)
<1>1. Carries(D, V, t, e)
  BY DictAt
<1>2. Carries(E, W, t, e)
  <2>1. OneEachTag(W, t)
    BY DEF OneEachTag
  <2> HIDE DEF W
  <2> QED BY <2>1, DictAt
<1>3. E = [g \in DOMAIN E |-> E[g]]
  <2> HIDE DEF W
  <2> QED BY DictIsFunction
<1> HIDE DEF D, E
<1>4. DOMAIN E = DOMAIN D \ {t[n].tag}
  BY <1>1, <1>2 DEF Carries, OneEachTag
<1>5. \A g \in DOMAIN E : E[g] = D[g]
  BY <1>1, <1>2 DEF Carries
<1> QED BY <1>3, <1>4, <1>5 DEF D, E, WithoutTag

\* Records that agree on the entries make the same dictionary.
LEMMA DictSame ==
  ASSUME NEW V, NEW t, NEW e, NEW t2, NEW e2, OneEachTag(V, t),
         \A i \in V : t2[i] = t[i] /\ e2[i] = e[i]
  PROVE  Dict(V, t2, e2) = Dict(V, t, e)
<1>1. OneEachTag(V, t2)
  BY DEF OneEachTag
<1> DEFINE D == Dict(V, t, e)
           E == Dict(V, t2, e2)
<1>2. Carries(D, V, t, e)
  BY DictAt
<1>3. Carries(E, V, t2, e2)
  BY <1>1, DictAt
<1>4. E = [g \in DOMAIN E |-> E[g]] /\ D = [g \in DOMAIN D |-> D[g]]
  BY DictIsFunction
<1> HIDE DEF D, E
<1>5. DOMAIN E = DOMAIN D
  BY <1>2, <1>3 DEF Carries
<1>6. \A g \in DOMAIN E : E[g] = D[g]
  BY <1>2, <1>3 DEF Carries
<1> QED BY <1>4, <1>5, <1>6 DEF D, E

-----------------------------------------------------------------------------
(* One edge of the datapath and one step of its model. *)

Datapath(s, b, w, x) == [sch |-> s, be |-> b, shadow |-> w, expected |-> x]

Written(w, e) == IF e.wr THEN [w EXCEPT ![e.adr] = e.wdat] ELSE w

LEMMA RecordMatches ==
  ASSUME NEW s, NEW b, NEW w, NEW x, NEW in
  PROVE  Ref!record(Datapath(s, b, w, x), in)
           = Datapath(s, b, Written(w, in.iss), WithRecord(x, in.iss, w[in.iss.adr]))
<1> DEFINE m  == Datapath(s, b, w, x)
           w2 == Written(w, in.iss)
           x2 == WithRecord(x, in.iss, w[in.iss.adr])
<1>1. m.shadow = w /\ m.expected = x
  BY DEF Datapath
<1>2. Ref!record(m, in) = [m EXCEPT !.shadow = w2, !.expected = x2]
  <2> HIDE DEF m
  <2> QED BY <1>1 DEF Ref!record, WithRecord, Carried, Written
<1> HIDE DEF w2, x2
<1>3. [m EXCEPT !.shadow = w2] = Datapath(s, b, w2, x)
  BY DEF Datapath
<1>4. [Datapath(s, b, w2, x) EXCEPT !.expected = x2] = Datapath(s, b, w2, x2)
  BY DEF Datapath
<1>5. [m EXCEPT !.shadow = w2, !.expected = x2] = Datapath(s, b, w2, x2)
  BY <1>3, <1>4, Zenon
<1> QED BY <1>2, <1>5 DEF w2, x2

LEMMA CheckOffMatches ==
  ASSUME NEW s, NEW b, NEW w, NEW x, NEW tag
  PROVE  Ref!check_off(Datapath(s, b, w, x), tag)
           = Datapath(s, b, w, WithoutTag(x, tag))
  BY DEF Ref!check_off, Datapath, WithoutTag

\* The ports of the model are those of the hardware.
LEMMA SamePorts ==
  ASSUME SubsysInv, NEW in \in SubsysInputType,
         NEW m, m.sch = ModelOfTable, m.be = ModelOfMemory
  PROVE  /\ Ref!sched_inp(m, in) = ToScheduler(in)
         /\ Ref!be_inp(m) = ToBackend
<1>1. /\ Ref!Scheduler!mem_sel(m.sch) = mem_sel
  BY SameSelections DEF SubsysInv, SchedulerInv
<1>2. /\ cnt \in 0 .. CQ_DEPTH /\ head \in Places /\ CQ_DEPTH \in Nat \ {0}
      /\ cq \in [Places -> Completion]
  BY BackendAssumption DEF SubsysInv, BackendInv, BackendTypeOK
<1>3. Queued \in Seq(Completion) /\ Len(Queued) = cnt
  BY <1>2, QueuedSeq DEF SubsysInv
<1>4. (IF Queued = <<>> THEN None ELSE Head(Queued)) = cmp
  <2>1. cnt # 0 => Queued[1] = cq[Wrapped(head + 1 - 1)]
    BY <1>2, QueuedSeq DEF SubsysInv
  <2>2. Wrapped(head + 1 - 1) = head
    BY <1>2 DEF Wrapped, Places
  <2>3. Queued = <<>> <=> cnt = 0
    BY <1>3
  <2>4. cnt # 0 => Head(Queued) = Queued[1]
    BY <1>3, <2>3
  <2> QED BY <2>1, <2>2, <2>3, <2>4 DEF cmp
<1>5. Ref!Backend!outputs(m.be) = [req_ready |-> req_ready_be, cmp |-> cmp]
  <2>1. m.be.cq = Queued
    BY DEF ModelOfMemory
  <2> QED BY <1>3, <1>4, <2>1 DEF Ref!Backend!outputs, req_ready_be
<1>6. Ref!sched_inp(m, in) = ToScheduler(in)
  BY <1>5 DEF Ref!sched_inp, ToScheduler
<1>7. m.sch.txn = txn
  BY DEF ModelOfTable, Table
<1>8. Ref!Scheduler!mem_port(m.sch) = mem_request
  <2>1. Ref!Scheduler!mem_port(m.sch)
          = IF mem_sel = {} THEN None ELSE m.sch.txn[Ref!Scheduler!only(mem_sel)]
    BY <1>1 DEF Ref!Scheduler!mem_port
  <2>2. Ref!Scheduler!only(mem_sel) = CHOOSE i \in mem_sel : TRUE
    BY Zenon DEF Ref!Scheduler!only
  <2> QED BY <1>7, <2>1, <2>2, Zenon DEF mem_request
<1> QED BY <1>6, <1>8 DEF Ref!be_inp, ToBackend

\* What the response port must carry after an edge: the new entry's record is
\* added before that of the entry answered is taken off.
LEMMA DictAfterEdge ==
  ASSUME SubsysInv, NEW in \in SubsysInputType, FreshTag(in), SubsysEdge(in),
         NEW accepted, accepted = AcceptSet(ToScheduler(in)),
         NEW responded, responded = RespondSet(ToScheduler(in)),
         NEW x, x = Dict(vld, txn, expected),
         NEW y, y = (IF accepted = {} THEN x
                     ELSE WithRecord(x, in.iss, shadow[in.iss.adr]))
  PROVE  /\ responded = {} => Dict(vld', txn', expected') = y
         /\ \A r \in responded : Dict(vld', txn', expected') = WithoutTag(y, txn[r].tag)
<1>1. /\ accepted \subseteq SchSlots \ vld /\ \A i, j \in accepted : i = j
      /\ \A i \in vld : accepted # {} => txn[i].tag # in.iss.tag
      /\ responded \subseteq vld \cap done
      /\ vld' = (vld \ responded) \cup accepted
      /\ txn' = [i \in SchSlots |-> IF i \in accepted THEN in.iss ELSE txn[i]]
      /\ expected' = [i \in SchSlots |-> IF i \in accepted THEN shadow[in.iss.adr]
                                                           ELSE expected[i]]
  <2> HIDE DEF SubsysInv, FreshTag, SubsysEdge
  <2> QED BY SubsysMoves
<1>2. /\ vld \subseteq SchSlots /\ OneEachTag(vld, txn)
      /\ \A i, j \in responded : i = j
  <2>1. /\ vld \subseteq SchSlots /\ OneEachTag(vld, txn)
    BY DEF SubsysInv, SchedulerInv, SchedulerTypeOK, TagsDiffer, OneEachTag
  <2>2. vld \cap done \in SUBSET SchSlots
    BY <2>1
  <2>3. \A i, j \in responded : i = j
    BY <2>2, LowestIsOne DEF RespondSet, rsp_sel
  <2> QED BY <2>1, <2>3
<1> DEFINE W == vld \cup accepted
<1>3. \A i \in vld : txn'[i] = txn[i] /\ expected'[i] = expected[i]
  BY <1>1, <1>2
<1>4. \A n \in accepted : txn'[n] = in.iss /\ expected'[n] = shadow[in.iss.adr]
  BY <1>1
<1>5. OneEachTag(W, txn')
  BY <1>1, <1>2, <1>3, <1>4 DEF OneEachTag
<1>6. Dict(W, txn', expected') = y
  <2>1. CASE accepted = {}
    <3>1. W = vld
      BY <2>1
    <3>2. Dict(vld, txn', expected') = Dict(vld, txn, expected)
      BY <1>2, <1>3, DictSame
    <3> QED BY <2>1, <3>1, <3>2
  <2>2. CASE accepted # {}
    <3>1. PICK n \in accepted : TRUE
      BY <2>2
    <3>2. accepted = {n} /\ n \notin vld /\ txn'[n] = in.iss /\ expected'[n] = shadow[in.iss.adr]
      BY <1>1, <1>4, <3>1
    <3>3. W = vld \cup {n}
      BY <3>2
    <3>4. OneEachTag(vld \cup {n}, txn')
      BY <1>5, <3>3
    <3>5. Dict(vld \cup {n}, txn', expected')
            = WithRecord(Dict(vld, txn, expected), txn'[n], expected'[n])
      BY <1>2, <1>3, <3>2, <3>4, DictAdded
    <3> QED BY <2>2, <3>2, <3>3, <3>5
  <2> QED BY <2>1, <2>2
<1>7. CASE responded = {}
  BY <1>1, <1>6, <1>7
<1>8. ASSUME NEW r \in responded
      PROVE  Dict(vld', txn', expected') = WithoutTag(y, txn[r].tag)
  <2>1. vld' = W \ {r} /\ r \in W /\ txn'[r].tag = txn[r].tag
    BY <1>1, <1>2, <1>3
  <2> HIDE DEF W
  <2>2. Dict(W \ {r}, txn', expected')
          = WithoutTag(Dict(W, txn', expected'), txn'[r].tag)
    BY <1>5, <2>1, DictRemoved
  <2> QED BY <1>6, <2>1, <2>2
<1> QED BY <1>7, <1>8

ModelOfDatapath == Datapath(ModelOfTable, ModelOfMemory, shadow, Dict(vld, txn, expected))

LEMMA DatapathIsModel == ModelOfDatapath = ModelOfRegisters
  BY Zenon DEF ModelOfDatapath, ModelOfRegisters, Datapath, ModelOfTable, Table, ModelOfMemory, Dict

LEMMA StepMatches ==
  ASSUME SubsysInv, NEW in \in SubsysInputType, FreshTag(in), SubsysEdge(in)
  PROVE  Ref!step(ModelOfDatapath, in) = ModelOfDatapath'
<1> DEFINE m   == ModelOfDatapath
           tbl == ModelOfTable
           ram == ModelOfMemory
           x   == Dict(vld, txn, expected)
           accepted  == AcceptSet(ToScheduler(in))
           responded == RespondSet(ToScheduler(in))
           y   == IF accepted = {} THEN x ELSE WithRecord(x, in.iss, shadow[in.iss.adr])
           z   == Dict(vld', txn', expected')
           rsp == Ref!Scheduler!rsp_port(m.sch)
           m1  == IF in.iss # None /\ Ref!Scheduler!iss_ready(m.sch) THEN Ref!record(m, in) ELSE m
           m2  == IF rsp # None /\ in.rsp_ready THEN Ref!check_off(m1, rsp.tag) ELSE m1
<1>1. Ref!step(m, in)
        = [m2 EXCEPT !.be  = Ref!Backend!step(@, Ref!be_inp(m)),
                     !.sch = Ref!Scheduler!step(@, Ref!sched_inp(m, in))]
  BY Zenon DEF Ref!step
<1>2. m = Datapath(tbl, ram, shadow, x) /\ m.sch = tbl /\ m.be = ram
  BY DEF ModelOfDatapath, Datapath
<1>3. /\ Ref!Scheduler!free_slot(m.sch) = free_slot /\ Ref!Scheduler!rsp_sel(m.sch) = rsp_sel
  BY <1>2, SameSelections DEF SubsysInv, SchedulerInv
<1>4. Ref!sched_inp(m, in) = ToScheduler(in) /\ Ref!be_inp(m) = ToBackend
  BY <1>2, SamePorts
<1>5. /\ Ref!Scheduler!step(tbl, ToScheduler(in)) = ModelOfTable'
      /\ Ref!Backend!step(ram, ToBackend) = ModelOfMemory'
  <2>1. SchedulerInv /\ BackendInv /\ SchedulerEdge(ToScheduler(in)) /\ BackendEdge(ToBackend)
    BY DEF SubsysInv, SubsysEdge
  <2>2. /\ ToScheduler(in) \in SchedulerInputType /\ ToBackend \in BackendInputType
        /\ ToBackend.cmp_ready
    BY WiringFacts DEF ToBackend
  <2> QED BY <2>1, <2>2, TableMatches, MemoryMatches
<1>6. /\ accepted = {} \/ accepted = free_slot
      /\ accepted # {} <=> in.iss # None /\ free_slot # {}
      /\ responded # {} <=> rsp_sel # {} /\ in.rsp_ready
      /\ responded # {} => responded = rsp_sel
  BY DEF ToScheduler, AcceptSet, RespondSet
<1>7. /\ accepted \subseteq SchSlots \ vld /\ accepted # {} => in.iss \in Txn
      /\ responded \subseteq vld \cap done /\ rsp_sel \subseteq vld \cap done
      /\ shadow' = IF accepted # {} /\ in.iss.wr
                   THEN [shadow EXCEPT ![in.iss.adr] = in.iss.wdat] ELSE shadow
  <2>1. rsp_sel \subseteq vld \cap done
    BY DEF rsp_sel, LowestOf
  <2> QED BY <2>1, SubsysMoves
<1>8. (responded = {} => z = y) /\ \A r \in responded : z = WithoutTag(y, txn[r].tag)
  <2>1. /\ accepted = AcceptSet(ToScheduler(in)) /\ responded = RespondSet(ToScheduler(in))
        /\ x = Dict(vld, txn, expected)
        /\ y = (IF accepted = {} THEN x ELSE WithRecord(x, in.iss, shadow[in.iss.adr]))
    OBVIOUS
  <2> HIDE DEF accepted, responded, x, y
  <2> QED BY <2>1, DictAfterEdge
<1>9. /\ rsp_sel = {} => rsp = None
      /\ rsp_sel # {} => \E r \in rsp_sel : rsp # None /\ rsp.tag = txn[r].tag
  <2>1. m.sch.txn = txn /\ m.sch.rdat = rdat
    BY <1>2 DEF ModelOfTable, Table
  <2>2. rsp = IF rsp_sel = {} THEN None
              ELSE [tag   |-> txn[Ref!Scheduler!only(rsp_sel)].tag,
                    rdata |-> rdat[Ref!Scheduler!only(rsp_sel)]]
    <3> HIDE DEF m
    <3> QED BY <1>3, <2>1 DEF Ref!Scheduler!rsp_port
  <2>3. rsp_sel # {} => Ref!Scheduler!only(rsp_sel) \in rsp_sel
    BY DEF Ref!Scheduler!only
  <2>4. \A r \in rsp_sel : [tag |-> txn[r].tag, rdata |-> rdat[r]] \in Completion
    BY <1>7 DEF SubsysInv, SchedulerInv, SchedulerTypeOK, Txn, Completion
  <2> HIDE DEF rsp
  <2> QED BY <2>2, <2>3, <2>4, MemoryPortAssumption
<1>10. Ref!Scheduler!iss_ready(m.sch) <=> free_slot # {}
  BY <1>3 DEF Ref!Scheduler!iss_ready
<1> HIDE DEF m, x, accepted, responded, z, rsp
<1>11. m1 = Datapath(tbl, ram, shadow', y)
  <2>1. CASE accepted = {}
    BY <1>2, <1>6, <1>7, <1>10, <2>1
  <2>2. CASE accepted # {}
    <3>1. m1 = Ref!record(m, in)
      BY <1>6, <1>10, <2>2
    <3> HIDE DEF m1
    <3>2. m1 = Datapath(tbl, ram, Written(shadow, in.iss), WithRecord(x, in.iss, shadow[in.iss.adr]))
      BY <1>2, <3>1, RecordMatches
    <3>3. shadow' = Written(shadow, in.iss)
      BY <1>7, <2>2 DEF Written
    <3> QED BY <2>2, <3>2, <3>3
  <2> QED BY <2>1, <2>2
<1> HIDE DEF m1, y
<1>12. m2 = Datapath(tbl, ram, shadow', z)
  <2>1. CASE responded = {}
    BY <1>6, <1>8, <1>9, <1>11, <2>1
  <2>2. CASE responded # {}
    <3>1. PICK r \in rsp_sel : rsp # None /\ rsp.tag = txn[r].tag
      BY <1>6, <1>9, <2>2
    <3>2. m2 = Ref!check_off(m1, rsp.tag)
      BY <1>6, <2>2, <3>1
    <3> HIDE DEF m2
    <3>3. m2 = Datapath(tbl, ram, shadow', WithoutTag(y, rsp.tag))
      BY <1>11, <3>2, CheckOffMatches
    <3> QED BY <1>6, <1>8, <2>2, <3>1, <3>3
  <2> QED BY <2>1, <2>2
<1> HIDE DEF m2, tbl, ram
<1>13. m2.be = ram /\ m2.sch = tbl
  BY <1>12 DEF Datapath
<1> DEFINE b2 == ModelOfMemory'
           s2 == ModelOfTable'
           u  == shadow'
<1>14. Ref!step(m, in) = [m2 EXCEPT !.be = b2, !.sch = s2]
  BY <1>1, <1>4, <1>5, <1>13 DEF tbl, ram
<1> HIDE DEF b2, s2, u
<1>15. [Datapath(tbl, ram, u, z) EXCEPT !.be = b2] = Datapath(tbl, b2, u, z)
  BY DEF Datapath
<1>16. [Datapath(tbl, b2, u, z) EXCEPT !.sch = s2] = Datapath(s2, b2, u, z)
  BY DEF Datapath
<1>17. [m2 EXCEPT !.be = b2, !.sch = s2] = Datapath(s2, b2, u, z)
  <2>1. m2 = Datapath(tbl, ram, u, z)
    BY <1>12 DEF u
  <2> QED BY <1>15, <1>16, <2>1, Zenon
<1>18. ModelOfDatapath' = Datapath(s2, b2, u, z)
  BY Zenon DEF ModelOfDatapath, s2, b2, u, z, Datapath, Dict
<1> QED BY <1>14, <1>17, <1>18 DEF m

\* Fresh registers are a fresh model.
FreshRegisters ==
  /\ vld = {} /\ issd = {} /\ done = {} /\ older = {} /\ cnt = 0
  /\ txn = [i \in SchSlots |-> ZeroTxn] /\ rdat = [i \in SchSlots |-> ZeroData]
  /\ mem = [a \in Addrs |-> ZeroData] /\ shadow = mem

LEMMA NewMatches == FreshRegisters => ModelOfRegisters = Ref!New
<1> SUFFICES ASSUME FreshRegisters PROVE ModelOfRegisters = Ref!New
  OBVIOUS
<1> USE DEF FreshRegisters
<1> DEFINE dict == [t \in {txn[i].tag : i \in vld} |->
                      LET i == CHOOSE i \in vld : txn[i].tag = t
                      IN IF txn[i].wr THEN None ELSE expected[i]]
<1>1. dict = Ref!NoneExpected
  BY DEF Ref!NoneExpected
<1>2. Queued = <<>>
  BY DEF Queued
<1> HIDE DEF dict
<1>3. Ref!New = [sch |-> Ref!Scheduler!New, be |-> Ref!Backend!New,
                 shadow |-> mem, expected |-> Ref!NoneExpected]
  BY DEF Ref!New, Ref!ZeroData, ZeroData
<1>4. Ref!Scheduler!New = [vld |-> vld, issd |-> issd, done |-> done, older |-> older,
                           txn |-> txn, rdat |-> rdat]
  BY DEF Ref!Scheduler!New, Ref!Scheduler!ZeroData, ZeroData, Ref!Scheduler!Range0, SchSlots
<1>5. Ref!Backend!New = [mem |-> mem, cq |-> Queued]
  BY <1>2 DEF Ref!Backend!New, Ref!Backend!ZeroData, ZeroData
<1>6. ModelOfRegisters = [sch |-> [vld |-> vld, issd |-> issd, done |-> done, older |-> older,
                                   txn |-> txn, rdat |-> rdat],
                          be |-> [mem |-> mem, cq |-> Queued],
                          shadow |-> shadow, expected |-> dict]
  BY Zenon DEF ModelOfRegisters, dict
<1> QED BY <1>1, <1>3, <1>4, <1>5, <1>6

ModelInv == SubsysInv /\ SubsysMatchesModel

LEMMA InitModelInv == ReplayInit => ModelInv
<1> SUFFICES ASSUME ReplayInit PROVE ModelInv
  OBVIOUS
<1>1. SubsysInv
  BY InitSubsysInv DEF ReplayInit
<1>2. FreshRegisters /\ ref = Ref!New
  BY DEF FreshRegisters, ReplayInit, SubsysInit, SchedulerInit, BackendInit
<1> QED BY <1>1, <1>2, NewMatches DEF ModelInv, SubsysMatchesModel

LEMMA NextModelInv == ModelInv /\ [ReplayNext]_replayVars => ModelInv'
<1> SUFFICES ASSUME ModelInv, [ReplayNext]_replayVars PROVE ModelInv'
  OBVIOUS
<1>1. CASE ReplayReset
  <2>1. SubsysInv'
    BY <1>1, ResetSubsysInv DEF ReplayReset
  <2>2. FreshRegisters' /\ ref' = Ref!New
    BY <1>1 DEF FreshRegisters, ReplayReset, SubsysReset, SchedulerReset, BackendReset
  <2>3. FreshRegisters' => (ModelOfRegisters = Ref!New)'
    BY NewMatches, PTL
  <2> QED BY <2>1, <2>2, <2>3 DEF ModelInv, SubsysMatchesModel
<1>2. ASSUME NEW in \in SubsysInputs, ReplayEdge(in) PROVE ModelInv'
  <2>1. in \in SubsysInputType /\ SubsysEdge(in) /\ ref' = Ref!step(ref, in)
    BY <1>2, SubsysInputAssumption DEF ReplayEdge
  <2>2. live_tags = {txn[i].tag : i \in vld}
    <3>1. ref.sch.vld = vld /\ ref.sch.txn = txn
      BY DEF ModelInv, SubsysMatchesModel, ModelOfRegisters
    <3> QED BY <3>1 DEF live_tags
  <2>3. FreshTag(in)
    BY <1>2, <2>2 DEF ReplayEdge, FreshTag
  <2>4. SubsysInv'
    BY <1>2, <2>1, <2>3, NextSubsysInv DEF ModelInv, SubsysNext
  <2>5. ref' = ModelOfDatapath'
    BY <2>1, <2>3, StepMatches, DatapathIsModel DEF ModelInv, SubsysMatchesModel
  <2>6. (ModelOfDatapath = ModelOfRegisters)'
    BY DatapathIsModel, PTL
  <2> QED BY <2>4, <2>5, <2>6 DEF ModelInv, SubsysMatchesModel
<1>3. CASE UNCHANGED replayVars
  <2>1. SubsysInv'
    BY <1>3, NextSubsysInv DEF ModelInv, replayVars
  <2>2. /\ vld' = vld /\ issd' = issd /\ done' = done /\ txn' = txn /\ rdat' = rdat
        /\ older' = older /\ mem' = mem /\ Queued' = Queued
        /\ shadow' = shadow /\ expected' = expected /\ ref' = ref
    BY <1>3 DEF replayVars, subsysVars, schedulerVars, backendVars, Queued, Wrapped
  <2>3. ModelOfRegisters' = ModelOfRegisters
    BY <2>2 DEF ModelOfRegisters
  <2> QED BY <2>1, <2>2, <2>3 DEF ModelInv, SubsysMatchesModel
<1> QED BY <1>1, <1>2, <1>3 DEF ReplayNext

\* The memory datapath and its model, written independently, hold the same after
\* any sequence of beats the generator may draw.
THEOREM SubsysAlwaysMatchesModel == ReplaySpec => []SubsysMatchesModel
<1>1. ModelInv => SubsysMatchesModel
  BY DEF ModelInv
<1> QED BY <1>1, InitModelInv, NextModelInv, PTL DEF ReplaySpec
=============================================================================
