----------------------------- MODULE MemBackend -----------------------------
(***************************************************************************)
(* The behavioural memory (rtl/core/mem_backend.sv): a request is applied  *)
(* to the array at the edge that accepts it and its completion enters a    *)
(* circular buffer, whose head is presented to the scheduler.              *)
(*                                                                         *)
(* One clock edge is one step, as in OutstandingTracker.                   *)
(***************************************************************************)
EXTENDS MemoryPort

CONSTANTS
  CQ_DEPTH,       \* places in the buffer, not necessarily a power of two
  BackendInputs   \* the input vectors the environment may present at an edge

Places == 0 .. CQ_DEPTH - 1

\* req is the request presented with req_valid.
BackendInputType == [req : Txn \cup {None}, cmp_ready : BOOLEAN]

ASSUME BackendAssumption ==
  /\ CQ_DEPTH \in Nat \ {0}
  /\ BackendInputs \subseteq BackendInputType

VARIABLES
  mem,
  cq,      \* cq_tag and cq_data of each place
  head, tail, cnt

backendVars == <<mem, cq, head, tail, cnt>>

req_ready_be == cnt # CQ_DEPTH

\* Mutant: a full buffer accepts when it delivers.
accept_be_WhenFull(in) == in.req # None /\ (req_ready_be \/ in.cmp_ready)

accept_be(in) == in.req # None /\ req_ready_be

\* The completion presented (cmp_valid, cmp_tag, cmp_rdata).
cmp == IF cnt = 0 THEN None ELSE cq[head]

pop(in) == cmp # None /\ in.cmp_ready

pinc(p) == IF p = CQ_DEPTH - 1 THEN 0 ELSE p + 1

\* A read returns what the array holds before the edge, a write zero.
Enqueued(req) ==
  [tag |-> req.tag, rdata |-> IF req.wr THEN ZeroData ELSE mem[req.adr]]

BackendInit ==
  /\ mem = [a \in Addrs |-> ZeroData]
  /\ cq = [p \in Places |-> ZeroCompletion]
  /\ head = 0 /\ tail = 0 /\ cnt = 0

\* Asynchronous reset.
BackendReset ==
  /\ mem' = [a \in Addrs |-> ZeroData]
  /\ cq' = [p \in Places |-> ZeroCompletion]
  /\ head' = 0 /\ tail' = 0 /\ cnt' = 0

Push(in) ==
  IF accept_be(in)
  THEN /\ mem'  = [a \in Addrs |-> IF in.req.wr /\ a = in.req.adr THEN in.req.wdat ELSE mem[a]]
       /\ cq'   = [p \in Places |-> IF p = tail THEN Enqueued(in.req) ELSE cq[p]]
       /\ tail' = pinc(tail)
  ELSE UNCHANGED <<mem, cq, tail>>

cnt_next(in) == cnt + (IF accept_be(in) THEN 1 ELSE 0) - (IF pop(in) THEN 1 ELSE 0)

BackendEdge(in) ==
  /\ Push(in)
  /\ head' = IF pop(in) THEN pinc(head) ELSE head
  /\ cnt' = cnt_next(in)

BackendNext == BackendReset \/ \E in \in BackendInputs : BackendEdge(in)

BackendSpec == BackendInit /\ [][BackendNext]_backendVars

-----------------------------------------------------------------------------
BackendTypeOK ==
  /\ mem \in [Addrs -> Data]
  /\ cq \in [Places -> Completion]
  /\ head \in Places /\ tail \in Places
  /\ cnt \in 0 .. CQ_DEPTH

\* Place p of the circle, for p below twice its size.
Wrapped(p) == IF p < CQ_DEPTH THEN p ELSE p - CQ_DEPTH

\* The occupied places are the cnt ones from head on.
QueueConsistent == tail = Wrapped(head + cnt)

\* The completions the buffer holds, oldest first.
Queued == [k \in 1 .. cnt |-> cq[Wrapped(head + k - 1)]]

Abstract == INSTANCE TaggedMemory
              WITH Capacity <- CQ_DEPTH, store <- mem, owed <- Queued

\* The memory with its circular buffer, two pointers and a count kept apart is a
\* memory with a queue: no completion is lost, duplicated, reordered or corrupted
\* when the pointers wrap or a push and a pop share an edge.
ImplementsTaggedMemory == Abstract!Spec
=============================================================================
