-------------------------- MODULE MemBackendModel --------------------------
(***************************************************************************)
(* The independent reference model of the behavioural memory               *)
(* (tb/models/mem_backend_model.py), written as TrackerModel is: b is the  *)
(* MemBackend object. The completions are a deque, not a circle.           *)
(***************************************************************************)
EXTENDS MemoryPort, Sequences

CONSTANT CQ_DEPTH

\* MemBackend(), and what step() leaves under reset.
New == [mem |-> [a \in Addrs |-> ZeroData], cq |-> <<>>]

outputs(b) ==
  [req_ready |-> Len(b.cq) # CQ_DEPTH, cmp |-> IF b.cq = <<>> THEN None ELSE Head(b.cq)]

\* The read value is taken before the edge.
enqueued(b, req) ==
  [tag |-> req.tag, rdata |-> IF req.wr THEN ZeroData ELSE b.mem[req.adr]]

step(b, inp) ==
  LET accepted == inp.req # None /\ Len(b.cq) # CQ_DEPTH
      popped   == IF b.cq # <<>> /\ inp.cmp_ready THEN Tail(b.cq) ELSE b.cq
  IN IF ~accepted THEN [b EXCEPT !.cq = popped]
     ELSE [mem |-> IF inp.req.wr THEN [b.mem EXCEPT ![inp.req.adr] = inp.req.wdat] ELSE b.mem,
           cq  |-> Append(popped, enqueued(b, inp.req))]
=============================================================================
