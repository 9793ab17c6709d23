---------------------------- MODULE TaggedMemory ----------------------------
(***************************************************************************)
(* What the memory side promises the scheduler: requests are served one at *)
(* a time in the order they are taken, each owes one completion, and the   *)
(* completions are delivered in that order. At most Capacity are owed.     *)
(***************************************************************************)
EXTENDS MemoryPort, Sequences

CONSTANT Capacity

VARIABLES
  store,    \* the value at each address
  owed      \* the completions not delivered yet, oldest first

Answer(req) ==
  [tag |-> req.tag, rdata |-> IF req.wr THEN ZeroData ELSE store[req.adr]]

Zeroed == [a \in Addrs |-> ZeroData]

Init == store = Zeroed /\ owed = <<>>

Apply(req) == store' = IF req.wr THEN [store EXCEPT ![req.adr] = req.wdat] ELSE store

Serve(req) ==
  /\ Len(owed) < Capacity
  /\ owed' = Append(owed, Answer(req))
  /\ Apply(req)

Deliver ==
  /\ owed # <<>>
  /\ owed' = Tail(owed)
  /\ UNCHANGED store

ServeAndDeliver(req) ==
  /\ owed # <<>> /\ Len(owed) < Capacity
  /\ owed' = Append(Tail(owed), Answer(req))
  /\ Apply(req)

Restart == store' = Zeroed /\ owed' = <<>>

Next ==
  \/ Restart
  \/ Deliver
  \/ \E req \in Txn : Serve(req) \/ ServeAndDeliver(req)

Spec == Init /\ [][Next]_<<store, owed>>
=============================================================================
