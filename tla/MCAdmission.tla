---------------------------- MODULE MCAdmission ----------------------------
(***************************************************************************)
(* An instance of AdmissionTop for TLC with a fixed configuration: maxima  *)
(* stay at RESET_MAX and timeouts use threshold 1.                         *)
(***************************************************************************)
EXTENDS AdmissionReplay

Vec(a, b)  == [p \in Pools |-> IF p = 0 THEN a ELSE b]
MCEpochs   == {0}
MCEntries  == [epoch : MCEpochs, meta : {0}, credit : CreditVecs]
Zero       == [epoch |-> 0, meta |-> 0, credit |-> Vec(0, 0)]
MCRequests == {[meta |-> 0, credit |-> c] : c \in {Vec(1, 0), Vec(1, 1)}}
NoInputs   == {}    \* the inner ports are wired by AdmissionEdge

\* Requests arrive at time 0 and time out at time 1; the recovery agent takes
\* each reclaim response at once. A request while the issue buffer is full is
\* refused and one while it is empty does not look at downstream_ready, so the
\* beats with both a request and downstream_ready low add no step. A response
\* and a reclaim share an edge with each other and with a request, one of them
\* with a timeout or a stall downstream.
MCInputs ==
  {in \in [ts : {0, 1}, timeout_enable : {TRUE}, timeout_thresh : {1},
           active_epoch : {0}, req : MCRequests \cup {None}, req_accept_enable : {TRUE},
           downstream_ready : BOOLEAN, resp : Tags \cup {None}, reclaim : Tags \cup {None},
           reclaim_rsp_ready : {TRUE}, committed_max : {None}, frozen_and_empty : {FALSE}] :
     /\ in.req # None => in.ts = 0 /\ in.downstream_ready
     /\ in.ts = 1 => in.downstream_ready
     /\ in.ts = 1 \/ ~in.downstream_ready => None \in {in.resp, in.reclaim}}
=============================================================================
