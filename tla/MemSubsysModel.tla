--------------------------- MODULE MemSubsysModel ---------------------------
(***************************************************************************)
(* The independent reference model of the memory datapath                  *)
(* (tb/models/memsubsys_model.py): the models of the two blocks wired      *)
(* together, and an end-to-end check that a read returns the last write    *)
(* accepted before it. m is the MemSubsys object: sch and be are the       *)
(* models, shadow the memory in program order, and expected what each tag  *)
(* in flight must return.                                                  *)
(***************************************************************************)
EXTENDS MemoryPort

CONSTANTS SCH_DEPTH, CQ_DEPTH

Scheduler == INSTANCE SchedulerModel
Backend   == INSTANCE MemBackendModel

\* expected is a dictionary: a function of the tags it has.
NoneExpected == [t \in {} |-> ZeroData]

\* MemSubsys(), and what step() leaves under reset.
New == [sch |-> Scheduler!New, be |-> Backend!New,
        shadow |-> [a \in Addrs |-> ZeroData], expected |-> NoneExpected]

sched_inp(m, inp) ==
  LET bo == Backend!outputs(m.be) IN
  [iss |-> inp.iss, mem_ready |-> bo.req_ready, mc |-> bo.cmp, rsp_ready |-> inp.rsp_ready]

be_inp(m) == [req |-> Scheduler!mem_port(m.sch), cmp_ready |-> TRUE]

outputs(m) ==
  [iss_ready |-> Scheduler!iss_ready(m.sch), rsp |-> Scheduler!rsp_port(m.sch),
   occupancy |-> Scheduler!outputs(m.sch).occupancy]

\* An accepted write updates the shadow memory, and either access records what
\* its response must carry; nothing is asked of a write's.
record(m, inp) ==
  [m EXCEPT !.shadow = IF inp.iss.wr THEN [m.shadow EXCEPT ![inp.iss.adr] = inp.iss.wdat] ELSE @,
            !.expected = [t \in DOMAIN @ \cup {inp.iss.tag} |->
                            IF t # inp.iss.tag THEN @[t]
                            ELSE IF inp.iss.wr THEN None ELSE m.shadow[inp.iss.adr]]]

check_off(m, tag) ==
  [m EXCEPT !.expected = [t \in DOMAIN @ \ {tag} |-> @[t]]]

step(m, inp) ==
  LET rsp == Scheduler!rsp_port(m.sch)
      m1  == IF inp.iss # None /\ Scheduler!iss_ready(m.sch) THEN record(m, inp) ELSE m
      m2  == IF rsp # None /\ inp.rsp_ready THEN check_off(m1, rsp.tag) ELSE m1
  IN [m2 EXCEPT !.be  = Backend!step(@, be_inp(m)),
                !.sch = Scheduler!step(@, sched_inp(m, inp))]
=============================================================================
