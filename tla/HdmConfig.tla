----------------------------- MODULE HdmConfig -----------------------------
(***************************************************************************)
(* The HDM configuration block (rtl/csr/hdm_config.sv): shadow windows     *)
(* that software writes at any time, a snapshot taken when an update is    *)
(* accepted, and the active windows, replaced on one edge after a freeze   *)
(* and a drain. A step is one clock edge for one vector of inputs.         *)
(***************************************************************************)
EXTENDS HdmDecode, Ports

CONSTANTS
  EPOCH_MOD,     \* 2^16
  HDM_TS_HALF,   \* 2^(TS_W-1)
  HDM_TS_MAX,    \* the largest threshold a register holds
  HdmInputs      \* the input vectors the environment may present at an edge

Timeout   == [en : BOOLEAN, thresh : 0 .. HDM_TS_MAX]
HdmParams == [map : Mapping, to : Timeout]

\* shadow_write is the window written, with its index; outstanding_cnt and
\* alloc_fire come from the datapath.
HdmInputType ==
  [shadow_write : [idx : WinIds, win : Window] \cup {None}, cap_write : Capacities \cup {None},
   req : Timeout \cup {None}, rsp_ready : BOOLEAN]

ASSUME HdmAssumption ==
  /\ EPOCH_MOD \in Nat \ {0} /\ HDM_TS_HALF \in Nat \ {0} /\ HDM_TS_MAX \in Nat
  /\ HdmInputs \subseteq HdmInputType
  /\ None \notin Timeout /\ None \notin HdmParams /\ None \notin {"OK", "INVALID"}

VARIABLES
  shadow,      \* sh_*: windows and capacity
  pend, act,   \* pend_*, act_*: windows, capacity and timeout policy
  hdm_state, hdm_rsp, cfg_epoch

hdmVars == <<shadow, pend, act, hdm_state, hdm_rsp, cfg_epoch>>

NoWindow   == [en |-> FALSE, base |-> 0, size |-> 0, dpa |-> 0]
NoMapping  == [win |-> [i \in WinIds |-> NoWindow], cap |-> 0]
NoParams   == [map |-> NoMapping, to |-> [en |-> FALSE, thresh |-> 0]]

-----------------------------------------------------------------------------
to_legal(to) == to.en => 0 < to.thresh /\ to.thresh < HDM_TS_HALF

req_ok(to) == mapping_ok(shadow) /\ to_legal(to)

\* Mutant: admission goes on while an update drains.
hdm_accept_enable_Always == TRUE

\* Admission is open (req_accept_enable).
hdm_accept_enable == hdm_state = "ACTIVE"

hdm_req_ready == hdm_state = "ACTIVE" /\ hdm_rsp = None

hdm_req_accept(in) == in.req # None /\ hdm_req_ready

\* The response after the requester's handshake at this edge.
rsp_kept(in) == IF in.rsp_ready THEN None ELSE hdm_rsp

\* Shadow writes are always allowed.
WriteShadow(in) ==
  shadow' =
    [win |-> IF in.shadow_write = None THEN shadow.win
             ELSE [shadow.win EXCEPT ![in.shadow_write.idx] = in.shadow_write.win],
     cap |-> IF in.cap_write = None THEN shadow.cap ELSE in.cap_write]

-----------------------------------------------------------------------------
(* The transitions of the state machine. *)

HdmInit ==
  /\ shadow = NoMapping /\ pend = NoParams /\ act = NoParams
  /\ hdm_state = "ACTIVE" /\ hdm_rsp = None /\ cfg_epoch = 0

\* Asynchronous reset, from any state.
HdmReset ==
  /\ shadow' = NoMapping /\ pend' = NoParams /\ act' = NoParams
  /\ hdm_state' = "ACTIVE" /\ hdm_rsp' = None /\ cfg_epoch' = 0

\* An invalid update is answered at once.
HdmReject(in) ==
  /\ hdm_req_accept(in) /\ ~req_ok(in.req)
  /\ hdm_rsp' = "INVALID"
  /\ UNCHANGED <<pend, act, hdm_state, cfg_epoch>>

\* The payload is copied once.
HdmSnapshot(in) ==
  /\ hdm_req_accept(in) /\ req_ok(in.req)
  /\ pend' = [map |-> shadow, to |-> in.req]
  /\ hdm_state' = "FREEZE"
  /\ hdm_rsp' = rsp_kept(in)
  /\ UNCHANGED <<act, cfg_epoch>>

\* Mutant: only an allocation on this very edge holds the update back.
drained_NoCount(outstanding_cnt, alloc_fire) == ~alloc_fire

drained(outstanding_cnt, alloc_fire) == outstanding_cnt = 0 /\ ~alloc_fire

HdmDrained(in, outstanding_cnt, alloc_fire) ==
  /\ hdm_state = "FREEZE" /\ drained(outstanding_cnt, alloc_fire)
  /\ hdm_state' = "COMMIT"
  /\ hdm_rsp' = rsp_kept(in)
  /\ UNCHANGED <<pend, act, cfg_epoch>>

\* Mutant: the commit takes the shadow windows.
committed_Shadow == [map |-> shadow, to |-> pend.to]

committed == pend

next_epoch == (cfg_epoch + 1) % EPOCH_MOD

\* Windows, capacity, timeout policy and epoch change on one edge.
HdmCommit ==
  /\ hdm_state = "COMMIT"
  /\ act' = committed
  /\ cfg_epoch' = next_epoch
  /\ hdm_rsp' = "OK"
  /\ hdm_state' = "ACTIVE"
  /\ UNCHANGED pend

\* Nothing to accept, or not drained yet.
HdmHold(in, outstanding_cnt, alloc_fire) ==
  /\ \/ hdm_state = "ACTIVE" /\ ~hdm_req_accept(in)
     \/ hdm_state = "FREEZE" /\ ~drained(outstanding_cnt, alloc_fire)
  /\ hdm_rsp' = rsp_kept(in)
  /\ UNCHANGED <<pend, act, hdm_state, cfg_epoch>>

HdmEdge(in, outstanding_cnt, alloc_fire) ==
  /\ WriteShadow(in)
  /\ \/ HdmReject(in)
     \/ HdmSnapshot(in)
     \/ HdmDrained(in, outstanding_cnt, alloc_fire)
     \/ HdmCommit
     \/ HdmHold(in, outstanding_cnt, alloc_fire)

-----------------------------------------------------------------------------
\* The registers hold values of their widths, whatever an edge brings.
HdmTypeOK ==
  /\ shadow \in Mapping /\ pend \in HdmParams /\ act \in HdmParams
  /\ hdm_state \in {"ACTIVE", "FREEZE", "COMMIT"}
  /\ hdm_rsp \in {"OK", "INVALID", None}
  /\ cfg_epoch \in 0 .. EPOCH_MOD - 1

\* Whatever software writes to the shadow, and whenever, the windows that
\* addresses are decoded against never make the decoder fail closed, and the
\* threshold the tracker is given is one it can compare an age with.
ActiveDecodesCleanly == DecodesCleanly(act.map) /\ to_legal(act.to)
=============================================================================
