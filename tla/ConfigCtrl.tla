----------------------------- MODULE ConfigCtrl -----------------------------
(***************************************************************************)
(* The configuration controller (rtl/csr/config_ctrl.sv). A requested      *)
(* configuration is snapshot once, admission is frozen, and when the       *)
(* datapath is quiescent every active field is replaced on one edge.       *)
(***************************************************************************)
EXTENDS Integers, Ports

CONSTANTS
  Configs,       \* the configurations a requester may present
  ZeroConfig,    \* the active and pending fields after reset
  BadWindow,     \* windows with size or capacity zero
  CfgCountMax,   \* 2^COUNT_W - 1: the largest representable credit maximum
  TS_HALF        \* 2^(TS_W-1)

(***************************************************************************)
(* A configuration has the fields window (hdm base, size and capacity),    *)
(* timeout_en, timeout_thresh, cmax (a maximum for each pool) and epoch.   *)
(* The controller has no active cmax register: on the commit edge it hands *)
(* its pending maxima to the credit manager, and active.cmax records them. *)
(***************************************************************************)
ASSUME ConfigAssumption ==
  /\ ZeroConfig \in Configs /\ ZeroConfig.window \in BadWindow
  /\ None \notin Configs

VARIABLES
  cfg_state,     \* IDLE, DRAIN, RSP_OK, RSP_INV
  pending,       \* p_*: the snapshot of the accepted request
  active,        \* active_*: the configuration in force
  rsp_reason

cfgVars == <<cfg_state, pending, active, rsp_reason>>

CfgStates == {"IDLE", "DRAIN", "RSP_OK", "RSP_INV"}
Reasons   == {"OK", "TIMEOUT", "CMAX", "HDM"}

to_ok(c)   == c.timeout_en => c.timeout_thresh # 0 /\ c.timeout_thresh < TS_HALF
cmax_ok(c) == \A p \in DOMAIN c.cmax : c.cmax[p] <= CfgCountMax
hdm_ok(c)  == c.window \notin BadWindow

\* Mutant: the maxima are not checked.
ValidConfig_NoCmax(c) == to_ok(c) /\ hdm_ok(c)

ValidConfig(c) == to_ok(c) /\ cmax_ok(c) /\ hdm_ok(c)

req_reason(c) ==
  IF ~to_ok(c) THEN "TIMEOUT"
  ELSE IF ~cmax_ok(c) THEN "CMAX"
  ELSE IF ~hdm_ok(c) THEN "HDM"
  ELSE "OK"

req_accept_enable == cfg_state = "IDLE"
cfg_rsp_valid     == cfg_state \in {"RSP_OK", "RSP_INV"}

CfgInit ==
  /\ cfg_state = "IDLE" /\ rsp_reason = "OK"
  /\ pending = ZeroConfig /\ active = ZeroConfig

\* Asynchronous reset.
CfgReset ==
  /\ cfg_state' = "IDLE" /\ rsp_reason' = "OK"
  /\ pending' = ZeroConfig /\ active' = ZeroConfig

\* A request is accepted in IDLE only; an invalid one goes straight to its
\* response.
CfgAccept(req) ==
  /\ cfg_state = "IDLE" /\ req # None
  /\ pending' = req
  /\ rsp_reason' = req_reason(req)
  /\ cfg_state' = IF ValidConfig(req) THEN "DRAIN" ELSE "RSP_INV"
  /\ UNCHANGED active

CfgCommit(quiescent) ==
  /\ cfg_state = "DRAIN" /\ quiescent
  /\ active' = pending
  /\ cfg_state' = "RSP_OK"
  /\ UNCHANGED <<pending, rsp_reason>>

\* Mutant: the controller does not leave RSP_INV.
CfgRespond_OkOnly(rsp_ready) ==
  /\ cfg_state = "RSP_OK" /\ rsp_ready
  /\ cfg_state' = "IDLE"
  /\ UNCHANGED <<pending, active, rsp_reason>>

CfgRespond(rsp_ready) ==
  /\ cfg_rsp_valid /\ rsp_ready
  /\ cfg_state' = "IDLE"
  /\ UNCHANGED <<pending, active, rsp_reason>>

\* Mutant: while draining the snapshot follows the request port.
CfgHold_FollowsPort(req, quiescent, rsp_ready) ==
  /\ cfg_state = "IDLE"  => req = None
  /\ cfg_state = "DRAIN" => ~quiescent
  /\ cfg_rsp_valid       => ~rsp_ready
  /\ pending' = IF cfg_state = "DRAIN" /\ req # None THEN req ELSE pending
  /\ UNCHANGED <<cfg_state, active, rsp_reason>>

CfgHold(req, quiescent, rsp_ready) ==
  /\ cfg_state = "IDLE"  => req = None
  /\ cfg_state = "DRAIN" => ~quiescent
  /\ cfg_rsp_valid       => ~rsp_ready
  /\ UNCHANGED cfgVars

\* One clock edge; quiescent is the datapath's state and events at that edge.
CfgEdge(req, quiescent, rsp_ready) ==
  \/ CfgAccept(req)
  \/ CfgCommit(quiescent)
  \/ CfgRespond(rsp_ready)
  \/ CfgHold(req, quiescent, rsp_ready)

CfgNext ==
  \/ CfgReset
  \/ \E req \in Configs \cup {None}, quiescent, rsp_ready \in BOOLEAN :
       CfgEdge(req, quiescent, rsp_ready)

CfgSpec == CfgInit /\ [][CfgNext]_cfgVars

-----------------------------------------------------------------------------
\* Only a validated snapshot is drained for or has been committed: what was
\* checked on the request port is what is applied (p_snapshot_valid).
DrainsForValid == cfg_state \in {"DRAIN", "RSP_OK"} => ValidConfig(pending)

\* The active configuration is the reset one or a whole valid request, never a
\* mixture of two or an unchecked one.
ActiveIsValid == active = ZeroConfig \/ ValidConfig(active)
=============================================================================
