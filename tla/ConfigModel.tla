----------------------------- MODULE ConfigModel -----------------------------
(***************************************************************************)
(* The independent reference model of the control plane                    *)
(* (tb/models/config_model.py), written as TrackerModel is: m is the       *)
(* ControlPlane object, adm the model of its datapath. Configurations have *)
(* the fields they have in ConfigCtrl; active.cmax stands for the maxima   *)
(* that the datapath's model was given at the commit.                      *)
(***************************************************************************)
EXTENDS Integers, Ports

CONSTANTS DEPTH, GEN_MOD, TS_MOD, CNT_MAX, ZeroEntry,   \* of the datapath
          N_POOLS, COUNT_MAX, RESET_MAX,
          ZeroConfig, BadWindow, TS_HALF

Adm == INSTANCE AdmissionModel

New == [state |-> "IDLE", pending |-> ZeroConfig, active |-> ZeroConfig,
        rsp_reason |-> "OK", adm |-> Adm!New]

\* Why a request is refused, OK when it is not.
reason(c) ==
  IF c.timeout_en /\ ~(c.timeout_thresh # 0 /\ c.timeout_thresh < TS_HALF) THEN "TIMEOUT"
  ELSE IF \E p \in DOMAIN c.cmax : c.cmax[p] > COUNT_MAX THEN "CMAX"
  ELSE IF c.window \in BadWindow THEN "HDM"
  ELSE "OK"

\* What the datapath's model is driven with, the commit apart.
base(m, inp) ==
  [ts |-> inp.ts, timeout_enable |-> m.active.timeout_en,
   timeout_thresh |-> m.active.timeout_thresh, active_epoch |-> m.active.epoch,
   req |-> inp.req, req_accept_enable |-> m.state = "IDLE",
   downstream_ready |-> inp.downstream_ready, resp |-> inp.resp, reclaim |-> inp.reclaim,
   reclaim_rsp_ready |-> inp.reclaim_rsp_ready,
   committed_max |-> None, frozen_and_empty |-> FALSE]

quiescent(m, inp) ==
  LET ao == Adm!outputs(m.adm, base(m, inp)) IN
  /\ ao.occupancy = 0 /\ ao.quarantined = {}
  /\ \A p \in DOMAIN ao.used : ao.used[p] = 0
  /\ ao.issue_tag = None /\ ~ao.req_accept
  /\ ~ao.retire_commit_fire /\ ~ao.reclaim_commit_fire

gcommit(m, inp) == m.state = "DRAIN" /\ quiescent(m, inp)

real(m, inp) ==
  IF gcommit(m, inp)
  THEN [base(m, inp) EXCEPT !.committed_max = m.pending.cmax, !.frozen_and_empty = TRUE]
  ELSE base(m, inp)

\* The ports of the controller before the edge.
outputs(m, inp) ==
  [cfg_req_ready |-> m.state = "IDLE",
   cfg_rsp_valid |-> m.state \in {"RSP_OK", "RSP_INV"},
   cfg_rsp_code |-> IF m.state = "RSP_INV" THEN "INVALID" ELSE "OK",
   cfg_rsp_reason |-> m.rsp_reason, global_cfg_commit_fire |-> gcommit(m, inp),
   active |-> m.active, datapath |-> Adm!outputs(m.adm, real(m, inp))]

\* Mutant: a refused request is not kept out of the drain.
take_Any(m, c) ==
  [m EXCEPT !.pending = c, !.rsp_reason = reason(c), !.state = "DRAIN"]

take(m, c) ==
  [m EXCEPT !.pending = c, !.rsp_reason = reason(c),
            !.state = IF reason(c) = "OK" THEN "DRAIN" ELSE "RSP_INV"]

\* The datapath's model steps first; q is what it showed before.
control(m, inp, q) ==
  CASE m.state = "IDLE"  -> IF inp.cfg_req # None THEN take(m, inp.cfg_req) ELSE m
    [] m.state = "DRAIN" -> IF q THEN [m EXCEPT !.active = m.pending, !.state = "RSP_OK"] ELSE m
    [] OTHER             -> IF inp.cfg_rsp_ready THEN [m EXCEPT !.state = "IDLE"] ELSE m

step(m, inp) ==
  [control(m, inp, quiescent(m, inp)) EXCEPT !.adm = Adm!step(@, real(m, inp))]
=============================================================================
