--------------------------- MODULE AdmissionModel ---------------------------
(***************************************************************************)
(* The independent reference model of the admission datapath               *)
(* (tb/models/admission_model.py), written as TrackerModel is. It wraps    *)
(* the tracker's model and keeps a ledger of its own instead of the one of *)
(* credit_model.py. m is the Admission object: trk is the tracker's, issue *)
(* the buffered tag, None while issue_full is 0.                           *)
(***************************************************************************)
EXTENDS Integers, Ports

CONSTANTS DEPTH, GEN_MOD, TS_MOD, CNT_MAX, ZeroEntry,   \* of the tracker
          N_POOLS, COUNT_MAX, RESET_MAX

Tracker == INSTANCE TrackerModel

Pools0 == 0 .. N_POOLS - 1

New == [used |-> [p \in Pools0 |-> 0], cmax |-> [p \in Pools0 |-> RESET_MAX],
        issue |-> None, trk |-> Tracker!New]

-----------------------------------------------------------------------------
consume_ready(m, credit) == \A p \in Pools0 : credit[p] <= m.cmax[p] - m.used[p]

credit_cfg_fire(m, inp) ==
  /\ inp.committed_max # None /\ inp.frozen_and_empty
  /\ \A p \in Pools0 : m.used[p] = 0 /\ inp.committed_max[p] <= COUNT_MAX

credit_cfg_reject(m, inp) == inp.committed_max # None /\ ~credit_cfg_fire(m, inp)

\* Mutant: a request that finds the buffer full is accepted when it drains.
admit_Drains(m, inp) ==
  /\ inp.req # None /\ inp.req_accept_enable
  /\ ~Tracker!is_full(m.trk)
  /\ consume_ready(m, inp.req.credit)
  /\ m.issue = None \/ inp.downstream_ready

\* The one authoritative event, from the object before the edge.
admit(m, inp) ==
  /\ inp.req # None /\ inp.req_accept_enable
  /\ ~Tracker!is_full(m.trk)
  /\ consume_ready(m, inp.req.credit)
  /\ m.issue = None

tracker_inp(inp, req_accept) ==
  [ts |-> inp.ts, timeout_enable |-> inp.timeout_enable, timeout_thresh |-> inp.timeout_thresh,
   alloc |-> IF req_accept THEN [epoch |-> inp.active_epoch, meta |-> inp.req.meta,
                                 credit |-> inp.req.credit] ELSE None,
   resp |-> inp.resp, reclaim |-> inp.reclaim, reclaim_rsp_ready |-> inp.reclaim_rsp_ready]

\* The slots whose commit sidebands fire at this edge.
retire_commit(m, inp)  == Tracker!do_retire(m.trk, inp)
reclaim_commit(m, inp) == Tracker!do_reclaim(m.trk, inp, retire_commit(m, inp))

held(m, slots, p) ==
  IF slots = {} THEN 0 ELSE m.trk.entry[CHOOSE i \in slots : TRUE].credit[p]

return_agg(m, inp) ==
  LET retired == retire_commit(m, inp)
      reclaimed == reclaim_commit(m, inp)
  IN [p \in Pools0 |-> held(m, retired, p) + held(m, reclaimed, p)]

\* What outputs() adds to the ports of the tracker's model.
outputs(m, inp) ==
  [req_accept |-> admit(m, inp), issue_tag |-> m.issue,
   retire_commit_fire |-> retire_commit(m, inp) # {},
   reclaim_commit_fire |-> reclaim_commit(m, inp) # {},
   quarantined |-> m.trk.live \cap m.trk.timed, occupancy |-> m.trk.occ,
   credit_cfg_commit_fire |-> credit_cfg_fire(m, inp),
   credit_cfg_reject |-> credit_cfg_reject(m, inp),
   used |-> m.used, available |-> [p \in Pools0 |-> m.cmax[p] - m.used[p]]]

-----------------------------------------------------------------------------
\* The ledger; a commit blocks consumption and return at its edge.
move_credits(m, inp, accepted) ==
  IF credit_cfg_fire(m, inp)
  THEN [m EXCEPT !.cmax = inp.committed_max]
  ELSE LET agg == return_agg(m, inp) IN
       [m EXCEPT !.used = [p \in Pools0 |->
          @[p] + (IF accepted THEN inp.req.credit[p] ELSE 0) - agg[p]]]

issued_tag(m) ==
  LET i == CHOOSE i \in Tracker!free_slot(m.trk) : TRUE
  IN [slot |-> i, gen |-> Tracker!new_gen(m.trk, i)]

buffer(m, inp, accepted) ==
  IF accepted THEN issued_tag(m) ELSE IF inp.downstream_ready THEN None ELSE m.issue

step(m, inp) ==
  LET accepted == admit(m, inp) IN
  [move_credits(m, inp, accepted) EXCEPT
     !.issue = buffer(m, inp, accepted),
     !.trk   = Tracker!step(@, tracker_inp(inp, accepted))]
=============================================================================
