---------------------------- MODULE TrackerModel ----------------------------
(***************************************************************************)
(* The independent reference model of the tracker                          *)
(* (tb/models/tracker_model.py), against which the testbench compares the  *)
(* hardware. A Tracker object is a record m; outputs(m, inp) is what one   *)
(* cycle shows before the clock edge and step(m, inp) the object after it. *)
(* The model is a program: step() assigns in sequence, and the operators   *)
(* below are its assignments in their order.                               *)
(*                                                                         *)
(* The fields epoch, op, meta and credit_vec of a slot are one value, and  *)
(* a tag is the pair {gen, slot} that the shifts and masks take apart.     *)
(***************************************************************************)
EXTENDS Integers, FiniteSets, Ports

CONSTANTS DEPTH, GEN_MOD, TS_MOD, CNT_MAX,
          ZeroEntry   \* the stored fields of a new Tracker

Range0 == 0 .. DEPTH - 1

satn(c, n) == IF c + n > CNT_MAX THEN CNT_MAX ELSE c + n

\* Which counter a refused response goes to.
counter_of == [INVALID_SLOT |-> "invalid_slot", NON_LIVE |-> "non_live", STALE_GEN |-> "stale_gen"]

\* Tracker(): rr is the registered reclaim response, None while rr_valid is 0;
\* err_first is VALID while err_sticky is 0.
New ==
  [live |-> {}, timed |-> {},
   gen |-> [i \in Range0 |-> 0], entry |-> [i \in Range0 |-> ZeroEntry],
   issue_ts |-> [i \in Range0 |-> 0],
   occ |-> 0, hwm |-> 0, rr |-> None, err_first |-> "VALID",
   c |-> [alloc |-> 0, retire |-> 0, full |-> 0, timeout |-> 0, reclaim |-> 0,
          invalid_slot |-> 0, non_live |-> 0, stale_gen |-> 0]]

-----------------------------------------------------------------------------
(* What a cycle computes from the object and its inputs. *)

\* The lowest slot that is not live; none when all are.
free_slot(m) == {i \in Range0 \ m.live : \A j \in Range0 \ m.live : i <= j}

is_full(m) == m.occ = DEPTH

do_alloc(m, inp) == IF inp.alloc # None /\ ~is_full(m) THEN free_slot(m) ELSE {}

classify(m, tag) ==
  IF tag.slot >= DEPTH              THEN "INVALID_SLOT"
  ELSE IF tag.slot \notin m.live    THEN "NON_LIVE"
  ELSE IF tag.gen # m.gen[tag.slot] THEN "STALE_GEN"
  ELSE "VALID"

do_retire(m, inp) ==
  IF inp.resp # None /\ classify(m, inp.resp) = "VALID" THEN {inp.resp.slot} ELSE {}

reclaim_ready(m) == m.rr = None

reclaim_accept(m, inp) == inp.reclaim # None /\ reclaim_ready(m)

\* Mutant: the collision with a response at the same cycle is not looked at.
reclaim_class_NoCollision(m, tag, retired) ==
  IF tag.slot >= DEPTH              THEN "INVALID_SLOT"
  ELSE IF tag.slot \notin m.live    THEN "NOT_LIVE"
  ELSE IF tag.gen # m.gen[tag.slot] THEN "STALE_GEN"
  ELSE IF tag.slot \notin m.timed   THEN "NOT_QUARANTINED"
  ELSE "OK"

reclaim_class(m, tag, retired) ==
  IF tag.slot >= DEPTH              THEN "INVALID_SLOT"
  ELSE IF tag.slot \notin m.live    THEN "NOT_LIVE"
  ELSE IF tag.gen # m.gen[tag.slot] THEN "STALE_GEN"
  ELSE IF tag.slot \notin m.timed   THEN "NOT_QUARANTINED"
  ELSE IF tag.slot \in retired      THEN "SUPERSEDED"
  ELSE "OK"

do_reclaim(m, inp, retired) ==
  IF reclaim_accept(m, inp) /\ reclaim_class(m, inp.reclaim, retired) = "OK"
  THEN {inp.reclaim.slot} ELSE {}

new_gen(m, i) == (m.gen[i] + 1) % GEN_MOD

\* The sampled view of a cycle. A granted tag, a retired or reclaimed entry is a
\* set with one element, or empty; retired is what the response port shows of the
\* addressed slot whether or not the response is valid.
outputs(m, inp) ==
  LET retired   == do_retire(m, inp)
      reclaimed == do_reclaim(m, inp, retired)
  IN [alloc_tag |-> {[slot |-> i, gen |-> new_gen(m, i)] : i \in do_alloc(m, inp)},
      full |-> is_full(m),
      resp_class |-> IF inp.resp = None THEN "VALID" ELSE classify(m, inp.resp),
      retired |-> IF inp.resp # None /\ inp.resp.slot < DEPTH
                  THEN m.entry[inp.resp.slot] ELSE ZeroEntry,
      retire_commit |-> {m.entry[i] : i \in retired},
      reclaim_commit |-> {m.entry[i] : i \in reclaimed},
      reclaim_req_ready |-> reclaim_ready(m), reclaim_rsp |-> m.rr,
      occupancy |-> m.occ, high_watermark |-> m.hwm,
      quarantined_count |-> Cardinality({i \in Range0 : i \in m.live /\ i \in m.timed}),
      timeout_any |-> \E i \in Range0 : i \in m.live /\ i \in m.timed,
      counters |-> m.c, err_first_class |-> m.err_first]

-----------------------------------------------------------------------------
(* step(), assignment by assignment. *)

\* A slot retired or reclaimed at this edge is not marked.
mark_timeouts(m, inp, freed) ==
  LET aged == {i \in (m.live \ m.timed) \ freed :
                 (inp.ts - m.issue_ts[i]) % TS_MOD >= inp.timeout_thresh}
      marked == IF inp.timeout_enable /\ inp.timeout_thresh # 0 THEN aged ELSE {}
  IN [m EXCEPT !.timed = @ \cup marked,
               !.c.timeout = satn(@, Cardinality(marked))]

respond(m, inp, class) ==
  IF inp.resp = None THEN m
  ELSE IF class = "VALID"
  THEN [m EXCEPT !.live = @ \ {inp.resp.slot}, !.timed = @ \ {inp.resp.slot},
                 !.c.retire = satn(@, 1)]
  ELSE [m EXCEPT !.c[counter_of[class]] = satn(@, 1),
                 !.err_first = IF @ = "VALID" THEN class ELSE @]

\* The response taken, then the one of the request accepted; class and meta were
\* captured before the response could free the slot.
register_reclaim(m, inp, accepted, class, meta) ==
  LET kept == IF inp.reclaim_rsp_ready THEN None ELSE m.rr
  IN [m EXCEPT !.rr = IF accepted
                      THEN [tag |-> inp.reclaim, class |-> class,
                            meta |-> IF class = "OK" THEN meta ELSE ZeroEntry.meta]
                      ELSE kept]

free_reclaimed(m, slots) ==
  IF slots = {} THEN m
  ELSE [m EXCEPT !.live = @ \ slots, !.timed = @ \ slots,
                 !.c.reclaim = satn(@, 1)]

allocate(m, inp, slots) ==
  IF slots = {} THEN m
  ELSE [m EXCEPT !.live = @ \cup slots,
                 !.gen = [i \in Range0 |-> IF i \in slots THEN new_gen(m, i) ELSE @[i]],
                 !.entry = [i \in Range0 |-> IF i \in slots THEN inp.alloc ELSE @[i]],
                 !.issue_ts = [i \in Range0 |-> IF i \in slots THEN inp.ts ELSE @[i]],
                 !.timed = @ \ slots,
                 !.c.alloc = satn(@, 1)]

count_full(m, inp, refused) ==
  IF inp.alloc # None /\ refused THEN [m EXCEPT !.c.full = satn(@, 1)] ELSE m

occupy(m, n) ==
  [m EXCEPT !.occ = @ + n, !.hwm = IF m.occ + n > @ THEN m.occ + n ELSE @]

size(S) == IF S = {} THEN 0 ELSE 1

step(m, inp) ==
  LET alloc     == do_alloc(m, inp)
      class     == IF inp.resp = None THEN "VALID" ELSE classify(m, inp.resp)
      retired   == do_retire(m, inp)
      accepted  == reclaim_accept(m, inp)
      rclass    == IF accepted THEN reclaim_class(m, inp.reclaim, retired) ELSE "OK"
      meta      == IF accepted /\ inp.reclaim.slot < DEPTH
                   THEN m.entry[inp.reclaim.slot].meta ELSE ZeroEntry.meta
      reclaimed == do_reclaim(m, inp, retired)
      m1 == mark_timeouts(m, inp, retired \cup reclaimed)
      m2 == respond(m1, inp, class)
      m3 == register_reclaim(m2, inp, accepted, rclass, meta)
      m4 == free_reclaimed(m3, reclaimed)
      m5 == allocate(m4, inp, alloc)
      m6 == count_full(m5, inp, is_full(m) \/ free_slot(m) = {})
  IN occupy(m6, size(alloc) - size(retired) - size(reclaimed))
=============================================================================
