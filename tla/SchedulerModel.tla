--------------------------- MODULE SchedulerModel ---------------------------
(***************************************************************************)
(* The independent reference model of the read/write scheduler             *)
(* (tb/models/scheduler_model.py), written as TrackerModel is: m is the    *)
(* Scheduler object. Its bit arrays are sets of slots, its age matrix a    *)
(* set of pairs; a slot that a search returns with a valid bit is a set    *)
(* with one element, or empty.                                             *)
(***************************************************************************)
EXTENDS MemoryPort

CONSTANT SCH_DEPTH

Range0 == 0 .. SCH_DEPTH - 1

\* Scheduler(), and what step() leaves under reset.
New ==
  [vld |-> {}, issd |-> {}, done |-> {}, older |-> {},
   txn |-> [i \in Range0 |-> ZeroTxn], rdat |-> [i \in Range0 |-> ZeroData]]

lowest(S) == {i \in S : \A j \in S : i <= j}

free_slot(m) == lowest(Range0 \ m.vld)

blockers(m, i) ==
  {j \in m.vld : <<j, i>> \in m.older /\ m.txn[j].adr = m.txn[i].adr /\ j \notin m.done}

eligible(m) == {i \in m.vld : i \notin m.issd /\ blockers(m, i) = {}}

mem_sel(m) == lowest(eligible(m))
rsp_sel(m) == lowest({i \in m.vld : i \in m.done})

mc_hit(m, inp) ==
  IF inp.mc = None THEN {}
  ELSE {i \in m.vld : i \in m.issd /\ i \notin m.done /\ m.txn[i].tag = inp.mc.tag}

only(S) == CHOOSE i \in S : TRUE

\* The ports before the edge; the fields beside a low valid are left out.
iss_ready(m) == free_slot(m) # {}
mem_port(m)  == IF mem_sel(m) = {} THEN None ELSE m.txn[only(mem_sel(m))]
rsp_port(m)  ==
  IF rsp_sel(m) = {} THEN None
  ELSE LET i == only(rsp_sel(m)) IN [tag |-> m.txn[i].tag, rdata |-> m.rdat[i]]

outputs(m) ==
  [iss_ready |-> iss_ready(m), mem |-> mem_port(m), rsp |-> rsp_port(m),
   occupancy |-> Cardinality(m.vld)]

-----------------------------------------------------------------------------
(* step(), assignment by assignment; each takes the object the last one left. *)

respond(m, slots) ==
  [m EXCEPT !.vld = @ \ slots, !.issd = @ \ slots, !.done = @ \ slots]

complete(m, hit, inp) ==
  IF hit = {} THEN m
  ELSE [m EXCEPT !.done = @ \cup hit,
                 !.rdat = [i \in Range0 |-> IF i \in hit THEN inp.mc.rdata ELSE @[i]]]

\* Mutant: the age update reads the validity of the slots after the response.
accept_LateAge(m, slots, pre_vld, inp) ==
  IF slots = {} THEN m
  ELSE [m EXCEPT !.vld = @ \cup slots, !.issd = @ \ slots, !.done = @ \ slots,
                 !.txn = [i \in Range0 |-> IF i \in slots THEN inp.iss ELSE @[i]],
                 !.older = {p \in @ : p[1] \notin slots /\ p[2] \notin slots}
                             \cup {p \in m.vld \X slots : p[1] # p[2]}]

\* The age update reads the validity of the slots before the response.
accept(m, slots, pre_vld, inp) ==
  IF slots = {} THEN m
  ELSE [m EXCEPT !.vld = @ \cup slots, !.issd = @ \ slots, !.done = @ \ slots,
                 !.txn = [i \in Range0 |-> IF i \in slots THEN inp.iss ELSE @[i]],
                 !.older = {p \in @ : p[1] \notin slots /\ p[2] \notin slots}
                             \cup {p \in pre_vld \X slots : p[1] # p[2]}]

step(m, inp) ==
  LET m1 == IF inp.rsp_ready THEN respond(m, rsp_sel(m)) ELSE m
      m2 == IF inp.mem_ready THEN [m1 EXCEPT !.issd = @ \cup mem_sel(m)] ELSE m1
      m3 == complete(m2, mc_hit(m, inp), inp)
  IN IF inp.iss = None THEN m3 ELSE accept(m3, free_slot(m), m.vld, inp)
=============================================================================
