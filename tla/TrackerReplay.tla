--------------------------- MODULE TrackerReplay ---------------------------
(***************************************************************************)
(* The differential test of the tracker: gen_tracker_vectors.py drives its *)
(* reference model, tb_outstanding_tracker.sv applies the same inputs to   *)
(* the hardware and compares every port before the clock edge. Here both   *)
(* take one input at one edge. A new vector file is a reset of the         *)
(* hardware and a new model.                                               *)
(*                                                                         *)
(* The generator draws every field at random, tags and times included, so  *)
(* any input may come; what it aims at is in the directed beats.           *)
(***************************************************************************)
EXTENDS OutstandingTracker

Ref == INSTANCE TrackerModel

VARIABLE ref    \* the Tracker object

replayVars == <<trackerVars, ref>>

\* What the ports show before the edge, in the fields of Ref!outputs.
TrackerPorts(in) ==
  [alloc_tag |-> AllocTag(in), full |-> full,
   resp_class |-> IF in.resp = None THEN "VALID" ELSE RespClass(in.resp),
   retired |-> IF in.resp # None /\ in.resp.slot \in Slots THEN entry[in.resp.slot]
                                                           ELSE ZeroEntry,
   retire_commit |-> {entry[s] : s \in RetireSet(in)},
   reclaim_commit |-> {entry[s] : s \in ReclaimSet(in)},
   reclaim_req_ready |-> reclaim_rsp = None, reclaim_rsp |-> reclaim_rsp,
   occupancy |-> occupancy, high_watermark |-> high_watermark,
   quarantined_count |-> quarantined_count, timeout_any |-> live \cap timed_out # {},
   counters |-> count, err_first_class |-> err_first_class]

ReplayInit  == TrackerInit /\ ref = Ref!New
ReplayReset == TrackerReset /\ ref' = Ref!New
ReplayEdge(in) == TrackerEdge(in) /\ ref' = Ref!step(ref, in)
ReplayNext  == ReplayReset \/ \E in \in TrackerInputs : ReplayEdge(in)
ReplaySpec  == ReplayInit /\ [][ReplayNext]_replayVars

-----------------------------------------------------------------------------
(* The directed beats: the generator reads the model and overrides fields of *)
(* the beat it has drawn.                                                    *)

tag_of(s) == [slot |-> s, gen |-> ref.gen[s]]

\* A valid retirement on the edge on which its entry's age is the threshold.
CrossingRetire(in) ==
  IF in.timeout_enable
  THEN {[in EXCEPT !.ts = (ref.issue_ts[s] + in.timeout_thresh) % TS_MOD, !.resp = tag_of(s)] :
          s \in ref.live \ ref.timed}
  ELSE {}

\* A reclaim of an entry that never timed out, when the channel can accept.
EarlyReclaim(in) ==
  IF ref.rr = None THEN {[in EXCEPT !.reclaim = tag_of(s)] : s \in ref.live \ ref.timed} ELSE {}

\* Mutant: the entry need not be quarantined.
Superseding_AnyLive(in) ==
  IF ref.rr = None
  THEN {[in EXCEPT !.reclaim = tag_of(s), !.resp = tag_of(s)] : s \in ref.live}
  ELSE {}

\* A qualified reclaim that collides with the retirement of the same entry.
Superseding(in) ==
  IF ref.rr = None
  THEN {[in EXCEPT !.reclaim = tag_of(s), !.resp = tag_of(s)] : s \in ref.live \cap ref.timed}
  ELSE {}

\* A retirement of one slot with a reclaim of another, so that both return their
\* credits (gen_admission_vectors.py, which picks a pair with a large sum if any).
DualCommit(in) ==
  IF ref.rr = None
  THEN {[in EXCEPT !.resp = tag_of(p[1]), !.reclaim = tag_of(p[2])] :
          p \in (ref.live \ ref.timed) \X (ref.live \cap ref.timed)}
  ELSE {}

\* While the controller drains, each beat frees an entry if one can be freed
\* (gen_control_plane_vectors.py).
DrainStep(in) ==
  LET fresh == ref.live \ ref.timed IN
  IF fresh # {} THEN {[in EXCEPT !.resp = tag_of(s)] : s \in fresh}
  ELSE IF ref.rr = None
  THEN {[in EXCEPT !.reclaim = tag_of(s), !.reclaim_rsp_ready = TRUE] : s \in ref.live}
  ELSE {}

-----------------------------------------------------------------------------
\* The object that holds what the registers hold.
ModelOfRegisters ==
  [live |-> live, timed |-> timed_out, gen |-> gen, entry |-> entry, issue_ts |-> issue_ts,
   occ |-> occupancy, hwm |-> high_watermark, rr |-> reclaim_rsp,
   err_first |-> err_first_class, c |-> count]

\* The two trackers, written independently, hold the same after any sequence of
\* beats: tb_outstanding_tracker.sv sees this for random ones and at the ports.
TrackerMatchesModel == ref = ModelOfRegisters

\* The beats as drawn, before one of the three overrides its response or reclaim.
DrawnBeats == {in \in TrackerInputs : {in.alloc, in.resp, in.reclaim} = {None}}

\* A directed beat hits the case it is made for: the retirement comes when its
\* entry would time out, the early reclaim is refused as NOT_QUARANTINED, the
\* collision is SUPERSEDED, the dual commit frees two slots and a beat of a drain
\* at least one, so that the vectors do exercise these rules and reach a commit.
DirectedBeatsHit ==
  \A in \in DrawnBeats :
    /\ \A b \in CrossingRetire(in) :
         RespClass(b.resp) = "VALID" /\ (timeout_active(b) => b.resp.slot \in NewTimeout(b, {}))
    /\ \A b \in EarlyReclaim(in) : ReclaimAccept(b) /\ ReclaimClass(b) = "NOT_QUARANTINED"
    /\ \A b \in Superseding(in)  : ReclaimAccept(b) /\ ReclaimClass(b) = "SUPERSEDED"
    /\ \A b \in DualCommit(in)   : RetireSet(b) # {} /\ ReclaimSet(b) \ RetireSet(b) # {}
    /\ \A b \in DrainStep(in)    : RetireSet(b) \cup ReclaimSet(b) # {}
=============================================================================
