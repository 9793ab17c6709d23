----------------------------- MODULE MCTracker -----------------------------
(***************************************************************************)
(* An instance of OutstandingTracker for TLC: the stored fields are one    *)
(* metadata bit.                                                           *)
(***************************************************************************)
EXTENDS TrackerReplay

Zero == [meta |-> 0]
E1   == [meta |-> 1]
MCEntries == {Zero, E1}

\* Allocations at time 0 and timeouts at time 1, reclaim responses taken at once.
\* An allocation, a response and a reclaim may share an edge, and a timeout that
\* of one of the last two.
IssueThenAge ==
  {in \in [ts : {0, 1}, timeout_enable : {TRUE}, timeout_thresh : {1},
           alloc : {E1, None}, resp : Tags \cup {None}, reclaim : Tags \cup {None},
           reclaim_rsp_ready : {TRUE}] :
     in.ts = 1 => in.alloc = None /\ None \in {in.resp, in.reclaim}}

\* Bound on the counted refusals, so that the allocation counter can run up.
CONSTANT MaxRefusals
RefusalsBounded ==
  count["invalid_slot"] + count["non_live"] + count["stale_gen"] + count["full"]
     <= MaxRefusals
=============================================================================
