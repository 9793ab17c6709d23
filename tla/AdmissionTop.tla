---------------------------- MODULE AdmissionTop ----------------------------
(***************************************************************************)
(* The admission datapath (rtl/core/admission_top.sv): the tracker and the *)
(* credit ledger behind one accept event, with a one-entry buffer towards  *)
(* the scheduler. Credits taken at the accept edge come back through the   *)
(* tracker's commit sidebands at the very edge that frees the slot.        *)
(*                                                                         *)
(* An edge of this block is an edge of all its registers: AdmissionEdge    *)
(* conjoins the edges of the two blocks on the inputs it wires to them.    *)
(***************************************************************************)
EXTENDS OutstandingTracker, CreditManager

CONSTANTS
  Epochs,      \* the configuration epochs, 0 after reset
  AdmInputs    \* the input vectors the environment may present at an edge

VARIABLE issue   \* issue_full_r and issue_tag_r: the buffered tag, None when empty

admVars == <<trackerVars, creditVars, issue>>

CreditVecs == [Pools -> 0 .. AMT_MAX]
Requests   == [meta : Metas, credit : CreditVecs]

(***************************************************************************)
(* req is the request presented with req_valid. The configuration inputs   *)
(* come from config_ctrl.                                                  *)
(***************************************************************************)
AdmInputType ==
  [ts : 0 .. TS_MOD - 1, timeout_enable : BOOLEAN, timeout_thresh : 0 .. TS_MOD - 1,
   active_epoch : Epochs, req : Requests \cup {None}, req_accept_enable : BOOLEAN,
   downstream_ready : BOOLEAN, resp : Tags \cup {None}, reclaim : Tags \cup {None},
   reclaim_rsp_ready : BOOLEAN,
   committed_max : [Pools -> 0 .. 2 * COUNT_MAX + 1] \cup {None},
   frozen_and_empty : BOOLEAN]

ASSUME AdmissionAssumption ==
  /\ Entry = [epoch : Epochs, meta : Metas, credit : CreditVecs]
  /\ RET_MAX = 2 * AMT_MAX + 1
  /\ AdmInputs \subseteq AdmInputType

-----------------------------------------------------------------------------
req_ready(in, credit) ==
  /\ in.req_accept_enable
  /\ ~full
  /\ ConsumeLegal(credit)
  /\ issue = None

req_accept(in) == in.req # None /\ req_ready(in, in.req.credit)

\* What the tracker sees; an entry stores the epoch active at its accept edge.
ToTracker(in) ==
  [ts |-> in.ts, timeout_enable |-> in.timeout_enable, timeout_thresh |-> in.timeout_thresh,
   alloc |-> IF req_accept(in)
             THEN [epoch |-> in.active_epoch, meta |-> in.req.meta, credit |-> in.req.credit]
             ELSE None,
   resp |-> in.resp, reclaim |-> in.reclaim, reclaim_rsp_ready |-> in.reclaim_rsp_ready]

\* Mutant: one source at a time; a reclaim's credits are dropped when a
\* retirement shares its edge.
ReturnVec_OneSource(in) ==
  [p \in Pools |->
     IF RetireSet(in) # {} THEN entry[in.resp.slot].credit[p]
     ELSE IF ReclaimSet(in) # {} THEN entry[in.reclaim.slot].credit[p] ELSE 0]

\* return_vec: a retirement and a reclaim at one edge are added per pool, in one
\* bit more than either needs.
ReturnVec(in) ==
  [p \in Pools |->
     ( (IF RetireSet(in) # {} THEN entry[in.resp.slot].credit[p] ELSE 0)
     + (IF ReclaimSet(in) # {} THEN entry[in.reclaim.slot].credit[p] ELSE 0) ) % (RET_MAX + 1)]

\* What the ledger sees; diagnostic_clear is tied low here.
ToCredit(in) ==
  [consume |-> IF req_accept(in) THEN in.req.credit ELSE None,
   return |-> IF Freed(in) # {} THEN ReturnVec(in) ELSE None,
   committed_max |-> in.committed_max, frozen_and_empty |-> in.frozen_and_empty,
   diagnostic_clear |-> FALSE]

\* The issue buffer drains, or takes the tag of the request just accepted.
UpdateIssue(in) ==
  IF req_accept(in)
  THEN issue' \in AllocTag(ToTracker(in))
  ELSE issue' = IF in.downstream_ready THEN None ELSE issue

AdmissionInit  == TrackerInit /\ CreditInit /\ issue = None
AdmissionReset == TrackerReset /\ CreditReset /\ issue' = None

AdmissionEdge(in) ==
  /\ TrackerEdge(ToTracker(in))
  /\ CreditEdge(ToCredit(in))
  /\ UpdateIssue(in)

AdmissionNext == AdmissionReset \/ \E in \in AdmInputs : AdmissionEdge(in)

AdmissionSpec == AdmissionInit /\ [][AdmissionNext]_admVars

-----------------------------------------------------------------------------
\* The single credits that live entries hold in pool p; quarantined ones hold
\* theirs too.
HeldCredits(p) == {u \in live \X (1 .. AMT_MAX) : u[2] <= entry[u[1]].credit[p]}

\* Conservation: in every pool the ledger equals what the live entries hold. A
\* credit lost or returned twice, by a retirement and a reclaim on one edge, by a
\* late response to a reclaimed entry or by quarantine, would break it.
CreditConservation == \A p \in Pools : used[p] = Cardinality(HeldCredits(p))

\* The ledger never refuses what the datapath presents: no return is illegal and
\* no accepted request finds its credits gone, so tracker and ledger cannot
\* disagree about an accept or a release.
LedgerNeverRefuses == diag["return_illegal"] = 0 /\ diag["consume_blocked"] = 0

\* One accept event: a tag enters the issue buffer exactly when a slot is
\* allocated, and it is the tag of that slot.
IssuesWhatItAllocates ==
  LET issued == IF issue = None /\ issue' # None THEN {issue'} ELSE {}
  IN issued = {[slot |-> s, gen |-> gen'[s]] : s \in live' \ live}

OneAcceptEvent == [][IssuesWhatItAllocates]_admVars
=============================================================================
