---------------------------- MODULE ControlPlane ----------------------------
(***************************************************************************)
(* The control plane (rtl/core/control_plane_top.sv): the configuration    *)
(* controller freezes the admission datapath, waits until it is quiescent  *)
(* and commits to it; the datapath runs with the active configuration.     *)
(* All blocks share one clock, so CPEdge conjoins their edges.             *)
(***************************************************************************)
EXTENDS AdmissionTop, ConfigCtrl

CONSTANT CPInputs   \* the input vectors the environment may present at an edge

CPInputType ==
  [ts : 0 .. TS_MOD - 1, req : Requests \cup {None}, downstream_ready : BOOLEAN,
   resp : Tags \cup {None}, reclaim : Tags \cup {None}, reclaim_rsp_ready : BOOLEAN,
   cfg_req : Configs \cup {None}, cfg_rsp_ready : BOOLEAN]

ASSUME ControlPlaneAssumption ==
  /\ CfgCountMax = COUNT_MAX /\ 2 * TS_HALF = TS_MOD
  /\ \A c \in Configs : /\ c.timeout_en \in BOOLEAN /\ c.timeout_thresh \in 0 .. TS_MOD - 1
                       /\ c.epoch \in Epochs
                       /\ c.cmax \in [Pools -> 0 .. 2 * COUNT_MAX + 1]
  /\ None \notin [Pools -> 0 .. 2 * COUNT_MAX + 1]
  /\ CPInputs \subseteq CPInputType

cpVars == <<admVars, cfgVars>>

\* The datapath's inputs, the commit apart.
Wired(in) ==
  [ts |-> in.ts, timeout_enable |-> active.timeout_en,
   timeout_thresh |-> active.timeout_thresh, active_epoch |-> active.epoch,
   req |-> in.req, req_accept_enable |-> req_accept_enable,
   downstream_ready |-> in.downstream_ready, resp |-> in.resp, reclaim |-> in.reclaim,
   reclaim_rsp_ready |-> in.reclaim_rsp_ready,
   committed_max |-> None, frozen_and_empty |-> FALSE]

\* Mutants: only the ledger is asked, and the issue buffer is not.
quiescent_LedgerOnly(in) == all_unused /\ issue = None /\ Freed(in) = {}

quiescent_NoIssue(in) ==
  occupancy = 0 /\ quarantined_count = 0 /\ all_unused /\ Freed(in) = {}

\* No live or quarantined entry, no credit in use, nothing buffered, and no
\* admission or release on this very edge.
quiescent(in) ==
  /\ occupancy = 0 /\ quarantined_count = 0
  /\ all_unused
  /\ issue = None
  /\ ~req_accept(Wired(in))
  /\ Freed(in) = {}

\* The one shared commit edge.
global_cfg_commit_fire(in) == cfg_state = "DRAIN" /\ quiescent(in)

ToAdmission(in) ==
  IF global_cfg_commit_fire(in)
  THEN [Wired(in) EXCEPT !.committed_max = pending.cmax, !.frozen_and_empty = TRUE]
  ELSE Wired(in)

CPInit  == AdmissionInit /\ CfgInit
CPReset == AdmissionReset /\ CfgReset

CPEdge(in) ==
  /\ AdmissionEdge(ToAdmission(in))
  /\ CfgEdge(in.cfg_req, quiescent(in), in.cfg_rsp_ready)

CPNext == CPReset \/ \E in \in CPInputs : CPEdge(in)

CPSpec == CPInit /\ [][CPNext]_cpVars

-----------------------------------------------------------------------------
(***************************************************************************)
(* Progress of a configuration request. The blocks do nothing by           *)
(* themselves: a drain ends when others do their part. Each operator below *)
(* is the edge on which one of them does, and each property of progress    *)
(* names those it relies on.                                               *)
(***************************************************************************)
TagOf(s) == [slot |-> s, gen |-> gen[s]]

\* The clock runs.
ClockEdge == \E in \in CPInputs : CPEdge(in)

\* The scheduler takes the buffered tag.
TakesIssue == issue # None /\ \E in \in CPInputs : in.downstream_ready /\ CPEdge(in)

\* The requester takes the response of the controller.
TakesResponse == cfg_rsp_valid /\ \E in \in CPInputs : in.cfg_rsp_ready /\ CPEdge(in)

\* The memory side answers the transaction in s, once it has been handed over.
Answers(s) ==
  /\ s \in live /\ issue # TagOf(s)
  /\ \E in \in CPInputs : in.resp = TagOf(s) /\ CPEdge(in)

\* The timestamp reaches the threshold of the transaction in s.
Ages(s) ==
  /\ s \in live \ timed_out
  /\ \E in \in CPInputs : s \in NewTimeout(Wired(in), {}) /\ CPEdge(in)

\* The recovery agent has its reclaim of the quarantined s accepted.
Reclaims(s) ==
  /\ s \in live \cap timed_out
  /\ \E in \in CPInputs : in.reclaim = TagOf(s) /\ ReclaimAccept(in) /\ CPEdge(in)

Fairness ==
  /\ WF_cpVars(ClockEdge)
  /\ WF_cpVars(TakesIssue)
  /\ WF_cpVars(TakesResponse)

\* Every transaction is answered.
AllAnswered == \A s \in Slots : WF_cpVars(Answers(s))

\* Time passes.
AllAge == \A s \in Slots : WF_cpVars(Ages(s))

\* What is quarantined is reclaimed. The agent holds its request until it is
\* accepted, though the port is busy with a response now and then.
AllReclaimed == \A s \in Slots : SF_cpVars(Reclaims(s))

-----------------------------------------------------------------------------
\* Every live entry carries the epoch now active: no transaction lives across a
\* commit, so a retirement never reports the epoch of a replaced configuration.
LiveEntriesOfActiveEpoch == \A s \in live : entry[s].epoch = active.epoch

\* The ledger's own maxima are those of the active configuration: the credit
\* manager's commit and the controller's are one event, and neither is refused.
OneSharedCommit ==
  /\ \A p \in Pools : cmax[p] = IF active = ZeroConfig THEN RESET_MAX ELSE active.cmax[p]
  /\ diag["cfg_reject"] = 0

\* Nothing is admitted between the acceptance of a configuration request and the
\* consumption of its response, and whatever is waiting then is from before.
FrozenWhileConfiguring ==
  [][cfg_state # "IDLE" => live' \subseteq live /\ (issue' # None => issue' = issue)]_cpVars

\* After the commit and until its response is taken, the datapath is empty.
EmptyAfterCommit == cfg_state = "RSP_OK" => live = {} /\ issue = None

\* docs/config_contract.md:17-19 and the header of config_ctrl.sv: an invalid
\* request never freezes traffic, so admission is enabled while its response waits.
InvalidNeverFreezes == cfg_state = "RSP_INV" => req_accept_enable

\* When every transaction is answered, every configuration request is: the drain
\* it starts ends and its response is delivered, after which admission reopens.
RequestAnswered == AllAnswered => (cfg_state # "IDLE" ~> cfg_state = "IDLE")

\* When responses are lost, a drain still ends under a configuration that times
\* entries out, because they can be reclaimed.
RecoveryDrains ==
  AllAge /\ AllReclaimed => (cfg_state = "DRAIN" /\ active.timeout_en ~> cfg_state # "DRAIN")
=============================================================================
