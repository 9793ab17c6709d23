------------------------------ MODULE MemSubsys ------------------------------
(***************************************************************************)
(* The memory datapath (rtl/core/mem_subsys_top.sv): the scheduler's       *)
(* memory port is wired to the backend and the backend's completions come  *)
(* straight back. Both blocks share one clock, so one step is an edge of   *)
(* both.                                                                   *)
(***************************************************************************)
EXTENDS RwScheduler, MemBackend

CONSTANT SubsysInputs   \* the input vectors the environment may present at an edge

\* iss and rsp_ready are the outer ports.
SubsysInputType == [iss : Txn \cup {None}, rsp_ready : BOOLEAN]

ASSUME SubsysInputAssumption == SubsysInputs \subseteq SubsysInputType

(***************************************************************************)
(* Two observers, which the hardware does not have: what the memory would  *)
(* hold if every accepted write were already applied, and what that memory *)
(* held at the acceptance of the read in each slot.                        *)
(***************************************************************************)
VARIABLES shadow, expected

subsysVars == <<schedulerVars, backendVars, shadow, expected>>

\* The access the scheduler issues (mem_valid, mem_tag, mem_write, ...).
mem_request ==
  IF mem_sel = {} THEN None ELSE txn[CHOOSE i \in mem_sel : TRUE]

ToScheduler(in) ==
  [iss |-> in.iss, mem_ready |-> req_ready_be, mc |-> cmp, rsp_ready |-> in.rsp_ready]

\* The scheduler takes every completion at once (cmp_ready is tied high).
ToBackend == [req |-> mem_request, cmp_ready |-> TRUE]

Observe(in, accepted) ==
  /\ shadow' = IF accepted # {} /\ in.iss.wr
               THEN [shadow EXCEPT ![in.iss.adr] = in.iss.wdat] ELSE shadow
  /\ expected' = [i \in SchSlots |-> IF i \in accepted THEN shadow[in.iss.adr] ELSE expected[i]]

SubsysInit ==
  /\ SchedulerInit /\ BackendInit
  /\ shadow = mem
  /\ expected = [i \in SchSlots |-> ZeroData]

SubsysReset ==
  /\ SchedulerReset /\ BackendReset
  /\ shadow' = mem'
  /\ expected' = [i \in SchSlots |-> ZeroData]

SubsysEdge(in) ==
  /\ SchedulerEdge(ToScheduler(in))
  /\ BackendEdge(ToBackend)
  /\ Observe(in, AcceptSet(in))

\* The tag of a new transaction differs from those in the table: the tracker
\* hands out one tag for each of its live entries.
FreshTag(in) == in.iss # None => \A i \in vld : txn[i].tag # in.iss.tag

SubsysNext ==
  \/ SubsysReset
  \/ \E in \in SubsysInputs : FreshTag(in) /\ SubsysEdge(in)

SubsysSpec == SubsysInit /\ [][SubsysNext]_subsysVars

(***************************************************************************)
(* For the question of progress the clock runs, responses are always       *)
(* taken, data do not matter, and the tag of a new transaction is the slot *)
(* it takes: tags are only compared for equality among the valid entries,  *)
(* and a slot is as good a name there as any other fresh one.              *)
(***************************************************************************)
ReadsTaken == [iss : {t \in Txn : ~t.wr} \cup {None}, rsp_ready : {TRUE}]

SlotTag(in) == in.iss # None => in.iss.tag \in free_slot

ProgressEdge == \E in \in SubsysInputs : SlotTag(in) /\ SubsysEdge(in)

ProgressSpec ==
  /\ SubsysInit /\ [][SubsysReset \/ ProgressEdge]_subsysVars
  /\ WF_subsysVars(ProgressEdge)

-----------------------------------------------------------------------------
\* A completed read holds the value of the last write to its address accepted
\* before it, the reset value if there is none, whatever was reordered between
\* the issue port, the table, the array and the completion buffer.
ReadAfterWrite == \A i \in vld \cap done : ~txn[i].wr => rdat[i] = expected[i]

\* The memory owes exactly one completion for each access issued and not
\* completed: none is lost, none is duplicated, none hits two entries.
OwedOnce ==
  /\ cnt = Cardinality(issd \ done)
  /\ \A i \in issd \ done :
       Cardinality({k \in 1 .. cnt : Queued[k].tag = txn[i].tag}) = 1

\* When no write is pending in the table, the array holds what the requester wrote.
QuiescentMemory ==
  \A a \in Addrs :
    (\A i \in vld \ done : txn[i].wr => txn[i].adr # a) => mem[a] = shadow[a]

\* With four slots, the default and the most mem_subsys_top is built with, every
\* accepted transaction is answered under any stream of new ones. A slot that is
\* served at once is busy for four edges, so the others cannot hold the issue port
\* on every edge. This is the limit of a selection that always prefers the lowest
\* slot: with a fifth slot, or a memory that takes an access only every other edge
\* (CQ_DEPTH = 1), the highest one may be passed over for ever.
Answered == \A i \in SchSlots : i \in vld ~> i \notin vld
=============================================================================
