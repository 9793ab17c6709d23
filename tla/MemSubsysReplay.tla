-------------------------- MODULE MemSubsysReplay --------------------------
(***************************************************************************)
(* The differential test of the memory datapath                            *)
(* (gen_memsubsys_vectors.py, tb_mem_subsys_top.sv), written as            *)
(* TrackerReplay is.                                                       *)
(***************************************************************************)
EXTENDS MemSubsys

Ref == INSTANCE MemSubsysModel

VARIABLE ref    \* the MemSubsys object

replayVars == <<subsysVars, ref>>

\* The generator draws a tag that no valid entry of the model's table carries.
live_tags == {ref.sch.txn[i].tag : i \in ref.sch.vld}

ReplayInit  == SubsysInit /\ ref = Ref!New
ReplayReset == SubsysReset /\ ref' = Ref!New

ReplayEdge(in) ==
  /\ in.iss # None => in.iss.tag \notin live_tags
  /\ SubsysEdge(in)
  /\ ref' = Ref!step(ref, in)

ReplayNext == ReplayReset \/ \E in \in SubsysInputs : ReplayEdge(in)
ReplaySpec == ReplayInit /\ [][ReplayNext]_replayVars

(***************************************************************************)
(* The clock runs as long as an edge moves anything of itself: there is a  *)
(* completion to deliver, or else the memory has room for an access that   *)
(* is offered. A response that is presented is taken in the end. Both are  *)
(* weak fairness with the enabling condition written out.                  *)
(***************************************************************************)
ClockRuns == []<>(cnt = 0 /\ mem_sel = {}) \/ []<><<TRUE>>_subsysVars

ResponsesTaken == []<>(rsp_sel = {}) \/ []<><<rsp_sel \cap vld' = {}>>_subsysVars

ReplayFairSpec == ReplaySpec /\ ClockRuns /\ ResponsesTaken

-----------------------------------------------------------------------------
\* The object that holds what the registers and the observers hold. The memory's
\* circle of completions is the deque, and each valid entry has its record.
ModelOfRegisters ==
  [sch |-> [vld |-> vld, issd |-> issd, done |-> done, older |-> older,
            txn |-> txn, rdat |-> rdat],
   be  |-> [mem |-> mem, cq |-> Queued],
   shadow |-> shadow,
   expected |-> [t \in {txn[i].tag : i \in vld} |->
                   LET i == CHOOSE i \in vld : txn[i].tag = t
                   IN IF txn[i].wr THEN None ELSE expected[i]]]

\* The two memory datapaths, written independently, hold the same after any
\* sequence of beats: tb_mem_subsys_top.sv sees this for random ones at the ports.
SubsysMatchesModel == ref = ModelOfRegisters
=============================================================================
