------------------------- MODULE ControlPlaneReplay -------------------------
(***************************************************************************)
(* The differential test of the control plane                              *)
(* (gen_control_plane_vectors.py, tb_control_plane_top.sv), written as     *)
(* TrackerReplay is.                                                       *)
(***************************************************************************)
EXTENDS ControlPlane

CPRef == INSTANCE ConfigModel

VARIABLE cp_ref    \* the ControlPlane object

cpReplayVars == <<cpVars, cp_ref>>

AdmissionPart == INSTANCE AdmissionReplay WITH adm_ref <- cp_ref.adm

CPReplayInit  == CPInit /\ cp_ref = CPRef!New
CPReplayReset == CPReset /\ cp_ref' = CPRef!New
CPReplayEdge(in) == CPEdge(in) /\ cp_ref' = CPRef!step(cp_ref, in)
CPReplayNext  == CPReplayReset \/ \E in \in CPInputs : CPReplayEdge(in)
CPReplaySpec  == CPReplayInit /\ [][CPReplayNext]_cpReplayVars

\* The same with the fairness under which requests make progress.
CPReplayFairSpec == CPReplaySpec /\ Fairness

-----------------------------------------------------------------------------
\* The control plane and its model, which finds out whether it is quiescent from
\* a first pass over its datapath and commits in a second one, hold the same after
\* any sequence of beats: tb_control_plane_top.sv sees this for random ones.
ControlPlaneMatchesModel ==
  /\ cp_ref.state = cfg_state /\ cp_ref.rsp_reason = rsp_reason
  /\ cp_ref.pending = pending /\ cp_ref.active = active
  /\ AdmissionPart!AdmissionMatchesModel
=============================================================================
