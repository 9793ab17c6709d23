-------------------------- MODULE AdmissionReplay --------------------------
(***************************************************************************)
(* The differential test of the admission datapath                         *)
(* (gen_admission_vectors.py, tb_admission_top.sv), written as             *)
(* TrackerReplay is.                                                       *)
(***************************************************************************)
EXTENDS AdmissionTop

AdmRef == INSTANCE AdmissionModel

VARIABLE adm_ref    \* the Admission object

admReplayVars == <<admVars, adm_ref>>

TrackerPart == INSTANCE TrackerReplay WITH ref <- adm_ref.trk

AdmReplayInit  == AdmissionInit /\ adm_ref = AdmRef!New
AdmReplayReset == AdmissionReset /\ adm_ref' = AdmRef!New
AdmReplayEdge(in) == AdmissionEdge(in) /\ adm_ref' = AdmRef!step(adm_ref, in)
AdmReplayNext  == AdmReplayReset \/ \E in \in AdmInputs : AdmReplayEdge(in)
AdmReplaySpec  == AdmReplayInit /\ [][AdmReplayNext]_admReplayVars

-----------------------------------------------------------------------------
\* The datapath and its model, which keeps one ledger in place of the credit
\* manager's registers and returns credits before it steps its tracker, hold the
\* same after any sequence of beats: tb_admission_top.sv sees this for random ones.
AdmissionMatchesModel ==
  /\ adm_ref.used = used /\ adm_ref.cmax = cmax
  /\ adm_ref.issue = issue
  /\ TrackerPart!TrackerMatchesModel
=============================================================================
