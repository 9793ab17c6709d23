---------------------------- MODULE CreditReplay ----------------------------
(***************************************************************************)
(* The differential test of the credit ledger (gen_credit_vectors.py,      *)
(* tb_credit_manager.sv), written as TrackerReplay is.                     *)
(***************************************************************************)
EXTENDS CreditManager

Ref == INSTANCE CreditModel

VARIABLE ref    \* the Credit object

replayVars == <<creditVars, ref>>

Pair(a, b) == [p \in Pools |-> IF p = 0 THEN a ELSE b]

\* The beats drawn, for two pools: consumes of at most one credit from each pool;
\* returns that fit, that do not, and one of more than the consume port carries;
\* maxima that shrink, grow, and cannot be held. Without a commit frozen_and_empty
\* is not looked at.
Beats ==
  {in \in [consume : [Pools -> 0 .. 1] \cup {None},
           return : [Pools -> 0 .. 1]
                      \cup {Pair(2, 1), Pair(0, AMT_MAX), Pair(0, AMT_MAX + 1), None},
           committed_max : {Pair(1, COUNT_MAX), Pair(COUNT_MAX, COUNT_MAX + 1), None},
           frozen_and_empty : BOOLEAN, diagnostic_clear : BOOLEAN] :
     in.committed_max = None => ~in.frozen_and_empty}

\* Mutant: the amounts are not clamped to the width of the port.
emits_Any(in) == TRUE

\* An amount that the consume port cannot carry must not be drawn for the return
\* port either: the hardware reports such an amount cut to the width of the other.
emits(in) == in.return # None => \A p \in Pools : in.return[p] <= AMT_MAX

ReplayInit  == CreditInit /\ ref = Ref!New
ReplayReset == CreditReset /\ ref' = Ref!New
ReplayEdge(in) == emits(in) /\ CreditEdge(in) /\ ref' = Ref!step(ref, in)
ReplayNext  == ReplayReset \/ \E in \in CreditInputs : ReplayEdge(in)
ReplaySpec  == ReplayInit /\ [][ReplayNext]_replayVars

-----------------------------------------------------------------------------
\* What the ports show before the edge, in the fields of Ref!outputs.
CreditPorts(in) ==
  [consume_ready |-> in.consume = None \/ ConsumeLegal(in.consume),
   consume_fire |-> ConsumeFire(in), return_accepted |-> ReturnAccepted(in),
   cfg_commit_fire |-> CommitFire(in), cfg_reject |-> CommitReject(in),
   cfg_reason |-> IF CommitReject(in) THEN RejectReason(in) ELSE "NONE",
   used |-> used, available |-> [p \in Pools |-> available(p)],
   configured_max |-> cmax, hwm_used |-> hwm,
   pool_full |-> {p \in Pools : used[p] = cmax[p]},
   pool_empty |-> {p \in Pools : used[p] = 0},
   first_err |-> first_err, counters |-> diag]

\* The object that holds what the registers hold.
ModelOfRegisters ==
  [used |-> used, cmax |-> cmax, hwm |-> hwm, err |-> first_err, c |-> diag]

\* The two ledgers, written independently, hold the same after any sequence of
\* beats: tb_credit_manager.sv sees this for random ones and at the ports.
CreditMatchesModel == ref = ModelOfRegisters
=============================================================================
