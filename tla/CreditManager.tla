--------------------------- MODULE CreditManager ---------------------------
(***************************************************************************)
(* The multi-pool credit ledger (rtl/core/credit_manager.sv). A request    *)
(* reserves credits in several pools at once, all or nothing; the same     *)
(* credits come back when its transaction ends. The maxima change only by  *)
(* an atomic configuration commit that blocks both ports on its edge.      *)
(*                                                                         *)
(* One clock edge is one step, as in OutstandingTracker.                   *)
(***************************************************************************)
EXTENDS Integers, Ports

CONSTANTS
  N_POOLS,
  COUNT_MAX,     \* 2^COUNT_W - 1: the largest ledger value
  AMT_MAX,       \* 2^AMT_W - 1: the largest amount one request consumes
  RET_MAX,       \* 2^RET_W - 1: the largest amount one edge returns
  RESET_MAX,     \* the maximum of each pool after reset
  DIAG_MAX,      \* 2^DIAG_W - 1, where the diagnostic counters saturate
  CreditInputs   \* the input vectors the environment may present at an edge

Pools == 0 .. N_POOLS - 1

(***************************************************************************)
(* consume and return are the per-pool amounts, committed_max the maxima   *)
(* presented with config_commit. A requested maximum has one bit more      *)
(* than the ledger (MREQ_W).                                               *)
(***************************************************************************)
CreditInputType ==
  [consume : [Pools -> 0 .. AMT_MAX] \cup {None},
   return  : [Pools -> 0 .. RET_MAX] \cup {None},
   committed_max : [Pools -> 0 .. 2 * COUNT_MAX + 1] \cup {None},
   frozen_and_empty : BOOLEAN, diagnostic_clear : BOOLEAN]

ASSUME CreditSizeAssumption ==
  /\ N_POOLS \in Nat \ {0} /\ DIAG_MAX \in Nat
  /\ COUNT_MAX \in Nat /\ AMT_MAX \in Nat
  /\ RET_MAX \in 0 .. COUNT_MAX /\ RESET_MAX \in 0 .. COUNT_MAX

ASSUME CreditInputAssumption ==
  /\ CreditInputs \subseteq CreditInputType
  /\ None \notin [Pools -> 0 .. 2 * COUNT_MAX + 1]
  /\ None \notin [Pools -> 0 .. AMT_MAX] /\ None \notin [Pools -> 0 .. RET_MAX]

VARIABLES
  used,        \* used_r: credits reserved in each pool
  cmax,        \* cmax_r: configured maximum of each pool
  hwm,         \* hwm_r: highest use of each pool since the last clear
  first_err,   \* the sticky first error; type NONE while not sticky
  diag         \* the diagnostic counters

creditVars == <<used, cmax, hwm, first_err, diag>>

NoError  == [type |-> "NONE", pool |-> 0, amount |-> 0]
DiagCounters == {"consume_ok", "consume_blocked", "return_ok", "return_illegal", "cfg_reject"}

-----------------------------------------------------------------------------
(* Legality, from the registers before the edge. *)

available(p) == cmax[p] - used[p]

\* Mutant: one pool with enough credits suffices.
ConsumeLegal_AnyPool(amount) == \E p \in Pools : amount[p] <= available(p)

ConsumeLegal(amount) == \A p \in Pools : amount[p] <= available(p)
ReturnLegal(amount)  == \A p \in Pools : amount[p] <= used[p]

all_unused == \A p \in Pools : used[p] = 0

Unrepresentable(max) == {p \in Pools : max[p] > COUNT_MAX}

\* Mutant: a commit while credits are reserved.
CommitFire_InUse(in) ==
  /\ in.committed_max # None
  /\ in.frozen_and_empty
  /\ Unrepresentable(in.committed_max) = {}

CommitFire(in) ==
  /\ in.committed_max # None
  /\ in.frozen_and_empty
  /\ all_unused
  /\ Unrepresentable(in.committed_max) = {}

CommitReject(in) == in.committed_max # None /\ ~CommitFire(in)

\* The commit edge blocks consumption and return alike.
ConsumeFire(in)    == in.consume # None /\ ConsumeLegal(in.consume) /\ ~CommitFire(in)
ConsumeBlocked(in) == in.consume # None /\ ~ConsumeLegal(in.consume) /\ ~CommitFire(in)
ReturnAccepted(in) == in.return # None /\ ReturnLegal(in.return) /\ ~CommitFire(in)
IllegalReturn(in)  == in.return # None /\ ~ReturnLegal(in.return) /\ ~CommitFire(in)

RejectReason(in) == IF Unrepresentable(in.committed_max) # {} THEN "CFG_UNREP" ELSE "CFG_BUSY"

Lowest(S) == CHOOSE p \in S : \A q \in S : p <= q

\* The error of this edge; an illegal return comes before a refused commit.
ErrorNow(in) ==
  IF IllegalReturn(in)
  THEN LET p == Lowest({q \in Pools : in.return[q] > used[q]})
       IN [type |-> "RETURN_UNDERFLOW", pool |-> p, amount |-> in.return[p] % (AMT_MAX + 1)]
  ELSE IF CommitReject(in)
  THEN LET bad == Unrepresentable(in.committed_max)
       IN [type |-> RejectReason(in), pool |-> IF bad = {} THEN 0 ELSE Lowest(bad), amount |-> 0]
  ELSE NoError

-----------------------------------------------------------------------------
(* The registers. *)

CreditInit ==
  /\ used = [p \in Pools |-> 0]
  /\ cmax = [p \in Pools |-> RESET_MAX]
  /\ hwm  = [p \in Pools |-> 0]
  /\ first_err = NoError
  /\ diag = [c \in DiagCounters |-> 0]

\* Asynchronous reset.
CreditReset ==
  /\ used' = [p \in Pools |-> 0]
  /\ cmax' = [p \in Pools |-> RESET_MAX]
  /\ hwm'  = [p \in Pools |-> 0]
  /\ first_err' = NoError
  /\ diag' = [c \in DiagCounters |-> 0]

\* The code adds in COUNT_W + 1 bits and keeps COUNT_W; LedgerTypeOK says that
\* nothing is cut off.
next_used(in, p) ==
  used[p] + (IF ConsumeFire(in) THEN in.consume[p] ELSE 0)
          - (IF ReturnAccepted(in) THEN in.return[p] ELSE 0)

UpdateLedger(in) ==
  /\ used' = [p \in Pools |-> next_used(in, p)]
  /\ cmax' = [p \in Pools |-> IF CommitFire(in) THEN in.committed_max[p] ELSE cmax[p]]
  /\ hwm'  = [p \in Pools |->
                IF \/ in.diagnostic_clear
                   \/ (ConsumeFire(in) \/ ReturnAccepted(in)) /\ next_used(in, p) > hwm[p]
                THEN next_used(in, p) ELSE hwm[p]]

DiagEvents(in) ==
  [consume_ok |-> ConsumeFire(in), consume_blocked |-> ConsumeBlocked(in),
   return_ok |-> ReturnAccepted(in), return_illegal |-> IllegalReturn(in),
   cfg_reject |-> CommitReject(in)]

Saturated(c) == IF c = DIAG_MAX THEN c ELSE c + 1

\* A clear discards the events of its own edge.
CountEvents(in, event) ==
  /\ diag' = [c \in DiagCounters |->
                IF in.diagnostic_clear THEN 0
                ELSE IF event[c] THEN Saturated(diag[c]) ELSE diag[c]]
  /\ first_err' = IF in.diagnostic_clear THEN NoError
                  ELSE IF first_err.type = "NONE" THEN ErrorNow(in) ELSE first_err

CreditEdge(in) == UpdateLedger(in) /\ CountEvents(in, DiagEvents(in))

CreditNext == CreditReset \/ \E in \in CreditInputs : CreditEdge(in)

CreditSpec == CreditInit /\ [][CreditNext]_creditVars

-----------------------------------------------------------------------------
LedgerTypeOK ==
  /\ used \in [Pools -> 0 .. COUNT_MAX]
  /\ cmax \in [Pools -> 0 .. COUNT_MAX]
  /\ hwm  \in [Pools -> 0 .. COUNT_MAX]

\* No pool is ever over-committed: consumption is checked against the registered
\* maximum while returns land and commits lower the maxima (0 <= used <= max).
UsedWithinMax == \A p \in Pools : used[p] <= cmax[p]

\* The high watermark never loses a peak: clearing it on an edge that also moves
\* credits restarts it at the new use, not at the one before the edge.
HwmCoversUsed == \A p \in Pools : used[p] <= hwm[p]

\* The maxima move only in a ledger without reserved credits, and the edge that
\* moves them moves no credit: no request is admitted half under each maximum.
MaxMovesOnlyUnused == [][cmax' # cmax => \A p \in Pools : used'[p] = 0]_creditVars
=============================================================================
