---------------------------- MODULE RwScheduler ----------------------------
(***************************************************************************)
(* The read/write scheduler (rtl/core/rw_scheduler.sv): a table of pending *)
(* transactions between the admission control plane and the memory.        *)
(* Different addresses may be reordered; an access waits until every older *)
(* access to its address has completed. Age is a matrix: the pair <<i, j>> *)
(* is in older when the entry in slot i was accepted before the one in j.  *)
(*                                                                         *)
(* One clock edge is one step, as in OutstandingTracker.                   *)
(***************************************************************************)
EXTENDS MemoryPort

CONSTANTS
  SCH_DEPTH,
  SchedulerInputs  \* the input vectors the environment may present at an edge

SchSlots == 0 .. SCH_DEPTH - 1

(***************************************************************************)
(* iss is the transaction presented with iss_valid, mc the completion      *)
(* presented with mc_valid.                                                *)
(***************************************************************************)
SchedulerInputType ==
  [iss : Txn \cup {None}, mem_ready : BOOLEAN, mc : Completion \cup {None},
   rsp_ready : BOOLEAN]

ASSUME SchedulerAssumption ==
  /\ SCH_DEPTH \in Nat \ {0}
  /\ SchedulerInputs \subseteq SchedulerInputType

VARIABLES
  vld,     \* the slots in use
  issd,    \* the slots whose access was issued to the memory
  done,    \* the slots whose access completed
  txn,     \* tag, wr, adr and wdat of each slot
  rdat,    \* the data each slot's completion delivered
  older

schedulerVars == <<vld, issd, done, txn, rdat, older>>

-----------------------------------------------------------------------------
(* Combinational logic. Each selection is a set, empty when there is none. *)

LowestOf(S) == {i \in S : \A j \in S : i <= j}

\* Mutant: a slot counts as free on the edge that presents its response.
free_slot_Bypass == LowestOf(SchSlots \ (vld \ LowestOf(vld \cap done)))

free_slot == LowestOf(SchSlots \ vld)

AcceptSet(in) == IF in.iss # None THEN free_slot ELSE {}

\* Mutants: the matrix is read transposed, and age is ignored.
Blocks_Transposed(j, i) == /\ j \in vld /\ <<i, j>> \in older
                           /\ txn[j].adr = txn[i].adr
                           /\ j \notin done

Blocks_AnyAge(j, i) == /\ j \in vld \ {i}
                       /\ txn[j].adr = txn[i].adr
                       /\ j \notin done

Blocks(j, i) == /\ j \in vld /\ <<j, i>> \in older
                /\ txn[j].adr = txn[i].adr
                /\ j \notin done

elig == {i \in vld \ issd : \A j \in SchSlots : ~Blocks(j, i)}

mem_sel == LowestOf(elig)

\* Mutant: an access counts as issued whether the memory takes it or not.
IssueSet_Unready(in) == mem_sel

IssueSet(in) == IF in.mem_ready THEN mem_sel ELSE {}

mc_hit(in) ==
  IF in.mc = None THEN {}
  ELSE {i \in (vld \cap issd) \ done : txn[i].tag = in.mc.tag}

rsp_sel == LowestOf(vld \cap done)

RespondSet(in) == IF in.rsp_ready THEN rsp_sel ELSE {}

-----------------------------------------------------------------------------
(* The registers. *)

SchedulerInit ==
  /\ vld = {} /\ issd = {} /\ done = {} /\ older = {}
  /\ txn = [i \in SchSlots |-> ZeroTxn]
  /\ rdat = [i \in SchSlots |-> ZeroData]

\* Asynchronous reset.
SchedulerReset ==
  /\ vld' = {} /\ issd' = {} /\ done' = {} /\ older' = {}
  /\ txn' = [i \in SchSlots |-> ZeroTxn]
  /\ rdat' = [i \in SchSlots |-> ZeroData]

\* Mutant: the new entry's own row keeps the bits of the slot's last occupant.
AgeAfter_KeepsRow(accepted) ==
  {p \in older : p[2] \notin accepted} \cup (vld \X accepted)

\* A new entry is older than nobody, and every entry valid before the edge is
\* older than it. Freeing a slot leaves the matrix as it is.
AgeAfter(accepted) ==
  {p \in older : p[1] \notin accepted /\ p[2] \notin accepted}
    \cup (vld \X accepted)

UpdateTable(in, accepted, issued, hit, responded) ==
  /\ vld'   = (vld \ responded) \cup accepted
  /\ issd'  = ((issd \ responded) \cup issued) \ accepted
  /\ done'  = ((done \ responded) \cup hit) \ accepted
  /\ rdat'  = [i \in SchSlots |-> IF i \in hit THEN in.mc.rdata ELSE rdat[i]]
  /\ txn'   = [i \in SchSlots |-> IF i \in accepted THEN in.iss ELSE txn[i]]
  /\ older' = AgeAfter(accepted)

SchedulerEdge(in) ==
  UpdateTable(in, AcceptSet(in), IssueSet(in), mc_hit(in), RespondSet(in))

SchedulerNext == SchedulerReset \/ \E in \in SchedulerInputs : SchedulerEdge(in)

SchedulerSpec == SchedulerInit /\ [][SchedulerNext]_schedulerVars

-----------------------------------------------------------------------------
SchedulerTypeOK ==
  /\ vld \subseteq SchSlots
  /\ issd \subseteq SchSlots /\ done \subseteq SchSlots
  /\ txn \in [SchSlots -> Txn]
  /\ rdat \in [SchSlots -> Data]
  /\ older \subseteq SchSlots \X SchSlots

\* Age is a strict total order of the valid entries, transitive too, although the
\* matrix keeps the bits of freed entries and slots are reused in any order.
AgeTotalOrder ==
  /\ \A i \in vld : <<i, i>> \notin older
  /\ \A i, j \in vld : i # j => (<<i, j>> \in older <=> <<j, i>> \notin older)
  /\ \A i, j, k \in vld : <<i, j>> \in older /\ <<j, k>> \in older => <<i, k>> \in older

\* Accesses to one address reach the memory in program order: a younger one has
\* been issued only if the older one has completed.
PerAddressOrder ==
  \A i, j \in vld :
    <<i, j>> \in older /\ txn[i].adr = txn[j].adr /\ j \in issd => i \in done

\* Nothing is answered that was not issued, so a slot's response stems from its
\* own transaction and not from an earlier occupant's.
DoneWasIssued == done \subseteq issd /\ issd \subseteq vld

\* Once nothing new is accepted the table empties, which is what a requester that
\* stops to wait for its answers counts on: however the entries block each other
\* and whichever the two selections prefer, nobody is left waiting for nobody.
TableDrains == <>[][vld' \subseteq vld]_schedulerVars => <>[](vld = {})
=============================================================================
