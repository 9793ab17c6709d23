----------------------------- MODULE MemoryPort -----------------------------
(***************************************************************************)
(* The tagged memory port between rw_scheduler and mem_backend.            *)
(***************************************************************************)
EXTENDS Integers, FiniteSets, Ports

CONSTANTS
  SchTags,         \* the tags transactions carry
  Addrs,
  Data,
  ZeroTxn          \* a stored transaction after reset: every field zero

Txn        == [tag : SchTags, wr : BOOLEAN, adr : Addrs, wdat : Data]
Completion == [tag : SchTags, rdata : Data]

ZeroData       == ZeroTxn.wdat
ZeroCompletion == [tag |-> ZeroTxn.tag, rdata |-> ZeroData]

\* Which transaction counts as zero makes no difference: an instance may take this one.
SomeTxn == CHOOSE t \in Txn : ~t.wr

ASSUME MemoryPortAssumption ==
  /\ ZeroTxn \in Txn
  /\ None \notin Txn /\ None \notin Completion
=============================================================================
