----------------------------- MODULE AsyncFifo -----------------------------
(***************************************************************************)
(* The dual-clock FIFO (rtl/core/async_fifo.sv) with its two-flop          *)
(* synchronisers (sync_bits.sv), released from a common reset by a         *)
(* reset_sync in each domain (reset_sync.sv).                              *)
(*                                                                         *)
(* The clocks are independent: a step is an edge of one of them or of both *)
(* at once. A pointer crosses as the set of the bits that are 1 in its     *)
(* Gray code. A flop that samples a vector while it changes takes each     *)
(* changing bit old or new; that Gray code makes this harmless is not      *)
(* assumed but is what the properties check.                               *)
(***************************************************************************)
EXTENDS Integers, Sequences, FiniteSets, Ports

CONSTANTS
  FIFO_AW,     \* the FIFO has 2^FIFO_AW places
  STAGES,      \* flops of a synchroniser
  Payloads

FifoDepth == 2^FIFO_AW
PtrMod    == 2 * FifoDepth

ASSUME FifoAssumption ==
  /\ FIFO_AW \in Nat /\ FIFO_AW >= 2
  /\ STAGES \in Nat /\ STAGES >= 2
  /\ None \notin Payloads

VARIABLES
  fmem,
  wbin, wgray, r2w,    \* write domain; r2w is the chain that ends in rgray_s
  rbin, rgray, w2r,    \* read domain; w2r is the chain that ends in wgray_s
  arst,                \* the common reset is asserted
  wr_sr, rd_sr         \* how many ones each reset_sync has shifted in

wrVars  == <<wbin, wgray, r2w, wr_sr>>
rdVars  == <<rbin, rgray, w2r, rd_sr>>
fifoVars == <<fmem, wrVars, rdVars, arst>>

-----------------------------------------------------------------------------
(* Gray code: bit i is the exclusive or of bits i and i + 1. *)

PtrBits   == 0 .. FIFO_AW
Bit(b, i) == (b \div 2^i) % 2

\* Mutant: the pointer crosses in binary.
b2g_Binary(b) == {i \in PtrBits : Bit(b, i) = 1}

b2g(b) == {i \in PtrBits : Bit(b, i) # Bit(b, i + 1)}

Flipped(g, bits) == (g \ bits) \cup (bits \ g)

\* What a flop may take of a vector that changes from before to after: the bits
\* that are 1 in both, and any of those that change.
Sampled(before, after) == {(before \cap after) \cup b : b \in SUBSET Flipped(before, after)}

-----------------------------------------------------------------------------
rgray_s == r2w[STAGES]
wgray_s == w2r[STAGES]

\* Mutant: the inversion of one bit only.
full_TopBit == wgray = Flipped(rgray_s, {FIFO_AW})

\* The write pointer has lapped the read pointer: the two top Gray bits differ.
full  == wgray = Flipped(rgray_s, {FIFO_AW, FIFO_AW - 1})

empty == rgray = wgray_s

Place(b) == b % FifoDepth

rd_data == fmem[Place(rbin)]

Step(b) == (b + 1) % PtrMod

\* Mutant: the last flop is not fed by the one before it.
Shifted_Broken(chain, d) == [s \in 1 .. STAGES |-> IF s = 1 THEN d ELSE chain[s]]

Shifted(chain, d) == [s \in 1 .. STAGES |-> IF s = 1 THEN d ELSE chain[s - 1]]

Cleared == [s \in 1 .. STAGES |-> {}]

\* reset_sync: the domain is out of reset once a one has reached the last flop.
Released(sr) == sr = STAGES
ShiftIn(sr)  == IF sr = STAGES THEN sr ELSE sr + 1

-----------------------------------------------------------------------------
(* An edge of each clock. item is what is written, or None; sample is what   *)
(* the first flop of the synchroniser takes. A domain in reset stands still. *)

accepted(item) == Released(wr_sr) /\ item # None /\ ~full
taken(rd_en)   == Released(rd_sr) /\ rd_en /\ ~empty

wbin_n(item)  == IF accepted(item) THEN Step(wbin) ELSE wbin
wgray_n(item) == b2g(wbin_n(item))
rbin_n(rd_en)  == IF taken(rd_en) THEN Step(rbin) ELSE rbin
rgray_n(rd_en) == b2g(rbin_n(rd_en))

WriteDomain(item, sample) ==
  /\ wbin' = wbin_n(item) /\ wgray' = wgray_n(item)
  /\ fmem' = IF accepted(item) THEN [fmem EXCEPT ![Place(wbin)] = item] ELSE fmem
  /\ r2w' = IF Released(wr_sr) THEN Shifted(r2w, sample) ELSE r2w
  /\ wr_sr' = ShiftIn(wr_sr)

ReadDomain(rd_en, sample) ==
  /\ rbin' = rbin_n(rd_en) /\ rgray' = rgray_n(rd_en)
  /\ w2r' = IF Released(rd_sr) THEN Shifted(w2r, sample) ELSE w2r
  /\ rd_sr' = ShiftIn(rd_sr)

WrEdge(item)  == ~arst /\ WriteDomain(item, rgray) /\ UNCHANGED <<rdVars, arst>>

RdEdge(rd_en) == ~arst /\ ReadDomain(rd_en, wgray) /\ UNCHANGED <<fmem, wrVars, arst>>

\* Both clocks at once: each synchroniser samples a pointer that is moving.
BothEdges(item, rd_en) ==
  \E seen_r \in Sampled(rgray, rgray_n(rd_en)), seen_w \in Sampled(wgray, wgray_n(item)) :
    ~arst /\ WriteDomain(item, seen_r) /\ ReadDomain(rd_en, seen_w) /\ UNCHANGED arst

\* The common reset is asynchronous and clears both domains, the storage apart.
AssertReset ==
  /\ arst' = TRUE /\ wr_sr' = 0 /\ rd_sr' = 0
  /\ wbin' = 0 /\ wgray' = {} /\ r2w' = Cleared
  /\ rbin' = 0 /\ rgray' = {} /\ w2r' = Cleared
  /\ UNCHANGED fmem

ReleaseReset == arst /\ arst' = FALSE /\ UNCHANGED <<fmem, wrVars, rdVars>>

-----------------------------------------------------------------------------
\* The storage is not reset: its first content is arbitrary.
FifoInit ==
  /\ fmem \in [0 .. FifoDepth - 1 -> Payloads]
  /\ arst = TRUE /\ wr_sr = 0 /\ rd_sr = 0
  /\ wbin = 0 /\ wgray = {} /\ r2w = Cleared
  /\ rbin = 0 /\ rgray = {} /\ w2r = Cleared

WrTick   == \E item \in Payloads \cup {None} : WrEdge(item)
RdTick   == \E rd_en \in BOOLEAN : RdEdge(rd_en)
BothTick == \E item \in Payloads \cup {None}, rd_en \in BOOLEAN : BothEdges(item, rd_en)

FifoNext == WrTick \/ RdTick \/ BothTick \/ AssertReset \/ ReleaseReset

FifoSpec == FifoInit /\ [][FifoNext]_fifoVars

\* Each clock runs, at any speed relative to the other.
FifoFairSpec ==
  /\ FifoSpec
  /\ WF_fifoVars(WrTick \/ BothTick)
  /\ WF_fifoVars(RdTick \/ BothTick)

-----------------------------------------------------------------------------
\* How far pointer b is behind the write pointer.
Lag(b)    == (wbin - b) % PtrMod
g2b(g)    == CHOOSE b \in 0 .. PtrMod - 1 : b2g(b) = g

\* A synchronised pointer trails the pointer it copies and never leads it, stage
\* by stage, and from the writer's view of the reader to the write pointer there
\* are never more places than the FIFO has: so full and empty may be late but
\* never wrong, although both compare Gray codes that were torn in the crossing.
SyncedPointersTrail ==
  LET chain == <<Lag(g2b(r2w[2])), Lag(g2b(r2w[1])), Lag(rbin), Lag(g2b(w2r[2])), Lag(g2b(w2r[1]))>>
  IN /\ chain[1] <= FifoDepth
     /\ \A k \in 1 .. 4 : chain[k] >= chain[k + 1]

\* What the FIFO holds, oldest first.
Contents == [k \in 1 .. Lag(rbin) |-> fmem[Place(rbin + k - 1)]]

\* What is written comes out once, in order and unchanged, or is lost to a reset;
\* nothing is written over and nothing is read twice.
Queue == INSTANCE BoundedQueue
           WITH queue <- Contents, Items <- Payloads, Bound <- FifoDepth
ImplementsQueue == Queue!QueueSpec

\* What is in the FIFO becomes visible to the reader even if the writer stops,
\* and the room a reader makes becomes known to the writer even if the reader
\* stops.
NewsCrosses ==
  /\ Contents # <<>> ~> (~empty \/ Contents = <<>>)
  /\ Lag(rbin) < FifoDepth ~> ~full
=============================================================================
