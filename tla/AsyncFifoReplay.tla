-------------------------- MODULE AsyncFifoReplay --------------------------
(***************************************************************************)
(* The differential test of the FIFO (async_fifo_model.py generates the    *)
(* events, tb_async_fifo.sv pulses one clock for each), written as         *)
(* TrackerReplay is. The bench never pulses both clocks at once; when the  *)
(* hardware has such an edge the model is given up until the next reset.   *)
(* An edge of a domain still in reset is not an event of the bench.        *)
(***************************************************************************)
EXTENDS AsyncFifo

Ref == INSTANCE AsyncFifoModel

VARIABLE ref    \* the AsyncFifo object, None when it was given up

replayVars == <<fifoVars, ref>>

ReplayInit == FifoInit /\ ref = Ref!New(fmem)

Event(released, after) == ref' = IF ref # None /\ released THEN after ELSE ref

ReplayWr(item) ==
  WrEdge(item) /\ Event(Released(wr_sr), Ref!wr_edge(ref, item))

ReplayRd(rd_en) ==
  RdEdge(rd_en) /\ Event(Released(rd_sr), Ref!rd_edge(ref, rd_en))

ReplayBoth(item, rd_en) ==
  BothEdges(item, rd_en) /\ ref' = IF Released(wr_sr) \/ Released(rd_sr) THEN None ELSE ref

ReplayWrTick   == \E item \in Payloads \cup {None} : ReplayWr(item)
ReplayRdTick   == \E rd_en \in BOOLEAN : ReplayRd(rd_en)
ReplayBothTick == \E item \in Payloads \cup {None}, rd_en \in BOOLEAN : ReplayBoth(item, rd_en)

\* A new file of vectors begins with a reset.
ReplayReset == AssertReset /\ ref' = Ref!New(fmem)

ReplayNext ==
  \/ ReplayWrTick \/ ReplayRdTick \/ ReplayBothTick
  \/ ReplayReset
  \/ ReleaseReset /\ UNCHANGED ref

ReplaySpec == ReplayInit /\ [][ReplayNext]_replayVars

\* Each clock runs, at any speed relative to the other.
ReplayFairSpec ==
  /\ ReplaySpec
  /\ WF_replayVars(ReplayWrTick \/ ReplayBothTick)
  /\ WF_replayVars(ReplayRdTick \/ ReplayBothTick)

-----------------------------------------------------------------------------
\* The object that holds what the registers and the storage hold.
ModelOfRegisters ==
  [wbin |-> wbin, rbin |-> rbin, wgray |-> wgray, rgray |-> rgray,
   r2w |-> r2w, w2r |-> w2r, mem |-> fmem]

\* The two FIFOs, written independently, hold the same after any interleaving of
\* single edges: tb_async_fifo.sv sees this for random ones, at full, empty and
\* rd_data.
FifoMatchesModel == ref # None => ref = ModelOfRegisters
=============================================================================
