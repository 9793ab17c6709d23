--------------------------- MODULE AsyncFifoModel ---------------------------
(***************************************************************************)
(* The independent reference model of the clock crossing FIFO              *)
(* (tb/models/async_fifo_model.py), written as TrackerModel is: f is the   *)
(* AsyncFifo object. Each event is one edge of one clock, so a pointer     *)
(* never moves while it is sampled. A Gray code is the set of its ones.    *)
(***************************************************************************)
EXTENDS Integers, Ports

CONSTANT FIFO_AW

PW    == FIFO_AW + 1
DEPTH == 2^FIFO_AW
PMOD  == 2^PW

\* AsyncFifo(). The content before the first write is compared by nobody.
New(content) ==
  [wbin |-> 0, rbin |-> 0, wgray |-> {}, rgray |-> {},
   r2w |-> <<{}, {}>>, w2r |-> <<{}, {}>>, mem |-> content]

\* b ^ (b >> 1)
bits(b) == {i \in 0 .. PW - 1 : (b \div 2^i) % 2 = 1}
b2g(b)  == LET B == bits(b) S == bits(b \div 2) IN (B \ S) \cup (S \ B)

\* Mutant: one bit is flipped.
inv_top2_One(g) == LET top == {PW - 1} IN (g \ top) \cup (top \ g)

inv_top2(g) == LET top == {PW - 1, PW - 2} IN (g \ top) \cup (top \ g)

is_full(f)  == f.wgray = inv_top2(f.r2w[2])
is_empty(f) == f.rgray = f.w2r[2]
rd_data(f)  == f.mem[f.rbin % DEPTH]

\* The synchroniser takes what the other pointer was before the edge.
wr_edge(f, item) ==
  LET next == (f.wbin + 1) % PMOD
      m == IF item = None \/ is_full(f) THEN f
           ELSE [f EXCEPT !.mem[f.wbin % DEPTH] = item, !.wbin = next, !.wgray = b2g(next)]
  IN [m EXCEPT !.r2w = <<f.rgray, f.r2w[1]>>]

rd_edge(f, rd_en) ==
  LET next == (f.rbin + 1) % PMOD
      m == IF ~rd_en \/ is_empty(f) THEN f
           ELSE [f EXCEPT !.rbin = next, !.rgray = b2g(next)]
  IN [m EXCEPT !.w2r = <<f.wgray, f.w2r[1]>>]
=============================================================================
