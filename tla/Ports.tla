------------------------------- MODULE Ports -------------------------------
(***************************************************************************)
(* What the blocks share: a port whose valid is low presents None.         *)
(***************************************************************************)
CONSTANT None
=============================================================================
