----------------------------- MODULE MCMainLoop -----------------------------
(***************************************************************************)
(* MainLoop scaled down: a receive FIFO of 5 bytes, and one of 3, which is *)
(* too small, frames of 2 and 3, replies of 5, a period of 10 byte times   *)
(* and a timeout of 24. As on the board, an update may take longer than it *)
(* takes the line to fill the receive FIFO, and a reply is longer than its *)
(* query.                                                                  *)
(***************************************************************************)
EXTENDS MainLoop

MCSize == [query |-> 2, command |-> 3]

\* The sender of the run main_loop is one the proofs speak of, and so is its FIFO.
ASSUME PacedByReplies == Window = 1 => Paced
ASSUME DeepFifo == Deep
ASSUME SpacedCommands == Spaced
=============================================================================
