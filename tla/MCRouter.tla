------------------------------- MODULE MCRouter -------------------------------
(***************************************************************************)
(* Instances of Router for TLC, with short animations: what a frame does   *)
(* in each state is the question, not how long a state lasts.              *)
(***************************************************************************)
EXTENDS Router
=============================================================================
