----------------------------- MODULE MCRecorder -----------------------------
(***************************************************************************)
(* Module Recorder for TLC: the blocks are numbered in the order the tuner *)
(* delivers them, so MaxBlocks fixes them.                                 *)
(***************************************************************************)
EXTENDS Recorder

MCBlock == 1 .. MaxBlocks

\* A recording for which no decoder was asked, or none could be started.
SpecWithoutDecoder == Init /\ ~use_b1 /\ [][Next]_vars
=============================================================================
