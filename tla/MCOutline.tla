------------------------------- MODULE MCOutline -------------------------------
(* OutlinePipeline with the model values of its configuration. *)
EXTENDS OutlinePipeline, TLC
===============================================================================
