------------------------------ MODULE MCMouseHook ------------------------------
(* MouseHook with the model values of its configurations. *)
EXTENDS MouseHook, TLC
===============================================================================
