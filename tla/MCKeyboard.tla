------------------------------ MODULE MCKeyboard ------------------------------
(* Keyboard on a small keyboard: one or two Win keys, a modifier, a letter. *)
EXTENDS Keyboard, TLC
===============================================================================
