-------------------------------- MODULE MCLua ---------------------------------
(* LuaRuntime with the model values of its configuration. *)
EXTENDS LuaRuntime, TLC
===============================================================================
