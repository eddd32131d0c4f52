---------------------------- MODULE MCHookMargin ----------------------------
(* Small instances of HookMargin: two ticks to the second.                 *)
EXTENDS HookMargin
=============================================================================
