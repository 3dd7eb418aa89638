------------------------------ MODULE Context ------------------------------
(***************************************************************************)
(* The context.Context that runRoot makes and that every command is given. *)
(* It is shared: a module of a command EXTENDS this one, leaves ctxDone    *)
(* alone in its own steps and looks at it where the code does.             *)
(***************************************************************************)
VARIABLE ctxDone   \* ctx.Done() is closed

ContextInit == ctxDone = FALSE

(* cancel(): the listener of signals calls it, at any moment, and runRoot    *)
(* does when it returns.  Nothing undoes it.                                 *)
Cancel ==
  /\ ~ctxDone
  /\ ctxDone' = TRUE
=============================================================================
