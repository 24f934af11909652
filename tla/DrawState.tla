----------------------------- MODULE DrawState -----------------------------
(***************************************************************************)
(* What the frontend promises an application about pipeline state: setting *)
(* state is visible at once to the application, and a draw is executed     *)
(* with exactly the state set before it (SPEC.md section 10: optimization  *)
(* must never compromise OpenGL-visible behavior).  No driver, no dirty    *)
(* flags, no cache: those belong to the modules that implement this one.   *)
(***************************************************************************)
CONSTANTS
  Registers,   \* the independent pieces of state
  Values,      \* what a register may hold
  Initial,     \* the state of a new context
  Nothing      \* "the last call did not draw"

VARIABLES
  state,       \* the state the application has set
  drawn        \* the state the last call drew with, or Nothing

vars == <<state, drawn>>

Init == state = Initial /\ drawn = Nothing

\* One call may set several registers (glBindSamplers, glDeleteSamplers), or
\* none (glFlush).
Set ==
  /\ state' \in [Registers -> Values]
  /\ drawn' = Nothing

Draw ==
  /\ drawn' = state
  /\ UNCHANGED state

Next == Set \/ Draw

Spec == Init /\ [][Next]_vars
=============================================================================
