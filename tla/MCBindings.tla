----------------------------- MODULE MCBindings -----------------------------
(***************************************************************************)
(* What a draw is bound to: texture units and programs, checked together.  *)
(* They share no state, and each initial state picks the one that moves.    *)
(***************************************************************************)
EXTENDS TextureUnits, ProgramBinding, TLC

CONSTANTS a, b, twoD, cube

\* The textures are cube maps; the 2D target only ever holds the name 0.
MCTargetOf == [n \in Textures |-> cube]
MCSymmetry == Permutations({a, b})

VARIABLE moves

MCInit == moves \in {"textures", "programs"} /\ Init /\ ProgramInit

MCNext ==
  /\ UNCHANGED moves
  /\ \/ moves = "textures" /\ Next /\ UNCHANGED programVars
     \/ moves = "programs" /\ ProgramNext /\ UNCHANGED vars

MCSpec == MCInit /\ [][MCNext]_<<moves, vars, programVars>>

\* The type invariants of both.
MCTypeOK == TypeOK /\ ProgramTypeOK
=============================================================================
