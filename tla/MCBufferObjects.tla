-------------------------- MODULE MCBufferObjects --------------------------
(***************************************************************************)
(* BufferObjects for TLC: one buffer of up to three cells, so that         *)
(* mappings have offsets and a copy within it can overwrite its own        *)
(* source, or two buffers of one cell, so that there are two to copy       *)
(* between. Either buffer may be the one: the two are symmetric.           *)
(***************************************************************************)
EXTENDS BufferObjects, TLC

MCPlans == {b :> 3 : b \in Buffers} \cup {[b \in Buffers |-> 1]}

MCSymmetry == Permutations(Buffers)
=============================================================================
