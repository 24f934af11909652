--------------------------- MODULE MCStateTracker ---------------------------
(***************************************************************************)
(* The registers of the tracker and its image units, which share no state  *)
(* in the code; each initial state picks which of the two moves.           *)
(***************************************************************************)
EXTENDS StateTracker, ImageUnits, TLC

VARIABLE moves

\* The first value is the default of every register but the capability that
\* starts enabled, which starts with the second.
CONSTANTS v0, v1, a, b
MCInitial == [r \in Registers |-> IF r = Dither THEN v1 ELSE v0]

\* The samplers are interchangeable: nothing compares them with anything else.
MCSymmetry == Permutations(Samplers)

MCInit ==
  /\ moves \in {"registers", "images"}
  /\ Init /\ ImageInit

MCNext ==
  /\ UNCHANGED moves
  /\ \/ moves = "registers" /\ Next /\ UNCHANGED imageVars
     \/ moves = "images" /\ ImageNext /\ UNCHANGED vars

MCSpec == MCInit /\ [][MCNext]_<<moves, vars, imageVars>>

MCTypeOK ==
  /\ moves = "registers" => TypeOK
  /\ moves = "images" => ImageTypeOK
=============================================================================
