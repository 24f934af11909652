---------------------------- MODULE MCVertexArrays ----------------------------
(***************************************************************************)
(* The objects that draws read: vertex arrays, pushed by flushes, buffers at *)
(* indexed points, sent at once, and the storage of textures. They share no *)
(* state; each initial state picks what moves, with the points of the       *)
(* uniform target apart from those of transform feedback.                   *)
(***************************************************************************)
EXTENDS VertexArrays, IndexedBuffers, TextureStorage

VARIABLE moves

\* Textures of one kind at a time: only such can be views of each other.
MCSolids == {{}, Textures}
MCBlocks == {Extent(1, 2), Extent(2, 1)}

MCInit ==
  /\ moves \in {"arrays", "uniform points", "feedback points", "textures"}
  /\ Init /\ IndexedInit /\ TextureInit
  /\ moves # "textures" => solid = {}

MCNext ==
  /\ UNCHANGED moves
  /\ \/ moves = "arrays" /\ Next /\ UNCHANGED <<indexedVars, texVars>>
     \/ /\ moves = "uniform points" /\ IndexedNext
        /\ UNCHANGED <<vars, indexedFeedback, feedbackSlots, texVars>>
     \/ /\ moves = "feedback points" /\ IndexedNext
        /\ genericBound'["uniform"] = 0 /\ UNCHANGED <<vars, uniformPoints, texVars>>
     \/ moves = "textures" /\ TextureNext /\ UNCHANGED <<vars, indexedVars>>

MCSpec == MCInit /\ [][MCNext]_<<moves, vars, indexedVars, texVars>>

MCTypeOK ==
  /\ moves = "arrays" => TypeOK
  /\ moves \in {"uniform points", "feedback points"} => IndexedTypeOK
  /\ moves = "textures" => TextureTypeOK
=============================================================================
