---------------------------- MODULE MCComponents ----------------------------
(***************************************************************************)
(* Eight components that share no state, checked together: each initial state *)
(* picks the one that moves, so that the states of the run are the sum of   *)
(* theirs.                                                                  *)
(***************************************************************************)
EXTENDS StencilFlush, SlotState, Queries, TransformFeedback, Framebuffers, ShaderPrograms,
        IndexedCaps, DebugMessages

CONSTANTS v0
MCInitialStencil == [field \in Fields |-> v0]

VARIABLE moves

MCInit ==
  /\ moves \in {"stencil", "slots", "queries", "feedback", "framebuffers", "shaders",
               "caps", "debug"}
  /\ moves # "slots" => setsAll = FALSE
  /\ StencilInit /\ SlotInit /\ QueryInit /\ TFInit /\ FBInit /\ SPInit
  /\ CapInit /\ DebugInit

\* The component has its turn; the variables of the others stay.
Turn(component) == moves = component /\ UNCHANGED moves

StillStencil == UNCHANGED stencilVars
StillSlots   == UNCHANGED slotVars
StillQueries == UNCHANGED queryVars
StillTF      == UNCHANGED tfVars
StillFB      == UNCHANGED fbVars
StillShaders == UNCHANGED shaderVars
StillCaps    == UNCHANGED capVars
StillDebug   == UNCHANGED debugVars

MCNext ==
  \/ /\ Turn("stencil") /\ StencilNext
     /\ StillSlots /\ StillQueries /\ StillTF /\ StillFB
     /\ StillShaders /\ StillCaps /\ StillDebug
  \/ /\ Turn("slots") /\ SlotNext
     /\ StillStencil /\ StillQueries /\ StillTF /\ StillFB
     /\ StillShaders /\ StillCaps /\ StillDebug
  \/ /\ Turn("queries") /\ QueryNext
     /\ StillStencil /\ StillSlots /\ StillTF /\ StillFB
     /\ StillShaders /\ StillCaps /\ StillDebug
  \/ /\ Turn("feedback") /\ TFNext
     /\ StillStencil /\ StillSlots /\ StillQueries /\ StillFB
     /\ StillShaders /\ StillCaps /\ StillDebug
  \/ /\ Turn("framebuffers") /\ FBNext
     /\ StillStencil /\ StillSlots /\ StillQueries /\ StillTF
     /\ StillShaders /\ StillCaps /\ StillDebug
  \/ /\ Turn("shaders") /\ SPNext
     /\ StillStencil /\ StillSlots /\ StillQueries /\ StillTF
     /\ StillFB /\ StillCaps /\ StillDebug
  \/ /\ Turn("caps") /\ CapNext
     /\ StillStencil /\ StillSlots /\ StillQueries /\ StillTF
     /\ StillFB /\ StillShaders /\ StillDebug
  \/ /\ Turn("debug") /\ DebugNext
     /\ StillStencil /\ StillSlots /\ StillQueries /\ StillTF
     /\ StillFB /\ StillShaders /\ StillCaps

MCSpec == MCInit /\ [][MCNext]_<<moves, stencilVars, slotVars, queryVars, tfVars, fbVars,
                                shaderVars, capVars, debugVars>>

\* The type invariant of the component that moves.
MCTypeOK ==
  /\ moves = "stencil" => StencilTypeOK
  /\ moves = "slots" => SlotTypeOK
  /\ moves = "queries" => QueryTypeOK
  /\ moves = "feedback" => TFTypeOK
  /\ moves = "framebuffers" => FBTypeOK
  /\ moves = "shaders" => SPTypeOK
  /\ moves = "caps" => CapTypeOK
  /\ moves = "debug" => DebugTypeOK
=============================================================================
