---------------------------- MODULE StencilFlush ----------------------------
(***************************************************************************)
(* The stencil category of GLStateTracker: two faces, set together or one  *)
(* by one, and pushed by apply() with both-faces calls when the faces are  *)
(* equal and with *Separate calls when they differ.                        *)
(***************************************************************************)
CONSTANTS
  Fields,          \* func/ref/mask, sfail/dpfail/dppass, writeMask: one call each
  StencilValues,
  InitialStencil,  \* the GL default of each field, the same for both faces
  NoStencilDraw    \* "the last call did not draw"

FrontFace == "front"
BackFace  == "back"
Faces == {FrontFace, BackFace}

ASSUME InitialStencilType == InitialStencil \in [Fields -> StencilValues]

VARIABLES
  stencil,         \* stencilFront_, stencilBack_
  stencilApplied,  \* stencilFrontApplied_, stencilBackApplied_
  stencilDriver,   \* the state of the driver, per face
  stencilDrawn     \* what it was when the last call drew, or NoStencilDraw

stencilVars == <<stencil, stencilApplied, stencilDriver, stencilDrawn>>

FaceStates == [Faces -> [Fields -> StencilValues]]

StencilTypeOK ==
  /\ stencil \in FaceStates
  /\ stencilApplied \in FaceStates
  /\ stencilDriver \in FaceStates
  /\ stencilDrawn \in FaceStates \cup {NoStencilDraw}

StencilInit ==
  /\ stencil = [face \in Faces |-> InitialStencil]
  /\ stencilApplied = stencil
  /\ stencilDriver = stencil
  /\ stencilDrawn = NoStencilDraw

\* glStencilFunc/Op/Mask and their Separate forms: GL_FRONT, GL_BACK or both.
SetStencil(field, faces, v) ==
  /\ \E face \in faces : stencil[face][field] # v
  /\ stencil' = [face \in Faces |->
                   IF face \in faces THEN [stencil[face] EXCEPT ![field] = v]
                                     ELSE stencil[face]]
  /\ stencilDrawn' = NoStencilDraw
  /\ UNCHANGED <<stencilApplied, stencilDriver>>

\* Using the single-face call for a pair that became equal.
MutPushBoth ==
  /\ stencilDriver' = [stencilDriver EXCEPT ![FrontFace] = stencil[FrontFace]]
  /\ stencilApplied' = [face \in Faces |-> stencil[FrontFace]]

\* glStencilFunc, glStencilOp, glStencilMask: both faces of the driver.
PushBoth ==
  /\ stencilDriver' = [face \in Faces |-> stencil[FrontFace]]
  /\ stencilApplied' = [face \in Faces |-> stencil[FrontFace]]

\* Taking the snapshot of both faces when one of them was pushed.
MutPushDiffering ==
  /\ stencilDriver' = [stencilDriver EXCEPT ![FrontFace] = stencil[FrontFace]]
  /\ stencilApplied' = stencil

PushDiffering ==
  LET Push(held) == [face \in Faces |-> IF stencil[face] # stencilApplied[face]
                                          THEN stencil[face] ELSE held[face]]
  IN  stencilDriver' = Push(stencilDriver) /\ stencilApplied' = Push(stencilApplied)

ApplyStencil ==
  /\ IF stencil[FrontFace] # stencil[BackFace] THEN PushDiffering
     ELSE IF stencil[FrontFace] # stencilApplied[FrontFace] THEN PushBoth
     ELSE UNCHANGED <<stencilApplied, stencilDriver>>
  /\ UNCHANGED stencil

FlushStencil == ApplyStencil /\ stencilDrawn' = NoStencilDraw
DrawStencil  == ApplyStencil /\ stencilDrawn' = stencilDriver'

StencilNext ==
  \/ \E field \in Fields, faces \in (SUBSET Faces) \ {{}}, v \in StencilValues :
       SetStencil(field, faces, v)
  \/ FlushStencil
  \/ DrawStencil

StencilSpec == StencilInit /\ [][StencilNext]_stencilVars
-----------------------------------------------------------------------------
\* The snapshot describes the driver, whichever of the two forms pushed it.
StencilCoherent == stencilDriver = stencilApplied

\* A draw sees the front face of the application, and a stale back face only
\* while the application holds the two faces equal.
StaleBackOnlyWhenMerged ==
  stencilDrawn # NoStencilDraw =>
    /\ stencilDrawn[FrontFace] = stencil[FrontFace]
    /\ stencilDrawn[BackFace] = stencil[BackFace] \/ stencil[FrontFace] = stencil[BackFace]
=============================================================================
