----------------------------- MODULE ImageUnits -----------------------------
(***************************************************************************)
(* The image units of GLStateTracker (src/state/gl_state.cpp) with the     *)
(* Context calls that bind textures to them and delete textures.  A unit   *)
(* is compared and pushed whole: the texture with the level, the layers,   *)
(* the access and the format it is bound with.  The deletion of a texture  *)
(* empties the units of the driver and leaves those of the tracker alone.  *)
(***************************************************************************)
EXTENDS Integers, Sequences

CONSTANTS
  NumUnits,  \* kMaxImageUnits
  Images,    \* the names of textures (with immutable storage, as OpenGL ES wants)
  NoImage,   \* the name 0
  Ways,      \* a level, layered or not, a layer, an access and a format
  Default,   \* those of an empty unit and of the multi-bind form
  Undrawn    \* "the last call did not draw"

ASSUME NumUnitsAssumption == NumUnits \in Nat
ASSUME NoImageAssumption  == NoImage \notin Images
ASSUME DefaultIsWay       == Default \in Ways

Units == 0 .. NumUnits - 1

Empty    == [texture |-> NoImage, way |-> Default]
Bindings == [texture : Images, way : Ways] \cup {Empty}

VARIABLES
  gone,          \* the textures that were deleted: their names are not used again
  image,         \* imageUnit_
  imageApplied,  \* imageUnitApplied_
  imagesDirty,   \* imageUnitsDirty_
  imageSink,     \* the image units of the driver, by frontend name
  imagesDrawn    \* what they held when the last call drew, or Undrawn

imageVars == <<gone, image, imageApplied, imagesDirty, imageSink, imagesDrawn>>

ImageTypeOK ==
  /\ gone \subseteq Images
  /\ image \in [Units -> Bindings] /\ imageApplied \in [Units -> Bindings]
  /\ imagesDirty \in BOOLEAN
  /\ imageSink \in [Units -> Bindings]
  /\ imagesDrawn \in [Units -> Bindings] \cup {Undrawn}

ImageInit ==
  /\ gone = {}
  /\ image = [u \in Units |-> Empty] /\ imageApplied = image
  /\ imagesDirty = FALSE
  /\ imageSink = image
  /\ imagesDrawn = Undrawn
-----------------------------------------------------------------------------
(* Binding.  A name that does not exist is refused; one that was not       *)
(* deleted is generated before its first use, which changes nothing here.  *)

SetImages(next) ==
  /\ next # image
  /\ image' = next
  /\ imagesDirty' = TRUE
  /\ UNCHANGED <<gone, imageApplied, imageSink>>
  /\ imagesDrawn' = Undrawn

\* Binding 0 empties the unit, whatever was passed along with it.
BindImageTexture(u, n, way) ==
  /\ n \notin gone
  /\ SetImages([image EXCEPT ![u] =
                  IF n = NoImage THEN Empty ELSE [texture |-> n, way |-> way]])

\* glBindImageTextures: where a name does not exist, the one that is bound there
\* takes its place; each unit of the range is then set the default way.
BindImageTextures(first, names) ==
  LET Given(u)    == names[u - first + 1]
      Resolved(u) == IF Given(u) \in gone THEN image[u].texture ELSE Given(u)
  IN  /\ first + Len(names) <= NumUnits
      /\ SetImages([u \in Units |->
                      IF u \in first .. first + Len(names) - 1
                        THEN [texture |-> Resolved(u), way |-> Default] ELSE image[u]])

\* Context::deleteTexture: the tracker resets the texture units only; the driver
\* detaches what it deletes from its image units.
DeleteImageTexture(n) ==
  /\ n \notin gone
  /\ gone' = gone \cup {n}
  /\ imageSink' = [u \in Units |-> IF imageSink[u].texture = n THEN Empty ELSE imageSink[u]]
  /\ UNCHANGED <<image, imageApplied, imagesDirty>>
  /\ imagesDrawn' = Undrawn
-----------------------------------------------------------------------------
(* apply(). *)

\* Comparing the textures and not how they are bound.
MutPushed == {u \in Units : imagesDirty /\ image[u].texture # imageApplied[u].texture}

Pushed == {u \in Units : imagesDirty /\ image[u] # imageApplied[u]}

\* What a push can leave in a unit of the driver: the binding; or, as the number
\* of a deleted texture is pushed all the same, the old one when the driver
\* refuses it, or the texture that has the number now.
Outcomes(u) ==
  IF image[u].texture \notin gone THEN {image[u]}
  ELSE {imageSink[u]} \cup {[image[u] EXCEPT !.texture = n] : n \in Images \ gone}

ApplyImages ==
  /\ imageSink' \in [Units -> Bindings]
  /\ \A u \in Units :
       imageSink'[u] \in IF u \in Pushed THEN Outcomes(u) ELSE {imageSink[u]}
  /\ imageApplied' = IF imagesDirty THEN image ELSE imageApplied
  /\ imagesDirty' = FALSE
  /\ UNCHANGED <<gone, image>>

FlushImages == ApplyImages /\ imagesDrawn' = Undrawn

DrawImages == ApplyImages /\ imagesDrawn' = imageSink'

ImageNext ==
  \/ \E first \in Units, k \in 1 .. NumUnits :
       \E names \in [1 .. k -> Images \cup {NoImage}] : BindImageTextures(first, names)
  \/ \E u \in Units, n \in Images \cup {NoImage}, way \in Ways : BindImageTexture(u, n, way)
  \/ \E n \in Images : DeleteImageTexture(n)
  \/ FlushImages
  \/ DrawImages

ImageSpec == ImageInit /\ [][ImageNext]_imageVars
-----------------------------------------------------------------------------
\* A draw has every image the application bound and did not delete, bound the way
\* it asked for, after any binds of one unit or of several, deletions of other
\* textures and flushes, also where the driver refused a push to another unit.
ImagesDrawn ==
  imagesDrawn # Undrawn =>
    \A u \in Units : image[u].texture \notin gone => imagesDrawn[u] = image[u]
=============================================================================
