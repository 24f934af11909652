---------------------------- MODULE TextureStorage ----------------------------
(***************************************************************************)
(* The storage of textures: the levels that Context records of a texture,  *)
(* against which it checks every update, copy and question about a level,  *)
(* and the levels the driver has.  glTexImage* record one level, glTexStorage* *)
(* all of them, a view takes those of its origin; copies from a framebuffer *)
(* and the generation of mipmaps make levels that are not recorded.  A      *)
(* size has a width, for the height too, which the code treats alike, and a *)
(* depth, which it does not: textures of one or two dimensions have a depth *)
(* of 1 that images record as 0, and many checks ask about the width alone. *)
(* Array textures, whose layers the driver does not halve, are left out.    *)
(***************************************************************************)
EXTENDS Naturals, Sequences, FiniteSets

CONSTANTS
  Textures,  \* names of textures; a deleted one stands for the next new name
  MaxLevel,  \* bound: the last level a texture is given
  Sizes,     \* bound: widths and depths of levels
  Solids,    \* which textures have three dimensions: one choice a behaviour
  Blocks,    \* bound: the sizes that those are given
  MaxMixed   \* bound: textures at a time whose levels are mixed (below)

ASSUME TextureBounds == /\ MaxLevel \in Nat /\ MaxMixed \in Nat
                        /\ Sizes \subseteq Nat \ {0} /\ Blocks \subseteq [w : Sizes, d : Sizes]

Levels  == 0 .. MaxLevel
Extent(w, d) == [w |-> w, d |-> d]
NoLevel == Extent(0, 0)    \* the size of a level that there is not

VARIABLES
  solid,      \* the textures with three dimensions
  texRecord,  \* of each texture in textures_: images, by level; their levels in the
              \* order they have there; storageLevels, storageBaseWidth, immutableStorage
  texDriver,  \* the driver's levels, TEXTURE_IMMUTABLE_FORMAT, and whether the
              \* texture was bound, which gives it its target for ever
  texHow      \* how the levels the driver has were made: "fresh", none; "images",
              \* all by glTexImage*; "storage", by glTexStorage* or a view; "mixed";
              \* "none", no such texture

texVars == <<solid, texRecord, texDriver, texHow>>

\* What a width or depth of s is `by` levels below.
Shifted(s, by) ==
  LET halved[k \in 0 .. by] == IF k = 0 THEN s ELSE halved[k - 1] \div 2
  IN  IF halved[by] = 0 THEN 1 ELSE halved[by]

Halved(size, by) == Extent(Shifted(size.w, by), Shifted(size.d, by))

\* The sizes a program gives a texture, and what an image records of one.
Extents(t) == IF t \in solid THEN Blocks ELSE {Extent(w, 1) : w \in Sizes}
Noted(t, size) == IF t \in solid THEN size ELSE Extent(size.w, 0)

NewRecord == [images |-> [l \in Levels |-> NoLevel], order |-> <<>>,
              levels |-> 0, base |-> NoLevel, immutable |-> FALSE]
NewDriver == [levels |-> [l \in Levels |-> NoLevel], fixed |-> FALSE, bound |-> FALSE]

LevelOrders == UNION {[1 .. n -> Levels] : n \in 0 .. MaxLevel + 1}

AnySize == [w : Nat, d : Nat]

TextureTypeOK ==
  /\ solid \in Solids
  /\ texHow \in [Textures -> {"none", "fresh", "images", "storage", "mixed"}]
  /\ texRecord \in [Textures -> [images : [Levels -> AnySize],
                                 order : LevelOrders,
                                 levels : 0 .. MaxLevel + 1,
                                 base : AnySize, immutable : BOOLEAN]]
  /\ texDriver \in [Textures -> [levels : [Levels -> AnySize],
                                 fixed : BOOLEAN, bound : BOOLEAN]]

TextureInit ==
  /\ solid \in Solids
  /\ texRecord = [t \in Textures |-> NewRecord]
  /\ texDriver = [t \in Textures |-> NewDriver]
  /\ texHow = [t \in Textures |-> "none"]
-----------------------------------------------------------------------------
(* The record, and the questions asked of it. *)

Recorded(t, level) == texRecord[t].images[level] # NoLevel

\* A level is replaced where it stands, or added behind the others; then
\* updateMutableTextureStorage: the base of a texture without level 0 stays.
ImageRecord(rec, level, size) ==
  LET images == [rec.images EXCEPT ![level] = size]
      last   == CHOOSE l \in Levels : /\ images[l] # NoLevel
                                      /\ \A m \in Levels : images[m] # NoLevel => m <= l
  IN [images |-> images, levels |-> last + 1, immutable |-> FALSE,
      order |-> IF rec.images[level] = NoLevel THEN Append(rec.order, level) ELSE rec.order,
      base |-> IF images[0] = NoLevel THEN rec.base ELSE images[0]]

ImmutableRecord(rec, count, base) ==
  [rec EXCEPT !.levels = count, !.base = base, !.immutable = TRUE]

\* What glGetTexLevelParameter answers, NoLevel for INVALID_VALUE.
LevelSize(t, level) ==
  IF level < texRecord[t].levels THEN Halved(texRecord[t].base, level) ELSE NoLevel

\* The checks of an update of the first `size` texels of a level: by target, by
\* name, of compressed data in either form, of a whole level by glClearTexImage.
\* glTexSubImage3D compares no depth, glTextureSubImage3D nothing at all.
TexSubImageAccepts(t, level, size) ==
  Recorded(t, level) /\ size.w <= texRecord[t].images[level].w

TextureSubImageAccepts(t, level, size) ==
  IF texRecord[t].immutable
  THEN t \in solid \/ size.w <= Shifted(texRecord[t].base.w, level)
  ELSE Recorded(t, level)

CompressedSubImageAccepts(t, level) ==
  texRecord[t].immutable \/ Recorded(t, level)

ClearTexImageAccepts(t, level) == level < texRecord[t].levels

\* getTexLevelDims finds the image of a mutable texture by its place in the record,
\* not by its level; a place behind the last has no size and is not compared. The
\* depth of 0 that images of one or two dimensions record is.
CopyImageAccepts(t, level, size) ==
  LET rec == texRecord[t]
      dims == IF rec.immutable THEN Halved(rec.base, level)
              ELSE IF level < Len(rec.order) THEN rec.images[rec.order[level + 1]]
              ELSE size
  IN level < rec.levels /\ size.w <= dims.w /\ size.d <= dims.d
-----------------------------------------------------------------------------
(* The driver.  Every call of GLESBackendTexture but the view binds the texture *)
(* first.                                                                   *)

DriverImage(d, level, size) ==
  [d EXCEPT !.bound = TRUE, !.levels[level] = IF d.fixed THEN @ ELSE size]

\* glTexStorage* wants a size for each level, and fixes the storage.
Reaches(size, by) == 2 ^ by <= size.w \/ 2 ^ by <= size.d
DriverStores(d, count, base) == ~d.fixed /\ Reaches(base, count - 1)
DriverStorage(d, count, base) ==
  IF DriverStores(d, count, base)
  THEN [bound |-> TRUE, fixed |-> TRUE,
        levels |-> [l \in Levels |-> IF l < count THEN Halved(base, l) ELSE NoLevel]]
  ELSE [d EXCEPT !.bound = TRUE]

\* glTextureView wants a name without a target, an origin that is fixed and, of
\* the two, the same dimensions.
DriverViews(t, origin, min) ==
  /\ ~texDriver[t].bound
  /\ texDriver[origin].fixed /\ texDriver[origin].levels[min] # NoLevel
  /\ t \in solid <=> origin \in solid
DriverView(t, origin, min, count) ==
  IF DriverViews(t, origin, min)
  THEN [bound |-> TRUE, fixed |-> TRUE,
        levels |-> [l \in Levels |-> IF l < count /\ min + l \in Levels
                                     THEN texDriver[origin].levels[min + l] ELSE NoLevel]]
  ELSE texDriver[t]

\* A chain of halves below level 0, as far as the model has levels.
DriverMipmap(d) ==
  [d EXCEPT !.bound = TRUE,
            !.levels = IF d.fixed \/ @[0] = NoLevel THEN @
                       ELSE [l \in Levels |->
                               IF l = 0 \/ Reaches(@[0], l) THEN Halved(@[0], l) ELSE @[l]]]
-----------------------------------------------------------------------------
(* The calls. *)

Exists(t) == texHow[t] # "none"

\* The record, the driver's texture and what is known of it after a call.
Becomes(t, rec, d, how) ==
  /\ how = "mixed" => Cardinality({o \in Textures \ {t} : texHow[o] = "mixed"}) < MaxMixed
  /\ texRecord' = [texRecord EXCEPT ![t] = rec]
  /\ texDriver' = [texDriver EXCEPT ![t] = d]
  /\ texHow' = [texHow EXCEPT ![t] = how]
  /\ UNCHANGED solid

CreateTexture(t) == ~Exists(t) /\ Becomes(t, NewRecord, NewDriver, "fresh")

DeleteTexture(t) == Exists(t) /\ Becomes(t, NewRecord, NewDriver, "none")

\* A binding that is flushed, or a parameter.
TexParameter(t) ==
  /\ Exists(t)
  /\ Becomes(t, texRecord[t], [texDriver[t] EXCEPT !.bound = TRUE], texHow[t])

\* The record takes the level whether or not the driver can.
TexImage(t, level, size) ==
  /\ Exists(t)
  /\ Becomes(t, ImageRecord(texRecord[t], level, Noted(t, size)),
             DriverImage(texDriver[t], level, size),
             IF texHow[t] \in {"fresh", "images"} THEN "images" ELSE "mixed")

\* Compressed images keep the record in the same way, in code of their own.
CompressedTexImage(t, level, size) == TexImage(t, level, size)

StoreLevels(t, count, base) ==
  Becomes(t, ImmutableRecord(texRecord[t], count, base),
          DriverStorage(texDriver[t], count, base),
          IF DriverStores(texDriver[t], count, base) THEN "storage" ELSE "mixed")

TexStorage(t, count, base) == Exists(t) /\ StoreLevels(t, count, base)
TextureStorage(t, count, base) == Exists(t) /\ StoreLevels(t, count, base)

\* The record stays, whatever the driver's level becomes; three dimensions have no
\* such call.
CopyTexImage(t, level, size) ==
  /\ Exists(t) /\ t \notin solid
  /\ LET d == DriverImage(texDriver[t], level, size) IN
     Becomes(t, texRecord[t], d,
             IF d.levels = texDriver[t].levels THEN texHow[t] ELSE "mixed")

GenerateMipmap(t) ==
  /\ Exists(t)
  /\ LET d == DriverMipmap(texDriver[t]) IN
     Becomes(t, texRecord[t], d,
             IF d.levels = texDriver[t].levels THEN texHow[t] ELSE "mixed")

MutTextureView(t, origin, min, count) ==
  /\ Exists(t) /\ Exists(origin) /\ t # origin
  /\ texRecord[origin].immutable
  /\ count # 0 /\ min + count <= texRecord[origin].levels
  /\ Becomes(t, ImmutableRecord(texRecord[t], count, texRecord[origin].base),
             DriverView(t, origin, min, count),
             IF texHow[origin] = "storage" /\ DriverViews(t, origin, min)
             THEN "storage" ELSE "mixed")

\* Nothing asks whether the texture that becomes a view is fresh.
TextureView(t, origin, min, count) ==
  /\ Exists(t) /\ Exists(origin) /\ t # origin
  /\ texRecord[origin].immutable
  /\ count # 0 /\ min + count <= texRecord[origin].levels
  /\ Becomes(t, ImmutableRecord(texRecord[t], count, Halved(texRecord[origin].base, min)),
             DriverView(t, origin, min, count),
             IF texHow[origin] = "storage" /\ DriverViews(t, origin, min)
             THEN "storage" ELSE "mixed")

TextureNext ==
  \E t \in Textures :
    \/ CreateTexture(t) \/ DeleteTexture(t) \/ TexParameter(t) \/ GenerateMipmap(t)
    \/ \E level \in Levels, size \in Extents(t) :
         \/ TexImage(t, level, size) \/ CompressedTexImage(t, level, size)
         \/ CopyTexImage(t, level, size)
         \/ TexStorage(t, level + 1, size) \/ TextureStorage(t, level + 1, size)
    \/ \E origin \in Textures, min \in Levels, count \in 0 .. MaxLevel + 1 :
         TextureView(t, origin, min, count)
-----------------------------------------------------------------------------
(* Properties. *)

\* An update that OpenGL allows: the level exists and is large enough.
Wide(t, level, size) ==
  texDriver[t].levels[level] # NoLevel /\ size.w <= texDriver[t].levels[level].w
Allowed(t, level, size) ==
  Wide(t, level, size) /\ size.d <= texDriver[t].levels[level].d

\* glTexImage* was called for the levels 0, 1, ... in this order.
InOrder(order) == \A i \in DOMAIN order : order[i] = i - 1

\* "frontend owns storage dims so glGetTextureLevelParameter* reads [them] without
\* a driver round-trip" (docs/agent-progress.md:2424): as long as the levels of a
\* texture were made in one way, by images or by storage, of views of views too,
\* whose origins may be gone, every update OpenGL allows passes the checks that the
\* code makes against its record; updates by target are refused exactly where the
\* driver's level is missing or too narrow, whatever its depth; copies of storage
\* and of three-dimensional images exactly where OpenGL refuses them; and for
\* storage the levels and sizes reported are the driver's. Updates by target of
\* fixed storage are left out.
RecordServesUpdates ==
  \A t \in Textures, level \in Levels, size \in [w : Sizes, d : Sizes] :
    /\ texHow[t] \in {"images", "storage"} /\ Allowed(t, level, size) =>
         /\ TextureSubImageAccepts(t, level, size)
         /\ CompressedSubImageAccepts(t, level)
         /\ ClearTexImageAccepts(t, level)
    /\ texHow[t] = "images" =>
         /\ TexSubImageAccepts(t, level, size) <=> Wide(t, level, size)
         /\ InOrder(texRecord[t].order) /\ t \in solid =>
              (CopyImageAccepts(t, level, size) <=> Allowed(t, level, size))
    /\ texHow[t] = "storage" =>
         /\ LevelSize(t, level) = texDriver[t].levels[level]
         /\ CopyImageAccepts(t, level, size) <=> Allowed(t, level, size)

TextureSpec == TextureInit /\ [][TextureNext]_texVars
=============================================================================
