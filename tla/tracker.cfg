\* A register of every shape: two maps, an array, two names, a snapshot; two sampler
\* units, for multi-binds and for a sampler that several units hold, and two samplers,
\* so that one can be replaced by the other and deleted before the flush.
SPECIFICATION MCSpec
CONSTANTS
  v0 = v0
  v1 = v1
  Dither = dither
  Caps = {dither}
  HintTargets = {fog}
  SamplerUnits = {s0, s1}
  Snapshots = {depth}
  Values = {v0, v1}
  Samplers = {a, b}
  a = a
  b = b
  None = v0
  Absent = absent
  Nothing = nothing
  Initial <- MCInitial
  \* Two image units, two textures and two ways to bind each: units bound one by one and
  \* together, textures replaced, bound another way and deleted around flushes.
  NumUnits = 2
  Images = {x, y}
  NoImage = none
  Ways = {whole, layer}
  Default = whole
  Undrawn = undrawn
SYMMETRY MCSymmetry
INVARIANTS
  MCTypeOK
  Coherent
  DirtySound
  NoRedundantPush
  
PROPERTY
  DrawsExact
