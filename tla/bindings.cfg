\* Two units and two targets with two textures: flushes against unit switches,
\* direct binds, also of names that do not exist, multi-binds, deletion and uploads.
\* Programs created, linked, relinked without success, used, written to, deleted
\* and their handles used again.
SPECIFICATION MCSpec
CONSTANTS
  a = a
  b = b
  twoD = twoD
  cube = cube
  N = 2
  Targets = {twoD, cube}
  TwoD = twoD
  Textures = {a, b}
  TargetOf <- MCTargetOf
  Zero = zero
  Stray = stray
  Absent = absent
  MaxName = 4
  MaxHandle = 2
  Nothing = nothing
SYMMETRY MCSymmetry
INVARIANTS
  MCTypeOK
  DirtySound
  CacheCoherent
  UniformReachesItsProgram
  FlushedDrawExact
PROPERTIES
  FlushExactIfSynchronized
  DanglesOnlyIfBound
