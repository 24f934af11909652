\* One component moves in each behaviour.
SPECIFICATION MCSpec
CONSTANTS
  v0 = v0
  \* Three fields per face: faces that agree on some fields and not on others.
  Fields = {func, op, writeMask}
  StencilValues = {v0, v1}
  NoStencilDraw = nothing
  InitialStencil <- MCInitialStencil
  \* Three slots, set by the plain, the indexed and the array setters.
  SlotCount = 3
  SlotContents = {v0, v1, v2}
  DefaultSlot = v0
  NoSlotDraw = nothing
  \* Two queries, and a target with two indices.
  QueryNames = {1, 2}
  NoQuery = 0
  Orphan = orphan
  PlainTargets = {"samples"}
  CounterTargets = {"primitives"}
  Occlusion = {"samples"}
  RegionTargets = {"samples", "primitives"}
  Indices = {0, 1}
  Captures = {x1, x2}
  DefaultTF = x0
  \* Two framebuffers and an image, or more images; two attachment points.
  MaxName = 3
  MaxFbos = 2
  MaxNative = 2
  MaxAttachments = 2
  Points = {"color", "depth"}
  Colours = {black}
  DefaultColour = black
  Unset = unset
  \* Two shaders of one stage, one of another.
  Shaders = {s1, s2, s3}
  Programs = {p1}
  VertexShaders = {s1, s2}
  MaxShaders = 2
  MaxAttached = 2
  \* Two draw buffers, or viewports.
  CapIndices = {0, 1}
  NoEntry = none
  \* Three messages of two nested callbacks, a log of one.
  RuleTypes = {"push"}
  DontCare = any
  NoRule = norule
  LogMax = 1
  MaxDepth = 2
  MaxHeard = 3
INVARIANTS
  MCTypeOK
  StencilCoherent
  StaleBackOnlyWhenMerged
  FrontendMatchesGL
  DrawUsesOwnSlotOrSlotZero
  QueryRunsWhereActive
  OneCapture
  NativeFollowsObject
  BoundFramebufferAgrees
  StatusHonest
  CapsDrawn
  EveryMessageOnce
PROPERTIES
  RegionEntered
  LinkBuildsAttached
