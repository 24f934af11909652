\* Two vertex arrays edited directly and by name, bound, deleted and flushed; an
\* attribute whose initial binding point is not its own.
SPECIFICATION MCSpec
CONSTANTS
  VAOs = {0, 1}
  Attribs = {1}
  Points = {0, 1}
  Sources = {s1}
  NoSource = noSource
  Formats = {f1}
  Divisors = {0}
  Buffers = {b1}
  NoBuffer = noBuffer
  \* Three buffers, or two and a feedback object, at two points of two targets.
  LastName = 3
  LastNumber = 2
  PointCount = 2
  FeedbackObjects = {y1}
  DefaultFeedback = y0
  NoFeedback = nofeedback
  \* Two textures of two levels, of one or two dimensions or of three: views of each other, in turn deleted.
  Textures = {t1, t2}
  MaxLevel = 1
  Sizes = {1, 2}
  Solids <- MCSolids
  Blocks <- MCBlocks
  MaxMixed = 1
INVARIANTS
  MCTypeOK
  IndexedBindingExact
  

  
