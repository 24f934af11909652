\* The instance of buffers.cfg: what unmapBuffer's comment says of the writes made
\* through a mapped pointer is refuted.
SPECIFICATION Spec
CONSTANTS
  Buffers = {b1, b2}
  Targets = {array}
  NoBuffer = noBuffer
  MaxSize = 3
  Plans <- MCPlans
SYMMETRY MCSymmetry
INVARIANT
  UnmapDelivers
