\* One buffer of three cells or two of one cell, bound to one target, on a driver
\* with the named entry points and on one without; the buffers are symmetric.
SPECIFICATION Spec
CONSTANTS
  Buffers = {b1, b2}
  Targets = {array}
  NoBuffer = noBuffer
  MaxSize = 3
  Plans <- MCPlans
SYMMETRY MCSymmetry
INVARIANT
  TypeOK
  DriverCopyFaithful
  MappingsAgree
  PointerInStore
