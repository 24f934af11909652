\* Expected violation: binding a vertex array is not pushed to the driver.
SPECIFICATION Spec
CONSTANTS
  VAOs = {0, 1}
  Attribs = {0}
  Points = {0}
  Sources = {s1}
  NoSource = noSource
  Formats = {f1}
  Divisors = {0}
  Buffers = {}
  NoBuffer = noBuffer
INVARIANT
  DrawExact
