\* One framebuffer and two clear values.
SPECIFICATION FBSpec
CONSTANTS
  MaxName = 2
  MaxFbos = 1
  MaxNative = 2
  MaxAttachments = 1
  Points = {"color"}
  Colours = {black, red}
  DefaultColour = black
  Unset = unset
INVARIANTS
  ClearsWithCurrentValue
