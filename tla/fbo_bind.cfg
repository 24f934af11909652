\* Two framebuffers, whose driver numbers are also names of others.
SPECIFICATION FBSpec
CONSTANTS
  MaxName = 3
  MaxFbos = 2
  MaxNative = 2
  MaxAttachments = 2
  Points = {"color"}
  Colours = {black}
  DefaultColour = black
  Unset = unset
INVARIANTS
  BindReachesDriver
