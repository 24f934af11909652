\* Two threads: creations, destructions (also of current contexts), activations
\* and gl* calls interleave between the host's step and the shim's. One of the two
\* handles may be given out again while a call that destroyed it is under way.
SPECIFICATION FairSpec
CONSTANTS
  Threads = {t1, t2}
  Handles = {h1, h2}
  Objects = {o1, o2, o3}
  NoContext = noContext
  NoObject = noObject
  Nothing = nothing
  Prompt = {h1}
INVARIANTS
  TypeOK
  
  
  

  
