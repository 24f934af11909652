\* The destruction of a context and the creation of one with the same handle, whose
\* entry in the registry the destruction erases.
SPECIFICATION Spec
CONSTANTS
  Threads = {t1, t2}
  Handles = {h1, h2}
  Objects = {o1, o2, o3}
  NoContext = noContext
  NoObject = noObject
  Nothing = nothing
  Prompt = {h1}
INVARIANT
  ContextPerHostContext
