\* One shader, one program.
SPECIFICATION SPSpec
CONSTANTS
  Shaders = {s1}
  Programs = {p1}
  VertexShaders = {s1}
  MaxShaders = 1
  MaxAttached = 1
INVARIANTS
  LinkRejectsUncompiled
