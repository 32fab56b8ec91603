SPECIFICATION Spec
CONSTANTS
  v = v
  w = w
  Key <- MCKey
  Absent = Absent
  Inserts <- MCInserts
  Byte <- MCByte
  Node4 = 2
  Node16 = 3
  Node48 = 4
  Nil = Nil
  Panic = Panic
VIEW MCView
PROPERTY
  ImplementsDictionary
