CONSTANTS
  na = na
  nb = nb
  Groups = {g1}
  Items <- MCItems
  Names = {na, nb}
  Dtos <- MCDtos
  Rows <- MCRows
  Writers = {p1, p2}
  SubmissionFiles = {f1, f2}
  Users = {u1}
  Sitters = {q1, q2}
  Pictures = {i1, i2, i3}
  Bare = Bare
  None = None
SPECIFICATION Spec
SYMMETRY Alike
INVARIANTS WorkSound
PROPERTIES StoreImplemented WorkKept
