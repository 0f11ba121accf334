CONSTANTS
  Students = {s1, s2, s3}
  Topics = {t1}
  Groups = {g1, g2}
  Requests = {r1, r2}
  Size = 2
  Reserved = None
  MaxStudents <- MCMaxStudents
  Proposer <- MCProposer
  Kinds = {"student", "office"}
  StraddleGate = TRUE
  None = None
SPECIFICATION Spec
SYMMETRY Everyone
INVARIANTS SeatsWithinCapacity
