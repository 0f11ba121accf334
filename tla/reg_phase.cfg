CONSTANTS
  Students = {s1, s2, s3}
  Topics = {t1, t2}
  Groups = {g1, g2}
  Requests = {r1, r2, r3}
  Size = 2
  Reserved = s1
  MaxStudents <- MCMaxStudents
  Proposer <- MCProposer
  Kinds = {"student", "removal", "office"}
  StraddleGate = FALSE
  None = None
SPECIFICATION Spec
SYMMETRY Everyone
INVARIANTS SeatsWithinCapacity OffersHonest OneTopicPerStudent
