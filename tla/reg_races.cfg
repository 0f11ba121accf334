CONSTANTS
  Students = {s1, s2, s3, s4}
  Topics = {t1}
  Groups = {g1, g2}
  Requests = {r1, r2, r3}
  Size = 2
  Reserved = None
  MaxStudents <- MCMaxStudents
  Proposer <- MCProposer
  Kinds = {"student", "office"}
  StraddleGate = TRUE
  None = None
SPECIFICATION Spec
SYMMETRY Everyone
INVARIANTS OvershootAtMostOne SelfServeWithinCapacity OneLiveGroupPerTopic
