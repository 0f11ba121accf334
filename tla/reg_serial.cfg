CONSTANTS
  Students = {s1, s2, s3}
  Topics = {t1, t2}
  Groups = {g1, g2}
  Requests = {r1}
  Size = 2
  Reserved = None
  MaxStudents <- MCMaxStudents
  Proposer <- MCProposer
  Kinds = {"student", "removal", "disband", "settings", "office", "lecturer"}
  StraddleGate = FALSE
  None = None
SPECIFICATION Spec
INVARIANTS TypeOK GroupsWellFormed SettlementComplete ReportAddsUp
PROPERTIES SeatsFollowPhase SeatsRefined
SYMMETRY Everyone
