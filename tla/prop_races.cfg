CONSTANTS
  Students = {s1, s2}
  Lecturers = {l1}
  Proposals = {p1, p2}
  Topics = {t1, t2}
  Rounds = {k1}
  Requests = {r1, r2}
  Interleave = TRUE
  Ceiling = 1
  Quota <- MCQuota
  None = None
SPECIFICATION Spec
SYMMETRY Everyone
INVARIANT SourceAnswered
PROPERTIES AnswersStand RegisteredTopicStays
