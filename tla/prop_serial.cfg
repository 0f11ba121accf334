CONSTANTS
  Students = {s1, s2}
  Lecturers = {l1}
  Proposals = {p1, p2}
  Topics = {t1, t2}
  Rounds = {k1, k2}
  Requests = {r1}
  Interleave = FALSE
  Ceiling = 1
  Quota <- MCQuota
  None = None
SPECIFICATION Spec
SYMMETRY Everyone
INVARIANTS TypeOK OnePendingPerStudent UnderwayOnlyWhenFinal
PROPERTY QuotaRespected
