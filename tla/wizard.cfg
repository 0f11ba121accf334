CONSTANTS
  Ids <- MCIds
  e1 = e1
  e2 = e2
  c1 = c1
  c2 = c2
  Emails = {e1, e2}
  Codes = {c1, c2}
  Roles = {"STUDENT", "LECTURER"}
  Requests = {q1}
  Jobs = {j1, j2}
  Senders <- MCSenders
  Sessions <- MCSessions
  MaxSessions = 1
  Admins = {a1}
  Files <- MCFiles
  MaxInFlight = 2
  None = None
SPECIFICATION Spec
SYMMETRY Alike
INVARIANTS AccountsSound SessionsCapped NobodyForgotten
