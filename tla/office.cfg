CONSTANTS
  RowIds <- MCRowIds
  Codes = {x1, x2}
  Clerks = {c1, c2}
  Days <- MCDays
  Spans <- MCSpans
  Payloads <- MCPayloads
  Deadlines = {closing}
  Ends = {closing}
  Readers = {s1, s2}
  LeadDays = 3
  LastDay = 4
  MaxMoves = 1
  None = None
SPECIFICATION Spec
SYMMETRY Alike
INVARIANTS TablesSound Reminded
PROPERTY TablesKept
