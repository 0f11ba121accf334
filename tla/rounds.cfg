SPECIFICATION FairSpec
CONSTANTS
  a1 = a1
  a2 = a2
  Callers = {a1, a2}
  Viewers = {a2}
  Starts = {2}
  Ends = {3, 4}
  DayTicks = 2
  OffsetTicks = 1
  Horizon = 5
  Nobody = Nobody
INVARIANTS TypeOK SealedByAuthor AuditTellsPhase
PROPERTIES LifecycleRefined AuthorNotOverwritten GateEventuallyCloses
