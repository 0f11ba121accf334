CONSTANTS
  ka = ka
  kb = kb
  kc = kc
  stranger = stranger
  cntt = cntt
  free = free
  gv = gv
  ktpm = ktpm
  sv = sv
  gvien = gvien
  Letters = {ka, kb, kc}
  Filler = Filler
  Words <- MCWords
  Fields <- MCFields
  Synonyms <- MCSynonyms
  Threshold = 72
  Sheets <- MCSheets
  StandardNames <- MCStandardNames
  Student = Student
  Lecturer = Lecturer
  RoleNames <- MCRoleNames
  StudentCodes <- MCStudentCodes
  OtherCodes = {gv, free}
  Emails <- MCEmails
  Majors = {ktpm, cntt}
  Classes <- MCClasses
  Year = 2026
  Changes = 1
  Spaces = Spaces
  None = None
SPECIFICATION Spec
CHECK_DEADLOCK FALSE
INVARIANTS MatchingSound RowsSound
