---------------------------- MODULE MCImportRows ----------------------------
(* A small instance of ImportRows for TLC. *)
EXTENDS ImportRows

CONSTANTS ka, kb, kc, stranger, cntt, free, gv, ktpm, sv, gvien

\* Five of the ten fields, and words as far apart as real ones are.
MCFields == <<"role", "email", "code", "majorCode", "class">>
MCSynonyms == <<{<<ka, ka, ka, ka>>}, {<<kb, kb, kb, kb>>, <<kb, ka, Filler, kb, ka>>},
                {<<kc, kc, kc>>}, {<<kc, kc, kb, kb>>}, {<<kc, ka, ka, ka>>}>>
MCStandardNames == <<<<ka, ka, ka, ka>>, <<kb, kb, kb, kb>>, <<kc, kc, kc>>,
                     <<kc, kc, kb, kb>>, <<kc, ka, ka, ka>>>>

Code(n) == [year |-> n, number |-> 1]
Code2(n) == [year |-> n, number |-> 2]
MCStudentCodes == {Code(22), Code2(22), Code(23)}
MCEmails == {[local |-> l] : l \in MCStudentCodes \cup {stranger}}
MCClasses == {[khoa |-> 46, suffix |-> "PM", spelling |-> s] : s \in 1..2}
MCRoleNames == [r \in {sv, gvien, Student, Lecturer} |->
                  IF r \in {sv, Student} THEN Student ELSE Lecturer]

\* Sheets for the suggestion: any three of these headers, and no rows.
MCWords == {<<ka, ka, ka, ka>>, <<ka, Filler, ka, ka, ka>>, <<ka, ka, ka, kb>>, <<kb, ka, ka, kb>>,
            <<kb, kb, kb, ka>>, <<kb, kb, kb, kb>>, <<kc, kc, kc>>,
            <<kc, kc, kb, kb>>, <<kc, kc, kc, kb>>, <<kc, ka, ka, ka>>, <<kc>>}
HeaderSheets == {[headers |-> <<u, v, w>>, rows |-> <<>>] :
                   u \in MCWords, v \in MCWords, w \in MCWords}

\* Sheets for the rows: the standard headers, and one of the columns twice.
Line(role, email, code, major, class) == <<role, [local |-> email], code, major, class>>
Lines ==
  {Line(sv, code, code, major, class) : code \in MCStudentCodes, major \in {ktpm, cntt},
     class \in {None, free} \cup MCClasses}
  \cup {Line(gvien, stranger, code, None, None) : code \in {None, gv, Code(22)}}
  \cup {Line(Lecturer, Code(22), gv, None, None), Line(Student, stranger, Code(22), ktpm, None),
        <<None, None, None, None, None>>}
Twice(seq) == [i \in 1..6 |-> IF i = 6 THEN seq[3] ELSE seq[i]]
RowSheets ==
  {[headers |-> MCStandardNames, rows |-> <<u, v>>] : u \in Lines, v \in Lines}
  \cup {[headers |-> Twice(MCStandardNames), rows |-> <<row>>] :
           row \in UNION {{Twice(u)} \cup {[Twice(u) EXCEPT ![6] = c] : c \in {None, Spaces}} :
                             u \in Lines}}
\* Three rows, of which the first may fail and the others still disagree.
ShortLines == {Line(sv, Code(22), Code(22), ktpm, None)}
  \cup {Line(sv, code, code, major, class) :
           code \in MCStudentCodes, major \in {ktpm, cntt, free}, class \in MCClasses}
LongSheets == {[headers |-> MCStandardNames, rows |-> <<u, v, w>>] :
                 u \in ShortLines, v \in ShortLines, w \in ShortLines}
MCSheets == HeaderSheets \cup RowSheets \cup LongSheets
=============================================================================
