----------------------------- MODULE FuzzyMatch -----------------------------
(***************************************************************************)
(* The import wizard's guess at which column of a file is which field.      *)
(*                                                                         *)
(* A word is a sequence of letters in lower case; Filler stands for what    *)
(* normalize strips.  A confidence 1 - distance / length is the pair        *)
(* [num, den], compared exactly.  The loop over the sorted candidates is    *)
(* one action for each of them.                                             *)
(***************************************************************************)
EXTENDS Integers, FiniteSets, Sequences, SequencesExt, FiniteSetsExt

CONSTANTS
  Letters, Filler,
  Words,        \* those that may be headers
  Fields,       \* ALL_SYSTEM_FIELDS, a sequence
  Synonyms,     \* Fields' indices to sets of words
  Threshold     \* MATCH_THRESHOLD, in hundredths

ASSUME FuzzyAssumption ==
  /\ Filler \notin Letters
  /\ Words \subseteq Seq(Letters \cup {Filler})
  /\ Len(Fields) \in Nat /\ DOMAIN Fields = 1..Len(Fields)
  /\ Synonyms \in [DOMAIN Fields -> SUBSET Seq(Letters \cup {Filler})]
  /\ \A f \in DOMAIN Fields : Synonyms[f] # {} /\ IsFiniteSet(Synonyms[f])
  /\ Threshold \in 1..100

VARIABLES
  headers,      \* of the file, a sequence of words
  candidates,   \* those the loop has not come to
  suggested     \* result: for each field the index of its column, 0: none

fuzzyVars == <<headers, candidates, suggested>>

Kept(letters, ch) == IF ch = Filler THEN letters ELSE Append(letters, ch)
Normalize(word) ==
  LET kept[n \in 0..Len(word)] == IF n = 0 THEN <<>> ELSE Kept(kept[n - 1], word[n])
  IN kept[Len(word)]

-----------------------------------------------------------------------------
(* The distance of two words, by rows of the usual table.                   *)

\* One more cell of the row after prev, where ch meets letter.
Extended(row, prev, ch, letter) ==
  LET j == Len(row) IN
  Append(row, Min({prev[j + 1] + 1,                          \* deletion
                   row[j] + 1,                               \* insertion
                   IF ch = letter THEN prev[j] ELSE prev[j] + 1}))

NextRow(prev, ch, word) ==
  LET curr[j \in 0..Len(word)] ==
        IF j = 0 THEN <<prev[1] + 1>> ELSE Extended(curr[j - 1], prev, ch, word[j])
  IN curr[Len(word)]

Levenshtein(a, b) ==
  LET row[i \in 0..Len(a)] ==
        IF i = 0 THEN [j \in 1..Len(b) + 1 |-> j - 1] ELSE NextRow(row[i - 1], a[i], b)
  IN IF a = b THEN 0 ELSE Last(row[Len(a)])

-----------------------------------------------------------------------------
(* Confidence.                                                              *)

Better(x, y) == x.num * y.den > y.num * x.den

Confidence(a, b) ==
  LET longest == Max({Len(a), Len(b)}) IN
  IF a = b THEN [num |-> 1, den |-> 1]
  ELSE [num |-> longest - Levenshtein(a, b), den |-> longest]

\* scores[field][hi]: the best of a field's synonyms.
Scores == [field \in DOMAIN Fields |-> [header \in Words |->
  LET all == {Confidence(Normalize(header), Normalize(word)) : word \in Synonyms[field]} IN
  CHOOSE c \in all : \A d \in all : ~Better(d, c)]]

Candidates ==
  {c \in {[field |-> f, column |-> h, score |-> Scores[f][headers[h]]] :
             f \in DOMAIN Fields, h \in DOMAIN headers} :
     100 * c.score.num >= Threshold * c.score.den}

\* The sort is by confidence and keeps fields, then columns, in their order.
Precedes(x, y) ==
  \/ Better(x.score, y.score)
  \/ /\ ~Better(y.score, x.score)
     /\ \/ x.field < y.field
        \/ x.field = y.field /\ x.column < y.column

-----------------------------------------------------------------------------
(* suggestMapping.                                                          *)

FuzzyInit(words) ==
  /\ headers = words
  /\ candidates = Candidates
  /\ suggested = [f \in DOMAIN Fields |-> 0]

\* Mutated form: a column that is taken is suggested again.
FreeIgnoresColumns(c) == suggested[c.field] = 0

Free(c) ==
  /\ suggested[c.field] = 0
  /\ \A f \in DOMAIN Fields : suggested[f] # c.column

Assign ==
  \E c \in candidates :
    /\ \A d \in candidates \ {c} : Precedes(c, d)
    /\ candidates' = candidates \ {c}
    /\ suggested' = IF Free(c) THEN [suggested EXCEPT ![c.field] = c.column]
                    ELSE suggested
    /\ UNCHANGED headers

Suggested == candidates = {}

-----------------------------------------------------------------------------
(* Properties.                                                              *)

FuzzyTypeOK ==
  /\ candidates \subseteq Candidates
  /\ suggested \in [DOMAIN Fields -> 0..Len(headers)]

\* What one insertion, deletion or substitution makes of a word.
OneEdit(word) ==
  {InsertAt(word, i, ch) : i \in 1..Len(word) + 1, ch \in Letters}
    \cup {RemoveAt(word, i) : i \in DOMAIN word}
    \cup {ReplaceAt(word, i, ch) : i \in DOMAIN word, ch \in Letters}

\* Words whose distances to every synonym are those of a shortest way.
Measured ==
  {w \in Words : \A f \in DOMAIN Fields : \A word \in Synonyms[f] :
     LET a == Normalize(w)
         b == Normalize(word) IN
       IF a = b THEN Levenshtein(a, b) = 0
       ELSE Levenshtein(a, b) = 1 + Min({Levenshtein(c, b) : c \in OneEdit(a)})}

\* The table's answer is the least number of single edits from one word to the
\* other (fuzzy-match.util.ts levenshtein): zero for equal words only, and
\* otherwise one more than from the best word one edit away.
DistanceCountsEdits == \A h \in DOMAIN headers : headers[h] \in Measured

\* No field and column are left apart that both would gain from being put
\* together: a candidate is passed over only when its field or its column went
\* to one that comes before it, and no column goes to two fields
\* (fuzzy-match.util.ts suggestMapping, "highest confidence wins").
NoBetterPair ==
  LET all == Candidates
      Before(c) == {d \in all : Precedes(d, c) /\ suggested[d.field] = d.column} IN
  \A c \in all \ candidates :
    (suggested[c.field] = c.column) <=>
      ~\E d \in Before(c) : d.field = c.field \/ d.column = c.column

\* The mapping suggested to the administrator is the greedy one by true
\* distances.
MatchingSound == DistanceCountsEdits /\ NoBetterPair
=============================================================================
