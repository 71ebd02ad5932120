------------------------------ MODULE CodeEdit ------------------------------
(***************************************************************************)
(* The edits of internal/codeedit on the text of one file.  A text is a    *)
(* sequence of tokens: words, blanks and line ends.  The editor writes     *)
(* whole files; an error leaves the file as it is.                         *)
(***************************************************************************)
EXTENDS Integers, Sequences, SequencesExt

CONSTANTS Blank, LineEnd

Error == <<"error">>

\* The text at a place, and the text with n tokens there replaced.
HasAt(text, old, i) ==
  i + Len(old) - 1 <= Len(text) /\ SubSeq(text, i, i + Len(old) - 1) = old

ReplaceToken(text, i, n, new) ==
  SubSeq(text, 1, i - 1) \o new \o SubSeq(text, i + n, Len(text))

AddOffset(found, text, old, i) ==
  IF HasAt(text, old, i) /\ (found = <<>> \/ Last(found) + Len(old) <= i)
  THEN Append(found, i) ELSE found

\* findAllOffsets: from left to right, each after the end of the one before.
FindAllOffsets(text, old) ==
  LET found[i \in 0..Len(text)] ==
        IF i = 0 THEN <<>> ELSE AddOffset(found[i-1], text, old, i)
  IN  found[Len(text)]

EndsLine(text) == text # <<>> /\ Last(text) = LineEnd

AddToken(lines, token) ==
  IF token = LineEnd THEN Append(lines, <<>>)
  ELSE [lines EXCEPT ![Len(lines)] = Append(@, token)]

\* strings.Split
SplitAt(text) ==
  LET lines[i \in 0..Len(text)] ==
        IF i = 0 THEN <<<<>>>> ELSE AddToken(lines[i-1], text[i])
  IN  lines[Len(text)]

\* A last line end ends the last line and begins none.
SplitLines(text) ==
  IF text = <<>> THEN <<>>
  ELSE SplitAt(IF EndsLine(text) THEN Front(text) ELSE text)

AddLine(text, i, line) == IF i = 1 THEN line ELSE Append(text, LineEnd) \o line

\* strings.Join
Join(lines) ==
  LET joined[i \in 0..Len(lines)] ==
        IF i = 0 THEN <<>> ELSE AddLine(joined[i-1], i, lines[i])
  IN  joined[Len(lines)]

\* Mutant: every line gets its line end.
JoinAll(lines, trailing) ==
  FlattenSeq([i \in DOMAIN lines |-> Append(lines[i], LineEnd)])

JoinLines(lines, trailing) ==
  IF trailing THEN Append(Join(lines), LineEnd) ELSE Join(lines)

Trim(line) ==
  LET words == {i \in DOMAIN line : line[i] # Blank}
  IN  IF words = {} THEN <<>>
      ELSE SubSeq(line, CHOOSE i \in words : \A j \in words : i <= j,
                        CHOOSE i \in words : \A j \in words : i >= j)

TrimAll(lines) == [i \in DOMAIN lines |-> Trim(lines[i])]

\* findWhitespaceDriftMatches: where the lines agree but for their indents.
DriftMatches(lines, old) ==
  {i \in 1..Len(lines) - Len(old) + 1 :
     TrimAll(SubSeq(lines, i, i + Len(old) - 1)) = TrimAll(old)}

\* Replace with one match asked for, as code_edit does.
ReplaceIn(text, old, new) ==
  LET offsets == FindAllOffsets(text, old)
      lines   == SplitLines(text)
      olds    == SplitLines(old)
      matches == DriftMatches(lines, olds)
  IN  IF old = <<>> THEN Error
      ELSE IF Len(offsets) = 1 THEN ReplaceToken(text, offsets[1], Len(old), new)
      ELSE IF Len(offsets) > 1 THEN Error
      ELSE IF \E i \in matches : matches = {i}
        THEN LET i == CHOOSE i \in matches : TRUE
             IN  JoinLines(ReplaceToken(lines, i, Len(olds), SplitLines(new)),
                           EndsLine(text))
      ELSE Error

\* Insert: a line number beyond the last appends.
InsertPlace(lines, line) == IF line > Len(lines) THEN Len(lines) ELSE line

InsertIn(text, line, new) ==
  LET lines == SplitLines(text)
      at    == InsertPlace(lines, line)
  IN  IF line < 0 THEN Error
      ELSE JoinLines(SubSeq(lines, 1, at) \o <<new>> \o SubSeq(lines, at + 1, Len(lines)),
                     EndsLine(text))

\* Read: the lines after an offset, as many as asked for, 0 for all.
ReadLines(text, offset, limit) ==
  LET lines == SplitLines(text)
      from  == IF offset < 0 THEN 0 ELSE offset
      to    == IF limit > 0 /\ from + limit < Len(lines) THEN from + limit
               ELSE Len(lines)
  IN  SubSeq(lines, from + 1, to)

-----------------------------------------------------------------------------
\* A str_replace that succeeds changes one place and nothing else: the text
\* before and after it is what it was, to the blank and the last line end.  It
\* is the only place with the old text, others that overlap it apart; when no
\* place has it to the blank, it is the only run of whole lines that has it but
\* for blanks (Replace: "exact match first, falling back to a per-line
\* whitespace-insensitive match").  An empty last line that is left without a
\* line end of its own is no line to the next reader.
OnePlaceChanges(text, old, new) ==
  LET result == ReplaceIn(text, old, new)
      places == {i \in 1..Len(text) : HasAt(text, old, i)}
      lines  == SplitLines(text)
      n      == Len(SplitLines(old))
  IN  result # Error =>
        IF places # {}
        THEN \E i \in places :
               /\ result = ReplaceToken(text, i, Len(old), new)
               /\ \A j \in places : i <= j /\ j < i + Len(old)
        ELSE \E i \in DriftMatches(lines, SplitLines(old)) :
               LET changed == ReplaceToken(lines, i, n, SplitLines(new))
               IN  /\ DriftMatches(lines, SplitLines(old)) = {i}
                   /\ changed # <<>> /\ (EndsLine(text) \/ Last(changed) # <<>>)
                        => SplitLines(result) = changed
                   /\ EndsLine(text) => EndsLine(result)

\* An inserted line can be read back where it was put, between the lines there
\* were, and a file keeps its last line end (Insert, Read); but an empty one
\* that is the last, without a line end of its own, is no line.
InsertReadsBack(text, line, new) ==
  LET result == InsertIn(text, line, new)
      lines  == SplitLines(text)
      at     == InsertPlace(lines, line)
  IN  line >= 0 /\ (new # <<>> \/ EndsLine(text) \/ line < Len(lines)) =>
        /\ ReadLines(result, at, 1) = <<new>>
        /\ at = 0 \/ ReadLines(result, 0, at) = ReadLines(text, 0, at)
        /\ ReadLines(result, at + 1, 0) = ReadLines(text, at, 0)
        /\ EndsLine(text) => EndsLine(result)
=============================================================================
