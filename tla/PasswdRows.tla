----------------------------- MODULE PasswdRows -----------------------------
(***************************************************************************)
(* rdpw of passwd.c, field by field, over the text of the passwd file: the *)
(* callers read row after row until it returns 0.  A character is a field  *)
(* separator, an end of line or any other one.                             *)
(***************************************************************************)
EXTENDS Naturals, Sequences, SequencesExt

CONSTANTS Fields,   \* the fields of a row, 7 in the source
          MaxText   \* bound: length of the text

Chars == {":", "eol", "x"}

VARIABLES text,     \* the buffer, from 1 to its length
          head,     \* index of the next character
          col,      \* the fields of the current row already recorded
          starts, lengths,
          rows      \* the rows returned so far, each a sequence of fields

vars == <<text, head, col, starts, lengths, rows>>

AtEnd(i) == i = Len(text) + 1
Is(i, c) == i \in DOMAIN text /\ text[i] = c

\* Mutant of Find: an end of line does not end a field.
FindAcrossLines(i, S) ==
    LET found == {j \in i..Len(text) : text[j] \in S \ {"eol"}}
    IN  IF found = {} THEN Len(text) + 1 ELSE CHOOSE j \in found : \A k \in found : j <= k

\* The index of the first character from i on that is in S, or the end.
Find(i, S) ==
    LET found == {j \in i..Len(text) : text[j] \in S}
    IN  IF found = {} THEN Len(text) + 1 ELSE CHOOSE j \in found : \A k \in found : j <= k

\* One turn of the loop: a field is recorded, then either it ends a row, or the
\* row has too many fields and the line is skipped, or a short line is dropped.
Field ==
    /\ ~AtEnd(head)
    /\ LET stop == Find(head, {":", "eol"})
           after == IF AtEnd(stop) THEN stop ELSE stop + 1
           s == [starts EXCEPT ![col + 1] = head]
           l == [lengths EXCEPT ![col + 1] = stop - head]
           eol == Find(stop, {"eol"})
       IN  /\ starts' = s /\ lengths' = l
           /\ \/ /\ col + 1 = Fields /\ ~Is(stop, ":")
                 /\ rows' = Append(rows, [i \in 1..Fields |->
                                SubSeq(text, s[i], s[i] + l[i] - 1)])
                 /\ head' = after /\ col' = 0
              \/ /\ col + 1 = Fields /\ Is(stop, ":")
                 /\ head' = IF AtEnd(eol) THEN eol ELSE eol + 1
                 /\ col' = 0 /\ UNCHANGED rows
              \/ /\ col + 1 < Fields
                 /\ head' = after
                 /\ col' = IF Is(stop, "eol") THEN 0 ELSE col + 1
                 /\ UNCHANGED rows
    /\ UNCHANGED text

Init ==
    /\ \E n \in 0..MaxText : text \in [1..n -> Chars]
    /\ head = 1 /\ col = 0 /\ rows = <<>>
    /\ starts = [i \in 1..Fields |-> 0] /\ lengths = [i \in 1..Fields |-> 0]

Next == Field

Spec == Init /\ [][Next]_vars

-----------------------------------------------------------------------------
\* The pieces of s between the occurrences of c.
Cut(pieces, ch, c) == IF ch = c THEN Append(pieces, <<>>)
                      ELSE [pieces EXCEPT ![Len(pieces)] = Append(@, ch)]

Split(s, c) ==
    LET split[n \in 0..Len(s)] ==
            IF n = 0 THEN << <<>> >> ELSE Cut(split[n - 1], s[n], c)
    IN  split[Len(s)]

\* passwd(5): a line is a row when it has the wanted number of fields.  The one
\* line rdpw does not see is a last one that has no end of line and whose last
\* field, the shell, is empty: the buffer ends before it is recorded
\* (passwd.c:71).
RowOf(line, isLast) ==
    LET fields == Split(line, ":")
    IN  IF Len(fields) = Fields /\ (isLast => Last(fields) # <<>>) THEN <<fields>> ELSE <<>>

RowsOf ==
    LET lines == Split(text, "eol")
    IN  FlattenSeq([n \in DOMAIN lines |-> RowOf(lines[n], n = Len(lines))])

\* Whatever the text, the callers see the rows of the file, in order: a short
\* or a long line never shifts the fields of the next one.
RowsRight == AtEnd(head) => rows = RowsOf
=============================================================================
