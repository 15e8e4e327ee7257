------------------------------ MODULE LineInfo ------------------------------
(***************************************************************************)
(* parse_utf8_info of parser.c, which both readers of the configuration    *)
(* call for the place that an error message names: one step per character. *)
(* A character is the first byte of one, a byte that continues one, or an  *)
(* end of line.                                                            *)
(***************************************************************************)
EXTENDS Naturals, Sequences, FiniteSets

CONSTANT MaxBytes   \* bound: the length of the file

VARIABLES bytes, pos,           \* the file, from 1, and the place, from 0
          begin, end,           \* offsets
          lino, colno,
          phase

vars == <<bytes, pos, begin, end, lino, colno, phase>>

Eol(i) == bytes[i + 1] = "eol"

\* A place past the end is the end.
Clip ==
    /\ phase = "clip"
    /\ pos' = IF Len(bytes) < pos THEN Len(bytes) ELSE pos
    /\ phase' = "begin"
    /\ UNCHANGED <<bytes, begin, end, lino, colno>>

\* Mutant of Advance: every byte counts for a column.
AdvanceBytes ==
    /\ phase = "begin" /\ end # pos
    /\ end' = end + 1
    /\ IF Eol(end) THEN begin' = end + 1 /\ lino' = lino + 1 /\ colno' = 1
                   ELSE colno' = colno + 1 /\ UNCHANGED <<begin, lino>>
    /\ UNCHANGED <<bytes, pos, phase>>

Advance ==
    /\ phase = "begin" /\ end # pos
    /\ end' = end + 1
    /\ IF Eol(end)
       THEN begin' = end + 1 /\ lino' = lino + 1 /\ colno' = 1
       ELSE /\ colno' = IF bytes[end + 1] = "more" THEN colno ELSE colno + 1
            /\ UNCHANGED <<begin, lino>>
    /\ UNCHANGED <<bytes, pos, phase>>

ToTheEnd ==
    /\ phase = "begin" /\ end = pos
    /\ phase' = "end"
    /\ UNCHANGED <<bytes, pos, begin, end, lino, colno>>

EndOfLine ==
    /\ phase = "end"
    /\ IF end < Len(bytes) /\ ~Eol(end) THEN end' = end + 1 /\ UNCHANGED phase
                                        ELSE phase' = "done" /\ UNCHANGED end
    /\ UNCHANGED <<bytes, pos, begin, lino, colno>>

Init ==
    /\ \E n \in 0..MaxBytes : bytes \in [1..n -> {"first", "more", "eol"}]
    /\ pos \in 0..MaxBytes + 1
    /\ begin = 0 /\ end = 0 /\ lino = 1 /\ colno = 1
    /\ phase = "clip"

Next == Clip \/ Advance \/ ToTheEnd \/ EndOfLine

Spec == Init /\ [][Next]_vars

-----------------------------------------------------------------------------
\* The characters of the line shown, each by its first byte.
Heads == {i \in begin..end - 1 : bytes[i + 1] = "first"}

\* The message shows the whole line of the error and its number; the column is n
\* when the place is the beginning of the n-th character of that line, and one more
\* than its characters when the place is the end of the line, the last line
\* without an end included (parser.c:279).  Nothing is said of a place inside a
\* character of several bytes: the code counts that character as passed and gives
\* the column of the next one.
InfoRight ==
    phase = "done" =>
        /\ begin <= pos /\ pos <= end
        /\ begin = 0 \/ Eol(begin - 1)
        /\ end = Len(bytes) \/ Eol(end)
        /\ \A i \in begin..end - 1 : ~Eol(i)
        /\ lino = 1 + Cardinality({i \in 0..pos - 1 : Eol(i)})
        /\ pos \in Heads => colno = Cardinality({i \in Heads : i <= pos})
        /\ pos = end => colno = 1 + Cardinality(Heads)
=============================================================================
