----------------------------- MODULE ScratchCat -----------------------------
(***************************************************************************)
(* The character loop of _scratchcat (scratch.c): the concatenation of an  *)
(* array of strings, or their path-concatenation, in an area that doubles. *)
(* A character is a slash or any other one; NUL ends the result.           *)
(***************************************************************************)
EXTENDS Naturals, Sequences, SequencesExt

CONSTANTS Inputs,           \* the arrays of strings, without the final NULL
          InitialCapacity   \* INITIAL_SCRATCH_CAPACITY

NUL   == "nul"
Slash == "/"

VARIABLES ispath, strings,  \* the arguments
          todo,     \* the strings not started yet
          instr,    \* what remains of the current one
          c, pc,    \* the characters of the loop
          out,      \* the area, and its capacity
          capacity,
          status

vars == <<ispath, strings, todo, instr, c, pc, out, capacity, status>>

\* Mutant of Push: the last character is not remembered.
PushForgets(ch) ==
    /\ out' = Append(out, ch)
    /\ capacity' = IF Len(out) = capacity THEN 2 * capacity ELSE capacity
    /\ status' = IF ch = NUL THEN "done" ELSE status
    /\ UNCHANGED pc

\* The area is full: realloc doubles it or the call returns NULL.
Push(ch) ==
    \/ /\ out' = Append(out, ch) /\ pc' = ch
       /\ capacity' = IF Len(out) = capacity THEN 2 * capacity ELSE capacity
       /\ status' = IF ch = NUL THEN "done" ELSE status
    \/ /\ Len(out) = capacity
       /\ status' = "null"
       /\ UNCHANGED <<out, pc, capacity>>

\* The array is at its end: c is still NUL and is appended.
Finish ==
    /\ status = "busy" /\ c = NUL /\ todo = <<>>
    /\ Push(NUL)
    /\ UNCHANGED <<ispath, strings, todo, instr, c>>

\* A new string; an empty one is passed over.
SkipEmpty ==
    /\ status = "busy" /\ c = NUL /\ todo # <<>> /\ Head(todo) = <<>>
    /\ todo' = Tail(todo) /\ instr' = <<>>
    /\ UNCHANGED <<ispath, strings, c, pc, out, capacity, status>>

Start ==
    /\ status = "busy" /\ c = NUL /\ todo # <<>> /\ Head(todo) # <<>>
    /\ todo' = Tail(todo)
    /\ LET s == Head(todo)
       IN  \/ \* no slash on either side: one is inserted
              /\ ispath /\ s[1] # Slash /\ pc # Slash
              /\ c' = Slash /\ instr' = s /\ Push(Slash)
           \/ \* a slash on both sides: the second one is dropped
              /\ ispath /\ s[1] = Slash /\ pc = Slash
              /\ c' = Slash /\ instr' = Tail(s)
              /\ UNCHANGED <<pc, out, capacity, status>>
           \/ /\ ispath => (s[1] = Slash) # (pc = Slash)
              /\ c' = s[1] /\ instr' = Tail(s) /\ Push(s[1])
    /\ UNCHANGED <<ispath, strings>>

Continue ==
    /\ status = "busy" /\ c # NUL
    /\ IF instr = <<>>
       THEN c' = NUL /\ UNCHANGED <<instr, pc, out, capacity, status>>
       ELSE c' = Head(instr) /\ instr' = Tail(instr) /\ Push(Head(instr))
    /\ UNCHANGED <<ispath, strings, todo>>

Init ==
    /\ ispath \in BOOLEAN /\ strings \in Inputs
    /\ todo = strings /\ instr = <<>>
    /\ c = NUL /\ pc = "one"
    /\ out = <<>> /\ capacity = InitialCapacity /\ status = "busy"

Next == Finish \/ SkipEmpty \/ Start \/ Continue

Spec == Init /\ [][Next]_vars

-----------------------------------------------------------------------------
\* "path-concatenation is the concatenation taking care of / characters"
\* (tzplatform_config.h:127): one slash between two strings, the strings that
\* are empty aside, and one in front of the first.
Join(acc, s) ==
    IF s = <<>> \/ ~ispath THEN acc \o s
    ELSE IF acc # <<>> /\ Last(acc) = Slash /\ s[1] = Slash THEN acc \o Tail(s)
    ELSE IF (acc = <<>> \/ Last(acc) # Slash) /\ s[1] # Slash THEN acc \o <<Slash>> \o s
    ELSE acc \o s

Expected ==
    LET joined[n \in 0..Len(strings)] ==
            IF n = 0 THEN <<>> ELSE Join(joined[n - 1], strings[n])
    IN  joined[Len(strings)]

\* The loop builds the concatenation of its strings, whatever slashes they begin
\* and end with, and wherever the area grew,
\* and nothing is written past the area (scratch.c:164-213).  Join has the slash
\* in front of the first string, as the code does; see BetweenOnly.
ConcatRight ==
    /\ status = "done" => out = Append(Expected, NUL)
    /\ Len(out) <= capacity

\* "scratchcat( 1, array) will return "hello/ /world/!"" (scratch.h:44), the
\* separator being "inserted between the strings" (scratch.h:30): a path begins as
\* the first string that is not empty.
BetweenOnly ==
    LET given == SelectSeq(strings, LAMBDA s : s # <<>>)
    IN  ispath /\ status = "done" /\ given # <<>> => IsPrefix(Head(given), out)

=============================================================================
