---------------------------- MODULE ToolCommands ----------------------------
(***************************************************************************)
(* The two commands of the toolbox that use a child process: signup sends  *)
(* the names of the variables, through sha256sum.c, to the program         *)
(* sha256sum and reads its answer back; c sends them to gperf, which       *)
(* writes to the output of the toolbox.  Pipes of bounded size join the    *)
(* two processes.  The sum of a text, or its hash code, is the text itself.*)
(***************************************************************************)
EXTENDS Integers, Sequences

CONSTANTS Texts,        \* Texts[c]: what command c sends, names and terms
          PipeSize,     \* what a pipe holds
          NULL

VARIABLES
    command,            \* signup or c
    pc, status,         \* the toolbox, and its exit status
    state, tofd, fromfd, sum,   \* struct sha256sum: state, open ends, result
    sent,               \* how much of the text was written
    result,             \* what the command returns to process(), NULL before
    child,              \* forked, running, exited, failed, or reaped
    heldEnd,            \* the child still holds the writing end of its input
    input, hashed,      \* the pipe to the child and what it read
    output,             \* what the child wrote
    ignored,            \* SIGPIPE is ignored (as inherited by the toolbox)
    printed             \* what went to the output of the toolbox, or NULL

sha256sum == <<state, tofd, fromfd, sum>>
childVars == <<child, heldEnd, input, hashed, output>>
vars == <<command, pc, status, sha256sum, sent, result, childVars, ignored, printed>>

Text == Texts[command]
Ended == child \in {"exited", "failed"}
Unsent == pc = "add" /\ sent < Len(Text)

Return(r) == result' = r /\ pc' = "return"

-----------------------------------------------------------------------------
(* The toolbox.                                                              *)

Fork ==
    /\ child' = "forked" /\ heldEnd' = TRUE
    /\ tofd' = TRUE
    /\ pc' = "add"
    /\ UNCHANGED <<status, result>>

\* sha256sum_create: pipes, fork; any failure returns NULL.
Create ==
    /\ pc = "create" /\ command = "signup"
    /\ \/ Fork /\ state' = "RUNNING" /\ fromfd' = TRUE
       \/ Return(-1) /\ UNCHANGED <<status, child, heldEnd, state, tofd, fromfd>>
    /\ UNCHANGED <<command, sum, sent, input, hashed, output, ignored, printed>>

\* genc: without a pipe it returns, without a child it is fatal.
CreateGperf ==
    /\ pc = "create" /\ command = "c"
    /\ \/ Fork
       \/ Return(-1) /\ UNCHANGED <<status, child, heldEnd, tofd>>
       \/ /\ pc' = "exit" /\ status' = 1
          /\ UNCHANGED <<result, child, heldEnd, tofd>>
    /\ UNCHANGED <<command, state, fromfd, sum, sent, input, hashed, output, ignored,
                   printed>>

\* Mutant of Write: a partial write counts for a whole one.
WriteOnce ==
    /\ Unsent /\ ~Ended /\ Len(input) < PipeSize
    /\ \E n \in 1..PipeSize - Len(input) :
          /\ sent + n <= Len(Text)
          /\ input' = input \o SubSeq(Text, sent + 1, sent + n)
    /\ sent' = Len(Text)
    /\ UNCHANGED <<command, pc, status, sha256sum, result, child, heldEnd, hashed,
                   output, ignored, printed>>

\* A write blocks when the pipe is full and takes what there is room for;
\* sha256sum_add_data writes the rest again, genc's writes wait for it.
Write ==
    /\ Unsent /\ ~Ended /\ Len(input) < PipeSize
    /\ \E n \in 1..PipeSize - Len(input) :
          /\ sent + n <= Len(Text)
          /\ input' = input \o SubSeq(Text, sent + 1, sent + n)
          /\ sent' = sent + n
    /\ UNCHANGED <<command, pc, status, sha256sum, result, child, heldEnd, hashed,
                   output, ignored, printed>>

\* A write to a child that is gone fails, unless the signal kills first.
Killed ==
    /\ Unsent /\ Ended /\ ~ignored
    /\ pc' = "killed"
    /\ UNCHANGED <<command, status, sha256sum, sent, result, childVars, ignored,
                   printed>>

WriteFails ==
    /\ Unsent /\ Ended /\ ignored /\ command = "signup"
    /\ state' = "FAILED"
    /\ tofd' = FALSE /\ fromfd' = FALSE
    /\ child' = "reaped"
    /\ Return(-1)
    /\ UNCHANGED <<command, status, sum, sent, heldEnd, input, hashed, output, ignored,
                   printed>>

\* genc notes it and goes on with the next name.
WriteSkips ==
    /\ Unsent /\ Ended /\ ignored /\ command = "c"
    /\ sent' = sent + 1
    /\ result' = -1
    /\ UNCHANGED <<command, pc, status, sha256sum, childVars, ignored, printed>>

\* Mutant of CloseInput: the child is waited for with its input still open.
KeepInput ==
    /\ pc = "add" /\ sent = Len(Text)
    /\ state' = IF command = "signup" THEN "FAILED" ELSE state
    /\ pc' = "wait"
    /\ UNCHANGED <<command, status, tofd, fromfd, sum, sent, result, childVars, ignored,
                   printed>>

\* sha256sum_get and genc: the input is closed, then the child is waited for.
CloseInput ==
    /\ pc = "add" /\ sent = Len(Text)
    /\ state' = IF command = "signup" THEN "FAILED" ELSE state
    /\ tofd' = FALSE
    /\ pc' = "wait"
    /\ UNCHANGED <<command, status, fromfd, sum, sent, result, childVars, ignored,
                   printed>>

\* Then what it wrote is read: 64 digits and a space, or it failed.
Wait ==
    /\ pc = "wait" /\ Ended /\ command = "signup"
    /\ child' = "reaped"
    /\ fromfd' = FALSE
    /\ IF child = "exited" /\ output # NULL
       THEN state' = "SUCCESSED" /\ sum' = output /\ pc' = "print" /\ UNCHANGED result
       ELSE Return(-1) /\ UNCHANGED <<state, sum>>
    /\ UNCHANGED <<command, status, tofd, sent, heldEnd, input, hashed, output, ignored,
                   printed>>

\* The wait status takes the place of what the writes returned.
WaitGperf ==
    /\ pc = "wait" /\ Ended /\ command = "c"
    /\ child' = "reaped"
    /\ Return(IF child = "exited" THEN 0 ELSE -1)
    /\ UNCHANGED <<command, status, sha256sum, sent, heldEnd, input, hashed, output,
                   ignored, printed>>

\* The data are printed only once the sum is there; printing may fail.
Emit ==
    /\ pc = "print"
    /\ \/ printed' = sum /\ Return(0)
       \/ Return(-1) /\ UNCHANGED printed
    /\ UNCHANGED <<command, status, sha256sum, sent, childVars, ignored>>

\* process() does not look at what the command returned.
Exit ==
    /\ pc = "return"
    /\ status' = 0
    /\ pc' = "exit"
    /\ UNCHANGED <<command, sha256sum, sent, result, childVars, ignored, printed>>

-----------------------------------------------------------------------------
(* The child.                                                                *)

\* After the fork: the ends of the pipes it got are closed, before the exec,
\* which may fail.
CloseEnds ==
    /\ child = "forked" /\ heldEnd
    /\ heldEnd' = FALSE
    /\ UNCHANGED <<command, pc, status, sha256sum, sent, result, child, input, hashed,
                   output, ignored, printed>>

Exec ==
    /\ child = "forked" /\ ~heldEnd
    /\ child' \in {"running", "failed"}
    /\ UNCHANGED <<command, pc, status, sha256sum, sent, result, heldEnd, input, hashed,
                   output, ignored, printed>>

\* The programs sha256sum and gperf read to the end of their input, and print.
Read ==
    /\ child = "running" /\ input # <<>>
    /\ hashed' = Append(hashed, Head(input))
    /\ input' = Tail(input)
    /\ UNCHANGED <<command, pc, status, sha256sum, sent, result, child, heldEnd, output,
                   ignored, printed>>

Finish ==
    /\ child = "running" /\ input = <<>> /\ ~tofd /\ ~heldEnd
    /\ \/ /\ child' = "exited"
          /\ IF command = "c" THEN output' = hashed /\ printed' = hashed
                              ELSE output' \in {hashed, NULL} /\ UNCHANGED printed
       \/ child' = "failed" /\ UNCHANGED <<output, printed>>
    /\ UNCHANGED <<command, pc, status, sha256sum, sent, result, heldEnd, input, hashed,
                   ignored>>

\* They may die before, whatever they read.
Die ==
    /\ child = "running"
    /\ child' = "failed"
    /\ UNCHANGED <<command, pc, status, sha256sum, sent, result, heldEnd, input, hashed,
                   output, ignored, printed>>

-----------------------------------------------------------------------------
Init ==
    /\ command \in DOMAIN Texts
    /\ pc = "create" /\ status = NULL /\ result = NULL
    /\ state = NULL /\ tofd = FALSE /\ fromfd = FALSE /\ sum = NULL
    /\ sent = 0
    /\ child = "none" /\ heldEnd = FALSE /\ input = <<>> /\ hashed = <<>>
    /\ output = NULL
    /\ ignored \in BOOLEAN
    /\ printed = NULL

Toolbox == \/ Create \/ CreateGperf \/ Write \/ Killed \/ WriteFails \/ WriteSkips
           \/ CloseInput \/ Wait \/ WaitGperf \/ Emit \/ Exit
Child == CloseEnds \/ Exec \/ Read \/ Finish

Next == Toolbox \/ Child \/ Die

Spec == Init /\ [][Next]_vars

-----------------------------------------------------------------------------
(* Properties                                                                *)

\* What is printed is made of all the names, in order, and a command that
\* returns 0 printed it, whatever the sizes of the writes and the way the child
\* ends (sha256sum.c:118-224, toolbox.c:630-655).
OutputOfAllNames ==
    /\ printed # NULL => printed = Text
    /\ result = 0 => printed # NULL
=============================================================================
