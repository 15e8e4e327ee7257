------------------------------- MODULE Buffer -------------------------------
(***************************************************************************)
(* buffer.c: a whole file in memory, mapped, or read in pieces where it    *)
(* cannot be mapped (an empty file, a pipe).  Meanwhile another process    *)
(* may add to the file, or put a new one in its place.                     *)
(***************************************************************************)
EXTENDS Integers, Sequences

CONSTANTS Size,         \* what buffread asks for at a time, 4096 in the source
          MaxLength,    \* bound: the length of a file
          NULL

VARIABLES path,         \* the content of the file at the path, NULL for none
          file,         \* the content of the file behind fd, NULL when closed
          replaced,     \* the path does not lead to this file any more
          was,          \* history: what the open file contained, at every moment
          pc,
          size,         \* what fstat gave
          memory,       \* what was read, NULL when nothing is allocated
          room,         \* and the size of the allocation
          offset,       \* of fd
          buffer,       \* the result: mapped or read, or NULL
          result

vars == <<path, file, replaced, was, pc, size, memory, room, offset, buffer, result>>

Contents == UNION {[1..n -> {"o"}] \cup [1..n -> {"n"}] : n \in 0..MaxLength}
Least(a, b) == IF a < b THEN a ELSE b

Return(r) == pc' = "done" /\ result' = r /\ file' = NULL

Open ==
    /\ pc = "open"
    /\ \/ /\ path # NULL
          /\ file' = path /\ was' = {path} /\ pc' = "stat"
          /\ UNCHANGED result
       \/ Return(-1) /\ UNCHANGED was
    /\ UNCHANGED <<path, replaced, size, memory, room, offset, buffer>>

\* It fails also for a size that no size_t holds.
Fstat ==
    /\ pc = "stat"
    /\ \/ size' = Len(file) /\ pc' = "map" /\ UNCHANGED <<file, result>>
       \/ Return(-1) /\ UNCHANGED size
    /\ UNCHANGED <<path, replaced, was, memory, room, offset, buffer>>

\* An empty file is never mapped.
Map ==
    /\ pc = "map"
    /\ \/ /\ size > 0
          /\ buffer' = [mapped |-> TRUE, data |-> SubSeq(file, 1, size)]
          /\ Return(0)
       \/ pc' = "grow" /\ UNCHANGED <<buffer, file, result>>
    /\ UNCHANGED <<path, replaced, was, size, memory, room, offset>>

Grow ==
    /\ pc = "grow"
    /\ LET data == IF memory = NULL THEN <<>> ELSE memory
       IN  \/ /\ memory' = data /\ room' = Len(data) + Size
              /\ pc' = "read" /\ UNCHANGED <<file, result>>
           \/ memory' = NULL /\ room' = 0 /\ Return(-1)
    /\ UNCHANGED <<path, replaced, was, size, offset, buffer>>

\* Mutant of Read: a short read is taken for the end of the file.
ReadShort ==
    /\ pc = "read"
    /\ \E n \in 0..Least(Size, Len(file) - offset) :
          /\ n = 0 => offset = Len(file)
          /\ offset' = offset + n
          /\ memory' = memory \o SubSeq(file, offset + 1, offset + n)
          /\ IF n = Size
             THEN pc' = "grow" /\ UNCHANGED <<file, result, buffer>>
             ELSE Return(0) /\ buffer' = [mapped |-> FALSE, data |-> memory']
    /\ UNCHANGED <<path, replaced, was, size, room>>

\* A read gives as much as it likes; nothing is the end of the file.
Read ==
    /\ pc = "read"
    /\ \E n \in 0..Least(Size, Len(file) - offset) :
          /\ n = 0 => offset = Len(file)
          /\ offset' = offset + n
          /\ memory' = memory \o SubSeq(file, offset + 1, offset + n)
          /\ IF n > 0
             THEN pc' = "grow" /\ UNCHANGED <<file, result, buffer>>
             ELSE Return(0) /\ buffer' = [mapped |-> FALSE, data |-> memory]
    /\ UNCHANGED <<path, replaced, was, size, room>>

\* EAGAIN and EINTR are tried again, from the realloc on.
ReadFails ==
    /\ pc = "read"
    /\ \/ pc' = "grow" /\ UNCHANGED <<memory, room, file, result>>
       \/ memory' = NULL /\ room' = 0 /\ Return(-1)
    /\ UNCHANGED <<path, replaced, was, size, offset, buffer>>

\* buffer_destroy, by the caller, of a buffer that was created.
Destroy ==
    /\ pc = "done" /\ result = 0
    /\ pc' = "destroyed"
    /\ memory' = IF buffer.mapped THEN memory ELSE NULL
    /\ room' = IF buffer.mapped THEN room ELSE 0
    /\ buffer' = NULL
    /\ UNCHANGED <<path, file, replaced, was, size, offset, result>>

\* The other process: it appends to the file, or renames another one onto it.
Extend ==
    /\ path # NULL /\ Len(path) < MaxLength
    /\ path' = Append(path, "+")
    /\ IF file # NULL /\ ~replaced
       THEN file' = path' /\ was' = was \cup {path'}
       ELSE UNCHANGED <<file, was>>
    /\ UNCHANGED <<replaced, pc, size, memory, room, offset, buffer, result>>

Rename ==
    /\ path' \in Contents
    /\ replaced' = (file # NULL)
    /\ UNCHANGED <<file, was, pc, size, memory, room, offset, buffer, result>>

Init ==
    /\ path \in Contents \cup {NULL}
    /\ file = NULL /\ replaced = FALSE /\ was = {}
    /\ pc = "open"
    /\ size = 0 /\ memory = NULL /\ room = 0 /\ offset = 0
    /\ buffer = NULL /\ result = NULL

Next == Open \/ Fstat \/ Map \/ Grow \/ Read \/ ReadFails \/ Destroy \/ Extend \/ Rename

Spec == Init /\ [][Next]_vars

-----------------------------------------------------------------------------
\* A buffer holds the whole of the file, as it was at one moment of the call,
\* however the reads cut it and whatever happens to the path; nothing is read
\* past the allocation, and every way out leaves only what the buffer owns
\* (buffer.c:40, 78).
BufferWhole ==
    /\ buffer # NULL => buffer.data \in was
    /\ memory # NULL => Len(memory) <= room
    /\ pc = "done" => /\ file = NULL
                      /\ (result = 0) = (buffer # NULL)
                      /\ (memory # NULL) = (buffer # NULL /\ ~buffer.mapped)
    /\ pc = "destroyed" => memory = NULL /\ buffer = NULL
=============================================================================
