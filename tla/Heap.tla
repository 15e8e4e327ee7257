-------------------------------- MODULE Heap --------------------------------
(***************************************************************************)
(* heap.c as init.c uses it while it evaluates a context: a mapping that   *)
(* grows by whole pages and may move when it grows, in which aligned       *)
(* strings are allocated one after the other and never freed.  Offsets are *)
(* kept, addresses are taken from them (heap_address) and used at once.    *)
(***************************************************************************)
EXTENDS Integers

CONSTANTS Addresses,    \* where mmap and mremap can place the heap
          Word, Page,   \* sizeof(size_t) and the page size
          Characters,
          MaxLength,    \* bound: length of a string
          MaxCapacity,  \* bound: capacity of the heap
          NULL

ASSUME HeapAssumption ==
    /\ Word \in Nat \ {0} /\ Page \in Nat \ {0}
    /\ MaxLength \in Nat /\ MaxCapacity \in Nat /\ Page <= MaxCapacity
    /\ NULL \notin Addresses

Nul == "nul"
Places == 0..MaxCapacity - 1

VARIABLES pc,                       \* none, parse, home, copy or published
          data, size, capacity,     \* struct heap
          bytes,        \* what is at each offset of the mapping
          writable,     \* the protection of the mapping
          fields,       \* the offsets of the fields of the user so far
          result,       \* the address and the offset that getcb returned
          fault,        \* memory was accessed where it may not be
          strings       \* history: the strings allocated, by their offset

heap == <<data, size, capacity>>
vars == <<pc, heap, bytes, writable, fields, result, fault, strings>>

RoundUp(n, unit) == ((n + unit - 1) \div unit) * unit
\* Mutants of align: down instead of up, or not at all.
alignDown(n) == (n \div Word) * Word
alignNot(n) == n

align(n) == RoundUp(n, Word)
pagealign(n) == RoundUp(n, Page)

-----------------------------------------------------------------------------
\* Mutant of heap_resize: the mapping never grows.
heap_resizeNever(n) == size' = n /\ UNCHANGED <<data, capacity>>

\* heap_resize to n bytes: the mapping grows only when it must, and moves then
\* to any address; a byte of a new page reads as 0.
heap_resize(n) ==
    \/ /\ n <= capacity
       /\ size' = n
       /\ UNCHANGED <<data, capacity>>
    \/ /\ n > capacity /\ pagealign(n) <= MaxCapacity
       /\ data' \in Addresses
       /\ capacity' = pagealign(n)
       /\ size' = n

\* mremap fails: nothing changes, the offset is HNULL.
heap_full(n) == n > capacity /\ UNCHANGED heap

\* heap_alloc of count bytes, and the string c repeated length times in them;
\* the value of the string is written at its address after the allocation.
heap_strndup(c, length) ==
    LET offset == size
    IN  /\ heap_resize(align(size + length + 1))
        /\ fault' = (fault \/ ~writable \/ offset + length >= capacity')
        /\ bytes' = [i \in Places |->
              IF i \in offset..offset + length - 1 THEN c
              ELSE IF i = offset + length THEN Nul ELSE bytes[i]]
        /\ strings' = strings \cup {[offset |-> offset, length |-> length, char |-> c]}

-----------------------------------------------------------------------------
\* heap_create(heap, 1) of initialize().
Create ==
    /\ pc = "none"
    /\ data' \in Addresses /\ size' = 0 /\ capacity' = pagealign(1)
    /\ bytes' = [i \in Places |-> Nul]
    /\ writable' = TRUE
    /\ strings' = {}
    /\ pc' = "parse"
    /\ UNCHANGED <<fields, result, fault>>

\* putcb: a value is recorded; without memory it is not.
Put(c, length) ==
    /\ pc = "parse"
    /\ \/ heap_strndup(c, length)
       \/ heap_full(align(size + length + 1)) /\ UNCHANGED <<bytes, strings, fault>>
    /\ UNCHANGED <<pc, writable, fields, result>>

\* foreignvar for a field not yet read: pw_get duplicates both the name and the
\* home of the user in the heap, whichever is wanted, and the address is taken
\* from the offset afterwards.
DupUser(c, length) ==
    /\ pc = "parse"
    /\ \/ heap_strndup(c, length) /\ fields' = {size}
       \/ /\ heap_full(align(size + length + 1)) /\ fields' = {}
          /\ UNCHANGED <<bytes, strings, fault>>
    /\ pc' = "home"
    /\ UNCHANGED <<writable, result>>

\* The field that is wanted, or none when its duplication failed.
Wanted(offsets) ==
    \/ \E o \in offsets : result' = [at |-> data', offset |-> o] /\ pc' = "copy"
    \/ (\A o, u \in offsets : o = u) /\ pc' = "parse" /\ UNCHANGED result

DupHome(c, length) ==
    /\ pc = "home"
    /\ \/ heap_strndup(c, length) /\ Wanted(fields \cup {size})
       \/ /\ heap_full(align(size + length + 1)) /\ Wanted(fields)
          /\ UNCHANGED <<bytes, strings, fault>>
    /\ fields' = {}
    /\ UNCHANGED writable

\* getcb for a value already in the heap.
Resolve ==
    /\ pc = "parse"
    /\ \E s \in strings : result' = [at |-> data, offset |-> s.offset]
    /\ pc' = "copy"
    /\ UNCHANGED <<heap, bytes, writable, fields, fault, strings>>

\* The parser copies the string that getcb returned, up to its nul.
Copy ==
    /\ pc = "copy"
    /\ fault' = (fault \/ result.at # data
                       \/ \A i \in Places : i < result.offset \/ i >= capacity
                                            \/ bytes[i] # Nul)
    /\ result' = NULL
    /\ pc' = "parse"
    /\ UNCHANGED <<heap, bytes, writable, fields, strings>>

\* heap_read_only: the end of initialize().
Publish ==
    /\ pc = "parse"
    /\ writable' = FALSE
    /\ pc' = "published"
    /\ UNCHANGED <<heap, bytes, fields, result, fault, strings>>

\* heap_destroy: a reset, a change of user or the end of the context.
Destroy ==
    /\ pc = "published"
    /\ data' = NULL
    /\ strings' = {}
    /\ bytes' = [i \in Places |-> Nul]
    /\ pc' = "none"
    /\ UNCHANGED <<size, capacity, writable, fields, result, fault>>

-----------------------------------------------------------------------------
Init ==
    /\ pc = "none" /\ data = NULL /\ size = 0 /\ capacity = 0
    /\ bytes = [i \in Places |-> Nul] /\ writable = FALSE
    /\ fields = {} /\ result = NULL /\ fault = FALSE /\ strings = {}

Next == \/ Create \/ Resolve \/ Copy \/ Publish \/ Destroy
        \/ \E c \in Characters, length \in 0..MaxLength :
              Put(c, length) \/ DupUser(c, length) \/ DupHome(c, length)

Spec == Init /\ [][Next]_vars

-----------------------------------------------------------------------------
(* Properties                                                                *)

\* Each string allocated still reads as it was written, however many were
\* allocated after it and wherever the heap moved since (heap.c:83-126).
StringsKept ==
    \A s \in strings :
        /\ \A i \in s.offset..s.offset + s.length - 1 : bytes[i] = s.char
        /\ bytes[s.offset + s.length] = Nul

\* Strings are aligned, inside the used part of the mapping and apart from each
\* other, after an allocation that failed too.
Layout ==
    /\ size <= capacity
    /\ \A s \in strings :
          /\ s.offset % Word = 0
          /\ s.offset + s.length < size
    /\ \A s, u \in strings :
          s # u => s.offset + s.length < u.offset \/ u.offset + u.length < s.offset

\* No access falls outside of the mapping, uses an address of before a move, or
\* writes in a heap that was made read only.
NoFault == ~fault
=============================================================================
