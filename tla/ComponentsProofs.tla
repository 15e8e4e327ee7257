-------------------------- MODULE ComponentsProofs --------------------------
(***************************************************************************)
(* Proofs about the components that Components puts together, for every    *)
(* value of its constants: one section for each, and then the theorems.    *)
(***************************************************************************)
EXTENDS Components, FiniteSetTheorems, SequenceTheorems, TLAPS

Facts == INSTANCE SequenceFacts

-----------------------------------------------------------------------------
(* Two pieces of a sequence that follow each other are one.                  *)
LEMMA Pieces ==
    ASSUME NEW S, NEW s \in Seq(S), NEW a \in Nat, NEW n \in Nat, a + n <= Len(s)
    PROVE  SubSeq(s, 1, a) \o SubSeq(s, a + 1, a + n) = SubSeq(s, 1, a + n)
  OBVIOUS

\* A piece that is added to the second of two sequences is added to both together.
LEMMA Joined ==
    ASSUME NEW S, NEW s \in Seq(S), NEW t \in Seq(S), NEW u \in Seq(S), NEW w, w = s \o t
    PROVE  t \o u \in Seq(S) /\ s \o (t \o u) = w \o u
  BY ConcatProperties, ConcatAssociative

\* The elements of a piece of a sequence are its elements.
LEMMA SubSeqIn ==
    ASSUME NEW S, NEW x \in Seq(S), NEW a \in Nat, NEW n \in Nat, a + n <= Len(x)
    PROVE  SubSeq(x, a + 1, a + n) \in Seq(S)
<1>1. \A i \in a + 1..a + n : x[i] \in S
  BY ElementOfSeq
<1> QED
  BY <1>1, SubSeqProperties

\* What leaves the front of one sequence for the end of another leaves the two
\* together as they were.
LEMMA NextPiece ==
    ASSUME NEW S, NEW s \in Seq(S), NEW t \in Seq(S), t # <<>>
    PROVE  /\ Append(s, Head(t)) \in Seq(S) /\ Tail(t) \in Seq(S)
           /\ Append(s, Head(t)) \o Tail(t) = s \o t
  OBVIOUS

-----------------------------------------------------------------------------
(* Heap: the strings are whole, apart from each other and inside the mapping. *)

\* Rounding up gives the next multiple of the unit.
LEMMA RoundUpIs ==
    ASSUME NEW n \in Nat, NEW unit \in Nat \ {0}
    PROVE  /\ RoundUp(n, unit) \in Nat /\ RoundUp(n, unit) >= n
           /\ RoundUp(n, unit) % unit = 0
<1> DEFINE q == (n + unit - 1) \div unit
           r == (n + unit - 1) % unit
<1>1. n + unit - 1 = unit * q + r /\ r \in 0..unit - 1 /\ q \in Nat
  OBVIOUS
<1>2. (q * unit) % unit = 0
  BY <1>1
<1> HIDE DEF q, r
<1>3. q * unit \in Nat /\ q * unit >= n
  BY <1>1
<1> QED
  BY <1>2, <1>3 DEF RoundUp, q

\* One page is what the heap starts with.
LEMMA OnePage == pagealign(1) = Page
<1>1. (Page \div Page) * Page = Page
  BY HeapAssumption
<1> QED
  BY <1>1, HeapAssumption DEF pagealign, RoundUp

\* A string of the heap.
String == [offset : Nat, length : Nat, char : Characters]

\* The end of a string, where its nul is.
EndOf(s) == s.offset + s.length

\* The string is in the used part of the heap, and reads as it was written.
StringOf(s) ==
    /\ s.offset % Word = 0 /\ EndOf(s) < size
    /\ \A i \in s.offset..EndOf(s) - 1 : bytes[i] = s.char
    /\ bytes[EndOf(s)] = Nul

\* While the configuration is parsed the heap is writable, and the offsets kept
\* between two steps are those of strings.
ParseInv ==
    /\ pc \in {"parse", "home", "copy"} => writable = TRUE
    /\ pc = "home" => \A o \in fields : \E s \in strings : o = s.offset
    /\ pc = "copy" => result.at = data /\ \E s \in strings : result.offset = s.offset

\* The heap is sound: its size is aligned and mapped, its strings are whole and
\* apart from each other.
HeapInv ==
    /\ size \in Nat /\ capacity \in Nat /\ capacity <= MaxCapacity
    /\ size <= capacity /\ size % Word = 0
    /\ DOMAIN bytes = Places /\ strings \in SUBSET String
    /\ \A s \in strings : StringOf(s)
    /\ \A s, u \in strings : s # u => EndOf(s) < u.offset \/ EndOf(u) < s.offset
    /\ fault = FALSE

HInv == HeapInv /\ ParseInv

\* No heap yet.
LEMMA HInit == Init => HInv
<1>1. 0 % Word = 0
  BY HeapAssumption
<1> QED
  BY <1>1, HeapAssumption DEF Init, HInv, HeapInv, ParseInv

\* A string is put after the others, inside what is mapped, and touches none.
LEMMA StrndupKeeps ==
    ASSUME HeapInv, writable = TRUE, NEW c \in Characters, NEW length \in Nat,
           heap_strndup(c, length)
    PROVE  /\ HeapInv'
           /\ strings \subseteq strings' /\ \E s \in strings' : s.offset = size
<1> DEFINE new == [offset |-> size, length |-> length, char |-> c]
           n == align(size + length + 1)
<1>1. size \in Nat /\ capacity \in Nat /\ capacity <= MaxCapacity /\ size <= capacity
      /\ size % Word = 0 /\ strings \in SUBSET String /\ DOMAIN bytes = Places
  BY DEF HeapInv
<1>2. n \in Nat /\ n >= size + length + 1 /\ n % Word = 0
  BY <1>1, RoundUpIs, HeapAssumption DEF align
<1>3. pagealign(n) \in Nat /\ pagealign(n) >= n
  BY <1>2, RoundUpIs, HeapAssumption DEF pagealign
<1>4. heap_resize(n) /\ strings' = strings \cup {new}
      /\ bytes' = [i \in Places |-> IF i \in size..size + length - 1 THEN c
                                    ELSE IF i = size + length THEN Nul ELSE bytes[i]]
      /\ fault' = (fault \/ ~writable \/ size + length >= capacity')
  BY DEF heap_strndup
<1> HIDE DEF n
<1>5. size' = n /\ capacity' \in Nat /\ capacity' <= MaxCapacity /\ n <= capacity'
  BY <1>1, <1>2, <1>3, <1>4 DEF heap_resize
<1>6. new \in String /\ EndOf(new) = size + length /\ new.offset = size
  BY <1>1 DEF String, EndOf
<1>7. fault' = FALSE
  <2> DEFINE outside == size + length >= capacity'
  <2>1. ~outside
    BY <1>1, <1>2, <1>5
  <2>2. fault' = (fault \/ ~writable \/ outside) /\ fault = FALSE /\ writable = TRUE
    BY <1>4 DEF HeapInv
  <2> HIDE DEF outside
  <2> QED
    BY <2>1, <2>2, Zenon
<1>8. ASSUME NEW s \in strings
      PROVE  s.offset \in Nat /\ EndOf(s) \in Nat /\ s.offset <= EndOf(s) /\ EndOf(s) < size
  BY <1>1 DEF String, EndOf, StringOf, HeapInv
<1>9. ASSUME NEW s \in strings' PROVE StringOf(s)'
  <2>1. CASE s = new
    <3>1. \A i \in size..size + length : i \in Places
      BY <1>1, <1>2, <1>5, HeapAssumption DEF Places
    <3>2. \A i \in size..size + length - 1 : bytes'[i] = c /\ i # size + length
      BY <1>1, <1>4, <3>1
    <3>3. bytes'[size + length] = Nul
      BY <1>1, <1>4, <3>1
    <3>4. size + length < size'
      BY <1>1, <1>2, <1>5
    <3> QED
      BY <1>1, <1>6, <2>1, <3>2, <3>3, <3>4 DEF StringOf, EndOf
  <2>2. CASE s \in strings
    <3>1. \A i \in s.offset..EndOf(s) : i \in Places /\ i < size
      BY <1>1, <1>8, <2>2, HeapAssumption DEF Places
    <3>2. \A i \in s.offset..EndOf(s) : bytes'[i] = bytes[i]
      BY <1>1, <1>4, <1>8, <2>2, <3>1
    <3>3. StringOf(s)
      BY <2>2 DEF HeapInv
    <3>4. EndOf(s) < size'
      BY <1>1, <1>2, <1>5, <1>8, <2>2
    <3>5. EndOf(s) \in s.offset..EndOf(s) /\ \A i \in s.offset..EndOf(s) - 1 : i \in s.offset..EndOf(s)
      BY <1>8, <2>2
    <3> QED
      BY <3>2, <3>3, <3>4, <3>5 DEF StringOf, EndOf
  <2> QED
    BY <1>4, <2>1, <2>2
<1>10. ASSUME NEW s \in strings', NEW u \in strings', s # u
       PROVE  EndOf(s) < u.offset \/ EndOf(u) < s.offset
  BY <1>4, <1>6, <1>8, <1>10 DEF HeapInv
<1> QED
  BY <1>1, <1>2, <1>4, <1>5, <1>6, <1>7, <1>9, <1>10 DEF HeapInv

\* An allocation that fails changes neither the heap nor its strings.
LEMMA FullKeeps ==
    ASSUME HeapInv, UNCHANGED <<heap, bytes, strings, fault>>
    PROVE  HeapInv'
  BY DEF HeapInv, heap, StringOf, EndOf

\* Every step keeps the strings and the layout.
LEMMA HStep == HInv /\ [Next]_vars => HInv'
<1> SUFFICES ASSUME HInv, [Next]_vars PROVE HInv'
  OBVIOUS
<1> USE HeapAssumption
<1>1. CASE Create
  <2>1. 0 % Word = 0
    OBVIOUS
  <2> QED
    BY <1>1, <2>1, OnePage DEF Create, HInv, HeapInv, ParseInv
<1>2. ASSUME NEW c \in Characters, NEW length \in 0..MaxLength, Put(c, length)
      PROVE  HInv'
  <2>1. length \in Nat /\ pc = "parse" /\ pc' = "parse" /\ writable = TRUE /\ writable' = TRUE
    BY <1>2 DEF Put, HInv, ParseInv
  <2>2. ASSUME heap_strndup(c, length) PROVE HInv'
    BY <2>1, <2>2, StrndupKeeps DEF HInv, ParseInv
  <2>3. CASE UNCHANGED <<heap, bytes, strings, fault>>
    BY <2>1, <2>3, FullKeeps DEF HInv, ParseInv
  <2> QED
    BY <1>2, <2>2, <2>3 DEF Put, heap_full
<1>3. ASSUME NEW c \in Characters, NEW length \in 0..MaxLength, DupUser(c, length)
      PROVE  HInv'
  <2>1. length \in Nat /\ pc' = "home" /\ writable = TRUE /\ writable' = TRUE
    BY <1>3 DEF DupUser, HInv, ParseInv
  <2>2. ASSUME heap_strndup(c, length), fields' = {size} PROVE HInv'
    BY <2>1, <2>2, StrndupKeeps DEF HInv, ParseInv
  <2>3. CASE UNCHANGED <<heap, bytes, strings, fault>> /\ fields' = {}
    BY <2>1, <2>3, FullKeeps DEF HInv, ParseInv
  <2> QED
    BY <1>3, <2>2, <2>3 DEF DupUser, heap_full
<1>4. ASSUME NEW c \in Characters, NEW length \in 0..MaxLength, DupHome(c, length)
      PROVE  HInv'
  <2>1. length \in Nat /\ pc = "home" /\ writable = TRUE /\ writable' = TRUE
        /\ \A o \in fields : \E s \in strings : o = s.offset
    BY <1>4 DEF DupHome, HInv, ParseInv
  <2>2. ASSUME NEW offsets, Wanted(offsets),
               \A o \in offsets : \E s \in strings' : o = s.offset
        PROVE  ParseInv'
    BY <2>1, <2>2 DEF Wanted, ParseInv
  <2>3. ASSUME heap_strndup(c, length), Wanted(fields \cup {size}) PROVE HInv'
    <3>1. strings \subseteq strings' /\ \E s \in strings' : s.offset = size
      BY <2>1, <2>3, StrndupKeeps DEF HInv
    <3>2. ParseInv'
      BY <2>1, <2>2, <2>3, <3>1
    <3> QED
      BY <2>1, <2>3, <3>2, StrndupKeeps DEF HInv
  <2>4. CASE UNCHANGED <<heap, bytes, strings, fault>> /\ Wanted(fields)
    <3>1. ParseInv'
      BY <2>1, <2>2, <2>4
    <3> QED
      BY <2>4, <3>1, FullKeeps DEF HInv
  <2> QED
    BY <1>4, <2>3, <2>4 DEF DupHome, heap_full
<1>5. CASE Resolve
  <2>1. UNCHANGED <<heap, bytes, strings, fault, writable>> /\ pc = "parse" /\ pc' = "copy"
        /\ \E s \in strings : result' = [at |-> data, offset |-> s.offset]
    BY <1>5 DEF Resolve
  <2>2. ParseInv'
    BY <2>1 DEF ParseInv, HInv, heap
  <2> QED
    BY <2>1, <2>2, FullKeeps DEF HInv
<1>6. CASE Copy
  <2>1. PICK s \in strings : result.at = data /\ result.offset = s.offset
    BY <1>6 DEF Copy, HInv, ParseInv
  <2>2. StringOf(s) /\ EndOf(s) \in Nat /\ s.offset \in Nat /\ s.offset <= EndOf(s)
        /\ size \in Nat /\ capacity \in Nat /\ size <= capacity /\ capacity <= MaxCapacity
    BY DEF HInv, HeapInv, String, EndOf
  <2>3. EndOf(s) \in Places /\ ~(EndOf(s) < result.offset) /\ ~(EndOf(s) >= capacity)
        /\ bytes[EndOf(s)] = Nul
    BY <2>1, <2>2 DEF StringOf, Places
  <2> DEFINE lost == \A i \in Places : i < result.offset \/ i >= capacity \/ bytes[i] # Nul
             moved == result.at # data
  <2>4. ~lost /\ ~moved
    BY <2>1, <2>3
  <2>5. fault' = (fault \/ moved \/ lost) /\ fault = FALSE
    BY <1>6 DEF Copy, HInv, HeapInv
  <2> HIDE DEF lost, moved
  <2>6. UNCHANGED fault
    BY <2>4, <2>5, Zenon
  <2>7. UNCHANGED <<heap, bytes, strings, fault, writable>> /\ pc = "copy" /\ pc' = "parse"
    BY <1>6, <2>6 DEF Copy
  <2> QED
    BY <2>7, FullKeeps DEF HInv, ParseInv
<1>7. CASE Publish
  <2>1. UNCHANGED <<heap, bytes, strings, fault>> /\ pc' = "published"
    BY <1>7 DEF Publish
  <2> QED
    BY <2>1, FullKeeps DEF HInv, ParseInv
<1>8. CASE Destroy
  BY <1>8 DEF Destroy, HInv, HeapInv, ParseInv
<1>9. CASE UNCHANGED vars
  <2>1. ParseInv'
    BY <1>9 DEF vars, heap, ParseInv, HInv
  <2> QED
    BY <1>9, <2>1, FullKeeps DEF vars, HInv
<1> QED
  BY <1>1, <1>2, <1>3, <1>4, <1>5, <1>6, <1>7, <1>8, <1>9 DEF Next

-----------------------------------------------------------------------------
(* Admin: what the call has is what the system had at some moment of it.     *)

\* The system as it is now is one of those seen, and so is the origin of each
\* thing that the call holds already; it answers last.
AdminInv ==
    /\ admPc # "call" => Adm!system \in seen
    /\ verdict # NULL => admPc = "done"
    /\ admPc \in {"user", "count", "list", "scan"} =>
          systemGid # NULL /\ \E s \in seen : s[1][sysgrpname] = systemGid
    /\ admPc \in {"count", "list", "scan"} =>
          pwGid # NULL /\ \E s \in seen : s[2][uid] = pwGid
    /\ admPc = "scan" => \E s \in seen : groups = {pwGid} \cup s[3][uid]

\* Before the call nothing is held and nothing was answered.
LEMMA AdminInit == NotANumber /\ Adm!Init => AdminInv /\ Adm!AdminVerdict
  BY DEF NotANumber, Adm!Init, AdminInv, Adm!AdminVerdict

\* A step of the call keeps what it holds; only Scan needs all of it.
LEMMA AdminNext ==
    ASSUME NotANumber, AdminInv, Adm!AdminVerdict, [Adm!Next]_(Adm!vars)
    PROVE  AdminInv' /\ Adm!AdminVerdict'
<1> USE DEF NotANumber, Adm!Seen, Adm!system, Adm!env, Adm!asked, Adm!Give
<1>1. CASE Adm!Call
  BY <1>1 DEF Adm!Call, AdminInv, Adm!AdminVerdict
<1>2. CASE Adm!NoName
  BY <1>2 DEF Adm!NoName, AdminInv, Adm!AdminVerdict
<1>3. CASE Adm!FindGroup
  BY <1>3 DEF Adm!FindGroup, AdminInv, Adm!AdminVerdict
<1>4. CASE Adm!FindUser
  BY <1>4 DEF Adm!FindUser, AdminInv, Adm!AdminVerdict
<1>5. CASE Adm!CountGroups
  BY <1>5 DEF Adm!CountGroups, AdminInv, Adm!AdminVerdict
<1>6. CASE Adm!ListGroups
  BY <1>6 DEF Adm!ListGroups, Adm!List, AdminInv, Adm!AdminVerdict
<1>7. CASE Adm!Scan
  BY <1>7 DEF Adm!Scan, AdminInv, Adm!AdminVerdict
<1>8. CASE Adm!Change
  BY <1>8 DEF Adm!Change, AdminInv, Adm!AdminVerdict
<1>9. CASE UNCHANGED Adm!vars
  BY <1>9 DEF Adm!vars, AdminInv, Adm!AdminVerdict
<1> QED
  BY <1>1, <1>2, <1>3, <1>4, <1>5, <1>6, <1>7, <1>8, <1>9 DEF Adm!Next

\* Admin alone.
LEMMA AdminAlone == NotANumber /\ Adm!Spec => []Adm!AdminVerdict
<1> SUFFICES ASSUME NotANumber PROVE Adm!Spec => []Adm!AdminVerdict
  OBVIOUS
<1>1. Adm!Init => AdminInv /\ Adm!AdminVerdict
  BY AdminInit
<1>2. AdminInv /\ Adm!AdminVerdict /\ [Adm!Next]_(Adm!vars)
      => AdminInv' /\ Adm!AdminVerdict'
  BY AdminNext
<1> QED
  BY <1>1, <1>2, PTL DEF Adm!Spec

-----------------------------------------------------------------------------
(* Buffer: what was read is the beginning of the open file.                  *)

\* The file that is open contains what was seen last, and it is that of the path
\* unless another took its place.
FileInv ==
    /\ path \in ByteSeqs \cup {NULL} /\ file \in ByteSeqs \cup {NULL}
    /\ was \in SUBSET ByteSeqs
    /\ bufPc \in {"open", "stat", "map", "grow", "read", "done", "destroyed"}
    /\ (file # NULL) = (bufPc \in {"stat", "map", "grow", "read"})
    /\ file # NULL => file \in was /\ (replaced \/ path = file)
    /\ bufPc = "open" => ~replaced

\* The size that fstat gave is that of a state of the file; what was read is the
\* beginning of the file, up to the offset, and a read has room.
ReadInv ==
    /\ bufPc \in {"map", "grow", "read"} =>
          /\ bufSize \in 0..Len(file)
          /\ SubSeq(file, 1, bufSize) \in was
    /\ bufPc \in {"open", "stat", "map"} => memory = NULL /\ offset = 0
    /\ bufPc \in {"open", "stat", "map", "grow", "read"} =>
          buffer = NULL /\ bufResult = NULL
    /\ bufPc \in {"grow", "read"} =>
          /\ offset \in 0..Len(file)
          /\ IF memory = NULL THEN offset = 0
                              ELSE memory = SubSeq(file, 1, offset) /\ offset <= room
    /\ bufPc = "read" => memory # NULL /\ room = offset + Size

BufferInv == FileInv /\ ReadInv /\ Buf!BufferWhole

\* A file that grows keeps its beginning.
LEMMA Beginnings ==
    ASSUME NEW s \in ByteSeqs, NEW n \in 0..Len(s)
    PROVE  /\ SubSeq(s, 1, n) \in ByteSeqs /\ Len(SubSeq(s, 1, n)) = n
           /\ \A e \in Bytes : SubSeq(Append(s, e), 1, n) = SubSeq(s, 1, n)
  BY DEF ByteSeqs

\* A read takes no more than it asked for, nor than there is.
LEMMA ReadFits ==
    ASSUME NEW s \in ByteSeqs, NEW a \in 0..Len(s), Size \in Nat \ {0},
           NEW n \in 0..Buf!Least(Size, Len(s) - a)
    PROVE  /\ n \in Nat /\ n <= Size /\ a + n <= Len(s)
           /\ a \in Nat /\ Len(s) \in Nat
<1>1. a \in Nat /\ Len(s) \in Nat /\ a <= Len(s)
  BY DEF ByteSeqs
<1>2. PICK least : least = Buf!Least(Size, Len(s) - a)
  OBVIOUS
<1>3. least \in Nat /\ least <= Size /\ a + least <= Len(s)
  BY <1>1, <1>2 DEF Buf!Least
<1>4. n \in 0..least
  BY <1>2
<1> QED
  BY <1>1, <1>3, <1>4

\* A file is the piece of it that has its size.
LEMMA WholeOf == \A s \in ByteSeqs : SubSeq(s, 1, Len(s)) = s
  BY DEF ByteSeqs

\* What the other process puts at the path are files.
LEMMA ContentsAreByteSeqs == BufferConstants => Buf!Contents \subseteq ByteSeqs
<1>1. ASSUME NEW n \in Nat, NEW s \in [1..n -> {"o"}] \cup [1..n -> {"n"}]
      PROVE  s \in Seq(Bytes)
  BY <1>1 DEF Bytes
<1>2. ASSUME BufferConstants, NEW s \in Buf!Contents PROVE s \in ByteSeqs
  <2>1. PICK n \in 0..MaxFile : s \in [1..n -> {"o"}] \cup [1..n -> {"n"}]
    BY <1>2, Zenon DEF Buf!Contents
  <2>2. n \in Nat
    BY <1>2, <2>1 DEF BufferConstants
  <2> QED
    BY <1>1, <2>1, <2>2 DEF ByteSeqs
<1> QED
  BY <1>2

\* Nothing is open and nothing was read.
LEMMA BufferInit == BufferConstants /\ Buf!Init => BufferInv
  BY ContentsAreByteSeqs
     DEF BufferConstants, NotANumber, Buf!Init, BufferInv, FileInv, ReadInv, Buf!BufferWhole

\* The files of the other process.
LEMMA FileNext ==
    ASSUME BufferConstants, FileInv, ReadInv, [Buf!Next]_(Buf!vars)
    PROVE  FileInv'
<1> USE DEF BufferConstants, NotANumber, FileInv, Buf!Return
<1>1. CASE Buf!Open
  BY <1>1 DEF Buf!Open
<1>2. CASE Buf!Fstat
  BY <1>2 DEF Buf!Fstat
<1>3. CASE Buf!Map
  BY <1>3 DEF Buf!Map
<1>4. CASE Buf!Grow
  BY <1>4 DEF Buf!Grow
<1>5. CASE Buf!Read
  BY <1>5 DEF Buf!Read
<1>6. CASE Buf!ReadFails
  BY <1>6 DEF Buf!ReadFails
<1>7. CASE Buf!Destroy
  BY <1>7 DEF Buf!Destroy
<1>8. CASE Buf!Extend
  <2>1. Append(path, "+") \in ByteSeqs /\ path \in ByteSeqs
    BY <1>8 DEF Buf!Extend, ByteSeqs, Bytes
  <2> QED
    BY <1>8, <2>1 DEF Buf!Extend
<1>9. CASE Buf!Rename
  BY <1>9, ContentsAreByteSeqs DEF Buf!Rename
<1>10. CASE UNCHANGED Buf!vars
  BY <1>10 DEF Buf!vars
<1> QED
  BY <1>1, <1>2, <1>3, <1>4, <1>5, <1>6, <1>7, <1>8, <1>9, <1>10 DEF Buf!Next

\* What is read.
LEMMA ReadNext ==
    ASSUME BufferConstants, FileInv, ReadInv, [Buf!Next]_(Buf!vars)
    PROVE  ReadInv'
<1> USE DEF BufferConstants, NotANumber, FileInv, ReadInv, Buf!Return
<1>1. CASE Buf!Open
  BY <1>1 DEF Buf!Open
<1>2. CASE Buf!Fstat
  <2>1. file \in ByteSeqs /\ file \in was /\ UNCHANGED <<was, memory, offset, buffer>>
        /\ memory = NULL /\ offset = 0 /\ buffer = NULL /\ bufResult = NULL
    BY <1>2 DEF Buf!Fstat
  <2>2. Len(file) \in 0..Len(file) /\ SubSeq(file, 1, Len(file)) = file
    BY <2>1, WholeOf DEF ByteSeqs
  <2>3. \/ bufSize' = Len(file) /\ bufPc' = "map" /\ UNCHANGED <<file, bufResult>>
        \/ bufPc' = "done"
    BY <1>2 DEF Buf!Fstat
  <2> QED
    BY <2>1, <2>2, <2>3
<1>3. CASE Buf!Map
  BY <1>3 DEF Buf!Map, ByteSeqs
<1>4. CASE Buf!Grow
  <2>1. file \in ByteSeqs /\ offset \in 0..Len(file) /\ buffer = NULL /\ bufResult = NULL
        /\ UNCHANGED <<was, bufSize, offset, buffer>> /\ bufPc = "grow"
    BY <1>4 DEF Buf!Grow
  <2>2. PICK held : held = IF memory = NULL THEN <<>> ELSE memory
    OBVIOUS
  <2>3. held = SubSeq(file, 1, offset) /\ Len(held) = offset /\ held \in ByteSeqs
    <3>1. CASE memory = NULL
      <4>1. SubSeq(file, 1, 0) = <<>> /\ <<>> \in ByteSeqs
        BY <2>1 DEF ByteSeqs
      <4> QED
        BY <2>1, <2>2, <3>1, <4>1
    <3>2. CASE memory # NULL
      BY <2>1, <2>2, <3>2, Beginnings
    <3> QED
      BY <3>1, <3>2
  <2>4. \/ /\ memory' = held /\ room' = Len(held) + Size
           /\ bufPc' = "read" /\ UNCHANGED <<file, bufResult>>
        \/ bufPc' = "done"
    BY <1>4, <2>2 DEF Buf!Grow
  <2>5. Len(file) \in Nat
    BY <2>1 DEF ByteSeqs
  <2>6. ASSUME bufPc' = "read", memory' = held, room' = Len(held) + Size,
               UNCHANGED <<file, bufResult>>
        PROVE  ReadInv'
    <3>1. offset' \in 0..Len(file') /\ offset' <= room' /\ room' = offset' + Size
      BY <2>1, <2>3, <2>5, <2>6
    <3>2. memory' # NULL /\ memory' = SubSeq(file', 1, offset')
      BY <2>1, <2>3, <2>6
    <3>3. bufSize' \in 0..Len(file') /\ SubSeq(file', 1, bufSize') \in was'
      BY <2>1, <2>6
    <3> QED
      BY <2>1, <2>6, <3>1, <3>2, <3>3
  <2>7. ASSUME bufPc' = "done" PROVE ReadInv'
    BY <2>7
  <2> QED
    BY <2>4, <2>6, <2>7
<1>5. CASE Buf!Read
  <2>1. file \in ByteSeqs /\ offset \in 0..Len(file) /\ memory = SubSeq(file, 1, offset)
        /\ room = offset + Size
    BY <1>5 DEF Buf!Read
  <2>2. PICK n \in 0..Buf!Least(Size, Len(file) - offset) :
               /\ offset' = offset + n
               /\ memory' = memory \o SubSeq(file, offset + 1, offset + n)
               /\ IF n > 0
                  THEN bufPc' = "grow" /\ UNCHANGED <<file, bufResult, buffer>>
                  ELSE bufPc' = "done"
    BY <1>5 DEF Buf!Read
  <2>3. /\ n \in Nat /\ n <= Size /\ offset + n <= Len(file)
        /\ offset \in Nat /\ Len(file) \in Nat
    BY <2>1, <2>2, ReadFits
  <2>4. memory' = SubSeq(file, 1, offset + n)
    BY <2>1, <2>2, <2>3, Pieces, SMTT(30) DEF ByteSeqs
  <2>5. UNCHANGED <<was, bufSize, room>> /\ bufPc = "read"
    BY <1>5 DEF Buf!Read
  <2>6. CASE n > 0
    <3>1. SubSeq(file, 1, offset + n) \in ByteSeqs
      BY <2>1, <2>3, Beginnings
    <3>2. offset' \in 0..Len(file') /\ offset' <= room'
      BY <2>1, <2>2, <2>3, <2>5, <2>6
    <3>3. /\ bufPc' = "grow" /\ memory' # NULL
          /\ memory' = SubSeq(file', 1, offset')
      BY <2>1, <2>2, <2>4, <2>6, <3>1
    <3> QED
      BY <2>2, <2>5, <2>6, <3>2, <3>3
  <2>7. CASE ~(n > 0)
    BY <2>2, <2>7
  <2> QED
    BY <2>6, <2>7
<1>6. CASE Buf!ReadFails
  BY <1>6 DEF Buf!ReadFails
<1>7. CASE Buf!Destroy
  BY <1>7 DEF Buf!Destroy
<1>8. CASE Buf!Extend
  <2>1. CASE file # NULL /\ ~replaced
    <3>1. file' = Append(file, "+") /\ file \in ByteSeqs /\ was \subseteq was'
      BY <1>8, <2>1 DEF Buf!Extend
    <3>2. \A n \in 0..Len(file) :
             n \in 0..Len(file') /\ SubSeq(file', 1, n) = SubSeq(file, 1, n)
      BY <3>1, Beginnings DEF ByteSeqs, Bytes
    <3> QED
      BY <1>8, <3>1, <3>2 DEF Buf!Extend
  <2>2. CASE ~(file # NULL /\ ~replaced)
    BY <1>8, <2>2 DEF Buf!Extend
  <2> QED
    BY <2>1, <2>2
<1>9. CASE Buf!Rename
  BY <1>9 DEF Buf!Rename
<1>10. CASE UNCHANGED Buf!vars
  BY <1>10 DEF Buf!vars
<1> QED
  BY <1>1, <1>2, <1>3, <1>4, <1>5, <1>6, <1>7, <1>8, <1>9, <1>10 DEF Buf!Next

\* What is given to the caller, or left behind.
LEMMA WholeNext ==
    ASSUME BufferConstants, BufferInv, [Buf!Next]_(Buf!vars)
    PROVE  Buf!BufferWhole'
<1> USE DEF BufferConstants, NotANumber, BufferInv, FileInv, Buf!BufferWhole, Buf!Return
<1>1. CASE Buf!Open
  BY <1>1 DEF Buf!Open, ReadInv
<1>2. CASE Buf!Fstat
  BY <1>2 DEF Buf!Fstat, ReadInv
<1>3. CASE Buf!Map
  <2>1. SubSeq(file, 1, bufSize) \in was /\ was \subseteq ByteSeqs /\ was' = was
        /\ memory = NULL /\ memory' = memory
    BY <1>3 DEF Buf!Map, ReadInv
  <2>2. ASSUME bufPc' = "done" /\ bufResult' = 0 /\ file' = NULL,
               buffer' = [mapped |-> TRUE, data |-> SubSeq(file, 1, bufSize)]
        PROVE  Buf!BufferWhole'
    <3>1. buffer' \in [mapped : BOOLEAN, data : ByteSeqs]
      BY <2>1, <2>2
    <3> QED
      BY <2>1, <2>2, <3>1
  <2>3. ASSUME bufPc' = "grow", UNCHANGED <<buffer, file, bufResult>>
        PROVE  Buf!BufferWhole'
    BY <1>3, <2>1, <2>3 DEF ReadInv, Buf!Map
  <2> QED
    BY <1>3, <2>2, <2>3 DEF Buf!Map
<1>4. CASE Buf!Grow
  BY <1>4 DEF Buf!Grow, ReadInv
<1>5. CASE Buf!Read
  <2>1. /\ file \in ByteSeqs /\ file \in was /\ buffer = NULL /\ bufResult = NULL
        /\ offset \in 0..Len(file) /\ memory = SubSeq(file, 1, offset)
        /\ room = offset + Size /\ UNCHANGED <<was, room>>
    BY <1>5 DEF Buf!Read, ReadInv
  <2>2. PICK n \in 0..Buf!Least(Size, Len(file) - offset) :
               /\ n = 0 => offset = Len(file)
               /\ memory' = memory \o SubSeq(file, offset + 1, offset + n)
               /\ IF n > 0
                  THEN bufPc' = "grow" /\ UNCHANGED <<file, bufResult, buffer>>
                  ELSE /\ bufPc' = "done" /\ bufResult' = 0 /\ file' = NULL
                       /\ buffer' = [mapped |-> FALSE, data |-> memory]
    BY <1>5 DEF Buf!Read
  <2>3. /\ n \in Nat /\ n <= Size /\ offset + n <= Len(file)
        /\ offset \in Nat /\ Len(file) \in Nat
    BY <2>1, <2>2, ReadFits
  <2>4. memory' = SubSeq(file, 1, offset + n)
    BY <2>1, <2>2, <2>3, Pieces DEF ByteSeqs
  <2>5. memory' \in ByteSeqs /\ Len(memory') = offset + n
    BY <2>1, <2>3, <2>4, Beginnings
  <2>6. Len(memory') <= room' /\ memory' # NULL
    BY <2>1, <2>3, <2>5
  <2>7. CASE n > 0
    BY <2>1, <2>2, <2>6, <2>7
  <2>8. CASE n = 0
    <3>1. memory = file
      BY <2>1, <2>2, <2>8, WholeOf
    <3>2. /\ buffer' = [mapped |-> FALSE, data |-> file]
          /\ bufPc' = "done" /\ bufResult' = 0 /\ file' = NULL
      BY <2>2, <2>8, <3>1
    <3>3. [mapped |-> FALSE, data |-> file] \in [mapped : BOOLEAN, data : ByteSeqs]
      BY <2>1
    <3> QED
      BY <2>1, <2>6, <3>2, <3>3
  <2> QED
    BY <2>3, <2>7, <2>8
<1>6. CASE Buf!ReadFails
  BY <1>6 DEF Buf!ReadFails, ReadInv
<1>7. CASE Buf!Destroy
  BY <1>7 DEF Buf!Destroy, ReadInv
<1>8. CASE Buf!Extend
  BY <1>8 DEF Buf!Extend, ReadInv
<1>9. CASE Buf!Rename
  BY <1>9 DEF Buf!Rename, ReadInv
<1>10. CASE UNCHANGED Buf!vars
  BY <1>10 DEF Buf!vars
<1> QED
  BY <1>1, <1>2, <1>3, <1>4, <1>5, <1>6, <1>7, <1>8, <1>9, <1>10 DEF Buf!Next

\* Buffer alone.
LEMMA BufferAlone == BufferConstants /\ Buf!Spec => []Buf!BufferWhole
<1> SUFFICES ASSUME BufferConstants PROVE Buf!Spec => []Buf!BufferWhole
  OBVIOUS
<1>1. Buf!Init => BufferInv
  BY BufferInit
<1>2. BufferInv /\ [Buf!Next]_(Buf!vars) => BufferInv'
  BY FileNext, ReadNext, WholeNext DEF BufferInv
<1>3. BufferInv => Buf!BufferWhole
  BY DEF BufferInv
<1> QED
  BY <1>1, <1>2, <1>3, PTL DEF Buf!Spec

-----------------------------------------------------------------------------
(* LineInfo: the line and the column are those of the characters passed.     *)

Kinds == {"first", "more", "eol"}

\* The ends of line before the offset m, and the characters between two offsets.
Ends(m) == {i \in 0..m - 1 : Line!Eol(i)}
Firsts(b, m) == {i \in b..m - 1 : lineBytes[i + 1] = "first"}

\* The place of the error, or how far the first loop went towards it.
Reached == IF phase \in {"clip", "begin"} THEN end ELSE pos

PlaceInv ==
    /\ lineBytes \in Seq(Kinds) /\ pos \in Nat /\ begin \in Nat /\ end \in Nat
    /\ phase \in {"clip", "begin", "end", "done"}
    /\ phase = "clip" => begin = 0 /\ end = 0 /\ lino = 1 /\ colno = 1
    /\ phase # "clip" => pos <= Len(lineBytes)
    /\ begin <= Reached /\ Reached <= end /\ end <= Len(lineBytes)
    /\ phase = "begin" => end <= pos
    /\ begin = 0 \/ Line!Eol(begin - 1)
    /\ \A i \in begin..end - 1 : ~Line!Eol(i)
    /\ phase = "done" => end = Len(lineBytes) \/ Line!Eol(end)

CountInv ==
    /\ lino = 1 + Cardinality(Ends(Reached))
    /\ colno = 1 + Cardinality(Firsts(begin, Reached))

LineInv == PlaceInv /\ CountInv

\* How the two counts change with one byte more.
LEMMA OneMore ==
    ASSUME NEW m \in Nat, NEW b \in 0..m
    PROVE  /\ Cardinality(Ends(m)) \in Nat /\ Cardinality(Firsts(b, m)) \in Nat
           /\ Cardinality(Ends(m + 1)) = Cardinality(Ends(m)) + IF Line!Eol(m) THEN 1 ELSE 0
           /\ Cardinality(Firsts(b, m + 1)) =
                 Cardinality(Firsts(b, m)) + IF lineBytes[m + 1] = "first" THEN 1 ELSE 0
<1>1. IsFiniteSet(Ends(m)) /\ IsFiniteSet(Firsts(b, m))
  <2>1. IsFiniteSet(0..m - 1) /\ IsFiniteSet(b..m - 1)
    BY FS_Interval
  <2>2. Ends(m) \in SUBSET (0..m - 1) /\ Firsts(b, m) \in SUBSET (b..m - 1)
    BY DEF Ends, Firsts
  <2> QED
    BY <2>1, <2>2, FS_Subset
<1>2. m \notin Ends(m) /\ m \notin Firsts(b, m)
  BY DEF Ends, Firsts
<1>3. Ends(m + 1) = IF Line!Eol(m) THEN Ends(m) \cup {m} ELSE Ends(m)
  BY DEF Ends
<1>4. Firsts(b, m + 1) =
         IF lineBytes[m + 1] = "first" THEN Firsts(b, m) \cup {m} ELSE Firsts(b, m)
  BY DEF Firsts
<1>5. /\ Cardinality(Ends(m)) \in Nat /\ Cardinality(Firsts(b, m)) \in Nat
      /\ Cardinality(Ends(m) \cup {m}) = Cardinality(Ends(m)) + 1
      /\ Cardinality(Firsts(b, m) \cup {m}) = Cardinality(Firsts(b, m)) + 1
  BY <1>1, <1>2, FS_AddElement, FS_CardinalityType
<1> QED
  BY <1>3, <1>4, <1>5

\* A line that begins at its end has no character.
LEMMA NoMore == \A m \in Nat : Cardinality(Ends(0)) = 0 /\ Cardinality(Firsts(m, m)) = 0
<1>1. \A m \in Nat : Ends(0) = {} /\ Firsts(m, m) = {}
  BY DEF Ends, Firsts
<1> QED
  BY <1>1, FS_EmptySet

\* LineInfo counts with the Cardinality of its own instance of FiniteSets.
LEMMA SameCardinality == \A S : Line!Cardinality(S) = Cardinality(S)
  BY DEF Line!Cardinality, Cardinality

\* No byte was passed.
LEMMA LineInit == MaxBytes \in Nat /\ Line!Init => LineInv
<1> SUFFICES ASSUME MaxBytes \in Nat, Line!Init PROVE LineInv
  OBVIOUS
<1>1. lineBytes \in Seq(Kinds) /\ Len(lineBytes) \in Nat
  <2>1. PICK n \in 0..MaxBytes : lineBytes \in [1..n -> Kinds]
    BY DEF Line!Init, Kinds
  <2>2. n \in Nat
    BY <2>1
  <2> QED
    BY <2>1, <2>2
<1>2. PlaceInv
  BY <1>1 DEF Line!Init, PlaceInv, Reached
<1>3. CountInv
  BY NoMore DEF Line!Init, CountInv, Reached
<1> QED
  BY <1>2, <1>3 DEF LineInv

\* The loops pass over whole lines and stop at the place, or at its end of line.
LEMMA PlaceNext ==
    ASSUME PlaceInv, [Line!Next]_(Line!vars)
    PROVE  PlaceInv'
<1> USE DEF PlaceInv, Reached, Line!Eol
<1>0. Len(lineBytes) \in Nat
  OBVIOUS
<1>1. CASE Line!Clip
  BY <1>0, <1>1 DEF Line!Clip
<1>2. CASE Line!Advance
  <2>1. /\ UNCHANGED <<lineBytes, pos, phase>> /\ phase = "begin" /\ end < pos
        /\ end' = end + 1 /\ begin <= end /\ pos <= Len(lineBytes)
        /\ begin' = IF lineBytes[end + 1] = "eol" THEN end + 1 ELSE begin
    BY <1>0, <1>2 DEF Line!Advance
  <2>2. begin' = 0 \/ Line!Eol(begin - 1)'
    BY <2>1
  <2>3. \A i \in begin'..end' - 1 : ~Line!Eol(i)'
    BY <2>1
  <2> QED
    BY <1>0, <2>1, <2>2, <2>3
<1>3. CASE Line!ToTheEnd
  BY <1>0, <1>3 DEF Line!ToTheEnd
<1>4. CASE Line!EndOfLine
  <2>1. /\ UNCHANGED <<lineBytes, pos, begin>> /\ phase = "end"
        /\ IF end < Len(lineBytes) /\ lineBytes[end + 1] # "eol"
           THEN end' = end + 1 /\ phase' = phase
           ELSE phase' = "done" /\ end' = end
    BY <1>4 DEF Line!EndOfLine
  <2>2. \A i \in begin'..end' - 1 : ~Line!Eol(i)'
    BY <2>1
  <2> QED
    BY <1>0, <2>1, <2>2
<1>5. CASE UNCHANGED Line!vars
  BY <1>5 DEF Line!vars
<1> QED
  BY <1>1, <1>2, <1>3, <1>4, <1>5 DEF Line!Next

\* Each byte that is passed counts for a line or for a column, or for neither.
LEMMA CountNext ==
    ASSUME PlaceInv, CountInv, [Line!Next]_(Line!vars)
    PROVE  CountInv'
<1>1. CASE Line!Advance
  <2>1. /\ UNCHANGED <<lineBytes, phase>> /\ phase = "begin" /\ end \in Nat /\ begin \in 0..end
        /\ end' = end + 1 /\ Reached = end /\ Reached' = end + 1
    BY <1>1 DEF Line!Advance, PlaceInv, Reached
  <2>2. Ends(Reached)' = Ends(end + 1) /\ Firsts(begin, Reached)' = Firsts(begin', end + 1)
    BY <2>1 DEF Ends, Firsts, Line!Eol
  <2>3. CASE Line!Eol(end)
    <3>1. begin' = end + 1 /\ lino' = lino + 1 /\ colno' = 1
      BY <1>1, <2>3 DEF Line!Advance
    <3> QED
      BY <2>1, <2>2, <2>3, <3>1, OneMore, NoMore DEF CountInv
  <2>4. CASE ~Line!Eol(end)
    <3>1. /\ begin' = begin /\ lino' = lino
          /\ colno' = IF lineBytes[end + 1] = "more" THEN colno ELSE colno + 1
      BY <1>1, <2>4 DEF Line!Advance
    <3>2. lineBytes[end + 1] \in {"first", "more"}
      BY <1>1, <2>1, <2>4 DEF Line!Advance, Line!Eol, PlaceInv, Kinds
    <3> QED
      <4>1. /\ lino = 1 + Cardinality(Ends(end))
            /\ colno = 1 + Cardinality(Firsts(begin, end))
        BY <2>1 DEF CountInv
      <4>2. /\ Cardinality(Ends(end)) \in Nat /\ Cardinality(Firsts(begin, end)) \in Nat
            /\ Cardinality(Ends(end + 1)) = Cardinality(Ends(end))
            /\ Cardinality(Firsts(begin, end + 1)) =
                  Cardinality(Firsts(begin, end))
                  + IF lineBytes[end + 1] = "first" THEN 1 ELSE 0
        BY <2>1, <2>4, OneMore
      <4>3. lino' = 1 + Cardinality(Ends(end + 1))
            /\ colno' = 1 + Cardinality(Firsts(begin', end + 1))
        BY <3>1, <3>2, <4>1, <4>2
      <4> QED
        BY <2>2, <4>3 DEF CountInv
  <2> QED
    BY <2>3, <2>4
<1>2. ASSUME UNCHANGED <<lineBytes, begin, lino, colno>>, Reached' = Reached
      PROVE  CountInv'
  BY <1>2 DEF CountInv, Ends, Firsts, Line!Eol
<1>3. CASE Line!Clip
  BY <1>2, <1>3 DEF Line!Clip, Reached
<1>4. CASE Line!ToTheEnd
  BY <1>2, <1>4 DEF Line!ToTheEnd, Reached
<1>5. CASE Line!EndOfLine
  BY <1>2, <1>5 DEF Line!EndOfLine, Reached
<1>6. CASE UNCHANGED Line!vars
  BY <1>2, <1>6 DEF Line!vars, Reached
<1> QED
  BY <1>1, <1>3, <1>4, <1>5, <1>6 DEF Line!Next

\* LineInfo alone.
LEMMA LineAlone == MaxBytes \in Nat /\ Line!Spec => []Line!InfoRight
<1> SUFFICES ASSUME MaxBytes \in Nat PROVE Line!Spec => []Line!InfoRight
  OBVIOUS
<1>1. Line!Init => LineInv
  BY LineInit
<1>2. LineInv /\ [Line!Next]_(Line!vars) => LineInv'
  BY PlaceNext, CountNext DEF LineInv
<1>3. LineInv => Line!InfoRight
  <2> SUFFICES ASSUME PlaceInv, CountInv, phase = "done" PROVE Line!InfoRight
    BY DEF LineInv, Line!InfoRight
  <2>1. Reached = pos
    BY DEF Reached
  <2>2. /\ begin <= pos /\ pos <= end
        /\ begin = 0 \/ Line!Eol(begin - 1)
        /\ end = Len(lineBytes) \/ Line!Eol(end)
        /\ \A i \in begin..end - 1 : ~Line!Eol(i)
    BY <2>1 DEF PlaceInv
  <2>3. /\ lino = 1 + Cardinality(Ends(pos))
        /\ colno = 1 + Cardinality(Firsts(begin, pos))
    BY <2>1 DEF CountInv
  <2>4. begin \in Nat /\ pos \in Nat /\ end \in Nat /\ begin \in 0..pos
    BY <2>2 DEF PlaceInv
  <2>5. ASSUME pos \in Line!Heads
        PROVE  colno = Cardinality({i \in Line!Heads : i <= pos})
    <3>1. {i \in Line!Heads : i <= pos} = Firsts(begin, pos + 1)
      BY <2>2, <2>4, <2>5 DEF Line!Heads, Firsts
    <3>2. /\ Cardinality(Firsts(begin, pos)) \in Nat
          /\ Cardinality(Firsts(begin, pos + 1)) = Cardinality(Firsts(begin, pos)) + 1
      BY <2>4, <2>5, OneMore DEF Line!Heads
    <3>3. colno = Cardinality(Firsts(begin, pos + 1))
      BY <2>3, <3>2
    <3> QED
      BY <3>1, <3>3, Zenon
  <2>6. pos = end => colno = 1 + Cardinality(Line!Heads)
    BY <2>3, Zenon DEF Line!Heads, Firsts
  <2> QED
    BY <2>2, <2>3, <2>5, <2>6, SameCardinality, Zenon DEF Line!InfoRight, Ends
<1> QED
  BY <1>1, <1>2, <1>3, PTL DEF Line!Spec

-----------------------------------------------------------------------------
(* ToolCommands: what the child has, and what the pipe holds, is what was    *)
(* sent.                                                                     *)

Alive == child \in {"forked", "running"}

\* As long as the child lives, it has read a part of what was sent, the pipe holds
\* the rest, and its input is closed when all was sent and not before.
PipeInv ==
    /\ command \in DOMAIN Texts
    /\ sent \in Nat /\ input \in Seq(Token) /\ hashed \in Seq(Token)
    /\ child \in {"none", "forked", "running", "exited", "failed", "reaped"}
    /\ sumPc = "create" => child = "none"
    /\ child = "none" => sent = 0 /\ input = <<>> /\ hashed = <<>>
    /\ sumPc = "add" => child \notin {"none", "reaped"}
    /\ Alive => /\ sumPc \in {"add", "wait"} /\ tofd = (sumPc = "add")
                /\ sent <= Len(Sum!Text)
                /\ hashed \o input = SubSeq(Sum!Text, 1, sent)
                /\ sumPc = "wait" => sent = Len(Sum!Text)

\* What comes out is the whole text; a child that ended well has written it.
ResultInv ==
    /\ output \in {Sum!Text, NULL} /\ printed \in {Sum!Text, NULL}
    /\ sumPc = "print" => sum = Sum!Text
    /\ child = "exited" /\ command = "c" => printed = Sum!Text
    /\ sumResult = 0 => printed # NULL

\* Nothing was sent and there is no child.
LEMMA ToolInit == ToolConstants /\ Sum!Init => PipeInv /\ ResultInv
  BY DEF ToolConstants, NotANumber, Sum!Init, PipeInv, ResultInv, Alive, Sum!Text

\* Names leave the toolbox for the pipe and the pipe for the child, in order.
LEMMA PipeNext ==
    ASSUME ToolConstants, PipeInv, [Sum!Next]_(Sum!vars)
    PROVE  PipeInv'
<1> USE DEF PipeInv, Alive, Sum!Ended, Sum!Unsent, Sum!Return, Sum!sha256sum, Sum!childVars
<1>0. Sum!Text \in Seq(Token) /\ Len(Sum!Text) \in Nat
      /\ SubSeq(Sum!Text, 1, 0) = <<>>
  BY DEF ToolConstants, Sum!Text
<1>1. ASSUME UNCHANGED command PROVE Sum!Text' = Sum!Text
  BY <1>1 DEF Sum!Text
<1>2. CASE Sum!Create \/ Sum!CreateGperf
  <2>1. /\ UNCHANGED <<command, sent, input, hashed>> /\ child = "none"
        /\ sent = 0 /\ input = <<>> /\ hashed = <<>>
    BY <1>2 DEF Sum!Create, Sum!CreateGperf
  <2>2. Sum!Text' = Sum!Text /\ hashed' = <<>> /\ input' = <<>> /\ sent' = 0
    BY <1>1, <2>1
  <2>3. CASE Sum!Fork
    <3>1. hashed' \o input' = SubSeq(Sum!Text', 1, sent') /\ sent' <= Len(Sum!Text')
      BY <1>0, <2>2
    <3> QED
      BY <2>1, <2>2, <2>3, <3>1 DEF Sum!Fork
  <2>4. CASE child' = child /\ sumPc' \in {"return", "exit"}
    BY <2>1, <2>4
  <2> QED
    BY <1>2, <2>3, <2>4 DEF Sum!Create, Sum!CreateGperf
<1>3. CASE Sum!Write
  <2>1. /\ UNCHANGED <<command, sumPc, tofd, child, hashed>> /\ sumPc = "add" /\ Alive
        /\ Len(input) < PipeSize
    BY <1>3 DEF Sum!Write
  <2>2. PICK n \in 1..PipeSize - Len(input) :
               /\ sent + n <= Len(Sum!Text) /\ sent' = sent + n
               /\ input' = input \o SubSeq(Sum!Text, sent + 1, sent + n)
    BY <1>3 DEF Sum!Write
  <2>3. n \in Nat
    BY <2>2
  <2>4. /\ input' \in Seq(Token)
        /\ hashed \o input' = SubSeq(Sum!Text, 1, sent + n)
    <3>1. PICK x \in Seq(Token) : x = Sum!Text
      BY <1>0
    <3>2. hashed \o input = SubSeq(x, 1, sent) /\ sent + n <= Len(x)
      BY <2>1, <2>2, <3>1
    <3>3. sent \in Nat /\ n \in Nat /\ hashed \in Seq(Token) /\ input \in Seq(Token)
      BY <2>3
    <3>4. PICK piece : piece = SubSeq(x, sent + 1, sent + n)
      OBVIOUS
    <3>5. PICK done : done = hashed \o input
      OBVIOUS
    <3> HIDE DEF PipeInv, Alive
    <3>6. piece \in Seq(Token)
      BY <3>2, <3>3, <3>4, SubSeqIn
    <3>7. input \o piece \in Seq(Token) /\ hashed \o (input \o piece) = done \o piece
      BY <3>3, <3>5, <3>6, Joined
    <3>8. done \o piece = SubSeq(x, 1, sent + n)
      BY <3>2, <3>3, <3>4, <3>5, Pieces
    <3> QED
      BY <2>2, <3>1, <3>4, <3>7, <3>8
  <2> QED
    BY <1>0, <1>1, <2>1, <2>2, <2>3, <2>4
<1>4. CASE Sum!Killed \/ Sum!WriteFails \/ Sum!WriteSkips
  BY <1>0, <1>1, <1>4 DEF Sum!Killed, Sum!WriteFails, Sum!WriteSkips
<1>5. CASE Sum!CloseInput
  BY <1>0, <1>1, <1>5 DEF Sum!CloseInput
<1>6. CASE Sum!Wait \/ Sum!WaitGperf
  BY <1>0, <1>1, <1>6 DEF Sum!Wait, Sum!WaitGperf
<1>7. CASE Sum!Emit \/ Sum!Exit
  BY <1>0, <1>1, <1>7 DEF Sum!Emit, Sum!Exit
<1>8. CASE Sum!CloseEnds \/ Sum!Exec
  BY <1>0, <1>1, <1>8 DEF Sum!CloseEnds, Sum!Exec
<1>9. CASE Sum!Read
  <2>1. /\ UNCHANGED <<command, sumPc, tofd, child, sent>> /\ child = "running"
        /\ input # <<>> /\ hashed' = Append(hashed, Head(input))
        /\ input' = Tail(input)
    BY <1>9 DEF Sum!Read
  <2>2. /\ hashed' \in Seq(Token) /\ input' \in Seq(Token)
        /\ hashed' \o input' = hashed \o input
    BY <2>1, NextPiece
  <2> QED
    BY <1>0, <1>1, <2>1, <2>2
<1>10. CASE Sum!Finish \/ Sum!Die
  BY <1>0, <1>1, <1>10 DEF Sum!Finish, Sum!Die
<1>11. CASE UNCHANGED Sum!vars
  BY <1>0, <1>1, <1>11 DEF Sum!vars
<1> QED
  BY <1>2, <1>3, <1>4, <1>5, <1>6, <1>7, <1>8, <1>9, <1>10, <1>11
     DEF Sum!Next, Sum!Toolbox, Sum!Child

\* Only a child that has read the whole text ends well.
LEMMA ResultNext ==
    ASSUME ToolConstants, PipeInv, ResultInv, [Sum!Next]_(Sum!vars)
    PROVE  ResultInv'
<1> USE DEF ResultInv, Sum!Ended, Sum!Unsent, Sum!Return, Sum!sha256sum, Sum!childVars,
            NotANumber
<1>0. NotANumber /\ Sum!Text # NULL
  BY DEF ToolConstants, Sum!Text, PipeInv
<1>1. ASSUME UNCHANGED command PROVE Sum!Text' = Sum!Text
  BY <1>1 DEF Sum!Text
<1>2. CASE Sum!Create \/ Sum!CreateGperf
  BY <1>0, <1>1, <1>2 DEF Sum!Create, Sum!CreateGperf, Sum!Fork
<1>3. CASE Sum!Write
  BY <1>0, <1>1, <1>3 DEF Sum!Write
<1>4. CASE Sum!Killed \/ Sum!WriteFails \/ Sum!WriteSkips
  BY <1>0, <1>1, <1>4 DEF Sum!Killed, Sum!WriteFails, Sum!WriteSkips
<1>5. CASE Sum!CloseInput
  BY <1>0, <1>1, <1>5 DEF Sum!CloseInput
<1>6. CASE Sum!Wait \/ Sum!WaitGperf
  BY <1>0, <1>1, <1>6 DEF Sum!Wait, Sum!WaitGperf
<1>7. CASE Sum!Emit \/ Sum!Exit
  BY <1>0, <1>1, <1>7 DEF Sum!Emit, Sum!Exit
<1>8. CASE Sum!CloseEnds \/ Sum!Exec
  BY <1>0, <1>1, <1>8 DEF Sum!CloseEnds, Sum!Exec
<1>9. CASE Sum!Read \/ Sum!Die
  BY <1>0, <1>1, <1>9 DEF Sum!Read, Sum!Die
<1>10. CASE Sum!Finish
  <2>1. hashed = Sum!Text
    <3>1. /\ hashed \in Seq(Token) /\ Sum!Text \in Seq(Token) /\ input = <<>>
          /\ hashed \o input = SubSeq(Sum!Text, 1, Len(Sum!Text))
      BY <1>10 DEF Sum!Finish, PipeInv, Alive, ToolConstants, Sum!Text
    <3> QED
      BY <3>1
  <2> QED
    BY <1>0, <1>1, <1>10, <2>1 DEF Sum!Finish
<1>11. CASE UNCHANGED Sum!vars
  BY <1>0, <1>1, <1>11 DEF Sum!vars
<1> QED
  BY <1>2, <1>3, <1>4, <1>5, <1>6, <1>7, <1>8, <1>9, <1>10, <1>11
     DEF Sum!Next, Sum!Toolbox, Sum!Child

\* ToolCommands alone.
LEMMA ToolAlone == ToolConstants /\ Sum!Spec => []Sum!OutputOfAllNames
<1> SUFFICES ASSUME ToolConstants PROVE Sum!Spec => []Sum!OutputOfAllNames
  OBVIOUS
<1>1. Sum!Init => PipeInv /\ ResultInv
  BY ToolInit
<1>2. PipeInv /\ ResultInv /\ [Sum!Next]_(Sum!vars) => PipeInv' /\ ResultInv'
  BY PipeNext, ResultNext
<1>3. ResultInv => Sum!OutputOfAllNames
  BY DEF ResultInv, Sum!OutputOfAllNames
<1> QED
  BY <1>1, <1>2, <1>3, PTL DEF Sum!Spec

-----------------------------------------------------------------------------
(* Get: what the loop that prints may rely on.                               *)

Arguments == Get!Options \cup Words
Printable == {Names[id] : id \in Get!Ids} \X ({NULL, Self} \cup Passwd)

\* Nothing is printed before the loop, nor in a query.  The loop has the user that
\* was asked for, or with --continue that of the process.
PrintInv ==
    /\ getPc \in {"options", "keys", "user", "emit", "exit"}
    /\ out \in Seq(Printable)
    /\ getPc \in {"options", "keys", "user"} => out = <<>> /\ current = Self
    /\ getPc \in {"user", "emit"} => ~Get!query
    /\ getPc = "emit" => \/ current = Get!asked
                         \/ current = Self /\ "-c" \in opts
    /\ current \in {Self} \cup Passwd
    /\ getPc # "exit" => getStatus = NULL
    /\ getPc = "exit" /\ out # <<>> => getStatus = 0 /\ ~Get!query

\* The keys that remain are keys; those passed are selected, and all are names
\* unless the command goes on with --continue, which is no query.
KeysInv ==
    /\ argv \in Seq(Arguments)
    /\ getPc = "options" => keys = NULL /\ sel = {}
    /\ getPc = "keys" =>
          /\ keys \in Seq(Arguments)
          /\ Get!ToSet(argv) \subseteq Get!ToSet(keys)
          /\ sel \cup {id \in Get!Ids : Names[id] \in Get!ToSet(argv)}
                = {id \in Get!Ids : Names[id] \in Get!ToSet(keys)}
          /\ "-c" \in opts \/ Get!ToSet(keys) \subseteq Get!ToSet(Names) \cup Get!ToSet(argv)
          /\ Get!query => "-c" \notin opts
    /\ getPc \in {"user", "emit"} =>
          /\ sel = {id \in Get!Ids : Names[id] \in Get!ToSet(keys)}
          /\ "-c" \in opts \/ Get!ToSet(keys) \subseteq Get!ToSet(Names)

\* No argument was read.
LEMMA GetInit == GetConstants /\ Get!Init => PrintInv /\ KeysInv
<1> SUFFICES ASSUME GetConstants, Get!Init PROVE PrintInv /\ KeysInv
  OBVIOUS
<1>1. argv \in Seq(Arguments)
  <2>1. PICK n \in 0..MaxArgs : argv \in [1..n -> Get!Options \cup Words]
    BY DEF Get!Init
  <2>2. n \in Nat
    BY <2>1 DEF GetConstants
  <2> QED
    BY <2>1, <2>2 DEF Arguments
<1>2. PrintInv
  BY DEF Get!Init, PrintInv
<1>3. KeysInv
  BY <1>1 DEF Get!Init, KeysInv
<1> QED
  BY <1>2, <1>3

\* Only the loop prints, and only after the user was set or passed over.
LEMMA PrintNext ==
    ASSUME GetConstants, PrintInv, [Get!Next]_(Get!vars)
    PROVE  PrintInv'
<1> USE DEF PrintInv, Get!Exit, Get!query, Get!asked
<1>1. CASE Get!Option
  BY <1>1 DEF Get!Option, GetConstants
<1>2. CASE Get!Checks
  BY <1>2 DEF Get!Checks, GetConstants
<1>3. CASE Get!Key
  BY <1>3 DEF Get!Key, Get!Error, GetConstants
<1>4. CASE Get!KeysDone
  BY <1>4 DEF Get!KeysDone, GetConstants
<1>5. CASE Get!SetUser
  BY <1>5 DEF Get!SetUser, Get!Error, Get!Uid, GetConstants
<1>6. CASE Get!Emit
  <2>1. <<Names[index], IF "-l" \in opts THEN NULL ELSE current>> \in Printable
    BY <1>6 DEF Get!Emit, Printable
  <2>2. out' \in Seq(Printable)
    BY <1>6, <2>1 DEF Get!Emit
  <2> QED
    BY <1>6, <2>2 DEF Get!Emit
<1>7. CASE Get!Emitted
  BY <1>7 DEF Get!Emitted, GetConstants
<1>8. CASE UNCHANGED Get!vars
  BY <1>8 DEF Get!vars
<1> QED
  BY <1>1, <1>2, <1>3, <1>4, <1>5, <1>6, <1>7, <1>8 DEF Get!Next

\* A turn of the loop prints a value of the user of the context.
LEMMA UserNext ==
    ASSUME PrintInv, Get!UserPrinted, [Get!Next]_(Get!vars)
    PROVE  Get!UserPrinted'
<1>1. CASE Get!Emit
  <2>1. /\ UNCHANGED <<opts, user>> /\ out \in Seq(Printable)
        /\ current = Get!asked \/ (current = Self /\ "-c" \in opts)
    BY <1>1 DEF Get!Emit, PrintInv
  <2>2. Get!asked' = Get!asked
    BY <2>1 DEF Get!asked, Get!Uid
  <2>3. CASE out' = out
    BY <2>1, <2>2, <2>3 DEF Get!UserPrinted
  <2>4. CASE out' # out
    <3>1. PICK e : /\ e = <<Names[index], IF "-l" \in opts THEN NULL ELSE current>>
                   /\ out' = Append(out, e)
      BY <1>1, <2>4 DEF Get!Emit
    <3>2. e[2] \in {NULL, current}
      BY <3>1
    <3>3. /\ DOMAIN out' = DOMAIN out \cup {Len(out) + 1} /\ out'[Len(out) + 1] = e
          /\ \A n \in DOMAIN out : out'[n] = out[n]
      BY <2>1, <3>1
    <3> QED
      BY <2>1, <2>2, <3>2, <3>3 DEF Get!UserPrinted
  <2> QED
    BY <2>3, <2>4
<1>2. CASE out' = <<>>
  BY <1>2 DEF Get!UserPrinted
<1>3. ASSUME UNCHANGED <<opts, user, out>> PROVE Get!UserPrinted'
  BY <1>3 DEF Get!UserPrinted, Get!asked, Get!Uid
<1>4. CASE Get!Option \/ Get!Checks \/ Get!Key \/ Get!KeysDone \/ Get!SetUser
  BY <1>2, <1>4
     DEF Get!Option, Get!Checks, Get!Key, Get!KeysDone, Get!SetUser, PrintInv
<1>5. CASE Get!Emitted \/ UNCHANGED Get!vars
  BY <1>3, <1>5 DEF Get!Emitted, Get!vars
<1> QED
  BY <1>1, <1>4, <1>5 DEF Get!Next

\* A key leaves the arguments.
LEMMA FirstKey ==
    ASSUME NEW S, NEW s \in Seq(S), s # <<>>
    PROVE  /\ Head(s) \in S /\ Tail(s) \in Seq(S)
           /\ Get!ToSet(s) = {Head(s)} \cup Get!ToSet(Tail(s))
<1>1. Len(s) \in Nat \ {0} /\ Head(s) = s[1] /\ Len(Tail(s)) = Len(s) - 1
      /\ Tail(s) \in Seq(S) /\ Head(s) \in S
  OBVIOUS
<1>2. \A n \in 1..Len(s) - 1 : Tail(s)[n] = s[n + 1]
  OBVIOUS
<1>3. ASSUME NEW e \in Get!ToSet(s) PROVE e \in {Head(s)} \cup Get!ToSet(Tail(s))
  <2>1. PICK n \in 1..Len(s) : e = s[n]
    BY <1>3 DEF Get!ToSet
  <2>2. CASE n = 1
    BY <1>1, <2>1, <2>2
  <2>3. CASE n # 1
    <3>1. PICK m \in 1..Len(s) - 1 : n = m + 1
      BY <1>1, <2>1, <2>3
    <3>2. m \in DOMAIN Tail(s) /\ Tail(s)[m] = e
      BY <1>1, <1>2, <2>1, <3>1
    <3> QED
      BY <3>2 DEF Get!ToSet
  <2> QED
    BY <2>2, <2>3
<1>4. ASSUME NEW e \in Get!ToSet(Tail(s)) PROVE e \in Get!ToSet(s)
  <2>1. PICK n \in 1..Len(s) - 1 : e = Tail(s)[n]
    BY <1>1, <1>4 DEF Get!ToSet
  <2>2. n + 1 \in 1..Len(s) /\ s[n + 1] = e
    BY <1>1, <1>2, <2>1
  <2> QED
    BY <2>2 DEF Get!ToSet
<1>5. Head(s) \in Get!ToSet(s)
  BY <1>1 DEF Get!ToSet
<1> QED
  BY <1>1, <1>3, <1>4, <1>5

\* No key is left in an empty list of arguments.
LEMMA NoKey == Get!ToSet(<<>>) = {}
  BY DEF Get!ToSet

\* A key that is passed is selected, or stops a command without --continue.
LEMMA KeysNext ==
    ASSUME GetConstants, PrintInv, KeysInv, [Get!Next]_(Get!vars)
    PROVE  KeysInv'
<1> USE DEF KeysInv, Get!Exit, Get!query
<1>0. getPc \in {"options", "keys", "user", "emit", "exit"}
  BY DEF PrintInv
<1>1. CASE Get!Option
  <2>1. argv' \in Seq(Arguments)
    <3>1. argv # <<>> /\ Tail(argv) \in Seq(Arguments)
      BY <1>1, FirstKey DEF Get!Option, Get!AtOption
    <3>2. Tail(argv) # <<>> => Tail(Tail(argv)) \in Seq(Arguments)
      BY <3>1, FirstKey
    <3>3. PICK rest : rest = Tail(argv)
      OBVIOUS
    <3>4. argv' = rest \/ argv' = IF rest = <<>> THEN <<>> ELSE Tail(rest)
      BY <1>1, <3>3, Zenon DEF Get!Option
    <3> QED
      BY <3>1, <3>2, <3>3, <3>4
  <2> QED
    BY <1>0, <1>1, <2>1 DEF Get!Option
<1>2. CASE Get!Checks
  BY <1>2 DEF Get!Checks
<1>3. CASE Get!Key
  <2>1. /\ Head(argv) \in Arguments /\ argv' \in Seq(Arguments)
        /\ Get!ToSet(argv) = {Head(argv)} \cup Get!ToSet(argv')
    BY <1>3, FirstKey DEF Get!Key
  <2>2. /\ UNCHANGED <<opts, keys>> /\ getPc = "keys"
        /\ sel' = sel \cup {id \in Get!Ids : Names[id] = Head(argv)}
        /\ getPc' \in {"keys", "exit"}
    BY <1>3 DEF Get!Key, Get!Error
  <2>3. Get!ToSet(argv') \subseteq Get!ToSet(keys')
    BY <2>1, <2>2
  <2>4. sel' \cup {id \in Get!Ids : Names[id] \in Get!ToSet(argv')}
           = {id \in Get!Ids : Names[id] \in Get!ToSet(keys')}
    BY <2>1, <2>2
  <2>5. getPc' = "keys" =>
           "-c" \in opts \/ Head(argv) \in Get!ToSet(Names)
    <3>1. Get!Ids = DOMAIN Names
      BY DEF GetConstants, Get!Ids
    <3> QED
      BY <1>3, <3>1 DEF Get!Key, Get!Error, Get!ToSet
  <2> QED
    BY <2>1, <2>2, <2>3, <2>4, <2>5
<1>4. CASE Get!KeysDone
  BY <1>4, NoKey DEF Get!KeysDone
<1>5. CASE Get!SetUser
  BY <1>5 DEF Get!SetUser, Get!Error
<1>6. CASE Get!Emit
  BY <1>6 DEF Get!Emit
<1>7. CASE Get!Emitted
  BY <1>7 DEF Get!Emitted
<1>8. CASE UNCHANGED Get!vars
  BY <1>8 DEF Get!vars
<1> QED
  BY <1>1, <1>2, <1>3, <1>4, <1>5, <1>6, <1>7, <1>8 DEF Get!Next

\* The lines printed by the first turns of the loop are those of the ids that the
\* selection, or its complement, has; the status of the end follows from the keys.
Chosen(m) == {id \in 1..m - 1 : (id \in sel) # Get!not}

EndInv ==
    /\ getPc \in {"options", "keys", "user"} => index = 1
    /\ getPc = "emit" => index \in 1..Len(Names) + 1 /\ Get!Prints(Chosen(index))
    /\ getPc = "exit" /\ keys # NULL /\ Get!query => (getStatus = 0) = Get!known
    /\ getPc = "exit" /\ keys # NULL /\ ~Get!query /\ getStatus = 0 =>
          /\ Get!Prints({id \in Get!Ids : Get!Wanted(Names[id])})
          /\ Get!known \/ "-c" \in opts

\* What is printed depends on the output only.
LEMMA SamePrints ==
    ASSUME NEW ids, UNCHANGED out
    PROVE  Get!Prints(ids) => Get!Prints(ids)'
  BY DEF Get!Prints

\* One more line, of an id greater than those of the lines before it.
LEMMA OneMoreLine ==
    ASSUME NEW ids \in SUBSET Nat, NEW id \in Nat, \A a \in ids : a < id,
           out \in Seq(Printable), Get!Prints(ids),
           NEW value, out' = Append(out, <<Names[id], value>>)
    PROVE  Get!Prints(ids \cup {id})'
<1>1. PICK place \in [DOMAIN out -> ids] :
         /\ \A m, n \in DOMAIN out : m < n => place[m] < place[n]
         /\ \A a \in ids : \E n \in DOMAIN out : place[n] = a
         /\ \A n \in DOMAIN out : out[n][1] = Names[place[n]]
  BY DEF Get!Prints
<1>2. PICK e : e = <<Names[id], value>>
  OBVIOUS
<1>3. PICK last : last = Len(out) + 1
  OBVIOUS
<1>4. /\ DOMAIN out = 1..last - 1 /\ DOMAIN out' = 1..last /\ last \in Nat \ {0}
      /\ out'[last] = e /\ \A n \in DOMAIN out : out'[n] = out[n]
  BY <1>2, <1>3
<1>5. e[1] = Names[id]
  BY <1>2
<1> DEFINE more == [n \in 1..last |-> IF n = last THEN id ELSE place[n]]
<1>6. more[last] = id /\ \A n \in DOMAIN out : n \in 1..last /\ n # last /\ more[n] = place[n]
  BY <1>4
<1>7. more \in [DOMAIN out' -> ids \cup {id}]
  BY <1>1, <1>4
<1> HIDE DEF more
<1>8. 1..last = DOMAIN out \cup {last}
  BY <1>4
<1>9. \A m, n \in DOMAIN out' : m < n => more[m] < more[n]
  <2> SUFFICES ASSUME NEW m \in 1..last, NEW n \in 1..last, m < n
               PROVE  more[m] < more[n]
    BY <1>4
  <2>1. m \in DOMAIN out
    BY <1>4
  <2>2. more[m] = place[m] /\ place[m] \in ids
    BY <1>1, <1>6, <2>1
  <2>3. CASE n = last
    BY <1>6, <2>2, <2>3
  <2>4. CASE n # last
    BY <1>1, <1>6, <1>8, <2>1, <2>2, <2>4
  <2> QED
    BY <2>3, <2>4
<1>10. \A a \in ids \cup {id} : \E n \in DOMAIN out' : more[n] = a
  BY <1>1, <1>4, <1>6, <1>8
<1>11. \A n \in DOMAIN out' : out'[n][1] = Names[more[n]]
  BY <1>1, <1>4, <1>5, <1>6, <1>8
<1> QED
  BY <1>7, <1>9, <1>10, <1>11 DEF Get!Prints

\* One turn prints one name or none.
LEMMA EmitPrints ==
    ASSUME GetConstants, PrintInv, EndInv, Get!Emit
    PROVE  index' \in 1..Len(Names) + 1 /\ Get!Prints(Chosen(index))'
<1>1. /\ index \in Nat \ {0} /\ index <= Len(Names) /\ Len(Names) \in Nat
      /\ index' = index + 1 /\ UNCHANGED <<sel, opts>> /\ Get!Prints(Chosen(index))
      /\ out \in Seq(Printable)
  BY DEF Get!Emit, Get!Ids, EndInv, PrintInv, GetConstants
<1>2. Chosen(index)' = Chosen(index)
         \cup (IF (index \in sel) # Get!not THEN {index} ELSE {})
  BY <1>1 DEF Chosen, Get!not
<1>3. PICK ids, id : ids = Chosen(index) /\ id = index
  OBVIOUS
<1>4. ids \in SUBSET Nat /\ id \in Nat /\ (\A a \in ids : a < id) /\ Get!Prints(ids)
  BY <1>1, <1>3 DEF Chosen
<1>5. CASE (index \in sel) # Get!not
  <2>1. PICK value : out' = Append(out, <<Names[id], value>>)
    BY <1>3, <1>5 DEF Get!Emit
  <2>2. Get!Prints(ids \cup {id})'
    BY <1>1, <1>4, <2>1, OneMoreLine
  <2>3. Chosen(index)' = ids \cup {id}
    BY <1>2, <1>3, <1>5
  <2>4. Get!Prints(Chosen(index))'
    BY <2>2, <2>3 DEF Get!Prints
  <2> QED
    BY <1>1, <2>4
<1>6. CASE ~((index \in sel) # Get!not)
  <2>1. Get!Prints(ids)'
    BY <1>4, <1>6, SamePrints DEF Get!Emit
  <2>2. Chosen(index)' = ids
    BY <1>2, <1>3, <1>6
  <2>3. Get!Prints(Chosen(index))'
    BY <2>1, <2>2 DEF Get!Prints
  <2> QED
    BY <1>1, <2>3
<1> QED
  BY <1>5, <1>6

\* A selection that has all the keys leaves the ids of the wanted names.
LEMMA AllChosen ==
    ASSUME Get!Ids = 1..index - 1,
           sel = {id \in Get!Ids : Names[id] \in Get!ToSet(keys)}
    PROVE  Chosen(index) = {id \in Get!Ids : Get!Wanted(Names[id])}
<1>1. \A id \in Get!Ids : (id \in sel) = (Names[id] \in Get!ToSet(keys))
  OBVIOUS
<1> QED
  BY <1>1 DEF Chosen, Get!Wanted

\* The status of the end follows from the keys.
LEMMA EndNext ==
    ASSUME GetConstants, PrintInv, KeysInv, EndInv, [Get!Next]_(Get!vars)
    PROVE  EndInv'
<1> USE DEF Get!Exit, Get!query
<1>0. /\ getPc \in {"options", "keys", "user", "emit", "exit"}
      /\ getPc # "exit" => getStatus = NULL
  BY DEF PrintInv
<1>1. CASE Get!Option
  BY <1>0, <1>1 DEF Get!Option, EndInv, KeysInv
<1>2. CASE Get!Checks
  BY <1>0, <1>2 DEF Get!Checks, EndInv, KeysInv
<1>3. CASE Get!Key
  <2>1. /\ Head(argv) \in Get!ToSet(argv) /\ Get!ToSet(argv) \subseteq Get!ToSet(keys)
        /\ UNCHANGED <<keys, opts, index>> /\ getPc = "keys"
        /\ Get!query => "-c" \notin opts
    BY <1>3, FirstKey DEF Get!Key, KeysInv
  <2>2. CASE {id \in Get!Ids : Names[id] = Head(argv)} = {} /\ "-c" \notin opts
    <3>1. Head(argv) \notin Get!ToSet(Names)
      BY <2>2 DEF Get!ToSet, Get!Ids, GetConstants
    <3>2. ~Get!known' /\ getPc' = "exit" /\ getStatus' = 1
      BY <1>3, <2>1, <2>2, <3>1 DEF Get!Key, Get!Error, Get!known
    <3>3. (getStatus' = 0) = Get!known' /\ getStatus' # 0
      BY <3>2 DEF Get!known
    <3> QED
      BY <3>2, <3>3 DEF EndInv
  <2>3. CASE ~({id \in Get!Ids : Names[id] = Head(argv)} = {} /\ "-c" \notin opts)
    <3>1. getPc' = "keys"
      BY <1>3, <2>1, <2>3 DEF Get!Key, Get!Error
    <3> QED
      BY <2>1, <3>1 DEF EndInv
  <2> QED
    BY <2>2, <2>3
<1>4. CASE Get!KeysDone
  <2>1. /\ UNCHANGED <<keys, opts, index>> /\ getPc = "keys" /\ index = 1
        /\ IF Get!query THEN getPc' = "exit" /\ getStatus' = 0 ELSE getPc' = "user"
    BY <1>4 DEF Get!KeysDone, EndInv
  <2>2. ASSUME Get!query PROVE Get!ToSet(keys) \subseteq Get!ToSet(Names)
    BY <1>4, <2>1, <2>2, NoKey DEF Get!KeysDone, KeysInv
  <2>3. Get!query /\ keys # NULL => Get!known'
    BY <2>1, <2>2 DEF Get!known
  <2> QED
    BY <2>1, <2>3 DEF EndInv
<1>5. CASE Get!SetUser
  <2>1. /\ UNCHANGED <<keys, opts, index, out, sel>> /\ getPc = "user" /\ index = 1
        /\ ~Get!query
        /\ getPc' = "emit" \/ (getPc' = "exit" /\ getStatus' = 1)
    <3>1. index = 1 /\ ~Get!query
      BY <1>5 DEF Get!SetUser, EndInv, PrintInv
    <3> QED
      BY <1>5, <3>1 DEF Get!SetUser, Get!Error
  <2>2. out' = <<>> /\ Chosen(index)' = {} /\ index' \in 1..Len(Names) + 1
    BY <1>5, <2>1 DEF Get!SetUser, PrintInv, Chosen, GetConstants
  <2>3. Get!Prints(Chosen(index))'
    <3>1. DOMAIN out' = {} /\ out' \in [{} -> {}]
      BY <2>2
    <3> QED
      BY <2>2, <3>1 DEF Get!Prints
  <2> QED
    BY <2>1, <2>2, <2>3 DEF EndInv, GetConstants
<1>6. CASE Get!Emit
  <2>1. getPc' = "emit"
    BY <1>6 DEF Get!Emit
  <2> QED
    BY <1>6, <2>1, EmitPrints DEF EndInv
<1>7. CASE Get!Emitted
  <2>1. /\ UNCHANGED <<keys, opts, index, out, sel>> /\ getPc = "emit" /\ ~Get!query
        /\ getPc' = "exit" /\ getStatus' = 0
        /\ Get!Prints(Chosen(index)) /\ Get!Ids = 1..index - 1
    BY <1>7 DEF Get!Emitted, EndInv, PrintInv, GetConstants, Get!Ids
  <2>2. PICK ids : ids = Chosen(index)
    OBVIOUS
  <2>3. ids = {id \in Get!Ids : Get!Wanted(Names[id])}
    BY <2>1, <2>2, AllChosen DEF KeysInv
  <2>4. Get!Prints(ids)'
    BY <2>1, <2>2, SamePrints
  <2>5. {id \in Get!Ids : Get!Wanted(Names[id])}' = ids
    BY <2>1, <2>3 DEF Get!Wanted, Get!not
  <2>6. keys # NULL => Get!known' \/ "-c" \in opts'
    BY <2>1 DEF Get!known, KeysInv
  <2>7. Get!Prints({id \in Get!Ids : Get!Wanted(Names[id])})'
    BY <2>4, <2>5 DEF Get!Prints
  <2> QED
    BY <2>1, <2>6, <2>7 DEF EndInv
<1>8. CASE UNCHANGED Get!vars
  <2>1. UNCHANGED <<getPc, getStatus, keys, opts, index, out, sel>>
    BY <1>8 DEF Get!vars
  <2>2. Chosen(index)' = Chosen(index) /\ Get!known' = Get!known
        /\ {id \in Get!Ids : Get!Wanted(Names[id])}'
              = {id \in Get!Ids : Get!Wanted(Names[id])}
    BY <2>1 DEF Chosen, Get!known, Get!Wanted, Get!not
  <2>3. Get!Prints(Chosen(index)) => Get!Prints(Chosen(index))'
    BY <2>1, <2>2 DEF Get!Prints
  <2>4. Get!Prints({id \in Get!Ids : Get!Wanted(Names[id])})
        => Get!Prints({id \in Get!Ids : Get!Wanted(Names[id])})'
    BY <2>1, <2>2 DEF Get!Prints
  <2> QED
    BY <2>1, <2>2, <2>3, <2>4 DEF EndInv
<1> QED
  BY <1>1, <1>2, <1>3, <1>4, <1>5, <1>6, <1>7, <1>8 DEF Get!Next

\* Get alone.
LEMMA GetAlone == GetConstants /\ Get!Spec => []Get!GetPrints
<1> DEFINE Inv == PrintInv /\ Get!UserPrinted /\ KeysInv /\ EndInv
<1> SUFFICES ASSUME GetConstants PROVE Get!Spec => []Get!GetPrints
  OBVIOUS
<1>1. Get!Init => Inv
  <2>1. Get!Init => EndInv /\ Get!UserPrinted
    BY DEF Get!Init, EndInv, Get!UserPrinted
  <2> QED
    BY <2>1, GetInit
<1>2. Inv /\ [Get!Next]_(Get!vars) => Inv'
  BY PrintNext, UserNext, KeysNext, EndNext
<1>3. Inv => Get!GetPrints
  <2> SUFFICES ASSUME Inv PROVE Get!GetPrints
    OBVIOUS
  <2>1. Get!Silent
    BY DEF PrintInv, Get!Silent, GetConstants
  <2>2. Get!Answered
    BY DEF EndInv, Get!Answered
  <2>3. Get!NamesPrinted
    BY DEF EndInv, Get!NamesPrinted
  <2> QED
    BY <2>1, <2>2, <2>3 DEF Get!GetPrints
<1> HIDE DEF Inv
<1> QED
  BY <1>1, <1>2, <1>3, PTL DEF Get!Spec
-----------------------------------------------------------------------------
(* ScratchCat: what is written and what remains of the current string are    *)
(* the concatenation of the strings started so far.                          *)
CatChars == Letters \cup {Cat!Slash}

\* CatJoined[k] is the concatenation of the first k strings.
CatJoined ==
    CHOOSE joined : joined = [n \in 0..Len(catStrings) |->
        IF n = 0 THEN <<>> ELSE Cat!Join(joined[n - 1], catStrings[n])]

CatTypes ==
    /\ ispath \in BOOLEAN /\ catStrings \in Seq(Seq(Letters))
    /\ catOut \in Seq(CatChars \cup {Cat!NUL}) /\ instr \in Seq(CatChars)
    /\ catC \in CatChars \cup {Cat!NUL}
    /\ catCapacity \in Nat \ {0} /\ Len(catOut) <= catCapacity
    /\ catStatus \in {"busy", "done", "null"}

\* k strings have been started.
CatStarted(k) ==
    /\ Len(todo) = Len(catStrings) - k
    /\ \A i \in 1..Len(catStrings) - k : todo[i] = catStrings[k + i]
    /\ IF catC = Cat!NUL THEN catOut = CatJoined[k]
                         ELSE catOut \o instr = CatJoined[k]

CatInv ==
    /\ CatTypes
    /\ todo \in Seq(Seq(Letters))
    /\ catStatus = "busy" =>
          /\ \E k \in 0..Len(catStrings) : CatStarted(k)
          /\ catOut \in Seq(CatChars)
          /\ catPc = Cat!Slash <=> catOut # <<>> /\ Cat!Last(catOut) = Cat!Slash
    /\ Cat!ConcatRight

\* One more string.
LEMMA JoinIn ==
    ASSUME NEW acc \in Seq(CatChars), NEW s \in Seq(Letters)
    PROVE  Cat!Join(acc, s) \in Seq(CatChars)
<1>1. s \in Seq(CatChars) /\ <<Cat!Slash>> \in Seq(CatChars)
  BY SeqMonotonic DEF CatChars
<1>2. s # <<>> => Tail(s) \in Seq(CatChars)
  BY <1>1, HeadTailProperties
<1>3. /\ acc \o s \in Seq(CatChars)
      /\ s # <<>> => acc \o Tail(s) \in Seq(CatChars)
      /\ acc \o <<Cat!Slash>> \o s \in Seq(CatChars)
  BY <1>1, <1>2, ConcatProperties
<1> QED
  BY <1>3 DEF Cat!Join

\* The concatenations of the first strings are those of the property.
LEMMA CatJoinedSteps ==
    ASSUME catStrings \in Seq(Seq(Letters))
    PROVE  /\ CatJoined[0] = <<>>
           /\ \A k \in 1..Len(catStrings) :
                 CatJoined[k] = Cat!Join(CatJoined[k - 1], catStrings[k])
           /\ \A k \in 0..Len(catStrings) : CatJoined[k] \in Seq(CatChars)
           /\ Cat!Expected = CatJoined[Len(catStrings)]
<1> DEFINE n == Len(catStrings)
           A == Seq(CatChars)
           step == [p \in (1..n) \X A |-> Cat!Join(p[2], catStrings[p[1]])]
<1>1. n \in Nat /\ \A k \in 1..n : catStrings[k] \in Seq(Letters)
  BY LenProperties, ElementOfSeq
<1>2. step \in [(1..n) \X A -> A]
  <2>1. \A p \in (1..n) \X A : Cat!Join(p[2], catStrings[p[1]]) \in A
    BY <1>1, JoinIn
  <2> HIDE DEF n, A
  <2> QED
    BY <2>1
<1>3. <<>> \in A
  OBVIOUS
<1>4. PICK f \in [0..n -> A] : f[0] = <<>> /\ \A k \in 1..n : f[k] = step[<<k, f[k - 1]>>]
  <2> DEFINE none == <<>>
  <2>1. n \in Nat /\ none \in A
    BY <1>1, <1>3
  <2> HIDE DEF n, A, step, none
  <2>2. step \in Facts!StepOn(n, A)
    BY <1>2 DEF Facts!StepOn
  <2>3. \E f \in [0..n -> A] : Facts!Recurses(f, none, step, n)
    BY <2>1, <2>2, Facts!Recursion
  <2> QED
    BY <2>3 DEF none, Facts!Recurses
<1>5. \A k \in 1..n : f[k] = Cat!Join(f[k - 1], catStrings[k])
  <2> SUFFICES ASSUME NEW k \in 1..n PROVE f[k] = Cat!Join(f[k - 1], catStrings[k])
    OBVIOUS
  <2>1. f[k - 1] \in A
    BY <1>1, k - 1 \in 0..n
  <2>2. <<k, f[k - 1]>> \in (1..n) \X A
    BY <2>1
  <2>3. step[<<k, f[k - 1]>>] = Cat!Join(f[k - 1], catStrings[k])
    <3> HIDE DEF n, A
    <3> QED
      BY <2>2
  <2> QED
    BY <1>4, <2>3
<1>6. \A k \in 0..n : f[k] = IF k = 0 THEN <<>> ELSE Cat!Join(f[k - 1], catStrings[k])
  BY <1>1, <1>4, <1>5
<1>7. f = [k \in 0..n |-> IF k = 0 THEN <<>> ELSE Cat!Join(f[k - 1], catStrings[k])]
  BY <1>4, <1>6
<1>8. CatJoined = [k \in 0..n |->
          IF k = 0 THEN <<>> ELSE Cat!Join(CatJoined[k - 1], catStrings[k])]
  BY <1>7 DEF CatJoined
<1>9. \A k \in 0..n :
          CatJoined[k] = IF k = 0 THEN <<>> ELSE Cat!Join(CatJoined[k - 1], catStrings[k])
  <2> DEFINE e(k) == IF k = 0 THEN <<>> ELSE Cat!Join(CatJoined[k - 1], catStrings[k])
  <2>1. CatJoined = [k \in 0..n |-> e(k)]
    BY <1>8
  <2> HIDE DEF e
  <2>2. \A k \in 0..n : CatJoined[k] = e(k)
    BY <2>1
  <2> QED
    BY <2>2 DEF e
<1>10. /\ CatJoined[0] = <<>>
       /\ \A k \in 1..n : CatJoined[k] = Cat!Join(CatJoined[k - 1], catStrings[k])
  BY <1>1, <1>9
<1>11. \A k \in 0..n : CatJoined[k] \in Seq(CatChars)
  <2> DEFINE K == {k \in Nat : k \in 0..n => CatJoined[k] \in Seq(CatChars)}
  <2>1. 0 \in K
    BY <1>10, EmptySeq
  <2>2. ASSUME NEW k \in Nat, k \in K PROVE k + 1 \in K
    <3> SUFFICES ASSUME k + 1 \in 0..n PROVE CatJoined[k + 1] \in Seq(CatChars)
      OBVIOUS
    <3>1. CatJoined[k] \in Seq(CatChars)
      BY <1>1, <2>2
    <3>2. CatJoined[k + 1] = Cat!Join(CatJoined[(k + 1) - 1], catStrings[k + 1])
      BY <1>1, <1>10
    <3>3. (k + 1) - 1 = k /\ catStrings[k + 1] \in Seq(Letters)
      BY <1>1
    <3> QED
      BY <3>1, <3>2, <3>3, JoinIn
  <2> HIDE DEF K
  <2>3. Nat \subseteq K
    BY <2>1, <2>2, Facts!Induction
  <2> QED
    BY <2>3 DEF K
<1>12. Cat!Expected = CatJoined[n]
  BY DEF Cat!Expected, CatJoined
<1> QED
  BY <1>10, <1>11, <1>12

\* It depends on the arguments only.
LEMMA SameJoined ==
    UNCHANGED <<ispath, catStrings>> =>
        CatJoined' = CatJoined /\ Cat!Expected' = Cat!Expected
  BY DEF CatJoined, Cat!Expected, Cat!Join

LEMMA CatInit == CatConstants /\ Cat!Init => CatInv
<1> SUFFICES ASSUME CatConstants, Cat!Init PROVE CatInv
  OBVIOUS
<1>1. catStrings \in Seq(Seq(Letters)) /\ Len(catStrings) \in Nat
  BY LenProperties DEF CatConstants, Cat!Init
<1>2. CatTypes /\ todo \in Seq(Seq(Letters))
  BY <1>1, EmptySeq DEF CatConstants, Cat!Init, CatTypes
<1>3. CatStarted(0)
  BY <1>1, CatJoinedSteps DEF Cat!Init, CatStarted
<1>4. catOut = <<>> /\ catOut \in Seq(CatChars) /\ catPc # Cat!Slash /\ catStatus = "busy"
  BY EmptySeq DEF Cat!Init, Cat!Slash
<1> QED
  BY <1>1, <1>2, <1>3, <1>4 DEF CatInv, CatTypes, Cat!ConcatRight

\* A character is written, or the area could not grow.
LEMMA PushNext ==
    ASSUME NEW ch \in CatChars \cup {Cat!NUL}, Cat!NUL \notin Letters, CatTypes,
           catStatus = "busy", catOut \in Seq(CatChars), Cat!Push(ch)
    PROVE  /\ catOut' \in Seq(CatChars \cup {Cat!NUL})
           /\ catCapacity' \in Nat \ {0} /\ Len(catOut') <= catCapacity'
           /\ \/ catOut' = Append(catOut, ch) /\ catPc' = ch
                 /\ catStatus' = IF ch = Cat!NUL THEN "done" ELSE "busy"
              \/ catStatus' = "null"
           /\ ch \in CatChars /\ catStatus' = "busy" =>
                 catOut' \in Seq(CatChars) /\ catOut' # <<>> /\ Cat!Last(catOut') = ch
<1>1. /\ Append(catOut, ch) \in Seq(CatChars \cup {Cat!NUL})
      /\ Len(Append(catOut, ch)) = Len(catOut) + 1 /\ Len(catOut) \in Nat
      /\ Append(catOut, ch)[Len(catOut) + 1] = ch /\ Append(catOut, ch) # <<>>
  <2>1. catOut \in Seq(CatChars \cup {Cat!NUL})
    BY DEF CatTypes
  <2> QED
    BY <2>1, AppendProperties, LenProperties
<1>2. ch \in CatChars => Append(catOut, ch) \in Seq(CatChars)
  BY AppendProperties
<1>3. catCapacity \in Nat /\ catCapacity > 0 /\ Len(catOut) <= catCapacity
  BY DEF CatTypes
<1>4. CASE catOut' = Append(catOut, ch) /\ catPc' = ch
           /\ catCapacity' = (IF Len(catOut) = catCapacity THEN 2 * catCapacity ELSE catCapacity)
           /\ catStatus' = (IF ch = Cat!NUL THEN "done" ELSE catStatus)
  <2>1. catCapacity' \in Nat \ {0} /\ Len(catOut) + 1 <= catCapacity'
    BY <1>1, <1>3, <1>4
  <2>2. Cat!Last(catOut') = ch
    BY <1>1, <1>4 DEF Cat!Last
  <2> QED
    BY <1>1, <1>2, <1>4, <2>1, <2>2
<1>5. CASE catStatus' = "null" /\ UNCHANGED <<catOut, catPc, catCapacity>>
  BY <1>3, <1>5 DEF CatTypes
<1> QED
  BY <1>4, <1>5 DEF Cat!Push

\* The next string.
LEMMA NextString ==
    ASSUME CatInv, NEW k \in 0..Len(catStrings), CatStarted(k), todo # <<>>
    PROVE  /\ k + 1 \in 1..Len(catStrings) /\ k + 1 \in 0..Len(catStrings)
           /\ Head(todo) \in Seq(Letters) /\ Tail(todo) \in Seq(Seq(Letters))
           /\ Len(Tail(todo)) = Len(catStrings) - (k + 1)
           /\ \A i \in 1..Len(catStrings) - (k + 1) : Tail(todo)[i] = catStrings[k + 1 + i]
           /\ CatJoined[k] \in Seq(CatChars)
           /\ CatJoined[k + 1] = Cat!Join(CatJoined[k], Head(todo))
<1>1. Len(catStrings) \in Nat /\ todo \in Seq(Seq(Letters)) /\ catStrings \in Seq(Seq(Letters))
  BY LenProperties DEF CatInv, CatTypes
<1>2. Len(todo) = Len(catStrings) - k /\ Len(todo) \in Nat \ {0}
  BY <1>1, EmptySeq DEF CatStarted
<1>3. /\ Head(todo) \in Seq(Letters) /\ Tail(todo) \in Seq(Seq(Letters))
      /\ Len(Tail(todo)) = Len(todo) - 1
      /\ \A i \in 1..Len(Tail(todo)) : Tail(todo)[i] = todo[i + 1]
  BY <1>1, HeadTailProperties
<1>4. Head(todo) = catStrings[k + 1]
  BY <1>1, <1>2 DEF CatStarted
<1>5. ASSUME NEW i \in 1..Len(catStrings) - (k + 1)
      PROVE  Tail(todo)[i] = catStrings[k + 1 + i]
  <2>1. i + 1 \in 1..Len(catStrings) - k /\ k + (i + 1) = k + 1 + i
    BY <1>1
  <2>2. todo[i + 1] = catStrings[k + (i + 1)]
    BY <2>1 DEF CatStarted
  <2> QED
    BY <1>2, <1>3, <2>1, <2>2
<1>6. CatJoined[k + 1] = Cat!Join(CatJoined[(k + 1) - 1], catStrings[k + 1])
  BY <1>1, <1>2, CatJoinedSteps, k + 1 \in 1..Len(catStrings)
<1>7. (k + 1) - 1 = k /\ CatJoined[k] \in Seq(CatChars)
  BY <1>1, CatJoinedSteps
<1>8. /\ k + 1 \in 1..Len(catStrings) /\ k + 1 \in 0..Len(catStrings)
      /\ Len(Tail(todo)) = Len(catStrings) - (k + 1)
  BY <1>1, <1>2, <1>3
<1> QED
  BY <1>3, <1>4, <1>5, <1>6, <1>7, <1>8

\* A turn of the loop that starts no string.
LEMMA GoOn ==
    ASSUME CatConstants, CatInv, Cat!Finish \/ Cat!Continue
    PROVE  CatInv'
<1>1. /\ catStatus = "busy" /\ catOut \in Seq(CatChars) /\ todo' = todo
      /\ catStrings' = catStrings /\ ispath' = ispath
      /\ catPc = Cat!Slash <=> catOut # <<>> /\ Cat!Last(catOut) = Cat!Slash
  BY DEF CatInv, Cat!Finish, Cat!Continue
<1>2. PICK k \in 0..Len(catStrings) : CatStarted(k)
  BY <1>1 DEF CatInv
<1>3. Cat!NUL \notin CatChars /\ Cat!NUL \notin Letters
  BY DEF CatConstants, CatChars, Cat!NUL, Cat!Slash
<1>4. CatJoined' = CatJoined /\ Cat!Expected' = Cat!Expected
  BY <1>1, SameJoined
<1>5. CatTypes /\ todo \in Seq(Seq(Letters)) /\ Len(catStrings) \in Nat
  BY LenProperties DEF CatInv, CatTypes
<1>6. CASE Cat!Finish
  <2>1. todo = <<>> /\ catC = Cat!NUL /\ Cat!Push(Cat!NUL) /\ UNCHANGED <<instr, catC>>
    BY <1>6 DEF Cat!Finish
  <2>2. k = Len(catStrings)
    BY <1>2, <1>5, <2>1 DEF CatStarted
  <2>3. catOut = Cat!Expected
    BY <1>2, <1>5, <2>1, <2>2, CatJoinedSteps DEF CatStarted, CatTypes
  <2>4. /\ catOut' \in Seq(CatChars \cup {Cat!NUL})
        /\ catCapacity' \in Nat \ {0} /\ Len(catOut') <= catCapacity'
        /\ \/ catOut' = Append(catOut, Cat!NUL) /\ catStatus' = "done"
           \/ catStatus' = "null"
    BY <1>1, <1>3, <1>5, <2>1, PushNext
  <2>5. CatTypes'
    BY <1>1, <1>5, <2>1, <2>4 DEF CatTypes
  <2>6. Cat!ConcatRight'
    BY <1>4, <2>3, <2>4 DEF Cat!ConcatRight
  <2> QED
    BY <1>1, <1>5, <2>4, <2>5, <2>6 DEF CatInv
<1>7. CASE Cat!Continue /\ instr = <<>>
  <2>1. /\ catC # Cat!NUL /\ catC' = Cat!NUL
        /\ UNCHANGED <<instr, catPc, catOut, catCapacity, catStatus>>
    BY <1>7 DEF Cat!Continue
  <2>2. catOut = CatJoined[k]
    BY <1>1, <1>2, <1>7, <2>1, ConcatEmptySeq DEF CatStarted
  <2>3. CatStarted(k)'
    BY <1>1, <1>2, <1>4, <2>1, <2>2 DEF CatStarted
  <2>4. CatTypes'
    BY <1>1, <1>5, <2>1 DEF CatTypes
  <2>5. Cat!ConcatRight'
    BY <1>1, <1>5, <2>1 DEF Cat!ConcatRight, CatTypes
  <2> QED
    BY <1>1, <1>5, <2>1, <2>3, <2>4, <2>5 DEF CatInv
<1>8. CASE Cat!Continue /\ instr # <<>>
  <2>1. /\ catC # Cat!NUL /\ catC' = Head(instr) /\ instr' = Tail(instr)
        /\ Cat!Push(Head(instr))
    BY <1>8 DEF Cat!Continue
  <2>2. /\ Head(instr) \in CatChars /\ Tail(instr) \in Seq(CatChars)
        /\ Append(catOut, Head(instr)) \o Tail(instr) = catOut \o instr
    BY <1>1, <1>5, <1>8, HeadTailProperties, NextPiece DEF CatTypes
  <2>3. /\ catOut' \in Seq(CatChars \cup {Cat!NUL})
        /\ catCapacity' \in Nat \ {0} /\ Len(catOut') <= catCapacity'
        /\ \/ catOut' = Append(catOut, Head(instr)) /\ catPc' = Head(instr)
              /\ catStatus' = "busy"
           \/ catStatus' = "null"
        /\ catStatus' = "busy" =>
              /\ catOut' \in Seq(CatChars) /\ catOut' # <<>>
              /\ Cat!Last(catOut') = Head(instr)
    <3> DEFINE ch == Head(instr)
    <3>1. ch \in CatChars /\ ch # Cat!NUL /\ Cat!Push(ch)
      BY <1>3, <2>1, <2>2
    <3> HIDE DEF ch
    <3>2. ch \in CatChars \cup {Cat!NUL}
      BY <3>1
    <3>3. /\ catOut' \in Seq(CatChars \cup {Cat!NUL})
          /\ catCapacity' \in Nat \ {0} /\ Len(catOut') <= catCapacity'
          /\ \/ catOut' = Append(catOut, ch) /\ catPc' = ch
                /\ catStatus' = IF ch = Cat!NUL THEN "done" ELSE "busy"
             \/ catStatus' = "null"
          /\ ch \in CatChars /\ catStatus' = "busy" =>
                catOut' \in Seq(CatChars) /\ catOut' # <<>> /\ Cat!Last(catOut') = ch
      BY <1>1, <1>3, <1>5, <3>1, <3>2, PushNext
    <3> QED
      BY <3>1, <3>3 DEF ch
  <2>4. CatTypes'
    BY <1>1, <1>5, <2>1, <2>2, <2>3 DEF CatTypes
  <2>5. catStatus' = "busy" => CatStarted(k)'
    BY <1>1, <1>2, <1>3, <1>4, <2>1, <2>2, <2>3 DEF CatStarted
  <2>6. Cat!ConcatRight'
    BY <2>3 DEF Cat!ConcatRight
  <2> QED
    BY <1>1, <1>5, <2>3, <2>4, <2>5, <2>6 DEF CatInv
<1> QED
  BY <1>6, <1>7, <1>8

\* A new string has been started, of which nothing, a slash or its first character is
\* written, when what is written and what remains are what the property joins.
LEMMA Started ==
    ASSUME CatConstants, CatInv, NEW k \in 0..Len(catStrings), CatStarted(k), todo # <<>>,
           todo' = Tail(todo), UNCHANGED <<ispath, catStrings>>,
           catStatus' \in {"busy", "null"}, instr' \in Seq(CatChars),
           catC' \in CatChars \cup {Cat!NUL},
           catOut' \in Seq(CatChars \cup {Cat!NUL}),
           catCapacity' \in Nat \ {0}, Len(catOut') <= catCapacity',
           catStatus' = "busy" =>
              /\ catOut' \in Seq(CatChars)
              /\ catPc' = Cat!Slash <=> catOut' # <<>> /\ Cat!Last(catOut') = Cat!Slash
              /\ IF catC' = Cat!NUL THEN catOut' = Cat!Join(CatJoined[k], Head(todo))
                                    ELSE catOut' \o instr' = Cat!Join(CatJoined[k], Head(todo))
    PROVE  CatInv'
<1>1. CatJoined' = CatJoined
  BY SameJoined
<1>2. /\ k + 1 \in 0..Len(catStrings) /\ Tail(todo) \in Seq(Seq(Letters))
      /\ Len(Tail(todo)) = Len(catStrings) - (k + 1)
      /\ \A i \in 1..Len(catStrings) - (k + 1) : Tail(todo)[i] = catStrings[k + 1 + i]
      /\ CatJoined[k + 1] = Cat!Join(CatJoined[k], Head(todo))
  BY NextString
<1>3. CatTypes'
  BY DEF CatInv, CatTypes
<1>4. catStatus' = "busy" => CatStarted(k + 1)'
  BY <1>1, <1>2 DEF CatStarted
<1>5. Cat!ConcatRight'
  BY DEF Cat!ConcatRight
<1> QED
  BY <1>2, <1>3, <1>4, <1>5 DEF CatInv

\* A turn of the loop that starts a string.
LEMMA StartNext ==
    ASSUME CatConstants, CatInv, Cat!SkipEmpty \/ Cat!Start
    PROVE  CatInv'
<1> DEFINE s == Head(todo)
<1>1. /\ catStatus = "busy" /\ catC = Cat!NUL /\ todo # <<>> /\ todo' = Tail(todo)
      /\ UNCHANGED <<ispath, catStrings>>
  BY DEF Cat!SkipEmpty, Cat!Start
<1>2. PICK k \in 0..Len(catStrings) : CatStarted(k)
  BY <1>1 DEF CatInv
<1>3. /\ CatTypes /\ catOut \in Seq(CatChars) /\ catOut = CatJoined[k]
      /\ catPc = Cat!Slash <=> catOut # <<>> /\ Cat!Last(catOut) = Cat!Slash
  BY <1>1, <1>2 DEF CatInv, CatStarted
<1>4. s \in Seq(Letters) /\ s \in Seq(CatChars)
  BY <1>1, <1>2, NextString, SeqMonotonic DEF CatChars
<1>5. Cat!NUL \notin CatChars /\ Cat!NUL \notin Letters /\ Cat!Slash \in CatChars
  BY DEF CatConstants, CatChars, Cat!NUL, Cat!Slash
<1>6. CASE Cat!SkipEmpty
  <2>1. s = <<>> /\ instr' = <<>> /\ UNCHANGED <<catC, catPc, catOut, catCapacity, catStatus>>
    BY <1>6 DEF Cat!SkipEmpty
  <2>2. Cat!Join(CatJoined[k], s) = catOut
    BY <1>3, <2>1, ConcatEmptySeq DEF Cat!Join
  <2>3. /\ instr' \in Seq(CatChars) /\ catOut' \in Seq(CatChars \cup {Cat!NUL})
        /\ catC' = Cat!NUL /\ catCapacity' \in Nat \ {0} /\ Len(catOut') <= catCapacity'
    BY <1>1, <1>3, <2>1, EmptySeq DEF CatTypes
  <2> HIDE DEF s
  <2> QED
    BY <1>1, <1>2, <1>3, <2>1, <2>2, <2>3, Started DEF s
<1>7. CASE Cat!Start
  <2>1. s # <<>>
    BY <1>7 DEF Cat!Start
  <2>2. s[1] \in CatChars /\ Tail(s) \in Seq(CatChars) /\ Head(s) = s[1]
    BY <1>4, <2>1, HeadTailProperties
  \* A character ch is written, and then remains what instr is.
  <2>3. ASSUME NEW ch \in CatChars, Cat!Push(ch), catC' \in CatChars, instr' \in Seq(CatChars),
               Append(catOut, ch) \o instr' = Cat!Join(catOut, s)
        PROVE  CatInv'
    <3>1. ch # Cat!NUL /\ ch \in CatChars \cup {Cat!NUL}
      BY <1>5, <2>3
    <3>2. /\ catOut' \in Seq(CatChars \cup {Cat!NUL})
          /\ catCapacity' \in Nat \ {0} /\ Len(catOut') <= catCapacity'
          /\ \/ catOut' = Append(catOut, ch) /\ catPc' = ch
                /\ catStatus' = IF ch = Cat!NUL THEN "done" ELSE "busy"
             \/ catStatus' = "null"
          /\ ch \in CatChars /\ catStatus' = "busy" =>
                catOut' \in Seq(CatChars) /\ catOut' # <<>> /\ Cat!Last(catOut') = ch
      BY <1>1, <1>3, <1>5, <2>3, <3>1, PushNext
    <3>3. /\ catStatus' \in {"busy", "null"} /\ catC' # Cat!NUL
          /\ catStatus' = "busy" =>
              /\ catOut' \in Seq(CatChars)
              /\ catPc' = Cat!Slash <=> catOut' # <<>> /\ Cat!Last(catOut') = Cat!Slash
              /\ catOut' \o instr' = Cat!Join(CatJoined[k], s)
      BY <1>3, <1>5, <2>3, <3>1, <3>2
    <3> HIDE DEF s
    <3> QED
      BY <1>1, <1>2, <2>3, <3>2, <3>3, Started DEF s
  <2>4. CASE /\ ispath /\ s[1] # Cat!Slash /\ catPc # Cat!Slash
             /\ catC' = Cat!Slash /\ instr' = s /\ Cat!Push(Cat!Slash)
    <3>1. Cat!Join(catOut, s) = catOut \o <<Cat!Slash>> \o s
      BY <1>3, <2>1, <2>4 DEF Cat!Join
    <3>2. Append(catOut, Cat!Slash) = catOut \o <<Cat!Slash>>
      BY <1>3, <1>5, AppendIsConcat
    <3> QED
      BY <1>4, <1>5, <2>3, <2>4, <3>1, <3>2
  <2>5. CASE /\ ispath /\ s[1] = Cat!Slash /\ catPc = Cat!Slash
             /\ catC' = Cat!Slash /\ instr' = Tail(s)
             /\ UNCHANGED <<catPc, catOut, catCapacity, catStatus>>
    <3>1. Cat!Join(catOut, s) = catOut \o Tail(s)
      BY <1>3, <2>1, <2>5 DEF Cat!Join
    <3>2. /\ catOut' \in Seq(CatChars \cup {Cat!NUL}) /\ catC' # Cat!NUL
          /\ catCapacity' \in Nat \ {0} /\ Len(catOut') <= catCapacity'
          /\ instr' \in Seq(CatChars) /\ catC' \in CatChars
      BY <1>3, <1>5, <2>2, <2>5 DEF CatTypes
    <3>3. catOut' \o instr' = Cat!Join(CatJoined[k], s)
      BY <1>3, <2>5, <3>1
    <3> HIDE DEF s
    <3> QED
      BY <1>1, <1>2, <1>3, <2>5, <3>2, <3>3, Started DEF s
  <2>6. CASE /\ ispath => (s[1] = Cat!Slash) # (catPc = Cat!Slash)
             /\ catC' = s[1] /\ instr' = Tail(s) /\ Cat!Push(s[1])
    <3>1. Cat!Join(catOut, s) = catOut \o s
      BY <1>3, <2>1, <2>6 DEF Cat!Join
    <3>2. Append(catOut, s[1]) \o Tail(s) = catOut \o s
      <4>1. Append(catOut, Head(s)) \o Tail(s) = catOut \o s
        <5>1. catOut \in Seq(CatChars) /\ s \in Seq(CatChars)
          BY <1>3, <1>4
        <5> HIDE DEF s
        <5> QED
          BY <2>1, <5>1, NextPiece
      <4> QED
        BY <2>2, <4>1
    <3> QED
      BY <2>2, <2>3, <2>6, <3>1, <3>2
  <2> QED
    BY <1>7, <2>4, <2>5, <2>6 DEF Cat!Start
<1> QED
  BY <1>6, <1>7

\* ScratchCat alone, for any strings and any first size of the area.
LEMMA CatAlone == CatConstants /\ Cat!Spec => []Cat!ConcatRight
<1> SUFFICES ASSUME CatConstants PROVE Cat!Spec => []Cat!ConcatRight
  OBVIOUS
<1>1. Cat!Init => CatInv
  BY CatInit
<1>2. CatInv /\ [Cat!Next]_(Cat!vars) => CatInv'
  <2> SUFFICES ASSUME CatInv, [Cat!Next]_(Cat!vars) PROVE CatInv'
    OBVIOUS
  <2>1. CASE UNCHANGED Cat!vars
    <3>1. CatJoined' = CatJoined /\ Cat!Expected' = Cat!Expected
      BY <2>1, SameJoined DEF Cat!vars
    <3>2. \A k : CatStarted(k)' <=> CatStarted(k)
      BY <2>1, <3>1 DEF Cat!vars, CatStarted
    <3> QED
      BY <2>1, <3>1, <3>2 DEF Cat!vars, CatInv, CatTypes, Cat!ConcatRight
  <2>2. CASE Cat!Next
    BY <2>2, GoOn, StartNext DEF Cat!Next
  <2> QED
    BY <2>1, <2>2
<1>3. CatInv => Cat!ConcatRight
  BY DEF CatInv
<1> QED
  BY <1>1, <1>2, <1>3, PTL DEF Cat!Spec

-----------------------------------------------------------------------------
(* Generators: the keys of a file, sorted, are what its names make, and two  *)
(* lists of names of which the text is the same are the same.                *)
Character(s, i) == IF i \in DOMAIN s THEN s[i] ELSE Gen!Term

LEMMA CharacterIs ==
    ASSUME NEW s \in Gen!Name
    PROVE  /\ DOMAIN s = 1..Len(s) /\ Len(s) \in Nat
           /\ \A i \in Nat \ {0} : Character(s, i) \in Nat
           /\ \A i \in 1..Len(s) : Character(s, i) = s[i] /\ s[i] \in Nat \ {0}
           /\ \A i \in Nat : i \notin 1..Len(s) => Character(s, i) = 0
<1>1. DOMAIN s = 1..Len(s) /\ Len(s) \in Nat /\ \A i \in 1..Len(s) : s[i] \in Nat \ {0}
  BY LenProperties, ElementOfSeq DEF Gen!Name
<1> QED
  BY <1>1 DEF Character, Gen!Term

\* The order of strcmp, with the end of a string as a character below the others.
LEMMA BeforeIs ==
    ASSUME NEW s \in Gen!Name, NEW t \in Gen!Name
    PROVE  Gen!Before(s, t) <=>
               \E i \in Nat \ {0} : /\ Character(s, i) < Character(t, i)
                                    /\ \A j \in 1..i - 1 : Character(s, j) = Character(t, j)
<1>1. Gen!Before(s, t) <=>
          \E i \in DOMAIN t : /\ Character(s, i) < t[i]
                              /\ \A j \in 1..i - 1 : Character(s, j) = t[j]
  BY DEF Gen!Before, Character
<1>2. ASSUME NEW i \in Nat \ {0}, Character(s, i) < Character(t, i)
      PROVE  i \in 1..Len(t)
  <2>1. Character(s, i) \in Nat
    BY CharacterIs
  <2> QED
    BY <1>2, <2>1, CharacterIs
<1>3. \A i \in 1..Len(t) : /\ i \in Nat \ {0} /\ t[i] = Character(t, i)
                           /\ \A j \in 1..i - 1 : t[j] = Character(t, j)
  BY CharacterIs
<1>4. DOMAIN t = 1..Len(t)
  BY CharacterIs
<1> QED
  BY <1>1, <1>2, <1>3, <1>4

\* It is transitive.
LEMMA BeforeTransitive ==
    ASSUME NEW s \in Gen!Name, NEW t \in Gen!Name, NEW u \in Gen!Name,
           Gen!Before(s, t), Gen!Before(t, u)
    PROVE  Gen!Before(s, u)
<1>1. PICK i \in Nat \ {0} : /\ Character(s, i) < Character(t, i)
                             /\ \A j \in 1..i - 1 : Character(s, j) = Character(t, j)
  BY BeforeIs
<1>2. PICK k \in Nat \ {0} : /\ Character(t, k) < Character(u, k)
                             /\ \A j \in 1..k - 1 : Character(t, j) = Character(u, j)
  BY BeforeIs
<1>3. \A j \in Nat \ {0} : /\ Character(s, j) \in Nat /\ Character(t, j) \in Nat
                           /\ Character(u, j) \in Nat
  BY CharacterIs
<1>4. PICK m \in {i, k} : m <= i /\ m <= k
  OBVIOUS
<1>5. Character(s, m) < Character(u, m)
  <2>1. CASE i < k
    BY <1>1, <1>2, <1>3, <1>4, <2>1
  <2>2. CASE k < i
    BY <1>1, <1>2, <1>3, <1>4, <2>2
  <2>3. CASE k = i
    BY <1>1, <1>2, <1>3, <1>4, <2>3
  <2> QED
    BY <2>1, <2>2, <2>3
<1>6. \A j \in 1..m - 1 : Character(s, j) = Character(u, j)
  BY <1>1, <1>2, <1>4
<1> QED
  BY <1>4, <1>5, <1>6, BeforeIs

\* It orders any two names.
LEMMA BeforeTotal ==
    ASSUME NEW s \in Gen!Name, NEW t \in Gen!Name, s # t
    PROVE  Gen!Before(s, t) \/ Gen!Before(t, s)
<1> DEFINE D == {i \in Nat \ {0} : Character(s, i) # Character(t, i)}
<1>1. D # {}
  <2>1. SUFFICES ASSUME \A i \in Nat \ {0} : Character(s, i) = Character(t, i) PROVE FALSE
    OBVIOUS
  <2>2. Len(s) = Len(t)
    <3>1. Len(s) \in Nat /\ Len(t) \in Nat
      BY CharacterIs
    <3>2. ASSUME Len(s) < Len(t) PROVE FALSE
      <4>1. Character(s, Len(s) + 1) = 0
        BY <3>1, CharacterIs
      <4>2. Len(s) + 1 \in 1..Len(t)
        BY <3>1, <3>2
      <4>3. Character(t, Len(s) + 1) # 0
        BY <4>2, CharacterIs
      <4> QED
        BY <2>1, <3>1, <4>1, <4>3
    <3>3. ASSUME Len(t) < Len(s) PROVE FALSE
      <4>1. Character(t, Len(t) + 1) = 0
        BY <3>1, CharacterIs
      <4>2. Len(t) + 1 \in 1..Len(s)
        BY <3>1, <3>3
      <4>3. Character(s, Len(t) + 1) # 0
        BY <4>2, CharacterIs
      <4> QED
        BY <2>1, <3>1, <4>1, <4>3
    <3> QED
      BY <3>1, <3>2, <3>3
  <2>3. \A i \in 1..Len(s) : s[i] = t[i]
    BY <2>1, <2>2, CharacterIs
  <2> QED
    BY <2>2, <2>3, SeqEqual DEF Gen!Name
<1>2. PICK m \in D : \A k \in D : m <= k
  BY <1>1, Facts!LeastNatural
<1>3. /\ \A j \in 1..m - 1 : Character(s, j) = Character(t, j)
      /\ \A j \in 1..m - 1 : Character(t, j) = Character(s, j)
  BY <1>2
<1>4. Character(s, m) < Character(t, m) \/ Character(t, m) < Character(s, m)
  BY CharacterIs
<1> QED
  BY <1>3, <1>4, BeforeIs

\* s has the names of a sequence, each one before those that follow.
Arranged(s, given) ==
    /\ s \in [DOMAIN given -> Gen!ToSet(given)] /\ Gen!ToSet(s) = Gen!ToSet(given)
    /\ \A i, j \in DOMAIN given : i < j => Gen!Before(s[i], s[j])

\* A name finds its place among others that are arranged.
LEMMA Inserted ==
    ASSUME NEW given \in Seq(Gen!Name), NEW x \in Gen!Name, NEW s, Arranged(s, given),
           x \notin Gen!ToSet(given)
    PROVE  \E u : Arranged(u, Append(given, x))
<1> DEFINE n == Len(given)
           T == {k \in 1..n + 1 : k = n + 1 \/ Gen!Before(x, s[k])}
<1>1. /\ n \in Nat /\ DOMAIN given = 1..n /\ Gen!ToSet(given) = {given[i] : i \in 1..n}
      /\ Gen!ToSet(given) \subseteq Gen!Name
  BY LenProperties, ElementOfSeq DEF Gen!ToSet
<1>2. /\ s \in [1..n -> Gen!ToSet(given)] /\ Gen!ToSet(given) = {s[i] : i \in 1..n}
      /\ \A i \in 1..n : s[i] \in Gen!Name /\ s[i] # x
      /\ \A i, j \in 1..n : i < j => Gen!Before(s[i], s[j])
  BY <1>1 DEF Arranged, Gen!ToSet
<1>3. /\ DOMAIN Append(given, x) = 1..n + 1
      /\ Gen!ToSet(Append(given, x)) = Gen!ToSet(given) \cup {x}
  <2>1. /\ Append(given, x) \in Seq(Gen!Name) /\ Len(Append(given, x)) = n + 1
        /\ \A i \in 1..n : Append(given, x)[i] = given[i]
        /\ Append(given, x)[n + 1] = x
    BY AppendProperties
  <2>2. DOMAIN Append(given, x) = 1..n + 1
    BY <2>1, LenProperties
  <2> QED
    BY <1>1, <2>1, <2>2 DEF Gen!ToSet
<1>4. PICK p \in T : \A k \in T : p <= k
  <2>1. T \subseteq Nat /\ n + 1 \in T
    BY <1>1
  <2> QED
    BY <2>1, Facts!LeastNatural
<1>5. \A k \in 1..p - 1 : k \in 1..n /\ Gen!Before(s[k], x)
  <2> SUFFICES ASSUME NEW k \in 1..p - 1 PROVE k \in 1..n /\ Gen!Before(s[k], x)
    OBVIOUS
  <2>1. k \in 1..n /\ k \notin T
    BY <1>1, <1>4
  <2> QED
    BY <1>2, <2>1, BeforeTotal
<1>6. \A k \in p..n : Gen!Before(x, s[k])
  <2> SUFFICES ASSUME NEW k \in p..n PROVE Gen!Before(x, s[k])
    OBVIOUS
  <2>1. p \in 1..n /\ k \in 1..n /\ Gen!Before(x, s[p])
    BY <1>1, <1>4
  <2>2. CASE k = p
    BY <2>1, <2>2
  <2>3. CASE k # p
    <3>1. Gen!Before(s[p], s[k])
      BY <1>2, <2>1, <2>3
    <3> QED
      BY <1>2, <2>1, <3>1, BeforeTransitive
  <2> QED
    BY <2>2, <2>3
<1> DEFINE u == [k \in 1..n + 1 |-> IF k < p THEN s[k] ELSE IF k = p THEN x ELSE s[k - 1]]
<1>7. \A k \in 1..n + 1 : /\ k < p => k \in 1..n /\ u[k] = s[k]
                          /\ k = p => u[k] = x
                          /\ k > p => k - 1 \in p..n /\ k - 1 \in 1..n /\ u[k] = s[k - 1]
  BY <1>1, <1>4
<1>8. u \in [1..n + 1 -> Gen!ToSet(given) \cup {x}]
  <2>1. \A k \in 1..n + 1 : u[k] \in Gen!ToSet(given) \cup {x}
    BY <1>1, <1>2, <1>4, <1>7
  <2> QED
    BY <2>1
<1> HIDE DEF u
<1>9. Gen!ToSet(u) = Gen!ToSet(given) \cup {x}
  <2>1. DOMAIN u = 1..n + 1
    BY <1>8
  <2>2. x \in Gen!ToSet(u)
    BY <1>4, <1>7, <2>1 DEF Gen!ToSet
  <2>3. ASSUME NEW i \in 1..n PROVE s[i] \in Gen!ToSet(u)
    <3>1. CASE i < p
      <4>1. i \in 1..n + 1 /\ u[i] = s[i]
        BY <1>1, <1>7, <3>1
      <4> QED
        BY <2>1, <4>1 DEF Gen!ToSet
    <3>2. CASE i >= p
      <4>1. i + 1 \in 1..n + 1 /\ i + 1 > p /\ (i + 1) - 1 = i
        BY <1>1, <1>4, <3>2
      <4>2. u[i + 1] = s[i]
        BY <1>7, <4>1
      <4> QED
        BY <2>1, <4>1, <4>2 DEF Gen!ToSet
    <3> QED
      BY <1>1, <1>4, <3>1, <3>2
  <2>4. Gen!ToSet(u) \subseteq Gen!ToSet(given) \cup {x}
    BY <1>8, <2>1 DEF Gen!ToSet
  <2> QED
    BY <1>2, <2>2, <2>3, <2>4
<1>10. ASSUME NEW i \in 1..n + 1, NEW j \in 1..n + 1, i < j PROVE Gen!Before(u[i], u[j])
  <2>1. CASE j < p
    <3>1. i < p
      BY <1>1, <1>4, <1>10, <2>1
    <3>2. i \in 1..n /\ u[i] = s[i] /\ j \in 1..n /\ u[j] = s[j]
      BY <1>7, <2>1, <3>1
    <3> QED
      BY <1>2, <1>10, <3>2
  <2>2. CASE j = p
    <3>1. i \in 1..p - 1 /\ u[i] = s[i] /\ u[j] = x
      BY <1>4, <1>7, <1>10, <2>2
    <3> QED
      BY <1>5, <3>1
  <2>3. CASE j > p /\ i = p
    <3>1. j - 1 \in p..n /\ u[j] = s[j - 1] /\ u[i] = x
      BY <1>7, <1>10, <2>3
    <3> QED
      BY <1>6, <3>1
  <2>4. CASE j > p /\ i < p
    <3>1. /\ j - 1 \in 1..n /\ u[j] = s[j - 1] /\ i \in 1..n /\ u[i] = s[i]
          /\ i < j - 1
      BY <1>1, <1>4, <1>7, <1>10, <2>4
    <3> QED
      BY <1>2, <3>1
  <2>5. CASE j > p /\ i > p
    <3>1. /\ j - 1 \in 1..n /\ u[j] = s[j - 1] /\ i - 1 \in 1..n /\ u[i] = s[i - 1]
          /\ i - 1 < j - 1
      BY <1>1, <1>4, <1>7, <1>10, <2>5
    <3> QED
      BY <1>2, <3>1
  <2> QED
    BY <1>1, <1>4, <2>1, <2>2, <2>3, <2>4, <2>5
<1>11. Arranged(u, Append(given, x))
  BY <1>3, <1>8, <1>9, <1>10 DEF Arranged
<1> QED
  BY <1>11

\* Distinct names have an order.
LEMMA SortedIs ==
    ASSUME NEW given \in Seq(Gen!Name), Gen!IsInjective(given)
    PROVE  Arranged(Gen!Sorted(given), given)
<1> DEFINE P == {l \in Seq(Gen!Name) : Gen!IsInjective(l) => \E s : Arranged(s, l)}
<1>1. <<>> \in P
  <2>1. Arranged(<<>>, <<>>)
    BY DEF Arranged, Gen!ToSet
  <2> QED
    BY <2>1, EmptySeq
<1>2. ASSUME NEW l \in Seq(Gen!Name), NEW x \in Gen!Name, l \in P PROVE Append(l, x) \in P
  <2>1. /\ Append(l, x) \in Seq(Gen!Name) /\ Len(Append(l, x)) = Len(l) + 1
        /\ \A i \in 1..Len(l) : Append(l, x)[i] = l[i]
        /\ Append(l, x)[Len(l) + 1] = x
        /\ DOMAIN Append(l, x) = 1..Len(l) + 1 /\ DOMAIN l = 1..Len(l) /\ Len(l) \in Nat
    BY AppendProperties, LenProperties
  <2> SUFFICES ASSUME Gen!IsInjective(Append(l, x)) PROVE \E s : Arranged(s, Append(l, x))
    BY <2>1
  <2>2. \A i, j \in 1..Len(l) + 1 : Append(l, x)[i] = Append(l, x)[j] => i = j
    BY <2>1 DEF Gen!IsInjective
  <2>3. \A i, j \in 1..Len(l) : l[i] = l[j] => i = j
    BY <2>1, <2>2
  <2>4. \A i \in 1..Len(l) : l[i] # x
    <3> SUFFICES ASSUME NEW i \in 1..Len(l), l[i] = x PROVE FALSE
      OBVIOUS
    <3>1. i \in 1..Len(l) + 1 /\ Len(l) + 1 \in 1..Len(l) + 1 /\ i # Len(l) + 1
      BY <2>1
    <3> QED
      BY <2>1, <2>2, <3>1
  <2>5. PICK s : Arranged(s, l)
    BY <1>2, <2>1, <2>3 DEF Gen!IsInjective
  <2>6. x \notin Gen!ToSet(l)
    BY <2>1, <2>4 DEF Gen!ToSet
  <2> QED
    BY <2>5, <2>6, Inserted
<1> HIDE DEF P
<1>3. given \in P
  BY <1>1, <1>2, Facts!SeqInduction
<1>4. PICK s : Arranged(s, given)
  BY <1>3 DEF P
<1> QED
  BY <1>4, Zenon DEF Arranged, Gen!Sorted

\* The list has the names of l in its order.
Linked(l) ==
    /\ l \in Seq(Gen!Name) /\ Gen!IsInjective(l) /\ DOMAIN next = Gen!ToSet(l)
    /\ \A i \in 1..Len(l) : next[l[i]] = IF i = Len(l) THEN NULL ELSE l[i + 1]

FirstOf(l) == IF l = <<>> THEN NULL ELSE l[1]

\* Walks f m: f[n] has the names from n to the end of the list.
Walks(f) == f = [m \in DOMAIN next \cup {NULL} |-> IF m = NULL THEN <<>> ELSE <<m>> \o f[next[m]]]

\* From walks the list.
LEMMA FromLinked ==
    ASSUME NULL \notin Gen!Name, NEW l, Linked(l)
    PROVE  Gen!From(FirstOf(l)) = l
<1> DEFINE n == Len(l)
           D == DOMAIN next \cup {NULL}
<1>1. /\ n \in Nat /\ DOMAIN l = 1..n /\ l \in Seq(Gen!Name)
      /\ \A i \in 1..n : l[i] \in Gen!Name /\ l[i] # NULL
      /\ D = {l[i] : i \in 1..n} \cup {NULL}
      /\ \A i, j \in 1..n : l[i] = l[j] => i = j
  <2>1. l \in Seq(Gen!Name)
    BY DEF Linked
  <2>2. n \in Nat /\ DOMAIN l = 1..n /\ \A i \in 1..n : l[i] \in Gen!Name
    BY <2>1, LenProperties, ElementOfSeq
  <2>3. D = {l[i] : i \in 1..n} \cup {NULL}
    BY <2>2 DEF Linked, Gen!ToSet
  <2>4. \A i, j \in 1..n : l[i] = l[j] => i = j
    BY <2>2 DEF Linked, Gen!IsInjective
  <2> QED
    BY <2>1, <2>2, <2>3, <2>4
<1>n. n \in Nat /\ l \in Seq(Gen!Name)
  BY <1>1
<1>x. ASSUME NEW i \in 1..n
      PROVE  /\ l[i] \in D /\ l[i] # NULL
             /\ next[l[i]] = IF i = n THEN NULL ELSE l[i + 1]
  <2>1. l[i] \in D /\ l[i] # NULL
    BY <1>1
  <2>2. next[l[i]] = IF i = Len(l) THEN NULL ELSE l[i + 1]
    BY DEF Linked
  <2> QED
    BY <2>1, <2>2
<1>s. ASSUME NEW i \in 1..n PROVE SubSeq(l, i, n) = <<l[i]>> \o SubSeq(l, i + 1, n)
  <2>1. n \in i..n
    BY <1>n
  <2> HIDE DEF n
  <2>2. i \in 1..Len(l) /\ n \in i..Len(l)
    BY <2>1 DEF n
  <2> QED
    BY <1>n, <2>2, SubSeqRecursiveFirst
<1>e. SubSeq(l, n + 1, n) = <<>>
  BY <1>n, SubSeqEmpty
<1>2. \E f : Walks(f)
  <2> DEFINE at(m) == CHOOSE i \in 1..n : l[i] = m
             f == [m \in D |-> IF m = NULL THEN <<>> ELSE SubSeq(l, at(m), n)]
  <2>1. ASSUME NEW i \in 1..n PROVE at(l[i]) = i /\ f[l[i]] = SubSeq(l, i, n)
    <3>1. at(l[i]) = i
      BY <1>1
    <3> HIDE DEF at
    <3> QED
      BY <1>1, <3>1
  <2>2. f[NULL] = <<>>
    OBVIOUS
  <2>3. ASSUME NEW m \in D
        PROVE  f[m] = IF m = NULL THEN <<>> ELSE <<m>> \o f[next[m]]
    <3>1. CASE m = NULL
      BY <2>2, <3>1
    <3>2. CASE m # NULL
      <4>1. PICK i \in 1..n : m = l[i]
        BY <1>1, <3>2
      <4>2. f[next[m]] = SubSeq(l, i + 1, n)
        <5>1. CASE i = n
          <6>1. SubSeq(l, i + 1, n) = <<>>
            BY <1>e, <5>1
          <6>2. next[m] = NULL
            BY <1>x, <4>1, <5>1
          <6> HIDE DEF f
          <6> QED
            BY <2>2, <6>1, <6>2
        <5>2. CASE i # n
          <6>1. i + 1 \in 1..n /\ next[m] = l[i + 1]
            BY <1>n, <1>x, <4>1, <5>2
          <6> HIDE DEF f
          <6> QED
            BY <2>1, <6>1
        <5> QED
          BY <5>1, <5>2
      <4>3. SubSeq(l, i, n) = <<l[i]>> \o SubSeq(l, i + 1, n)
        BY <1>s
      <4> HIDE DEF f
      <4> QED
        BY <2>1, <3>2, <4>1, <4>2, <4>3
    <3> QED
      BY <3>1, <3>2
  <2>4. f = [m \in D |-> f[m]]
    OBVIOUS
  <2> HIDE DEF f
  <2>5. f = [m \in D |-> IF m = NULL THEN <<>> ELSE <<m>> \o f[next[m]]]
    BY <2>3, <2>4
  <2> QED
    BY <2>5 DEF Walks
<1> DEFINE list == CHOOSE f : Walks(f)
<1>3. Walks(list)
  BY <1>2
<1>4. \A m \in D : list[m] = IF m = NULL THEN <<>> ELSE <<m>> \o list[next[m]]
  <2> DEFINE e(m) == IF m = NULL THEN <<>> ELSE <<m>> \o list[next[m]]
  <2>1. list = [m \in D |-> e(m)]
    BY <1>3 DEF Walks
  <2> HIDE DEF e, list, D
  <2>2. \A m \in D : list[m] = e(m)
    BY <2>1
  <2> QED
    BY <2>2 DEF e
<1>5. \A m : Gen!From(m) = list[m]
  BY DEF Gen!From, Walks
<1> HIDE DEF list
<1> DEFINE K == {k \in Nat : k < n => list[l[n - k]] = SubSeq(l, n - k, n)}
<1>6. 0 \in K
  <2> SUFFICES ASSUME 0 < n PROVE list[l[n]] = SubSeq(l, n, n)
    BY <1>n
  <2>1. n \in 1..n /\ NULL \in D
    BY <1>n
  <2>4. l[n] \in D /\ l[n] # NULL /\ next[l[n]] = NULL
    BY <1>x, <2>1
  <2>2. list[l[n]] = <<l[n]>> \o <<>>
    BY <1>4, <2>1, <2>4
  <2>3. SubSeq(l, n, n) = <<l[n]>> \o <<>>
    BY <1>e, <1>s, <2>1
  <2> QED
    BY <2>2, <2>3
<1>7. ASSUME NEW k \in Nat, k \in K PROVE k + 1 \in K
  <2> SUFFICES ASSUME k + 1 < n
               PROVE  list[l[n - (k + 1)]] = SubSeq(l, n - (k + 1), n)
    BY <1>n
  <2> DEFINE i == n - (k + 1)
  <2>1. i \in 1..n /\ i # n /\ i + 1 = n - k /\ k < n /\ i + 1 \in 1..n
    BY <1>n
  <2> HIDE DEF i
  <2>2. l[i] \in D /\ l[i] # NULL /\ next[l[i]] = l[i + 1]
    BY <1>x, <2>1
  <2>3. list[l[i]] = <<l[i]>> \o list[l[i + 1]]
    BY <1>4, <2>2
  <2>4. list[l[i + 1]] = SubSeq(l, i + 1, n)
    BY <1>7, <2>1
  <2>5. SubSeq(l, i, n) = <<l[i]>> \o SubSeq(l, i + 1, n)
    BY <1>s, <2>1
  <2> QED
    BY <2>3, <2>4, <2>5 DEF i
<1> HIDE DEF K
<1>8. Nat \subseteq K
  BY <1>6, <1>7, Facts!Induction
<1>9. CASE l = <<>>
  BY <1>4, <1>5, <1>9 DEF FirstOf
<1>10. CASE l # <<>>
  <2>1. n # 0 /\ n - 1 \in Nat
    BY <1>n, <1>10, EmptySeq
  <2>2. list[l[n - (n - 1)]] = SubSeq(l, n - (n - 1), n)
    BY <1>8, <2>1 DEF K
  <2>3. n - (n - 1) = 1 /\ SubSeq(l, 1, n) = l
    BY <1>n, SubSeqFull
  <2> QED
    BY <1>5, <1>10, <2>2, <2>3 DEF FirstOf
<1> QED
  BY <1>9, <1>10

\* The text of which signup is the sum.
TextOf(given) == Gen!FlattenSeq([i \in DOMAIN given |-> Append(given[i], Gen!Term)])

LEMMA SameFlatten == \A s : Gen!FlattenSeq(s) = Facts!FlattenSeq(s)
  BY DEF Gen!FlattenSeq, Facts!FlattenSeq

\* The text ends with the term of the last name.
LEMMA TextAppend ==
    ASSUME NEW l \in Seq(Gen!Name), NEW x \in Gen!Name
    PROVE  /\ TextOf(l) \in Seq(Nat)
           /\ TextOf(Append(l, x)) = TextOf(l) \o Append(x, 0)
<1> DEFINE terms(given) == [i \in DOMAIN given |-> Append(given[i], 0)]
           m == Append(l, x)
<1>1. /\ m \in Seq(Gen!Name) /\ Len(m) = Len(l) + 1 /\ m[Len(l) + 1] = x
      /\ \A i \in 1..Len(l) : m[i] = l[i]
      /\ DOMAIN m = 1..Len(l) + 1 /\ DOMAIN l = 1..Len(l) /\ Len(l) \in Nat
  BY AppendProperties, LenProperties
<1>2. ASSUME NEW y \in Gen!Name PROVE Append(y, 0) \in Seq(Nat)
  <2>1. y \in Seq(Nat)
    BY SeqMonotonic DEF Gen!Name
  <2> QED
    BY <2>1, AppendProperties
<1>3. terms(l) \in Seq(Seq(Nat)) /\ Len(terms(l)) = Len(l)
  <2>1. \A i \in 1..Len(l) : Append(l[i], 0) \in Seq(Nat)
    BY <1>2, ElementOfSeq
  <2> QED
    BY <1>1, <2>1
<1>4. terms(m) = Append(terms(l), Append(x, 0))
  <2>1. \A i \in 1..Len(l) + 1 : terms(m)[i] = Append(terms(l), Append(x, 0))[i]
    BY <1>1
  <2>2. Append(terms(l), Append(x, 0)) \in Seq(Seq(Nat))
    BY <1>2, <1>3, AppendProperties
  <2>3. DOMAIN Append(terms(l), Append(x, 0)) = 1..Len(l) + 1
    BY <1>1, <1>3
  <2> QED
    BY <1>1, <2>1, <2>3
<1>5. \A given : TextOf(given) = Facts!FlattenSeq(terms(given))
  BY SameFlatten DEF TextOf, Gen!Term
<1> HIDE DEF terms
<1> QED
  BY <1>2, <1>3, <1>4, <1>5, Facts!FlattenAppend

\* One more character at the end of the second of two texts.
LEMMA OneCharacter ==
    ASSUME NEW s \in Seq(Nat), NEW t \in Seq(Nat)
    PROVE  LET u == s \o t
           IN  /\ u \in Seq(Nat) /\ s \o Append(t, 0) = Append(u, 0)
               /\ Append(u, 0) \in Seq(Nat) /\ Append(u, 0) # <<>>
               /\ Append(u, 0)[Len(Append(u, 0))] = 0
<1>1. PICK u : u = s \o t
  OBVIOUS
<1>2. u \in Seq(Nat)
  BY <1>1, ConcatProperties
<1>3. s \o Append(t, 0) = Append(u, 0)
  BY <1>1, Facts!ConcatAppend, 0 \in Nat
<1>4. /\ Append(u, 0) \in Seq(Nat) /\ Append(u, 0) # <<>>
      /\ Append(u, 0)[Len(Append(u, 0))] = 0
  <2>1. PICK e \in Nat : e = 0
    OBVIOUS
  <2>2. PICK v : v = Append(u, e)
    OBVIOUS
  <2>3. v \in Seq(Nat) /\ v # <<>> /\ Len(v) = Len(u) + 1 /\ v[Len(u) + 1] = e
    BY <1>2, <2>2, AppendProperties
  <2> QED
    BY <2>1, <2>2, <2>3
<1> QED
  BY <1>1, <1>2, <1>3, <1>4

\* A text is empty or it ends with a term.
Terminated(a) == a = <<>> \/ a[Len(a)] = 0

LEMMA TextEnds ==
    ASSUME NEW l \in Seq(Gen!Name)
    PROVE  TextOf(l) \in Seq(Nat) /\ (l = <<>> => TextOf(l) = <<>>)
           /\ (l # <<>> => TextOf(l) # <<>>) /\ Terminated(TextOf(l))
<1> USE DEF Terminated
<1>1. CASE l = <<>>
  BY <1>1, EmptySeq DEF TextOf, Gen!FlattenSeq
<1>2. CASE l # <<>>
  <2>1. PICK r \in Seq(Gen!Name), x \in Gen!Name : l = Append(r, x)
    BY <1>2, SequenceEmptyOrAppend
  <2>2. TextOf(r) \in Seq(Nat) /\ TextOf(l) = TextOf(r) \o Append(x, 0)
    BY <2>1, TextAppend
  <2>3. x \in Seq(Nat)
    BY SeqMonotonic DEF Gen!Name
  <2> HIDE DEF TextOf
  <2> QED
    BY <1>2, <2>2, <2>3, OneCharacter
<1> QED
  BY <1>1, <1>2

\* No term is in a name: what follows the last term is the last name.
LEMMA LastName ==
    ASSUME NEW a \in Seq(Nat), NEW b \in Seq(Nat), NEW x \in Gen!Name, NEW y \in Gen!Name,
           Terminated(a), Terminated(b), a \o x = b \o y
    PROVE  a = b /\ x = y
<1> USE DEF Terminated
<1>1. x \in Seq(Nat) /\ y \in Seq(Nat)
  BY SeqMonotonic DEF Gen!Name
<1>2. /\ \A i \in 1..Len(x) : x[i] # 0
      /\ \A i \in 1..Len(y) : y[i] # 0
      /\ Len(a) \in Nat /\ Len(b) \in Nat /\ Len(x) \in Nat /\ Len(y) \in Nat
  BY CharacterIs, LenProperties
<1>3. /\ Len(a) + Len(x) = Len(b) + Len(y)
      /\ \A i \in 1..Len(a) + Len(x) :
            (IF i <= Len(a) THEN a[i] ELSE x[i - Len(a)])
                = IF i <= Len(b) THEN b[i] ELSE y[i - Len(b)]
  BY <1>1, ConcatProperties
<1>4. ~(Len(a) < Len(b))
  <2> SUFFICES ASSUME Len(a) < Len(b) PROVE FALSE
    OBVIOUS
  <2>1. /\ Len(b) \in 1..Len(a) + Len(x) /\ ~(Len(b) <= Len(a))
        /\ Len(b) - Len(a) \in 1..Len(x) /\ b # <<>>
    BY <1>2, <1>3, EmptySeq
  <2>2. x[Len(b) - Len(a)] = b[Len(b)]
    BY <1>2, <1>3, <2>1
  <2> QED
    BY <1>2, <2>1, <2>2
<1>5. ~(Len(b) < Len(a))
  <2> SUFFICES ASSUME Len(b) < Len(a) PROVE FALSE
    OBVIOUS
  <2>1. /\ Len(a) \in 1..Len(a) + Len(x) /\ ~(Len(a) <= Len(b))
        /\ Len(a) - Len(b) \in 1..Len(y) /\ a # <<>>
    BY <1>2, <1>3, EmptySeq
  <2>2. y[Len(a) - Len(b)] = a[Len(a)]
    BY <1>2, <1>3, <2>1
  <2> QED
    BY <1>2, <2>1, <2>2
<1>6. Len(a) = Len(b) /\ Len(x) = Len(y)
  BY <1>2, <1>3, <1>4, <1>5
<1>7. \A i \in 1..Len(a) : a[i] = b[i]
  BY <1>2, <1>3, <1>6
<1>8. ASSUME NEW i \in 1..Len(x) PROVE x[i] = y[i]
  <2>1. /\ Len(a) + i \in 1..Len(a) + Len(x) /\ ~(Len(a) + i <= Len(a))
        /\ (Len(a) + i) - Len(a) = i
    BY <1>2
  <2> QED
    BY <1>3, <1>6, <2>1
<1> QED
  BY <1>1, <1>6, <1>7, <1>8, SeqEqual

\* What comes before the same term.
LEMMA SameCharacters ==
    ASSUME NEW a \in Seq(Nat), NEW b \in Seq(Nat), Append(a, 0) = Append(b, 0)
    PROVE  a = b
<1>1. 0 \in Nat
  OBVIOUS
<1> QED
  BY <1>1, AppendInjective

\* Names of which the text is the same are the same.
LEMMA SameText ==
    ASSUME NEW l \in Seq(Gen!Name), NEW m \in Seq(Gen!Name), TextOf(l) = TextOf(m)
    PROVE  l = m
<1> DEFINE P == {s \in Seq(Gen!Name) :
                     \A t \in Seq(Gen!Name) : TextOf(s) = TextOf(t) => s = t}
<1>1. <<>> \in P
  BY TextEnds, EmptySeq
<1>2. ASSUME NEW s \in Seq(Gen!Name), NEW x \in Gen!Name, s \in P PROVE Append(s, x) \in P
  <2>1. Append(s, x) \in Seq(Gen!Name) /\ Append(s, x) # <<>>
    BY AppendProperties
  <2> SUFFICES ASSUME NEW t \in Seq(Gen!Name), TextOf(Append(s, x)) = TextOf(t)
               PROVE  Append(s, x) = t
    BY <2>1
  <2>2. t # <<>>
    BY <2>1, TextEnds
  <2>3. PICK r \in Seq(Gen!Name), y \in Gen!Name : t = Append(r, y)
    BY <2>2, SequenceEmptyOrAppend
  <2>4. /\ TextOf(Append(s, x)) = TextOf(s) \o Append(x, 0) /\ TextOf(s) \in Seq(Nat)
        /\ TextOf(t) = TextOf(r) \o Append(y, 0) /\ TextOf(r) \in Seq(Nat)
    BY <2>3, TextAppend
  <2>5. x \in Seq(Nat) /\ y \in Seq(Nat)
    BY SeqMonotonic DEF Gen!Name
  <2>6. /\ TextOf(s) \o Append(x, 0) = Append(TextOf(s) \o x, 0) /\ TextOf(s) \o x \in Seq(Nat)
        /\ TextOf(r) \o Append(y, 0) = Append(TextOf(r) \o y, 0) /\ TextOf(r) \o y \in Seq(Nat)
    BY <2>4, <2>5, OneCharacter
  <2>7. TextOf(s) \o x = TextOf(r) \o y
    <3>1. PICK a, b : a = TextOf(s) \o x /\ b = TextOf(r) \o y
      OBVIOUS
    <3>2. Append(a, 0) = Append(b, 0) /\ a \in Seq(Nat) /\ b \in Seq(Nat)
      BY <2>4, <2>6, <3>1
    <3>3. a = b
      BY <3>2, SameCharacters
    <3> QED
      BY <3>1, <3>3
  <2>8. TextOf(s) = TextOf(r) /\ x = y
    <3>1. PICK a, b : a = TextOf(s) /\ b = TextOf(r)
      OBVIOUS
    <3>2. /\ a \in Seq(Nat) /\ Terminated(a) /\ b \in Seq(Nat) /\ Terminated(b)
          /\ a \o x = b \o y
      BY <2>7, <3>1, TextEnds
    <3> HIDE DEF P
    <3>3. a = b /\ x = y
      BY <3>2, LastName
    <3> QED
      BY <3>1, <3>3
  <2> QED
    BY <1>2, <2>3, <2>8
<1> HIDE DEF P
<1>3. l \in P
  BY <1>1, <1>2, Facts!SeqInduction
<1> QED
  BY <1>3 DEF P

-----------------------------------------------------------------------------
\* The invariant of the four runs and of the calls.
Given == files[Gen!Side]

GenTypes ==
    /\ files \in [{"library", "client"} -> Files] /\ job \in 1..4
    /\ genPc \in {"parse", "relink", "h", "signup", "client", "accepted", "aborted"}

\* While the file is read, its names are in the list; then the sorted ones are, from
\* the end.
ListInv ==
    /\ genPc = "parse" =>
          /\ read \in 0..Len(Given)
          /\ Linked(SubSeq(Given, 1, read)) /\ genKeys = FirstOf(SubSeq(Given, 1, read))
    /\ genPc = "relink" =>
          /\ array = Gen!Sorted(Given) /\ genIndex \in 0..Len(Given)
          /\ key = IF genIndex = Len(Given) THEN NULL ELSE array[genIndex + 1]
          /\ DOMAIN next = Gen!ToSet(Given)
          /\ \A i \in genIndex + 1..Len(Given) :
                next[array[i]] = IF i = Len(Given) THEN NULL ELSE array[i + 1]
    /\ genPc \in {"h", "signup"} =>
          /\ genPc = Gen!Jobs[job][2]
          /\ Linked(Gen!Sorted(Given)) /\ genKeys = FirstOf(Gen!Sorted(Given))

\* What the runs before this one have made.
Ran(j) == job > j \/ genPc \in {"client", "accepted", "aborted"}

MadeInv ==
    /\ DOMAIN header = {"library", "client"} /\ DOMAIN signup = {"library", "client"}
    /\ Ran(1) => header["library"] = Gen!Sorted(files["library"])
    /\ Ran(2) => signup["library"] = TextOf(Gen!Sorted(files["library"]))
    /\ Ran(3) => header["client"] = Gen!Sorted(files["client"])
    /\ Ran(4) => signup["client"] = TextOf(Gen!Sorted(files["client"]))

CallInv ==
    /\ genPc = "accepted" => signup["client"] = signup["library"] /\ answered = asked
    /\ genPc = "aborted" => signup["client"] # signup["library"]

GenInv == GenTypes /\ ListInv /\ MadeInv /\ CallInv

\* A file, sorted.
LEMMA FileSorted ==
    ASSUME GenConstants, NEW f \in Files
    PROVE  /\ f \in Seq(Gen!Name) /\ Gen!IsInjective(f) /\ Len(f) \in Nat
           /\ Gen!Sorted(f) \in Seq(Gen!Name) /\ Len(Gen!Sorted(f)) = Len(f)
           /\ Gen!IsInjective(Gen!Sorted(f)) /\ Gen!ToSet(Gen!Sorted(f)) = Gen!ToSet(f)
           /\ \A i, j \in 1..Len(f) : Gen!Sorted(f)[i] = Gen!Sorted(f)[j] => i = j
<1>1. f \in Seq(Gen!Name) /\ Gen!IsInjective(f)
  BY DEF GenConstants
<1>2. DOMAIN f = 1..Len(f) /\ Len(f) \in Nat /\ Gen!ToSet(f) \subseteq Gen!Name
  BY <1>1, LenProperties, ElementOfSeq DEF Gen!ToSet
<1>3. PICK s : s = Gen!Sorted(f)
  OBVIOUS
<1>4. /\ s \in [1..Len(f) -> Gen!ToSet(f)] /\ Gen!ToSet(s) = Gen!ToSet(f)
      /\ \A i, j \in 1..Len(f) : i < j => Gen!Before(s[i], s[j])
  BY <1>1, <1>2, <1>3, SortedIs DEF Arranged
<1>5. \A i \in 1..Len(f) : s[i] \in Gen!Name
  BY <1>2, <1>4
<1>6. s \in Seq(Gen!Name) /\ Len(s) = Len(f)
  BY <1>2, <1>4, <1>5
<1>7. \A x \in Gen!Name : ~Gen!Before(x, x)
  BY BeforeIs, CharacterIs
<1>8. \A i, j \in 1..Len(f) : s[i] = s[j] => i = j
  BY <1>2, <1>4, <1>5, <1>7
<1>9. Gen!IsInjective(s)
  BY <1>4, <1>8 DEF Gen!IsInjective
<1> QED
  BY <1>1, <1>2, <1>3, <1>4, <1>6, <1>8, <1>9

\* A file with as many names has as many places.
LEMMA NameCount ==
    ASSUME GenConstants, NEW f \in Files
    PROVE  Cardinality(Gen!ToSet(f)) = Len(f)
<1>1. /\ f \in [1..Len(f) -> Gen!ToSet(f)] /\ Len(f) \in Nat
      /\ \A i, j \in 1..Len(f) : f[i] = f[j] => i = j
      /\ \A x \in Gen!ToSet(f) : \E i \in 1..Len(f) : f[i] = x
  <2>1. f \in Seq(Gen!Name) /\ Gen!IsInjective(f)
    BY DEF GenConstants
  <2>2. f \in [1..Len(f) -> Gen!Name] /\ DOMAIN f = 1..Len(f) /\ Len(f) \in Nat
    BY <2>1, LenProperties
  <2> QED
    BY <2>1, <2>2 DEF Gen!IsInjective, Gen!ToSet
<1>2. ExistsBijection(1..Len(f), Gen!ToSet(f))
  BY <1>1 DEF ExistsBijection, Bijection, Injection, Surjection, IsInjective
<1> QED
  BY <1>1, <1>2, FS_CountingElements

\* Two files of the same names, sorted, are the same.
LEMMA SameSorted ==
    ASSUME GenConstants, NEW f \in Files, NEW g \in Files
    PROVE  Gen!ToSet(f) = Gen!ToSet(g) <=> Gen!Sorted(f) = Gen!Sorted(g)
<1> DEFINE arrangement(D, S) ==
               CHOOSE s \in [D -> S] : /\ Gen!ToSet(s) = S
                                       /\ \A i, j \in D : i < j => Gen!Before(s[i], s[j])
<1>1. \A l : Gen!Sorted(l) = arrangement(DOMAIN l, Gen!ToSet(l))
  BY DEF Gen!Sorted
<1>2. DOMAIN f = 1..Len(f) /\ DOMAIN g = 1..Len(g)
  BY LenProperties DEF GenConstants
<1> HIDE DEF arrangement
<1>3. ASSUME Gen!ToSet(f) = Gen!ToSet(g) PROVE Gen!Sorted(f) = Gen!Sorted(g)
  <2>1. Len(f) = Len(g)
    BY <1>3, NameCount
  <2> QED
    BY <1>1, <1>2, <1>3, <2>1
<1>4. ASSUME Gen!Sorted(f) = Gen!Sorted(g) PROVE Gen!ToSet(f) = Gen!ToSet(g)
  BY <1>4, FileSorted
<1> QED
  BY <1>3, <1>4

\* The file of a run.
LEMMA GivenIs ==
    ASSUME GenConstants, GenTypes
    PROVE  /\ Gen!Side \in {"library", "client"} /\ Given \in Files
           /\ Given \in Seq(Gen!Name) /\ Len(Given) \in Nat
<1>1. Gen!Side \in {"library", "client"}
  BY DEF GenTypes, Gen!Side, Gen!Jobs
<1>2. Given \in Files
  BY <1>1 DEF GenTypes, Given
<1> QED
  BY <1>1, <1>2, FileSorted

\* Nothing is in the list of a run that starts.
LEMMA EmptyList ==
    /\ next = <<>> => Linked(<<>>)
    /\ FirstOf(<<>>) = NULL
    /\ \A f : SubSeq(f, 1, 0) = <<>>
<1>1. next = <<>> => Linked(<<>>)
  BY EmptySeq DEF Linked, Gen!IsInjective, Gen!ToSet
<1>2. FirstOf(<<>>) = NULL
  BY DEF FirstOf
<1>3. \A f : SubSeq(f, 1, 0) = <<>>
  BY SubSeqEmpty
<1> QED
  BY <1>1, <1>2, <1>3

LEMMA GenInit == GenConstants /\ Gen!Init => GenInv
<1> SUFFICES ASSUME GenConstants, Gen!Init PROVE GenInv
  OBVIOUS
<1>1. GenTypes
  BY DEF Gen!Init, GenTypes
<1>2. ListInv
  <2>1. /\ genPc = "parse" /\ read = 0 /\ genKeys = NULL /\ next = <<>>
    BY DEF Gen!Init
  <2>2. SubSeq(Given, 1, read) = <<>> /\ Linked(<<>>) /\ FirstOf(<<>>) = NULL
    BY <2>1, EmptyList
  <2>3. read \in 0..Len(Given)
    BY <1>1, <2>1, GivenIs
  <2> QED
    BY <2>1, <2>2, <2>3 DEF ListInv
<1>3. MadeInv
  BY DEF Gen!Init, MadeInv, Ran
<1>4. CallInv
  BY DEF Gen!Init, CallInv
<1> QED
  BY <1>1, <1>2, <1>3, <1>4 DEF GenInv

\* A name is linked at the end of the list.
LEMMA LinkedAppend ==
    ASSUME NULL \notin Gen!Name, NEW l, Linked(l), NEW name \in Gen!Name,
           name \notin Gen!ToSet(l),
           next' = [n \in DOMAIN next \cup {name} |->
                        IF n = name THEN NULL ELSE IF n = Gen!Last(l) THEN name ELSE next[n]]
    PROVE  Linked(Append(l, name))'
<1> DEFINE m == Append(l, name)
<1>1. /\ l \in Seq(Gen!Name) /\ Len(l) \in Nat /\ DOMAIN l = 1..Len(l)
      /\ DOMAIN next = {l[i] : i \in 1..Len(l)}
  <2>1. l \in Seq(Gen!Name)
    BY DEF Linked
  <2>2. Len(l) \in Nat /\ DOMAIN l = 1..Len(l)
    BY <2>1, LenProperties
  <2> QED
    BY <2>1, <2>2 DEF Linked, Gen!ToSet
<1>2. /\ m \in Seq(Gen!Name) /\ Len(m) = Len(l) + 1 /\ DOMAIN m = 1..Len(l) + 1
      /\ \A i \in 1..Len(l) : m[i] = l[i]
      /\ m[Len(l) + 1] = name
  BY <1>1, AppendProperties, LenProperties
<1> HIDE DEF m
<1>3. \A i \in 1..Len(l) : l[i] # name
  BY <1>1 DEF Gen!ToSet
<1>4. \A i, j \in 1..Len(l) : l[i] = l[j] => i = j
  BY <1>1 DEF Linked, Gen!IsInjective
<1>5. \A i, j \in 1..Len(l) + 1 : m[i] = m[j] => i = j
  <2> SUFFICES ASSUME NEW i \in 1..Len(l) + 1, NEW j \in 1..Len(l) + 1, m[i] = m[j]
               PROVE  i = j
    OBVIOUS
  <2>1. CASE i = Len(l) + 1 /\ j \in 1..Len(l)
    BY <1>2, <1>3, <2>1
  <2>2. CASE j = Len(l) + 1 /\ i \in 1..Len(l)
    BY <1>2, <1>3, <2>2
  <2>3. CASE i \in 1..Len(l) /\ j \in 1..Len(l)
    BY <1>2, <1>4, <2>3
  <2> QED
    BY <1>1, <2>1, <2>2, <2>3
<1>6. Gen!ToSet(m) = DOMAIN next \cup {name}
  BY <1>1, <1>2 DEF Gen!ToSet
<1>7. ASSUME NEW i \in 1..Len(m)
      PROVE  next'[m[i]] = IF i = Len(m) THEN NULL ELSE m[i + 1]
  <2>6. Len(l) \in Nat /\ Len(m) = Len(l) + 1 /\ i \in Nat /\ 1 <= i /\ i <= Len(l) + 1
    BY <1>1, <1>2
  <2>1. m[i] \in DOMAIN next \cup {name}
    BY <1>2, <1>6 DEF Gen!ToSet
  <2>2. CASE i = Len(l) + 1
    BY <1>2, <2>1, <2>2
  <2>3. CASE i = Len(l)
    <3>1. i \in 1..Len(l) /\ i # Len(m) /\ i + 1 = Len(l) + 1
      BY <2>3, <2>6
    <3>2. m[i] # name /\ m[i] = Gen!Last(l) /\ m[i + 1] = name
      BY <1>2, <1>3, <2>3, <3>1 DEF Gen!Last
    <3> QED
      BY <2>1, <3>1, <3>2
  <2>4. CASE i \in 1..Len(l) - 1
    <3>1. /\ i \in 1..Len(l) /\ i + 1 \in 1..Len(l) /\ i # Len(l) /\ i # Len(m)
          /\ Len(l) \in 1..Len(l)
      BY <1>1, <1>2, <2>4
    <3>2. m[i] = l[i] /\ m[i] # name /\ m[i] # Gen!Last(l) /\ m[i + 1] = l[i + 1]
      BY <1>2, <1>3, <1>4, <3>1 DEF Gen!Last
    <3>3. next[l[i]] = l[i + 1]
      BY <3>1 DEF Linked
    <3> QED
      BY <2>1, <3>1, <3>2, <3>3
  <2>5. i = Len(l) + 1 \/ i = Len(l) \/ i \in 1..Len(l) - 1
    BY <2>6
  <2> QED
    BY <2>2, <2>3, <2>4, <2>5
<1>8. Gen!IsInjective(m)
  BY <1>2, <1>5 DEF Gen!IsInjective
<1>9. DOMAIN next' = Gen!ToSet(m)
  BY <1>6
<1> QED
  BY <1>2, <1>7, <1>8, <1>9 DEF Linked, m

\* A key is added.
LEMMA KeyAddNext ==
    ASSUME GenConstants, GenTypes, ListInv, Gen!KeyAdd
    PROVE  ListInv'
<1> PICK l, name : l = SubSeq(Given, 1, read) /\ name = Given[read + 1]
  OBVIOUS
<1>1. /\ genPc = "parse" /\ read < Len(Given) /\ read' = read + 1
      /\ UNCHANGED <<files, job, genPc>>
      /\ genKeys' = (IF genKeys = NULL THEN name ELSE genKeys)
      /\ next' = [n \in DOMAIN next \cup {name} |->
                     IF n = name THEN NULL
                     ELSE IF n = Gen!Last(Gen!From(genKeys)) THEN name ELSE next[n]]
  BY DEF Gen!KeyAdd, Given
<1>2. Given \in Files /\ Given \in Seq(Gen!Name) /\ Len(Given) \in Nat
  BY GivenIs
<1>3. read \in 0..Len(Given) /\ Linked(l) /\ genKeys = FirstOf(l)
  BY <1>1 DEF ListInv
<1>4. NULL \notin Gen!Name
  BY DEF GenConstants
<1>5. Gen!From(genKeys) = l
  BY <1>3, <1>4, FromLinked
<1>6. read \in Nat /\ read + 1 \in 1..Len(Given) /\ read + 1 \in 0..Len(Given)
  BY <1>1, <1>2, <1>3
<1>7. /\ name \in Gen!Name /\ l \in Seq(Gen!Name) /\ Len(l) = read
      /\ \A i \in 1..read : l[i] = Given[i]
      /\ SubSeq(Given, 1, read + 1) = Append(l, name)
  <2>1. name \in Gen!Name /\ \A i \in 1..read : Given[i] \in Gen!Name
    BY <1>2, <1>6, ElementOfSeq
  <2>2. /\ l \in Seq(Gen!Name) /\ Len(l) = read
        /\ \A i \in 1..read : l[i] = Given[i]
    BY <1>6, <2>1, SubSeqProperties
  <2>3. SubSeq(Given, 1, read + 1) = l \o <<name>>
    BY <1>2, <1>6, SubSeqRecursiveSecond
  <2>4. Append(l, name) = l \o <<name>>
    BY <2>1, <2>2, AppendIsConcat
  <2> QED
    BY <2>1, <2>2, <2>3, <2>4
<1>8. name \notin Gen!ToSet(l)
  <2>1. DOMAIN l = 1..read
    BY <1>7, LenProperties
  <2>2. ASSUME NEW i \in 1..read PROVE Given[i] # name
    <3>1. i \in 1..Len(Given) /\ i # read + 1 /\ DOMAIN Given = 1..Len(Given)
      BY <1>2, <1>6, LenProperties
    <3>2. Gen!IsInjective(Given)
      BY <1>2 DEF GenConstants
    <3> QED
      BY <1>6, <3>1, <3>2 DEF Gen!IsInjective
  <2> QED
    BY <1>7, <2>1, <2>2 DEF Gen!ToSet
<1>9. genKeys' = FirstOf(Append(l, name))
  <2>1. /\ Append(l, name) # <<>>
        /\ Append(l, name)[1] = IF read = 0 THEN name ELSE l[1]
    BY <1>6, <1>7, AppendProperties
  <2>2. l = <<>> <=> read = 0
    BY <1>6, <1>7, EmptySeq
  <2>3. read # 0 => l[1] \in Gen!Name
    BY <1>6, <1>7, ElementOfSeq
  <2> QED
    BY <1>1, <1>3, <1>4, <2>1, <2>2, <2>3 DEF FirstOf
<1>10. Linked(Append(l, name))'
  <2>1. next' = [n \in DOMAIN next \cup {name} |->
                     IF n = name THEN NULL ELSE IF n = Gen!Last(l) THEN name ELSE next[n]]
    BY <1>1, <1>5
  <2> QED
    BY <1>3, <1>4, <1>7, <1>8, <2>1, LinkedAppend
<1>11. Given' = Given
  BY <1>1 DEF Given, Gen!Side
<1>12. SubSeq(Given, 1, read)' = Append(l, name) /\ read' \in 0..Len(Given')
  BY <1>1, <1>6, <1>7, <1>11
<1>13. genPc' = "parse"
  BY <1>1
<1> QED
  BY <1>9, <1>10, <1>12, <1>13 DEF ListInv

\* The steps of the sort.
LEMMA SortNext ==
    ASSUME GenConstants, GenTypes, ListInv, Gen!Sort \/ Gen!Relink \/ Gen!Relinked
    PROVE  ListInv'
<1>1. Given \in Files /\ Given \in Seq(Gen!Name) /\ Len(Given) \in Nat
  BY GivenIs
<1>2. PICK n, s : n = Len(Given) /\ s = Gen!Sorted(Given)
  OBVIOUS
<1>3. /\ n \in Nat /\ s \in Seq(Gen!Name) /\ Len(s) = n /\ DOMAIN s = 1..n
      /\ Gen!IsInjective(s) /\ \A i, j \in 1..n : s[i] = s[j] => i = j
      /\ Gen!ToSet(s) = Gen!ToSet(Given)
  <2>1. /\ s \in Seq(Gen!Name) /\ Len(s) = n
        /\ Gen!IsInjective(s) /\ Gen!ToSet(s) = Gen!ToSet(Given)
        /\ \A i, j \in 1..n : s[i] = s[j] => i = j
    BY <1>1, <1>2, FileSorted
  <2> QED
    BY <1>1, <1>2, <2>1, LenProperties
<1>4. NULL \notin Gen!Name
  BY DEF GenConstants
<1>5. UNCHANGED <<files, job>> /\ Given' = Given
  BY DEF Gen!Sort, Gen!Relink, Gen!Relinked, Given, Gen!Side
<1>6. CASE Gen!Sort
  <2>1. /\ genPc = "parse" /\ read = n /\ array' = Gen!Sorted(Gen!From(genKeys))
        /\ genIndex' = Len(array') /\ key' = NULL /\ genPc' = "relink" /\ next' = next
    BY <1>2, <1>6 DEF Gen!Sort, Given
  <2>2. Linked(SubSeq(Given, 1, n)) /\ genKeys = FirstOf(SubSeq(Given, 1, n))
    BY <2>1 DEF ListInv
  <2>3. SubSeq(Given, 1, n) = Given
    BY <1>1, <1>2, SubSeqFull
  <2>4. Gen!From(genKeys) = Given /\ DOMAIN next = Gen!ToSet(Given)
    BY <1>4, <2>2, <2>3, FromLinked DEF Linked
  <2>5. array' = s /\ genIndex' = n
    BY <1>2, <1>3, <2>1, <2>4
  <2>6. genIndex' \in 0..n /\ \A i : i \notin n + 1..n
    BY <1>3, <2>5
  <2> QED
    BY <1>2, <1>5, <2>1, <2>4, <2>5, <2>6 DEF ListInv
<1>7. CASE Gen!Relink
  <2>1. /\ genPc = "relink" /\ genIndex # 0 /\ next' = [next EXCEPT ![array[genIndex]] = key]
        /\ key' = array[genIndex] /\ genIndex' = genIndex - 1
        /\ genPc' = "relink" /\ array' = array
    BY <1>7 DEF Gen!Relink
  <2>2. /\ array = s /\ genIndex \in 0..n
        /\ key = IF genIndex = n THEN NULL ELSE s[genIndex + 1]
        /\ DOMAIN next = Gen!ToSet(s)
        /\ \A i \in genIndex + 1..n : next[s[i]] = IF i = n THEN NULL ELSE s[i + 1]
    BY <1>2, <1>3, <2>1 DEF ListInv
  <2>3. /\ genIndex \in 1..n /\ genIndex - 1 \in 0..n /\ (genIndex - 1) + 1 = genIndex
        /\ genIndex - 1 # n
    BY <1>3, <2>1, <2>2
  <2>4. s[genIndex] \in DOMAIN next /\ DOMAIN next' = DOMAIN next
    BY <1>3, <2>1, <2>2, <2>3 DEF Gen!ToSet
  <2>5. ASSUME NEW i \in genIndex..n
        PROVE  next'[s[i]] = IF i = n THEN NULL ELSE s[i + 1]
    <3>1. CASE i = genIndex
      BY <2>1, <2>2, <2>4, <3>1
    <3>2. CASE i # genIndex
      <4>1. i \in genIndex + 1..n /\ i \in 1..n
        BY <1>3, <2>3, <3>2
      <4>2. s[i] \in DOMAIN next /\ s[i] # s[genIndex]
        BY <1>3, <2>2, <2>3, <3>2, <4>1 DEF Gen!ToSet
      <4> QED
        BY <2>1, <2>2, <4>1, <4>2
    <3> QED
      BY <3>1, <3>2
  <2>6. key' = IF genIndex' = n THEN NULL ELSE array'[genIndex' + 1]
    BY <2>1, <2>2, <2>3
  <2>7. genIndex' \in 0..n /\ \A i \in genIndex' + 1..n :
            next'[array'[i]] = IF i = n THEN NULL ELSE array'[i + 1]
    BY <2>1, <2>2, <2>3, <2>5
  <2>8. array' = s /\ DOMAIN next' = Gen!ToSet(Given)
    BY <1>3, <2>1, <2>2, <2>4
  <2> QED
    BY <1>2, <1>5, <2>1, <2>6, <2>7, <2>8 DEF ListInv
<1>8. CASE Gen!Relinked
  <2>1. /\ genPc = "relink" /\ genIndex = 0 /\ genKeys' = key
        /\ genPc' = Gen!Jobs[job][2] /\ next' = next
    BY <1>8 DEF Gen!Relinked
  <2>2. /\ key = IF 0 = n THEN NULL ELSE s[0 + 1]
        /\ DOMAIN next = Gen!ToSet(s)
        /\ \A i \in 1..n : next[s[i]] = IF i = n THEN NULL ELSE s[i + 1]
    BY <1>2, <1>3, <2>1 DEF ListInv
  <2>3. Linked(s)'
    BY <1>3, <2>1, <2>2 DEF Linked
  <2>4. genKeys' = FirstOf(s)
    <3>1. s = <<>> <=> n = 0
      BY <1>3, EmptySeq
    <3> QED
      BY <2>1, <2>2, <3>1 DEF FirstOf
  <2>5. genPc' \in {"h", "signup"} /\ genPc' = Gen!Jobs[job'][2]
    BY <1>5, <2>1 DEF GenTypes, Gen!Jobs
  <2> QED
    BY <1>2, <1>5, <2>3, <2>4, <2>5 DEF ListInv
<1> QED
  BY <1>6, <1>7, <1>8

\* The end of a run.
LEMMA FinishNext ==
    ASSUME GenConstants, GenTypes, files' = files, Gen!Finish
    PROVE  GenTypes' /\ ListInv' /\ CallInv'
<1>1. /\ job < 4 => job' = job + 1 /\ genPc' = "parse"
      /\ job >= 4 => job' = job /\ genPc' = "client"
      /\ read' = 0 /\ genKeys' = NULL /\ next' = <<>> /\ job \in 1..4
  BY DEF Gen!Finish, GenTypes, Gen!Jobs
<1>2. GenTypes'
  BY <1>1 DEF GenTypes
<1>3. genPc' \in {"parse", "client"}
  BY <1>1
<1>4. read' \in 0..Len(Given')
  <2>1. (Gen!Side)' \in {"library", "client"}
    BY <1>2 DEF GenTypes, Gen!Side, Gen!Jobs
  <2>2. Given' \in Files
    BY <1>2, <2>1 DEF GenTypes, Given
  <2>3. Len(Given') \in Nat
    BY <2>2, FileSorted
  <2> QED
    BY <1>1, <2>3
<1>5. /\ SubSeq(Given, 1, read)' = <<>> /\ Linked(<<>>)'
      /\ genKeys' = FirstOf(<<>>)
  <2>1. Linked(<<>>)'
    BY <1>1, EmptySeq DEF Linked, Gen!IsInjective, Gen!ToSet
  <2> QED
    BY <1>1, <2>1, EmptyList
<1>6. ListInv'
  BY <1>3, <1>4, <1>5 DEF ListInv
<1> QED
  BY <1>2, <1>3, <1>6 DEF CallInv

\* What a run makes is of its file.
LEMMA MadeNext ==
    ASSUME GenConstants, GenInv, Gen!Genh \/ Gen!Signup
    PROVE  GenInv'
<1>1. /\ GenTypes /\ job \in 1..4 /\ genPc \in {"h", "signup"} /\ genPc = Gen!Jobs[job][2]
      /\ Linked(Gen!Sorted(Given)) /\ genKeys = FirstOf(Gen!Sorted(Given))
      /\ files' = files /\ Gen!Finish /\ NULL \notin Gen!Name
  BY DEF GenInv, ListInv, GenTypes, GenConstants, Gen!Genh, Gen!Signup
<1>2. Gen!From(genKeys) = Gen!Sorted(Given)
  BY <1>1, FromLinked
<1>3. GenTypes' /\ ListInv' /\ CallInv'
  BY <1>1, FinishNext
<1>4. /\ job < 4 => job' = job + 1 /\ genPc' = "parse"
      /\ job >= 4 => job' = job /\ genPc' = "client"
  BY <1>1 DEF Gen!Finish, Gen!Jobs
<1>5. /\ job = 1 => genPc = "h" /\ Gen!Side = "library"
      /\ job = 2 => genPc = "signup" /\ Gen!Side = "library"
      /\ job = 3 => genPc = "h" /\ Gen!Side = "client"
      /\ job = 4 => genPc = "signup" /\ Gen!Side = "client"
  BY <1>1 DEF Gen!Jobs, Gen!Side
<1>6. MadeInv
  BY DEF GenInv
<1>7. CASE Gen!Genh
  <2>1. /\ genPc = "h" /\ signup' = signup
        /\ header' = [header EXCEPT ![Gen!Side] = Gen!Sorted(Given)]
    BY <1>2, <1>7 DEF Gen!Genh
  <2>2. CASE job = 1
    <3>1. header'["library"] = Gen!Sorted(files["library"]) /\ DOMAIN header' = DOMAIN header
      BY <1>5, <1>6, <2>1, <2>2 DEF MadeInv, Given
    <3> QED
      BY <1>1, <1>3, <1>4, <1>6, <2>1, <2>2, <3>1 DEF GenInv, MadeInv, Ran
  <2>3. CASE job = 3
    <3>1. /\ header'["client"] = Gen!Sorted(files["client"]) /\ DOMAIN header' = DOMAIN header
          /\ header'["library"] = header["library"]
      BY <1>5, <1>6, <2>1, <2>3 DEF MadeInv, Given
    <3> QED
      BY <1>1, <1>3, <1>4, <1>6, <2>1, <2>3, <3>1 DEF GenInv, MadeInv, Ran
  <2> QED
    BY <1>1, <1>5, <2>1, <2>2, <2>3
<1>8. CASE Gen!Signup
  <2>1. /\ genPc = "signup" /\ header' = header
        /\ signup' = [signup EXCEPT ![Gen!Side] = TextOf(Gen!Sorted(Given))]
    BY <1>2, <1>8, Zenon DEF Gen!Signup, TextOf
  <2>2. CASE job = 2
    <3>1. /\ signup'["library"] = TextOf(Gen!Sorted(files["library"]))
          /\ DOMAIN signup' = DOMAIN signup
      BY <1>5, <1>6, <2>1, <2>2 DEF MadeInv, Given
    <3> QED
      BY <1>1, <1>3, <1>4, <1>6, <2>1, <2>2, <3>1 DEF GenInv, MadeInv, Ran
  <2>3. CASE job = 4
    <3>1. /\ signup'["client"] = TextOf(Gen!Sorted(files["client"]))
          /\ DOMAIN signup' = DOMAIN signup /\ signup'["library"] = signup["library"]
      BY <1>5, <1>6, <2>1, <2>3 DEF MadeInv, Given
    <3> QED
      BY <1>1, <1>3, <1>4, <1>6, <2>1, <2>3, <3>1 DEF GenInv, MadeInv, Ran
  <2> QED
    BY <1>1, <1>5, <2>1, <2>2, <2>3
<1> QED
  BY <1>7, <1>8

\* A call of the client.
LEMMA CallNext ==
    ASSUME GenConstants, GenInv, Gen!Call
    PROVE  GenInv'
<1>1. /\ genPc \in {"client", "accepted"} /\ UNCHANGED <<files, job, header, signup>>
      /\ job \in 1..4 /\ GenTypes /\ MadeInv /\ CallInv
  BY DEF GenInv, GenTypes, Gen!Call
<1>2. /\ DOMAIN header = {"library", "client"}
      /\ header["library"] = Gen!Sorted(files["library"])
      /\ signup["library"] = TextOf(Gen!Sorted(files["library"]))
      /\ header["client"] = Gen!Sorted(files["client"])
      /\ signup["client"] = TextOf(Gen!Sorted(files["client"]))
  BY <1>1 DEF MadeInv, Ran
<1>3. files["library"] \in Files /\ files["client"] \in Files
  BY <1>1 DEF GenTypes
<1>4. ASSUME signup["client"] = signup["library"] PROVE header["client"] = header["library"]
  <2>1. /\ Gen!Sorted(files["library"]) \in Seq(Gen!Name)
        /\ Gen!Sorted(files["client"]) \in Seq(Gen!Name)
    BY <1>3, FileSorted
  <2> QED
    BY <1>2, <1>4, <2>1, SameText
<1>5. PICK id \in DOMAIN header["client"] :
          /\ asked' = header["client"][id]
          /\ IF genPc = "accepted" \/ signup["client"] = signup["library"]
             THEN /\ genPc' = "accepted"
                  /\ answered' = IF id \in DOMAIN header["library"]
                                 THEN header["library"][id] ELSE NULL
             ELSE genPc' = "aborted" /\ answered' = NULL
  BY DEF Gen!Call
<1>6. CASE signup["client"] = signup["library"]
  BY <1>1, <1>4, <1>5, <1>6 DEF GenInv, GenTypes, ListInv, MadeInv, Ran, CallInv
<1>7. CASE signup["client"] # signup["library"]
  BY <1>1, <1>5, <1>7 DEF GenInv, GenTypes, ListInv, MadeInv, Ran, CallInv
<1> QED
  BY <1>6, <1>7

\* The sums tell the files of different names apart, and no others.
LEMMA SumsTell ==
    ASSUME GenConstants, GenInv
    PROVE  Gen!SignupFixesIds
<1> SUFFICES ASSUME genPc \in {"accepted", "aborted"} PROVE Gen!SignupFixesIds
  BY DEF Gen!SignupFixesIds
<1>1. /\ files["library"] \in Files /\ files["client"] \in Files
      /\ signup["library"] = TextOf(Gen!Sorted(files["library"]))
      /\ signup["client"] = TextOf(Gen!Sorted(files["client"]))
  BY DEF GenInv, GenTypes, MadeInv, Ran
<1>2. /\ Gen!Sorted(files["library"]) \in Seq(Gen!Name)
      /\ Gen!Sorted(files["client"]) \in Seq(Gen!Name)
  BY <1>1, FileSorted
<1>3. signup["client"] = signup["library"] <=>
          Gen!Sorted(files["client"]) = Gen!Sorted(files["library"])
  BY <1>1, <1>2, SameText
<1>4. Gen!ToSet(files["client"]) = Gen!ToSet(files["library"]) <=>
          Gen!Sorted(files["client"]) = Gen!Sorted(files["library"])
  BY <1>1, SameSorted
<1> QED
  BY <1>3, <1>4 DEF GenInv, CallInv, Gen!SignupFixesIds

\* Generators alone, for any files of distinct names.
LEMMA GenAlone == GenConstants /\ Gen!Spec => []Gen!SignupFixesIds
<1> SUFFICES ASSUME GenConstants PROVE Gen!Spec => []Gen!SignupFixesIds
  OBVIOUS
<1>1. Gen!Init => GenInv
  BY GenInit
<1>2. GenInv /\ [Gen!Next]_(Gen!vars) => GenInv'
  <2> SUFFICES ASSUME GenInv, [Gen!Next]_(Gen!vars) PROVE GenInv'
    OBVIOUS
  <2>1. CASE UNCHANGED Gen!vars
    BY <2>1 DEF Gen!vars, GenInv, GenTypes, ListInv, MadeInv, Ran, CallInv, Given, Linked,
                Gen!Side
  <2>2. CASE Gen!KeyAdd \/ Gen!Sort \/ Gen!Relink \/ Gen!Relinked
    <3>1. ListInv'
      BY <2>2, KeyAddNext, SortNext DEF GenInv
    <3>2. UNCHANGED <<files, job, header, signup, answered, asked>>
      BY <2>2 DEF Gen!KeyAdd, Gen!Sort, Gen!Relink, Gen!Relinked
    <3>3. /\ genPc \in {"parse", "relink"} /\ GenTypes /\ MadeInv
          /\ genPc' \in {"parse", "relink", "h", "signup"}
      BY <2>2 DEF Gen!KeyAdd, Gen!Sort, Gen!Relink, Gen!Relinked, GenInv, GenTypes, Gen!Jobs
    <3> QED
      BY <3>1, <3>2, <3>3 DEF GenInv, GenTypes, MadeInv, Ran, CallInv
  <2> QED
    BY <2>1, <2>2, MadeNext, CallNext DEF Gen!Next
<1>3. GenInv => Gen!SignupFixesIds
  BY SumsTell
<1> QED
  BY <1>1, <1>2, <1>3, PTL DEF Gen!Spec

-----------------------------------------------------------------------------
(* PasswdRows: the fields recorded are the pieces of the current line, and   *)
(* the rows are the lines before it that have as many as wanted.             *)
ByteText == Seq(Rows!Chars)

\* Splits(f, s, c): f[n] has the pieces of the first n characters of s.
Splits(f, s, c) ==
    f = [n \in 0..Len(s) |-> IF n = 0 THEN << <<>> >> ELSE Rows!Cut(f[n - 1], s[n], c)]

SplitTurns(f, s, c, m) ==
    f[0] = << <<>> >> /\ \A n \in 1..m : f[n] = Rows!Cut(f[n - 1], s[n], c)

Cuttings == Seq(ByteText) \ {<<>>}

\* One more character, in the last piece or after it.
LEMMA CutAdds ==
    ASSUME NEW r \in Seq(ByteText), NEW w \in ByteText, NEW x \in Rows!Chars, NEW c, x # c
    PROVE  /\ Rows!Cut(Append(r, w), x, c) = Append(r, Append(w, x))
           /\ Append(w, x) \in ByteText
<1>1. PICK q : q = Append(r, w)
  OBVIOUS
<1>2. PICK v : v = Append(w, x)
  OBVIOUS
<1>3. v \in ByteText
  BY <1>2, AppendProperties DEF ByteText
<1>4. Rows!Cut(q, x, c) = [q EXCEPT ![Len(q)] = Append(q[Len(q)], x)]
  BY DEF Rows!Cut
<1>5. /\ q \in Seq(ByteText) /\ Len(q) = Len(r) + 1 /\ q[Len(q)] = w
      /\ Len(r) \in Nat /\ \A i \in 1..Len(r) : q[i] = r[i]
  BY <1>1, AppendProperties, LenProperties
<1>6. /\ Append(r, v) \in Seq(ByteText) /\ Len(Append(r, v)) = Len(r) + 1
      /\ Append(r, v)[Len(r) + 1] = v /\ \A i \in 1..Len(r) : Append(r, v)[i] = r[i]
  BY <1>3, AppendProperties
<1>7. PICK u : u = [q EXCEPT ![Len(q)] = v]
  OBVIOUS
<1>8. /\ u \in Seq(ByteText) /\ Len(u) = Len(q)
      /\ \A j \in 1..Len(q) : u[j] = IF j = Len(q) THEN v ELSE q[j]
  <2>1. Len(q) \in 1..Len(q)
    BY <1>5
  <2> QED
    BY <1>3, <1>5, <1>7, <2>1, ExceptSeq
<1>9. u = Append(r, v)
  <2>1. \A j \in 1..Len(u) : u[j] = Append(r, v)[j]
    BY <1>5, <1>6, <1>8
  <2> QED
    BY <1>5, <1>6, <1>8, <2>1, SeqEqual
<1> QED
  BY <1>1, <1>2, <1>3, <1>4, <1>5, <1>7, <1>9

LEMMA CutIs ==
    ASSUME NEW q \in Cuttings, NEW x \in Rows!Chars, NEW c
    PROVE  /\ Rows!Cut(q, x, c) \in Cuttings
           /\ x = c => Rows!Cut(q, x, c) = Append(q, <<>>)
           /\ Len(q) <= Len(Rows!Cut(q, x, c))
<1>1. q \in Seq(ByteText) /\ q # <<>> /\ Len(q) \in Nat
  BY LenProperties DEF Cuttings
<1>2. CASE x = c
  <2>1. Rows!Cut(q, x, c) = Append(q, <<>>)
    BY <1>2 DEF Rows!Cut
  <2>2. <<>> \in ByteText
    BY DEF ByteText
  <2>3. Append(q, <<>>) \in Cuttings /\ Len(q) <= Len(Append(q, <<>>))
    BY <1>1, <2>2, AppendProperties DEF Cuttings
  <2> QED
    BY <1>2, <2>1, <2>3
<1>3. CASE x # c
  <2>1. PICK r \in Seq(ByteText), w \in ByteText : q = Append(r, w)
    BY <1>1, SequenceEmptyOrAppend
  <2>2. PICK v : v = Append(w, x)
    OBVIOUS
  <2>3. Rows!Cut(q, x, c) = Append(r, v) /\ v \in ByteText
    BY <1>3, <2>1, <2>2, CutAdds
  <2>4. Append(r, v) \in Seq(ByteText) /\ Append(r, v) # <<>> /\ Len(Append(r, v)) = Len(q)
    BY <2>1, <2>3, AppendProperties
  <2>5. Rows!Cut(q, x, c) \in Cuttings /\ Len(q) <= Len(Rows!Cut(q, x, c))
    BY <1>1, <2>3, <2>4 DEF Cuttings
  <2> QED
    BY <1>3, <2>5
<1> QED
  BY <1>2, <1>3

\* The pieces of any line, and those of a line with one more character.
LEMMA SplitExists ==
    ASSUME NEW s \in ByteText, NEW c
    PROVE  \E f \in [0..Len(s) -> Cuttings] : Splits(f, s, c)
<1> DEFINE n == Len(s)
           step == [p \in (1..n) \X Cuttings |-> Rows!Cut(p[2], s[p[1]], c)]
           none == << <<>> >>
<1>1. n \in Nat /\ \A k \in 1..n : s[k] \in Rows!Chars
  BY LenProperties, ElementOfSeq DEF ByteText
<1>2. none \in Cuttings
  <2>1. <<>> \in ByteText
    BY DEF ByteText
  <2> QED
    BY <2>1 DEF Cuttings
<1>3. step \in Facts!StepOn(n, Cuttings)
  <2>1. \A p \in (1..n) \X Cuttings : Rows!Cut(p[2], s[p[1]], c) \in Cuttings
    BY <1>1, CutIs
  <2> HIDE DEF n
  <2> QED
    BY <2>1 DEF Facts!StepOn
<1>4. PICK f \in [0..n -> Cuttings] : Facts!Recurses(f, none, step, n)
  <2> HIDE DEF n, step, none
  <2> QED
    BY <1>1, <1>2, <1>3, Facts!Recursion
<1>5. f[0] = none /\ \A k \in 1..n : f[k] = Rows!Cut(f[k - 1], s[k], c)
  <2>1. f[0] = none /\ \A k \in 1..n : f[k] = step[<<k, f[k - 1]>>]
    BY <1>4 DEF Facts!Recurses
  <2>2. ASSUME NEW k \in 1..n PROVE step[<<k, f[k - 1]>>] = Rows!Cut(f[k - 1], s[k], c)
    <3>1. <<k, f[k - 1]>> \in (1..n) \X Cuttings
      BY <1>1, k - 1 \in 0..n
    <3> HIDE DEF n
    <3> QED
      BY <3>1
  <2> QED
    BY <2>1, <2>2
<1>6. ASSUME NEW k \in 0..n
      PROVE  f[k] = IF k = 0 THEN << <<>> >> ELSE Rows!Cut(f[k - 1], s[k], c)
  <2>1. CASE k = 0
    BY <1>5, <2>1
  <2>2. CASE k # 0
    <3>1. k \in 1..n
      BY <1>1, <2>2
    <3> QED
      BY <1>5, <2>2, <3>1
  <2> QED
    BY <2>1, <2>2
<1> QED
  BY <1>6 DEF Splits

LEMMA SplitsAt ==
    ASSUME NEW f, NEW s, NEW c, Splits(f, s, c)
    PROVE  \A n \in 0..Len(s) :
              f[n] = IF n = 0 THEN << <<>> >> ELSE Rows!Cut(f[n - 1], s[n], c)
<1> DEFINE e(n) == IF n = 0 THEN << <<>> >> ELSE Rows!Cut(f[n - 1], s[n], c)
<1>1. f = [n \in 0..Len(s) |-> e(n)]
  BY DEF Splits
<1> HIDE DEF e
<1>2. \A n \in 0..Len(s) : f[n] = e(n)
  BY <1>1
<1> QED
  BY <1>2 DEF e

\* Two cuttings of lines that agree up to a place agree up to it.
LEMMA SplitUnique ==
    ASSUME NEW s \in ByteText, NEW t \in ByteText, NEW c, NEW f, NEW g,
           Splits(f, s, c), Splits(g, t, c), NEW m \in Nat, m <= Len(s), m <= Len(t),
           \A n \in 1..m : s[n] = t[n]
    PROVE  f[m] = g[m]
<1> DEFINE K == {n \in Nat : n <= m => f[n] = g[n]}
<1>0. Len(s) \in Nat /\ Len(t) \in Nat
  BY LenProperties DEF ByteText
<1>1. 0 \in K
  <2>1. f[0] = << <<>> >> /\ g[0] = << <<>> >>
    BY <1>0, 0 \in 0..Len(s), 0 \in 0..Len(t), SplitsAt
  <2> QED
    BY <2>1
<1>2. ASSUME NEW n \in Nat, n \in K PROVE n + 1 \in K
  <2> SUFFICES ASSUME n + 1 <= m PROVE f[n + 1] = g[n + 1]
    OBVIOUS
  <2>1. n + 1 \in 0..Len(s) /\ n + 1 \in 0..Len(t) /\ n + 1 # 0 /\ (n + 1) - 1 = n
        /\ n + 1 \in 1..m /\ n <= m
    BY <1>0
  <2> DEFINE k == n + 1
  <2>2. f[k] = Rows!Cut(f[k - 1], s[k], c)
    <3> HIDE DEF k
    <3> QED BY <2>1, SplitsAt DEF k
  <2>3. g[k] = Rows!Cut(g[k - 1], t[k], c)
    <3> HIDE DEF k
    <3> QED BY <2>1, SplitsAt DEF k
  <2>4. f[k - 1] = g[k - 1] /\ s[k] = t[k]
    BY <1>2, <2>1
  <2> HIDE DEF k
  <2>5. f[k] = g[k]
    BY <2>2, <2>3, <2>4
  <2> QED
    BY <2>5 DEF k
<1> HIDE DEF K
<1>3. Nat \subseteq K
  BY <1>1, <1>2, Facts!Induction
<1> QED
  BY <1>3 DEF K

LEMMA SplitIs ==
    ASSUME NEW s \in ByteText, NEW c, NEW f, Splits(f, s, c)
    PROVE  Rows!Split(s, c) = f[Len(s)]
<1> DEFINE g == CHOOSE g : Splits(g, s, c)
<1>1. Rows!Split(s, c) = g[Len(s)]
  BY DEF Rows!Split, Splits
<1>2. Splits(g, s, c)
  OBVIOUS
<1>3. Len(s) \in Nat
  BY LenProperties DEF ByteText
<1> HIDE DEF g
<1> QED
  BY <1>1, <1>2, <1>3, SplitUnique

\* No character makes one piece, that is empty; each further one is cut or added.
LEMMA SplitAppend ==
    ASSUME NEW s \in ByteText, NEW x \in Rows!Chars, NEW c
    PROVE  /\ Rows!Split(s, c) \in Cuttings
           /\ Rows!Split(<<>>, c) = << <<>> >>
           /\ Append(s, x) \in ByteText
           /\ Rows!Split(Append(s, x), c) = Rows!Cut(Rows!Split(s, c), x, c)
<1> DEFINE t == Append(s, x)
           n == Len(s)
<1>1. /\ t \in ByteText /\ Len(t) = n + 1 /\ t[n + 1] = x /\ n \in Nat
      /\ \A i \in 1..n : s[i] = t[i]
      /\ <<>> \in ByteText /\ Len(<<>>) = 0
  BY AppendProperties, LenProperties DEF ByteText
<1>2. PICK f \in [0..n -> Cuttings] : Splits(f, s, c)
  BY SplitExists
<1>3. PICK g \in [0..Len(t) -> Cuttings] : Splits(g, t, c)
  <2> HIDE DEF t
  <2> QED BY <1>1, SplitExists
<1>4. PICK h \in [0..0 -> Cuttings] : Splits(h, <<>>, c)
  BY <1>1, SplitExists
<1>5. Rows!Split(s, c) = f[n] /\ f[n] \in Cuttings
  BY <1>1, <1>2, SplitIs
<1>6. Rows!Split(t, c) = g[n + 1]
  <2> HIDE DEF t
  <2> QED BY <1>1, <1>3, SplitIs
<1>7. Rows!Split(<<>>, c) = << <<>> >>
  <2>1. Rows!Split(<<>>, c) = h[0]
    BY <1>1, <1>4, SplitIs
  <2>2. h[0] = << <<>> >>
    BY <1>1, <1>4, SplitsAt, 0 \in 0..0
  <2> QED
    BY <2>1, <2>2
<1>8. g[n + 1] = Rows!Cut(g[n], x, c)
  <2> DEFINE k == n + 1
  <2>1. k \in 0..Len(t) /\ k # 0 /\ k - 1 = n /\ t[k] = x
    BY <1>1
  <2> HIDE DEF k, t
  <2>2. g[k] = Rows!Cut(g[k - 1], t[k], c)
    BY <1>3, <2>1, SplitsAt
  <2> QED
    BY <2>1, <2>2 DEF k
<1>9. f[n] = g[n]
  <2> HIDE DEF t
  <2>1. n <= Len(s) /\ n <= Len(t)
    BY <1>1
  <2> HIDE DEF n
  <2> QED
    BY <1>1, <1>2, <1>3, <2>1, SplitUnique
<1> QED
  BY <1>1, <1>5, <1>6, <1>7, <1>8, <1>9

\* Characters that are not a separator lengthen the last piece.
Pieced(s, c, r, w) == Rows!Split(s, c) = Append(r, w)
Free(u, c) == \A i \in 1..Len(u) : u[i] # c

LEMMA SplitRun ==
    ASSUME NEW s \in ByteText, NEW c, NEW r \in Seq(ByteText), NEW w \in ByteText,
           Pieced(s, c, r, w), NEW u \in ByteText, Free(u, c)
    PROVE  Pieced(s \o u, c, r, w \o u) /\ w \o u \in ByteText
<1> USE DEF Pieced, Free
<1> DEFINE T == Rows!Chars \ {c}
           P == {v \in ByteText : /\ s \o v \in ByteText /\ w \o v \in ByteText
                                  /\ Rows!Split(s \o v, c) = Append(r, w \o v)}
<1>1. <<>> \in P
  <2>1. s \o <<>> = s /\ w \o <<>> = w /\ <<>> \in ByteText
    BY ConcatEmptySeq DEF ByteText
  <2> QED
    BY <2>1
<1>2. ASSUME NEW v \in Seq(T), NEW x \in T, v \in P PROVE Append(v, x) \in P
  <2>1. /\ s \o Append(v, x) = Append(s \o v, x) /\ s \o Append(v, x) \in ByteText
        /\ w \o Append(v, x) = Append(w \o v, x) /\ w \o Append(v, x) \in ByteText
        /\ Append(v, x) \in ByteText /\ x \in Rows!Chars /\ x # c
    <3>1. v \in ByteText /\ x \in Rows!Chars /\ x # c
      BY <1>2
    <3>2. Append(v, x) \in ByteText
      BY <3>1, AppendProperties DEF ByteText
    <3>3. /\ s \o Append(v, x) = Append(s \o v, x) /\ w \o Append(v, x) = Append(w \o v, x)
      BY <3>1, Facts!ConcatAppend DEF ByteText
    <3>4. s \o Append(v, x) \in ByteText /\ w \o Append(v, x) \in ByteText
      BY <3>2, ConcatProperties DEF ByteText
    <3> QED
      BY <3>1, <3>2, <3>3, <3>4
  <2> DEFINE a == s \o v
             b == w \o v
  <2>2. a \in ByteText /\ b \in ByteText /\ Rows!Split(a, c) = Append(r, b)
    BY <1>2
  <2> HIDE DEF a, b
  <2>3. Rows!Split(Append(a, x), c) = Rows!Cut(Append(r, b), x, c) /\ Append(r, b) \in Cuttings
    <3>1. x \in Rows!Chars
      BY <2>1
    <3> HIDE DEF T
    <3>2. /\ Rows!Split(Append(a, x), c) = Rows!Cut(Rows!Split(a, c), x, c)
          /\ Rows!Split(a, c) \in Cuttings
      BY <2>2, <3>1, SplitAppend
    <3> QED
      BY <2>2, <3>2
  <2>4. Rows!Cut(Append(r, b), x, c) = Append(r, Append(b, x))
    <3>1. x \in Rows!Chars /\ x # c
      BY <2>1
    <3> HIDE DEF T
    <3> QED
      BY <2>2, <3>1, CutAdds
  <2>5. Rows!Split(Append(a, x), c) = Append(r, Append(b, x))
    BY <2>3, <2>4
  <2> QED
    BY <2>1, <2>5 DEF a, b
<1>3. u \in Seq(T)
  <2>1. \A i \in 1..Len(u) : u[i] \in T
    BY ElementOfSeq DEF ByteText
  <2>2. u = [i \in 1..Len(u) |-> u[i]] /\ Len(u) \in Nat
    BY LenProperties DEF ByteText
  <2> HIDE DEF T
  <2> QED
    BY <2>1, <2>2, IsASeq
<1> HIDE DEF P, T
<1>4. Seq(T) \subseteq P
  BY <1>1, <1>2, Facts!SeqInduction
<1> QED
  BY <1>3, <1>4 DEF P

\* A separator ends a piece; further characters never take one away.
LEMMA SplitEnds ==
    ASSUME NEW s \in ByteText, NEW c \in Rows!Chars
    PROVE  Rows!Split(Append(s, c), c) = Append(Rows!Split(s, c), <<>>)
  BY SplitAppend, CutIs

LEMMA SplitGrows ==
    ASSUME NEW s \in ByteText, NEW c, NEW u \in ByteText
    PROVE  /\ Rows!Split(s, c) \in Cuttings /\ Rows!Split(s \o u, c) \in Cuttings
           /\ Len(Rows!Split(s, c)) <= Len(Rows!Split(s \o u, c))
<1> DEFINE P == {v \in ByteText : /\ s \o v \in ByteText
                                  /\ Len(Rows!Split(s, c)) <= Len(Rows!Split(s \o v, c))}
<1>0. \A v \in ByteText : Rows!Split(v, c) \in Cuttings /\ Len(Rows!Split(v, c)) \in Nat
  <2>1. \A v \in ByteText : Rows!Split(v, c) \in Cuttings
    <3>1. PICK x : x \in Rows!Chars
      BY DEF Rows!Chars
    <3> QED
      BY <3>1, SplitAppend
  <2> QED
    BY <2>1, LenProperties DEF Cuttings
<1>1. <<>> \in P
  <2>1. s \o <<>> = s /\ <<>> \in ByteText
    BY ConcatEmptySeq DEF ByteText
  <2> QED
    BY <1>0, <2>1
<1>2. ASSUME NEW v \in Seq(Rows!Chars), NEW x \in Rows!Chars, v \in P PROVE Append(v, x) \in P
  <2>1. /\ s \o Append(v, x) = Append(s \o v, x) /\ s \o Append(v, x) \in ByteText
        /\ Append(v, x) \in ByteText
    BY AppendProperties, Facts!ConcatAppend, ConcatProperties DEF ByteText
  <2> DEFINE a == s \o v
  <2>2. a \in ByteText /\ Len(Rows!Split(s, c)) <= Len(Rows!Split(a, c))
    BY <1>2
  <2> HIDE DEF a
  <2>3. Rows!Split(Append(a, x), c) = Rows!Cut(Rows!Split(a, c), x, c)
    BY <2>2, SplitAppend
  <2>4. Len(Rows!Split(a, c)) <= Len(Rows!Cut(Rows!Split(a, c), x, c))
    BY <1>0, <2>2, CutIs
  <2>5. Append(a, x) \in ByteText
    BY <2>2, AppendProperties DEF ByteText
  <2>6. Len(Rows!Split(s, c)) <= Len(Rows!Split(Append(a, x), c))
    BY <1>0, <2>2, <2>3, <2>4, <2>5
  <2> QED
    BY <2>1, <2>6 DEF a
<1> HIDE DEF P
<1>3. Seq(Rows!Chars) \subseteq P
  BY <1>1, <1>2, Facts!SeqInduction
<1> QED
  BY <1>0, <1>3 DEF P, ByteText

\* The slice of a text from a up to b, and slices that meet.
Slice(t, a, b) == SubSeq(t, a, b - 1)

LEMMA SliceIs ==
    ASSUME NEW t \in ByteText, NEW a \in Nat \ {0}, NEW b \in Nat, a <= b, b <= Len(t) + 1
    PROVE  /\ Slice(t, a, b) \in ByteText /\ Len(Slice(t, a, b)) = b - a
           /\ \A i \in 1..b - a : Slice(t, a, b)[i] = t[a + i - 1]
           /\ b <= Len(t) => Slice(t, a, b + 1) = Append(Slice(t, a, b), t[b])
           /\ a = b => Slice(t, a, b) = <<>>
<1> USE DEF ByteText, Slice
<1>1. Len(t) \in Nat
  BY LenProperties
<1>2. Slice(t, a, b) \in ByteText /\ Len(Slice(t, a, b)) = b - a
      /\ \A i \in 1..b - a : Slice(t, a, b)[i] = t[a + i - 1]
  BY <1>1, SMTT(30)
<1>3. b <= Len(t) => Slice(t, a, b + 1) = Append(Slice(t, a, b), t[b])
  BY <1>1, SMTT(30)
<1>4. a = b => Slice(t, a, b) = <<>>
  BY <1>1, SMTT(30)
<1> QED
  BY <1>2, <1>3, <1>4

LEMMA SlicesMeet ==
    ASSUME NEW t \in ByteText, NEW a \in Nat \ {0}, NEW b \in Nat, NEW d \in Nat,
           a <= b, b <= d, d <= Len(t) + 1
    PROVE  Slice(t, a, d) = Slice(t, a, b) \o Slice(t, b, d)
<1>1. Len(t) \in Nat
  BY LenProperties DEF ByteText
<1> QED
  BY <1>1, SMTT(30) DEF ByteText, Slice

LEMMA SliceAll == ASSUME NEW t \in ByteText PROVE Slice(t, 1, Len(t) + 1) = t
<1>1. Len(t) \in Nat
  BY LenProperties DEF ByteText
<1> QED
  BY <1>1 DEF ByteText, Slice

-----------------------------------------------------------------------------
\* The rows of lines that each end with an end of line, and those of a text.
Kept(lines) == Rows!FlattenSeq([n \in DOMAIN lines |-> Rows!RowOf(lines[n], FALSE)])

RowsIn(t) ==
    LET lines == Rows!Split(t, "eol")
    IN  Rows!FlattenSeq([n \in DOMAIN lines |-> Rows!RowOf(lines[n], n = Len(lines))])

RowTable == Seq(Seq(ByteText))

LEMMA SameRowFlatten == \A s : Rows!FlattenSeq(s) = Facts!FlattenSeq(s)
  BY DEF Rows!FlattenSeq, Facts!FlattenSeq

LEMMA RowOfType ==
    ASSUME NEW s \in ByteText, NEW b \in BOOLEAN
    PROVE  Rows!RowOf(s, b) \in RowTable /\ Rows!Split(s, ":") \in Cuttings
<1>1. Rows!Split(s, ":") \in Cuttings
  BY SplitAppend DEF Rows!Chars
<1> QED
  BY <1>1 DEF Rows!RowOf, RowTable, Cuttings

\* One more line that ends, or one that does not, adds its row.
LEMMA KeptAppend ==
    ASSUME NEW lines \in Seq(ByteText), NEW s \in ByteText
    PROVE  /\ Kept(lines) \in RowTable
           /\ Kept(<<>>) = <<>>
           /\ Kept(Append(lines, s)) = Kept(lines) \o Rows!RowOf(s, FALSE)
           /\ \A t : Rows!Split(t, "eol") = Append(lines, s)
                        => RowsIn(t) = Kept(lines) \o Rows!RowOf(s, TRUE)
<1> DEFINE q == Append(lines, s)
<1>0. PICK a : a = [n \in 1..Len(lines) |-> Rows!RowOf(lines[n], FALSE)]
  OBVIOUS
<1>1. /\ Len(lines) \in Nat /\ DOMAIN lines = 1..Len(lines) /\ q \in Seq(ByteText)
      /\ DOMAIN q = 1..Len(lines) + 1 /\ Len(q) = Len(lines) + 1
      /\ q[Len(lines) + 1] = s /\ \A n \in 1..Len(lines) : q[n] = lines[n] /\ lines[n] \in ByteText
  BY AppendProperties, LenProperties, ElementOfSeq
<1>2. a \in Seq(RowTable) /\ Len(a) = Len(lines)
  <2>1. \A n \in 1..Len(lines) : Rows!RowOf(lines[n], FALSE) \in RowTable
    BY <1>1, RowOfType
  <2>2. a \in [1..Len(lines) -> RowTable]
    BY <1>0, <2>1
  <2> HIDE DEF q
  <2> QED
    BY <1>1, <2>2
<1>3. Kept(lines) = Facts!FlattenSeq(a)
  BY <1>0, <1>1, SameRowFlatten DEF Kept
<1>4. Kept(<<>>) = <<>>
  <2>1. [n \in DOMAIN <<>> |-> Rows!RowOf(<<>>[n], FALSE)] = <<>>
    OBVIOUS
  <2> QED
    BY <2>1 DEF Kept, Rows!FlattenSeq
<1>5. ASSUME NEW b \in BOOLEAN, NEW e,
             e = [n \in DOMAIN q |-> Rows!RowOf(q[n], IF n = Len(q) THEN b ELSE FALSE)]
      PROVE  Facts!FlattenSeq(e) = Kept(lines) \o Rows!RowOf(s, b)
  <2>1. PICK z : z = Rows!RowOf(s, b)
    OBVIOUS
  <2>2. z \in RowTable
    BY <2>1, RowOfType
  <2>3. e = Append(a, z)
    <3>1. /\ Append(a, z) \in Seq(RowTable) /\ Len(Append(a, z)) = Len(lines) + 1
          /\ Append(a, z)[Len(lines) + 1] = z
          /\ \A n \in 1..Len(lines) : Append(a, z)[n] = a[n]
      BY <1>2, <2>2, AppendProperties
    <3>2. \A n \in DOMAIN q : Rows!RowOf(q[n], IF n = Len(q) THEN b ELSE FALSE) = Append(a, z)[n]
      <4> SUFFICES ASSUME NEW n \in DOMAIN q
                   PROVE  Rows!RowOf(q[n], IF n = Len(q) THEN b ELSE FALSE) = Append(a, z)[n]
        OBVIOUS
      <4>1. CASE n = Len(lines) + 1
        BY <1>1, <2>1, <3>1, <4>1
      <4>2. CASE n # Len(lines) + 1
        <5>1. n \in 1..Len(lines) /\ n # Len(q)
          BY <1>1, <4>2
        <5>2. a[n] = Rows!RowOf(lines[n], FALSE)
          BY <1>0, <5>1
        <5>3. q[n] = lines[n]
          BY <1>1, <5>1
        <5> HIDE DEF q
        <5> QED
          BY <3>1, <5>1, <5>2, <5>3
      <4> QED
        BY <4>1, <4>2
    <3>3. Append(a, z) = [n \in DOMAIN q |-> Append(a, z)[n]]
      <4>1. PICK y : y = Append(a, z)
        OBVIOUS
      <4>2. y \in Seq(RowTable) /\ Len(y) = Len(lines) + 1
        BY <3>1, <4>1
      <4> HIDE DEF q
      <4>3. DOMAIN y = DOMAIN q /\ y = [n \in DOMAIN y |-> y[n]]
        BY <1>1, <4>2
      <4> QED
        BY <4>1, <4>3
    <3> HIDE DEF q
    <3> QED
      BY <1>5, <3>2, <3>3
  <2> HIDE DEF q
  <2>4. Facts!FlattenSeq(Append(a, z)) = Facts!FlattenSeq(a) \o z
    BY <1>2, <2>2, Facts!FlattenAppend DEF RowTable
  <2> QED
    BY <1>3, <2>1, <2>3, <2>4
<1>6. Kept(lines) \in RowTable
  <2> QED
    BY <1>2, <1>3, Facts!FlattenAppend, EmptySeq DEF RowTable
<1>7. Kept(q) = Kept(lines) \o Rows!RowOf(s, FALSE)
  <2>1. PICK e : e = [n \in DOMAIN q |-> Rows!RowOf(q[n], IF n = Len(q) THEN FALSE ELSE FALSE)]
    OBVIOUS
  <2>2. Kept(q) = Facts!FlattenSeq(e)
    BY <2>1, SameRowFlatten DEF Kept
  <2> HIDE DEF q
  <2> QED
    BY <1>5, <2>1, <2>2
<1>8. ASSUME NEW t, Rows!Split(t, "eol") = q
      PROVE  RowsIn(t) = Kept(lines) \o Rows!RowOf(s, TRUE)
  <2>1. PICK e : e = [n \in DOMAIN q |-> Rows!RowOf(q[n], IF n = Len(q) THEN TRUE ELSE FALSE)]
    OBVIOUS
  <2>2. PICK d : d = [n \in DOMAIN q |-> Rows!RowOf(q[n], n = Len(q))]
    OBVIOUS
  <2>3. \A n \in DOMAIN q : Rows!RowOf(q[n], n = Len(q)) = Rows!RowOf(q[n], IF n = Len(q) THEN TRUE ELSE FALSE)
    <3> HIDE DEF q
    <3>1. \A n \in DOMAIN q : (n = Len(q)) = (IF n = Len(q) THEN TRUE ELSE FALSE)
      OBVIOUS
    <3> QED
      BY <3>1
  <2>4. d = e
    BY <2>1, <2>2, <2>3
  <2>5. RowsIn(t) = Facts!FlattenSeq(d)
    BY <1>8, <2>2, SameRowFlatten DEF RowsIn
  <2> HIDE DEF q
  <2> QED
    BY <1>5, <2>1, <2>4, <2>5
<1> QED
  BY <1>4, <1>6, <1>7, <1>8

-----------------------------------------------------------------------------
\* The fields recorded for the current row.
Recorded(t, c, s, l) == [i \in 1..c |-> Slice(t, s[i], s[i] + l[i])]

\* The loop is inside the line that begins at p: its closed fields are recorded
\* and the lines before it have given the rows.
Inside(p, lines, t, h, c, s, l, r) ==
    /\ p <= h /\ h <= Len(t) + 1 /\ c < Fields
    /\ Pieced(Slice(t, 1, h), "eol", lines, Slice(t, p, h))
    /\ Recorded(t, c, s, l) \in Seq(ByteText)
    /\ Pieced(Slice(t, p, h), ":", Recorded(t, c, s, l), <<>>)
    /\ r = Kept(lines)

Reading(t, h, c, s, l, r) ==
    \E p \in Nat \ {0} : \E lines \in Seq(ByteText) : Inside(p, lines, t, h, c, s, l, r)

Numbers == [1..Fields -> Nat]

\* The next field, up to the character at e that ends it.
Advanced(t, h, c, e, s, l, ss, ll) ==
    /\ h <= e /\ e <= Len(t) + 1 /\ \A i \in h..e - 1 : t[i] \notin {":", "eol"}
    /\ ss = [s EXCEPT ![c + 1] = h] /\ ll = [l EXCEPT ![c + 1] = e - h]

LEMMA FieldTaken ==
    ASSUME RowConstants, NEW t \in ByteText, NEW h \in Nat, NEW c \in Nat, NEW s \in Numbers,
           NEW l \in Numbers, NEW r, NEW p \in Nat \ {0}, NEW lines \in Seq(ByteText),
           Inside(p, lines, t, h, c, s, l, r), NEW e \in Nat, NEW ss, NEW ll,
           Advanced(t, h, c, e, s, l, ss, ll)
    PROVE  /\ Pieced(Slice(t, 1, e), "eol", lines, Slice(t, p, e))
           /\ Slice(t, p, e) \in ByteText
           /\ Recorded(t, c + 1, ss, ll) \in Seq(ByteText)
           /\ Len(Recorded(t, c + 1, ss, ll)) = c + 1
           /\ Recorded(t, c + 1, ss, ll)[c + 1] = Slice(t, h, e)
           /\ Rows!Split(Slice(t, p, e), ":") = Recorded(t, c + 1, ss, ll)
<1> USE DEF Advanced
<1>1. /\ p <= h /\ h <= Len(t) + 1 /\ c < Fields /\ Fields \in Nat /\ Len(t) \in Nat
      /\ Pieced(Slice(t, 1, h), "eol", lines, Slice(t, p, h))
      /\ Recorded(t, c, s, l) \in Seq(ByteText)
      /\ Pieced(Slice(t, p, h), ":", Recorded(t, c, s, l), <<>>)
  BY LenProperties DEF Inside, RowConstants, ByteText
<1>2. PICK u : u = Slice(t, h, e)
  OBVIOUS
<1>3. u \in ByteText /\ Len(u) = e - h /\ Free(u, ":") /\ Free(u, "eol")
  <2>1. PICK j \in Nat \ {0} : j = h
    BY <1>1
  <2>4. j <= e /\ e <= Len(t) + 1 /\ u = Slice(t, j, e)
    BY <1>2, <2>1
  <2>5. u \in ByteText /\ Len(u) = e - j /\ \A i \in 1..e - j : u[i] = t[j + i - 1]
    BY <2>4, SliceIs
  <2>2. u \in ByteText /\ Len(u) = e - h /\ \A i \in 1..e - h : u[i] = t[h + i - 1]
    BY <2>1, <2>5
  <2>3. \A i \in 1..e - h : h + i - 1 \in h..e - 1
    OBVIOUS
  <2> QED
    BY <2>2, <2>3 DEF Free
<1>4. PICK a : a = Slice(t, 1, h)
  OBVIOUS
<1>5. PICK w : w = Slice(t, p, h)
  OBVIOUS
<1>6. PICK rec : rec = Recorded(t, c, s, l)
  OBVIOUS
<1>7. /\ a \in ByteText /\ w \in ByteText /\ Slice(t, 1, e) = a \o u
      /\ Slice(t, p, e) = w \o u /\ <<>> \in ByteText
  <2>1. PICK one \in Nat \ {0} : one = 1
    OBVIOUS
  <2>2. one <= h
    BY <1>1, <2>1
  <2>3. Slice(t, one, h) \in ByteText /\ Slice(t, p, h) \in ByteText
    BY <1>1, <2>2, SliceIs
  <2>4. Slice(t, one, e) = a \o u
    <3>1. Slice(t, one, e) = Slice(t, one, h) \o Slice(t, h, e)
      BY <1>1, <2>2, SlicesMeet, ZenonT(40)
    <3> QED
      BY <1>2, <1>4, <2>1, <3>1
  <2>5. Slice(t, p, e) = w \o u
    <3>1. Slice(t, p, e) = Slice(t, p, h) \o Slice(t, h, e)
      BY <1>1, SlicesMeet, ZenonT(40)
    <3> QED
      BY <1>2, <1>5, <3>1
  <2>6. <<>> \in ByteText
    BY DEF ByteText
  <2> QED
    BY <1>4, <1>5, <2>1, <2>3, <2>4, <2>5, <2>6
<1>8. Pieced(a \o u, "eol", lines, w \o u) /\ w \o u \in ByteText
  <2>1. Pieced(a, "eol", lines, w)
    BY <1>1, <1>4, <1>5
  <2> QED
    BY <1>3, <1>7, <2>1, SplitRun
<1>9. Rows!Split(w \o u, ":") = Append(rec, u)
  <2>1. Pieced(w, ":", rec, <<>>) /\ rec \in Seq(ByteText)
    BY <1>1, <1>5, <1>6
  <2>2. PICK none \in ByteText : none = <<>>
    BY <1>7
  <2>3. Pieced(w \o u, ":", rec, none \o u)
    BY <1>3, <1>7, <2>1, <2>2, SplitRun
  <2>4. none \o u = u
    BY <1>3, <2>2, ConcatEmptySeq DEF ByteText
  <2> QED
    BY <2>3, <2>4 DEF Pieced
<1>10. Recorded(t, c + 1, ss, ll) = Append(rec, u)
  <2>1. \A i \in 1..c + 1 : /\ i = c + 1 => ss[i] = h /\ ll[i] = e - h
                            /\ i # c + 1 => ss[i] = s[i] /\ ll[i] = l[i]
    <3>1. \A i \in 1..c + 1 : i \in 1..Fields
      BY <1>1
    <3> QED
      BY <3>1 DEF Numbers
  <2>2. rec \in Seq(ByteText) /\ Len(rec) = c /\ \A i \in 1..c : rec[i] = Slice(t, s[i], s[i] + l[i])
    <3>1. rec = [i \in 1..c |-> Slice(t, s[i], s[i] + l[i])]
      BY <1>6 DEF Recorded
    <3>2. rec \in Seq(ByteText) /\ DOMAIN rec = 1..c
      BY <1>1, <1>6, <3>1
    <3>3. Len(rec) = c
      BY <3>2
    <3> QED
      BY <3>1, <3>2, <3>3
  <2>3. PICK z : z = Append(rec, u)
    OBVIOUS
  <2>4. z \in Seq(ByteText) /\ Len(z) = c + 1 /\ z[c + 1] = u /\ \A i \in 1..c : z[i] = rec[i]
    BY <1>3, <2>2, <2>3, AppendProperties
  <2>5. \A i \in 1..c + 1 : Slice(t, ss[i], ss[i] + ll[i]) = z[i]
    <3> SUFFICES ASSUME NEW i \in 1..c + 1
                 PROVE  Slice(t, ss[i], ss[i] + ll[i]) = z[i]
      OBVIOUS
    <3>1. CASE i = c + 1
      <4>1. ss[i] = h /\ ll[i] = e - h /\ h + (e - h) = e
        BY <2>1, <3>1
      <4> QED
        BY <1>2, <2>4, <3>1, <4>1
    <3>2. CASE i # c + 1
      <4>1. i \in 1..c /\ ss[i] = s[i] /\ ll[i] = l[i]
        BY <2>1, <3>2
      <4> QED
        BY <2>2, <2>4, <4>1
    <3> QED
      BY <3>1, <3>2
  <2>6. z = [i \in 1..c + 1 |-> z[i]]
    BY <2>4
  <2> QED
    BY <2>3, <2>5, <2>6 DEF Recorded
<1>11. rec \in Seq(ByteText) /\ Len(rec) = c
  <2>1. rec = [i \in 1..c |-> Slice(t, s[i], s[i] + l[i])]
    BY <1>6 DEF Recorded
  <2> QED
    BY <1>1, <1>6, <2>1
<1>12. Append(rec, u) \in Seq(ByteText) /\ Len(Append(rec, u)) = c + 1 /\ Append(rec, u)[c + 1] = u
  BY <1>3, <1>11, AppendProperties
<1> QED
  BY <1>2, <1>7, <1>8, <1>9, <1>10, <1>12

\* The line ends at e, and its row is kept when it has one.
LEMMA LineEnds ==
    ASSUME RowConstants, NEW t \in ByteText, NEW e \in Nat \ {0}, e <= Len(t), t[e] = "eol",
           NEW lines \in Seq(ByteText), NEW line \in ByteText,
           Pieced(Slice(t, 1, e), "eol", lines, line), NEW s, NEW l
    PROVE  Reading(t, e + 1, 0, s, l, Kept(lines) \o Rows!RowOf(line, FALSE))
<1>1. PICK more : more = Append(lines, line)
  OBVIOUS
<1>2. more \in Seq(ByteText) /\ Kept(more) = Kept(lines) \o Rows!RowOf(line, FALSE)
  BY <1>1, KeptAppend, AppendProperties
<1>3. PICK f \in Nat \ {0} : f = e + 1
  OBVIOUS
<1>4. Len(t) \in Nat /\ f \in Nat /\ f <= f /\ f <= Len(t) + 1
  BY <1>3, LenProperties DEF ByteText
<1>5. Slice(t, f, f) = <<>>
  BY <1>4, SliceIs
<1>6. Pieced(Slice(t, 1, f), "eol", more, Slice(t, f, f))
  <2>1. PICK one \in Nat \ {0} : one = 1
    OBVIOUS
  <2>2. one <= e /\ e <= Len(t) + 1 /\ e \in Nat
    BY <1>4, <2>1
  <2>3. Slice(t, one, e + 1) = Append(Slice(t, one, e), t[e]) /\ Slice(t, one, e) \in ByteText
    BY <2>2, SliceIs
  <2>4. PICK a \in ByteText : a = Slice(t, 1, e) /\ Slice(t, 1, f) = Append(a, "eol")
    BY <1>3, <2>1, <2>3
  <2>5. Rows!Split(Append(a, "eol"), "eol") = Append(Rows!Split(a, "eol"), <<>>)
    BY SplitEnds DEF Rows!Chars
  <2> QED
    BY <1>1, <1>5, <2>4, <2>5 DEF Pieced
<1>7. Recorded(t, 0, s, l) = <<>> /\ <<>> \in Seq(ByteText)
  BY DEF Recorded
<1>8. Pieced(Slice(t, f, f), ":", Recorded(t, 0, s, l), <<>>)
  <2>1. Rows!Split(<<>>, ":") = << <<>> >>
    BY SplitAppend DEF Rows!Chars
  <2>3. Append(<<>>, <<>>) = << <<>> >>
    OBVIOUS
  <2>2. Append(Recorded(t, 0, s, l), <<>>) = << <<>> >>
    BY <1>7, <2>3
  <2> QED
    BY <1>5, <2>1, <2>2 DEF Pieced
<1>9. Inside(f, more, t, f, 0, s, l, Kept(more))
  <2>1. 0 < Fields
    BY DEF RowConstants
  <2> QED
    BY <1>4, <1>6, <1>7, <1>8, <2>1 DEF Inside
<1> QED
  BY <1>2, <1>3, <1>9 DEF Reading

\* The text ends in a line that no end of line closes.
LEMMA TextStops ==
    ASSUME NEW t \in ByteText, NEW lines \in Seq(ByteText), NEW line \in ByteText,
           Pieced(Slice(t, 1, Len(t) + 1), "eol", lines, line)
    PROVE  RowsIn(t) = Kept(lines) \o Rows!RowOf(line, TRUE)
<1>1. Rows!Split(t, "eol") = Append(lines, line)
  BY SliceAll DEF Pieced
<1> QED
  BY <1>1, KeptAppend

\* At the end of the text the current line has no row: its last field is empty.
LEMMA NothingLeft ==
    ASSUME NEW t \in ByteText, NEW c, NEW s, NEW l, NEW r, NEW p \in Nat \ {0},
           NEW lines \in Seq(ByteText), Inside(p, lines, t, Len(t) + 1, c, s, l, r)
    PROVE  r = RowsIn(t)
<1>1. PICK e \in Nat : e = Len(t) + 1
  BY LenProperties DEF ByteText
<1>2. PICK line : line = Slice(t, p, e)
  OBVIOUS
<1>3. PICK rec : rec = Recorded(t, c, s, l)
  OBVIOUS
<1>4. /\ p <= e /\ Pieced(Slice(t, 1, Len(t) + 1), "eol", lines, line)
      /\ rec \in Seq(ByteText) /\ Rows!Split(line, ":") = Append(rec, <<>>) /\ r = Kept(lines)
  BY <1>1, <1>2, <1>3 DEF Inside, Pieced
<1>5. line \in ByteText
  BY <1>1, <1>2, <1>4, SliceIs
<1>6. RowsIn(t) = Kept(lines) \o Rows!RowOf(line, TRUE)
  BY <1>4, <1>5, TextStops
<1>7. Rows!RowOf(line, TRUE) = <<>>
  <2>1. Rows!Last(Append(rec, <<>>)) = <<>>
    <3>1. <<>> \in ByteText
      BY DEF ByteText
    <3>2. /\ Len(Append(rec, <<>>)) = Len(rec) + 1 /\ Append(rec, <<>>)[Len(rec) + 1] = <<>>
      BY <1>4, <3>1, AppendProperties
    <3> QED
      BY <3>2 DEF Rows!Last
  <2> QED
    BY <1>4, <2>1 DEF Rows!RowOf
<1>8. Kept(lines) \o <<>> = Kept(lines)
  BY KeptAppend, <1>5, ConcatEmptySeq DEF RowTable
<1> QED
  BY <1>4, <1>6, <1>7, <1>8

\* A field has been taken: what the line has given so far, up to e.
Taken(p, lines, t, h, c, e, rec, r) ==
    /\ p <= h /\ h <= e /\ e <= Len(t) + 1 /\ p <= e
    /\ Pieced(Slice(t, 1, e), "eol", lines, Slice(t, p, e))
    /\ Slice(t, p, e) \in ByteText
    /\ rec \in Seq(ByteText) /\ Len(rec) = c + 1 /\ rec[c + 1] = Slice(t, h, e)
    /\ Rows!Split(Slice(t, p, e), ":") = rec
    /\ r = Kept(lines)

\* The field is the last of its line: the line ends.
LEMMA TakenLine ==
    ASSUME RowConstants, NEW t \in ByteText, NEW h \in Nat, NEW c \in Nat, NEW e \in Nat \ {0},
           NEW r, NEW p \in Nat \ {0}, NEW lines \in Seq(ByteText), NEW rec,
           Taken(p, lines, t, h, c, e, rec, r), e <= Len(t), t[e] = "eol", NEW s, NEW l,
           NEW q, q = IF c + 1 = Fields THEN Append(r, rec) ELSE r
    PROVE  Reading(t, e + 1, 0, s, l, q)
<1>1. PICK line : line = Slice(t, p, e)
  OBVIOUS
<1>2. /\ Pieced(Slice(t, 1, e), "eol", lines, line) /\ line \in ByteText
      /\ rec \in Seq(ByteText) /\ Len(rec) = c + 1 /\ Rows!Split(line, ":") = rec
      /\ r = Kept(lines)
  BY <1>1 DEF Taken
<1>3. r \in RowTable
  BY <1>2, KeptAppend
<1>4. Rows!RowOf(line, FALSE) = IF c + 1 = Fields THEN <<rec>> ELSE <<>>
  BY <1>2 DEF Rows!RowOf
<1>5. r \o Rows!RowOf(line, FALSE) = q
  <2>1. CASE c + 1 = Fields
    <3>1. r \o <<rec>> = Append(r, rec)
      BY <1>2, <1>3 DEF RowTable
    <3> QED
      BY <1>4, <2>1, <3>1
  <2>2. CASE c + 1 # Fields
    BY <1>3, <1>4, <2>2, ConcatEmptySeq DEF RowTable
  <2> QED
    BY <2>1, <2>2
<1> QED
  BY <1>2, <1>5, LineEnds

\* The field is the last of the text, and is not empty.
LEMMA TakenEnd ==
    ASSUME RowConstants, NEW t \in ByteText, NEW h \in Nat, NEW c \in Nat, NEW e \in Nat \ {0},
           NEW r, NEW p \in Nat \ {0}, NEW lines \in Seq(ByteText), NEW rec,
           Taken(p, lines, t, h, c, e, rec, r), e = Len(t) + 1, h < e,
           NEW q, q = IF c + 1 = Fields THEN Append(r, rec) ELSE r
    PROVE  q = RowsIn(t)
<1>1. PICK line : line = Slice(t, p, e)
  OBVIOUS
<1>2. /\ Pieced(Slice(t, 1, e), "eol", lines, line) /\ line \in ByteText
      /\ rec \in Seq(ByteText) /\ Len(rec) = c + 1 /\ Rows!Split(line, ":") = rec
      /\ r = Kept(lines) /\ rec[c + 1] = Slice(t, h, e) /\ p <= h /\ h <= e
  BY <1>1 DEF Taken
<1>3. r \in RowTable
  BY <1>2, KeptAppend
<1>4. Rows!Last(rec) # <<>>
  <2>1. PICK j \in Nat \ {0} : j = h
    BY <1>2
  <2>2. Len(Slice(t, j, e)) = e - j
    <3>1. j <= e /\ e <= Len(t) + 1 /\ e \in Nat
      BY <1>2, <2>1, LenProperties DEF ByteText
    <3> QED
      BY <3>1, SliceIs
  <2>3. Slice(t, h, e) # <<>>
    BY <2>1, <2>2
  <2> QED
    BY <1>2, <2>3 DEF Rows!Last
<1>5. Rows!RowOf(line, TRUE) = IF c + 1 = Fields THEN <<rec>> ELSE <<>>
  BY <1>2, <1>4 DEF Rows!RowOf
<1>6. r \o Rows!RowOf(line, TRUE) = q
  <2>1. CASE c + 1 = Fields
    <3>1. r \o <<rec>> = Append(r, rec)
      BY <1>2, <1>3 DEF RowTable
    <3> QED
      BY <1>5, <2>1, <3>1
  <2>2. CASE c + 1 # Fields
    BY <1>3, <1>5, <2>2, ConcatEmptySeq DEF RowTable
  <2> QED
    BY <2>1, <2>2
<1>7. RowsIn(t) = Kept(lines) \o Rows!RowOf(line, TRUE)
  BY <1>2, TextStops
<1> QED
  BY <1>2, <1>6, <1>7

\* A separator after the field begins another one.
LEMMA TakenMore ==
    ASSUME NEW t \in ByteText, NEW h \in Nat, NEW c \in Nat, NEW e \in Nat \ {0},
           NEW r, NEW p \in Nat \ {0}, NEW lines \in Seq(ByteText), NEW rec,
           Taken(p, lines, t, h, c, e, rec, r), e <= Len(t), t[e] = ":"
    PROVE  /\ Pieced(Slice(t, 1, e + 1), "eol", lines, Slice(t, p, e + 1))
           /\ Slice(t, 1, e + 1) \in ByteText /\ Slice(t, p, e + 1) \in ByteText
           /\ Pieced(Slice(t, p, e + 1), ":", rec, <<>>)
<1>1. PICK line : line = Slice(t, p, e)
  OBVIOUS
<1>2. PICK a : a = Slice(t, 1, e)
  OBVIOUS
<1>3. /\ Rows!Split(a, "eol") = Append(lines, line) /\ line \in ByteText
      /\ Rows!Split(line, ":") = rec /\ p <= e
  BY <1>1, <1>2 DEF Taken, Pieced
<1>4. Len(t) \in Nat /\ e \in Nat /\ e <= Len(t) + 1
  BY LenProperties DEF ByteText
<1>5. Slice(t, p, e + 1) = Append(line, ":")
  <2>1. Slice(t, p, e + 1) = Append(Slice(t, p, e), t[e])
    BY <1>3, <1>4, SliceIs
  <2> QED
    BY <1>1, <2>1
<1>6. Slice(t, 1, e + 1) = Append(a, ":") /\ a \in ByteText
  <2>1. PICK one \in Nat \ {0} : one = 1
    OBVIOUS
  <2>2. one <= e
    BY <2>1
  <2>3. Slice(t, one, e + 1) = Append(Slice(t, one, e), t[e]) /\ Slice(t, one, e) \in ByteText
    BY <1>4, <2>2, SliceIs
  <2> QED
    BY <1>2, <2>1, <2>3
<1>7. ":" \in Rows!Chars /\ ":" # "eol"
  BY DEF Rows!Chars
<1>8. Rows!Split(Append(a, ":"), "eol") = Append(lines, Append(line, ":"))
  <2>1. Rows!Split(Append(a, ":"), "eol") = Rows!Cut(Rows!Split(a, "eol"), ":", "eol")
    BY <1>6, <1>7, SplitAppend
  <2>2. Rows!Cut(Append(lines, line), ":", "eol") = Append(lines, Append(line, ":"))
    BY <1>3, <1>7, CutAdds
  <2> QED
    BY <1>3, <2>1, <2>2
<1>9. Rows!Split(Append(line, ":"), ":") = Append(rec, <<>>)
  BY <1>3, <1>7, SplitEnds
<1>10. Append(a, ":") \in ByteText /\ Append(line, ":") \in ByteText
  BY <1>3, <1>6, <1>7, AppendProperties DEF ByteText
<1> QED
  BY <1>5, <1>6, <1>8, <1>9, <1>10 DEF Pieced

\* A line with more fields than wanted gives no row.
LEMMA TakenSkip ==
    ASSUME RowConstants, NEW t \in ByteText, NEW h \in Nat, NEW c \in Nat, NEW e \in Nat \ {0},
           NEW r, NEW p \in Nat \ {0}, NEW lines \in Seq(ByteText), NEW rec,
           Taken(p, lines, t, h, c, e, rec, r), e <= Len(t), t[e] = ":", c + 1 = Fields,
           NEW d \in Nat, e <= d, d <= Len(t) + 1, \A i \in e..d - 1 : t[i] # "eol",
           d <= Len(t) => t[d] = "eol", NEW s, NEW l
    PROVE  /\ d = Len(t) + 1 => r = RowsIn(t)
           /\ d <= Len(t) /\ t[d] = "eol" => Reading(t, d + 1, 0, s, l, r)
<1>1. /\ Pieced(Slice(t, 1, e), "eol", lines, Slice(t, p, e)) /\ Slice(t, p, e) \in ByteText
      /\ rec \in Seq(ByteText) /\ Len(rec) = c + 1 /\ r = Kept(lines) /\ p <= e
  BY DEF Taken
<1>2. /\ Slice(t, p, e + 1) \in ByteText /\ Pieced(Slice(t, p, e + 1), ":", rec, <<>>)
  BY TakenMore
<1>3. d # e /\ e + 1 <= d /\ e \in Nat /\ p <= d /\ p <= e + 1 /\ e + 1 \in Nat /\ d \in Nat \ {0} /\ Len(t) \in Nat
  <2>1. d # e
    <3> SUFFICES ASSUME d = e PROVE FALSE
      OBVIOUS
    <3>1. t[e] = "eol"
      OBVIOUS
    <3>2. ":" # "eol"
      OBVIOUS
    <3> QED
      BY <3>1, <3>2
  <2> QED
    BY <1>1, <2>1, LenProperties DEF ByteText
<1>4. PICK line : line = Slice(t, p, d)
  OBVIOUS
<1>5. line \in ByteText /\ Pieced(Slice(t, 1, d), "eol", lines, line)
  <2>1. PICK one \in Nat \ {0} : one = 1
    OBVIOUS
  <2>2. one <= e
    BY <2>1
  <2>3. PICK u : u = Slice(t, e, d)
    OBVIOUS
  <2>4. u \in ByteText /\ Len(u) = d - e /\ \A i \in 1..d - e : u[i] = t[e + i - 1]
    <3>1. Len(t) \in Nat
      BY <1>3
    <3>2. Slice(t, e, d) \in ByteText /\ Len(Slice(t, e, d)) = d - e
          /\ \A i \in 1..d - e : Slice(t, e, d)[i] = t[e + i - 1]
      BY <3>1, SliceIs
    <3> QED
      BY <2>3, <3>2
  <2>5. Free(u, "eol")
    <3>1. \A i \in 1..d - e : e + i - 1 \in e..d - 1
      BY <1>3
    <3> QED
      BY <2>4, <3>1 DEF Free
  <2>6. Slice(t, one, d) = Slice(t, one, e) \o u /\ Slice(t, one, e) \in ByteText
    <3>1. Slice(t, one, d) = Slice(t, one, e) \o Slice(t, e, d)
      BY <1>3, <2>2, SlicesMeet
    <3>2. Slice(t, one, e) \in ByteText
      BY <1>3, <2>2, SliceIs
    <3> QED
      BY <2>3, <3>1, <3>2
  <2>7. line = Slice(t, p, e) \o u
    <3>1. Slice(t, p, d) = Slice(t, p, e) \o Slice(t, e, d)
      <4>1. p <= e /\ e \in Nat
        BY <1>1
      <4> QED
        BY <4>1, SlicesMeet
    <3> QED
      BY <1>4, <2>3, <3>1
  <2>8. PICK a : a = Slice(t, 1, e)
    OBVIOUS
  <2>9. PICK w : w = Slice(t, p, e)
    OBVIOUS
  <2>10. Pieced(a \o u, "eol", lines, w \o u) /\ w \o u \in ByteText
    <3>1. a \in ByteText /\ w \in ByteText /\ Pieced(a, "eol", lines, w)
      BY <1>1, <2>1, <2>6, <2>8, <2>9
    <3> QED
      BY <2>4, <2>5, <3>1, SplitRun
  <2> QED
    BY <2>1, <2>6, <2>7, <2>8, <2>9, <2>10
<1>6. Len(Rows!Split(line, ":")) > Fields
  <2>1. PICK f \in Nat \ {0} : f = e + 1
    BY <1>3
  <2>2. line = Slice(t, p, f) \o Slice(t, f, d) /\ Slice(t, f, d) \in ByteText
    <3>1. Slice(t, p, d) = Slice(t, p, f) \o Slice(t, f, d)
      <4>1. p <= f /\ f \in Nat /\ f <= d
        BY <1>3, <2>1
      <4> QED
        BY <4>1, SlicesMeet
    <3>2. Slice(t, f, d) \in ByteText
      BY <1>3, <2>1, SliceIs
    <3> QED
      BY <1>4, <3>1, <3>2
  <2>3. PICK a : a = Slice(t, p, f)
    OBVIOUS
  <2>4. PICK v : v = Slice(t, f, d)
    OBVIOUS
  <2>5. a \in ByteText /\ v \in ByteText /\ line = a \o v /\ Rows!Split(a, ":") = Append(rec, <<>>)
    BY <1>2, <2>1, <2>2, <2>3, <2>4 DEF Pieced
  <2>6. Len(Rows!Split(a, ":")) <= Len(Rows!Split(a \o v, ":")) /\ Rows!Split(a \o v, ":") \in Cuttings
    BY <2>5, SplitGrows
  <2>7. Len(Append(rec, <<>>)) = Fields + 1
    <3>1. <<>> \in ByteText
      BY EmptySeq DEF ByteText
    <3>2. Len(Append(rec, <<>>)) = Len(rec) + 1
      BY <1>1, <3>1, AppendProperties
    <3> QED
      BY <1>1, <3>2, c + 1 = Fields
  <2>8. Len(Rows!Split(line, ":")) \in Nat
    BY <2>5, <2>6, LenProperties DEF Cuttings
  <2> QED
    BY <2>5, <2>6, <2>7, <2>8 DEF RowConstants
<1>7. Rows!RowOf(line, TRUE) = <<>> /\ Rows!RowOf(line, FALSE) = <<>>
  <2>1. Len(Rows!Split(line, ":")) # Fields
    BY <1>6 DEF RowConstants
  <2> QED
    BY <2>1 DEF Rows!RowOf
<1>8. Kept(lines) \o <<>> = Kept(lines)
  BY <1>5, KeptAppend, ConcatEmptySeq DEF RowTable
<1>9. d = Len(t) + 1 => r = RowsIn(t)
  <2> SUFFICES ASSUME d = Len(t) + 1 PROVE r = RowsIn(t)
    OBVIOUS
  <2>1. RowsIn(t) = Kept(lines) \o Rows!RowOf(line, TRUE)
    BY <1>5, TextStops
  <2> QED
    BY <1>1, <1>7, <1>8, <2>1
<1>10. d <= Len(t) /\ t[d] = "eol" => Reading(t, d + 1, 0, s, l, r)
  <2> SUFFICES ASSUME d <= Len(t), t[d] = "eol" PROVE Reading(t, d + 1, 0, s, l, r)
    OBVIOUS
  <2>1. Reading(t, d + 1, 0, s, l, Kept(lines) \o Rows!RowOf(line, FALSE))
    BY <1>3, <1>5, LineEnds
  <2> QED
    BY <1>1, <1>7, <1>8, <2>1
<1> QED
  BY <1>9, <1>10

\* The loop has read the whole text, or is inside a line.
RowState(t, h, c, s, l, r) ==
    /\ t \in ByteText /\ h \in Nat \ {0} /\ h <= Len(t) + 1
    /\ c \in Nat /\ s \in Numbers /\ l \in Numbers
    /\ (h = Len(t) + 1 /\ r = RowsIn(t)) \/ Reading(t, h, c, s, l, r)

RowInv == RowState(text, head, col, starts, lengths, rows)

LEMMA RowStateTells ==
    ASSUME NEW t, NEW h, NEW c, NEW s, NEW l, NEW r, RowState(t, h, c, s, l, r), h = Len(t) + 1
    PROVE  r = RowsIn(t)
<1>1. CASE Reading(t, h, c, s, l, r)
  <2>1. PICK p \in Nat \ {0} : \E lines \in Seq(ByteText) : Inside(p, lines, t, h, c, s, l, r)
    BY <1>1 DEF Reading
  <2>2. PICK lines \in Seq(ByteText) : Inside(p, lines, t, h, c, s, l, r)
    BY <2>1
  <2>3. Inside(p, lines, t, Len(t) + 1, c, s, l, r) /\ t \in ByteText
    BY <2>2 DEF RowState
  <2> QED
    BY <2>3, NothingLeft
<1> QED
  BY <1>1 DEF RowState

LEMMA FindIs ==
    ASSUME NEW t \in ByteText, t = text, NEW i \in Nat \ {0}, i <= Len(t) + 1, NEW S
    PROVE  /\ Rows!Find(i, S) \in Nat \ {0} /\ i <= Rows!Find(i, S) /\ Rows!Find(i, S) <= Len(t) + 1
           /\ \A k \in i..Rows!Find(i, S) - 1 : t[k] \notin S
           /\ Rows!Find(i, S) <= Len(t) => t[Rows!Find(i, S)] \in S
<1> DEFINE found == {j \in i..Len(t) : t[j] \in S}
<1>1. Len(t) \in Nat
  BY LenProperties DEF ByteText
<1>2. Rows!Find(i, S) = IF found = {} THEN Len(t) + 1
                        ELSE CHOOSE j \in found : \A k \in found : j <= k
  BY DEF Rows!Find
<1>3. CASE found = {}
  <2>1. Rows!Find(i, S) = Len(t) + 1
    BY <1>2, <1>3
  <2>2. \A k \in i..Len(t) : t[k] \notin S
    BY <1>3
  <2> QED
    BY <1>1, <2>1, <2>2
<1>4. CASE found # {}
  <2>1. found \subseteq Nat
    BY <1>1
  <2>2. \E m \in found : \A k \in found : m <= k
    <3> HIDE DEF found
    <3> QED
      BY <1>4, <2>1, Facts!LeastNatural
  <2>3. PICK j : j = CHOOSE first \in found : \A k \in found : first <= k
    OBVIOUS
  <2>4. j \in found /\ \A k \in found : j <= k
    <3> HIDE DEF found
    <3> QED
      BY <2>2, <2>3
  <2>5. Rows!Find(i, S) = j
    <3> HIDE DEF found
    <3> QED
      BY <1>2, <1>4, <2>3
  <2>6. j \in i..Len(t) /\ t[j] \in S /\ j \in Nat \ {0}
    BY <1>1, <2>4
  <2>7. \A k \in i..j - 1 : t[k] \notin S
    BY <1>1, <2>4, <2>6
  <2> QED
    BY <1>1, <2>5, <2>6, <2>7
<1> QED
  BY <1>3, <1>4

\* One turn of the loop.
LEMMA FieldStep ==
    ASSUME RowConstants, RowInv, Rows!Field
    PROVE  RowInv'
<1>1. PICK t : t = text
  OBVIOUS
<1>2. PICK h : h = head
  OBVIOUS
<1>3. PICK c : c = col
  OBVIOUS
<1>4. PICK s : s = starts
  OBVIOUS
<1>5. PICK l : l = lengths
  OBVIOUS
<1>6. PICK r : r = rows
  OBVIOUS
<1>7. /\ t \in ByteText /\ h \in Nat \ {0} /\ h <= Len(t) + 1 /\ c \in Nat /\ s \in Numbers
      /\ l \in Numbers /\ Len(t) \in Nat /\ DOMAIN t = 1..Len(t)
  BY <1>1, <1>2, <1>3, <1>4, <1>5, <1>6, LenProperties DEF RowInv, RowState, ByteText
<1>8. h # Len(t) + 1 /\ h <= Len(t)
  BY <1>1, <1>2, <1>7 DEF Rows!Field, Rows!AtEnd
<1>9. PICK p \in Nat \ {0} : \E lines \in Seq(ByteText) : Inside(p, lines, t, h, c, s, l, r)
  BY <1>1, <1>2, <1>3, <1>4, <1>5, <1>6, <1>8 DEF RowInv, RowState, Reading
<1>10. PICK lines \in Seq(ByteText) : Inside(p, lines, t, h, c, s, l, r)
  BY <1>9
<1>11. PICK e : e = Rows!Find(h, {":", "eol"})
  OBVIOUS
<1>12. PICK ss : ss = [s EXCEPT ![c + 1] = h]
  OBVIOUS
<1>13. PICK ll : ll = [l EXCEPT ![c + 1] = e - h]
  OBVIOUS
<1>14. /\ e \in Nat \ {0} /\ h <= e /\ e <= Len(t) + 1
       /\ \A i \in h..e - 1 : t[i] \notin {":", "eol"}
       /\ e <= Len(t) => t[e] \in {":", "eol"}
  BY <1>1, <1>7, <1>11, FindIs
<1>15. PICK d : d = Rows!Find(e, {"eol"})
  OBVIOUS
<1>16. /\ d \in Nat \ {0} /\ e <= d /\ d <= Len(t) + 1
       /\ \A i \in e..d - 1 : t[i] \notin {"eol"}
       /\ d <= Len(t) => t[d] \in {"eol"}
  <2>1. PICK S : S = {"eol"}
    OBVIOUS
  <2>2. e \in Nat \ {0} /\ e <= Len(t) + 1 /\ t \in ByteText /\ t = text
    BY <1>1, <1>7, <1>14
  <2>3. d = Rows!Find(e, S)
    BY <1>15, <2>1
  <2> QED
    BY <2>1, <2>2, <2>3, FindIs
<1>17. PICK rec : rec = Recorded(t, c + 1, ss, ll)
  OBVIOUS
<1>18. c + 1 \in 1..Fields /\ ss \in Numbers /\ ll \in Numbers
  <2>1. c + 1 \in 1..Fields
    BY <1>7, <1>10 DEF Inside, RowConstants
  <2>2. e - h \in Nat
    BY <1>7, <1>14
  <2> QED
    BY <1>7, <1>12, <1>13, <2>1, <2>2 DEF Numbers
<1>19. Taken(p, lines, t, h, c, e, rec, r)
  <2>1. p <= h /\ p <= e /\ r = Kept(lines)
    BY <1>7, <1>10, <1>14 DEF Inside
  <2>2. /\ Pieced(Slice(t, 1, e), "eol", lines, Slice(t, p, e))
        /\ Slice(t, p, e) \in ByteText
        /\ rec \in Seq(ByteText) /\ Len(rec) = c + 1 /\ rec[c + 1] = Slice(t, h, e)
        /\ Rows!Split(Slice(t, p, e), ":") = rec
    <3>1. Advanced(t, h, c, e, s, l, ss, ll) /\ h \in Nat /\ e \in Nat
      BY <1>7, <1>12, <1>13, <1>14 DEF Advanced
    <3> QED
      BY <1>7, <1>10, <1>17, <3>1, FieldTaken
  <2> QED
    BY <1>14, <2>1, <2>2 DEF Taken
<1>20. c + 1 = Fields => rec = [i \in 1..Fields |-> SubSeq(t, ss[i], ss[i] + ll[i] - 1)]
  <2> SUFFICES ASSUME c + 1 = Fields
               PROVE  rec = [i \in 1..Fields |-> SubSeq(t, ss[i], ss[i] + ll[i] - 1)]
    OBVIOUS
  <2>1. rec = Recorded(t, Fields, ss, ll)
    BY <1>17
  <2>2. \A i \in 1..Fields : Slice(t, ss[i], ss[i] + ll[i]) = SubSeq(t, ss[i], ss[i] + ll[i] - 1)
    <3>1. \A i \in 1..Fields : ss[i] + ll[i] - 1 = (ss[i] + ll[i]) - 1
      BY <1>18 DEF Numbers
    <3> QED
      BY <3>1 DEF Slice
  <2>3. Recorded(t, Fields, ss, ll) = [i \in 1..Fields |-> Slice(t, ss[i], ss[i] + ll[i])]
    BY DEF Recorded
  <2> QED
    BY <2>1, <2>2, <2>3
<1>21. e \in Nat /\ (Rows!AtEnd(e) <=> e = Len(t) + 1) /\ (Rows!AtEnd(d) <=> d = Len(t) + 1)
       /\ (Rows!Is(e, ":") <=> e <= Len(t) /\ t[e] = ":")
       /\ (Rows!Is(e, "eol") <=> e <= Len(t) /\ t[e] = "eol")
  BY <1>1, <1>7, <1>14 DEF Rows!AtEnd, Rows!Is
<1>22. /\ text' = t /\ starts' = ss /\ lengths' = ll
       /\ \/ /\ c + 1 = Fields /\ ~Rows!Is(e, ":") /\ rows' = Append(r, rec)
             /\ head' = (IF e = Len(t) + 1 THEN e ELSE e + 1) /\ col' = 0
          \/ /\ c + 1 = Fields /\ Rows!Is(e, ":") /\ rows' = r
             /\ head' = (IF d = Len(t) + 1 THEN d ELSE d + 1) /\ col' = 0
          \/ /\ c + 1 < Fields /\ rows' = r
             /\ head' = (IF e = Len(t) + 1 THEN e ELSE e + 1)
             /\ col' = IF Rows!Is(e, "eol") THEN 0 ELSE c + 1
  BY <1>1, <1>2, <1>3, <1>4, <1>5, <1>6, <1>11, <1>12, <1>13, <1>15, <1>20, <1>21 DEF Rows!Field
<1>23. PICK hh : hh = head'
  OBVIOUS
<1>24. PICK cc : cc = col'
  OBVIOUS
<1>25. PICK rr : rr = rows'
  OBVIOUS
<1>26. SUFFICES RowState(t, hh, cc, ss, ll, rr)
  BY <1>22, <1>23, <1>24, <1>25 DEF RowInv
<1>27. CASE Rows!Is(e, "eol") /\ ~Rows!Is(e, ":")
  <2>1. e <= Len(t) /\ t[e] = "eol" /\ e # Len(t) + 1
    BY <1>7, <1>21, <1>27
  <2>2. hh = e + 1 /\ cc = 0 /\ rr = (IF c + 1 = Fields THEN Append(r, rec) ELSE r)
    BY <1>18, <1>22, <1>23, <1>24, <1>25, <1>27, <2>1 DEF RowConstants
  <2>3. Reading(t, e + 1, 0, ss, ll, rr)
    BY <1>7, <1>14, <1>19, <2>1, <2>2, TakenLine
  <2> QED
    BY <1>7, <1>14, <1>18, <2>1, <2>2, <2>3 DEF RowState
<1>28. CASE ~Rows!Is(e, "eol") /\ ~Rows!Is(e, ":")
  <2>1. e = Len(t) + 1 /\ h < e
    BY <1>7, <1>8, <1>14, <1>21, <1>28
  <2>2. hh = e /\ rr = (IF c + 1 = Fields THEN Append(r, rec) ELSE r) /\ cc \in Nat
    BY <1>7, <1>22, <1>23, <1>24, <1>25, <1>28, <2>1 DEF RowConstants
  <2>3. rr = RowsIn(t)
    BY <1>7, <1>14, <1>19, <2>1, <2>2, TakenEnd
  <2> QED
    BY <1>7, <1>14, <1>18, <2>1, <2>2, <2>3 DEF RowState
<1>29. CASE Rows!Is(e, ":") /\ c + 1 < Fields
  <2>1. e <= Len(t) /\ t[e] = ":" /\ e # Len(t) + 1
    BY <1>7, <1>21, <1>29
  <2>2. hh = e + 1 /\ cc = c + 1 /\ rr = r
    BY <1>7, <1>21, <1>22, <1>23, <1>24, <1>25, <1>29, <2>1 DEF RowConstants
  <2>3. /\ Pieced(Slice(t, 1, e + 1), "eol", lines, Slice(t, p, e + 1))
        /\ Pieced(Slice(t, p, e + 1), ":", rec, <<>>)
    BY <1>7, <1>14, <1>19, <2>1, TakenMore
  <2>4. rec \in Seq(ByteText) /\ r = Kept(lines) /\ p <= e + 1 /\ e + 1 <= Len(t) + 1
    BY <1>7, <1>14, <1>19, <2>1 DEF Taken
  <2>5. Inside(p, lines, t, e + 1, c + 1, ss, ll, r)
    BY <1>17, <1>29, <2>3, <2>4 DEF Inside
  <2>6. Reading(t, e + 1, c + 1, ss, ll, r)
    BY <2>5 DEF Reading
  <2> QED
    BY <1>7, <1>14, <1>18, <2>2, <2>4, <2>6 DEF RowState
<1>30. CASE Rows!Is(e, ":") /\ ~(c + 1 < Fields)
  <2>1. e <= Len(t) /\ t[e] = ":" /\ c + 1 = Fields
    BY <1>18, <1>21, <1>30 DEF RowConstants
  <2>2. hh = (IF d = Len(t) + 1 THEN d ELSE d + 1) /\ cc = 0 /\ rr = r
    BY <1>22, <1>23, <1>24, <1>25, <1>30
  <2>3. /\ d = Len(t) + 1 => r = RowsIn(t)
        /\ d <= Len(t) /\ t[d] = "eol" => Reading(t, d + 1, 0, ss, ll, r)
    <3>1. \A i \in e..d - 1 : t[i] # "eol"
      BY <1>16
    <3>2. d \in Nat /\ e <= d /\ d <= Len(t) + 1 /\ h \in Nat
      BY <1>7, <1>16
    <3>3. d <= Len(t) => t[d] = "eol"
      BY <1>16
    <3> QED
      BY <1>7, <1>14, <1>19, <2>1, <3>1, <3>2, <3>3, TakenSkip
  <2>4. CASE d = Len(t) + 1
    BY <1>7, <1>16, <1>18, <2>2, <2>3, <2>4 DEF RowState
  <2>5. CASE d # Len(t) + 1
    <3>1. d <= Len(t) /\ t[d] = "eol" /\ hh = d + 1
      BY <1>7, <1>16, <2>2, <2>5
    <3> QED
      BY <1>7, <1>16, <1>18, <2>2, <2>3, <3>1 DEF RowState
  <2> QED
    BY <2>4, <2>5
<1> QED
  BY <1>27, <1>28, <1>29, <1>30

\* The rows, alone, whatever the text.
LEMMA RowInit == ASSUME RowConstants, Rows!Init PROVE RowInv
<1>1. text \in ByteText /\ Len(text) \in Nat
  <2>1. PICK n \in 0..MaxText : text \in [1..n -> Rows!Chars]
    BY DEF Rows!Init
  <2> QED
    BY <2>1, MaxText \in Nat DEF RowConstants, ByteText
<1>2. head = 1 /\ col = 0 /\ rows = <<>> /\ starts \in Numbers /\ lengths \in Numbers
  BY DEF Rows!Init, Numbers
<1>3. PICK p \in Nat \ {0} : p = 1
  OBVIOUS
<1>4. Slice(text, p, p) = <<>>
  <2>1. p \in Nat /\ p <= p /\ p <= Len(text) + 1
    BY <1>1, <1>3
  <2> QED
    BY <1>1, <2>1, SliceIs
<1>5. \A c \in {":", "eol"} : Pieced(<<>>, c, <<>>, <<>>)
  <2>1. \A c \in {":", "eol"} : Rows!Split(<<>>, c) = << <<>> >>
    BY <1>1, SplitAppend DEF Rows!Chars
  <2>2. Append(<<>>, <<>>) = << <<>> >>
    OBVIOUS
  <2> QED
    BY <2>1, <2>2 DEF Pieced
<1>6. Recorded(text, 0, starts, lengths) = <<>> /\ <<>> \in Seq(ByteText)
  BY DEF Recorded
<1>7. Kept(<<>>) = <<>>
  BY <1>1, <1>6, KeptAppend
<1>8. Inside(p, <<>>, text, p, 0, starts, lengths, <<>>)
  <2>1. p <= p /\ p <= Len(text) + 1 /\ 0 < Fields
    BY <1>1, <1>3 DEF RowConstants
  <2>2. Pieced(Slice(text, 1, p), "eol", <<>>, Slice(text, p, p))
    BY <1>3, <1>4, <1>5
  <2>3. Pieced(Slice(text, p, p), ":", Recorded(text, 0, starts, lengths), <<>>)
    BY <1>4, <1>5, <1>6
  <2> QED
    BY <1>6, <1>7, <2>1, <2>2, <2>3 DEF Inside
<1>9. Reading(text, 1, 0, starts, lengths, <<>>)
  BY <1>3, <1>6, <1>8 DEF Reading
<1> QED
  BY <1>1, <1>2, <1>9 DEF RowInv, RowState

LEMMA RowTells == ASSUME RowInv PROVE Rows!RowsRight
<1>1. text \in ByteText
  BY DEF RowInv, RowState
<1>2. Rows!RowsOf = RowsIn(text)
  BY DEF Rows!RowsOf, RowsIn
<1>3. ASSUME head = Len(text) + 1 PROVE rows = RowsIn(text)
  BY <1>3, RowStateTells DEF RowInv
<1> QED
  BY <1>2, <1>3 DEF Rows!RowsRight, Rows!AtEnd

LEMMA RowAlone == RowConstants /\ Rows!Spec => []Rows!RowsRight
<1> SUFFICES ASSUME RowConstants PROVE Rows!Spec => []Rows!RowsRight
  OBVIOUS
<1>1. Rows!Init => RowInv
  BY RowInit
<1>2. RowInv /\ [Rows!Next]_(Rows!vars) => RowInv'
  <2> SUFFICES ASSUME RowInv, [Rows!Next]_(Rows!vars) PROVE RowInv'
    OBVIOUS
  <2>1. CASE Rows!Next
    BY <2>1, FieldStep DEF Rows!Next
  <2>2. CASE UNCHANGED Rows!vars
    BY <2>2 DEF Rows!vars, RowInv
  <2> QED
    BY <2>1, <2>2
<1>3. RowInv => Rows!RowsRight
  BY RowTells
<1> QED
  BY <1>1, <1>2, <1>3, PTL DEF Rows!Spec

-----------------------------------------------------------------------------
(* The parts put together: a behaviour is one of each part, in which all but *)
(* one stutter.                                                              *)

TableProofs == INSTANCE NameTableProofs WITH pc <- nmPc, Ids <- ValidIds
ScrProofs == INSTANCE ScratchProofs WITH
                 Length <- StringLength, Hash <- HashCode, InitialCapacity <- AreaCapacity,
                 Addresses <- Items, holder <- scrHolder, capacity <- areaCapacity,
                 content <- areaContent, text <- itemText, pc <- scrPc, arg <- scrArg,
                 at <- scrAt, ret <- scrRet
PwProofs == INSTANCE PasswdCursorProofs WITH
                Names <- UserNames, Uids <- UserIds, file <- pwFile, buffer <- pwBuffer,
                pos <- pwPos, starts <- pwStarts, holder <- pwHolder, pc <- pwPc,
                at <- pwAt, result <- pwResult, seen <- pwSeen, raced <- {}

\* A step is one of the part that was picked, and leaves the others as they are.
LEMMA PartStep ==
    [ComponentsNext]_allVars =>
        /\ [Next]_vars /\ [Sum!Next]_(Sum!vars) /\ [Cat!Next]_(Cat!vars)
        /\ [Rows!Next]_(Rows!vars) /\ [Table!Next]_(Table!vars) /\ [Gen!Next]_(Gen!vars)
        /\ [Line!Next]_(Line!vars) /\ [Buf!Next]_(Buf!vars) /\ [Get!Next]_(Get!vars)
        /\ [Adm!Next]_(Adm!vars) /\ [Scr!Next]_(Scr!vars) /\ [Pw!Next]_(Pw!vars)
<1> DEFINE Stutter == /\ UNCHANGED vars /\ UNCHANGED Sum!vars /\ UNCHANGED Cat!vars
                      /\ UNCHANGED Rows!vars /\ UNCHANGED Table!vars /\ UNCHANGED Gen!vars
                      /\ UNCHANGED Line!vars /\ UNCHANGED Buf!vars /\ UNCHANGED Get!vars
                      /\ UNCHANGED Adm!vars /\ UNCHANGED Scr!vars /\ UNCHANGED Pw!vars
<1>1. ASSUME NEW p \in Parts, Only(p)
      PROVE  \A q \in Parts \ {p} : Fixed(q)
  BY <1>1 DEF Only
<1>2. /\ UNCHANGED sumVars => UNCHANGED Sum!vars
      /\ UNCHANGED catVars => UNCHANGED Cat!vars
      /\ UNCHANGED rowVars => UNCHANGED Rows!vars
      /\ UNCHANGED nmVars => UNCHANGED Table!vars
      /\ UNCHANGED genVars => UNCHANGED Gen!vars
      /\ UNCHANGED lineVars => UNCHANGED Line!vars
      /\ UNCHANGED bufVars => UNCHANGED Buf!vars
      /\ UNCHANGED getVars => UNCHANGED Get!vars
      /\ UNCHANGED admVars => UNCHANGED Adm!vars
      /\ UNCHANGED scrVars => UNCHANGED Scr!vars
      /\ UNCHANGED pwVars => UNCHANGED Pw!vars
  <2>1. UNCHANGED sumVars => UNCHANGED Sum!vars
    BY DEF sumVars, Sum!vars, Sum!sha256sum, Sum!childVars
  <2>2. UNCHANGED catVars => UNCHANGED Cat!vars
    BY DEF catVars, Cat!vars
  <2>3. UNCHANGED rowVars => UNCHANGED Rows!vars
    BY DEF rowVars, Rows!vars
  <2>4. UNCHANGED nmVars => UNCHANGED Table!vars
    BY DEF nmVars, Table!vars
  <2>5. UNCHANGED genVars => UNCHANGED Gen!vars
    BY DEF genVars, Gen!vars
  <2>6. UNCHANGED lineVars => UNCHANGED Line!vars
    BY DEF lineVars, Line!vars
  <2>7. UNCHANGED bufVars => UNCHANGED Buf!vars
    BY DEF bufVars, Buf!vars
  <2>8. UNCHANGED getVars => UNCHANGED Get!vars
    BY DEF getVars, Get!vars
  <2>9. UNCHANGED admVars => UNCHANGED Adm!vars
    BY DEF admVars, Adm!vars, Adm!system
  <2>10. UNCHANGED scrVars => UNCHANGED Scr!vars
    BY DEF scrVars, Scr!vars
  <2>11. UNCHANGED pwVars => UNCHANGED Pw!vars
    BY DEF pwVars, Pw!vars, Pw!statics, Pw!locals
  <2> QED
    BY <2>1, <2>2, <2>3, <2>4, <2>5, <2>6, <2>7, <2>8, <2>9, <2>10, <2>11
<1>3. /\ Fixed("heap") => UNCHANGED vars
      /\ Fixed("sum") => UNCHANGED Sum!vars
      /\ Fixed("cat") => UNCHANGED Cat!vars
      /\ Fixed("rows") => UNCHANGED Rows!vars
      /\ Fixed("name") => UNCHANGED Table!vars
      /\ Fixed("gen") => UNCHANGED Gen!vars
      /\ Fixed("line") => UNCHANGED Line!vars
      /\ Fixed("buf") => UNCHANGED Buf!vars
      /\ Fixed("get") => UNCHANGED Get!vars
      /\ Fixed("adm") => UNCHANGED Adm!vars
      /\ Fixed("scr") => UNCHANGED Scr!vars
      /\ Fixed("pw") => UNCHANGED Pw!vars
  BY <1>2 DEF Fixed
<1>4. CASE UNCHANGED allVars
  <2>1. Stutter
    BY <1>2, <1>4 DEF allVars
  <2> QED
    BY <2>1
<1>5. CASE ComponentsNext
  BY <1>1, <1>3, <1>5 DEF ComponentsNext, Parts
<1> QED
  BY <1>4, <1>5

\* The invariant of the heap holds in every reachable state.
LEMMA HAlways == ComponentsSpec => []HInv
<1>1. ComponentsInit => Init
  BY DEF ComponentsInit
<1>2. [ComponentsNext]_allVars => [Next]_vars
  BY PartStep
<1> QED
  BY <1>1, <1>2, HInit, HStep, PTL DEF ComponentsSpec

\* Strings stay aligned, inside the used part of the mapping and apart.
THEOREM LayoutAlways == ComponentsSpec => []Layout
<1>1. HInv => Layout
  BY DEF HInv, HeapInv, StringOf, EndOf, Layout
<1> QED
  BY <1>1, HAlways, PTL

\* What is in the heap reads as it was written until the heap is destroyed,
\* however often the mapping moved and whichever allocations failed.
THEOREM StringsKeptAlways == ComponentsSpec => []StringsKept
<1>1. HInv => StringsKept
  <2> SUFFICES ASSUME HInv, NEW s \in strings
               PROVE  /\ \A i \in s.offset..s.offset + s.length - 1 : bytes[i] = s.char
                      /\ bytes[s.offset + s.length] = Nul
    BY Zenon DEF StringsKept
  <2>1. StringOf(s)
    BY DEF HInv, HeapInv
  <2>2. \A i \in s.offset..EndOf(s) - 1 : bytes[i] = s.char
    BY <2>1 DEF StringOf
  <2>3. bytes[EndOf(s)] = Nul
    BY <2>1 DEF StringOf
  <2>4. EndOf(s) - 1 = s.offset + s.length - 1
    BY DEF HInv, HeapInv, String, EndOf
  <2> QED
    BY <2>2, <2>3, <2>4, Zenon DEF EndOf
<1> QED
  BY <1>1, HAlways, PTL

\* No access of the evaluation falls outside of the mapping, uses an address
\* from before a move, or writes in a heap that is read only.
THEOREM NoFaultAlways == ComponentsSpec => []NoFault
<1>1. HInv => NoFault
  BY DEF HInv, HeapInv, NoFault
<1> QED
  BY <1>1, HAlways, PTL

\* An answer of has_system_group is that of a group and of whole lists that the
\* system had during the call, for any users, groups and number of changes
\* (isadmin.c:81-105).
THEOREM AdminVerdictAlways == ComponentsSpec => []AdminVerdict
<1>1. ComponentsInit => Adm!Init
  BY DEF ComponentsInit
<1>2. [ComponentsNext]_allVars => [Adm!Next]_(Adm!vars)
  BY PartStep
<1>3. NotANumber
  BY ComponentsAssumption DEF ToolConstants
<1>4. AdminVerdict <=> Adm!AdminVerdict
  BY DEF AdminVerdict
<1> QED
  BY <1>1, <1>2, <1>3, <1>4, AdminAlone, PTL
     DEF ComponentsSpec, Adm!Spec

\* A buffer is the whole of the file at one moment of the call, however the reads
\* cut it and whatever the other process does, and nothing is read past the
\* allocation nor left, for any size of the reads and any length of the file
\* (buffer.c:40, 78).
THEOREM BufferWholeAlways == ComponentsSpec => []BufferWhole
<1>1. ComponentsInit => Buf!Init
  BY DEF ComponentsInit
<1>2. [ComponentsNext]_allVars => [Buf!Next]_(Buf!vars)
  BY PartStep
<1>3. BufferConstants
  BY ComponentsAssumption
<1>4. BufferWhole <=> Buf!BufferWhole
  BY DEF BufferWhole
<1> QED
  BY <1>1, <1>2, <1>3, <1>4, BufferAlone, PTL
     DEF ComponentsSpec, Buf!Spec

\* The area holds the concatenation of the strings, or their path, whatever slashes
\* they begin and end with and wherever it grew, for any strings and any first size of
\* the area (scratch.c:164-213).
THEOREM ConcatRightAlways == ComponentsSpec => []ConcatRight
<1>1. ComponentsInit => Cat!Init
  BY DEF ComponentsInit
<1>2. [ComponentsNext]_allVars => [Cat!Next]_(Cat!vars)
  BY PartStep
<1>3. CatConstants
  BY ComponentsAssumption
<1>4. ConcatRight <=> Cat!ConcatRight
  BY DEF ConcatRight
<1> QED
  BY <1>1, <1>2, <1>3, <1>4, CatAlone, PTL
     DEF ComponentsSpec, Cat!Spec

\* The callers see the rows of the passwd file, in order, whatever its text: a short
\* or a long line never shifts the fields of the next one (passwd.c:71).
THEOREM RowsRightAlways == ComponentsSpec => []RowsRight
<1>1. ComponentsInit => Rows!Init
  BY DEF ComponentsInit
<1>2. [ComponentsNext]_allVars => [Rows!Next]_(Rows!vars)
  BY PartStep
<1>3. RowConstants
  BY ComponentsAssumption
<1>4. RowsRight <=> Rows!RowsRight
  BY DEF RowsRight
<1> QED
  BY <1>1, <1>2, <1>3, <1>4, RowAlone, PTL
     DEF ComponentsSpec, Rows!Spec

\* A client is accepted when its file defines the variables of the library's, and
\* each of its calls is then answered of the variable it names; any other client is
\* stopped at its first call, for any files of distinct names, in any order
\* (shared-api.c:65, toolbox.c:503, 684).
THEOREM SignupFixesIdsAlways == ComponentsSpec => []SignupFixesIds
<1>1. ComponentsInit => Gen!Init
  BY DEF ComponentsInit
<1>2. [ComponentsNext]_allVars => [Gen!Next]_(Gen!vars)
  BY PartStep
<1>3. GenConstants
  BY ComponentsAssumption
<1>4. SignupFixesIds <=> Gen!SignupFixesIds
  BY DEF SignupFixesIds
<1> QED
  BY <1>1, <1>2, <1>3, <1>4, GenAlone, PTL
     DEF ComponentsSpec, Gen!Spec

\* The line shown is that of the place, whole, and so is its number, and the column
\* is n when the n-th character of the line begins at the place, or one more than
\* its characters at its end, for a file of any length and any place in it or past
\* its end; of a place inside a character nothing is said (parser.c:279).
THEOREM InfoRightAlways == ComponentsSpec => []InfoRight
<1>1. ComponentsInit => Line!Init
  BY DEF ComponentsInit
<1>2. [ComponentsNext]_allVars => [Line!Next]_(Line!vars)
  BY PartStep
<1>3. MaxBytes \in Nat
  BY ComponentsAssumption
<1>4. InfoRight <=> Line!InfoRight
  BY DEF InfoRight
<1> QED
  BY <1>1, <1>2, <1>3, <1>4, LineAlone, PTL
     DEF ComponentsSpec, Line!Spec

\* What is printed is made of all the names, in order, and a command that returns 0
\* has printed it, for any names, any sizes of the pipe and of the writes, and
\* wherever the child dies (sha256sum.c:118-224, toolbox.c:630-655).
THEOREM OutputOfAllNamesAlways == ComponentsSpec => []OutputOfAllNames
<1>1. ComponentsInit => Sum!Init
  BY DEF ComponentsInit
<1>2. [ComponentsNext]_allVars => [Sum!Next]_(Sum!vars)
  BY PartStep
<1>3. ToolConstants
  BY ComponentsAssumption
<1>4. OutputOfAllNames <=> Sum!OutputOfAllNames
  BY DEF OutputOfAllNames
<1> QED
  BY <1>1, <1>2, <1>3, <1>4, ToolAlone, PTL
     DEF ComponentsSpec, Sum!Spec

\* For any names, users and arguments: a command that fails, or a query, prints
\* nothing, and the query is answered right; otherwise the names printed are those
\* wanted, once each in the order of the ids, and the values are those of the user
\* asked for, or with --continue of that of the process (tzplatform_get.c:169-214).
THEOREM GetPrintsAlways == ComponentsSpec => []GetPrints
<1>1. ComponentsInit => Get!Init
  BY DEF ComponentsInit
<1>2. [ComponentsNext]_allVars => [Get!Next]_(Get!vars)
  BY PartStep
<1>3. GetConstants
  BY ComponentsAssumption
<1>4. GetPrints <=> Get!GetPrints
  BY DEF GetPrints
<1> QED
  BY <1>1, <1>2, <1>3, <1>4, GetAlone, PTL
     DEF ComponentsSpec, Get!Spec

\* NameTableProofs is about the same table.
LEMMA SameTable ==
    /\ Table!TableOK <=> TableProofs!TableOK
    /\ Table!Init <=> TableProofs!Init
    /\ [Table!Next]_(Table!vars) => [TableProofs!Next]_(TableProofs!vars)
    /\ Table!NeverAnotherName <=> TableProofs!NeverAnotherName
    /\ Table!SettledTable <=> TableProofs!SettledTable
<1>1. Table!TableOK <=> TableProofs!TableOK
  BY DEF Table!TableOK, TableProofs!TableOK
<1>2. Table!Init <=> TableProofs!Init
  BY DEF Table!Init, TableProofs!Init
<1>3. [Table!Next]_(Table!vars) => [TableProofs!Next]_(TableProofs!vars)
  <2>1. ASSUME NEW t \in Threads
        PROVE  /\ Table!Call(t) => TableProofs!Call(t)
               /\ Table!GetName(t) => TableProofs!GetName(t)
               /\ Table!Fill(t) => TableProofs!Fill(t)
               /\ Table!Filled(t) => TableProofs!Filled(t)
               /\ Table!Read(t) => TableProofs!Read(t)
               /\ Table!Return(t) => TableProofs!Return(t)
    BY Zenon DEF Table!Call, TableProofs!Call, Table!GetName, TableProofs!GetName,
          Table!Fill, TableProofs!Fill, Table!Filled, TableProofs!Filled,
          Table!Read, TableProofs!Read, Table!Return, TableProofs!Return,
          Table!Goto, TableProofs!Goto, Table!Answer, TableProofs!Answer
  <2> QED
    BY <2>1 DEF Table!Next, TableProofs!Next, Table!vars, TableProofs!vars
<1>4. Table!NeverAnotherName <=> TableProofs!NeverAnotherName
  BY DEF Table!NeverAnotherName, TableProofs!NeverAnotherName
<1>5. Table!SettledTable <=> TableProofs!SettledTable
  BY DEF Table!SettledTable, TableProofs!SettledTable
<1> QED
  BY <1>1, <1>2, <1>3, <1>4, <1>5

\* However many threads fill the table at once, no id is given the name of another
\* one, for any ids and any order of namassoc (hashing.c:49).
THEOREM NeverAnotherNameHere == ComponentsSpec => []NeverAnotherName
<1>1. ComponentsInit => TableProofs!Init
  BY SameTable DEF ComponentsInit
<1>2. [ComponentsNext]_allVars => [TableProofs!Next]_(TableProofs!vars)
  BY PartStep, SameTable
<1>3. TableProofs!TableOK
  BY ComponentsAssumption, SameTable
<1>4. NeverAnotherName <=> TableProofs!NeverAnotherName
  BY SameTable DEF NeverAnotherName
<1> QED
  BY <1>1, <1>2, <1>3, <1>4, TableProofs!NeverAnotherNameAlways, PTL
     DEF ComponentsSpec, TableProofs!Spec

\* A thread that finds the table filled before its call is given its name, whatever
\* the others still write.
THEOREM SettledTableHere == ComponentsSpec => []SettledTable
<1>1. ComponentsInit => TableProofs!Init
  BY SameTable DEF ComponentsInit
<1>2. [ComponentsNext]_allVars => [TableProofs!Next]_(TableProofs!vars)
  BY PartStep, SameTable
<1>3. TableProofs!TableOK
  BY ComponentsAssumption, SameTable
<1>4. SettledTable <=> TableProofs!SettledTable
  BY SameTable DEF SettledTable
<1> QED
  BY <1>1, <1>2, <1>3, <1>4, TableProofs!SettledTableAlways, PTL
     DEF ComponentsSpec, TableProofs!Spec

\* ScratchProofs is about the same hash set.
LEMMA SameScratch ==
    /\ Scr!ScratchOK <=> ScrProofs!ScratchOK
    /\ Scr!Init <=> ScrProofs!Init
    /\ [Scr!Next]_(Scr!vars) => [ScrProofs!Next]_(ScrProofs!vars)
    /\ Scr!AreaHolds <=> ScrProofs!AreaHolds
    /\ Scr!ChainsSound <=> ScrProofs!ChainsSound
<1>1. Scr!ScratchOK <=> ScrProofs!ScratchOK
  BY DEF Scr!ScratchOK, ScrProofs!ScratchOK
<1>2. Scr!Init <=> ScrProofs!Init
  BY DEF Scr!Init, ScrProofs!Init
<1>3. [Scr!Next]_(Scr!vars) => [ScrProofs!Next]_(ScrProofs!vars)
  <2>1. ASSUME NEW t \in Threads
        PROVE  /\ Scr!Call(t) => ScrProofs!Call(t)
               /\ Scr!Lock(t) => ScrProofs!Lock(t)
               /\ Scr!Area(t) => ScrProofs!Area(t)
               /\ Scr!Copy(t) => ScrProofs!Copy(t)
               /\ Scr!Found(t) => ScrProofs!Found(t)
               /\ Scr!Skip(t) => ScrProofs!Skip(t)
               /\ Scr!Allocate(t) => ScrProofs!Allocate(t)
               /\ Scr!Record(t) => ScrProofs!Record(t)
               /\ Scr!Unlock(t) => ScrProofs!Unlock(t)
               /\ Scr!Return(t) => ScrProofs!Return(t)
    <3>1. Scr!Call(t) => ScrProofs!Call(t)
      BY Zenon DEF Scr!Call, ScrProofs!Call, Scr!Goto, ScrProofs!Goto
    <3>2. Scr!Lock(t) => ScrProofs!Lock(t)
      BY Zenon DEF Scr!Lock, ScrProofs!Lock, Scr!Goto, ScrProofs!Goto
    <3>3. Scr!Area(t) => ScrProofs!Area(t)
      BY Zenon DEF Scr!Area, ScrProofs!Area, Scr!Fail, ScrProofs!Fail, Scr!Goto,
            ScrProofs!Goto
    <3>4. Scr!Copy(t) => ScrProofs!Copy(t)
      BY Zenon DEF Scr!Copy, ScrProofs!Copy, Scr!Grown, ScrProofs!Grown, Scr!Fail,
            ScrProofs!Fail, Scr!Goto, ScrProofs!Goto
    <3>5. Scr!Found(t) => ScrProofs!Found(t)
      BY Zenon DEF Scr!Found, ScrProofs!Found, Scr!More, ScrProofs!More, Scr!Same,
            ScrProofs!Same, Scr!Here, ScrProofs!Here, Scr!Slot, ScrProofs!Slot,
            Scr!Goto, ScrProofs!Goto
    <3>6. Scr!Skip(t) => ScrProofs!Skip(t)
      BY Zenon DEF Scr!Skip, ScrProofs!Skip, Scr!More, ScrProofs!More, Scr!Same,
            ScrProofs!Same, Scr!Here, ScrProofs!Here, Scr!Slot, ScrProofs!Slot
    <3>7. Scr!Allocate(t) => ScrProofs!Allocate(t)
      BY Zenon DEF Scr!Allocate, ScrProofs!Allocate, Scr!More, ScrProofs!More, Scr!Slot,
            ScrProofs!Slot, Scr!Fail, ScrProofs!Fail, Scr!Goto, ScrProofs!Goto
    <3>8. Scr!Record(t) => ScrProofs!Record(t)
      BY Zenon DEF Scr!Record, ScrProofs!Record, Scr!Slot, ScrProofs!Slot, Scr!Goto,
            ScrProofs!Goto
    <3>9. Scr!Unlock(t) => ScrProofs!Unlock(t)
      BY Zenon DEF Scr!Unlock, ScrProofs!Unlock, Scr!Goto, ScrProofs!Goto
    <3>10. Scr!Return(t) => ScrProofs!Return(t)
      BY Zenon DEF Scr!Return, ScrProofs!Return, Scr!Goto, ScrProofs!Goto
    <3> QED
      BY <3>1, <3>2, <3>3, <3>4, <3>5, <3>6, <3>7, <3>8, <3>9, <3>10
  <2> QED
    BY <2>1, Zenon DEF Scr!Next, ScrProofs!Next, Scr!vars, ScrProofs!vars
<1>4. Scr!AreaHolds <=> ScrProofs!AreaHolds
  BY DEF Scr!AreaHolds, ScrProofs!AreaHolds
<1>5. Scr!ChainsSound <=> ScrProofs!ChainsSound
  BY Zenon DEF Scr!ChainsSound, ScrProofs!ChainsSound, Scr!Slot, ScrProofs!Slot, Scr!Linked,
        ScrProofs!Linked
<1> QED
  BY <1>1, <1>2, <1>3, <1>4, <1>5

\* A behaviour of the whole is one of ScratchProofs.
LEMMA ScratchAlone == ComponentsSpec => ScrProofs!ScratchOK /\ ScrProofs!Spec
<1>1. ComponentsInit => ScrProofs!Init
  BY SameScratch DEF ComponentsInit
<1>2. [ComponentsNext]_allVars => [ScrProofs!Next]_(ScrProofs!vars)
  BY PartStep, SameScratch
<1>3. ScrProofs!ScratchOK
  BY ComponentsAssumption, SameScratch
<1> QED
  BY <1>1, <1>2, <1>3, PTL DEF ComponentsSpec, ScrProofs!Spec

\* The result of a concatenation fits in the area, its null included, whatever
\* doublings were made or failed before, for all lengths (scratch.c:195).
THEOREM AreaHoldsHere == ComponentsSpec => []AreaHolds
<1>1. AreaHolds <=> ScrProofs!AreaHolds
  BY SameScratch DEF AreaHolds
<1> QED
  BY <1>1, ScratchAlone, ScrProofs!AreaHoldsAlways, PTL

\* The chains lose no item and hold no string twice, for any hash, slots and
\* threads (scratch.c:80).
THEOREM ChainsSoundHere == ComponentsSpec => []ChainsSound
<1>1. ChainsSound <=> ScrProofs!ChainsSound
  BY SameScratch DEF ChainsSound
<1> QED
  BY <1>1, ScratchAlone, ScrProofs!ChainsSoundAlways, PTL

\* The hash set is the interner of the header: one address per string, for ever.
THEOREM PoolImplementsHere == ComponentsSpec => PoolSpec
<1>1. Scr!PoolTable = ScrProofs!PoolTable /\ Scr!PoolAnswer = ScrProofs!PoolAnswer
  BY Zenon DEF Scr!PoolTable, ScrProofs!PoolTable, Scr!PoolAnswer, ScrProofs!PoolAnswer,
        Scr!Slot, ScrProofs!Slot, Scr!Linked, ScrProofs!Linked
<1>2. Scr!PoolTable' = ScrProofs!PoolTable' /\ Scr!PoolAnswer' = ScrProofs!PoolAnswer'
  BY Zenon DEF Scr!PoolTable, ScrProofs!PoolTable, Scr!PoolAnswer, ScrProofs!PoolAnswer,
        Scr!Slot, ScrProofs!Slot, Scr!Linked, ScrProofs!Linked
<1>3. ScrProofs!Pool!Init => Scr!Pool!Init
  BY <1>1 DEF ScrProofs!Pool!Init, Scr!Pool!Init
<1>4. [ScrProofs!Pool!Next]_(ScrProofs!Pool!vars) => [Scr!Pool!Next]_(Scr!Pool!vars)
  <2>1. ASSUME NEW t \in Threads
        PROVE  /\ ScrProofs!Pool!Ask(t) => Scr!Pool!Ask(t)
               /\ ScrProofs!Pool!Give(t) => Scr!Pool!Give(t)
               /\ ScrProofs!Pool!Forget(t) => Scr!Pool!Forget(t)
    BY <1>1, <1>2 DEF ScrProofs!Pool!Ask, Scr!Pool!Ask, ScrProofs!Pool!Give, Scr!Pool!Give,
       ScrProofs!Pool!Forget, Scr!Pool!Forget, ScrProofs!Pool!Used, Scr!Pool!Used
  <2> QED
    BY <1>1, <1>2, <2>1 DEF ScrProofs!Pool!Next, Scr!Pool!Next, ScrProofs!Pool!vars,
       Scr!Pool!vars
<1> QED
  BY <1>3, <1>4, ScratchAlone, ScrProofs!PoolImplements, PTL
     DEF PoolSpec, Scr!PoolSpec, ScrProofs!PoolSpec, Scr!Pool!Spec, ScrProofs!Pool!Spec

\* PasswdCursorProofs is about the same cursor.
LEMMA SameCursor ==
    /\ Pw!CursorOK <=> PwProofs!CursorOK
    /\ Pw!Init <=> PwProofs!Init
    /\ [Pw!Next]_(Pw!vars) => [PwProofs!Next]_(PwProofs!vars)
    /\ Pw!NoWildRead <=> PwProofs!NoWildRead
    /\ Pw!LookupRight <=> PwProofs!LookupRight
    /\ Pw!NothingLeaks <=> PwProofs!NothingLeaks
<1>1. Pw!CursorOK <=> PwProofs!CursorOK
  BY Zenon DEF Pw!CursorOK, PwProofs!CursorOK, Pw!Row, PwProofs!Row
<1>2. Pw!Init <=> PwProofs!Init
  BY Zenon DEF Pw!Init, PwProofs!Init, Pw!Columns, PwProofs!Columns, Pw!Queries,
        PwProofs!Queries, Pw!NotFound, PwProofs!NotFound
<1>3. [Pw!Next]_(Pw!vars) => [PwProofs!Next]_(PwProofs!vars)
  <2>1. ASSUME NEW t \in Threads
        PROVE  /\ Pw!Enter(t) => PwProofs!Enter(t)
               /\ Pw!Rewind(t) => PwProofs!Rewind(t)
               /\ Pw!Open(t) => PwProofs!Open(t)
               /\ Pw!NextRow(t) => PwProofs!NextRow(t)
               /\ Pw!SetName(t) => PwProofs!SetName(t)
               /\ Pw!SetUid(t) => PwProofs!SetUid(t)
               /\ Pw!Match(t) => PwProofs!Match(t)
               /\ Pw!Take(t) => PwProofs!Take(t)
               /\ Pw!Close(t) => PwProofs!Close(t)
               /\ Pw!Leave(t) => PwProofs!Leave(t)
    <3>1. Pw!Enter(t) => PwProofs!Enter(t)
      BY Zenon DEF Pw!Enter, PwProofs!Enter, Pw!Queries, PwProofs!Queries, Pw!NotFound,
            PwProofs!NotFound, Pw!statics, PwProofs!statics, Pw!Goto, PwProofs!Goto
    <3>2. Pw!Rewind(t) => PwProofs!Rewind(t)
      BY Zenon DEF Pw!Rewind, PwProofs!Rewind, Pw!locals, PwProofs!locals, Pw!Goto,
            PwProofs!Goto
    <3>3. Pw!Open(t) => PwProofs!Open(t)
      BY Zenon DEF Pw!Open, PwProofs!Open, Pw!Goto, PwProofs!Goto
    <3>4. Pw!NextRow(t) => PwProofs!NextRow(t)
      BY Zenon DEF Pw!NextRow, PwProofs!NextRow, Pw!Crash, PwProofs!Crash, Pw!statics,
            PwProofs!statics, Pw!locals, PwProofs!locals, Pw!Goto, PwProofs!Goto
    <3>5. Pw!SetName(t) => PwProofs!SetName(t)
      BY Zenon DEF Pw!SetName, PwProofs!SetName, Pw!Readable, PwProofs!Readable,
            Pw!Crash, PwProofs!Crash, Pw!statics, PwProofs!statics, Pw!locals,
            PwProofs!locals, Pw!Goto, PwProofs!Goto
    <3>6. Pw!SetUid(t) => PwProofs!SetUid(t)
      BY Zenon DEF Pw!SetUid, PwProofs!SetUid, Pw!Readable, PwProofs!Readable, Pw!Crash,
            PwProofs!Crash, Pw!statics, PwProofs!statics, Pw!locals, PwProofs!locals,
            Pw!Goto, PwProofs!Goto
    <3>7. Pw!Match(t) => PwProofs!Match(t)
      BY Zenon DEF Pw!Match, PwProofs!Match, Pw!Readable, PwProofs!Readable, Pw!Crash,
            PwProofs!Crash, Pw!Cell, PwProofs!Cell, Pw!Compared, PwProofs!Compared,
            Pw!statics, PwProofs!statics, Pw!locals, PwProofs!locals, Pw!Goto,
            PwProofs!Goto
    <3>8. Pw!Take(t) => PwProofs!Take(t)
      BY Zenon DEF Pw!Take, PwProofs!Take, Pw!Readable, PwProofs!Readable, Pw!Crash,
            PwProofs!Crash, Pw!Cell, PwProofs!Cell, Pw!Returned, PwProofs!Returned,
            Pw!statics, PwProofs!statics, Pw!locals, PwProofs!locals, Pw!Goto,
            PwProofs!Goto
    <3>9. Pw!Close(t) => PwProofs!Close(t)
      BY Zenon DEF Pw!Close, PwProofs!Close, Pw!statics, PwProofs!statics, Pw!locals,
            PwProofs!locals, Pw!Goto, PwProofs!Goto
    <3>10. Pw!Leave(t) => PwProofs!Leave(t)
      BY Zenon DEF Pw!Leave, PwProofs!Leave, Pw!statics, PwProofs!statics, Pw!locals,
            PwProofs!locals, Pw!Goto, PwProofs!Goto
    <3> QED
      BY <3>1, <3>2, <3>3, <3>4, <3>5, <3>6, <3>7, <3>8, <3>9, <3>10
  <2>2. Pw!Edit => PwProofs!Edit
    BY Zenon DEF Pw!Edit, PwProofs!Edit, Pw!statics, PwProofs!statics, Pw!locals,
          PwProofs!locals
  <2>3. UNCHANGED Pw!vars => UNCHANGED PwProofs!vars
    BY DEF Pw!vars, PwProofs!vars, Pw!statics, PwProofs!statics, Pw!locals, PwProofs!locals
  <2> QED
    BY <2>1, <2>2, <2>3, Zenon DEF Pw!Next, PwProofs!Next, Pw!Step, PwProofs!Step
<1>4. Pw!NoWildRead <=> PwProofs!NoWildRead
  BY DEF Pw!NoWildRead, PwProofs!NoWildRead
<1>5. Pw!LookupRight <=> PwProofs!LookupRight
  BY Zenon DEF Pw!LookupRight, PwProofs!LookupRight, Pw!Lookup, PwProofs!Lookup,
        Pw!Compared, PwProofs!Compared, Pw!Returned, PwProofs!Returned, Pw!NotFound,
        PwProofs!NotFound
<1>6. Pw!NothingLeaks <=> PwProofs!NothingLeaks
  BY Zenon DEF Pw!NothingLeaks, PwProofs!NothingLeaks
<1> QED
  BY <1>1, <1>2, <1>3, <1>4, <1>5, <1>6

\* All callers hold one lock: that of their context.
OneLock == \A s, t \in Threads : LockOf[s] = LockOf[t]

\* A behaviour of the whole is one of PasswdCursorProofs.
LEMMA CursorAlone ==
    OneLock /\ ComponentsSpec => PwProofs!CursorOK /\ PwProofs!OneLock /\ PwProofs!Spec
<1>1. ComponentsInit => PwProofs!Init
  BY SameCursor DEF ComponentsInit
<1>2. [ComponentsNext]_allVars => [PwProofs!Next]_(PwProofs!vars)
  BY PartStep, SameCursor
<1>3. PwProofs!CursorOK
  BY ComponentsAssumption, SameCursor
<1>4. OneLock => PwProofs!OneLock
  BY DEF OneLock, PwProofs!OneLock
<1> QED
  BY <1>1, <1>2, <1>3, <1>4, PTL DEF ComponentsSpec, PwProofs!Spec

\* Under one lock no lookup reads a buffer that was unmapped (passwd.c:66).
THEOREM NoWildReadHere == OneLock /\ ComponentsSpec => []NoWildRead
<1>1. NoWildRead <=> PwProofs!NoWildRead
  BY SameCursor DEF NoWildRead
<1> QED
  BY <1>1, CursorAlone, PwProofs!OneLockNoWildRead, PTL

\* Under one lock a lookup gives what the file said when it was opened, whatever
\* rows it has and however it is edited (passwd.c:101).
THEOREM LookupRightHere == OneLock /\ ComponentsSpec => []LookupRight
<1>1. LookupRight <=> PwProofs!LookupRight
  BY SameCursor DEF LookupRight
<1> QED
  BY <1>1, CursorAlone, PwProofs!OneLockLookupRight, PTL

\* Under one lock the file is closed on every path of a lookup (passwd.c:130).
THEOREM NothingLeaksHere == OneLock /\ ComponentsSpec => []NothingLeaks
<1>1. NothingLeaks <=> PwProofs!NothingLeaks
  BY SameCursor DEF NothingLeaks
<1> QED
  BY <1>1, CursorAlone, PwProofs!OneLockNothingLeaks, PTL
=============================================================================
