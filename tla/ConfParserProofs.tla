-------------------------- MODULE ConfParserProofs --------------------------
(***************************************************************************)
(* Proofs about ConfParser, for every text and every size of the parser's  *)
(* buffer.                                                                 *)
(***************************************************************************)
EXTENDS ConfParser, SequenceFacts, SequenceTheorems, TLAPS

Character == KeyChar \cup Space \cup Special \cup Others

RequestInv ==
    /\ DataSize \in Nat \ {0} /\ ShouldEscape \in BOOLEAN /\ Continues \in BOOLEAN
    /\ parsing.answer \in Text \cup {Normal, NULL}
    /\ text \in Text
    /\ ~ShouldEscape => before = NULL

\* Where the head, the key and the variable are, and what the buffer holds.
PlaceInv ==
    /\ label \in {"initial", "comment", "key", "value", "variable", "stop"}
    /\ head \in Nat \ {0} /\ head <= Len(text) + 1
    /\ label \in {"comment", "key", "variable"} => head <= Len(text)
    /\ label = "key" => skey \in Nat \ {0} /\ skey <= head
    /\ label \in {"value", "variable"} =>
          skey \in Nat \ {0} /\ lkey \in Nat \ {0} /\ skey + lkey <= head
    /\ label = "variable" => svar \in Nat \ {0} /\ svar <= head

DataInv ==
    /\ data \in Text /\ whole \in Text /\ Len(data) <= DataSize
    /\ overflow \in BOOLEAN
    /\ puts \in Seq(Definition)

\* Without escapes, a value that fits is the one that was written.
ValueInv ==
    ~ShouldEscape =>
        /\ label \in {"value", "variable"} /\ ~overflow => data = whole
        /\ \A i \in DOMAIN puts : puts[i].value = puts[i].meant

\* A definition that was put is in the text, with its key and its value.
Within(d, t) == d.begin \in 1..Len(t) /\ d.end \in 1..Len(t) + 1
PutsInv == \A i \in DOMAIN puts : Within(puts[i], text)

ParserInv == RequestInv /\ PlaceInv /\ DataInv /\ ValueInv /\ PutsInv

-----------------------------------------------------------------------------
(* The first error.                                                          *)

ErrorsInv == /\ errors \in Nat
             /\ Continues \in BOOLEAN
             /\ ~Continues /\ errors > 0 => errors = 1 /\ label = "stop"

\* An error is the first, and is the last when the callback stops.
LEMMA ErrorsStep == ErrorsInv /\ [Next]_vars => ErrorsInv'
<1> SUFFICES ASSUME ErrorsInv, [Next]_vars PROVE ErrorsInv'
  OBVIOUS
<1> USE DEF ErrorsInv, Continues
<1>1. CASE Again
  <2>1. parsing'.continues = parsing.continues /\ errors' = 0
    BY <1>1 DEF Again
  <2> QED
    BY <2>1
<1>2. ASSUME parsing' = parsing, label # "stop", errors' = errors PROVE ErrorsInv'
  BY <1>2
<1>3. ASSUME parsing' = parsing, label # "stop", errors' = errors + 1,
             Continues \/ label' = "stop"
      PROVE  ErrorsInv'
  BY <1>3
<1>4. ASSUME Next, ~Again PROVE parsing' = parsing /\ label # "stop"
  <2>1. CASE Initial \/ Comment \/ Key
    BY <2>1 DEF Initial, Comment, Key
  <2>2. CASE Literal \/ Escape \/ Quote
    BY <2>2 DEF Literal, Escape, Quote
  <2>3. CASE Dollar \/ Variable \/ EndOfValue
    BY <2>3 DEF Dollar, Variable, EndOfValue
  <2> QED
    BY <1>4, <2>1, <2>2, <2>3 DEF Next
<1>5. CASE Initial
  <2>1. errors' = errors \/ (errors' = errors + 1 /\ (Continues \/ label' = "stop"))
    BY <1>5 DEF Initial, Error, Goto
  <2> QED
    BY <1>2, <1>3, <1>5, <2>1 DEF Initial
<1>6. CASE Comment \/ Literal \/ Quote
  BY <1>2, <1>6 DEF Comment, Literal, Quote
<1>7. CASE Key \/ Escape
  <2>1. errors' = errors \/ (errors' = errors + 1 /\ (Continues \/ label' = "stop"))
    BY <1>7 DEF Key, Escape, Error, Fatal, Goto
  <2> QED
    BY <1>2, <1>3, <1>7, <2>1 DEF Key, Escape
<1>8. CASE Dollar
  <2>1. PICK h : \/ Fatal(h) \/ errors' = errors \/ Error("value", h)
    <3> DEFINE h == IF At(head + 1) = Open THEN head + 2 ELSE head + 1
    <3>1. Fatal(h) \/ errors' = errors \/ Error("value", h)
      BY <1>8 DEF Dollar
    <3> QED
      BY <3>1
  <2> QED
    BY <1>2, <1>3, <1>4, <1>8, <2>1 DEF Next, Again, Dollar, Error, Fatal, Goto
<1>9. CASE Variable
  <2>1. CASE At(head + 1) \in KeyChar
    BY <1>2, <1>9, <2>1 DEF Variable
  <2>2. CASE At(head + 1) \notin KeyChar
    <3>1. PICK unmatched \in BOOLEAN, missing \in BOOLEAN :
             /\ errors' = errors + IF unmatched /\ missing /\ Continues THEN 2
                                   ELSE IF unmatched \/ missing THEN 1 ELSE 0
             /\ label' = IF ~Continues /\ (unmatched \/ missing) THEN "stop" ELSE "value"
      <4> DEFINE closed == At(head + 1) = Close
                 unmatched == brace /\ ~closed
                 missing == Answer(SubSeq(text, svar, head)) = NULL
      <4>1. /\ errors' = errors + IF unmatched /\ missing /\ Continues THEN 2
                                  ELSE IF unmatched \/ missing THEN 1 ELSE 0
            /\ label' = IF ~Continues /\ (unmatched \/ missing) THEN "stop" ELSE "value"
        BY <1>9, <2>2 DEF Variable, Goto
      <4>2. unmatched \in BOOLEAN /\ missing \in BOOLEAN
        OBVIOUS
      <4> HIDE DEF unmatched, missing
      <4> QED
        BY <4>1, <4>2
    <3>2. parsing' = parsing /\ label # "stop"
      BY <1>9 DEF Variable
    <3>3. CASE Continues
      BY <3>1, <3>2, <3>3
    <3>4. CASE ~Continues
      <4>1. CASE unmatched \/ missing
        BY <3>1, <3>2, <3>4, <4>1
      <4>2. CASE ~(unmatched \/ missing)
        BY <3>1, <3>2, <3>4, <4>2
      <4> QED
        BY <4>1, <4>2
    <3> QED
      BY <3>3, <3>4
  <2> QED
    BY <2>1, <2>2
<1>10. CASE EndOfValue
  <2>1. errors' = errors \/ (errors' = errors + 1 /\ (Continues \/ label' = "stop"))
    BY <1>10 DEF EndOfValue, Error, Fatal, Goto
  <2> QED
    BY <1>2, <1>3, <1>10, <2>1 DEF EndOfValue
<1>11. CASE UNCHANGED vars
  BY <1>11 DEF vars
<1> QED
  BY <1>1, <1>5, <1>6, <1>7, <1>8, <1>9, <1>10, <1>11 DEF Next

\* With the callback of the library nothing is read after an error.
THEOREM StopsAtFirstErrorAlways == Spec => []StopsAtFirstError
<1>1. Init => ErrorsInv
  BY ParserAssumption DEF Init, ErrorsInv, Continues
<1>2. ErrorsInv => StopsAtFirstError
  BY DEF ErrorsInv, StopsAtFirstError
<1> QED
  BY <1>1, <1>2, ErrorsStep, PTL DEF Spec

-----------------------------------------------------------------------------
(* The request.                                                              *)

\* A parser starts on one of the requests, at its first character.
LEMMA RequestInit == Init => ParserInv
<1> SUFFICES ASSUME Init PROVE ParserInv
  OBVIOUS
<1>1. PICK i \in DOMAIN Requests : \E t \in Requests[i].texts :
         parsing = [text |-> t, size |-> Requests[i].size, escape |-> Requests[i].escape,
                    continues |-> Requests[i].continues, answer |-> Requests[i].answer]
  BY DEF Init
<1>2. RequestInv
  BY <1>1, ParserAssumption DEF Init, RequestInv, text, DataSize, ShouldEscape, Continues
<1>3. PlaceInv
  BY <1>2 DEF RequestInv, Init, PlaceInv, Text
<1>4. DataInv
  <2>1. <<>> \in Text /\ <<>> \in Seq(Definition) /\ Len(<<>>) = 0
    BY DEF Text
  <2>2. data = <<>> /\ whole = <<>> /\ overflow = FALSE /\ puts = <<>>
    BY DEF Init
  <2>3. 0 <= DataSize
    BY <1>2 DEF RequestInv
  <2> QED
    BY <2>1, <2>2, <2>3 DEF DataInv
<1>5. ValueInv /\ PutsInv
  BY DEF Init, ValueInv, PutsInv
<1> QED
  BY <1>2, <1>3, <1>4, <1>5 DEF ParserInv

\* All the steps but the one that starts again keep the request.
LEMMA RequestKept == Next /\ ~Again => parsing' = parsing /\ before' = before
<1>1. Initial \/ Comment \/ Key => parsing' = parsing /\ before' = before
  BY DEF Initial, Comment, Key
<1>2. Literal \/ Escape \/ Quote => parsing' = parsing /\ before' = before
  BY DEF Literal, Escape, Quote
<1>3. Dollar \/ Variable \/ EndOfValue => parsing' = parsing /\ before' = before
  BY DEF Dollar, Variable, EndOfValue
<1> QED
  BY <1>1, <1>2, <1>3 DEF Next

\* A part of a text is a text, empty when its bounds cross.
LEMMA PartIs ==
    ASSUME NEW t \in Text, NEW m \in 1..Len(t) + 1, NEW n \in 0..Len(t)
    PROVE  SubSeq(t, m, n) \in Text
<1>1. CASE m <= n
  BY <1>1 DEF Text
<1>2. CASE m > n
  <2>1. SubSeq(t, m, n) = <<>>
    BY <1>2 DEF Text
  <2> QED
    BY <2>1 DEF Text
<1> QED
  BY <1>1, <1>2 DEF Text

\* What pretty prints is a text: it puts together parts of the one that was read,
\* keys and values.
LEMMA PrettyIs == ParserInv => Pretty \in Text
<1> SUFFICES ASSUME ParserInv PROVE Pretty \in Text
  OBVIOUS
<1> DEFINE printed == [i \in DOMAIN puts |-> Gap(text, puts, i) \o puts[i].key
                                                \o <<"=">> \o puts[i].value]
<1>1. text \in Text /\ Len(text) \in Nat /\ puts \in Seq(Definition) /\ Len(puts) \in Nat
      /\ DOMAIN puts = 1..Len(puts)
  BY DEF ParserInv, RequestInv, DataInv, Text
<1>2. \A i \in 1..Len(puts) : puts[i] \in Definition /\ Within(puts[i], text)
  BY <1>1 DEF ParserInv, PutsInv
<1>3. ASSUME NEW i \in 1..Len(puts) + 1 PROVE Gap(text, puts, i) \in Text
  <2> DEFINE m == IF i = 1 THEN 1 ELSE puts[i - 1].end
             n == IF i > Len(puts) THEN Len(text) ELSE puts[i].begin - 1
  <2>1. m \in 1..Len(text) + 1
    <3>1. i # 1 => i - 1 \in 1..Len(puts)
      BY <1>1
    <3> QED
      BY <1>1, <1>2, <3>1 DEF Within
  <2>2. n \in 0..Len(text)
    <3>1. i <= Len(puts) => i \in 1..Len(puts)
      BY <1>1
    <3> QED
      BY <1>1, <1>2, <3>1 DEF Within
  <2> HIDE DEF m, n
  <2>3. SubSeq(text, m, n) \in Text
    BY <1>1, <2>1, <2>2, PartIs
  <2> QED
    BY <2>3 DEF Gap, m, n
<1>4. <<"=">> \in Text
  BY DEF Text, Others
<1>5. \A v, w \in Text : v \o w \in Text
  BY DEF Text
<1>6. ASSUME NEW i \in 1..Len(puts)
      PROVE  Gap(text, puts, i) \o puts[i].key \o <<"=">> \o puts[i].value \in Text
  <2>1. puts[i].key \in Text /\ puts[i].value \in Text
    BY <1>2 DEF Definition
  <2>2. Gap(text, puts, i) \in Text
    BY <1>1, <1>3
  <2> QED
    BY <1>4, <1>5, <2>1, <2>2
<1>7. printed \in Seq(Text)
  BY <1>1, <1>6, IsASeq
<1>8. FlattenSeq(printed) \in Text
  <2> HIDE DEF printed
  <2>1. <<>> \in Text
    BY DEF Text
  <2> QED
    BY <1>7, <2>1, FlattenAppend DEF Text
<1>9. Gap(text, puts, Len(puts) + 1) \in Text
  BY <1>1, <1>3
<1> QED
  BY <1>5, <1>8, <1>9 DEF Pretty

\* The second parser starts as the first one did.
LEMMA AgainKeeps == ParserInv /\ Again => ParserInv'
<1> SUFFICES ASSUME ParserInv, Again PROVE ParserInv'
  OBVIOUS
<1>1. /\ DataSize' = DataSize /\ ShouldEscape' = ShouldEscape /\ Continues' = Continues
      /\ parsing'.answer = parsing.answer
  <2>1. parsing' = [parsing EXCEPT !.text = Pretty]
    BY DEF Again
  <2>2. /\ parsing'.size = parsing.size /\ parsing'.escape = parsing.escape
        /\ parsing'.continues = parsing.continues /\ parsing'.answer = parsing.answer
    BY <2>1
  <2> QED
    BY <2>2 DEF DataSize, ShouldEscape, Continues
<1>2. before = NULL /\ ShouldEscape /\ label' = "initial" /\ head' = 1
      /\ before' = [text |-> text, puts |-> puts]
      /\ puts' = <<>> /\ UNCHANGED <<data, overflow, whole>>
  BY DEF Again, Goto
<1>3. DataInv /\ text' \in Text
  <2>1. text' = Pretty
    <3>1. parsing' = [parsing EXCEPT !.text = Pretty] /\ parsing.text \in Text
      BY DEF Again, ParserInv, RequestInv, text
    <3> QED
      BY <3>1 DEF text
  <2> QED
    BY <2>1, PrettyIs DEF ParserInv
<1>5. RequestInv'
  BY <1>1, <1>2, <1>3 DEF ParserInv, RequestInv
<1>6. DataInv'
  BY <1>1, <1>2, <1>3 DEF DataInv
<1>7. PlaceInv'
  BY <1>2, <1>3 DEF PlaceInv, Text
<1>8. ValueInv' /\ PutsInv'
  BY <1>1, <1>2 DEF ValueInv, PutsInv, ParserInv, RequestInv
<1> QED
  BY <1>5, <1>6, <1>7, <1>8 DEF ParserInv

-----------------------------------------------------------------------------
(* The places.                                                               *)

\* What a brace is not.
LEMMA BracesAre == /\ Open # "end" /\ Open \notin KeyChar
                   /\ Close # "end" /\ Close \notin KeyChar
  BY DEF Open, Close, KeyChar, KeyBegin

\* No step of a parser leaves the text.
LEMMA PlaceStep ==
    ASSUME PlaceInv, text \in Text, Next, ~Again
    PROVE  PlaceInv'
<1>1. text' = text /\ Len(text) \in Nat
  BY RequestKept DEF text, Text
<1> DEFINE n == Len(text)
<1>2. \A i : AtEnd(i) <=> i > n
  BY DEF AtEnd
<1>3. /\ head \in Nat /\ head + 1 \in Nat /\ head + 2 \in Nat
      /\ At(head) # "end" => head <= n
      /\ At(head + 1) # "end" => head + 1 <= n
      /\ At(head + 2) # "end" => head + 2 <= n
  <2>1. ASSUME NEW i \in Nat, At(i) # "end" PROVE i <= n
    BY <1>1, <2>1 DEF At, AtEnd
  <2>2. head \in Nat /\ head + 1 \in Nat /\ head + 2 \in Nat
    BY DEF PlaceInv
  <2> QED
    BY <2>1, <2>2
<1> USE DEF PlaceInv, Goto
<1>4. CASE Initial
  BY <1>1, <1>2, <1>4 DEF Initial, Error
<1>5. CASE Comment
  BY <1>1, <1>2, <1>5 DEF Comment
<1>6. CASE Key
  BY <1>1, <1>2, <1>6 DEF Key, Error, Fatal, KeepValue
<1>7. CASE Literal
  BY <1>1, <1>2, <1>7 DEF Literal
<1>8. CASE Escape
  BY <1>1, <1>2, <1>3, <1>8 DEF Escape, Fatal
<1>9. CASE Quote
  BY <1>1, <1>2, <1>3, <1>9 DEF Quote
<1>10. CASE Dollar
  <2>1. PICK h : h = IF At(head + 1) = Open THEN head + 2 ELSE head + 1
    OBVIOUS
  <2>2. head <= n /\ label = "value" /\ head + 1 <= h /\ h <= n + 1 /\ h \in Nat
    <3>1. At(head) # "end" /\ label = "value"
      BY <1>10 DEF Dollar
    <3>2. head <= n
      BY <1>3, <3>1
    <3>3. CASE At(head + 1) = Open
      <4>1. head + 1 <= n /\ h = head + 2
        BY <1>3, <2>1, <3>3, BracesAre
      <4> QED
        BY <1>1, <1>3, <3>1, <3>2, <4>1
    <3>4. CASE At(head + 1) # Open
      <4>1. h = head + 1
        BY <2>1, <3>4
      <4> QED
        BY <1>1, <1>3, <3>1, <3>2, <4>1
    <3> QED
      BY <3>3, <3>4
  <2>3. /\ UNCHANGED <<skey, lkey>> /\ svar' = IF At(h) \in KeyBegin THEN h ELSE svar
        /\ \/ Fatal(h)
           \/ At(h) \in KeyBegin /\ Goto("variable", h)
           \/ Error("value", h)
    BY <1>10, <2>1 DEF Dollar
  <2>4. At(h) \in KeyBegin => h <= n
    <3>1. ASSUME At(h) \in KeyBegin PROVE ~(h > n)
      BY <3>1 DEF KeyBegin, At, AtEnd
    <3> QED
      BY <1>1, <2>2, <3>1
  <2>5. head' = h /\ label' \in {"stop", "variable", "value"}
        /\ (label' = "variable" => h <= n /\ svar' = h)
    BY <2>3, <2>4 DEF Error, Fatal
  <2> QED
    BY <1>1, <2>2, <2>3, <2>5
<1>11. CASE Variable
  <2>1. UNCHANGED <<skey, lkey, svar>> /\ head <= n /\ label = "variable"
    BY <1>11 DEF Variable
  <2>2. CASE At(head + 1) \in KeyChar
    <3>1. head + 1 <= n
      BY <1>3, <2>2 DEF KeyChar, KeyBegin
    <3>2. Goto("variable", head + 1)
      BY <1>11, <2>2 DEF Variable
    <3> QED
      BY <1>1, <2>1, <3>1, <3>2
  <2>3. CASE At(head + 1) \notin KeyChar
    <3>1. PICK h : h = IF brace /\ At(head + 1) = Close THEN head + 2 ELSE head + 1
      OBVIOUS
    <3>2. h <= n + 1 /\ h \in Nat /\ head < h
      <4>1. CASE brace /\ At(head + 1) = Close
        <5>1. head + 1 <= n /\ h = head + 2
          BY <1>3, <3>1, <4>1, BracesAre
        <5> QED
          BY <1>1, <1>3, <5>1
      <4>2. CASE ~(brace /\ At(head + 1) = Close)
        <5>1. h = head + 1
          BY <3>1, <4>2
        <5> QED
          BY <1>1, <1>3, <2>1, <5>1
      <4> QED
        BY <4>1, <4>2
    <3>3. head' = h /\ label' \in {"stop", "value"}
      BY <1>11, <2>3, <3>1 DEF Variable
    <3> QED
      BY <1>1, <2>1, <3>2, <3>3
  <2> QED
    BY <2>2, <2>3
<1>12. CASE EndOfValue
  BY <1>1, <1>2, <1>12 DEF EndOfValue, Error, Fatal, KeepValue
<1> QED
  BY <1>4, <1>5, <1>6, <1>7, <1>8, <1>9, <1>10, <1>11, <1>12 DEF Next

-----------------------------------------------------------------------------
(* The values.                                                               *)

\* What push adds fits in the data, or is cut there and marked.
LEMMA PushIs ==
    ASSUME RequestInv, DataInv, NEW chars \in Text, Push(chars)
    PROVE  /\ data' \in Text /\ Len(data') <= DataSize /\ overflow' \in BOOLEAN
           /\ ~overflow' => ~overflow /\ data' = data \o chars
<1> DEFINE all == data \o chars
<1>1. all \in Text /\ Len(all) \in Nat /\ DataSize \in Nat
  BY DEF RequestInv, DataInv, Text
<1>2. CASE Len(all) > DataSize
  <2>1. data' = SubSeq(all, 1, DataSize) /\ overflow' = TRUE
    <3>1. ~(Len(all) < DataSize)
      BY <1>1, <1>2
    <3>2. data' = SubSeq(all, 1, IF Len(all) < DataSize THEN Len(all) ELSE DataSize)
          /\ overflow' = (overflow \/ Len(all) > DataSize)
      BY DEF Push
    <3> QED
      BY <1>2, <3>1, <3>2
  <2>2. SubSeq(all, 1, DataSize) \in Text /\ Len(SubSeq(all, 1, DataSize)) = DataSize
    BY <1>1, <1>2 DEF Text
  <2> QED
    BY <1>1, <2>1, <2>2
<1>3. CASE ~(Len(all) > DataSize)
  <2>1. Len(all) <= DataSize
    BY <1>1, <1>3
  <2>2. SubSeq(all, 1, Len(all)) = all
    BY <1>1 DEF Text
  <2>3. SubSeq(all, 1, IF Len(all) < DataSize THEN Len(all) ELSE DataSize) = all
    BY <1>1, <2>1, <2>2
  <2>4. data' = all /\ overflow' = (overflow \/ Len(all) > DataSize)
    BY <2>3 DEF Push
  <2>5. overflow' = overflow
    BY <1>3, <2>4 DEF DataInv
  <2> QED
    BY <1>1, <2>1, <2>4, <2>5 DEF DataInv
<1> QED
  BY <1>2, <1>3

\* What a step does with the value being read: nothing, start it, or add to it
\* the same characters as what they mean, and a backslash when they are escaped.
Adds(chars, meant) ==
    /\ label \in {"value", "variable"}
    /\ Push(chars) /\ whole' = whole \o meant
    /\ ~ShouldEscape => chars = meant

\* One character or two make a text, and so do two texts.
LEMMA SeqsAre ==
    ASSUME NEW S
    PROVE  /\ \A a : <<a>> \in Seq(S) <=> a \in S
           /\ \A a, b \in S : <<a, b>> \in Seq(S)
           /\ \A v, w \in Seq(S) : v \o w \in Seq(S)
<1>1. ASSUME NEW a PROVE <<a>> \in Seq(S) <=> a \in S
  <2>1. a = <<a>>[1] /\ Len(<<a>>) = 1
    OBVIOUS
  <2> QED
    BY <2>1
<1>2. ASSUME NEW a \in S, NEW b \in S PROVE <<a, b>> \in Seq(S)
  OBVIOUS
<1>3. ASSUME NEW v \in Seq(S), NEW w \in Seq(S) PROVE v \o w \in Seq(S)
  OBVIOUS
<1> QED
  BY <1>1, <1>2, <1>3

\* Characters and pairs of them are texts, and so are texts put together.
LEMMA TextsAre ==
    /\ \A a : <<a>> \in Text <=> a \in Character
    /\ \A a, b \in Character : <<a, b>> \in Text
    /\ \A v, w \in Text : v \o w \in Text
  BY SeqsAre, Zenon DEF Text, Character

\* A step leaves the data alone, empties them, or adds characters that have a
\* meaning.
LEMMA Effects ==
    ASSUME RequestInv, PlaceInv, DataInv, text \in Text, Next, ~Again
    PROVE  \/ /\ UNCHANGED <<data, overflow, whole>>
              /\ label' \in {"value", "variable"} => label \in {"value", "variable"}
           \/ data' = <<>> /\ overflow' = FALSE /\ whole' = <<>>
           \/ \E chars, meant \in Text : Adds(chars, meant)
<1>1. ASSUME NEW i \in Nat \ {0}, i <= Len(text) PROVE <<At(i)>> \in Text
  BY <1>1 DEF At, AtEnd, Text
<1>2. \A m : Append(whole, m) = whole \o <<m>>
  BY DEF DataInv, Text
<1>3. ASSUME NEW m, <<m>> \in Text, AddEscapable(m), label = "value"
      PROVE  \E chars, meant \in Text : Adds(chars, meant)
  <2>1. CASE ShouldEscape
    <3>1. <<"\\", m>> \in Text
      <4>1. m \in Character
        BY <1>3, TextsAre
      <4>2. "\\" \in Character
        BY DEF Character, Special
      <4> QED
        BY <4>1, <4>2, TextsAre
    <3> QED
      BY <1>2, <1>3, <2>1, <3>1 DEF AddEscapable, Adds
  <2>2. CASE ~ShouldEscape
    BY <1>2, <1>3, <2>2 DEF AddEscapable, Adds
  <2> QED
    BY <2>1, <2>2
<1>4. CASE Initial \/ Comment \/ Quote
  BY <1>4 DEF Initial, Comment, Quote, KeepValue, Goto, Error
<1>5. CASE Key
  BY <1>5 DEF Key, KeepValue, Goto, Error, Fatal
<1>6. CASE Literal
  <2>1. label = "value" /\ <<At(head)>> \in Text
    BY <1>1, <1>6 DEF Literal, AtEnd, PlaceInv, Text
  <2>2. CASE Add(At(head))
    BY <1>2, <2>1, <2>2 DEF Add, Adds
  <2>3. CASE AddEscapable(At(head))
    BY <1>3, <2>1, <2>3
  <2>4. Add(At(head)) \/ AddEscapable(At(head))
    BY <1>6 DEF Literal
  <2> QED
    BY <2>2, <2>3, <2>4
<1>7. CASE Escape
  <2>1. CASE AtEnd(head + 1)
    BY <1>7, <2>1 DEF Escape
  <2>2. CASE ~AtEnd(head + 1)
    <3>1. label = "value" /\ AddEscapable(At(head + 1))
      BY <1>7, <2>2 DEF Escape
    <3>2. head + 1 \in Nat \ {0} /\ head + 1 <= Len(text)
      BY <2>2 DEF AtEnd, PlaceInv, Text
    <3> QED
      BY <1>1, <1>3, <3>1, <3>2
  <2> QED
    BY <2>1, <2>2
<1>8. CASE Dollar
  BY <1>8 DEF Dollar
<1>9. CASE Variable
  <2>1. label = "variable"
    BY <1>9 DEF Variable
  <2>2. CASE UNCHANGED <<data, overflow, whole>>
    BY <2>1, <2>2
  <2>3. CASE ~UNCHANGED <<data, overflow, whole>>
    <3>1. PICK value : /\ value = Answer(SubSeq(text, svar, head)) /\ value # NULL
                       /\ Push(value) /\ whole' = whole \o value
      BY <1>9, <2>3 DEF Variable
    <3>2. SubSeq(text, svar, head) \in Text
      BY <2>1 DEF PlaceInv, Text
    <3>3. value \in Text
      <4>1. CASE parsing.answer = Normal
        <5>1. value = <<"$", Open>> \o SubSeq(text, svar, head) \o <<Close>>
          BY <3>1, <4>1 DEF Answer
        <5>2. "$" \in Character /\ Open \in Character /\ Close \in Character
          BY DEF Character, Special, Others
        <5>3. <<"$", Open>> \in Text /\ <<Close>> \in Text
          BY <5>2, TextsAre
        <5> QED
          BY <3>2, <5>1, <5>3, TextsAre
      <4>2. CASE parsing.answer # Normal
        BY <3>1, <4>2 DEF Answer, RequestInv
      <4> QED
        BY <4>1, <4>2
    <3> QED
      BY <2>1, <3>1, <3>3 DEF Adds
  <2> QED
    BY <2>2, <2>3
<1>10. CASE EndOfValue
  BY <1>10 DEF EndOfValue, KeepValue
<1> QED
  BY <1>4, <1>5, <1>6, <1>7, <1>8, <1>9, <1>10 DEF Next

\* What is put is a definition of the text, with its value as it was read.
LEMMA PutIs ==
    ASSUME PlaceInv, DataInv, text \in Text, Next, ~Again
    PROVE  \/ puts' = puts
           \/ \E d \in Definition : /\ puts' = Append(puts, d) /\ Within(d, text)
                                    /\ d.value = data /\ d.meant = whole
                                    /\ ~overflow /\ label = "value"
<1>1. CASE EndOfValue /\ puts' # puts
  <2> DEFINE d == [key |-> SubSeq(text, skey, skey + lkey - 1), value |-> data,
                   meant |-> whole, begin |-> skey, end |-> head]
  <2>1. puts' = Append(puts, d) /\ ~overflow /\ label = "value"
    BY <1>1 DEF EndOfValue
  <2>2. /\ skey \in Nat \ {0} /\ lkey \in Nat \ {0} /\ skey + lkey <= head
        /\ head \in Nat /\ head <= Len(text) + 1
    BY <2>1 DEF PlaceInv
  <2>3. SubSeq(text, skey, skey + lkey - 1) \in Text
    BY <2>2 DEF Text
  <2>4. d \in Definition
    BY <2>2, <2>3 DEF Definition, DataInv
  <2>5. Within(d, text)
    BY <2>2 DEF Within, Text
  <2> QED
    BY <2>1, <2>4, <2>5
<1>2. CASE Initial \/ Comment \/ Key \/ Literal
  BY <1>2 DEF Initial, Comment, Key, Literal
<1>3. CASE Escape \/ Quote \/ Dollar \/ Variable
  BY <1>3 DEF Escape, Quote, Dollar, Variable
<1> QED
  BY <1>1, <1>2, <1>3 DEF Next

\* What is added to the data is what it means, unless it is escaped or cut.
LEMMA ValuesStep ==
    ASSUME RequestInv, PlaceInv, DataInv, ValueInv, PutsInv, text \in Text, Next, ~Again
    PROVE  DataInv' /\ ValueInv' /\ PutsInv'
<1>1. parsing' = parsing
  BY RequestKept
<1>2. DataSize' = DataSize /\ ShouldEscape' = ShouldEscape /\ text' = text
  BY <1>1 DEF DataSize, ShouldEscape, text
<1>3. /\ data' \in Text /\ whole' \in Text /\ Len(data') <= DataSize /\ overflow' \in BOOLEAN
      /\ ~ShouldEscape /\ label' \in {"value", "variable"} /\ ~overflow' => data' = whole'
  <2>1. CASE /\ UNCHANGED <<data, overflow, whole>>
             /\ label' \in {"value", "variable"} => label \in {"value", "variable"}
    BY <2>1 DEF DataInv, ValueInv
  <2>2. CASE data' = <<>> /\ overflow' = FALSE /\ whole' = <<>>
    <3>1. <<>> \in Text /\ Len(<<>>) = 0 /\ 0 <= DataSize
      BY DEF Text, RequestInv
    <3> QED
      BY <2>2, <3>1
  <2>3. ASSUME NEW chars \in Text, NEW meant \in Text, Adds(chars, meant)
        PROVE  /\ data' \in Text /\ whole' \in Text /\ Len(data') <= DataSize
               /\ overflow' \in BOOLEAN
               /\ ~ShouldEscape /\ label' \in {"value", "variable"} /\ ~overflow' => data' = whole'
    <3>1. /\ label \in {"value", "variable"} /\ Push(chars) /\ whole' = whole \o meant
          /\ ~ShouldEscape => chars = meant
      BY <2>3 DEF Adds
    <3>2. /\ data' \in Text /\ Len(data') <= DataSize /\ overflow' \in BOOLEAN
          /\ ~overflow' => ~overflow /\ data' = data \o chars
      BY <3>1, PushIs
    <3>3. whole' \in Text
      BY <3>1, TextsAre DEF DataInv
    <3> QED
      BY <3>1, <3>2, <3>3 DEF ValueInv
  <2> QED
    BY <2>1, <2>2, <2>3, Effects
<1>4. CASE puts' = puts
  BY <1>2, <1>3, <1>4 DEF DataInv, ValueInv, PutsInv
<1>5. ASSUME NEW d \in Definition, puts' = Append(puts, d), d.value = data, d.meant = whole,
             ~overflow, label = "value", Within(d, text)
      PROVE  DataInv' /\ ValueInv' /\ PutsInv'
  <2>1. puts' \in Seq(Definition)
    BY <1>5 DEF DataInv
  <2>2. ASSUME ~ShouldEscape, NEW i \in DOMAIN puts' PROVE puts'[i].value = puts'[i].meant
    <3>1. CASE i \in DOMAIN puts
      <4>1. puts'[i] = puts[i]
        BY <1>5, <3>1 DEF DataInv
      <4> QED
        BY <2>2, <3>1, <4>1 DEF ValueInv
    <3>2. CASE i \notin DOMAIN puts
      <4>1. puts'[i] = d
        BY <1>5, <2>2, <3>2 DEF DataInv
      <4> QED
        BY <1>5, <2>2, <4>1 DEF ValueInv
    <3> QED
      BY <3>1, <3>2
  <2>3. PutsInv'
    BY <1>2, <1>5 DEF PutsInv, DataInv
  <2> QED
    BY <1>2, <1>3, <2>1, <2>2, <2>3 DEF DataInv, ValueInv
<1> QED
  BY <1>4, <1>5, PutIs

\* Every step of a parser keeps the invariant.
LEMMA ParserStep == ParserInv /\ [Next]_vars => ParserInv'
<1> SUFFICES ASSUME ParserInv, [Next]_vars PROVE ParserInv'
  OBVIOUS
<1>1. CASE Again
  BY <1>1, AgainKeeps
<1>2. CASE Next /\ ~Again
  <2>1. parsing' = parsing /\ before' = before
    BY <1>2, RequestKept
  <2>2. RequestInv'
    BY <2>1 DEF ParserInv, RequestInv, text, DataSize, ShouldEscape, Continues
  <2>3. /\ RequestInv /\ PlaceInv /\ DataInv /\ ValueInv /\ PutsInv
        /\ text \in Text
    BY DEF ParserInv, RequestInv
  <2>4. PlaceInv'
    BY <1>2, <2>3, PlaceStep
  <2>5. DataInv' /\ ValueInv' /\ PutsInv'
    BY <1>2, <2>3, ValuesStep
  <2> QED
    BY <2>2, <2>4, <2>5 DEF ParserInv
<1>3. CASE UNCHANGED vars
  BY <1>3 DEF vars, ParserInv, RequestInv, PlaceInv, DataInv, ValueInv, PutsInv, text, DataSize,
              ShouldEscape, Continues
<1> QED
  BY <1>1, <1>2, <1>3

\* In the file and in what pretty prints of it, the head never passes the end,
\* and what is read of the value never passes its buffer.
THEOREM InBoundsAlways == Spec => []InBounds
<1>1. ParserInv => InBounds
  <2> SUFFICES ASSUME ParserInv PROVE InBounds
    OBVIOUS
  <2>1. PlaceInv /\ DataInv /\ Len(text) \in Nat
    BY DEF ParserInv, RequestInv, Text
  <2> QED
    BY <2>1 DEF PlaceInv, DataInv, InBounds, AtEnd
<1> QED
  BY <1>1, RequestInit, ParserStep, PTL DEF Spec

\* A value that is put without escapes is the one that was written, for every
\* size of the buffer and every answer of get: what does not fit is an error.
THEOREM NeverTruncatedAlways == Spec => []NeverTruncated
<1>1. ParserInv => NeverTruncated
  BY DEF ParserInv, RequestInv, ValueInv, NeverTruncated
<1> QED
  BY <1>1, RequestInit, ParserStep, PTL DEF Spec

-----------------------------------------------------------------------------
(* The text around the definitions.                                          *)

\* After the character k of a text read from a, the parser is in a comment.
Noted(t, a, k) == \E j \in a..k : t[j] = "#" /\ \A l \in j..k : t[l] # "eol"

\* From a to b there are only blanks and comments.
Quiet(t, a, b) == \A k \in a..b : t[k] \in Space \cup {"#"} \/ Noted(t, a, k - 1)

\* Nothing is read yet: there is no comment.
LEMMA QuietEmpty == ASSUME NEW t, NEW a \in Nat PROVE Quiet(t, a, a - 1) /\ ~Noted(t, a, a - 1)
  BY DEF Quiet, Noted

\* One more blank, or one more character of a comment.
LEMMA QuietBlank ==
    ASSUME NEW t, NEW a \in Nat, NEW k \in Nat, a <= k, Quiet(t, a, k - 1), t[k] \in Space,
           ~Noted(t, a, k - 1)
    PROVE  Quiet(t, a, k) /\ ~Noted(t, a, k)
<1>1. Quiet(t, a, k)
  BY DEF Quiet
<1>2. ASSUME Noted(t, a, k) PROVE FALSE
  <2>1. PICK j \in a..k : t[j] = "#" /\ \A l \in j..k : t[l] # "eol"
    BY <1>2 DEF Noted
  <2>2. j # k
    BY <2>1 DEF Space
  <2> QED
    BY <2>1, <2>2 DEF Noted
<1> QED
  BY <1>1, <1>2

\* A sharp after blanks begins a comment.
LEMMA QuietHash ==
    ASSUME NEW t, NEW a \in Nat, NEW k \in Nat, a <= k, Quiet(t, a, k - 1), t[k] = "#"
    PROVE  Quiet(t, a, k) /\ Noted(t, a, k)
<1>1. Quiet(t, a, k)
  BY DEF Quiet
<1>2. Noted(t, a, k)
  <2>1. k \in a..k /\ \A l \in k..k : t[l] # "eol"
    OBVIOUS
  <2> QED
    BY <2>1 DEF Noted
<1> QED
  BY <1>1, <1>2

\* A comment goes on until the end of its line.
LEMMA QuietNote ==
    ASSUME NEW t, NEW a \in Nat, NEW k \in Nat, a <= k, Quiet(t, a, k - 1), Noted(t, a, k - 1)
    PROVE  /\ Quiet(t, a, k)
           /\ t[k] = "eol" => ~Noted(t, a, k)
           /\ t[k] # "eol" => Noted(t, a, k)
<1>1. Quiet(t, a, k)
  BY DEF Quiet
<1>2. t[k] = "eol" => ~Noted(t, a, k)
  BY DEF Noted
<1>3. t[k] # "eol" => Noted(t, a, k)
  BY DEF Noted
<1> QED
  BY <1>1, <1>2, <1>3

\* The same characters at another place.
LEMMA QuietMoved ==
    ASSUME NEW t, NEW a \in Nat, NEW u, NEW c \in Nat, NEW n \in Nat,
           \A i \in 0..n - 1 : u[c + i] = t[a + i]
    PROVE  /\ Quiet(t, a, a + n - 1) => Quiet(u, c, c + n - 1)
           /\ ~Noted(t, a, a + n - 1) => ~Noted(u, c, c + n - 1)
<1>1. ASSUME NEW b \in Nat, NEW d \in Nat, NEW k \in Int, k < n, NEW v, NEW w,
             \A i \in 0..n - 1 : w[d + i] = v[b + i], Noted(v, b, b + k)
      PROVE  Noted(w, d, d + k)
  <2>1. PICK j \in b..b + k : v[j] = "#" /\ \A l \in j..b + k : v[l] # "eol"
    BY <1>1 DEF Noted
  <2>2. PICK e \in Int : e = j - b
    OBVIOUS
  <2>3. e \in 0..k /\ e \in 0..n - 1 /\ j = b + e
    BY <2>1, <2>2, <1>1
  <2>4. w[d + e] = "#"
    BY <1>1, <2>1, <2>3
  <2>5. ASSUME NEW l \in d + e..d + k PROVE w[l] # "eol"
    <3>1. PICK f \in Int : f = l - d
      OBVIOUS
    <3>2. f \in 0..n - 1 /\ l = d + f /\ b + f \in j..b + k
      BY <3>1, <2>3, <1>1
    <3> QED
      BY <1>1, <2>1, <3>2
  <2>6. d + e \in d..d + k
    BY <2>3
  <2> QED
    BY <2>4, <2>5, <2>6 DEF Noted
<1>2. \A i \in 0..n - 1 : t[a + i] = u[c + i]
  OBVIOUS
<1>3. ASSUME Quiet(t, a, a + n - 1) PROVE Quiet(u, c, c + n - 1)
  <2> SUFFICES ASSUME NEW k \in c..c + n - 1
               PROVE  u[k] \in Space \cup {"#"} \/ Noted(u, c, k - 1)
    BY DEF Quiet
  <2>1. PICK f \in Int : f = k - c
    OBVIOUS
  <2>2. f \in 0..n - 1 /\ k = c + f /\ a + f \in a..a + n - 1 /\ f - 1 \in Int /\ f - 1 < n
    BY <2>1
  <2>3. u[k] = t[a + f]
    BY <2>2
  <2>4. t[a + f] \in Space \cup {"#"} \/ Noted(t, a, (a + f) - 1)
    BY <1>3, <2>2 DEF Quiet
  <2>5. ASSUME Noted(t, a, (a + f) - 1) PROVE Noted(u, c, k - 1)
    <3>1. (a + f) - 1 = a + (f - 1) /\ k - 1 = c + (f - 1)
      BY <2>2
    <3>2. Noted(t, a, a + (f - 1))
      BY <2>5, <3>1
    <3>3. Noted(u, c, c + (f - 1))
      BY <1>1, <2>2, <3>2
    <3> QED
      BY <3>1, <3>3
  <2> QED
    BY <2>3, <2>4, <2>5
<1>4. ASSUME Noted(u, c, c + n - 1) PROVE Noted(t, a, a + n - 1)
  <2>1. c + n - 1 = c + (n - 1) /\ a + n - 1 = a + (n - 1) /\ n - 1 \in Int /\ n - 1 < n
    OBVIOUS
  <2>2. Noted(u, c, c + (n - 1))
    BY <1>4, <2>1
  <2>3. Noted(t, a, a + (n - 1))
    BY <1>1, <1>2, <2>1, <2>2
  <2> QED
    BY <2>1, <2>3
<1> QED
  BY <1>3, <1>4

-----------------------------------------------------------------------------
(* How an escaped value is read.                                             *)

\* The characters k+1 to l of v are one piece, which makes b of the meaning a:
\* a character, one that is escaped, or a variable that stands for itself.
Plain(v, k, l, a, b) == l = k + 1 /\ v[l] \notin Special \cup Space /\ b = a \o <<v[l]>>
Escaped(v, k, l, a, b) == l = k + 2 /\ v[k + 1] = "\\" /\ b = a \o <<v[l]>>
Named(v, k, l, a, b) ==
    /\ k + 4 <= l /\ v[k + 1] = "$" /\ v[k + 2] = Open /\ v[l] = Close /\ v[k + 3] \in KeyBegin
    /\ \A i \in k + 3..l - 1 : v[i] \in KeyChar
    /\ b = a \o SubSeq(v, k + 1, l)
Piece(v, k, l, a, b) == Plain(v, k, l, a, b) \/ Escaped(v, k, l, a, b) \/ Named(v, k, l, a, b)

\* The pieces of v end at the places C, and m[k] is what the first k characters mean.
Reading(v, meant, C, m) ==
    /\ C \subseteq 0..Len(v) /\ 0 \in C /\ Len(v) \in C
    /\ m \in [C -> Text] /\ m[0] = <<>> /\ m[Len(v)] = meant
    /\ \A k \in C : k < Len(v) => \E l \in C : k < l /\ Piece(v, k, l, m[k], m[l])
Readable(v, meant) == \E C, m : Reading(v, meant, C, m)

\* The value that is still empty.
LEMMA ReadableEmpty == Readable(<<>>, <<>>)
<1> DEFINE C == {0}
           m == [k \in C |-> <<>>]
<1>1. m \in [C -> Text] /\ Len(<<>>) = 0
  BY DEF Text
<1>2. Reading(<<>>, <<>>, C, m)
  BY <1>1 DEF Reading
<1> QED
  BY <1>2 DEF Readable

\* A piece does not depend on what follows it.
LEMMA PieceStays ==
    ASSUME NEW v \in Text, NEW w \in Text, NEW k \in Nat, NEW l \in Nat, k < l, l <= Len(v),
           NEW a, NEW b, Piece(v, k, l, a, b), Len(v) <= Len(w),
           \A i \in 1..Len(v) : w[i] = v[i]
    PROVE  Piece(w, k, l, a, b)
<1>1. Len(v) \in Nat /\ Len(w) \in Nat
  BY DEF Text
<1>2. CASE Plain(v, k, l, a, b)
  BY <1>1, <1>2 DEF Plain, Piece
<1>3. CASE Escaped(v, k, l, a, b)
  BY <1>1, <1>3 DEF Escaped, Piece
<1>4. CASE Named(v, k, l, a, b)
  <2>1. SubSeq(w, k + 1, l) = SubSeq(v, k + 1, l)
    <3>1. \A i \in k + 1..l : w[i] = v[i]
      BY <1>1
    <3>2. SubSeq(w, k + 1, l) \in Seq(Character) /\ SubSeq(v, k + 1, l) \in Seq(Character)
          /\ Len(SubSeq(w, k + 1, l)) = l - k /\ Len(SubSeq(v, k + 1, l)) = l - k
          /\ \A i \in 1..l - k : /\ SubSeq(w, k + 1, l)[i] = w[k + i]
                                 /\ SubSeq(v, k + 1, l)[i] = v[k + i]
      BY <1>1 DEF Text, Character
    <3> QED
      BY <3>1, <3>2, SeqEqual
  <2>2. /\ k + 4 <= l /\ v[k + 1] = "$" /\ v[k + 2] = Open /\ v[l] = Close /\ v[k + 3] \in KeyBegin
        /\ \A i \in k + 3..l - 1 : v[i] \in KeyChar
        /\ b = a \o SubSeq(v, k + 1, l)
    BY <1>4 DEF Named
  <2>3. w[k + 1] = v[k + 1] /\ w[k + 2] = v[k + 2] /\ w[k + 3] = v[k + 3] /\ w[l] = v[l]
        /\ \A i \in k + 3..l - 1 : w[i] = v[i]
    <3>1. k + 4 <= l
      BY <2>2
    <3>2. /\ k + 1 \in 1..Len(v) /\ k + 2 \in 1..Len(v) /\ k + 3 \in 1..Len(v) /\ l \in 1..Len(v)
          /\ \A i \in k + 3..l - 1 : i \in 1..Len(v)
      BY <1>1, <3>1
    <3> QED
      BY <3>2
  <2> QED
    BY <2>1, <2>2, <2>3 DEF Named, Piece
<1> QED
  BY <1>2, <1>3, <1>4 DEF Piece

\* What two texts put together hold.
LEMMA TextConcat ==
    ASSUME NEW v \in Text, NEW w \in Text
    PROVE  /\ v \o w \in Text /\ Len(v) \in Nat /\ Len(w) \in Nat
           /\ Len(v \o w) = Len(v) + Len(w)
           /\ \A i \in 1..Len(v) : (v \o w)[i] = v[i]
           /\ \A i \in 1..Len(w) : (v \o w)[Len(v) + i] = w[i]
<1>1. v \in Seq(Character) /\ w \in Seq(Character)
  BY DEF Text, Character
<1>2. /\ v \o w \in Seq(Character) /\ Len(v) \in Nat /\ Len(w) \in Nat
      /\ Len(v \o w) = Len(v) + Len(w)
      /\ \A i \in 1..Len(v) : (v \o w)[i] = v[i]
      /\ \A i \in 1..Len(w) : (v \o w)[Len(v) + i] = w[i]
  BY <1>1
<1> QED
  BY <1>2 DEF Text, Character

\* One more piece.
LEMMA ReadableMore ==
    ASSUME NEW v \in Text, NEW a \in Text, NEW chars \in Text, NEW b \in Text,
           Readable(v, a), chars # <<>>, Piece(v \o chars, Len(v), Len(v \o chars), a, b)
    PROVE  Readable(v \o chars, b)
<1>1. PICK w : w = v \o chars
  OBVIOUS
<1>2. /\ w \in Text /\ Len(v) \in Nat /\ Len(w) \in Nat /\ Len(v) < Len(w)
      /\ \A i \in 1..Len(v) : w[i] = v[i]
  BY <1>1, EmptySeq DEF Text
<1>3. PICK C, m : Reading(v, a, C, m)
  BY DEF Readable
<1>4. /\ C \subseteq 0..Len(v) /\ 0 \in C /\ Len(v) \in C
      /\ m \in [C -> Text] /\ m[0] = <<>> /\ m[Len(v)] = a
      /\ \A k \in C : k < Len(v) => \E l \in C : k < l /\ Piece(v, k, l, m[k], m[l])
  BY <1>3 DEF Reading
<1> DEFINE D == C \cup {Len(w)}
           r == [k \in D |-> IF k = Len(w) THEN b ELSE m[k]]
<1>5. /\ D \subseteq 0..Len(w) /\ 0 \in D /\ Len(w) \in D /\ Len(v) \in D
      /\ r \in [D -> Text] /\ r[Len(w)] = b
      /\ \A k \in C : k \in D /\ r[k] = m[k]
  <2>1. \A k \in C : k \in 0..Len(v) /\ k # Len(w)
    BY <1>2, <1>4
  <2>2. \A k \in C : k \in D /\ r[k] = m[k]
    BY <2>1
  <2>3. \A k \in D : (IF k = Len(w) THEN b ELSE m[k]) \in Text
    BY <1>4
  <2>4. r \in [D -> Text] /\ r[Len(w)] = b
    BY <2>3
  <2> HIDE DEF r
  <2>5. D \subseteq 0..Len(w)
    <3>1. \A k \in 0..Len(v) : k \in 0..Len(w)
      BY <1>2
    <3>2. Len(w) \in 0..Len(w)
      BY <1>2
    <3> QED
      BY <2>1, <3>1, <3>2
  <2>6. 0 \in D /\ Len(w) \in D /\ Len(v) \in D
    BY <1>4
  <2> QED
    BY <2>2, <2>4, <2>5, <2>6
<1> HIDE DEF D, r
<1>6. ASSUME NEW k \in D, k < Len(w)
      PROVE  \E l \in D : k < l /\ Piece(w, k, l, r[k], r[l])
  <2>1. k \in C
    BY <1>6, <1>2 DEF D
  <2>2. CASE k = Len(v)
    <3>1. Piece(w, k, Len(w), r[k], r[Len(w)])
      BY <1>1, <1>4, <1>5, <2>1, <2>2
    <3> QED
      BY <1>2, <1>5, <2>2, <3>1
  <2>3. CASE k # Len(v)
    <3>1. k \in Nat /\ k < Len(v)
      BY <1>2, <1>4, <2>1, <2>3
    <3>2. PICK l \in C : k < l /\ Piece(v, k, l, m[k], m[l])
      BY <1>4, <2>1, <3>1
    <3>3. l \in Nat /\ l <= Len(v)
      BY <1>2, <1>4, <3>2
    <3>4. Piece(w, k, l, m[k], m[l])
      BY <1>2, <3>1, <3>2, <3>3, PieceStays
    <3> QED
      BY <1>5, <2>1, <3>2, <3>4
  <2> QED
    BY <2>2, <2>3
<1>7. Reading(w, b, D, r)
  BY <1>4, <1>5, <1>6 DEF Reading
<1> QED
  BY <1>1, <1>7 DEF Readable

\* The pieces the first parse adds.
LEMMA PlainMore ==
    ASSUME NEW v \in Text, NEW a \in Text, Readable(v, a),
           NEW c \in Character, c \notin Special \cup Space
    PROVE  Readable(v \o <<c>>, a \o <<c>>)
<1>1. PICK w : w = v \o <<c>>
  OBVIOUS
<1>2. <<c>> \in Text /\ a \o <<c>> \in Text /\ <<c>> # <<>>
  BY TextsAre
<1>3. w[Len(v) + 1] = c /\ Len(w) = Len(v) + 1
  BY <1>1 DEF Text
<1>4. Piece(w, Len(v), Len(w), a, a \o <<c>>)
  BY <1>3 DEF Piece, Plain
<1> QED
  BY <1>1, <1>2, <1>4, ReadableMore

\* An escaped character is a piece, whichever it is.
LEMMA EscapedMore ==
    ASSUME NEW v \in Text, NEW a \in Text, Readable(v, a), NEW c \in Character
    PROVE  Readable(v \o <<"\\", c>>, a \o <<c>>)
<1>1. PICK w : w = v \o <<"\\", c>>
  OBVIOUS
<1>2. "\\" \in Character
  BY DEF Character, Special
<1>3. <<"\\", c>> \in Text /\ a \o <<c>> \in Text /\ <<"\\", c>> # <<>>
  BY <1>2, TextsAre
<1>4. w[Len(v) + 1] = "\\" /\ w[Len(v) + 2] = c /\ Len(w) = Len(v) + 2
  BY <1>1 DEF Text
<1>5. Piece(w, Len(v), Len(w), a, a \o <<c>>)
  BY <1>4 DEF Piece, Escaped
<1> QED
  BY <1>1, <1>3, <1>5, ReadableMore

\* A name: the key of a definition, or the name of a variable.
Word(n) == n \in Text /\ n # <<>> /\ n[1] \in KeyBegin /\ \A i \in 1..Len(n) : n[i] \in KeyChar
Braced(n) == <<"$", Open>> \o n \o <<Close>>

\* The characters of "${name}".
LEMMA BracedIs ==
    ASSUME NEW n \in Text
    PROVE  /\ Braced(n) \in Text /\ Len(Braced(n)) = Len(n) + 3
           /\ Braced(n)[1] = "$" /\ Braced(n)[2] = Open /\ Braced(n)[Len(n) + 3] = Close
           /\ \A i \in 1..Len(n) : Braced(n)[i + 2] = n[i]
<1>1. "$" \in Character /\ Open \in Character /\ Close \in Character
  BY DEF Character, Special, Others
<1>2. PICK o : o = <<"$", Open>>
  OBVIOUS
<1>3. PICK e : e = <<Close>>
  OBVIOUS
<1>4. /\ o \in Text /\ Len(o) = 2 /\ o[1] = "$" /\ o[2] = Open
      /\ e \in Text /\ Len(e) = 1 /\ e[1] = Close
  BY <1>1, <1>2, <1>3, TextsAre
<1>5. /\ o \o n \in Text /\ Len(o \o n) = Len(n) + 2 /\ (o \o n)[1] = "$" /\ (o \o n)[2] = Open
      /\ \A i \in 1..Len(n) : (o \o n)[i + 2] = n[i]
  <2>1. /\ o \o n \in Text /\ Len(n) \in Nat /\ Len(o \o n) = 2 + Len(n)
        /\ \A i \in 1..2 : (o \o n)[i] = o[i]
        /\ \A i \in 1..Len(n) : (o \o n)[2 + i] = n[i]
    <3>1. /\ o \o n \in Text /\ Len(n) \in Nat /\ Len(o \o n) = Len(o) + Len(n)
          /\ \A i \in 1..Len(o) : (o \o n)[i] = o[i]
          /\ \A i \in 1..Len(n) : (o \o n)[Len(o) + i] = n[i]
      <4>1. o \in Text
        BY <1>4
      <4> QED
        BY <4>1, TextConcat
    <3>2. Len(o) = 2
      BY <1>4
    <3> QED
      BY <3>1, <3>2
  <2>2. \A i \in 1..Len(n) : 2 + i = i + 2
    BY <2>1
  <2> QED
    BY <1>4, <2>1, <2>2
<1>6. PICK h : h = o \o n
  OBVIOUS
<1>7. Len(n) \in Nat
  BY DEF Text
<1>8. /\ h \o e \in Text /\ Len(h \o e) = Len(h) + 1 /\ (h \o e)[Len(h) + 1] = Close
      /\ \A i \in 1..Len(h) : (h \o e)[i] = h[i]
  <2>1. h \in Text /\ e \in Text
    BY <1>4, <1>5, <1>6
  <2>2. /\ h \o e \in Text /\ Len(h \o e) = Len(h) + Len(e)
        /\ \A i \in 1..Len(h) : (h \o e)[i] = h[i]
        /\ \A i \in 1..Len(e) : (h \o e)[Len(h) + i] = e[i]
    BY <2>1, TextConcat
  <2>3. Len(e) = 1 /\ e[1] = Close /\ 1 \in 1..1
    BY <1>4
  <2>4. Len(h \o e) = Len(h) + 1 /\ (h \o e)[Len(h) + 1] = e[1]
    BY <2>2, <2>3
  <2> QED
    BY <2>2, <2>3, <2>4
<1>9. 1 \in 1..Len(h) /\ 2 \in 1..Len(h) /\ \A i \in 1..Len(n) : i + 2 \in 1..Len(h)
  BY <1>5, <1>6, <1>7
<1> QED
  BY <1>2, <1>3, <1>5, <1>6, <1>7, <1>8, <1>9 DEF Braced

\* A variable that stands for itself is a piece.
LEMMA NamedMore ==
    ASSUME NEW v \in Text, NEW a \in Text, Readable(v, a), NEW n, Word(n)
    PROVE  Readable(v \o Braced(n), a \o Braced(n))
<1>1. PICK chars : chars = Braced(n)
  OBVIOUS
<1>2. n \in Text /\ Len(n) \in Nat /\ Len(n) >= 1 /\ n[1] \in KeyBegin
      /\ \A i \in 1..Len(n) : n[i] \in KeyChar
  BY EmptySeq DEF Word, Text
<1>3. /\ chars \in Text /\ Len(chars) = Len(n) + 3 /\ chars[1] = "$" /\ chars[2] = Open
      /\ chars[Len(n) + 3] = Close /\ \A i \in 1..Len(n) : chars[i + 2] = n[i]
  BY <1>1, <1>2, BracedIs
<1>4. PICK w : w = v \o chars
  OBVIOUS
<1>5. w \in Text /\ Len(w) = Len(v) + Len(n) + 3 /\ Len(v) \in Nat
      /\ \A i \in 1..Len(chars) : w[Len(v) + i] = chars[i]
  <2>1. chars \in Text
    BY <1>3
  <2>2. /\ v \o chars \in Text /\ Len(v \o chars) = Len(v) + Len(chars) /\ Len(v) \in Nat
        /\ \A i \in 1..Len(chars) : (v \o chars)[Len(v) + i] = chars[i]
    BY <2>1, TextConcat
  <2>3. Len(v) + (Len(n) + 3) = Len(v) + Len(n) + 3
    BY <1>2, <2>2
  <2> QED
    BY <1>3, <1>4, <2>2, <2>3
<1>6. SubSeq(w, Len(v) + 1, Len(w)) = chars
  <2>1. SubSeq(w, Len(v) + 1, Len(w)) \in Seq(Character) /\ chars \in Seq(Character)
        /\ Len(SubSeq(w, Len(v) + 1, Len(w))) = Len(chars)
        /\ \A i \in 1..Len(chars) : SubSeq(w, Len(v) + 1, Len(w))[i] = w[Len(v) + i]
    BY <1>2, <1>3, <1>5 DEF Text, Character
  <2> QED
    BY <1>5, <2>1, SeqEqual
<1>7. /\ w[Len(v) + 1] = "$" /\ w[Len(v) + 2] = Open /\ w[Len(w)] = Close
      /\ w[Len(v) + 3] \in KeyBegin
  <2>1. 1 \in 1..Len(chars) /\ 2 \in 1..Len(chars) /\ 3 \in 1..Len(chars)
        /\ Len(n) + 3 \in 1..Len(chars) /\ 1 \in 1..Len(n)
    BY <1>2, <1>3
  <2>2. chars[3] = n[1]
    BY <1>3, <2>1
  <2> QED
    BY <1>2, <1>3, <1>5, <2>1, <2>2
<1>8. \A i \in Len(v) + 3..Len(w) - 1 : w[i] \in KeyChar
  <2> SUFFICES ASSUME NEW i \in Len(v) + 3..Len(w) - 1 PROVE w[i] \in KeyChar
    OBVIOUS
  <2>1. PICK j \in Int : j = i - Len(v) - 2
    <3>1. i - Len(v) - 2 \in Int
      BY <1>5
    <3> QED
      BY <3>1
  <2>2. j \in 1..Len(n) /\ j + 2 \in 1..Len(chars) /\ i = Len(v) + (j + 2)
    BY <1>2, <1>3, <1>5, <2>1
  <2> QED
    BY <1>2, <1>3, <1>5, <2>2
<1>9. Piece(w, Len(v), Len(w), a, a \o chars)
  <2>1. Len(v) + 4 <= Len(w)
    BY <1>2, <1>5
  <2>2. a \o chars = a \o SubSeq(w, Len(v) + 1, Len(w))
    BY <1>6
  <2> QED
    BY <1>7, <1>8, <2>1, <2>2 DEF Piece, Named
<1>10. chars # <<>> /\ a \o chars \in Text
  BY <1>2, <1>3, TextsAre, EmptySeq
<1> QED
  BY <1>1, <1>3, <1>4, <1>9, <1>10, ReadableMore

-----------------------------------------------------------------------------
(* The first parse, when it finds no error.                                  *)

\* Where the gap i begins, that it is read up to h, and that a blank ends the
\* value before it.
From(p, i) == IF i = 1 THEN 1 ELSE p[i - 1].end
Gapped(t, p, i, h) ==
    From(p, i) <= h /\ Quiet(t, From(p, i), h - 1) /\ ~Noted(t, From(p, i), h - 1)
Parted(t, p, i, h) == i > 1 => From(p, i) < h /\ t[From(p, i)] \in Space

\* The definition i begins at sk, after its gap.
Began(t, p, i, sk) == Gapped(t, p, i, sk) /\ Parted(t, p, i, sk) /\ t[sk] \in KeyBegin
InKey(t, b, e) == \A k \in b..e : t[k] \in KeyChar

\* A value without blanks is read as what it means once it is escaped.
Blankless(v) == Space \cap ToSet(v) = {}
Safe(v, meant) == Blankless(meant) => Readable(v, meant)

Defined(t, p, i, size) ==
    /\ Gapped(t, p, i, p[i].begin) /\ Parted(t, p, i, p[i].begin)
    /\ Word(p[i].key) /\ Len(p[i].value) <= size /\ Safe(p[i].value, p[i].meant)

\* The gap after the last definition.
LastGap(t, p, i) ==
    /\ From(p, i) <= Len(t) + 1 /\ Quiet(t, From(p, i), Len(t))
    /\ i > 1 /\ From(p, i) <= Len(t) => t[From(p, i)] \in Space

\* The definition that is read next.
Turn == Len(puts) + 1

\* What the first parse knows of what it read, label by label.
First ==
    /\ \A i \in 1..Len(puts) : Defined(text, puts, i, DataSize)
    /\ label = "initial" =>
          /\ Gapped(text, puts, Turn, head)
          /\ Parted(text, puts, Turn, head) \/ From(puts, Turn) = Len(text) + 1
    /\ label = "comment" =>
          /\ From(puts, Turn) <= head /\ Parted(text, puts, Turn, head)
          /\ Quiet(text, From(puts, Turn), head) /\ Noted(text, From(puts, Turn), head)
    /\ label = "key" => Began(text, puts, Turn, skey) /\ InKey(text, skey, head)
    /\ label \in {"value", "variable"} =>
          /\ Began(text, puts, Turn, skey) /\ InKey(text, skey, skey + lkey - 1)
          /\ ~overflow => Safe(data, whole)
    /\ label = "variable" => text[svar] \in KeyBegin /\ InKey(text, svar, head)
    /\ label = "stop" => LastGap(text, puts, Turn)

\* It knows it as long as the toolbox may still print it.
FirstInv == before = NULL /\ ShouldEscape /\ errors = 0 /\ parsing.answer = Normal => First

\* A value keeps having no blanks when what is added has none.
LEMMA BlanklessIs ==
    ASSUME NEW v \in Text, NEW w \in Text, Blankless(v \o w)
    PROVE  Blankless(v) /\ Blankless(w)
<1>1. /\ Len(v) \in Nat /\ Len(w) \in Nat /\ Len(v \o w) = Len(v) + Len(w) /\ v \o w \in Text
      /\ \A i \in 1..Len(v) : (v \o w)[i] = v[i]
      /\ \A i \in 1..Len(w) : (v \o w)[Len(v) + i] = w[i]
  BY TextConcat
<1>2. /\ \A s \in Text : DOMAIN s = 1..Len(s)
  BY DEF Text
<1>3. \A i \in 1..Len(v) : i \in DOMAIN (v \o w) /\ (v \o w)[i] = v[i]
  BY <1>1, <1>2
<1>4. \A i \in 1..Len(w) : Len(v) + i \in DOMAIN (v \o w) /\ (v \o w)[Len(v) + i] = w[i]
  BY <1>1, <1>2
<1>5. \A x \in ToSet(v) : x \in ToSet(v \o w)
  BY <1>2, <1>3 DEF ToSet
<1>6. \A x \in ToSet(w) : x \in ToSet(v \o w)
  BY <1>2, <1>4 DEF ToSet
<1> QED
  BY <1>5, <1>6 DEF Blankless

\* A step that leaves the text and the definitions alone.
LEMMA FirstKept ==
    ASSUME First, UNCHANGED <<parsing, puts>>,
           label' = "initial" =>
              /\ Gapped(text, puts, Turn, head')
              /\ Parted(text, puts, Turn, head') \/ From(puts, Turn) = Len(text) + 1,
           label' = "comment" =>
              /\ From(puts, Turn) <= head' /\ Parted(text, puts, Turn, head')
              /\ Quiet(text, From(puts, Turn), head') /\ Noted(text, From(puts, Turn), head'),
           label' = "key" => Began(text, puts, Turn, skey') /\ InKey(text, skey', head'),
           label' \in {"value", "variable"} =>
              /\ Began(text, puts, Turn, skey') /\ InKey(text, skey', skey' + lkey' - 1)
              /\ ~overflow' => Safe(data', whole'),
           label' = "variable" => text[svar'] \in KeyBegin /\ InKey(text, svar', head'),
           label' = "stop" => LastGap(text, puts, Turn)
    PROVE  First'
<1>1. text' = text /\ puts' = puts /\ DataSize' = DataSize /\ Turn' = Turn
  BY DEF text, DataSize, Turn
<1> QED
  BY <1>1 DEF First

\* The places a first parse goes by.
LEMMA FirstPlaces ==
    ASSUME ParserInv
    PROVE  /\ text \in Text /\ Len(text) \in Nat /\ puts \in Seq(Definition) /\ Len(puts) \in Nat
           /\ head \in Nat \ {0} /\ head <= Len(text) + 1 /\ Turn \in Nat \ {0}
           /\ \A i \in 1..Turn : From(puts, i) \in Nat \ {0} /\ From(puts, i) <= Len(text) + 1
           /\ \A i \in Nat \ {0} : At(i) = IF i <= Len(text) THEN text[i] ELSE "end"
<1>1. /\ text \in Text /\ Len(text) \in Nat /\ puts \in Seq(Definition) /\ Len(puts) \in Nat
      /\ head \in Nat \ {0} /\ head <= Len(text) + 1 /\ Turn \in Nat \ {0}
  BY DEF ParserInv, RequestInv, PlaceInv, DataInv, Text, Turn
<1>2. ASSUME NEW i \in 1..Turn PROVE From(puts, i) \in Nat \ {0} /\ From(puts, i) <= Len(text) + 1
  <2>1. CASE i = 1
    BY <1>1, <2>1 DEF From
  <2>2. CASE i # 1
    <3>1. i - 1 \in 1..Len(puts)
      BY <1>1, <2>2 DEF Turn
    <3>2. Within(puts[i - 1], text)
      BY <1>1, <3>1 DEF ParserInv, PutsInv
    <3> QED
      BY <1>1, <2>2, <3>2 DEF From, Within
  <2> QED
    BY <2>1, <2>2
<1>3. \A i \in Nat \ {0} : At(i) = IF i <= Len(text) THEN text[i] ELSE "end"
  BY <1>1 DEF At, AtEnd
<1> QED
  BY <1>1, <1>2, <1>3

\* Between the definitions.
LEMMA FirstInitial ==
    ASSUME ParserInv, First, errors \in Nat, Initial, errors' = errors
    PROVE  First'
<1>1. /\ text \in Text /\ Len(text) \in Nat /\ head \in Nat \ {0} /\ head <= Len(text) + 1
      /\ Turn \in Nat \ {0} /\ From(puts, Turn) \in Nat \ {0} /\ From(puts, Turn) <= Len(text) + 1
      /\ At(head) = IF head <= Len(text) THEN text[head] ELSE "end"
  BY FirstPlaces
<1>2. PICK f \in Nat \ {0} : f = From(puts, Turn)
  BY <1>1
<1>3. /\ label = "initial" /\ UNCHANGED <<parsing, puts, lkey, svar, data, overflow, whole>>
      /\ Gapped(text, puts, Turn, head)
      /\ Parted(text, puts, Turn, head) \/ f = Len(text) + 1
  BY <1>2 DEF Initial, First
<1>4. f <= head /\ Quiet(text, f, head - 1) /\ ~Noted(text, f, head - 1)
  BY <1>2, <1>3 DEF Gapped
<1>5. CASE head = Len(text) + 1
  <2>1. label' = "stop"
    BY <1>1, <1>5 DEF Initial, AtEnd, Goto
  <2>2. LastGap(text, puts, Turn)
    <3>1. head - 1 = Len(text)
      BY <1>1, <1>5
    <3>2. Turn > 1 /\ f <= Len(text) => text[f] \in Space
      BY <1>1, <1>2, <1>3 DEF Parted
    <3> QED
      BY <1>1, <1>2, <1>4, <3>1, <3>2 DEF LastGap
  <2> QED
    BY <1>3, <2>1, <2>2, FirstKept
<1>6. CASE head # Len(text) + 1
  <2>1. head <= Len(text) /\ At(head) = text[head]
    BY <1>1, <1>6
  <2>2. Parted(text, puts, Turn, head)
    BY <1>1, <1>2, <1>3, <1>4, <2>1
  <2>3. \/ text[head] \in KeyBegin /\ skey' = head /\ Goto("key", head)
        \/ text[head] = "#" /\ Goto("comment", head)
        \/ text[head] \in Space /\ Goto("initial", head + 1)
    <3>1. ~AtEnd(head)
      BY <1>1, <2>1 DEF AtEnd
    <3>2. ~Error("initial", head + 1)
      BY DEF Error
    <3> QED
      BY <2>1, <3>1, <3>2 DEF Initial
  <2>4. CASE text[head] \in KeyBegin /\ skey' = head /\ Goto("key", head)
    <3>1. Began(text, puts, Turn, head)
      BY <1>3, <2>2, <2>4 DEF Began
    <3>2. InKey(text, head, head)
      BY <1>1, <2>4 DEF InKey, KeyChar
    <3> QED
      BY <1>3, <2>4, <3>1, <3>2, FirstKept DEF Goto
  <2>5. CASE text[head] = "#" /\ Goto("comment", head)
    <3>1. Quiet(text, f, head) /\ Noted(text, f, head)
      BY <1>1, <1>4, <2>5, QuietHash
    <3> QED
      BY <1>2, <1>3, <1>4, <2>2, <2>5, <3>1, FirstKept DEF Goto
  <2>6. CASE text[head] \in Space /\ Goto("initial", head + 1)
    <3>1. Quiet(text, f, head) /\ ~Noted(text, f, head)
      BY <1>1, <1>4, <2>6, QuietBlank
    <3>2. Gapped(text, puts, Turn, head + 1)
      BY <1>1, <1>2, <1>4, <3>1 DEF Gapped
    <3>3. Parted(text, puts, Turn, head + 1)
      BY <1>1, <1>2, <2>2 DEF Parted
    <3> QED
      BY <1>3, <2>6, <3>2, <3>3, FirstKept DEF Goto
  <2> QED
    BY <2>3, <2>4, <2>5, <2>6
<1> QED
  BY <1>5, <1>6

\* In a comment.
LEMMA FirstComment ==
    ASSUME ParserInv, First, Comment
    PROVE  First'
<1>1. /\ text \in Text /\ Len(text) \in Nat /\ head \in Nat \ {0} /\ head <= Len(text)
      /\ Turn \in Nat \ {0} /\ From(puts, Turn) \in Nat \ {0}
      /\ At(head + 1) = IF head + 1 <= Len(text) THEN text[head + 1] ELSE "end"
      /\ AtEnd(head + 1) <=> head = Len(text)
  <2>1. head <= Len(text)
    BY DEF Comment, ParserInv, PlaceInv
  <2>2. /\ text \in Text /\ Len(text) \in Nat /\ head \in Nat \ {0}
        /\ Turn \in Nat \ {0} /\ From(puts, Turn) \in Nat \ {0} /\ head + 1 \in Nat \ {0}
    BY FirstPlaces
  <2>3. At(head + 1) = IF head + 1 <= Len(text) THEN text[head + 1] ELSE "end"
    BY <2>2, FirstPlaces
  <2> QED
    BY <2>1, <2>2, <2>3 DEF AtEnd
<1>2. PICK f \in Nat \ {0} : f = From(puts, Turn)
  BY <1>1
<1>3. /\ UNCHANGED <<parsing, puts>> /\ label = "comment"
      /\ f <= head /\ Parted(text, puts, Turn, head)
      /\ Quiet(text, f, head) /\ Noted(text, f, head)
  BY <1>2 DEF Comment, First
<1>4. CASE head = Len(text)
  <2>1. label' = "stop"
    BY <1>1, <1>4 DEF Comment, Goto
  <2>2. LastGap(text, puts, Turn)
    BY <1>1, <1>2, <1>3, <1>4 DEF LastGap, Parted
  <2> QED
    BY <1>3, <2>1, <2>2, FirstKept
<1>5. CASE head # Len(text)
  <2>1. (head + 1) - 1 = head /\ (head + 2) - 1 = head + 1 /\ head + 1 \in Nat /\ f <= head + 1
    BY <1>1, <1>3
  <2>2. /\ Quiet(text, f, head + 1)
        /\ text[head + 1] = "eol" => ~Noted(text, f, head + 1)
        /\ text[head + 1] # "eol" => Noted(text, f, head + 1)
    BY <1>3, <2>1, QuietNote
  <2>3. \A h \in Nat : head < h => Parted(text, puts, Turn, h)
    BY <1>1, <1>3 DEF Parted
  <2>4. head < head + 1 /\ head < head + 2 /\ head + 2 \in Nat /\ f <= head + 2
    BY <1>1, <1>3
  <2>5. CASE text[head + 1] = "eol"
    <3>1. Goto("initial", head + 2)
      BY <1>1, <1>5, <2>5 DEF Comment
    <3>2. Gapped(text, puts, Turn, head + 2)
      BY <1>2, <2>1, <2>2, <2>4, <2>5 DEF Gapped
    <3> QED
      BY <1>3, <2>3, <2>4, <3>1, <3>2, FirstKept DEF Goto
  <2>6. CASE text[head + 1] # "eol"
    <3>1. Goto("comment", head + 1)
      BY <1>1, <1>5, <2>6 DEF Comment
    <3> QED
      BY <1>2, <1>3, <2>1, <2>2, <2>3, <2>4, <2>6, <3>1, FirstKept DEF Goto
  <2> QED
    BY <2>5, <2>6
<1> QED
  BY <1>4, <1>5

\* In a key.
LEMMA FirstKey ==
    ASSUME ParserInv, First, errors \in Nat, Key, errors' = errors
    PROVE  First'
<1>1. /\ label = "key" /\ UNCHANGED <<parsing, puts, skey>>
      /\ Began(text, puts, Turn, skey) /\ InKey(text, skey, head)
  BY DEF Key, KeepValue, First
<1>2. /\ head \in Nat /\ head + 1 \in Nat \ {0} /\ skey \in Nat \ {0} /\ skey <= head
      /\ Len(text) \in Nat
  <2>1. head \in Nat \ {0} /\ Len(text) \in Nat
    BY FirstPlaces
  <2>2. skey \in Nat \ {0} /\ skey <= head
    BY <1>1 DEF ParserInv, PlaceInv
  <2> QED
    BY <2>1, <2>2
<1>3. At(head + 1) = IF head + 1 <= Len(text) THEN text[head + 1] ELSE "end"
  BY <1>2, FirstPlaces
<1>4. \/ At(head + 1) \in KeyChar /\ Goto("key", head + 1)
      \/ /\ At(head + 1) = "=" /\ lkey' = head + 1 - skey /\ data' = <<>> /\ whole' = <<>>
         /\ Goto("value", head + 2)
  BY DEF Key, Fatal, Error
<1>5. CASE At(head + 1) \in KeyChar /\ Goto("key", head + 1)
  <2>1. At(head + 1) = text[head + 1]
    BY <1>3, <1>5 DEF KeyChar, KeyBegin
  <2>2. InKey(text, skey, head + 1)
    BY <1>1, <1>2, <1>5, <2>1 DEF InKey
  <2> QED
    BY <1>1, <1>5, <2>2, FirstKept DEF Goto
<1>6. CASE /\ At(head + 1) = "=" /\ lkey' = head + 1 - skey /\ data' = <<>> /\ whole' = <<>>
           /\ Goto("value", head + 2)
  <2>1. skey + lkey' - 1 = head
    BY <1>2, <1>6
  <2>2. Safe(data', whole')
    BY <1>6, ReadableEmpty DEF Safe
  <2>3. label' = "value" /\ skey' = skey
    BY <1>1, <1>6 DEF Goto
  <2>4. InKey(text, skey', skey' + lkey' - 1) /\ Began(text, puts, Turn, skey')
    BY <1>1, <2>1, <2>3
  <2> QED
    BY <1>1, <2>2, <2>3, <2>4, FirstKept
<1> QED
  BY <1>4, <1>5, <1>6

\* A piece that is added to a value.
LEMMA FirstAdds ==
    ASSUME ParserInv, First, label \in {"value", "variable"}, label' = "value",
           UNCHANGED <<parsing, puts, skey, lkey>>,
           NEW chars \in Text, NEW meant \in Text, Push(chars), whole' = whole \o meant,
           Blankless(meant) /\ Readable(data, whole) => Readable(data \o chars, whole \o meant)
    PROVE  First'
<1>1. Began(text, puts, Turn, skey) /\ InKey(text, skey, skey + lkey - 1)
      /\ (~overflow => Safe(data, whole)) /\ whole \in Text
  BY DEF First, ParserInv, DataInv
<1>2. ~overflow' => ~overflow /\ data' = data \o chars
  BY PushIs DEF ParserInv
<1>3. ASSUME ~overflow' PROVE Safe(data', whole')
  <2> SUFFICES ASSUME Blankless(whole \o meant) PROVE Readable(data \o chars, whole \o meant)
    BY <1>2, <1>3 DEF Safe
  <2>1. Blankless(whole) /\ Blankless(meant)
    BY <1>1, BlanklessIs
  <2> QED
    BY <1>1, <1>2, <1>3, <2>1 DEF Safe
<1>4. skey' = skey /\ lkey' = lkey
  OBVIOUS
<1> QED
  BY <1>1, <1>3, <1>4, FirstKept

\* A character of a value, escaped or not.
LEMMA FirstAdd ==
    ASSUME ParserInv, First, label = "value", label' = "value", ShouldEscape,
           UNCHANGED <<parsing, puts, skey, lkey>>, NEW c \in Character,
           \/ Add(c) /\ c \notin Special
           \/ AddEscapable(c)
    PROVE  First'
<1>1. <<c>> \in Text /\ data \in Text /\ whole \in Text /\ Append(whole, c) = whole \o <<c>>
  <2>1. whole \in Text /\ data \in Text
    BY DEF ParserInv, DataInv
  <2> QED
    BY <2>1, TextsAre DEF Text
<1>2. CASE Add(c) /\ c \notin Special
  <2>1. ASSUME Blankless(<<c>>), Readable(data, whole)
        PROVE  Readable(data \o <<c>>, whole \o <<c>>)
    <3>1. c \notin Space
      <4>1. c \in ToSet(<<c>>)
        BY DEF ToSet
      <4> QED
        BY <2>1, <4>1 DEF Blankless
    <3>2. c \notin Special \cup Space
      BY <1>2, <3>1
    <3> QED
      BY <1>1, <2>1, <3>2, PlainMore
  <2>2. Push(<<c>>) /\ whole' = whole \o <<c>>
    BY <1>1, <1>2 DEF Add
  <2> QED
    BY <1>1, <2>1, <2>2, FirstAdds
<1>3. CASE AddEscapable(c)
  <2>1. Readable(data, whole) => Readable(data \o <<"\\", c>>, whole \o <<c>>)
    BY <1>1, EscapedMore
  <2>2. Push(<<"\\", c>>) /\ whole' = whole \o <<c>>
    BY <1>1, <1>3 DEF AddEscapable
  <2>3. <<"\\", c>> \in Text
    <3>1. "\\" \in Character
      BY DEF Character, Special
    <3> QED
      BY <3>1, TextsAre
  <2> QED
    BY <1>1, <2>1, <2>2, <2>3, FirstAdds
<1> QED
  BY <1>2, <1>3

\* The characters of a value, as they are or after a backslash.
LEMMA FirstCharacters ==
    ASSUME ParserInv, First, ShouldEscape, errors \in Nat, errors' = errors,
           Literal \/ Escape
    PROVE  First'
<1>1. /\ label = "value" /\ UNCHANGED <<parsing, puts, skey, lkey>>
      /\ head \in Nat \ {0} /\ head + 1 \in Nat \ {0}
      /\ text \in Text /\ Len(text) \in Nat
  <2>1. /\ head \in Nat \ {0} /\ text \in Text /\ Len(text) \in Nat
    BY FirstPlaces
  <2>2. label = "value" /\ UNCHANGED <<parsing, puts, skey, lkey>>
    BY DEF Literal, Escape
  <2> QED
    BY <2>1, <2>2
<1>2. \A i \in Nat \ {0} : ~AtEnd(i) => At(i) \in Character
  BY <1>1 DEF At, AtEnd, Text, Character
<1>3. CASE Literal
  <2>1. label' = "value" /\ At(head) \in Character
    BY <1>1, <1>2, <1>3 DEF Literal, Goto
  <2>2. \/ Add(At(head)) /\ At(head) \notin Special
        \/ AddEscapable(At(head))
    BY <1>3 DEF Literal, Special, Space
  <2> QED
    BY <1>1, <2>1, <2>2, FirstAdd
<1>4. CASE Escape
  <2>1. ~AtEnd(head + 1)
    BY <1>4 DEF Escape, Fatal
  <2>2. label' = "value" /\ At(head + 1) \in Character /\ AddEscapable(At(head + 1))
    BY <1>1, <1>2, <1>4, <2>1 DEF Escape, Goto
  <2> QED
    BY <1>1, <2>2, FirstAdd
<1> QED
  BY <1>3, <1>4

\* A quote, or the dollar of a variable, adds nothing yet.
LEMMA FirstQuoteDollar ==
    ASSUME ParserInv, First, errors \in Nat, errors' = errors, Quote \/ Dollar
    PROVE  First'
<1>1. /\ label = "value" /\ UNCHANGED <<parsing, puts, skey, lkey, data, overflow, whole>>
      /\ Began(text, puts, Turn, skey) /\ InKey(text, skey, skey + lkey - 1)
      /\ (~overflow => Safe(data, whole))
  BY DEF Quote, Dollar, First
<1>2. head \in Nat \ {0} /\ head + 1 \in Nat \ {0} /\ head + 2 \in Nat \ {0}
  BY FirstPlaces
<1>3. CASE Quote
  <2>1. label' = "value"
    BY <1>3 DEF Quote, Goto
  <2>2. /\ Began(text, puts, Turn, skey') /\ InKey(text, skey', skey' + lkey' - 1)
        /\ (~overflow' => Safe(data', whole'))
    BY <1>1
  <2> QED
    BY <1>1, <2>1, <2>2, FirstKept
<1>4. CASE Dollar
  <2>1. PICK h : h = IF At(head + 1) = Open THEN head + 2 ELSE head + 1
    OBVIOUS
  <2>2. h \in Nat \ {0} /\ At(h) \in KeyBegin /\ svar' = h /\ Goto("variable", h)
    <3>1. /\ svar' = IF At(h) \in KeyBegin THEN h ELSE svar
          /\ \/ Fatal(h)
             \/ At(h) \in KeyBegin /\ Goto("variable", h)
             \/ Error("value", h)
      BY <1>4, <2>1 DEF Dollar
    <3>2. ~Fatal(h) /\ ~Error("value", h)
      BY DEF Fatal, Error
    <3> QED
      BY <1>2, <2>1, <3>1, <3>2
  <2>3. text[h] \in KeyBegin
    <3>1. At(h) = IF h <= Len(text) THEN text[h] ELSE "end"
      BY <2>2, FirstPlaces
    <3> QED
      BY <2>2, <3>1 DEF KeyBegin
  <2>4. InKey(text, h, h)
    BY <2>2, <2>3 DEF InKey, KeyChar
  <2>5. label' = "variable" /\ head' = h /\ svar' = h
    BY <2>2 DEF Goto
  <2>6. /\ Began(text, puts, Turn, skey') /\ InKey(text, skey', skey' + lkey' - 1)
        /\ (~overflow' => Safe(data', whole'))
    BY <1>1
  <2> QED
    BY <1>1, <2>3, <2>4, <2>5, <2>6, FirstKept
<1> QED
  BY <1>3, <1>4

\* The name that stands from b to e.
LEMMA WordIs ==
    ASSUME NEW t \in Text, NEW b \in Nat \ {0}, NEW e \in Nat, b <= e, e <= Len(t),
           t[b] \in KeyBegin, InKey(t, b, e)
    PROVE  Word(SubSeq(t, b, e)) /\ Len(SubSeq(t, b, e)) = e - b + 1
           /\ \A i \in 1..e - b + 1 : SubSeq(t, b, e)[i] = t[b + i - 1]
<1>1. PICK w : w = SubSeq(t, b, e)
  OBVIOUS
<1>2. w \in Text /\ Len(w) = e - b + 1 /\ \A i \in 1..e - b + 1 : w[i] = t[b + i - 1]
  BY <1>1 DEF Text
<1>3. 1 \in 1..e - b + 1 /\ b + 1 - 1 = b /\ Len(w) >= 1 /\ Len(w) \in Nat
  BY <1>2
<1>4. w[1] \in KeyBegin /\ w # <<>>
  BY <1>2, <1>3, EmptySeq
<1>5. ASSUME NEW i \in 1..Len(w) PROVE w[i] \in KeyChar
  <2>1. b + i - 1 \in b..e /\ i \in 1..e - b + 1
    BY <1>2
  <2> QED
    BY <1>2, <2>1 DEF InKey
<1> QED
  BY <1>1, <1>2, <1>4, <1>5 DEF Word

\* The name of a variable, and then its value "${name}".
LEMMA FirstVariable ==
    ASSUME ParserInv, First, parsing.answer = Normal, errors \in Nat, errors' = errors, Variable
    PROVE  First'
<1>1. /\ label = "variable" /\ UNCHANGED <<parsing, puts, skey, lkey, svar>>
      /\ Began(text, puts, Turn, skey) /\ InKey(text, skey, skey + lkey - 1)
      /\ (~overflow => Safe(data, whole)) /\ text[svar] \in KeyBegin /\ InKey(text, svar, head)
  BY DEF Variable, First
<1>2. /\ head \in Nat \ {0} /\ head + 1 \in Nat \ {0} /\ text \in Text /\ Len(text) \in Nat
      /\ head <= Len(text) /\ svar \in Nat \ {0} /\ svar <= head
  <2>1. head \in Nat \ {0} /\ text \in Text /\ Len(text) \in Nat
    BY FirstPlaces
  <2>2. head <= Len(text) /\ svar \in Nat \ {0} /\ svar <= head
    BY <1>1 DEF ParserInv, PlaceInv
  <2> QED
    BY <2>1, <2>2
<1>3. At(head + 1) = IF head + 1 <= Len(text) THEN text[head + 1] ELSE "end"
  BY <1>2, FirstPlaces
<1>4. skey' = skey /\ lkey' = lkey /\ svar' = svar
  BY <1>1
<1>5. CASE At(head + 1) \in KeyChar
  <2>1. label' = "variable" /\ head' = head + 1 /\ UNCHANGED <<data, overflow, whole>>
    BY <1>5 DEF Variable, Goto
  <2>2. At(head + 1) = text[head + 1]
    BY <1>3, <1>5 DEF KeyChar, KeyBegin
  <2>3. InKey(text, svar, head + 1)
    BY <1>1, <1>2, <1>5, <2>2 DEF InKey
  <2> QED
    BY <1>1, <1>4, <2>1, <2>3, FirstKept
<1>6. CASE At(head + 1) \notin KeyChar
  <2>1. PICK name : name = SubSeq(text, svar, head)
    OBVIOUS
  <2>2. Word(name) /\ name \in Text
    <3>1. Word(name)
      BY <1>1, <1>2, <2>1, WordIs
    <3> QED
      BY <3>1 DEF Word
  <2>3. PICK value : value = Answer(name)
    OBVIOUS
  <2>4. value = Braced(name) /\ value \in Text
    BY <2>2, <2>3, BracedIs DEF Answer, Braced
  <2>5. Push(value) /\ whole' = whole \o value /\ label' = "value"
    <3>1. PICK unmatched \in BOOLEAN, missing \in BOOLEAN :
             /\ errors' = errors + IF unmatched /\ missing /\ Continues THEN 2
                                   ELSE IF unmatched \/ missing THEN 1 ELSE 0
             /\ label' = IF ~Continues /\ (unmatched \/ missing) THEN "stop" ELSE "value"
             /\ IF missing \/ (unmatched /\ ~Continues)
                THEN UNCHANGED <<data, overflow, whole>>
                ELSE Push(value) /\ whole' = whole \o value
      <4> DEFINE closed == At(head + 1) = Close
                 unmatched == brace /\ ~closed
                 missing == value = NULL
      <4>1. /\ errors' = errors + IF unmatched /\ missing /\ Continues THEN 2
                                  ELSE IF unmatched \/ missing THEN 1 ELSE 0
            /\ label' = IF ~Continues /\ (unmatched \/ missing) THEN "stop" ELSE "value"
            /\ IF missing \/ (unmatched /\ ~Continues)
               THEN UNCHANGED <<data, overflow, whole>>
               ELSE Push(value) /\ whole' = whole \o value
        BY <1>6, <2>1, <2>3 DEF Variable, Goto
      <4>2. unmatched \in BOOLEAN /\ missing \in BOOLEAN
        OBVIOUS
      <4> HIDE DEF unmatched, missing
      <4> QED
        BY <4>1, <4>2
    <3>2. ~unmatched /\ ~missing
      <4>1. CASE missing
        <5>1. errors' = errors + 1 \/ errors' = errors + 2
          BY <3>1, <4>1
        <5> QED
          BY <5>1
      <4>2. CASE ~missing /\ unmatched
        <5>1. errors' = errors + 1
          BY <3>1, <4>2
        <5> QED
          BY <5>1
      <4> QED
        BY <4>1, <4>2
    <3> QED
      BY <3>1, <3>2
  <2>6. Readable(data, whole) => Readable(data \o value, whole \o value)
    <3>1. data \in Text /\ whole \in Text
      BY DEF ParserInv, DataInv
    <3> QED
      BY <2>2, <2>4, <3>1, NamedMore
  <2> QED
    BY <1>1, <2>4, <2>5, <2>6, FirstAdds
<1> QED
  BY <1>5, <1>6

\* A value is put: its definition is where the text says.
LEMMA FirstEnd ==
    ASSUME ParserInv, First, errors \in Nat, errors' = errors, EndOfValue
    PROVE  First'
<1> DEFINE d == [key |-> SubSeq(text, skey, skey + lkey - 1), value |-> data, meant |-> whole,
                 begin |-> skey, end |-> head]
<1>1. /\ label = "value" /\ parsing' = parsing /\ q = NoQuote /\ ~overflow
      /\ puts' = Append(puts, d) /\ Goto("initial", IF AtEnd(head) THEN head ELSE head + 1)
  <2>1. \A l, h : ~Fatal(h) /\ ~Error(l, h)
    BY DEF Fatal, Error
  <2> QED
    BY <2>1 DEF EndOfValue
<1>2. Began(text, puts, Turn, skey) /\ InKey(text, skey, skey + lkey - 1) /\ Safe(data, whole)
  BY <1>1 DEF First
<1>3. /\ text \in Text /\ Len(text) \in Nat /\ head \in Nat \ {0} /\ head <= Len(text) + 1
      /\ puts \in Seq(Definition) /\ Len(puts) \in Nat /\ Turn = Len(puts) + 1
      /\ skey \in Nat \ {0} /\ lkey \in Nat \ {0} /\ skey + lkey <= head
      /\ At(head) = IF head <= Len(text) THEN text[head] ELSE "end"
  <2>1. /\ text \in Text /\ Len(text) \in Nat /\ head \in Nat \ {0} /\ head <= Len(text) + 1
        /\ puts \in Seq(Definition) /\ Len(puts) \in Nat
        /\ At(head) = IF head <= Len(text) THEN text[head] ELSE "end"
    BY FirstPlaces
  <2>2. skey \in Nat \ {0} /\ lkey \in Nat \ {0} /\ skey + lkey <= head
    BY <1>1 DEF ParserInv, PlaceInv
  <2> QED
    BY <2>1, <2>2 DEF Turn
<1>4. text' = text /\ DataSize' = DataSize
  BY <1>1 DEF text, DataSize
<1>5. PICK key : key = SubSeq(text, skey, skey + lkey - 1)
  OBVIOUS
<1>6. Word(key)
  <2>1. skey + lkey - 1 \in Nat /\ skey <= skey + lkey - 1 /\ skey + lkey - 1 <= Len(text)
    BY <1>3
  <2> QED
    BY <1>2, <1>3, <1>5, <2>1, WordIs DEF Began
<1>7. PICK e : e = d
  OBVIOUS
<1>8. /\ e.key = key /\ e.value = data /\ e.meant = whole /\ e.begin = skey /\ e.end = head
      /\ puts' = Append(puts, e)
  BY <1>1, <1>5, <1>7
<1>9. PICK p : p = puts'
  OBVIOUS
<1>10. Len(p) = Turn /\ p[Turn] = e /\ \A i \in 1..Len(puts) : p[i] = puts[i]
  BY <1>3, <1>8, <1>9
<1>11. \A i \in 1..Turn : From(p, i) = From(puts, i)
  <2> SUFFICES ASSUME NEW i \in 1..Turn PROVE From(p, i) = From(puts, i)
    OBVIOUS
  <2>1. i # 1 => i - 1 \in 1..Len(puts)
    BY <1>3
  <2> QED
    BY <1>10, <2>1 DEF From
<1>12. ASSUME NEW i \in 1..Len(puts) PROVE Defined(text, p, i, DataSize)
  <2>1. i \in 1..Turn /\ Defined(text, puts, i, DataSize)
    BY <1>3 DEF First
  <2> QED
    BY <1>10, <1>11, <2>1 DEF Defined, Gapped, Parted
<1>13. Defined(text, p, Turn, DataSize)
  <2>1. Turn \in 1..Turn
    BY <1>3
  <2>2. From(p, Turn) = From(puts, Turn)
    BY <1>11, <2>1
  <2>3. Gapped(text, p, Turn, skey) /\ Parted(text, p, Turn, skey)
    BY <1>2, <2>2 DEF Began, Gapped, Parted
  <2>4. Len(data) <= DataSize
    BY DEF ParserInv, DataInv
  <2> QED
    BY <1>2, <1>6, <1>8, <1>10, <2>3, <2>4 DEF Defined
<1>14. PICK n \in Nat : n = Turn + 1
  BY <1>3
<1>15. From(p, n) = head
  <2>1. n # 1 /\ n - 1 = Turn
    BY <1>3, <1>14
  <2> QED
    BY <1>8, <1>10, <2>1 DEF From
<1>16. Quiet(text, head, head - 1) /\ ~Noted(text, head, head - 1)
  BY <1>3, QuietEmpty
<1>17. \E h : head' = h /\ Gapped(text, p, n, h) /\ (Parted(text, p, n, h) \/ head = Len(text) + 1)
  <2>1. CASE AtEnd(head)
    <3>1. head' = head /\ head = Len(text) + 1
      <4>1. head > Len(text)
        BY <2>1 DEF AtEnd
      <4>2. head' = head
        BY <1>1, <2>1 DEF Goto
      <4> QED
        BY <1>3, <4>1, <4>2
    <3>2. Gapped(text, p, n, head)
      BY <1>3, <1>15, <1>16 DEF Gapped
    <3> QED
      BY <3>1, <3>2
  <2>2. CASE ~AtEnd(head)
    <3>1. head' = head + 1 /\ head <= Len(text)
      BY <1>1, <1>3, <2>2 DEF Goto, AtEnd
    <3>2. text[head] \in Space
      <4>1. At(head) = "end" \/ At(head) \in Space
        BY DEF EndOfValue
      <4>2. At(head) = text[head] /\ text[head] \in Character
        BY <1>3, <3>1 DEF Text, Character
      <4>3. "end" \notin Character
        BY DEF Character, KeyChar, KeyBegin, Space, Special, Others, Open, Close
      <4> QED
        BY <4>1, <4>2, <4>3
    <3>3. Quiet(text, head, head) /\ ~Noted(text, head, head)
      BY <1>3, <1>16, <3>2, QuietBlank
    <3>4. (head + 1) - 1 = head /\ head < head + 1 /\ head <= head + 1
      BY <1>3
    <3>5. Gapped(text, p, n, head + 1) /\ Parted(text, p, n, head + 1)
      BY <1>15, <3>2, <3>3, <3>4 DEF Gapped, Parted
    <3> QED
      BY <3>1, <3>5
  <2> QED
    BY <2>1, <2>2
<1>18. \A i \in 1..Len(p) : Defined(text, p, i, DataSize)
  <2>1. \A i \in 1..Len(p) : i \in 1..Len(puts) \/ i = Turn
    BY <1>3, <1>10
  <2> QED
    BY <1>12, <1>13, <2>1
<1>19. label' = "initial" /\ Turn' = n
  BY <1>1, <1>9, <1>10, <1>14 DEF Goto, Turn
<1> QED
  BY <1>4, <1>9, <1>15, <1>17, <1>18, <1>19 DEF First

\* Errors are only counted.
LEMMA ErrorsGrow == ASSUME errors \in Nat, Next, ~Again PROVE errors' \in Nat /\ errors' >= errors
<1>1. CASE Initial \/ Comment \/ Key
  BY <1>1 DEF Initial, Comment, Key, Error, Fatal
<1>2. CASE Literal \/ Escape \/ Quote
  BY <1>2 DEF Literal, Escape, Quote, Fatal
<1>3. CASE Dollar
  <2>1. \E l, h : Fatal(h) \/ errors' = errors \/ Error(l, h)
    BY <1>3 DEF Dollar
  <2> QED
    BY <2>1 DEF Fatal, Error
<1>4. CASE Variable
  <2>1. errors' = errors \/ errors' = errors + 0 \/ errors' = errors + 1 \/ errors' = errors + 2
    <3>1. CASE At(head + 1) \in KeyChar
      BY <1>4, <3>1 DEF Variable
    <3>2. CASE At(head + 1) \notin KeyChar
      <4>1. \E n \in {0, 1, 2} : errors' = errors + n
        BY <1>4, <3>2 DEF Variable
      <4> QED
        BY <4>1
    <3> QED
      BY <3>1, <3>2
  <2> QED
    BY <2>1
<1>5. CASE EndOfValue
  BY <1>5 DEF EndOfValue, Error, Fatal
<1> QED
  BY <1>1, <1>2, <1>3, <1>4, <1>5 DEF Next

\* A parse without errors keeps what the first parse knows.
LEMMA FirstStep ==
    ASSUME ParserInv, ErrorsInv, FirstInv, Next, ~Again
    PROVE  FirstInv'
<1>1. parsing' = parsing /\ before' = before /\ ShouldEscape' = ShouldEscape
  BY RequestKept DEF ShouldEscape
<1>2. errors \in Nat /\ errors' \in Nat /\ errors' >= errors
  BY ErrorsGrow DEF ErrorsInv
<1> SUFFICES ASSUME before = NULL, ShouldEscape, errors' = 0, parsing.answer = Normal PROVE First'
  BY <1>1 DEF FirstInv
<1>3. errors = 0 /\ errors' = errors
  BY <1>2
<1>4. First
  BY <1>3 DEF FirstInv
<1>5. CASE Initial
  BY <1>2, <1>3, <1>4, <1>5, FirstInitial
<1>6. CASE Comment
  BY <1>4, <1>6, FirstComment
<1>7. CASE Key
  BY <1>2, <1>3, <1>4, <1>7, FirstKey
<1>8. CASE Literal \/ Escape
  BY <1>2, <1>3, <1>4, <1>8, FirstCharacters
<1>9. CASE Quote \/ Dollar
  BY <1>2, <1>3, <1>4, <1>9, FirstQuoteDollar
<1>10. CASE Variable
  BY <1>2, <1>3, <1>4, <1>10, FirstVariable
<1>11. CASE EndOfValue
  BY <1>2, <1>3, <1>4, <1>11, FirstEnd
<1> QED
  BY <1>4, <1>5, <1>6, <1>7, <1>8, <1>9, <1>10, <1>11 DEF Next

-----------------------------------------------------------------------------
(* What pretty prints, and where.                                            *)

\* The items of a sequence one after the other, each at its place.
Placed(s, f) ==
    /\ f \in [1..Len(s) + 1 -> Nat \ {0}]
    /\ f[1] = 1 /\ f[Len(s) + 1] = Len(FlattenSeq(s)) + 1
    /\ \A i \in 1..Len(s) :
          /\ f[i + 1] = f[i] + Len(s[i]) /\ f[i + 1] <= Len(FlattenSeq(s)) + 1
          /\ \A k \in 1..Len(s[i]) : FlattenSeq(s)[f[i] + k - 1] = s[i][k]

\* The places exist, by induction on the items.
LEMMA PlacesExist == ASSUME NEW s \in Seq(Text) PROVE \E f : Placed(s, f)
<1> DEFINE P == {v \in Seq(Text) : \E f : Placed(v, f)}
<1>1. <<>> \in P
  <2> DEFINE f == [i \in 1..1 |-> 1]
  <2>1. f \in [1..1 -> Nat \ {0}] /\ f[1] = 1
    OBVIOUS
  <2>2. FlattenSeq(<<>>) = <<>> /\ Len(<<>>) = 0
    BY DEF FlattenSeq
  <2> HIDE DEF f
  <2>3. Placed(<<>>, f)
    BY <2>1, <2>2 DEF Placed
  <2> QED
    BY <2>3
<1>2. ASSUME NEW v \in Seq(Text), NEW x \in Text, v \in P PROVE Append(v, x) \in P
  <2>1. PICK f : Placed(v, f)
    BY <1>2
  <2>2. PICK w : w = Append(v, x)
    OBVIOUS
  <2>3. PICK a : a = FlattenSeq(v)
    OBVIOUS
  <2>4. a \in Text /\ FlattenSeq(w) = a \o x /\ Len(a) \in Nat
    <3>1. v \in Seq(Seq(Character)) /\ x \in Seq(Character)
      BY DEF Text, Character
    <3>2. FlattenSeq(v) \in Seq(Character) /\ FlattenSeq(Append(v, x)) = FlattenSeq(v) \o x
      BY <3>1, FlattenAppend
    <3> QED
      BY <2>2, <2>3, <3>2 DEF Text, Character
  <2>5. PICK n \in Nat : n = Len(v)
    OBVIOUS
  <2>6. /\ w \in Seq(Text) /\ Len(w) = n + 1 /\ w[n + 1] = x
        /\ \A i \in 1..n : w[i] = v[i]
    BY <2>2, <2>5
  <2>7. /\ f \in [1..n + 1 -> Nat \ {0}] /\ f[1] = 1 /\ f[n + 1] = Len(a) + 1
        /\ \A i \in 1..n : /\ f[i + 1] = f[i] + Len(v[i]) /\ f[i + 1] <= Len(a) + 1
                           /\ \A k \in 1..Len(v[i]) : a[f[i] + k - 1] = v[i][k]
    BY <2>1, <2>3, <2>5 DEF Placed
  <2>8. PICK c : c = a \o x
    OBVIOUS
  <2>9. /\ c \in Text /\ Len(x) \in Nat /\ Len(c) = Len(a) + Len(x)
        /\ \A i \in 1..Len(a) : c[i] = a[i]
        /\ \A i \in 1..Len(x) : c[Len(a) + i] = x[i]
    BY <2>4, <2>8, TextConcat
  <2> DEFINE g == [i \in 1..n + 2 |-> IF i = n + 2 THEN Len(c) + 1 ELSE f[i]]
  <2>10. /\ g \in [1..n + 2 -> Nat \ {0}] /\ g[n + 2] = Len(c) + 1
         /\ \A i \in 1..n + 1 : g[i] = f[i]
    <3>1. \A i \in 1..n + 2 : i # n + 2 => i \in 1..n + 1
      BY <2>5
    <3>2. Len(c) + 1 \in Nat \ {0}
      BY <2>4, <2>9
    <3>3. \A i \in 1..n + 1 : i \in 1..n + 2 /\ i # n + 2
      BY <2>5
    <3>4. n + 2 \in 1..n + 2
      BY <2>5
    <3> QED
      BY <2>7, <3>1, <3>2, <3>3, <3>4
  <2> HIDE DEF g
  <2>11. ASSUME NEW i \in 1..n + 1
         PROVE  /\ g[i + 1] = g[i] + Len(w[i]) /\ g[i + 1] <= Len(c) + 1
                /\ \A k \in 1..Len(w[i]) : c[g[i] + k - 1] = w[i][k]
    <3>1. CASE i = n + 1
      <4>1. g[i + 1] = Len(c) + 1 /\ g[i] = Len(a) + 1 /\ w[i] = x
        <5>1. n + 1 \in 1..n + 1 /\ (n + 1) + 1 = n + 2
          BY <2>5
        <5> QED
          BY <2>6, <2>7, <2>10, <3>1, <5>1
      <4>2. ASSUME NEW k \in 1..Len(x) PROVE c[g[i] + k - 1] = x[k]
        <5>1. g[i] + k - 1 = Len(a) + k
          BY <2>4, <2>9, <4>1
        <5> QED
          BY <2>9, <5>1
      <4> QED
        BY <2>4, <2>9, <4>1, <4>2
    <3>2. CASE i # n + 1
      <4>1. i \in 1..n /\ i \in 1..n + 1 /\ i + 1 \in 1..n + 1
        BY <2>5, <3>2
      <4>2. g[i + 1] = f[i + 1] /\ g[i] = f[i] /\ w[i] = v[i] /\ v[i] \in Text
        BY <2>5, <2>6, <2>10, <4>1
      <4>3. f[i + 1] = f[i] + Len(v[i]) /\ f[i + 1] <= Len(a) + 1 /\ f[i] \in Nat \ {0}
            /\ Len(v[i]) \in Nat
        BY <2>7, <4>1, <4>2 DEF Text
      <4>4. ASSUME NEW k \in 1..Len(v[i]) PROVE c[f[i] + k - 1] = v[i][k]
        <5>1. f[i] + k - 1 \in 1..Len(a)
          BY <2>4, <4>3
        <5> QED
          BY <2>7, <2>9, <4>1, <5>1
      <4> QED
        BY <2>4, <2>9, <4>2, <4>3, <4>4
    <3> QED
      BY <3>1, <3>2
  <2>12. g[1] = 1
    BY <2>5, <2>7, <2>10
  <2>13. FlattenSeq(w) = c /\ Len(w) + 1 = n + 2
    BY <2>4, <2>5, <2>6, <2>8
  <2>14. Placed(w, g)
    BY <2>6, <2>10, <2>11, <2>12, <2>13 DEF Placed
  <2> QED
    BY <2>2, <2>6, <2>14
<1> HIDE DEF P
<1>3. Seq(Text) \subseteq P
  BY <1>1, <1>2, SeqInduction
<1> QED
  BY <1>3 DEF P

Printed(t, p, i) == Gap(t, p, i) \o p[i].key \o <<"=">> \o p[i].value

\* The text s stands at the place o of t.
Stands(t, o, s) == \A k \in 1..Len(s) : t[o + k - 1] = s[k]

\* A text stands with its two parts.
LEMMA StandsParts ==
    ASSUME NEW t \in Text, NEW o \in Nat, NEW v \in Text, NEW w \in Text, Stands(t, o, v \o w)
    PROVE  Stands(t, o, v) /\ Stands(t, o + Len(v), w)
<1>1. /\ Len(v) \in Nat /\ Len(w) \in Nat /\ Len(v \o w) = Len(v) + Len(w)
      /\ \A i \in 1..Len(v) : (v \o w)[i] = v[i]
      /\ \A i \in 1..Len(w) : (v \o w)[Len(v) + i] = w[i]
  BY TextConcat
<1>2. ASSUME NEW k \in 1..Len(v) PROVE t[o + k - 1] = v[k]
  <2>1. k \in 1..Len(v \o w)
    BY <1>1
  <2> QED
    BY <1>1, <2>1 DEF Stands
<1>3. ASSUME NEW k \in 1..Len(w) PROVE t[o + Len(v) + k - 1] = w[k]
  <2>1. Len(v) + k \in 1..Len(v \o w) /\ o + Len(v) + k - 1 = o + (Len(v) + k) - 1
    BY <1>1
  <2> QED
    BY <1>1, <2>1 DEF Stands
<1> QED
  BY <1>2, <1>3 DEF Stands

\* What stands in t stands where t does.
LEMMA StandsIn ==
    ASSUME NEW u, NEW c \in Text, NEW w \in Text, NEW n \in Nat \ {0},
           \A i \in 1..Len(c) : u[i] = c[i],
           n + Len(w) <= Len(c) + 1, \A k \in 1..Len(w) : c[n + k - 1] = w[k]
    PROVE  Stands(u, n, w)
<1>1. Len(w) \in Nat /\ Len(c) \in Nat
  BY DEF Text
<1>2. \A k \in 1..Len(w) : n + k - 1 \in 1..Len(c)
  BY <1>1
<1> QED
  BY <1>2 DEF Stands

Gaps(t, p, i) == IF i > Len(p) THEN Len(t) + 1 ELSE p[i].begin

\* A gap is what stands from the end of a definition to the next.
LEMMA GapIs ==
    ASSUME NEW t \in Text, NEW p, NEW i, From(p, i) \in Nat \ {0}, Gaps(t, p, i) \in Nat,
           From(p, i) <= Gaps(t, p, i), Gaps(t, p, i) <= Len(t) + 1
    PROVE  /\ Gap(t, p, i) \in Text /\ Len(Gap(t, p, i)) = Gaps(t, p, i) - From(p, i)
           /\ \A k \in 1..Len(Gap(t, p, i)) : Gap(t, p, i)[k] = t[From(p, i) + k - 1]
<1>1. PICK b \in Nat \ {0} : b = From(p, i)
  OBVIOUS
<1>2. PICK e \in Nat : e = Gaps(t, p, i)
  OBVIOUS
<1>3. b <= e /\ e <= Len(t) + 1 /\ Len(t) \in Nat
  BY <1>1, <1>2 DEF Text
<1>4. Gap(t, p, i) = SubSeq(t, b, e - 1)
  <2>1. CASE i > Len(p)
    <3>1. e - 1 = Len(t)
      BY <1>2, <1>3, <2>1 DEF Gaps
    <3> QED
      BY <1>1, <2>1, <3>1 DEF Gap, From
  <2>2. CASE ~(i > Len(p))
    BY <1>1, <1>2, <2>2 DEF Gap, From, Gaps
  <2> QED
    BY <2>1, <2>2
<1>5. SubSeq(t, b, e - 1) \in Text
  <2>1. b \in 1..Len(t) + 1 /\ e - 1 \in 0..Len(t)
    BY <1>3
  <2> QED
    BY <2>1, PartIs
<1>6. Len(SubSeq(t, b, e - 1)) = e - b
      /\ \A k \in 1..e - b : SubSeq(t, b, e - 1)[k] = t[b + k - 1]
  BY <1>3 DEF Text
<1> QED
  BY <1>1, <1>2, <1>4, <1>5, <1>6

\* Where pretty prints the definition i of b, and its value.
KeyOf(b, s, i) == s[i] + Len(Gap(b.text, b.puts, i))
ValueOf(b, s, i) == KeyOf(b, s, i) + Len(b.puts[i].key) + 1

LaidGap(t, b, s, i) ==
    /\ Stands(t, s[i], Gap(b.text, b.puts, i))
    /\ Quiet(t, s[i], KeyOf(b, s, i) - 1) /\ KeyOf(b, s, i) <= Len(t) + 1

LaidPut(t, b, s, i) ==
    /\ ~Noted(t, s[i], KeyOf(b, s, i) - 1)
    /\ Stands(t, KeyOf(b, s, i), b.puts[i].key) /\ t[ValueOf(b, s, i) - 1] = "="
    /\ Stands(t, ValueOf(b, s, i), b.puts[i].value)
    /\ s[i + 1] = ValueOf(b, s, i) + Len(b.puts[i].value) /\ s[i + 1] <= Len(t) + 1
    /\ s[i + 1] <= Len(t) => t[s[i + 1]] \in Space

\* The text t is b as it is printed.
Laid(t, b, s) ==
    /\ s \in [1..Len(b.puts) + 1 -> Nat \ {0}] /\ s[1] = 1
    /\ \A i \in 1..Len(b.puts) + 1 : LaidGap(t, b, s, i)
    /\ \A i \in 1..Len(b.puts) : LaidPut(t, b, s, i)
    /\ KeyOf(b, s, Len(b.puts) + 1) = Len(t) + 1

\* What was read first is right to be read again.
Sound(b, size) ==
    /\ b.text \in Text /\ b.puts \in Seq(Definition)
    /\ \A i \in 1..Len(b.puts) + 1 : Gap(b.text, b.puts, i) \in Text
    /\ \A i \in 1..Len(b.puts) :
          /\ Word(b.puts[i].key) /\ Len(b.puts[i].value) <= size
          /\ Safe(b.puts[i].value, b.puts[i].meant)

\* What pretty prints of b.
PrettyOf(b) == FlattenSeq([i \in DOMAIN b.puts |-> Printed(b.text, b.puts, i)])
               \o Gap(b.text, b.puts, Len(b.puts) + 1)

\* The definition i, printed in u, and all of them.
PrintedAt(u, b, s, i) ==
    /\ Stands(u, KeyOf(b, s, i), b.puts[i].key) /\ u[ValueOf(b, s, i) - 1] = "="
    /\ Stands(u, ValueOf(b, s, i), b.puts[i].value)
    /\ s[i + 1] = ValueOf(b, s, i) + Len(b.puts[i].value) /\ s[i + 1] <= Len(u) + 1
AllPrinted(u, b, s) ==
    /\ s \in [1..Len(b.puts) + 1 -> Nat \ {0}] /\ s[1] = 1
    /\ \A i \in 1..Len(b.puts) + 1 : /\ Stands(u, s[i], Gap(b.text, b.puts, i))
                                     /\ KeyOf(b, s, i) <= Len(u) + 1
    /\ \A i \in 1..Len(b.puts) : PrintedAt(u, b, s, i)
    /\ KeyOf(b, s, Len(b.puts) + 1) = Len(u) + 1

\* The pretty text has its gaps, keys and values at their places.
LEMMA PrettyStands ==
    ASSUME NEW b, b.text \in Text, b.puts \in Seq(Definition),
           \A i \in 1..Len(b.puts) + 1 : Gap(b.text, b.puts, i) \in Text
    PROVE  PrettyOf(b) \in Text /\ \E s : AllPrinted(PrettyOf(b), b, s)
<1>0. PICK t \in Text : t = b.text
  OBVIOUS
<1>01. PICK p \in Seq(Definition) : p = b.puts
  OBVIOUS
<1>1. PICK r : r = [i \in DOMAIN p |-> Printed(t, p, i)]
  OBVIOUS
<1>2. PICK n \in Nat : n = Len(p) /\ DOMAIN p = 1..n
  OBVIOUS
<1>3. PICK last : last = Gap(t, p, n + 1)
  OBVIOUS
<1>4. last \in Text
  BY <1>0, <1>01, <1>2, <1>3
<1>5. \A i \in 1..n : p[i].key \in Text /\ p[i].value \in Text /\ Gap(t, p, i) \in Text
  <2> SUFFICES ASSUME NEW i \in 1..n
               PROVE  p[i].key \in Text /\ p[i].value \in Text /\ Gap(t, p, i) \in Text
    OBVIOUS
  <2>1. p[i] \in Definition
    BY <1>2
  <2>2. p[i].key \in Text /\ p[i].value \in Text
    BY <2>1 DEF Definition
  <2>3. i \in 1..Len(b.puts) + 1
    BY <1>01, <1>2
  <2> QED
    BY <1>0, <1>01, <2>2, <2>3
<1>6. <<"=">> \in Text /\ Len(<<"=">>) = 1 /\ <<"=">>[1] = "="
  BY DEF Text, Others
<1>7. \A i \in 1..n : Printed(t, p, i) \in Text
  <2> SUFFICES ASSUME NEW i \in 1..n PROVE Printed(t, p, i) \in Text
    OBVIOUS
  <2>1. p[i].key \in Text /\ p[i].value \in Text /\ Gap(t, p, i) \in Text
    BY <1>5
  <2>2. \A v, w \in Text : v \o w \in Text
    BY TextsAre
  <2> QED
    BY <1>6, <2>1, <2>2 DEF Printed
<1>8. r \in Seq(Text) /\ Len(r) = n /\ \A i \in 1..n : r[i] = Printed(t, p, i)
  <2>1. r = [i \in 1..n |-> Printed(t, p, i)]
    BY <1>1, <1>2
  <2> QED
    BY <1>7, <2>1, IsASeq
<1>9. PICK f : Placed(r, f)
  BY <1>8, PlacesExist
<1>10. PICK c : c = FlattenSeq(r)
  OBVIOUS
<1>11. c \in Text
  <2>1. r \in Seq(Seq(Character)) /\ <<>> \in Seq(Character)
    BY <1>8 DEF Text, Character
  <2>2. c \in Seq(Character)
    BY <1>10, <2>1, FlattenAppend
  <2> QED
    BY <2>2 DEF Text, Character
<1>12. PICK u : u = c \o last
  OBVIOUS
<1>13. /\ u \in Text /\ Len(c) \in Nat /\ Len(last) \in Nat /\ Len(u) = Len(c) + Len(last)
       /\ \A i \in 1..Len(c) : u[i] = c[i]
       /\ \A i \in 1..Len(last) : u[Len(c) + i] = last[i]
  BY <1>4, <1>11, <1>12, TextConcat
<1>14. /\ f \in [1..n + 1 -> Nat \ {0}] /\ f[1] = 1 /\ f[n + 1] = Len(c) + 1
       /\ \A i \in 1..n : /\ f[i + 1] = f[i] + Len(r[i]) /\ f[i + 1] <= Len(c) + 1
                          /\ \A k \in 1..Len(r[i]) : c[f[i] + k - 1] = r[i][k]
  BY <1>8, <1>9, <1>10 DEF Placed
<1>15. ASSUME NEW i \in 1..n
       PROVE  /\ Stands(u, f[i], Gap(t, p, i))
              /\ Stands(u, f[i] + Len(Gap(t, p, i)), p[i].key)
              /\ u[f[i] + Len(Gap(t, p, i)) + Len(p[i].key)] = "="
              /\ Stands(u, f[i] + Len(Gap(t, p, i)) + Len(p[i].key) + 1, p[i].value)
              /\ f[i + 1] = f[i] + Len(Gap(t, p, i)) + Len(p[i].key) + 1 + Len(p[i].value)
              /\ f[i + 1] <= Len(u) + 1
  <2>1. PICK g \in Text : g = Gap(t, p, i)
    BY <1>5
  <2>2. PICK key \in Text : key = p[i].key
    BY <1>5
  <2>3. PICK v \in Text : v = p[i].value
    BY <1>5
  <2>4. PICK e \in Text : e = <<"=">>
    BY <1>6
  <2>5. PICK o \in Nat \ {0} : o = f[i]
    <3>1. i \in 1..n + 1
      BY <1>2
    <3> QED
      BY <1>14, <3>1
  <2>6. r[i] = g \o key \o e \o v
    BY <1>8, <2>1, <2>2, <2>3, <2>4 DEF Printed
  <2>7. g \o key \in Text /\ (g \o key) \o e \in Text /\ ((g \o key) \o e) \o v \in Text
        /\ Len(g \o key) = Len(g) + Len(key) /\ Len((g \o key) \o e) = Len(g) + Len(key) + 1
        /\ Len(r[i]) = Len(g) + Len(key) + 1 + Len(v)
        /\ Len(g) \in Nat /\ Len(key) \in Nat /\ Len(v) \in Nat
    <3>1. PICK a : a = g \o key
      OBVIOUS
    <3>2. a \in Text /\ Len(a) = Len(g) + Len(key) /\ Len(g) \in Nat /\ Len(key) \in Nat
      BY <3>1, TextConcat
    <3>3. PICK h : h = a \o e
      OBVIOUS
    <3>4. h \in Text /\ Len(h) = Len(a) + Len(e) /\ Len(e) = 1
      BY <1>6, <2>4, <3>2, <3>3, TextConcat
    <3>5. h \o v \in Text /\ Len(h \o v) = Len(h) + Len(v) /\ Len(v) \in Nat
      BY <3>4, TextConcat
    <3> QED
      BY <2>6, <3>1, <3>2, <3>3, <3>4, <3>5
  <2>8. f[i + 1] = o + Len(r[i]) /\ f[i + 1] <= Len(c) + 1
        /\ \A k \in 1..Len(r[i]) : c[o + k - 1] = r[i][k]
    BY <1>14, <2>5
  <2>9. Stands(u, o, ((g \o key) \o e) \o v)
    <3>1. r[i] \in Text /\ o + Len(r[i]) <= Len(c) + 1
      BY <2>6, <2>7, <2>8
    <3>2. Stands(u, o, r[i])
      BY <1>11, <1>13, <2>8, <3>1, StandsIn
    <3> QED
      BY <2>6, <3>2
  <2>10. Stands(u, o, (g \o key) \o e) /\ Stands(u, o + (Len(g) + Len(key) + 1), v)
    BY <1>13, <2>7, <2>9, StandsParts
  <2>11. Stands(u, o, g \o key) /\ Stands(u, o + (Len(g) + Len(key)), e)
    BY <1>13, <2>7, <2>10, StandsParts
  <2>12. Stands(u, o, g) /\ Stands(u, o + Len(g), key)
    BY <1>13, <2>11, StandsParts
  <2>13. u[o + Len(g) + Len(key)] = "="
    <3>1. 1 \in 1..Len(e) /\ e[1] = "="
      BY <1>6, <2>4
    <3>2. u[o + (Len(g) + Len(key)) + 1 - 1] = "="
      BY <2>11, <3>1 DEF Stands
    <3>3. o + (Len(g) + Len(key)) + 1 - 1 = o + Len(g) + Len(key)
      BY <2>7
    <3> QED
      BY <3>2, <3>3
  <2>14. o + (Len(g) + Len(key) + 1) = o + Len(g) + Len(key) + 1
         /\ f[i + 1] = o + Len(g) + Len(key) + 1 + Len(v) /\ f[i + 1] <= Len(u) + 1
    BY <1>13, <2>7, <2>8
  <2> QED
    BY <2>1, <2>2, <2>3, <2>5, <2>10, <2>12, <2>13, <2>14
<1>16. Stands(u, f[n + 1], last) /\ f[n + 1] + Len(last) = Len(u) + 1
  <2>1. ASSUME NEW k \in 1..Len(last) PROVE u[f[n + 1] + k - 1] = last[k]
    <3>1. f[n + 1] + k - 1 = Len(c) + k
      BY <1>13, <1>14
    <3> QED
      BY <1>13, <3>1
  <2>2. f[n + 1] + Len(last) = Len(u) + 1
    BY <1>13, <1>14
  <2> QED
    BY <2>1, <2>2 DEF Stands
<1>17. ASSUME NEW i \in 1..n + 1
       PROVE  Stands(u, f[i], Gap(t, p, i)) /\ f[i] + Len(Gap(t, p, i)) <= Len(u) + 1
  <2>1. CASE i = n + 1
    BY <1>3, <1>13, <1>16, <2>1
  <2>2. CASE i # n + 1
    <3>1. i \in 1..n /\ Gap(t, p, i) \in Text
      BY <1>5, <2>2
    <3>2. p[i].key \in Text /\ p[i].value \in Text
      BY <1>5, <3>1
    <3>3. Len(p[i].key) \in Nat /\ Len(p[i].value) \in Nat /\ Len(Gap(t, p, i)) \in Nat
          /\ f[i] \in Nat
      <4>1. \A v \in Text : Len(v) \in Nat
        BY DEF Text
      <4>2. i \in 1..n + 1
        OBVIOUS
      <4> QED
        BY <1>14, <3>1, <3>2, <4>1, <4>2
    <3>4. f[i + 1] = f[i] + Len(Gap(t, p, i)) + Len(p[i].key) + 1 + Len(p[i].value)
          /\ f[i + 1] <= Len(u) + 1
      BY <1>15, <3>1
    <3>5. Len(u) \in Nat
      BY <1>13
    <3>6. f[i] + Len(Gap(t, p, i)) <= Len(u) + 1
      <4>1. \A a, g, k, v, l \in Nat : a + g + k + 1 + v <= l + 1 => a + g <= l + 1
        OBVIOUS
      <4>2. f[i] + Len(Gap(t, p, i)) + Len(p[i].key) + 1 + Len(p[i].value) <= Len(u) + 1
        BY <3>4
      <4> QED
        BY <3>3, <3>5, <4>1, <4>2
    <3> QED
      BY <1>15, <3>1, <3>6
  <2> QED
    BY <2>1, <2>2
<1>18. \A i \in 1..n + 1 : KeyOf(b, f, i) = f[i] + Len(Gap(t, p, i))
  BY <1>0, <1>01 DEF KeyOf
<1>19. ASSUME NEW i \in 1..n PROVE PrintedAt(u, b, f, i)
  <2>1. PICK k : k = KeyOf(b, f, i)
    OBVIOUS
  <2>2. PICK v : v = ValueOf(b, f, i)
    OBVIOUS
  <2>3. i \in 1..n + 1 /\ p[i].key \in Text /\ Gap(t, p, i) \in Text
    BY <1>2, <1>5
  <2>4. k = f[i] + Len(Gap(t, p, i)) /\ v = k + Len(p[i].key) + 1
    BY <1>01, <1>18, <2>1, <2>2, <2>3 DEF ValueOf
  <2>5. Len(p[i].key) \in Nat /\ Len(Gap(t, p, i)) \in Nat /\ f[i] \in Nat
    BY <1>14, <2>3 DEF Text
  <2>6. v - 1 = f[i] + Len(Gap(t, p, i)) + Len(p[i].key)
        /\ v = f[i] + Len(Gap(t, p, i)) + Len(p[i].key) + 1
    <3>1. \A x, g, l \in Nat : (x + g + l + 1) - 1 = x + g + l
      OBVIOUS
    <3> QED
      BY <2>4, <2>5, <3>1
  <2>7. /\ Stands(u, k, p[i].key) /\ u[v - 1] = "=" /\ Stands(u, v, p[i].value)
        /\ f[i + 1] = v + Len(p[i].value) /\ f[i + 1] <= Len(u) + 1
    BY <1>15, <2>4, <2>6
  <2> QED
    BY <1>01, <2>1, <2>2, <2>7 DEF PrintedAt
<1>20. PrettyOf(b) = u
  BY <1>0, <1>01, <1>1, <1>2, <1>3, <1>10, <1>12 DEF PrettyOf
<1>21. AllPrinted(u, b, f)
  <2>1. n + 1 \in 1..n + 1
    BY <1>2
  <2>2. KeyOf(b, f, n + 1) = Len(u) + 1
    BY <1>3, <1>16, <1>18, <2>1
  <2>3. \A i \in 1..n + 1 : Stands(u, f[i], Gap(t, p, i)) /\ KeyOf(b, f, i) <= Len(u) + 1
    BY <1>17, <1>18
  <2>4. n = Len(b.puts)
    BY <1>01, <1>2
  <2> QED
    BY <1>0, <1>01, <1>14, <1>19, <2>2, <2>3, <2>4 DEF AllPrinted
<1> QED
  BY <1>13, <1>20, <1>21

\* What the first parse read is right, and is printed as it was laid out.
LEMMA LaidIs ==
    ASSUME ParserInv, First, label = "stop", NEW b, b.text = text, b.puts = puts
    PROVE  Sound(b, DataSize) /\ PrettyOf(b) \in Text /\ \E s : Laid(PrettyOf(b), b, s)
<1>1. PICK t \in Text : t = text /\ t = b.text /\ Len(t) \in Nat
  BY FirstPlaces
<1>2. PICK p \in Seq(Definition) : p = puts /\ p = b.puts
  BY FirstPlaces
<1>3. PICK n \in Nat : n = Len(p) /\ n + 1 = Turn
  BY <1>2 DEF Turn
<1>4. \A i \in 1..n + 1 : From(p, i) \in Nat \ {0} /\ From(p, i) <= Len(t) + 1
  BY <1>1, <1>2, <1>3, FirstPlaces
<1>5. \A i \in 1..n : /\ Defined(t, p, i, DataSize) /\ p[i].begin \in Nat /\ p[i].begin <= Len(t)
  <2> SUFFICES ASSUME NEW i \in 1..n
               PROVE  Defined(t, p, i, DataSize) /\ p[i].begin \in Nat /\ p[i].begin <= Len(t)
    OBVIOUS
  <2>1. Defined(t, p, i, DataSize)
    BY <1>1, <1>2, <1>3 DEF First
  <2>2. Within(p[i], t)
    BY <1>1, <1>2, <1>3 DEF ParserInv, PutsInv
  <2> QED
    BY <1>1, <2>1, <2>2 DEF Within
<1>6. LastGap(t, p, n + 1)
  BY <1>1, <1>2, <1>3 DEF First
<1>7. ASSUME NEW i \in 1..n + 1
      PROVE  /\ Gaps(t, p, i) \in Nat /\ From(p, i) <= Gaps(t, p, i) /\ Gaps(t, p, i) <= Len(t) + 1
             /\ Quiet(t, From(p, i), Gaps(t, p, i) - 1)
             /\ i > 1 /\ From(p, i) <= Len(t)
                   => From(p, i) < Gaps(t, p, i) /\ t[From(p, i)] \in Space
             /\ i <= n => ~Noted(t, From(p, i), Gaps(t, p, i) - 1)
  <2>1. CASE i = n + 1
    <3>1. Gaps(t, p, i) = Len(t) + 1 /\ (Len(t) + 1) - 1 = Len(t)
      BY <1>1, <1>3, <2>1 DEF Gaps
    <3>2. From(p, i) <= Len(t) => From(p, i) < Len(t) + 1
      BY <1>1, <1>4
    <3> QED
      BY <1>1, <1>4, <1>6, <2>1, <3>1, <3>2 DEF LastGap
  <2>2. CASE i # n + 1
    <3>1. i \in 1..n /\ ~(i > Len(p))
      BY <1>3, <2>2
    <3>2. Gaps(t, p, i) = p[i].begin
      BY <3>1 DEF Gaps
    <3>3. /\ p[i].begin \in Nat /\ p[i].begin <= Len(t)
          /\ Gapped(t, p, i, p[i].begin) /\ Parted(t, p, i, p[i].begin)
      BY <1>5, <3>1 DEF Defined
    <3>4. p[i].begin <= Len(t) + 1
      BY <1>1, <3>3
    <3> QED
      BY <3>2, <3>3, <3>4 DEF Gapped, Parted
  <2> QED
    BY <2>1, <2>2
<1>8. ASSUME NEW i \in 1..n + 1
      PROVE  /\ Gap(t, p, i) \in Text /\ Len(Gap(t, p, i)) = Gaps(t, p, i) - From(p, i)
             /\ \A k \in 1..Len(Gap(t, p, i)) : Gap(t, p, i)[k] = t[From(p, i) + k - 1]
  BY <1>4, <1>7, GapIs
<1>9. Sound(b, DataSize)
  BY <1>1, <1>2, <1>3, <1>5, <1>8 DEF Sound, Defined
<1>10. PICK u \in Text : u = PrettyOf(b)
  BY <1>1, <1>2, <1>3, <1>8, PrettyStands
<1>11. PICK s : AllPrinted(u, b, s)
  BY <1>1, <1>2, <1>3, <1>8, <1>10, PrettyStands
<1>12. /\ s \in [1..n + 1 -> Nat \ {0}] /\ s[1] = 1
       /\ \A i \in 1..n + 1 : Stands(u, s[i], Gap(t, p, i)) /\ KeyOf(b, s, i) <= Len(u) + 1
       /\ \A i \in 1..n : PrintedAt(u, b, s, i)
       /\ KeyOf(b, s, n + 1) = Len(u) + 1
  BY <1>1, <1>2, <1>3, <1>11 DEF AllPrinted
<1>13. ASSUME NEW i \in 1..n + 1
       PROVE  /\ Quiet(u, s[i], KeyOf(b, s, i) - 1)
              /\ i <= n => ~Noted(u, s[i], KeyOf(b, s, i) - 1)
  <2>1. PICK f \in Nat \ {0} : f = From(p, i)
    BY <1>4
  <2>2. PICK g \in Text : g = Gap(t, p, i)
    BY <1>8
  <2>3. PICK l \in Nat : l = Len(g)
    BY DEF Text
  <2>4. PICK o \in Nat \ {0} : o = s[i]
    BY <1>12
  <2>5. KeyOf(b, s, i) = o + l /\ Gaps(t, p, i) = f + l
    <3>1. KeyOf(b, s, i) = o + l
      BY <1>1, <1>2, <2>2, <2>3, <2>4 DEF KeyOf
    <3>2. l = Gaps(t, p, i) - f /\ Gaps(t, p, i) \in Nat
      BY <1>7, <1>8, <2>1, <2>2, <2>3
    <3> QED
      BY <3>1, <3>2
  <2>6. \A j \in 0..l - 1 : u[o + j] = t[f + j]
    <3> SUFFICES ASSUME NEW j \in 0..l - 1 PROVE u[o + j] = t[f + j]
      OBVIOUS
    <3>1. j + 1 \in 1..l /\ o + (j + 1) - 1 = o + j /\ f + (j + 1) - 1 = f + j
      BY <2>3
    <3>2. u[o + (j + 1) - 1] = g[j + 1]
      BY <1>12, <2>2, <2>3, <2>4, <3>1 DEF Stands
    <3>3. g[j + 1] = t[f + (j + 1) - 1]
      BY <1>8, <2>1, <2>2, <2>3, <3>1
    <3> QED
      BY <3>1, <3>2, <3>3
  <2>7. /\ Quiet(t, f, f + l - 1) => Quiet(u, o, o + l - 1)
        /\ ~Noted(t, f, f + l - 1) => ~Noted(u, o, o + l - 1)
    BY <2>6, QuietMoved
  <2> QED
    BY <1>7, <2>1, <2>4, <2>5, <2>7
<1>14. ASSUME NEW i \in 1..n, s[i + 1] <= Len(u) PROVE u[s[i + 1]] \in Space
  <2>1. PICK j \in 1..n + 1 : j = i + 1 /\ j > 1
    <3>1. i + 1 \in 1..n + 1 /\ i + 1 > 1
      OBVIOUS
    <3> QED
      BY <3>1
  <2>2. PICK o \in Nat \ {0} : o = s[j]
    BY <1>12
  <2>3. From(p, j) <= Len(t)
    <3> SUFFICES ASSUME ~(From(p, j) <= Len(t)) PROVE FALSE
      OBVIOUS
    <3>1. From(p, j) = Len(t) + 1 /\ Gaps(t, p, j) = Len(t) + 1
      BY <1>1, <1>4, <1>7
    <3>2. j = n + 1
      <4>1. CASE j # n + 1
        <5>1. j \in 1..n /\ ~(j > Len(p))
          BY <1>3, <4>1
        <5>2. Gaps(t, p, j) = p[j].begin /\ p[j].begin <= Len(t)
          BY <1>5, <5>1 DEF Gaps
        <5> QED
          BY <1>1, <3>1, <5>2
      <4> QED
        BY <4>1
    <3>3. Len(Gap(t, p, j)) = 0
      BY <1>1, <1>8, <3>1
    <3>4. KeyOf(b, s, j) = o
      BY <1>1, <1>2, <2>2, <3>3 DEF KeyOf
    <3>5. o = Len(u) + 1 /\ Len(u) \in Nat
      BY <1>12, <3>2, <3>4 DEF Text
    <3> QED
      BY <1>14, <2>1, <2>2, <3>5
  <2>4. From(p, j) < Gaps(t, p, j) /\ t[From(p, j)] \in Space
    BY <1>7, <2>1, <2>3
  <2>5. PICK f \in Nat \ {0} : f = From(p, j)
    BY <1>4
  <2>6. 1 \in 1..Len(Gap(t, p, j))
    BY <1>7, <1>8, <2>4, <2>5
  <2>7. o + 1 - 1 = o /\ f + 1 - 1 = f
    OBVIOUS
  <2>8. u[o] = Gap(t, p, j)[1] /\ Gap(t, p, j)[1] = t[f]
    <3>1. u[o + 1 - 1] = Gap(t, p, j)[1]
      BY <1>12, <2>2, <2>6 DEF Stands
    <3>2. Gap(t, p, j)[1] = t[f + 1 - 1]
      BY <1>8, <2>5, <2>6
    <3> QED
      BY <2>7, <3>1, <3>2
  <2> QED
    BY <2>1, <2>2, <2>4, <2>5, <2>8
<1>15. \A i \in 1..n : LaidPut(u, b, s, i)
  <2> SUFFICES ASSUME NEW i \in 1..n PROVE LaidPut(u, b, s, i)
    OBVIOUS
  <2>1. i \in 1..n + 1 /\ i <= n
    OBVIOUS
  <2>2. ~Noted(u, s[i], KeyOf(b, s, i) - 1)
    BY <1>13, <2>1
  <2> QED
    BY <1>12, <1>14, <2>2 DEF LaidPut, PrintedAt
<1>16. \A i \in 1..n + 1 : LaidGap(u, b, s, i)
  BY <1>1, <1>2, <1>12, <1>13 DEF LaidGap
<1>17. Laid(u, b, s)
  BY <1>2, <1>3, <1>12, <1>15, <1>16 DEF Laid
<1> QED
  BY <1>9, <1>10, <1>17

-----------------------------------------------------------------------------
(* The second parse, on what was printed.                                    *)

\* The definition i of b is put again, from where it was printed.
Reput(d, b, s, i) ==
    /\ d.key = b.puts[i].key /\ d.value = b.puts[i].value /\ d.meant = b.puts[i].meant
    /\ d.begin = KeyOf(b, s, i) /\ d.end = s[i + 1]

\* The value d.value is read up to one of its pieces, as v, which means a.
Midway(d, C, m, v, a) ==
    /\ Reading(d.value, d.meant, C, m) /\ Len(v) \in C /\ a = m[Len(v)]
    /\ \A k \in 1..Len(v) : v[k] = d.value[k]

\* The piece that ends at l is a variable, whose name is being read.
InVariable(b, s, i, C, m, l) ==
    /\ Midway(b.puts[i], C, m, data, whole)
    /\ l \in C /\ Named(b.puts[i].value, Len(data), l, m[Len(data)], m[l])
    /\ svar = ValueOf(b, s, i) + Len(data) + 2 /\ head + 2 <= ValueOf(b, s, i) + l /\ brace

\* The second parse puts the definitions of b again, each where it was printed.
Second(b, s) ==
    /\ Turn <= Len(b.puts) + 1
    /\ \A i \in 1..Len(puts) : Reput(puts[i], b, s, i)
    /\ label = "initial" =>
          s[Turn] <= head /\ head <= KeyOf(b, s, Turn) /\ ~Noted(text, s[Turn], head - 1)
    /\ label = "comment" =>
          s[Turn] <= head /\ head < KeyOf(b, s, Turn) /\ Noted(text, s[Turn], head)
    /\ label = "key" =>
          /\ Turn <= Len(b.puts) /\ skey = KeyOf(b, s, Turn)
          /\ head < skey + Len(b.puts[Turn].key)
    /\ label \in {"value", "variable"} =>
          /\ Turn <= Len(b.puts) /\ skey = KeyOf(b, s, Turn) /\ lkey = Len(b.puts[Turn].key)
          /\ q = NoQuote /\ ~overflow
    /\ label = "value" => /\ head = ValueOf(b, s, Turn) + Len(data)
                          /\ \E C, m : Midway(b.puts[Turn], C, m, data, whole)
    /\ label = "variable" => \E C, m, l : InVariable(b, s, Turn, C, m, l)
    /\ label = "stop" => Turn = Len(b.puts) + 1

\* What the second parse relies on.
Rereads(b, s) ==
    /\ errors = 0 /\ parsing.answer = Normal /\ ShouldEscape
    /\ Sound(b, DataSize) /\ Laid(text, b, s)
    /\ \A i \in 1..Len(b.puts) : Blankless(b.puts[i].meant)

\* A step of the second parse within one definition.
LEMMA SecondKept ==
    ASSUME NEW b, NEW s, Second(b, s), UNCHANGED <<parsing, puts>>,
           label' = "initial" =>
              s[Turn] <= head' /\ head' <= KeyOf(b, s, Turn) /\ ~Noted(text, s[Turn], head' - 1),
           label' = "comment" =>
              s[Turn] <= head' /\ head' < KeyOf(b, s, Turn) /\ Noted(text, s[Turn], head'),
           label' = "key" =>
              /\ Turn <= Len(b.puts) /\ skey' = KeyOf(b, s, Turn)
              /\ head' < skey' + Len(b.puts[Turn].key),
           label' \in {"value", "variable"} =>
              /\ Turn <= Len(b.puts) /\ skey' = KeyOf(b, s, Turn)
              /\ lkey' = Len(b.puts[Turn].key) /\ q' = NoQuote /\ ~overflow',
           label' = "value" => /\ head' = ValueOf(b, s, Turn) + Len(data')
                               /\ \E C, m : Midway(b.puts[Turn], C, m, data', whole'),
           label' = "variable" => \E C, m, l :
              /\ Midway(b.puts[Turn], C, m, data', whole')
              /\ l \in C /\ Named(b.puts[Turn].value, Len(data'), l, m[Len(data')], m[l])
              /\ svar' = ValueOf(b, s, Turn) + Len(data') + 2
              /\ head' + 2 <= ValueOf(b, s, Turn) + l /\ brace',
           label' = "stop" => Turn = Len(b.puts) + 1
    PROVE  Second(b, s)'
<1>1. text' = text /\ puts' = puts /\ Turn' = Turn
  BY DEF text, Turn
<1> QED
  BY <1>1 DEF Second, InVariable

\* The places of the gap, the key and the value i.
LEMMA GapPlaces ==
    ASSUME ParserInv, NEW b, NEW s, Rereads(b, s), NEW i \in 1..Len(b.puts) + 1
    PROVE  /\ s[i] \in Nat \ {0} /\ KeyOf(b, s, i) \in Nat \ {0}
           /\ s[i] <= KeyOf(b, s, i) /\ KeyOf(b, s, i) <= Len(text) + 1
           /\ Quiet(text, s[i], KeyOf(b, s, i) - 1)
           /\ i = Len(b.puts) + 1 => KeyOf(b, s, i) = Len(text) + 1
<1>1. Gap(b.text, b.puts, i) \in Text /\ Laid(text, b, s)
  BY DEF Rereads, Sound
<1>2. Len(Gap(b.text, b.puts, i)) \in Nat
  BY <1>1 DEF Text
<1>3. s[i] \in Nat \ {0} /\ LaidGap(text, b, s, i)
      /\ (i = Len(b.puts) + 1 => KeyOf(b, s, i) = Len(text) + 1)
  BY <1>1 DEF Laid
<1>4. s[i] <= KeyOf(b, s, i) /\ KeyOf(b, s, i) \in Nat \ {0}
  BY <1>2, <1>3 DEF KeyOf
<1> QED
  BY <1>3, <1>4 DEF LaidGap

\* The places of the definition i, its key and its value.
LEMMA PutPlaces ==
    ASSUME ParserInv, NEW b, NEW s, Rereads(b, s), NEW i \in 1..Len(b.puts)
    PROVE  /\ b.puts[i].key \in Text /\ Len(b.puts[i].key) \in Nat \ {0} /\ Word(b.puts[i].key)
           /\ b.puts[i].value \in Text /\ Len(b.puts[i].value) \in Nat
           /\ Len(b.puts[i].value) <= DataSize
           /\ Readable(b.puts[i].value, b.puts[i].meant)
           /\ i \in 1..Len(b.puts) + 1 /\ i + 1 \in 1..Len(b.puts) + 1
           /\ KeyOf(b, s, i) \in Nat \ {0} /\ ValueOf(b, s, i) \in Nat
           /\ ValueOf(b, s, i) = KeyOf(b, s, i) + Len(b.puts[i].key) + 1
           /\ LaidPut(text, b, s, i)
           /\ s[i + 1] = ValueOf(b, s, i) + Len(b.puts[i].value) /\ s[i + 1] <= Len(text) + 1
<1>1. /\ Sound(b, DataSize) /\ Laid(text, b, s) /\ Blankless(b.puts[i].meant)
      /\ b.puts \in Seq(Definition)
  BY DEF Rereads, Sound
<1>2. Len(b.puts) \in Nat /\ b.puts[i] \in Definition
  BY <1>1
<1>3. b.puts[i].key \in Text /\ b.puts[i].value \in Text
  BY <1>2 DEF Definition
<1>4. Word(b.puts[i].key) /\ Len(b.puts[i].value) <= DataSize
      /\ Readable(b.puts[i].value, b.puts[i].meant)
  BY <1>1 DEF Sound, Safe
<1>5. Len(b.puts[i].key) \in Nat \ {0} /\ Len(b.puts[i].value) \in Nat
  BY <1>3, <1>4, EmptySeq DEF Word, Text
<1>6. i \in 1..Len(b.puts) + 1 /\ i + 1 \in 1..Len(b.puts) + 1
  BY <1>2
<1>7. KeyOf(b, s, i) \in Nat \ {0}
  BY <1>6, GapPlaces
<1>8. LaidPut(text, b, s, i)
  BY <1>1 DEF Laid
<1>9. ValueOf(b, s, i) = KeyOf(b, s, i) + Len(b.puts[i].key) + 1
  BY DEF ValueOf
<1>10. ValueOf(b, s, i) \in Nat
  BY <1>5, <1>7, <1>9
<1> QED
  BY <1>3, <1>4, <1>5, <1>6, <1>7, <1>8, <1>9, <1>10 DEF LaidPut

\* The first character of a key.
LEMMA KeyBegins ==
    ASSUME ParserInv, NEW b, NEW s, Rereads(b, s), NEW i \in 1..Len(b.puts)
    PROVE  text[KeyOf(b, s, i)] \in KeyBegin /\ KeyOf(b, s, i) <= Len(text)
<1>1. PICK k \in Nat \ {0} : k = KeyOf(b, s, i)
  BY PutPlaces
<1>2. PICK l \in Nat \ {0} : l = Len(b.puts[i].key)
  BY PutPlaces
<1>3. Stands(text, k, b.puts[i].key) /\ Word(b.puts[i].key)
  BY <1>1, PutPlaces DEF LaidPut
<1>4. 1 \in 1..l /\ k + 1 - 1 = k
  OBVIOUS
<1>5. text[k + 1 - 1] = b.puts[i].key[1]
  BY <1>2, <1>3, <1>4 DEF Stands
<1>6. k <= Len(text)
  <2>1. /\ s[i + 1] = ValueOf(b, s, i) + Len(b.puts[i].value) /\ s[i + 1] <= Len(text) + 1
        /\ Len(b.puts[i].value) \in Nat /\ ValueOf(b, s, i) = k + l + 1
    BY <1>1, <1>2, PutPlaces
  <2>2. Len(text) \in Nat
    BY FirstPlaces
  <2>3. (k + l + 1) + Len(b.puts[i].value) <= Len(text) + 1
    BY <2>1
  <2>4. \A v, t \in Nat : (k + l + 1) + v <= t + 1 => k <= t
    OBVIOUS
  <2> QED
    BY <2>1, <2>2, <2>3, <2>4
<1> QED
  BY <1>1, <1>3, <1>4, <1>5, <1>6 DEF Word

\* The definition that is read next is one of b, or there is none.
LEMMA TurnIs ==
    ASSUME ParserInv, NEW b, NEW s, Rereads(b, s), Second(b, s)
    PROVE  Turn \in 1..Len(b.puts) + 1 /\ (Turn <= Len(b.puts) => Turn \in 1..Len(b.puts))
           /\ Len(b.puts) \in Nat
<1>1. Len(b.puts) \in Nat
  <2>1. b.puts \in Seq(Definition)
    BY DEF Rereads, Sound
  <2> QED
    BY <2>1
<1>2. Turn \in Nat \ {0} /\ Turn <= Len(b.puts) + 1
  BY FirstPlaces DEF Second
<1> QED
  BY <1>1, <1>2

\* Between the definitions: the blanks and comments of a gap.
LEMMA SecondInitial ==
    ASSUME ParserInv, NEW b, NEW s, Rereads(b, s), Second(b, s), Initial
    PROVE  errors' = 0 /\ Second(b, s)'
<1>1. PICK i : i = Turn
  OBVIOUS
<1>2. i \in 1..Len(b.puts) + 1 /\ (i <= Len(b.puts) => i \in 1..Len(b.puts)) /\ Len(b.puts) \in Nat
  BY <1>1, TurnIs
<1>3. PICK a \in Nat \ {0} : a = s[i]
  BY <1>2, GapPlaces
<1>4. PICK k \in Nat \ {0} : k = KeyOf(b, s, i)
  BY <1>2, GapPlaces
<1>5. a <= k /\ k <= Len(text) + 1 /\ Quiet(text, a, k - 1)
      /\ (i = Len(b.puts) + 1 => k = Len(text) + 1)
  BY <1>2, <1>3, <1>4, GapPlaces
<1>6. /\ label = "initial" /\ UNCHANGED <<parsing, puts>> /\ errors = 0
      /\ a <= head /\ head <= k /\ ~Noted(text, a, head - 1)
  BY <1>1, <1>3, <1>4 DEF Initial, Second, Rereads
<1>7. /\ head \in Nat \ {0} /\ Len(text) \in Nat
      /\ At(head) = IF head <= Len(text) THEN text[head] ELSE "end"
  BY FirstPlaces
<1>8. CASE head = Len(text) + 1
  <2>1. label' = "stop" /\ errors' = errors
    BY <1>7, <1>8 DEF Initial, AtEnd, Goto
  <2>2. i = Len(b.puts) + 1
    <3>1. k = Len(text) + 1
      BY <1>5, <1>6, <1>7, <1>8
    <3>2. i \notin 1..Len(b.puts)
      <4> SUFFICES ASSUME i \in 1..Len(b.puts) PROVE FALSE
        OBVIOUS
      <4>1. k <= Len(text)
        BY <1>4, KeyBegins
      <4> QED
        BY <1>7, <3>1, <4>1
    <3> QED
      BY <1>2, <3>2
  <2> QED
    BY <1>1, <1>6, <2>1, <2>2, SecondKept
<1>9. CASE head # Len(text) + 1
  <2>1. head <= Len(text) /\ ~AtEnd(head) /\ At(head) = text[head]
    BY <1>5, <1>6, <1>7, <1>9 DEF AtEnd
  <2>2. CASE head = k
    <3>1. i \in 1..Len(b.puts)
      BY <1>2, <1>5, <1>9, <2>2
    <3>2. text[head] \in KeyBegin
      BY <1>4, <2>2, <3>1, KeyBegins
    <3>3. skey' = head /\ Goto("key", head) /\ errors' = errors
      BY <2>1, <3>2 DEF Initial, KeyBegin, Space
    <3>4. head < k + Len(b.puts[i].key)
      <4>1. Len(b.puts[i].key) \in Nat \ {0}
        BY <3>1, PutPlaces
      <4> QED
        BY <2>2, <4>1
    <3> QED
      BY <1>1, <1>2, <1>4, <1>6, <2>2, <3>1, <3>3, <3>4, SecondKept DEF Goto
  <2>3. CASE head # k
    <3>1. head \in a..k - 1 /\ head < k
      BY <1>6, <1>7, <2>3
    <3>2. text[head] \in Space \cup {"#"}
      BY <1>5, <1>6, <3>1 DEF Quiet
    <3>3. Quiet(text, a, head - 1)
      <4>1. \A j \in a..head - 1 : j \in a..k - 1
        BY <1>6, <1>7
      <4> QED
        BY <1>5, <4>1 DEF Quiet
    <3>4. CASE text[head] = "#"
      <4>1. Goto("comment", head) /\ errors' = errors
        BY <2>1, <3>4 DEF Initial, KeyBegin, Space
      <4>2. Noted(text, a, head)
        BY <1>6, <1>7, <3>3, <3>4, QuietHash
      <4> QED
        BY <1>1, <1>3, <1>4, <1>6, <3>1, <4>1, <4>2, SecondKept DEF Goto
    <3>5. CASE text[head] \in Space
      <4>1. Goto("initial", head + 1) /\ errors' = errors
        BY <2>1, <3>5 DEF Initial, KeyBegin, Space
      <4>2. ~Noted(text, a, head)
        BY <1>6, <1>7, <3>3, <3>5, QuietBlank
      <4>3. (head + 1) - 1 = head /\ a <= head + 1 /\ head + 1 <= k
        BY <1>6, <1>7, <3>1
      <4> QED
        BY <1>1, <1>3, <1>4, <1>6, <4>1, <4>2, <4>3, SecondKept DEF Goto
    <3> QED
      BY <3>2, <3>4, <3>5
  <2> QED
    BY <2>2, <2>3
<1> QED
  BY <1>8, <1>9

\* A comment ends within its gap.
LEMMA SecondComment ==
    ASSUME ParserInv, NEW b, NEW s, Rereads(b, s), Second(b, s), Comment
    PROVE  errors' = 0 /\ Second(b, s)'
<1>1. PICK i : i = Turn
  OBVIOUS
<1>2. i \in 1..Len(b.puts) + 1 /\ (i <= Len(b.puts) => i \in 1..Len(b.puts)) /\ Len(b.puts) \in Nat
  BY <1>1, TurnIs
<1>3. PICK a \in Nat \ {0} : a = s[i]
  BY <1>2, GapPlaces
<1>4. PICK k \in Nat \ {0} : k = KeyOf(b, s, i)
  BY <1>2, GapPlaces
<1>5. a <= k /\ k <= Len(text) + 1 /\ Quiet(text, a, k - 1)
      /\ (i = Len(b.puts) + 1 => k = Len(text) + 1)
  BY <1>2, <1>3, <1>4, GapPlaces
<1>6. /\ label = "comment" /\ UNCHANGED <<parsing, puts>> /\ errors' = 0
      /\ a <= head /\ head < k /\ Noted(text, a, head)
  BY <1>1, <1>3, <1>4 DEF Comment, Second, Rereads
<1>7. head \in Nat \ {0} /\ Len(text) \in Nat /\ head + 1 \in Nat \ {0}
  BY FirstPlaces
<1>8. At(head + 1) = IF head + 1 <= Len(text) THEN text[head + 1] ELSE "end"
  BY <1>7, FirstPlaces
<1>9. Quiet(text, a, head)
  <2>1. \A j \in a..head : j \in a..k - 1
    BY <1>6, <1>7
  <2> QED
    BY <1>5, <2>1 DEF Quiet
<1>10. CASE head + 1 = k
  <2>1. i = Len(b.puts) + 1
    <3> SUFFICES ASSUME i \in 1..Len(b.puts) PROVE FALSE
      BY <1>2
    <3>1. ~Noted(text, a, k - 1)
      BY <1>3, <1>4, PutPlaces DEF LaidPut
    <3>2. k - 1 = head
      BY <1>7, <1>10
    <3> QED
      BY <1>6, <3>1, <3>2
  <2>2. head + 1 > Len(text)
    BY <1>5, <1>7, <1>10, <2>1
  <2>3. label' = "stop"
    BY <2>2 DEF Comment, AtEnd, Goto
  <2> QED
    BY <1>1, <1>6, <2>1, <2>3, SecondKept
<1>11. CASE head + 1 # k
  <2>1. head + 1 < k /\ head + 1 <= Len(text) /\ ~(head + 1 > Len(text))
    BY <1>5, <1>6, <1>7, <1>11
  <2>2. /\ (head + 1) - 1 = head /\ (head + 2) - 1 = head + 1 /\ a <= head + 1
        /\ head + 1 \in Nat /\ a <= head + 2 /\ head + 2 <= k
    BY <1>6, <1>7, <2>1
  <2>3. /\ text[head + 1] = "eol" => ~Noted(text, a, head + 1)
        /\ text[head + 1] # "eol" => Noted(text, a, head + 1)
    BY <1>6, <1>9, <2>2, QuietNote
  <2>4. CASE text[head + 1] = "eol"
    <3>1. Goto("initial", head + 2)
      BY <1>8, <2>1, <2>4 DEF Comment, AtEnd
    <3> QED
      BY <1>1, <1>3, <1>4, <1>6, <2>2, <2>3, <2>4, <3>1, SecondKept DEF Goto
  <2>5. CASE text[head + 1] # "eol"
    <3>1. Goto("comment", head + 1)
      BY <1>8, <2>1, <2>5 DEF Comment, AtEnd
    <3> QED
      BY <1>1, <1>3, <1>4, <1>6, <2>1, <2>2, <2>3, <2>5, <3>1, SecondKept DEF Goto
  <2> QED
    BY <2>4, <2>5
<1> QED
  BY <1>10, <1>11

\* The key is read up to its equal sign.
LEMMA SecondKey ==
    ASSUME ParserInv, NEW b, NEW s, Rereads(b, s), Second(b, s), Key
    PROVE  errors' = 0 /\ Second(b, s)'
<1>1. PICK i : i = Turn
  OBVIOUS
<1>2. /\ label = "key" /\ UNCHANGED <<parsing, puts, skey>> /\ errors = 0
      /\ i <= Len(b.puts) /\ skey = KeyOf(b, s, i) /\ head < skey + Len(b.puts[i].key)
  BY <1>1 DEF Key, KeepValue, Second, Rereads
<1>3. i \in 1..Len(b.puts)
  BY <1>1, <1>2, TurnIs
<1>4. PICK k \in Nat \ {0} : k = KeyOf(b, s, i)
  BY <1>3, PutPlaces
<1>5. PICK l \in Nat \ {0} : l = Len(b.puts[i].key)
  BY <1>3, PutPlaces
<1>6. PICK v \in Nat : v = ValueOf(b, s, i) /\ v = k + l + 1
  BY <1>3, <1>4, <1>5, PutPlaces
<1>7. /\ head \in Nat /\ head + 1 \in Nat \ {0} /\ k <= head /\ head < k + l /\ Len(text) \in Nat
  <2>1. k <= head
    BY <1>2, <1>4 DEF ParserInv, PlaceInv
  <2>2. head \in Nat \ {0} /\ Len(text) \in Nat
    BY FirstPlaces
  <2> QED
    BY <1>2, <1>4, <1>5, <2>1, <2>2
<1>8. v <= Len(text) + 1
  <2>1. /\ s[i + 1] = v + Len(b.puts[i].value) /\ s[i + 1] <= Len(text) + 1
        /\ Len(b.puts[i].value) \in Nat
    <3>1. /\ s[i + 1] = ValueOf(b, s, i) + Len(b.puts[i].value) /\ s[i + 1] <= Len(text) + 1
          /\ Len(b.puts[i].value) \in Nat
      BY <1>3, PutPlaces
    <3> QED
      BY <1>6, <3>1
  <2> QED
    BY <1>7, <2>1
<1>9. head + 1 <= Len(text) /\ ~AtEnd(head + 1) /\ At(head + 1) = text[head + 1]
  <2>1. head + 1 <= Len(text)
    BY <1>6, <1>7, <1>8
  <2>2. At(head + 1) = text[head + 1]
    BY <1>7, <2>1, FirstPlaces
  <2> QED
    BY <1>7, <2>1, <2>2 DEF AtEnd
<1>10. Stands(text, k, b.puts[i].key) /\ text[v - 1] = "=" /\ Word(b.puts[i].key)
       /\ Readable(b.puts[i].value, b.puts[i].meant)
  <2>1. /\ LaidPut(text, b, s, i) /\ Word(b.puts[i].key)
        /\ Readable(b.puts[i].value, b.puts[i].meant)
    BY <1>3, PutPlaces
  <2> QED
    BY <1>4, <1>6, <2>1 DEF LaidPut
<1>11. CASE head + 1 < k + l
  <2>1. PICK n \in 1..l : k + n - 1 = head + 1
    <3>1. head + 2 - k \in 1..l /\ k + (head + 2 - k) - 1 = head + 1
      BY <1>7, <1>11
    <3> QED
      BY <3>1
  <2>2. text[head + 1] = b.puts[i].key[n] /\ b.puts[i].key[n] \in KeyChar
    BY <1>5, <1>10, <2>1 DEF Stands, Word
  <2>3. Goto("key", head + 1) /\ errors' = errors
    <3>1. At(head + 1) \in KeyChar
      BY <1>9, <2>2
    <3>2. "=" \notin KeyChar
      BY DEF KeyChar, KeyBegin
    <3> QED
      BY <1>9, <3>1, <3>2 DEF Key
  <2> QED
    BY <1>1, <1>2, <1>4, <1>5, <1>11, <2>3, SecondKept DEF Goto
<1>12. CASE ~(head + 1 < k + l)
  <2>1. head + 1 = k + l /\ head + 1 = v - 1 /\ head + 2 = v
    BY <1>6, <1>7, <1>12
  <2>2. /\ lkey' = head + 1 - skey /\ data' = <<>> /\ overflow' = FALSE /\ whole' = <<>>
        /\ q' = NoQuote /\ Goto("value", head + 2) /\ errors' = errors
    <3>1. At(head + 1) = "="
      BY <1>9, <1>10, <2>1
    <3>2. "=" \notin KeyChar
      BY DEF KeyChar, KeyBegin
    <3> QED
      BY <1>9, <3>1, <3>2 DEF Key
  <2>3. lkey' = l /\ skey' = skey
    <3>1. \A h \in Nat : h + 1 = k + l => h + 1 - k = l
      OBVIOUS
    <3>2. head + 1 - k = l
      BY <1>7, <2>1, <3>1
    <3>3. skey' = skey /\ skey = k
      BY <1>2, <1>4
    <3>4. lkey' = head + 1 - skey
      BY <2>2
    <3> QED
      BY <3>2, <3>3, <3>4
  <2>4. PICK C, m : Reading(b.puts[i].value, b.puts[i].meant, C, m)
    BY <1>10 DEF Readable
  <2>5. Midway(b.puts[i], C, m, <<>>, <<>>) /\ Len(<<>>) = 0
    BY <2>4 DEF Midway, Reading
  <2>6. head' = v + Len(data')
    BY <2>1, <2>2 DEF Goto
  <2>7. \E D, n : Midway(b.puts[i], D, n, data', whole')
    BY <2>2, <2>5
  <2> QED
    BY <1>1, <1>2, <1>5, <1>6, <2>2, <2>3, <2>6, <2>7, SecondKept DEF Goto
<1> QED
  BY <1>11, <1>12

\* What fits is pushed.
LEMMA PushFits ==
    ASSUME RequestInv, DataInv, NEW chars \in Text, Push(chars), Len(data) + Len(chars) <= DataSize
    PROVE  data' = data \o chars /\ overflow' = overflow
<1>1. PICK all : all = data \o chars
  OBVIOUS
<1>2. all \in Text /\ Len(all) = Len(data) + Len(chars) /\ Len(all) \in Nat
  <2>1. data \in Text
    BY DEF DataInv
  <2>2. /\ data \o chars \in Text /\ Len(data \o chars) = Len(data) + Len(chars)
        /\ Len(data) \in Nat /\ Len(chars) \in Nat
    BY <2>1, TextConcat
  <2> QED
    BY <1>1, <2>2
<1>3. DataSize \in Nat /\ Len(all) <= DataSize /\ ~(Len(all) > DataSize)
  BY <1>2 DEF RequestInv
<1>4. SubSeq(all, 1, IF Len(all) < DataSize THEN Len(all) ELSE DataSize) = all
  <2>1. (IF Len(all) < DataSize THEN Len(all) ELSE DataSize) = Len(all)
    BY <1>2, <1>3
  <2>2. SubSeq(all, 1, Len(all)) = all
    BY <1>2 DEF Text
  <2> QED
    BY <2>1, <2>2
<1>5. data' = all /\ overflow' = (overflow \/ Len(all) > DataSize)
  BY <1>1, <1>4 DEF Push
<1>6. overflow' = overflow
  BY <1>3, <1>5 DEF DataInv
<1> QED
  BY <1>1, <1>5, <1>6

\* The next piece.
LEMMA MidwayMore ==
    ASSUME NEW d, d.value \in Text, NEW C, NEW m, NEW v \in Text, NEW a, Midway(d, C, m, v, a),
           NEW l \in C, Len(v) < l, NEW chars \in Text, Len(v) + Len(chars) = l,
           \A x \in 1..Len(chars) : chars[x] = d.value[Len(v) + x]
    PROVE  Midway(d, C, m, v \o chars, m[l]) /\ Len(v \o chars) = l
<1>1. /\ v \o chars \in Text /\ Len(v) \in Nat /\ Len(chars) \in Nat
      /\ Len(v \o chars) = Len(v) + Len(chars)
      /\ \A i \in 1..Len(v) : (v \o chars)[i] = v[i]
      /\ \A i \in 1..Len(chars) : (v \o chars)[Len(v) + i] = chars[i]
  BY TextConcat
<1>2. ASSUME NEW k \in 1..l PROVE (v \o chars)[k] = d.value[k]
  <2>1. CASE k <= Len(v)
    <3>1. k \in 1..Len(v)
      BY <1>1, <2>1
    <3> QED
      BY <1>1, <3>1 DEF Midway
  <2>2. CASE ~(k <= Len(v))
    <3>1. PICK x \in 1..Len(chars) : k = Len(v) + x
      <4>1. k - Len(v) \in 1..Len(chars) /\ k = Len(v) + (k - Len(v))
        BY <1>1, <2>2
      <4> QED
        BY <4>1
    <3> QED
      BY <1>1, <3>1
  <2> QED
    BY <2>1, <2>2
<1> QED
  BY <1>1, <1>2 DEF Midway

\* The piece that is read next, and ends at l.
NextPiece(v, C, m, l) ==
    /\ l \in C /\ Len(data) < l /\ l <= Len(v) /\ Piece(v, Len(data), l, whole, m[l])
    /\ \A x \in 0..l - Len(data) - 1 : At(head + x) = v[Len(data) + x + 1] /\ ~AtEnd(head + x)

\* In a value there is another piece, or the blank or the end that follows it.
LEMMA SecondPiece ==
    ASSUME ParserInv, NEW b, NEW s, Rereads(b, s), Second(b, s), label = "value"
    PROVE  \E C, m : /\ Midway(b.puts[Turn], C, m, data, whole)
                     /\ \/ /\ Len(data) = Len(b.puts[Turn].value)
                           /\ At(head) \in Space \cup {"end"} /\ head = s[Turn + 1]
                        \/ \E l : NextPiece(b.puts[Turn].value, C, m, l)
<1>1. PICK i : i = Turn
  OBVIOUS
<1>2. /\ i <= Len(b.puts) /\ head = ValueOf(b, s, i) + Len(data)
      /\ \E C, m : Midway(b.puts[i], C, m, data, whole)
  BY <1>1 DEF Second
<1>3. i \in 1..Len(b.puts)
  BY <1>1, <1>2, TurnIs
<1>4. PICK v \in Text : v = b.puts[i].value
  BY <1>3, PutPlaces
<1>5. PICK C, m : Midway(b.puts[i], C, m, data, whole)
  BY <1>2
<1>6. PICK o \in Nat : o = ValueOf(b, s, i)
  BY <1>3, PutPlaces
<1>7. PICK k \in Nat : k = Len(data)
  <2>1. data \in Text
    BY DEF ParserInv, DataInv
  <2> QED
    BY <2>1 DEF Text
<1>8. /\ s[i + 1] = o + Len(v) /\ s[i + 1] <= Len(text) + 1 /\ Len(v) \in Nat
      /\ LaidPut(text, b, s, i)
  BY <1>3, <1>4, <1>6, PutPlaces
<1>9. Stands(text, o, v) /\ (s[i + 1] <= Len(text) => text[s[i + 1]] \in Space)
  BY <1>4, <1>6, <1>8 DEF LaidPut
<1>10. /\ C \subseteq 0..Len(v) /\ k \in C /\ whole = m[k]
       /\ \A j \in C : j < Len(v) => \E l \in C : j < l /\ Piece(v, j, l, m[j], m[l])
  BY <1>4, <1>5, <1>7 DEF Midway, Reading
<1>11. head = o + k /\ k <= Len(v) /\ head \in Nat \ {0} /\ Len(text) \in Nat
  <2>1. head \in Nat \ {0} /\ Len(text) \in Nat
    BY FirstPlaces
  <2> QED
    BY <1>2, <1>6, <1>7, <1>8, <1>10, <2>1
<1>12. CASE k = Len(v)
  <2>1. head = s[i + 1]
    BY <1>8, <1>11, <1>12
  <2>2. At(head) = IF head <= Len(text) THEN text[head] ELSE "end"
    BY FirstPlaces
  <2>3. At(head) \in Space \cup {"end"}
    BY <1>9, <2>1, <2>2
  <2> QED
    BY <1>1, <1>4, <1>5, <1>7, <1>12, <2>1, <2>3
<1>13. CASE k # Len(v)
  <2>1. PICK l \in C : k < l /\ Piece(v, k, l, whole, m[l])
    BY <1>8, <1>10, <1>11, <1>13
  <2>2. l \in Nat /\ l <= Len(v)
    BY <1>8, <1>10
  <2>3. ASSUME NEW x \in 0..l - k - 1 PROVE At(head + x) = v[k + x + 1] /\ ~AtEnd(head + x)
    <3>1. k + x + 1 \in 1..Len(v) /\ o + (k + x + 1) - 1 = head + x /\ head + x \in Nat \ {0}
      BY <1>8, <1>11, <2>2
    <3>2. text[head + x] = v[k + x + 1]
      BY <1>9, <3>1 DEF Stands
    <3>3. head + x <= Len(text)
      <4>1. head + x < o + Len(v)
        BY <1>8, <1>11, <2>2
      <4> QED
        BY <1>8, <1>11, <3>1, <4>1
    <3>4. At(head + x) = text[head + x]
      BY <3>1, <3>3, FirstPlaces
    <3> QED
      BY <1>11, <3>1, <3>2, <3>3, <3>4 DEF AtEnd
  <2>4. NextPiece(v, C, m, l)
    BY <1>7, <2>1, <2>2, <2>3 DEF NextPiece
  <2> QED
    BY <1>1, <1>4, <1>5, <2>4
<1> QED
  BY <1>12, <1>13

\* A piece that is read whole.
LEMMA SecondAdds ==
    ASSUME ParserInv, NEW b, NEW s, Rereads(b, s), Second(b, s), label' = "value",
           UNCHANGED <<parsing, puts, q, skey, lkey>>,
           Turn <= Len(b.puts), skey = KeyOf(b, s, Turn), lkey = Len(b.puts[Turn].key),
           q = NoQuote, ~overflow,
           NEW C, NEW m, Midway(b.puts[Turn], C, m, data, whole),
           NEW l \in C, Len(data) < l, NEW chars \in Text, Len(data) + Len(chars) = l,
           \A x \in 1..Len(chars) : chars[x] = b.puts[Turn].value[Len(data) + x],
           Push(chars), whole' = m[l], head' = ValueOf(b, s, Turn) + l
    PROVE  Second(b, s)'
<1>1. PICK i : i = Turn
  OBVIOUS
<1>2. i \in 1..Len(b.puts)
  BY <1>1, TurnIs
<1>3. PICK v \in Text : v = b.puts[i].value /\ Len(v) \in Nat /\ Len(v) <= DataSize
  BY <1>2, PutPlaces
<1>4. data \in Text /\ RequestInv /\ DataInv
  BY DEF ParserInv, DataInv
<1>5. l \in 0..Len(v)
  BY <1>1, <1>3 DEF Midway, Reading
<1>6. Len(data) + Len(chars) <= DataSize
  BY <1>3, <1>4, <1>5 DEF RequestInv
<1>7. data' = data \o chars /\ overflow' = overflow
  BY <1>4, <1>6, PushFits
<1>8. Midway(b.puts[i], C, m, data \o chars, m[l]) /\ Len(data \o chars) = l
  BY <1>1, <1>3, <1>4, MidwayMore
<1>9. Midway(b.puts[i], C, m, data', whole') /\ Len(data') = l
  BY <1>7, <1>8
<1>10. head' = ValueOf(b, s, i) + Len(data') /\ skey' = skey /\ lkey' = lkey /\ q' = q
       /\ ~overflow'
  BY <1>1, <1>7, <1>9
<1> QED
  BY <1>1, <1>9, <1>10, SecondKept

\* Where a value is read.
LEMMA SecondMiddle ==
    ASSUME ParserInv, NEW b, NEW s, Rereads(b, s), Second(b, s), label \in {"value", "variable"}
    PROVE  /\ Turn <= Len(b.puts) /\ Turn \in 1..Len(b.puts)
           /\ skey = KeyOf(b, s, Turn) /\ lkey = Len(b.puts[Turn].key)
           /\ q = NoQuote /\ ~overflow /\ errors = 0
           /\ b.puts[Turn].value \in Text /\ Len(b.puts[Turn].value) \in Nat
           /\ ValueOf(b, s, Turn) \in Nat
           /\ data \in Text /\ Len(data) \in Nat /\ whole \in Text
           /\ label = "value" => head = ValueOf(b, s, Turn) + Len(data)
<1>1. /\ Turn <= Len(b.puts) /\ skey = KeyOf(b, s, Turn) /\ lkey = Len(b.puts[Turn].key)
      /\ q = NoQuote /\ ~overflow /\ (label = "value" => head = ValueOf(b, s, Turn) + Len(data))
  BY DEF Second
<1>2. Turn \in 1..Len(b.puts)
  BY <1>1, TurnIs
<1>3. /\ b.puts[Turn].value \in Text /\ Len(b.puts[Turn].value) \in Nat
      /\ ValueOf(b, s, Turn) \in Nat
  BY <1>2, PutPlaces
<1>4. data \in Text /\ whole \in Text
  BY DEF ParserInv, DataInv
<1>5. Len(data) \in Nat
  BY <1>4 DEF Text
<1>6. errors = 0
  BY DEF Rereads
<1> QED
  BY <1>1, <1>2, <1>3, <1>4, <1>5, <1>6

\* In a value, what the first character of a piece says of it.
LEMMA PieceHead ==
    ASSUME NEW v, NEW C, NEW m, NEW l \in Nat, Len(data) \in Nat, head \in Nat,
           NextPiece(v, C, m, l)
    PROVE  /\ At(head) = v[Len(data) + 1] /\ ~AtEnd(head)
           /\ Plain(v, Len(data), l, whole, m[l]) => At(head) \notin Special \cup Space
           /\ Escaped(v, Len(data), l, whole, m[l]) => At(head) = "\\"
           /\ Named(v, Len(data), l, whole, m[l]) => At(head) = "$"
<1>1. 0 \in 0..l - Len(data) - 1 /\ head + 0 = head /\ Len(data) + 0 + 1 = Len(data) + 1
  BY DEF NextPiece
<1>2. At(head + 0) = v[Len(data) + 0 + 1] /\ ~AtEnd(head + 0)
  BY <1>1 DEF NextPiece
<1>3. At(head) = v[Len(data) + 1] /\ ~AtEnd(head)
  BY <1>1, <1>2
<1>4. Plain(v, Len(data), l, whole, m[l]) => At(head) \notin Special \cup Space
  BY <1>3 DEF Plain
<1>5. Escaped(v, Len(data), l, whole, m[l]) => At(head) = "\\"
  BY <1>3 DEF Escaped
<1>6. Named(v, Len(data), l, whole, m[l]) => At(head) = "$"
  BY <1>3 DEF Named
<1> QED
  BY <1>3, <1>4, <1>5, <1>6

\* A step on a character that is neither a blank nor the end reads a piece.
LEMMA SecondReads ==
    ASSUME ParserInv, NEW b, NEW s, Rereads(b, s), Second(b, s), label = "value",
           At(head) \notin Space \cup {"end"}
    PROVE  \E C, m : \E l \in Nat : /\ Midway(b.puts[Turn], C, m, data, whole)
                                    /\ NextPiece(b.puts[Turn].value, C, m, l)
                                    /\ l \in C
<1>1. PICK C, m : /\ Midway(b.puts[Turn], C, m, data, whole)
                  /\ \E l : NextPiece(b.puts[Turn].value, C, m, l)
  BY SecondPiece
<1>2. PICK l : NextPiece(b.puts[Turn].value, C, m, l)
  BY <1>1
<1>3. l \in C /\ C \subseteq 0..Len(b.puts[Turn].value)
  BY <1>1, <1>2 DEF NextPiece, Midway, Reading
<1>4. l \in Nat
  BY <1>3
<1> QED
  BY <1>1, <1>2, <1>3, <1>4

\* A character that is kept is a piece that was printed as it is.
LEMMA SecondLiteral ==
    ASSUME ParserInv, NEW b, NEW s, Rereads(b, s), Second(b, s), Literal
    PROVE  errors' = 0 /\ Second(b, s)'
<1>1. /\ label = "value" /\ label' = "value" /\ head' = head + 1
      /\ UNCHANGED <<parsing, puts, q, skey, lkey, errors>> /\ ~AtEnd(head)
  BY DEF Literal, Goto
<1>2. /\ Turn <= Len(b.puts) /\ skey = KeyOf(b, s, Turn) /\ lkey = Len(b.puts[Turn].key)
      /\ q = NoQuote /\ ~overflow /\ errors = 0 /\ data \in Text /\ whole \in Text
      /\ Len(data) \in Nat /\ ValueOf(b, s, Turn) \in Nat /\ head = ValueOf(b, s, Turn) + Len(data)
  BY <1>1, SecondMiddle
<1>3. At(head) \notin Special \cup Space /\ Add(At(head))
  BY <1>2 DEF Literal, NoQuote
<1>4. At(head) \in Character
  <2>1. head \in Nat \ {0} /\ text \in Text /\ Len(text) \in Nat
    BY FirstPlaces
  <2> QED
    BY <1>1, <2>1 DEF At, AtEnd, Text, Character
<1>5. At(head) \notin Space \cup {"end"}
  <2>1. "end" \notin Character
    BY DEF Character, KeyChar, KeyBegin, Space, Special, Others, Open, Close
  <2> QED
    BY <1>3, <1>4, <2>1
<1>6. PICK C, m : \E l \in Nat : /\ Midway(b.puts[Turn], C, m, data, whole)
                                 /\ NextPiece(b.puts[Turn].value, C, m, l) /\ l \in C
  BY <1>1, <1>5, SecondReads
<1>7. PICK l \in C : l \in Nat /\ Midway(b.puts[Turn], C, m, data, whole)
                     /\ NextPiece(b.puts[Turn].value, C, m, l)
  BY <1>6
<1>8. PICK v : v = b.puts[Turn].value
  OBVIOUS
<1>9. Plain(v, Len(data), l, whole, m[l]) /\ At(head) = v[Len(data) + 1]
  <2>1. head \in Nat
    BY FirstPlaces
  <2>2. /\ At(head) = v[Len(data) + 1]
        /\ Escaped(v, Len(data), l, whole, m[l]) => At(head) = "\\"
        /\ Named(v, Len(data), l, whole, m[l]) => At(head) = "$"
    BY <1>2, <1>7, <1>8, <2>1, PieceHead
  <2>3. "\\" \in Special /\ "$" \in Special
    BY DEF Special
  <2> QED
    BY <1>3, <1>7, <1>8, <2>2, <2>3 DEF NextPiece, Piece
<1>10. l = Len(data) + 1 /\ Len(data) < l /\ m[l] = whole \o <<At(head)>>
  BY <1>2, <1>9 DEF Plain
<1>11. PICK chars : chars = <<At(head)>>
  OBVIOUS
<1>12. chars \in Text /\ Len(chars) = 1 /\ chars[1] = At(head)
  BY <1>4, <1>11, TextsAre
<1>13. Push(chars) /\ whole' = m[l]
  <2>1. Append(whole, At(head)) = whole \o <<At(head)>>
    BY <1>2, <1>4 DEF Text
  <2> QED
    BY <1>3, <1>10, <1>11, <2>1 DEF Add
<1>14. /\ Len(data) + Len(chars) = l /\ head' = ValueOf(b, s, Turn) + l
       /\ \A x \in 1..Len(chars) : chars[x] = b.puts[Turn].value[Len(data) + x]
  BY <1>1, <1>2, <1>8, <1>9, <1>10, <1>12
<1>15. Second(b, s)'
  BY <1>1, <1>2, <1>7, <1>10, <1>12, <1>13, <1>14, SecondAdds
<1> QED
  BY <1>1, <1>2, <1>15

\* A backslash is one that the printer put.
LEMMA SecondEscape ==
    ASSUME ParserInv, NEW b, NEW s, Rereads(b, s), Second(b, s), Escape
    PROVE  errors' = 0 /\ Second(b, s)'
<1>1. /\ label = "value" /\ At(head) = "\\" /\ UNCHANGED <<parsing, puts, q, skey, lkey>>
  BY DEF Escape
<1>2. /\ Turn <= Len(b.puts) /\ skey = KeyOf(b, s, Turn) /\ lkey = Len(b.puts[Turn].key)
      /\ q = NoQuote /\ ~overflow /\ errors = 0 /\ data \in Text /\ whole \in Text
      /\ Len(data) \in Nat /\ ValueOf(b, s, Turn) \in Nat /\ head = ValueOf(b, s, Turn) + Len(data)
  BY <1>1, SecondMiddle
<1>3. At(head) \notin Space \cup {"end"} /\ At(head) \in Special /\ At(head) # "$"
  BY <1>1 DEF Space, Special
<1>4. PICK C, m : \E l \in Nat : /\ Midway(b.puts[Turn], C, m, data, whole)
                                 /\ NextPiece(b.puts[Turn].value, C, m, l) /\ l \in C
  BY <1>1, <1>3, SecondReads
<1>5. PICK l \in C : l \in Nat /\ Midway(b.puts[Turn], C, m, data, whole)
                     /\ NextPiece(b.puts[Turn].value, C, m, l)
  BY <1>4
<1>6. PICK v : v = b.puts[Turn].value
  OBVIOUS
<1>7. Escaped(v, Len(data), l, whole, m[l]) /\ At(head) = v[Len(data) + 1]
  <2>1. head \in Nat
    BY FirstPlaces
  <2>2. /\ At(head) = v[Len(data) + 1]
        /\ Plain(v, Len(data), l, whole, m[l]) => At(head) \notin Special \cup Space
        /\ Named(v, Len(data), l, whole, m[l]) => At(head) = "$"
    BY <1>2, <1>5, <1>6, <2>1, PieceHead
  <2> QED
    BY <1>3, <1>5, <1>6, <2>2 DEF NextPiece, Piece
<1>8. l = Len(data) + 2 /\ Len(data) < l /\ m[l] = whole \o <<v[l]>>
  BY <1>2, <1>7 DEF Escaped
<1>9. At(head + 1) = v[l] /\ ~AtEnd(head + 1)
  <2>1. 1 \in 0..l - Len(data) - 1 /\ Len(data) + 1 + 1 = l
    BY <1>2, <1>8
  <2>2. At(head + 1) = v[Len(data) + 1 + 1] /\ ~AtEnd(head + 1)
    BY <1>5, <1>6, <2>1 DEF NextPiece
  <2> QED
    BY <2>1, <2>2
<1>10. PICK c : c = At(head + 1)
  OBVIOUS
<1>11. /\ AddEscapable(c) /\ label' = "value" /\ head' = head + 2 /\ errors' = errors
  BY <1>9, <1>10 DEF Escape, Goto
<1>12. c \in Character
  <2>1. head + 1 \in Nat \ {0} /\ text \in Text /\ Len(text) \in Nat
    BY FirstPlaces
  <2> QED
    BY <1>9, <1>10, <2>1 DEF At, AtEnd, Text, Character
<1>13. PICK chars : chars = <<"\\", c>>
  OBVIOUS
<1>14. chars \in Text /\ Len(chars) = 2 /\ chars[1] = "\\" /\ chars[2] = c
  <2>1. "\\" \in Character
    BY DEF Character, Special
  <2> QED
    BY <1>12, <1>13, <2>1, TextsAre
<1>15. Push(chars) /\ whole' = m[l]
  <2>1. ShouldEscape
    BY DEF Rereads
  <2>2. Push(<<"\\", c>>) /\ whole' = Append(whole, c)
    BY <1>11, <2>1 DEF AddEscapable
  <2>3. Append(whole, c) = whole \o <<c>>
    BY <1>2, <1>12 DEF Text
  <2> QED
    BY <1>8, <1>9, <1>10, <1>13, <2>2, <2>3
<1>16. Len(data) + Len(chars) = l /\ head' = ValueOf(b, s, Turn) + l
  BY <1>2, <1>8, <1>11, <1>14
<1>17. \A x \in 1..Len(chars) : chars[x] = v[Len(data) + x]
  <2>1. chars[1] = v[Len(data) + 1] /\ chars[2] = v[Len(data) + 2]
    BY <1>1, <1>7, <1>8, <1>9, <1>10, <1>14
  <2>2. \A x \in 1..2 : x = 1 \/ x = 2
    OBVIOUS
  <2> QED
    BY <1>14, <2>1, <2>2
<1>18. Second(b, s)'
  BY <1>1, <1>2, <1>5, <1>6, <1>8, <1>11, <1>14, <1>15, <1>16, <1>17, SecondAdds
<1> QED
  BY <1>2, <1>11, <1>18

\* Nothing that was printed escaped begins a quote.
LEMMA SecondQuote ==
    ASSUME ParserInv, NEW b, NEW s, Rereads(b, s), Second(b, s), Quote
    PROVE  FALSE
<1>1. /\ label = "value" /\ At(head) \in Special /\ At(head) # "\\" /\ At(head) # "$"
      /\ At(head) \notin Space \cup {"end"}
  BY DEF Quote, Special, Space
<1>2. PICK C, m : \E l \in Nat : /\ Midway(b.puts[Turn], C, m, data, whole)
                                 /\ NextPiece(b.puts[Turn].value, C, m, l) /\ l \in C
  BY <1>1, SecondReads
<1>3. PICK l \in C : l \in Nat /\ NextPiece(b.puts[Turn].value, C, m, l)
  BY <1>2
<1>4. PICK v : v = b.puts[Turn].value
  OBVIOUS
<1>5. head \in Nat /\ Len(data) \in Nat
  BY <1>1, FirstPlaces, SecondMiddle
<1>6. /\ Plain(v, Len(data), l, whole, m[l]) => At(head) \notin Special \cup Space
      /\ Escaped(v, Len(data), l, whole, m[l]) => At(head) = "\\"
      /\ Named(v, Len(data), l, whole, m[l]) => At(head) = "$"
  BY <1>3, <1>4, <1>5, PieceHead
<1> QED
  BY <1>1, <1>3, <1>4, <1>6 DEF NextPiece, Piece

\* A name that is being read.
LEMMA SecondName ==
    ASSUME NEW b, NEW s, Second(b, s), UNCHANGED <<parsing, puts>>, label' = "variable",
           Turn <= Len(b.puts), skey' = KeyOf(b, s, Turn), lkey' = Len(b.puts[Turn].key),
           q' = NoQuote, ~overflow', NEW C, NEW m, NEW l \in C,
           Midway(b.puts[Turn], C, m, data', whole'),
           Named(b.puts[Turn].value, Len(data'), l, m[Len(data')], m[l]),
           svar' = ValueOf(b, s, Turn) + Len(data') + 2,
           head' + 2 <= ValueOf(b, s, Turn) + l, brace'
    PROVE  Second(b, s)'
<1>1. text' = text /\ puts' = puts /\ Turn' = Turn
  BY DEF text, Turn
<1>2. InVariable(b, s, Turn, C, m, l)'
  BY <1>1 DEF InVariable
<1>3. \E D, n, j : InVariable(b, s, Turn, D, n, j)'
  BY <1>2
<1> QED
  BY <1>1, <1>3 DEF Second

\* A dollar that is not escaped begins a variable in braces.
LEMMA SecondDollar ==
    ASSUME ParserInv, NEW b, NEW s, Rereads(b, s), Second(b, s), Dollar
    PROVE  errors' = 0 /\ Second(b, s)'
<1>1. /\ label = "value" /\ At(head) = "$"
      /\ UNCHANGED <<parsing, puts, q, skey, lkey, data, overflow, whole>>
  BY DEF Dollar
<1>2. /\ Turn <= Len(b.puts) /\ skey = KeyOf(b, s, Turn) /\ lkey = Len(b.puts[Turn].key)
      /\ q = NoQuote /\ ~overflow /\ errors = 0
      /\ Len(data) \in Nat /\ ValueOf(b, s, Turn) \in Nat /\ head = ValueOf(b, s, Turn) + Len(data)
  BY <1>1, SecondMiddle
<1>3. At(head) \notin Space \cup {"end"} /\ At(head) \in Special /\ At(head) # "\\"
  BY <1>1 DEF Space, Special
<1>4. PICK C, m : \E l \in Nat : /\ Midway(b.puts[Turn], C, m, data, whole)
                                 /\ NextPiece(b.puts[Turn].value, C, m, l) /\ l \in C
  BY <1>1, <1>3, SecondReads
<1>5. PICK l \in C : l \in Nat /\ Midway(b.puts[Turn], C, m, data, whole)
                     /\ NextPiece(b.puts[Turn].value, C, m, l)
  BY <1>4
<1>6. PICK v : v = b.puts[Turn].value
  OBVIOUS
<1>7. Named(v, Len(data), l, whole, m[l])
  <2>1. head \in Nat
    BY FirstPlaces
  <2>2. /\ Plain(v, Len(data), l, whole, m[l]) => At(head) \notin Special \cup Space
        /\ Escaped(v, Len(data), l, whole, m[l]) => At(head) = "\\"
    BY <1>2, <1>5, <1>6, <2>1, PieceHead
  <2> QED
    BY <1>3, <1>5, <1>6, <2>2 DEF NextPiece, Piece
<1>8. Len(data) + 4 <= l /\ v[Len(data) + 2] = Open /\ v[Len(data) + 3] \in KeyBegin
  BY <1>7 DEF Named
<1>9. At(head + 1) = Open /\ ~AtEnd(head + 1)
  <2>1. 1 \in 0..l - Len(data) - 1 /\ Len(data) + 1 + 1 = Len(data) + 2
    BY <1>2, <1>5, <1>8
  <2>2. At(head + 1) = v[Len(data) + 1 + 1] /\ ~AtEnd(head + 1)
    BY <1>5, <1>6, <2>1 DEF NextPiece
  <2> QED
    BY <1>8, <2>1, <2>2
<1>10. At(head + 2) \in KeyBegin /\ ~AtEnd(head + 2)
  <2>1. 2 \in 0..l - Len(data) - 1 /\ Len(data) + 2 + 1 = Len(data) + 3
    BY <1>2, <1>5, <1>8
  <2>2. At(head + 2) = v[Len(data) + 2 + 1] /\ ~AtEnd(head + 2)
    BY <1>5, <1>6, <2>1 DEF NextPiece
  <2> QED
    BY <1>8, <2>1, <2>2
<1>11. /\ brace' /\ svar' = head + 2 /\ label' = "variable" /\ head' = head + 2
       /\ errors' = errors
  BY <1>9, <1>10 DEF Dollar, Goto
<1>12. whole = m[Len(data)]
  BY <1>5 DEF Midway
<1>13. /\ data' = data /\ whole' = whole /\ skey' = skey /\ lkey' = lkey /\ q' = q
       /\ overflow' = overflow
  BY <1>1
<1>14. /\ svar' = ValueOf(b, s, Turn) + Len(data) + 2
       /\ head' + 2 <= ValueOf(b, s, Turn) + l
  BY <1>2, <1>5, <1>8, <1>11
<1>15. /\ Midway(b.puts[Turn], C, m, data', whole')
       /\ Named(b.puts[Turn].value, Len(data'), l, m[Len(data')], m[l])
       /\ svar' = ValueOf(b, s, Turn) + Len(data') + 2
  BY <1>5, <1>6, <1>7, <1>12, <1>13, <1>14
<1>16. /\ skey' = KeyOf(b, s, Turn) /\ lkey' = Len(b.puts[Turn].key) /\ q' = NoQuote
       /\ ~overflow' /\ UNCHANGED <<parsing, puts>>
  BY <1>1, <1>2
<1>17. Second(b, s)'
  BY <1>2, <1>5, <1>11, <1>14, <1>15, <1>16, SecondName
<1> QED
  BY <1>2, <1>11, <1>17

\* Where the name of a variable is read.
LEMMA NamePlaces ==
    ASSUME ParserInv, NEW b, NEW s, Rereads(b, s), Second(b, s), label = "variable"
    PROVE  \E C, m : \E l \in C :
              /\ l \in Nat /\ Midway(b.puts[Turn], C, m, data, whole)
              /\ Named(b.puts[Turn].value, Len(data), l, whole, m[l])
              /\ l <= Len(b.puts[Turn].value) /\ Len(data) + 4 <= l
              /\ svar = ValueOf(b, s, Turn) + Len(data) + 2 /\ svar <= head
              /\ head + 2 <= ValueOf(b, s, Turn) + l /\ brace
              /\ \A x \in 1..l : text[ValueOf(b, s, Turn) + x - 1] = b.puts[Turn].value[x]
              /\ \A x \in 1..l : At(ValueOf(b, s, Turn) + x - 1) = b.puts[Turn].value[x]
<1>1. PICK i : i = Turn
  OBVIOUS
<1>2. PICK C, m, l : InVariable(b, s, i, C, m, l)
  BY <1>1 DEF Second
<1>3. i \in 1..Len(b.puts) /\ Len(data) \in Nat
  BY <1>1, SecondMiddle
<1>4. PICK v \in Text : v = b.puts[i].value /\ Len(v) \in Nat
  BY <1>3, PutPlaces
<1>5. PICK o \in Nat : o = ValueOf(b, s, i)
  BY <1>3, PutPlaces
<1>6. Stands(text, o, v) /\ o + Len(v) <= Len(text) + 1 /\ o > 1
  <2>1. /\ LaidPut(text, b, s, i) /\ s[i + 1] <= Len(text) + 1
        /\ s[i + 1] = ValueOf(b, s, i) + Len(b.puts[i].value)
    BY <1>3, PutPlaces
  <2>2. /\ KeyOf(b, s, i) \in Nat \ {0} /\ Len(b.puts[i].key) \in Nat \ {0}
        /\ ValueOf(b, s, i) = KeyOf(b, s, i) + Len(b.puts[i].key) + 1
    BY <1>3, PutPlaces
  <2>3. o > 1
    BY <1>5, <2>2
  <2> QED
    BY <1>4, <1>5, <2>1, <2>3 DEF LaidPut
<1>7. /\ l \in C /\ C \subseteq 0..Len(v) /\ Midway(b.puts[i], C, m, data, whole)
      /\ whole = m[Len(data)]
  BY <1>2, <1>4 DEF InVariable, Midway, Reading
<1>8. /\ l \in Nat /\ l <= Len(v)
  BY <1>4, <1>7
<1>9. /\ Named(v, Len(data), l, whole, m[l]) /\ svar = o + Len(data) + 2
      /\ head + 2 <= o + l /\ brace
  BY <1>2, <1>4, <1>5, <1>7 DEF InVariable
<1>10. Len(data) + 4 <= l
  BY <1>9 DEF Named
<1>11. svar <= head
  BY DEF ParserInv, PlaceInv
<1>12. ASSUME NEW x \in 1..l PROVE text[o + x - 1] = v[x] /\ At(o + x - 1) = v[x]
  <2>1. x \in 1..Len(v) /\ o + x - 1 \in Nat \ {0}
    BY <1>4, <1>6, <1>8
  <2>2. text[o + x - 1] = v[x]
    BY <1>6, <2>1 DEF Stands
  <2>3. Len(text) \in Nat
    BY FirstPlaces
  <2>4. o + x - 1 <= Len(text)
    BY <1>4, <1>6, <1>8, <2>3
  <2>5. At(o + x - 1) = text[o + x - 1]
    BY <2>1, <2>4, FirstPlaces
  <2> QED
    BY <2>2, <2>5
<1> QED
  BY <1>1, <1>4, <1>5, <1>7, <1>8, <1>9, <1>10, <1>11, <1>12

\* The name ends at its brace, and what get answers is what was printed.
LEMMA SecondVariable ==
    ASSUME ParserInv, NEW b, NEW s, Rereads(b, s), Second(b, s), Variable
    PROVE  errors' = 0 /\ Second(b, s)'
<1>1. label = "variable" /\ UNCHANGED <<parsing, q, brace, skey, lkey, svar, puts>>
  BY DEF Variable
<1>2. /\ Turn <= Len(b.puts) /\ skey = KeyOf(b, s, Turn) /\ lkey = Len(b.puts[Turn].key)
      /\ q = NoQuote /\ ~overflow /\ errors = 0 /\ data \in Text /\ whole \in Text
      /\ Turn \in 1..Len(b.puts)
  BY <1>1, SecondMiddle
<1>3. PICK o \in Nat : o = ValueOf(b, s, Turn)
  BY <1>1, SecondMiddle
<1>4. PICK v \in Text : v = b.puts[Turn].value
  BY <1>1, SecondMiddle
<1>5. PICK k \in Nat : k = Len(data)
  BY <1>1, SecondMiddle
<1>6. PICK C, m : \E l \in C :
              /\ l \in Nat /\ Midway(b.puts[Turn], C, m, data, whole)
              /\ Named(b.puts[Turn].value, Len(data), l, whole, m[l])
              /\ l <= Len(b.puts[Turn].value) /\ Len(data) + 4 <= l
              /\ svar = ValueOf(b, s, Turn) + Len(data) + 2 /\ svar <= head
              /\ head + 2 <= ValueOf(b, s, Turn) + l /\ brace
              /\ \A x \in 1..l : text[ValueOf(b, s, Turn) + x - 1] = b.puts[Turn].value[x]
              /\ \A x \in 1..l : At(ValueOf(b, s, Turn) + x - 1) = b.puts[Turn].value[x]
  BY <1>1, NamePlaces
<1>7. PICK l \in C :
              /\ l \in Nat /\ Midway(b.puts[Turn], C, m, data, whole)
              /\ Named(v, k, l, whole, m[l]) /\ l <= Len(v) /\ k + 4 <= l
              /\ svar = o + k + 2 /\ svar <= head /\ head + 2 <= o + l /\ brace
              /\ \A x \in 1..l : text[o + x - 1] = v[x]
              /\ \A x \in 1..l : At(o + x - 1) = v[x]
  BY <1>3, <1>4, <1>5, <1>6
<1>8. /\ v[k + 1] = "$" /\ v[k + 2] = Open /\ v[l] = Close /\ v[k + 3] \in KeyBegin
      /\ \A i \in k + 3..l - 1 : v[i] \in KeyChar
      /\ m[l] = whole \o SubSeq(v, k + 1, l)
  BY <1>7 DEF Named
<1>9. /\ head \in Nat /\ svar \in Nat \ {0} /\ text \in Text /\ Len(text) \in Nat
      /\ head <= Len(text)
  <2>1. head \in Nat /\ text \in Text /\ Len(text) \in Nat
    BY FirstPlaces
  <2>2. svar \in Nat \ {0} /\ head <= Len(text)
    BY <1>1 DEF ParserInv, PlaceInv
  <2> QED
    BY <2>1, <2>2
<1>10. CASE head + 2 < o + l
  <2>1. PICK x \in k + 3..l - 1 : o + x - 1 = head + 1 /\ x \in 1..l
    <3>1. \A h, a, j, z \in Nat : a + j + 2 <= h /\ h + 2 < a + z
             => \E y \in Nat : a + y = h + 2 /\ j + 3 <= y /\ y < z
      <4> SUFFICES ASSUME NEW h \in Nat, NEW a \in Nat, NEW j \in Nat, NEW z \in Nat,
                          a + j + 2 <= h, h + 2 < a + z
                   PROVE  \E y \in Nat : a + y = h + 2 /\ j + 3 <= y /\ y < z
        OBVIOUS
      <4>1. h + 2 - a \in Nat /\ a + (h + 2 - a) = h + 2 /\ j + 3 <= h + 2 - a /\ h + 2 - a < z
        OBVIOUS
      <4> QED
        BY <4>1
    <3>2. o + k + 2 <= head
      BY <1>7
    <3>3. PICK y \in Nat : o + y = head + 2 /\ k + 3 <= y /\ y < l
      BY <1>7, <1>9, <1>10, <3>1, <3>2
    <3>4. y \in k + 3..l - 1 /\ o + y - 1 = head + 1 /\ y \in 1..l
      BY <1>7, <1>9, <3>3
    <3> QED
      BY <3>4
  <2>2. At(head + 1) \in KeyChar
    BY <1>7, <1>8, <2>1
  <2>3. /\ label' = "variable" /\ head' = head + 1
        /\ UNCHANGED <<data, overflow, whole, errors>>
    BY <2>2 DEF Variable, Goto
  <2>4. head' + 2 <= o + l
    BY <1>7, <1>9, <1>10, <2>3
  <2>5. whole = m[Len(data)]
    BY <1>7 DEF Midway
  <2>6. /\ Midway(b.puts[Turn], C, m, data', whole')
        /\ Named(b.puts[Turn].value, Len(data'), l, m[Len(data')], m[l])
        /\ svar' = ValueOf(b, s, Turn) + Len(data') + 2 /\ brace'
        /\ head' + 2 <= ValueOf(b, s, Turn) + l
    BY <1>1, <1>3, <1>4, <1>5, <1>7, <2>3, <2>4, <2>5
  <2>7. /\ skey' = KeyOf(b, s, Turn) /\ lkey' = Len(b.puts[Turn].key) /\ q' = NoQuote
        /\ ~overflow' /\ UNCHANGED <<parsing, puts>>
    BY <1>1, <1>2, <2>3
  <2>8. Second(b, s)'
    BY <1>2, <2>3, <2>6, <2>7, SecondName
  <2> QED
    BY <1>2, <2>3, <2>8
<1>11. CASE ~(head + 2 < o + l)
  <2>1. head + 2 = o + l /\ o + l - 1 = head + 1 /\ l \in 1..l /\ head = svar + (l - k - 4)
        /\ l - k - 4 \in Nat
    BY <1>7, <1>9, <1>11
  <2>2. At(head + 1) = Close
    BY <1>7, <1>8, <2>1
  <2>3. PICK name : name = SubSeq(text, svar, head)
    OBVIOUS
  <2>4. /\ name \in Text /\ Len(name) = l - k - 3
        /\ \A x \in 1..l - k - 3 : name[x] = v[k + x + 2]
    <3>1. name \in Text /\ Len(name) = head - svar + 1
          /\ \A x \in 1..head - svar + 1 : name[x] = text[svar + x - 1]
      BY <1>7, <1>9, <2>3 DEF Text
    <3>2. head - svar + 1 = l - k - 3
      BY <1>7, <1>9, <2>1
    <3>3. ASSUME NEW x \in 1..l - k - 3 PROVE name[x] = v[k + x + 2]
      <4>1. name[x] = text[svar + x - 1]
        BY <3>1, <3>2
      <4>2. k + x + 2 \in 1..l /\ svar + x - 1 = o + (k + x + 2) - 1
        BY <1>7
      <4> QED
        BY <1>7, <4>1, <4>2
    <3> QED
      BY <3>1, <3>2, <3>3
  <2>5. PICK value : value = Answer(name)
    OBVIOUS
  <2>6. /\ value = Braced(name) /\ value \in Text /\ Len(value) = l - k /\ value # NULL
        /\ value[1] = "$" /\ value[2] = Open /\ value[l - k] = Close
        /\ \A x \in 1..l - k - 3 : value[x + 2] = name[x]
    <3>1. value = Braced(name)
      BY <2>5 DEF Rereads, Answer, Braced
    <3>2. (l - k - 3) + 3 = l - k
      BY <1>7
    <3>3. value \in Text
      BY <2>4, <3>1, BracedIs
    <3>4. value # NULL
      BY <3>3, ParserAssumption
    <3> QED
      BY <2>4, <3>1, <3>2, <3>3, <3>4, BracedIs
  <2>7. ASSUME NEW x \in 1..l - k PROVE value[x] = v[k + x]
    <3>1. CASE x = 1 \/ x = 2
      BY <1>8, <2>6, <3>1
    <3>2. CASE x = l - k
      <4>1. k + x = l
        BY <1>7, <3>2
      <4> QED
        BY <1>8, <2>6, <3>2, <4>1
    <3>3. CASE x # 1 /\ x # 2 /\ x # l - k
      <4>1. PICK y \in 1..l - k - 3 : x = y + 2
        <5>1. x - 2 \in 1..l - k - 3 /\ x = (x - 2) + 2
          BY <1>7, <3>3
        <5> QED
          BY <5>1
      <4>2. k + y + 2 = k + x
        BY <4>1
      <4> QED
        BY <2>4, <2>6, <4>1, <4>2
    <3> QED
      BY <3>1, <3>2, <3>3
  <2>8. value = SubSeq(v, k + 1, l)
    <3>1. PICK w : w = SubSeq(v, k + 1, l)
      OBVIOUS
    <3>2. k + 1 \in 1..Len(v) + 1 /\ l \in 0..Len(v) /\ Len(v) \in Nat
      <4>1. Len(v) \in Nat
        BY DEF Text
      <4> QED
        BY <1>7, <4>1
    <3>3. w \in Text /\ Len(w) = l - k /\ \A x \in 1..l - k : w[x] = v[k + x]
      <4>1. w \in Text
        BY <3>1, <3>2, PartIs
      <4>2. Len(w) = l - (k + 1) + 1 /\ \A x \in 1..l - (k + 1) + 1 : w[x] = v[(k + 1) + x - 1]
        BY <1>7, <3>1, <3>2 DEF Text
      <4>3. l - (k + 1) + 1 = l - k /\ \A x \in 1..l - k : (k + 1) + x - 1 = k + x
        BY <1>7
      <4> QED
        BY <4>1, <4>2, <4>3
    <3>4. \A x \in 1..Len(value) : value[x] = w[x]
      BY <2>6, <2>7, <3>3
    <3> QED
      BY <2>6, <3>1, <3>3, <3>4, SeqEqual DEF Text
  <2>9. /\ Push(value) /\ whole' = whole \o value /\ label' = "value" /\ head' = head + 2
        /\ errors' = errors
    <3>1. At(head + 1) \notin KeyChar
      BY <2>2, BracesAre
    <3>2. errors \in Nat
      BY <1>2
    <3> QED
      BY <1>7, <2>2, <2>3, <2>5, <2>6, <3>1, <3>2 DEF Variable, Goto
  <2>10. /\ k < l /\ k + Len(value) = l /\ head' = o + l /\ whole' = m[l]
         /\ \A x \in 1..Len(value) : value[x] = v[k + x]
    BY <1>7, <1>8, <1>9, <2>1, <2>6, <2>7, <2>8, <2>9
  <2>11. /\ Len(data) < l /\ Len(data) + Len(value) = l /\ head' = ValueOf(b, s, Turn) + l
         /\ \A x \in 1..Len(value) : value[x] = b.puts[Turn].value[Len(data) + x]
    BY <1>3, <1>4, <1>5, <2>10
  <2>12. /\ UNCHANGED <<parsing, puts, q, skey, lkey>> /\ label' = "value" /\ Push(value)
         /\ whole' = m[l] /\ value \in Text
    BY <1>1, <2>6, <2>9, <2>10
  <2>13. Midway(b.puts[Turn], C, m, data, whole) /\ l \in C
    BY <1>7
  <2>14. Second(b, s)'
    BY <1>2, <2>11, <2>12, <2>13, SecondAdds
  <2> QED
    BY <1>2, <2>9, <2>14
<1> QED
  BY <1>10, <1>11

\* At the blank or the end after a value, the value has been read whole.
LEMMA WholeValue ==
    ASSUME ParserInv, NEW b, NEW s, Rereads(b, s), Second(b, s), label = "value",
           At(head) \in Space \cup {"end"}
    PROVE  /\ data = b.puts[Turn].value /\ whole = b.puts[Turn].meant /\ head = s[Turn + 1]
<1>1. /\ head \in Nat \ {0} /\ text \in Text /\ Len(text) \in Nat
      /\ At(head) = IF head <= Len(text) THEN text[head] ELSE "end"
  BY FirstPlaces
<1>2. /\ Len(data) \in Nat /\ data \in Text /\ b.puts[Turn].value \in Text
  BY SecondMiddle
<1>3. PICK C, m : /\ Midway(b.puts[Turn], C, m, data, whole)
                  /\ \/ /\ Len(data) = Len(b.puts[Turn].value)
                        /\ At(head) \in Space \cup {"end"} /\ head = s[Turn + 1]
                     \/ \E l : NextPiece(b.puts[Turn].value, C, m, l)
  BY SecondPiece
<1>4. ~\E l : NextPiece(b.puts[Turn].value, C, m, l)
  <2> SUFFICES ASSUME NEW l, NextPiece(b.puts[Turn].value, C, m, l) PROVE FALSE
    OBVIOUS
  <2>1. PICK v : v = b.puts[Turn].value
    OBVIOUS
  <2>2. l \in Nat
    BY <1>3 DEF NextPiece, Midway, Reading
  <2>3. /\ ~AtEnd(head)
        /\ Plain(v, Len(data), l, whole, m[l]) => At(head) \notin Special \cup Space
        /\ Escaped(v, Len(data), l, whole, m[l]) => At(head) = "\\"
        /\ Named(v, Len(data), l, whole, m[l]) => At(head) = "$"
    BY <1>1, <1>2, <2>1, <2>2, PieceHead
  <2>4. At(head) \in Character
    BY <1>1, <2>3 DEF At, AtEnd, Text, Character
  <2>5. "end" \notin Character
    BY DEF Character, KeyChar, KeyBegin, Space, Special, Others, Open, Close
  <2>6. At(head) \in Space /\ At(head) # "\\" /\ At(head) # "$"
    <3>1. At(head) \in Space
      BY <2>4, <2>5
    <3> QED
      BY <3>1 DEF Space
  <2> QED
    BY <2>1, <2>3, <2>6 DEF NextPiece, Piece
<1>5. Len(data) = Len(b.puts[Turn].value) /\ head = s[Turn + 1]
  BY <1>3, <1>4
<1>6. data = b.puts[Turn].value
  <2>1. PICK v \in Text : v = b.puts[Turn].value
    BY <1>2
  <2>2. \A x \in 1..Len(data) : data[x] = v[x]
    BY <1>3, <2>1 DEF Midway
  <2> QED
    BY <1>2, <1>5, <2>1, <2>2, SeqEqual DEF Text
<1>7. whole = b.puts[Turn].meant
  BY <1>3, <1>5 DEF Midway, Reading
<1> QED
  BY <1>5, <1>6, <1>7

\* The key that was printed is the one that is read.
LEMMA SameKey ==
    ASSUME ParserInv, NEW b, NEW s, Rereads(b, s), NEW i \in 1..Len(b.puts),
           skey = KeyOf(b, s, i), lkey = Len(b.puts[i].key)
    PROVE  SubSeq(text, skey, skey + lkey - 1) = b.puts[i].key
<1>1. PICK k \in Nat \ {0} : k = KeyOf(b, s, i)
  BY PutPlaces
<1>2. PICK l \in Nat \ {0} : l = Len(b.puts[i].key)
  BY PutPlaces
<1>3. PICK w \in Text : w = b.puts[i].key
  BY PutPlaces
<1>4. Stands(text, k, w) /\ text \in Text /\ Len(text) \in Nat
  BY <1>1, <1>3, PutPlaces, FirstPlaces DEF LaidPut
<1>5. k + l <= Len(text)
  <2>1. /\ s[i + 1] = ValueOf(b, s, i) + Len(b.puts[i].value) /\ s[i + 1] <= Len(text) + 1
        /\ Len(b.puts[i].value) \in Nat /\ ValueOf(b, s, i) = k + l + 1
    BY <1>1, <1>2, PutPlaces
  <2>2. (k + l + 1) + Len(b.puts[i].value) <= Len(text) + 1
    BY <2>1
  <2>3. \A v, t \in Nat : (k + l + 1) + v <= t + 1 => k + l <= t
    OBVIOUS
  <2> QED
    BY <1>4, <2>1, <2>2, <2>3
<1>6. PICK a : a = SubSeq(text, k, k + l - 1)
  OBVIOUS
<1>7. a \in Text /\ Len(a) = l /\ \A x \in 1..l : a[x] = text[k + x - 1]
  <2>1. k \in 1..Len(text) + 1 /\ k + l - 1 \in 0..Len(text)
    BY <1>4, <1>5
  <2>2. a \in Text
    BY <1>4, <1>6, <2>1, PartIs
  <2>3. Len(a) = (k + l - 1) - k + 1 /\ \A x \in 1..(k + l - 1) - k + 1 : a[x] = text[k + x - 1]
    BY <1>4, <1>5, <1>6 DEF Text
  <2>4. (k + l - 1) - k + 1 = l
    OBVIOUS
  <2> QED
    BY <2>2, <2>3, <2>4
<1>8. \A x \in 1..Len(a) : a[x] = w[x]
  BY <1>2, <1>3, <1>4, <1>7 DEF Stands
<1>9. a = w
  BY <1>2, <1>3, <1>7, <1>8, SeqEqual DEF Text
<1>10. SubSeq(text, skey, skey + lkey - 1) = a
  BY <1>1, <1>2, <1>6
<1> QED
  BY <1>3, <1>9, <1>10

\* After a value the parser is in the next gap.
LEMMA NextGap ==
    ASSUME ParserInv, NEW b, NEW s, Rereads(b, s), NEW j \in 1..Len(b.puts) + 1, head = s[j],
           At(head) \in Space \cup {"end"}, NEW h, h = IF AtEnd(head) THEN head ELSE head + 1
    PROVE  s[j] <= h /\ h <= KeyOf(b, s, j) /\ ~Noted(text, s[j], h - 1)
<1>1. /\ head \in Nat \ {0} /\ text \in Text /\ Len(text) \in Nat
      /\ At(head) = IF head <= Len(text) THEN text[head] ELSE "end"
      /\ (AtEnd(head) <=> head > Len(text))
  BY FirstPlaces DEF AtEnd
<1>2. PICK k \in Nat \ {0} : k = KeyOf(b, s, j)
  BY GapPlaces
<1>3. head <= k /\ k <= Len(text) + 1 /\ (j = Len(b.puts) + 1 => k = Len(text) + 1)
  BY <1>2, GapPlaces
<1>4. Quiet(text, head, head - 1) /\ ~Noted(text, head, head - 1)
  BY <1>1, QuietEmpty
<1>5. CASE AtEnd(head)
  <2>1. h = head
    BY <1>5
  <2> QED
    BY <1>1, <1>2, <1>3, <1>4, <2>1
<1>6. CASE ~AtEnd(head)
  <2>1. h = head + 1 /\ h - 1 = head /\ head <= Len(text) /\ head <= h
    BY <1>1, <1>6
  <2>2. text[head] \in Space
    <3>1. At(head) = text[head]
      BY <1>1, <2>1
    <3>2. text[head] \in Character
      BY <1>1, <2>1 DEF Text, Character
    <3>3. "end" \notin Character
      BY DEF Character, KeyChar, KeyBegin, Space, Special, Others, Open, Close
    <3> QED
      BY <3>1, <3>2, <3>3
  <2>3. ~Noted(text, head, head)
    BY <1>1, <1>4, <2>2, QuietBlank
  <2>4. head # k
    <3> SUFFICES ASSUME head = k PROVE FALSE
      OBVIOUS
    <3>1. j # Len(b.puts) + 1
      BY <1>1, <1>3, <2>1
    <3>2. j \in 1..Len(b.puts)
      <4>1. Len(b.puts) \in Nat
        <5>1. b.puts \in Seq(Definition)
          BY DEF Rereads, Sound
        <5> QED
          BY <5>1
      <4> QED
        BY <3>1, <4>1
    <3>3. text[head] \in KeyBegin
      BY <1>2, <3>2, KeyBegins
    <3> QED
      BY <2>2, <3>3 DEF KeyBegin, Space
  <2>5. h <= k
    BY <1>1, <1>3, <2>1, <2>4
  <2> QED
    BY <1>2, <2>1, <2>3, <2>5
<1> QED
  BY <1>5, <1>6

\* The value ends where its printed form ends, and the definition is put again.
LEMMA SecondEnd ==
    ASSUME ParserInv, NEW b, NEW s, Rereads(b, s), Second(b, s), EndOfValue
    PROVE  errors' = 0 /\ Second(b, s)'
<1> DEFINE d == [key |-> SubSeq(text, skey, skey + lkey - 1), value |-> data, meant |-> whole,
                 begin |-> skey, end |-> head]
<1>1. /\ label = "value" /\ At(head) \in Space \cup {"end"} /\ parsing' = parsing
  BY DEF EndOfValue
<1>2. /\ Turn \in 1..Len(b.puts) /\ skey = KeyOf(b, s, Turn) /\ lkey = Len(b.puts[Turn].key)
      /\ q = NoQuote /\ ~overflow /\ errors = 0
  BY <1>1, SecondMiddle
<1>3. /\ puts' = Append(puts, d) /\ label' = "initial" /\ errors' = errors
      /\ head' = IF AtEnd(head) THEN head ELSE head + 1
  BY <1>2 DEF EndOfValue, Goto
<1>4. data = b.puts[Turn].value /\ whole = b.puts[Turn].meant /\ head = s[Turn + 1]
  BY <1>1, WholeValue
<1>5. SubSeq(text, skey, skey + lkey - 1) = b.puts[Turn].key
  BY <1>2, SameKey
<1>6. Reput(d, b, s, Turn)
  BY <1>2, <1>4, <1>5 DEF Reput
<1> HIDE DEF d
<1>7. puts \in Seq(Definition) /\ Len(puts) \in Nat /\ Turn = Len(puts) + 1
  BY FirstPlaces DEF Turn
<1>8. /\ Len(puts') = Len(puts) + 1 /\ Turn' = Turn + 1 /\ text' = text
      /\ \A i \in 1..Len(puts) : puts'[i] = puts[i]
      /\ puts'[Len(puts) + 1] = d
  BY <1>1, <1>3, <1>7 DEF Turn, text
<1>9. ASSUME NEW i \in 1..Len(puts') PROVE Reput(puts'[i], b, s, i)
  <2>1. CASE i \in 1..Len(puts)
    BY <1>8, <2>1 DEF Second
  <2>2. CASE i \notin 1..Len(puts)
    <3>1. i = Turn
      BY <1>7, <1>8, <2>2
    <3> QED
      BY <1>6, <1>7, <1>8, <3>1
  <2> QED
    BY <2>1, <2>2
<1>10. Turn + 1 \in 1..Len(b.puts) + 1 /\ Turn + 1 <= Len(b.puts) + 1
  BY <1>2, TurnIs
<1>11. /\ s[Turn + 1] <= head' /\ head' <= KeyOf(b, s, Turn + 1)
       /\ ~Noted(text, s[Turn + 1], head' - 1)
  BY <1>1, <1>3, <1>4, <1>10, NextGap
<1>12. Second(b, s)'
  BY <1>3, <1>8, <1>9, <1>10, <1>11 DEF Second
<1> QED
  BY <1>2, <1>3, <1>12

\* The second parse stays on what was printed, without an error.
LEMMA SecondStep ==
    ASSUME ParserInv, NEW b, NEW s, Rereads(b, s), Second(b, s), Next, ~Again
    PROVE  Rereads(b, s)' /\ Second(b, s)'
<1>1. errors' = 0 /\ Second(b, s)'
  <2>1. CASE Initial \/ Comment \/ Key
    BY <2>1, SecondInitial, SecondComment, SecondKey
  <2>2. CASE Literal \/ Escape \/ Quote
    BY <2>2, SecondLiteral, SecondEscape, SecondQuote
  <2>3. CASE Dollar \/ Variable \/ EndOfValue
    BY <2>3, SecondDollar, SecondVariable, SecondEnd
  <2> QED
    BY <2>1, <2>2, <2>3 DEF Next
<1>2. parsing' = parsing
  BY RequestKept
<1>3. text' = text /\ DataSize' = DataSize /\ ShouldEscape' = ShouldEscape
  BY <1>2 DEF text, DataSize, ShouldEscape
<1> QED
  BY <1>1, <1>2, <1>3 DEF Rereads

-----------------------------------------------------------------------------
(* The two parses together.                                                  *)

\* The definitions of b have no blanks in their values.
Clean(b) == \A i \in DOMAIN b.puts : Blankless(b.puts[i].meant)

\* The second parse is on what was printed, with a place for everything it reads.
SecondInv ==
    before # NULL /\ Clean(before) =>
        text = PrettyOf(before) /\ \E s : Rereads(before, s) /\ Second(before, s)

\* The invariant of PrettyKeeps.
PrettyInv == ParserInv /\ ErrorsInv /\ FirstInv /\ SecondInv

\* Nothing is read, and nothing was printed.
LEMMA PrettyInit == Init => PrettyInv
<1> SUFFICES ASSUME Init PROVE PrettyInv
  OBVIOUS
<1>1. ParserInv
  BY RequestInit
<1>2. ErrorsInv
  BY <1>1 DEF Init, ErrorsInv, ParserInv, RequestInv
<1>3. /\ before = NULL /\ label = "initial" /\ head = 1 /\ puts = <<>>
  BY DEF Init
<1>4. First
  <2>1. Len(puts) = 0 /\ Turn = 1
    BY <1>3 DEF Turn
  <2>2. From(puts, 1) = 1 /\ 1 - 1 = 0
    BY DEF From
  <2>3. Quiet(text, 1, 1 - 1) /\ ~Noted(text, 1, 1 - 1)
    BY QuietEmpty
  <2>4. Gapped(text, puts, Turn, head) /\ Parted(text, puts, Turn, head)
    BY <1>3, <2>1, <2>2, <2>3 DEF Gapped, Parted
  <2> QED
    BY <1>3, <2>1, <2>4 DEF First
<1>5. FirstInv /\ SecondInv
  BY <1>3, <1>4 DEF FirstInv, SecondInv
<1> QED
  BY <1>1, <1>2, <1>5 DEF PrettyInv

\* What pretty printed is laid out as the second parse relies on.
LEMMA PrettyAgain ==
    ASSUME ParserInv, FirstInv, Again
    PROVE  FirstInv' /\ SecondInv'
<1>1. PICK b : b = [text |-> text, puts |-> puts]
  OBVIOUS
<1>2. /\ label = "stop" /\ before = NULL /\ errors = 0 /\ ShouldEscape /\ before' = b
      /\ label' = "initial" /\ head' = 1 /\ puts' = <<>> /\ errors' = 0
  BY <1>1 DEF Again, Goto
<1>3. parsing.answer = Normal /\ First
  BY <1>2 DEF Again, FirstInv
<1>4. b.text = text /\ b.puts = puts /\ text \in Text /\ puts \in Seq(Definition)
  BY <1>1, FirstPlaces
<1>5. b # NULL
  BY <1>1, <1>4, ParserAssumption
<1>6. FirstInv'
  BY <1>2, <1>5 DEF FirstInv
<1>7. /\ parsing' = [parsing EXCEPT !.text = Pretty]
      /\ DataSize' = DataSize /\ ShouldEscape' = ShouldEscape /\ parsing'.answer = parsing.answer
      /\ text' = Pretty
  <2>1. parsing' = [parsing EXCEPT !.text = Pretty]
    BY DEF Again
  <2>2. /\ parsing'.size = parsing.size /\ parsing'.escape = parsing.escape
        /\ parsing'.answer = parsing.answer
    BY <2>1
  <2>3. text' = Pretty
    <3>1. parsing' = [parsing EXCEPT !.text = Pretty] /\ parsing.text \in Text
      BY <1>4, <2>1 DEF text
    <3> QED
      BY <3>1 DEF text
  <2> QED
    BY <2>1, <2>2, <2>3 DEF DataSize, ShouldEscape
<1>8. Pretty = PrettyOf(b)
  BY <1>4 DEF Pretty, PrettyOf, Printed
<1>9. /\ Sound(b, DataSize) /\ PrettyOf(b) \in Text /\ \E s : Laid(PrettyOf(b), b, s)
  BY <1>2, <1>3, <1>4, LaidIs
<1>10. PICK s : Laid(PrettyOf(b), b, s)
  BY <1>9
<1>11. ASSUME Clean(b) PROVE Rereads(b, s)' /\ Second(b, s)'
  <2>1. \A i \in 1..Len(b.puts) : Blankless(b.puts[i].meant)
    BY <1>4, <1>11 DEF Clean
  <2>2. Rereads(b, s)'
    BY <1>2, <1>3, <1>7, <1>8, <1>9, <1>10, <2>1 DEF Rereads
  <2>3. Len(puts') = 0 /\ Turn' = 1 /\ Len(b.puts) \in Nat
    BY <1>2, <1>4 DEF Turn
  <2>4. s[1] = 1
    BY <1>10 DEF Laid
  <2>5. 1 <= KeyOf(b, s, 1)
    <3>1. Gap(b.text, b.puts, 1) \in Text
      BY <1>9, <2>3 DEF Sound
    <3>2. Len(Gap(b.text, b.puts, 1)) \in Nat
      BY <3>1 DEF Text
    <3> QED
      BY <2>4, <3>2 DEF KeyOf
  <2>6. ~Noted(text', 1, 1 - 1)
    BY QuietEmpty
  <2>7. Second(b, s)'
    BY <1>2, <2>3, <2>4, <2>5, <2>6 DEF Second
  <2> QED
    BY <2>2, <2>7
<1>12. SecondInv'
  BY <1>2, <1>7, <1>8, <1>11 DEF SecondInv
<1> QED
  BY <1>6, <1>12

\* The four parts of the invariant are kept together.
LEMMA PrettyStep == PrettyInv /\ [Next]_vars => PrettyInv'
<1> SUFFICES ASSUME PrettyInv, [Next]_vars PROVE PrettyInv'
  OBVIOUS
<1>1. ParserInv /\ ErrorsInv /\ FirstInv /\ SecondInv
  BY DEF PrettyInv
<1>2. ParserInv' /\ ErrorsInv'
  BY <1>1, ParserStep, ErrorsStep
<1>3. CASE Again
  BY <1>1, <1>2, <1>3, PrettyAgain DEF PrettyInv
<1>4. CASE Next /\ ~Again
  <2>1. FirstInv'
    BY <1>1, <1>4, FirstStep
  <2>2. before' = before /\ text' = text
    BY <1>4, RequestKept DEF text
  <2>3. SecondInv'
    <3>1. PICK b : b = before /\ b = before'
      BY <2>2
    <3>2. ASSUME b # NULL, Clean(b)
          PROVE  text' = PrettyOf(b) /\ \E s : Rereads(b, s)' /\ Second(b, s)'
      <4>1. text = PrettyOf(b) /\ \E s : Rereads(b, s) /\ Second(b, s)
        BY <1>1, <3>1, <3>2 DEF SecondInv
      <4>2. PICK s : Rereads(b, s) /\ Second(b, s)
        BY <4>1
      <4>3. Rereads(b, s)' /\ Second(b, s)'
        BY <1>1, <1>4, <4>2, SecondStep
      <4> QED
        BY <2>2, <4>1, <4>3
    <3> QED
      BY <3>1, <3>2 DEF SecondInv
  <2> QED
    BY <1>2, <2>1, <2>3 DEF PrettyInv
<1>5. CASE UNCHANGED vars
  <2>1. FirstInv'
    BY <1>1, <1>5 DEF vars, FirstInv, First, Turn, text, DataSize, ShouldEscape
  <2>2. SecondInv'
    BY <1>1, <1>5 DEF vars, SecondInv, Rereads, Second, InVariable, Turn, text, DataSize,
                      ShouldEscape
  <2> QED
    BY <1>2, <2>1, <2>2 DEF PrettyInv
<1> QED
  BY <1>3, <1>4, <1>5

\* A gap that was printed and read again is the same.
LEMMA SameGap ==
    ASSUME ParserInv, NEW b, NEW s, Rereads(b, s), Second(b, s), label = "stop",
           NEW i \in 1..Len(puts) + 1
    PROVE  Gap(text, puts, i) = Gap(b.text, b.puts, i)
<1>1. PICK n \in Nat : n = Len(puts) /\ n = Len(b.puts)
  <2>1. Turn = Len(b.puts) + 1 /\ Len(b.puts) \in Nat
    BY TurnIs DEF Second
  <2> QED
    BY <2>1, FirstPlaces DEF Turn
<1>2. i \in 1..n + 1 /\ i \in 1..Len(b.puts) + 1
  BY <1>1
<1>3. PICK g \in Text : g = Gap(b.text, b.puts, i)
  BY <1>2 DEF Rereads, Sound
<1>4. PICK a \in Nat \ {0} : a = s[i]
  BY <1>2, GapPlaces
<1>5. PICK k \in Nat \ {0} : k = KeyOf(b, s, i)
  BY <1>2, GapPlaces
<1>6. a <= k /\ k <= Len(text) + 1 /\ k = a + Len(g) /\ Len(g) \in Nat
      /\ (i = n + 1 => k = Len(text) + 1) /\ text \in Text
  <2>1. k = a + Len(g)
    BY <1>3, <1>4, <1>5 DEF KeyOf
  <2>2. Len(g) \in Nat
    BY DEF Text
  <2> QED
    BY <1>1, <1>2, <1>4, <1>5, <2>1, <2>2, GapPlaces, FirstPlaces
<1>7. \A j \in 1..n : puts[j].begin = KeyOf(b, s, j) /\ puts[j].end = s[j + 1]
  BY <1>1 DEF Second, Reput
<1>8. From(puts, i) = a
  <2>1. CASE i = 1
    BY <1>4, <2>1 DEF From, Rereads, Laid
  <2>2. CASE i # 1
    <3>1. i - 1 \in 1..n /\ (i - 1) + 1 = i
      BY <1>2, <2>2
    <3>2. puts[i - 1].end = s[(i - 1) + 1]
      BY <1>7, <3>1
    <3> QED
      BY <1>4, <2>2, <3>1, <3>2 DEF From
  <2> QED
    BY <2>1, <2>2
<1>9. Gaps(text, puts, i) = k
  <2>1. CASE i = n + 1
    <3>1. i > Len(puts)
      BY <1>1, <2>1
    <3> QED
      BY <1>6, <2>1, <3>1 DEF Gaps
  <2>2. CASE i # n + 1
    <3>1. i \in 1..n /\ ~(i > Len(puts))
      BY <1>1, <1>2, <2>2
    <3> QED
      BY <1>5, <1>7, <3>1 DEF Gaps
  <2> QED
    BY <2>1, <2>2
<1>10. PICK h : h = Gap(text, puts, i)
  OBVIOUS
<1>11. h \in Text /\ Len(h) = k - a /\ \A x \in 1..Len(h) : h[x] = text[a + x - 1]
  BY <1>6, <1>8, <1>9, <1>10, GapIs
<1>12. Stands(text, a, g)
  BY <1>2, <1>3, <1>4 DEF Rereads, Laid, LaidGap
<1>13. Len(h) = Len(g) /\ \A x \in 1..Len(h) : h[x] = g[x]
  BY <1>6, <1>11, <1>12 DEF Stands
<1>14. h = g
  BY <1>11, <1>13, SeqEqual DEF Text
<1> QED
  BY <1>3, <1>10, <1>14

\* At the end of the second parse nothing has changed.
LEMMA PrettyMeans == PrettyInv => PrettyKeeps
<1> SUFFICES ASSUME PrettyInv, Reprinted, Clean(before)
             PROVE  /\ errors = 0 /\ SameMeaning
                    /\ \A i \in 1..Len(puts) + 1 :
                          Gap(text, puts, i) = Gap(before.text, before.puts, i)
                    /\ Pretty = text
  BY DEF PrettyKeeps, Clean, Blankless
<1>1. /\ ParserInv /\ label = "stop" /\ before # NULL /\ text = PrettyOf(before)
      /\ \E s : Rereads(before, s) /\ Second(before, s)
  BY DEF PrettyInv, SecondInv, Reprinted
<1>2. PICK s : Rereads(before, s) /\ Second(before, s)
  BY <1>1
<1>3. PICK b : b = before
  OBVIOUS
<1>4. Rereads(b, s) /\ Second(b, s) /\ text = PrettyOf(b) /\ errors = 0
  BY <1>1, <1>2, <1>3 DEF Rereads
<1>5. Len(puts) = Len(b.puts) /\ DOMAIN puts = 1..Len(puts) /\ DOMAIN b.puts = 1..Len(puts)
  <2>1. puts \in Seq(Definition) /\ Len(puts) \in Nat /\ Turn = Len(puts) + 1
    BY <1>1, FirstPlaces DEF Turn
  <2>2. b.puts \in Seq(Definition) /\ Len(b.puts) \in Nat
    BY <1>1, <1>4, TurnIs DEF Rereads, Sound
  <2>3. Turn = Len(b.puts) + 1
    BY <1>1, <1>4 DEF Second
  <2> QED
    BY <2>1, <2>2, <2>3
<1>6. \A i \in 1..Len(puts) :
         /\ puts[i].key = b.puts[i].key /\ puts[i].value = b.puts[i].value
         /\ puts[i].meant = b.puts[i].meant
  BY <1>4 DEF Second, Reput
<1>7. SameMeaning
  BY <1>3, <1>5, <1>6 DEF SameMeaning
<1>8. \A i \in 1..Len(puts) + 1 : Gap(text, puts, i) = Gap(b.text, b.puts, i)
  BY <1>1, <1>4, SameGap
<1>9. Pretty = text
  <2>1. Len(puts) \in Nat
    BY <1>1, FirstPlaces
  <2>2. Gap(text, puts, Len(puts) + 1) = Gap(b.text, b.puts, Len(b.puts) + 1)
    BY <1>5, <1>8, <2>1
  <2> DEFINE printed == [i \in DOMAIN puts |-> Gap(text, puts, i) \o puts[i].key
                                                  \o <<"=">> \o puts[i].value]
             first == [i \in DOMAIN b.puts |-> Printed(b.text, b.puts, i)]
  <2>3. ASSUME NEW i \in DOMAIN puts
        PROVE  Gap(text, puts, i) \o puts[i].key \o <<"=">> \o puts[i].value
                  = Printed(b.text, b.puts, i)
    <3>1. i \in 1..Len(puts) /\ i \in 1..Len(puts) + 1
      BY <1>5, <2>1
    <3> QED
      BY <1>6, <1>8, <3>1 DEF Printed
  <2>4. printed = first
    BY <1>5, <2>3
  <2>5. Pretty = FlattenSeq(printed) \o Gap(text, puts, Len(puts) + 1)
    BY DEF Pretty
  <2>6. text = FlattenSeq(first) \o Gap(b.text, b.puts, Len(b.puts) + 1)
    BY <1>4 DEF PrettyOf
  <2> HIDE DEF printed, first
  <2> QED
    BY <2>2, <2>4, <2>5, <2>6
<1> QED
  BY <1>3, <1>4, <1>7, <1>8, <1>9

\* Whatever the file, and whatever the size of the buffer: what the toolbox prints
\* for pretty is read without an error as the same definitions with the same text
\* around them, and is printed again as it is (toolbox.c:538).
THEOREM PrettyKeepsAlways == Spec => []PrettyKeeps
<1> QED
  BY PrettyInit, PrettyStep, PrettyMeans, PTL DEF Spec
=============================================================================
