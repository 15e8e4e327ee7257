----------------------------- MODULE ConfParser -----------------------------
(***************************************************************************)
(* parse_utf8_config of parser.c: the machine that reads the configuration *)
(* file, one turn of its labels per step, with its callbacks.  A character *)
(* stands for its class; the callback get resolves every variable to one   *)
(* answer, or to its normal form.  What the toolbox prints for pretty is   *)
(* given to the parser once more.                                          *)
(***************************************************************************)
EXTENDS Naturals, Sequences, SequencesExt

CONSTANTS Requests,     \* the requests: a sequence of the texts to parse with what
                        \* the rest of struct parsing holds
          Normal,       \* the answer of get that stands for "${name}"
          NULL

KeyBegin == {"a", "_"}
KeyChar  == KeyBegin \cup {"1"}
Space    == {" ", "eol"}
Special  == {"\\", "'", "dquote", "$"}
Open     == "{"
Close    == "}"
Others   == {"=", "#", Open, Close, "v", "?"}

Text == Seq(KeyChar \cup Space \cup Special \cup Others)
\* A definition, as it is put.
Definition == [key : Text, value : Text, meant : Text, begin : Nat, end : Nat]

ASSUME ParserAssumption ==
    /\ NULL \notin [text : Text, puts : Seq(Definition)] /\ NULL \notin Text
    /\ \A i \in DOMAIN Requests :
          /\ Requests[i].size \in Nat \ {0}
          /\ Requests[i].escape \in BOOLEAN /\ Requests[i].continues \in BOOLEAN
          /\ \A t \in Requests[i].texts : t \in Text
          /\ Requests[i].answer \in Text \cup {Normal, NULL}

NoQuote == ""

VARIABLES parsing,      \* the request
          head, label,
          q,            \* the quote the value is in
          brace,        \* the variable is in braces (acc)
          skey, lkey,   \* the key
          svar,         \* the variable
          data, overflow,
          errors,
          puts,         \* history: the calls of put (the toolbox's keys)
          whole,        \* history: the value without escapes, without a limit
          before        \* history: what was read before the pretty output, or NULL

vars == <<parsing, head, label, q, brace, skey, lkey, svar, data, overflow, errors,
          puts, whole, before>>

text         == parsing.text
DataSize     == parsing.size        \* of the data buffer
ShouldEscape == parsing.escape
Continues    == parsing.continues   \* what the error callback answers
\* What get answers for a name, a string or NULL; the toolbox answers "${name}".
Answer(name) == IF parsing.answer = Normal THEN <<"$", Open>> \o name \o <<Close>>
                                           ELSE parsing.answer

AtEnd(i) == i > Len(text)
At(i) == IF AtEnd(i) THEN "end" ELSE text[i]

Goto(l, h) == label' = l /\ head' = h

\* Mutant of Error: what the callback answers is not looked at.
ErrorGoesOn(l, h) == errors' = errors + 1 /\ Goto(l, h)

\* error(p, x): the parse stops, or goes on at label l from index h.
Error(l, h) == /\ errors' = errors + 1
               /\ IF Continues THEN Goto(l, h) ELSE Goto("stop", h)

Fatal(h) == errors' = errors + 1 /\ Goto("stop", h)

KeepValue == UNCHANGED <<q, brace, skey, lkey, svar, data, overflow, whole>>

-----------------------------------------------------------------------------
Initial ==
    /\ label = "initial"
    /\ IF AtEnd(head) THEN Goto("stop", head) /\ UNCHANGED <<skey, errors>>
       ELSE \/ /\ At(head) \in KeyBegin
               /\ skey' = head /\ Goto("key", head)
               /\ UNCHANGED errors
            \/ /\ At(head) = "#"
               /\ Goto("comment", head) /\ UNCHANGED <<skey, errors>>
            \/ /\ At(head) \in Space
               /\ Goto("initial", head + 1) /\ UNCHANGED <<skey, errors>>
            \/ /\ At(head) \notin KeyBegin \cup Space \cup {"#"}
               /\ Error("initial", head + 1) /\ UNCHANGED skey
    /\ UNCHANGED <<parsing, q, brace, lkey, svar, data, overflow, puts, whole, before>>

\* Mutant of Comment: the text of a comment is not passed over.
CommentStays ==
    /\ label = "comment"
    /\ IF AtEnd(head + 1) THEN Goto("stop", head + 1)
       ELSE IF At(head + 1) = "eol" THEN Goto("initial", head + 2)
       ELSE Goto("comment", head)
    /\ KeepValue /\ UNCHANGED <<parsing, errors, puts, before>>

Comment ==
    /\ label = "comment"
    /\ IF AtEnd(head + 1) THEN Goto("stop", head + 1)
       ELSE IF At(head + 1) = "eol" THEN Goto("initial", head + 2)
       ELSE Goto("comment", head + 1)
    /\ KeepValue /\ UNCHANGED <<parsing, errors, puts, before>>

Key ==
    /\ label = "key"
    /\ IF AtEnd(head + 1)
       THEN Fatal(head + 1) /\ KeepValue
       ELSE \/ /\ At(head + 1) \in KeyChar
               /\ Goto("key", head + 1) /\ KeepValue /\ UNCHANGED errors
            \/ /\ At(head + 1) \notin KeyChar \cup {"="}
               /\ Error("initial", head + 2) /\ KeepValue
            \/ /\ At(head + 1) = "="
               /\ lkey' = head + 1 - skey
               /\ data' = <<>> /\ overflow' = FALSE /\ whole' = <<>> /\ q' = NoQuote
               /\ Goto("value", head + 2)
               /\ UNCHANGED <<brace, skey, svar, errors>>
    /\ UNCHANGED <<parsing, puts, before>>

-----------------------------------------------------------------------------
\* Mutants of Push: the size is not looked at, or what does not fit is dropped
\* without a word.
PushUnbounded(chars) == data' = data \o chars /\ UNCHANGED overflow

PushSilent(chars) ==
    LET all == data \o chars
    IN  /\ data' = SubSeq(all, 1, IF Len(all) < DataSize THEN Len(all) ELSE DataSize)
        /\ UNCHANGED overflow

\* What fits of chars is added to the data.
Push(chars) ==
    LET all == data \o chars
    IN  /\ data' = SubSeq(all, 1, IF Len(all) < DataSize THEN Len(all) ELSE DataSize)
        /\ overflow' = (overflow \/ Len(all) > DataSize)

\* add_value, and escapable before it.
Add(c) == Push(<<c>>) /\ whole' = Append(whole, c)
\* Mutants of AddEscapable: always or never escaped.
AddEscaped(c) == Push(<<"\\", c>>) /\ whole' = Append(whole, c)
AddPlain(c) == Push(<<c>>) /\ whole' = Append(whole, c)

AddEscapable(c) == /\ Push(IF ShouldEscape THEN <<"\\", c>> ELSE <<c>>)
                   /\ whole' = Append(whole, c)

\* The characters that are kept: all of them in simple quotes, spaces and the
\* other quote in double quotes.
Literal ==
    /\ label = "value" /\ ~AtEnd(head)
    /\ \/ At(head) \notin Special \cup Space /\ Add(At(head))
       \/ At(head) \in Space /\ q # NoQuote /\ Add(At(head))
       \/ At(head) \in {"\\", "$", "dquote"} /\ q = "'" /\ AddEscapable(At(head))
       \/ At(head) = "'" /\ q = "dquote" /\ AddEscapable("'")
    /\ Goto("value", head + 1)
    /\ UNCHANGED <<parsing, q, brace, skey, lkey, svar, errors, puts, before>>

Escape ==
    /\ label = "value" /\ At(head) = "\\" /\ q # "'"
    /\ IF AtEnd(head + 1)
       THEN Fatal(head + 1) /\ UNCHANGED <<data, overflow, whole>>
       ELSE AddEscapable(At(head + 1)) /\ Goto("value", head + 2) /\ UNCHANGED errors
    /\ UNCHANGED <<parsing, q, brace, skey, lkey, svar, puts, before>>

Quote ==
    /\ label = "value" /\ At(head) \in {"'", "dquote"}
    /\ q \in {NoQuote, At(head)}
    /\ q' = IF q = NoQuote THEN At(head) ELSE NoQuote
    /\ Goto("value", head + 1)
    /\ UNCHANGED <<parsing, brace, skey, lkey, svar, data, overflow, errors, puts, whole,
                   before>>

\* $ or ${ and the first character of a name; any other is an error, and is
\* then read again as part of the value.
Dollar ==
    /\ label = "value" /\ At(head) = "$" /\ q # "'"
    /\ LET open == At(head + 1) = Open
           h == IF open THEN head + 2 ELSE head + 1
       IN  /\ brace' = IF AtEnd(head + 1) THEN brace ELSE open
           /\ svar' = IF At(h) \in KeyBegin THEN h ELSE svar
           /\ IF AtEnd(h) THEN Fatal(h)
              ELSE IF At(h) \in KeyBegin THEN Goto("variable", h) /\ UNCHANGED errors
              ELSE Error("value", h)
    /\ UNCHANGED <<parsing, q, skey, lkey, data, overflow, puts, whole, before>>

\* The rest of the name.  The pair of braces may be unmatched, which stops the
\* parse or not; then get is asked for the value.
Variable ==
    /\ label = "variable"
    /\ IF At(head + 1) \in KeyChar
       THEN Goto("variable", head + 1) /\ UNCHANGED <<data, overflow, whole, errors>>
       ELSE LET closed == At(head + 1) = Close
                unmatched == brace /\ ~closed
                value == Answer(SubSeq(text, svar, head))
                missing == value = NULL
                h == IF brace /\ closed THEN head + 2 ELSE head + 1
                stops == ~Continues /\ (unmatched \/ missing)
            IN  /\ IF missing \/ (unmatched /\ ~Continues)
                   THEN UNCHANGED <<data, overflow, whole>>
                   ELSE Push(value) /\ whole' = whole \o value
                /\ errors' = errors + IF unmatched /\ missing /\ Continues THEN 2
                                      ELSE IF unmatched \/ missing THEN 1 ELSE 0
                /\ Goto(IF stops THEN "stop" ELSE "value", h)
    /\ UNCHANGED <<parsing, q, brace, skey, lkey, svar, puts, before>>

\* The value ends at a space or at the end of the file: put, unless some of it
\* did not fit.
EndOfValue ==
    /\ label = "value"
    /\ At(head) = "end" \/ (At(head) \in Space /\ q = NoQuote)
    /\ \/ /\ q # NoQuote
          /\ Fatal(head) /\ UNCHANGED puts
       \/ /\ q = NoQuote /\ overflow
          /\ Error("initial", IF AtEnd(head) THEN head ELSE head + 1)
          /\ UNCHANGED puts
       \/ /\ q = NoQuote /\ ~overflow
          /\ puts' = Append(puts, [key |-> SubSeq(text, skey, skey + lkey - 1),
                                   value |-> data, meant |-> whole,
                                   begin |-> skey, end |-> head])
          /\ Goto("initial", IF AtEnd(head) THEN head ELSE head + 1)
          /\ UNCHANGED errors
    /\ KeepValue /\ UNCHANGED <<parsing, before>>

-----------------------------------------------------------------------------
(* pretty: the text that no key covers is printed as it is, and each key as  *)
(* key=value.                                                                *)

\* Gap(t, p, i): the text t between the keys i-1 and i of the list p.
Gap(t, p, i) == SubSeq(t, IF i = 1 THEN 1 ELSE p[i - 1].end,
                          IF i > Len(p) THEN Len(t) ELSE p[i].begin - 1)

Pretty == FlattenSeq([i \in DOMAIN puts |-> Gap(text, puts, i) \o puts[i].key
                                              \o <<"=">> \o puts[i].value])
          \o Gap(text, puts, Len(puts) + 1)

\* The toolbox is run on what it printed.  It prints nothing when there were
\* errors; defining a key twice is one, using an unknown variable another
\* (toolbox.c:456).
Again ==
    /\ label = "stop" /\ before = NULL /\ errors = 0
    /\ ShouldEscape /\ parsing.answer = Normal
    /\ \A i, j \in DOMAIN puts : puts[i].key = puts[j].key => i = j
    /\ before' = [text |-> text, puts |-> puts]
    /\ parsing' = [parsing EXCEPT !.text = Pretty]
    /\ Goto("initial", 1)
    /\ skey' = 0 /\ lkey' = 0 /\ svar' = 0 /\ puts' = <<>>
    /\ UNCHANGED <<q, brace, data, overflow, errors, whole>>

-----------------------------------------------------------------------------
Init ==
    /\ \E i \in DOMAIN Requests : \E t \in Requests[i].texts :
          parsing = [text |-> t, size |-> Requests[i].size,
                     escape |-> Requests[i].escape,
                     continues |-> Requests[i].continues,
                     answer |-> Requests[i].answer]
    /\ head = 1 /\ label = "initial"
    /\ q = NoQuote /\ brace = FALSE /\ skey = 0 /\ lkey = 0 /\ svar = 0
    /\ data = <<>> /\ overflow = FALSE /\ errors = 0 /\ puts = <<>> /\ whole = <<>>
    /\ before = NULL

Next == Initial \/ Comment \/ Key \/ Literal \/ Escape \/ Quote \/ Dollar \/ Variable
        \/ EndOfValue \/ Again

Spec == Init /\ [][Next]_vars

FairSpec == Spec /\ WF_vars(Next)

-----------------------------------------------------------------------------
\* head never passes the end of the buffer, and the labels that look at the
\* current character are reached with one; the data stay in their buffer
\* (parser.c:57, 136, 141 and 257).
InBounds ==
    /\ head <= Len(text) + 1
    /\ label \in {"comment", "key", "variable"} => ~AtEnd(head)
    /\ Len(data) <= DataSize

\* A value that is put is the one that was written, never a truncation of it:
\* without escapes.
NeverTruncated ==
    ~ShouldEscape => \A i \in DOMAIN puts : puts[i].value = puts[i].meant

\* With the callback that stops, nothing is defined after an error: at most one
\* error is counted and the parse is over (parser.c:60, init.c:274).
StopsAtFirstError == ~Continues /\ errors > 0 => errors = 1 /\ label = "stop"

\* The parse of any text ends, and so does the parse of what pretty prints.
Ends == []<>(label = "stop")

\* Reprinted: the parse of what the toolbox printed for pretty is over.
Reprinted == before # NULL /\ label = "stop"

SameMeaning == /\ Len(puts) = Len(before.puts)
               /\ \A i \in DOMAIN puts : /\ puts[i].key = before.puts[i].key
                                          /\ puts[i].meant = before.puts[i].meant

\* parser.h:42: "Should escape the key values (inserting \ where needed)": a
\* file printed with its escaped values is read as the same definitions.
EscapedReads == Reprinted => errors = 0 /\ SameMeaning

\* Without blanks in the values, pretty keeps the meaning of every definition and
\* the text around them, and what it printed it prints again (toolbox.c:538).
PrettyKeeps ==
    Reprinted /\ (\A i \in DOMAIN before.puts :
                     Space \cap ToSet(before.puts[i].meant) = {})
        => /\ errors = 0 /\ SameMeaning
           /\ \A i \in 1..Len(puts) + 1 :
                 Gap(text, puts, i) = Gap(before.text, before.puts, i)
           /\ Pretty = text
=============================================================================
