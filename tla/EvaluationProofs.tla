-------------------------- MODULE EvaluationProofs --------------------------
(***************************************************************************)
(* Proofs about Evaluation, for every set of names, every file and every   *)
(* size of the parser's buffer: what the toolbox accepts, the library      *)
(* reads, and what the toolbox says of a key is true of its evaluation.    *)
(***************************************************************************)
EXTENDS Evaluation, SequenceFacts, SequenceTheorems, TLAPS

Text0 == Seq(Token)

ToolTypes ==
    /\ keys \in Seq([name : Keys, value : Text0, dependant : BOOLEAN])
    /\ cache \in [Names -> {NULL} \cup [normal : Text0, dependant : BOOLEAN]]
    /\ dependant \in BOOLEAN /\ errcount \in Nat /\ toolValue \in Text0

RunTypes ==
    /\ known \in SUBSET Keys
    /\ offsets \in [Keys -> Text0 \cup {NULL}]
    /\ dynvars \in [Foreign -> People \cup {NULL}]
    /\ errs \in Nat /\ excused \in Nat /\ stopped \in BOOLEAN /\ runValue \in Text0
    /\ row \in People \cup {NULL} /\ lost \in SUBSET Names

TypeInv == ToolTypes /\ RunTypes

\* The fields in the text v are those of the row p.
OfRow(v, p) == \A i \in DOMAIN v : v[i].kind \in Foreign => p # NULL /\ v[i].of = p

\* Unless a field was lost, both come from one row, and so do all the values.
RowInv ==
    lost \cap Foreign = {} =>
        /\ dynvars["HOME"] = dynvars["USER"]
        /\ OfRow(runValue, dynvars["HOME"])
        /\ \A n \in Keys : offsets[n] # NULL => OfRow(offsets[n], dynvars["HOME"])

\* What is kept comes from one row, whatever was lost.
KeptInv ==
    \A f, g \in Foreign : NULL \notin {dynvars[f], dynvars[g]} => dynvars[f] = dynvars[g]

\* The toolbox knows each name once, and caches what it knows.
NamesInv ==
    /\ \A i, j \in DOMAIN keys : keys[i].name = keys[j].name => i = j
    /\ \A n \in Keys : cache[n] # NULL => n \in Named

\* In a file checked so far the library has the names that the toolbox has,
\* until it stops or one is lost.
ReadsInv ==
    Checked =>
        /\ errs = excused
        /\ \A n \in Keys : offsets[n] # NULL => n \in Named
        /\ ~stopped => \A n \in Named : offsets[n] # NULL \/ n \in lost

\* Without an error nothing stopped the library and no key was lost.
QuietInv == errs = 0 => ~stopped /\ lost \subseteq Foreign

HasField(v) == \E i \in DOMAIN v : v[i].kind \in Foreign

\* A mark of the toolbox says that the evaluated text has a field.
MarksInv ==
    Checked /\ errs = 0 =>
        /\ dependant <=> HasField(runValue)
        /\ \A i \in DOMAIN keys : keys[i].dependant <=> HasField(offsets[keys[i].name])
        /\ \A n \in Keys : cache[n] # NULL => (cache[n].dependant <=> HasField(offsets[n]))
        /\ \A f \in Foreign : cache[f] # NULL => cache[f].dependant

\* For rpm a text without the mark is the evaluated one, and only such keys become
\* macros.
RpmInv ==
    Checked /\ errs = 0 /\ action = "RPM" =>
        /\ ~dependant => toolValue = runValue
        /\ \A i \in DOMAIN keys :
              ~keys[i].dependant => keys[i].value = offsets[keys[i].name]
        /\ \A n \in Keys :
              cache[n] # NULL => cache[n].dependant \/ cache[n].normal = offsets[n]

MacrosInv ==
    /\ \A k \in macros : ~k.dependant /\ \E i \in DOMAIN keys : k = keys[i]
    /\ macros # {} => action = "RPM"

\* With the fields d and the values o: a token that is not a reference, or one to
\* what has a value by now, and the text that the library has in its place.
Denotes(t, d, o) ==
    t.kind = "ref" => IF t.of \in Foreign THEN d[t.of] # NULL
                      ELSE t.of \in Keys /\ o[t.of] # NULL
Denoted(t, d, o) == IF t.kind # "ref" THEN <<t>>
                    ELSE IF t.of \in Foreign THEN <<Field(t.of, d[t.of])>>
                    ELSE o[t.of]

\* The normalized text v is a way to write the evaluated text w.
Means(v, w, d, o) ==
    /\ \A i \in DOMAIN v : Denotes(v[i], d, o)
    /\ w = FlattenSeq([i \in DOMAIN v |-> Denoted(v[i], d, o)])

\* What the toolbox holds, recorded and cached means what the library holds and
\* stored, up to the definition at which the library stopped.
SameInv ==
    Checked /\ errs = One(stopped) /\ lost = {} =>
        /\ ~stopped => Means(toolValue, runValue, dynvars, offsets)
        /\ \A i \in DOMAIN keys :
              LET value == offsets[keys[i].name]
              IN  IF value # NULL THEN Means(keys[i].value, value, dynvars, offsets)
                  ELSE stopped /\ \A j \in i..Len(keys) : offsets[keys[j].name] = NULL
        /\ \A n \in Keys : cache[n] # NULL /\ offsets[n] # NULL =>
              Means(cache[n].normal, offsets[n], dynvars, offsets)
        /\ \A f \in Foreign : cache[f] # NULL => cache[f].normal = <<Ref(f)>>

-----------------------------------------------------------------------------
(* The steps of the two readers.                                             *)

\* A literal, a reference and a field of a row are tokens.
LEMMA TokensAre ==
    /\ \A c \in Literals : Literal(c) \in Token
    /\ \A n \in Names : Ref(n) \in Token
    /\ \A n \in Foreign, p \in People : Field(n, p) \in Token
    /\ \A c : Literal(c).kind \notin Foreign
  BY DEF Literal, Ref, Field, Token, Foreign, Names

\* What get of the library does for a variable without a value, and with one.
RunMisses(n) ==
    /\ errs' = errs + 1 /\ excused' = excused + One(n \in Foreign \cup lost)
    /\ runValue' = runValue
    /\ n \in known => offsets[n] = NULL

RunReads(n) ==
    /\ errs' = errs /\ excused' = excused
    /\ \/ n \in known /\ offsets[n] # NULL /\ runValue' = runValue \o offsets[n]
       \/ /\ n \in Foreign /\ dynvars'[n] # NULL
          /\ runValue' = runValue \o <<Field(n, dynvars'[n])>>

\* What a read of a variable by the library changes.
LEMMA RunGetIs ==
    ASSUME RunTypes, NEW n \in Names, RunGet(n)
    PROVE  /\ dynvars' \in foreignpw(n) /\ UNCHANGED <<offsets, stopped>>
           /\ lost' = lost \cup {f \in Foreign : Looks(n) /\ dynvars'[f] = NULL}
           /\ RunMisses(n) \/ RunReads(n)
<1>1. PICK d \in foreignpw(n) : RunGet(n)!(d)
  BY DEF RunGet
<1> DEFINE undefined == IF n \in known THEN offsets[n] = NULL
                        ELSE n \notin Foreign \/ d[n] = NULL
<1>2. dynvars' = d /\ UNCHANGED <<offsets, stopped>>
  BY <1>1
<1>3. CASE undefined
  BY <1>1, <1>3 DEF RunMisses, One
<1>4. CASE ~undefined
  <2>1. /\ errs' = errs + One(undefined)
        /\ excused' = excused + One(undefined /\ n \in Foreign \cup lost)
        /\ runValue' = runValue \o (IF n \in known THEN offsets[n] ELSE <<Field(n, d[n])>>)
    BY <1>1, <1>4
  <2>2. errs' = errs /\ excused' = excused
    BY <1>4, <2>1 DEF One, RunTypes
  <2>3. ASSUME n \in known PROVE RunReads(n)
    <3>1. offsets[n] # NULL /\ runValue' = runValue \o offsets[n]
      BY <1>4, <2>1, <2>3
    <3> QED
      BY <2>2, <2>3, <3>1 DEF RunReads
  <2>4. ASSUME n \notin known PROVE RunReads(n)
    <3>1. n \in Foreign /\ d[n] # NULL /\ runValue' = runValue \o <<Field(n, d[n])>>
      BY <1>4, <2>1, <2>4
    <3> QED
      BY <1>2, <2>2, <3>1 DEF RunReads
  <2> QED
    BY <1>1, <1>2, <2>3, <2>4
<1> QED
  BY <1>1, <1>2, <1>3, <1>4

\* putcb of the library, for a name that gets the value or not.
LEMMA RunPutIs ==
    ASSUME RunTypes, NEW n \in Names, RunPut(n)
    PROVE  /\ runValue' = <<>> /\ UNCHANGED <<dynvars, stopped>>
           /\ \/ /\ n \in known /\ lost' = lost \cup {n} /\ offsets' = offsets
                 /\ errs' = errs + One(n \in known /\ offsets[n] # NULL) + 1
                 /\ excused' = excused + 1
              \/ /\ lost' = lost /\ excused' = excused
                 /\ errs' = errs + One(n \in known /\ offsets[n] # NULL)
                 /\ offsets' = IF n \in known THEN [offsets EXCEPT ![n] = runValue]
                                              ELSE offsets
<1>1. PICK full \in BOOLEAN : RunPut(n)!1!(full)
  BY DEF RunPut
<1>2. runValue' = <<>> /\ UNCHANGED <<dynvars, stopped>>
  BY DEF RunPut
<1>3. CASE full = TRUE
  BY <1>1, <1>2, <1>3 DEF One, RunTypes
<1>4. CASE full = FALSE
  BY <1>1, <1>2, <1>4 DEF One, RunTypes
<1> QED
  BY <1>3, <1>4

-----------------------------------------------------------------------------
(* Types.                                                                    *)

\* Both evaluations start with nothing defined.
LEMMA TypesInit == Init => TypeInv
<1> SUFFICES ASSUME Init PROVE TypeInv
  OBVIOUS
<1>1. <<>> \in Text0 /\ <<>> \in Seq([name : Keys, value : Text0, dependant : BOOLEAN])
  BY DEF Text0
<1>2. ToolTypes
  BY <1>1 DEF Init, ToolTypes
<1>3. RunTypes
  BY <1>1 DEF Init, RunTypes
<1> QED
  BY <1>2, <1>3 DEF TypeInv

\* The variables of the library keep their types.
LEMMA RunTypesStep == RunTypes /\ [Next]_vars => RunTypes'
<1> SUFFICES ASSUME RunTypes, [Next]_vars PROVE RunTypes'
  OBVIOUS
<1> USE DEF Text0
<1>1. \A v \in Text0, t \in Token : <<t>> \in Text0 /\ Append(v, t) \in Text0 /\ v \o <<t>> \in Text0
  OBVIOUS
<1>2. \A b : One(b) \in Nat
  BY DEF One
<1>3. ASSUME NEW c \in Literals, Text(c) PROVE RunTypes'
  <2>1. runValue' \in Text0
    BY <1>1, <1>3, TokensAre DEF RunTypes, Text
  <2> QED
    BY <1>3, <2>1 DEF RunTypes, Text, history
<1>4. ASSUME NEW n \in Names, Refer(n) PROVE RunTypes'
  <2>1. CASE stopped
    BY <1>4, <2>1 DEF Refer, LibraryIdle, library, history, RunTypes
  <2>2. ASSUME ~stopped PROVE RunTypes'
    <3>1. RunGet(n) /\ UNCHANGED <<known, row>>
      BY <1>4, <2>2 DEF Refer
    <3>2. /\ dynvars' \in foreignpw(n) /\ UNCHANGED <<offsets, stopped>>
          /\ lost' = lost \cup {f \in Foreign : Looks(n) /\ dynvars'[f] = NULL}
          /\ RunMisses(n) \/ RunReads(n)
      BY <3>1, RunGetIs
    <3>3. dynvars' \in [Foreign -> People \cup {NULL}]
      BY <3>2 DEF foreignpw, RunTypes
    <3>4. errs' \in Nat /\ excused' \in Nat
      BY <1>2, <3>2 DEF RunMisses, RunReads, RunTypes
    <3>5. runValue' \in Text0
      <4>1. CASE runValue' = runValue
        BY <4>1 DEF RunTypes
      <4>2. CASE n \in known /\ offsets[n] # NULL /\ runValue' = runValue \o offsets[n]
        BY <4>2 DEF RunTypes
      <4>3. CASE n \in Foreign /\ dynvars'[n] # NULL /\ runValue' = runValue \o <<Field(n, dynvars'[n])>>
        <5>1. Field(n, dynvars'[n]) \in Token
          BY <3>3, <4>3, TokensAre
        <5> QED
          BY <1>1, <4>3, <5>1 DEF RunTypes
      <4> QED
        BY <3>2, <4>1, <4>2, <4>3 DEF RunMisses, RunReads
    <3>6. lost' \in SUBSET Names
      BY <3>2 DEF RunTypes, Names
    <3> QED
      BY <3>1, <3>2, <3>3, <3>4, <3>5, <3>6 DEF RunTypes
  <2> QED
    BY <2>1, <2>2
<1>5. ASSUME NEW n \in Names, Define(n) PROVE RunTypes'
  <2>1. CASE stopped
    BY <1>5, <2>1 DEF Define, LibraryIdle, library, history, RunTypes
  <2>2. CASE RunStops /\ excused' = excused + 1
    BY <1>5, <2>2 DEF Define, RunStops, RunTypes
  <2>3. CASE RunPut(n)
    <3>1. UNCHANGED <<known, row>>
      BY <1>5 DEF Define
    <3>2. errs' \in Nat /\ excused' \in Nat /\ lost' \in SUBSET Names
      BY <2>3, RunPutIs DEF One, RunTypes
    <3>3. offsets' \in [Keys -> Text0 \cup {NULL}]
      BY <2>3, RunPutIs DEF RunTypes
    <3>4. runValue' = <<>> /\ dynvars' = dynvars /\ stopped' = stopped
      BY <2>3, RunPutIs
    <3>5. runValue' \in Text0
      BY <3>4
    <3> QED
      BY <3>1, <3>2, <3>3, <3>4, <3>5 DEF RunTypes
  <2> QED
    BY <1>5, <2>1, <2>2, <2>3 DEF Define
<1>6. CASE SyntaxError
  <2>1. CASE stopped
    BY <1>6, <2>1 DEF SyntaxError, LibraryIdle, library, history, RunTypes
  <2>2. CASE RunStops /\ UNCHANGED excused
    BY <1>6, <2>2 DEF SyntaxError, RunStops, RunTypes
  <2> QED
    BY <1>6, <2>1, <2>2 DEF SyntaxError
<1>7. CASE Generate \/ Fatal \/ PasswdChanges \/ UNCHANGED vars
  BY <1>7 DEF Generate, Fatal, PasswdChanges, library, history, vars, RunTypes
<1> QED
  BY <1>3, <1>4, <1>5, <1>6, <1>7 DEF Next

\* What the toolbox keeps of a name.
Row == [name : Keys, value : Text0, dependant : BOOLEAN]

\* The key that is found has this name.
LEMMA KeyIs ==
    ASSUME ToolTypes, NEW n, Found(n) # {}
    PROVE  \E i \in DOMAIN keys : keys[i].name = n /\ Key(n) = keys[i] /\ keys[i] \in Row
<1>1. (CHOOSE i \in Found(n) : TRUE) \in Found(n)
  OBVIOUS
<1> DEFINE i == CHOOSE i \in Found(n) : TRUE
<1>2. i \in DOMAIN keys /\ keys[i].name = n /\ Key(n) = keys[i]
  BY <1>1 DEF Key, Found
<1> HIDE DEF i
<1>3. keys \in Seq(Row)
  BY DEF ToolTypes, Row
<1>4. keys[i] \in Row
  BY <1>2, <1>3
<1> QED
  BY <1>2, <1>4

\* The variables of the toolbox keep their types.
LEMMA ToolTypesStep == ToolTypes /\ [Next]_vars => ToolTypes'
<1> SUFFICES ASSUME ToolTypes, [Next]_vars PROVE ToolTypes'
  OBVIOUS
<1>1. /\ \A v \in Text0, t \in Token : <<t>> \in Text0 /\ Append(v, t) \in Text0
      /\ \A v, w \in Text0 : v \o w \in Text0
  BY DEF Text0
<1>2. <<>> \in Text0
  BY DEF Text0
<1>3. ASSUME NEW c \in Literals, Text(c) PROVE ToolTypes'
  <2>1. toolValue' \in Text0
    BY <1>1, <1>3, TokensAre DEF ToolTypes, Text
  <2> QED
    BY <1>3, <2>1 DEF ToolTypes, Text
<1>4. ASSUME NEW n \in Names, Refer(n) PROVE ToolTypes'
  <2>1. ToolGet(n)
    BY <1>4 DEF Refer
  <2>2. CASE ToolCached(n)
    <3>1. cache[n].normal \in Text0 /\ cache[n].dependant \in BOOLEAN
      BY <2>2 DEF ToolCached, ToolTypes
    <3>2. toolValue' \in Text0 /\ dependant' \in BOOLEAN
      BY <1>1, <2>2, <3>1 DEF ToolCached, ToolTypes
    <3> QED
      BY <2>1, <2>2, <3>2 DEF ToolCached, ToolGet, ToolTypes
  <2>3. CASE ToolUnknown(n)
    <3>1. errcount' \in Nat /\ dependant' \in BOOLEAN /\ UNCHANGED <<cache, keys>>
      BY <2>1, <2>3 DEF ToolUnknown, ToolGet, ToolTypes
    <3>2. Literal("***error***") \in Token
      BY DEF Literal, Token
    <3>3. toolValue' \in Text0
      BY <1>1, <2>3, <3>2 DEF ToolUnknown, ToolTypes
    <3> QED
      BY <3>1, <3>3 DEF ToolTypes
  <2>4. CASE ToolUses(n)
    <3> DEFINE depend == IF n \in Foreign THEN TRUE ELSE Key(n).dependant
               normal == IF action = "RPM" /\ Found(n) # {} THEN Key(n).value ELSE <<Ref(n)>>
    <3>1. depend \in BOOLEAN
      BY <2>4, KeyIs DEF ToolUses, Row
    <3>2. normal \in Text0
      <4>1. Ref(n) \in Token
        BY TokensAre
      <4>2. Found(n) # {} => Key(n).value \in Text0
        BY KeyIs DEF Row
      <4>3. <<Ref(n)>> \in Text0
        BY <1>1, <1>2, <4>1
      <4> QED
        BY <4>2, <4>3
    <3>3. /\ dependant' = (dependant \/ depend) /\ toolValue' = toolValue \o normal
          /\ cache' = [cache EXCEPT ![n] = [normal |-> normal, dependant |-> depend]]
          /\ UNCHANGED <<errcount, keys>>
      BY <2>1, <2>4 DEF ToolUses, ToolGet
    <3> HIDE DEF depend, normal
    <3>4. toolValue' \in Text0 /\ dependant' \in BOOLEAN
      BY <1>1, <3>1, <3>2, <3>3 DEF ToolTypes
    <3>5. cache' \in [Names -> {NULL} \cup [normal : Text0, dependant : BOOLEAN]]
      BY <3>1, <3>2, <3>3 DEF ToolTypes
    <3> QED
      BY <3>3, <3>4, <3>5 DEF ToolTypes
  <2> QED
    BY <2>1, <2>2, <2>3, <2>4 DEF ToolGet
<1>5. ASSUME NEW n \in Names, Define(n) PROVE ToolTypes'
  <2>1. CASE ToolRefuses
    BY <1>2, <2>1 DEF ToolRefuses, ToolTypes
  <2>2. CASE ToolPut(n)
    <3>1. dependant' = FALSE /\ toolValue' = <<>> /\ cache' = cache
      BY <2>2 DEF ToolPut
    <3>2. errcount' \in {errcount, errcount + 1}
      BY <2>2 DEF ToolPut
    <3>3. dependant' \in BOOLEAN /\ toolValue' \in Text0
      BY <1>2, <3>1
    <3>4. errcount' \in Nat
      BY <3>2 DEF ToolTypes
    <3>5. CASE keys' = keys
      BY <3>1, <3>3, <3>4, <3>5 DEF ToolTypes
    <3>6. CASE n \notin Foreign /\ keys' = Append(keys, [name |-> n, value |-> toolValue,
                                                        dependant |-> dependant])
      <4>1. [name |-> n, value |-> toolValue, dependant |-> dependant] \in Row
        BY <3>6 DEF Row, ToolTypes, Names
      <4>2. keys' \in Seq(Row)
        BY <3>6, <4>1 DEF ToolTypes, Row
      <4> QED
        BY <3>1, <3>3, <3>4, <4>2 DEF ToolTypes, Row
    <3> QED
      BY <2>2, <3>5, <3>6 DEF ToolPut
  <2> QED
    BY <1>5, <2>1, <2>2 DEF Define
<1>6. CASE SyntaxError
  <2>1. errcount' = errcount + 1 /\ toolValue' \in {<<>>, toolValue}
        /\ UNCHANGED <<keys, cache, dependant>>
    BY <1>6 DEF SyntaxError
  <2> QED
    BY <1>2, <2>1 DEF ToolTypes
<1>7. CASE Generate \/ Fatal \/ PasswdChanges \/ UNCHANGED vars
  BY <1>7 DEF Generate, Fatal, PasswdChanges, toolbox, vars, ToolTypes
<1> QED
  BY <1>3, <1>4, <1>5, <1>6, <1>7 DEF Next

\* Both readers keep their types.
LEMMA TypesStep == TypeInv /\ [Next]_vars => TypeInv'
  BY RunTypesStep, ToolTypesStep DEF TypeInv

-----------------------------------------------------------------------------
(* One row.                                                                  *)

\* A text of fields of one row stays one when such a text is added, and a text
\* without fields is of any row.
LEMMA RowTexts ==
    ASSUME NEW p
    PROVE  /\ \A v, w \in Text0 : OfRow(v, p) /\ OfRow(w, p) => OfRow(v \o w, p)
           /\ \A t \in Token : (t.kind \in Foreign => p # NULL /\ t.of = p) => OfRow(<<t>>, p)
           /\ \A v : OfRow(v, NULL) => OfRow(v, p)
           /\ OfRow(<<>>, p)
<1>1. ASSUME NEW v \in Text0, NEW w \in Text0, OfRow(v, p), OfRow(w, p)
      PROVE  OfRow(v \o w, p)
  <2>1. ASSUME NEW i \in DOMAIN (v \o w), (v \o w)[i].kind \in Foreign
        PROVE  p # NULL /\ (v \o w)[i].of = p
    <3>1. CASE i \in DOMAIN v
      <4>1. (v \o w)[i] = v[i]
        BY <3>1 DEF Text0
      <4> QED
        BY <1>1, <2>1, <3>1, <4>1 DEF OfRow
    <3>2. CASE i \notin DOMAIN v
      <4>1. i - Len(v) \in DOMAIN w /\ (v \o w)[i] = w[i - Len(v)]
        BY <3>2 DEF Text0
      <4> QED
        BY <1>1, <2>1, <4>1 DEF OfRow
    <3> QED
      BY <3>1, <3>2
  <2> QED
    BY <2>1 DEF OfRow
<1> QED
  BY <1>1 DEF OfRow

\* Fields come from the row that gave both of them, unless one was lost.
LEMMA RowStep == TypeInv /\ RowInv /\ [Next]_vars => RowInv'
<1> SUFFICES ASSUME TypeInv, RowInv, [Next]_vars, lost' \cap Foreign = {}
             PROVE  /\ dynvars'["HOME"] = dynvars'["USER"]
                    /\ OfRow(runValue', dynvars'["HOME"])
                    /\ \A n \in Keys : offsets'[n] # NULL => OfRow(offsets'[n], dynvars'["HOME"])
  BY DEF RowInv
<1> DEFINE home == dynvars["HOME"]
<1>1. ASSUME lost \cap Foreign = {}
      PROVE  /\ dynvars["HOME"] = dynvars["USER"] /\ OfRow(runValue, home)
             /\ \A n \in Keys : offsets[n] # NULL => OfRow(offsets[n], home)
  BY <1>1 DEF RowInv
<1>2. CASE UNCHANGED <<runValue, offsets, dynvars, lost>>
  BY <1>1, <1>2
<1>3. ASSUME NEW c \in Literals, runValue' = Append(runValue, Literal(c)),
             UNCHANGED <<offsets, dynvars, lost>>
      PROVE  OfRow(runValue', home)
  <2>1. Append(runValue, Literal(c)) = runValue \o <<Literal(c)>> /\ <<Literal(c)>> \in Text0
    BY TokensAre DEF TypeInv, RunTypes, Text0
  <2>2. OfRow(<<Literal(c)>>, home)
    BY RowTexts, TokensAre
  <2>3. OfRow(runValue, home) /\ runValue \in Text0
    BY <1>1, <1>3 DEF TypeInv, RunTypes
  <2> QED
    BY <1>3, <2>1, <2>2, <2>3, RowTexts
<1>4. ASSUME NEW n \in Names, RunGet(n)
      PROVE  /\ dynvars'["HOME"] = dynvars'["USER"] /\ OfRow(runValue', dynvars'["HOME"])
             /\ \A m \in Keys : offsets'[m] # NULL => OfRow(offsets'[m], dynvars'["HOME"])
  <2>1. /\ dynvars' \in foreignpw(n) /\ offsets' = offsets
        /\ lost' = lost \cup {f \in Foreign : Looks(n) /\ dynvars'[f] = NULL}
        /\ RunMisses(n) \/ RunReads(n)
    BY <1>4, RunGetIs DEF TypeInv
  <2>2. lost \cap Foreign = {} /\ \A f \in Foreign : Looks(n) => dynvars'[f] # NULL
    BY <2>1
  <2>3. dynvars'["HOME"] = dynvars'["USER"] /\ (home = NULL \/ dynvars' = dynvars)
    <3>1. CASE Looks(n)
      <4>1. dynvars' \in [Foreign -> {row, NULL}]
        BY <2>1, <2>2, <3>1 DEF foreignpw, Looks
      <4> QED
        BY <1>1, <2>2, <3>1, <4>1 DEF Looks, Foreign
    <3>2. CASE ~Looks(n)
      BY <1>1, <2>1, <2>2, <3>2 DEF foreignpw
    <3> QED
      BY <3>1, <3>2
  <2>4. \A v : OfRow(v, home) => OfRow(v, dynvars'["HOME"])
    BY <2>3, RowTexts
  <2>5. OfRow(runValue', dynvars'["HOME"])
    <3>1. OfRow(runValue, dynvars'["HOME"]) /\ runValue \in Text0
      BY <1>1, <2>2, <2>4 DEF TypeInv, RunTypes
    <3>2. CASE n \in known /\ offsets[n] # NULL /\ runValue' = runValue \o offsets[n]
      <4>1. offsets[n] \in Text0 /\ OfRow(offsets[n], dynvars'["HOME"])
        BY <1>1, <2>2, <2>4, <3>2 DEF TypeInv, RunTypes
      <4> QED
        BY <3>1, <3>2, <4>1, RowTexts
    <3>3. CASE n \in Foreign /\ dynvars'[n] # NULL
               /\ runValue' = runValue \o <<Field(n, dynvars'[n])>>
      <4>1. dynvars'[n] = dynvars'["HOME"] /\ dynvars' \in [Foreign -> People \cup {NULL}]
        BY <2>1, <2>3, <3>3 DEF Foreign, foreignpw, TypeInv, RunTypes
      <4>2. Field(n, dynvars'[n]) \in Token /\ Field(n, dynvars'[n]).of = dynvars'[n]
        BY <3>3, <4>1, TokensAre DEF Field
      <4>3. OfRow(<<Field(n, dynvars'[n])>>, dynvars'["HOME"])
        BY <3>3, <4>1, <4>2, RowTexts
      <4>4. <<Field(n, dynvars'[n])>> \in Text0
        BY <4>2 DEF Text0
      <4> QED
        BY <3>1, <3>3, <4>3, <4>4, RowTexts
    <3> QED
      BY <2>1, <3>1, <3>2, <3>3 DEF RunMisses, RunReads
  <2> QED
    BY <1>1, <2>1, <2>2, <2>3, <2>4, <2>5
<1>5. ASSUME NEW n \in Names, RunPut(n)
      PROVE  /\ runValue' = <<>> /\ dynvars' = dynvars /\ lost \cap Foreign = {}
             /\ \A m \in Keys : offsets'[m] \in {offsets[m], runValue}
  <2>1. runValue' = <<>> /\ dynvars' = dynvars
    BY <1>5, RunPutIs DEF TypeInv
  <2>2. lost \subseteq lost' /\ offsets' \in {offsets, [offsets EXCEPT ![n] = runValue]}
    BY <1>5, RunPutIs DEF TypeInv
  <2> QED
    BY <2>1, <2>2 DEF TypeInv, RunTypes
<1>6. CASE RunStops
  BY <1>1, <1>6, RowTexts DEF RunStops
<1>7. ASSUME NEW c \in Literals, Text(c)
      PROVE  runValue' \in {runValue, Append(runValue, Literal(c))} /\ UNCHANGED <<offsets, dynvars, lost>>
  BY <1>7 DEF Text, history
<1>8. ASSUME NEW n \in Names, Refer(n) \/ Define(n)
      PROVE  UNCHANGED <<runValue, offsets, dynvars, lost>> \/ RunGet(n) \/ RunPut(n) \/ RunStops
  BY <1>8 DEF Refer, Define, LibraryIdle, library, history
<1>9. ASSUME SyntaxError \/ Generate \/ Fatal \/ PasswdChanges \/ UNCHANGED vars
      PROVE  UNCHANGED <<runValue, offsets, dynvars, lost>> \/ RunStops
  BY <1>9 DEF SyntaxError, Generate, Fatal, PasswdChanges, LibraryIdle, library, history, vars
<1> QED
  <2>1. ASSUME NEW n \in Names, RunPut(n)
        PROVE  /\ dynvars'["HOME"] = dynvars'["USER"] /\ OfRow(runValue', dynvars'["HOME"])
               /\ \A m \in Keys : offsets'[m] # NULL => OfRow(offsets'[m], dynvars'["HOME"])
    BY <1>1, <1>5, <2>1, RowTexts
  <2> QED
    BY <1>1, <1>2, <1>3, <1>4, <1>6, <1>7, <1>8, <1>9, <2>1 DEF Next

\* Both fields are written by the same lookup, or stay.
LEMMA KeptStep == TypeInv /\ KeptInv /\ [Next]_vars => KeptInv'
<1> SUFFICES ASSUME TypeInv, KeptInv, [Next]_vars PROVE KeptInv'
  OBVIOUS
<1>1. ASSUME UNCHANGED dynvars PROVE KeptInv'
  BY <1>1 DEF KeptInv
<1>2. ASSUME NEW n \in Names, RunGet(n) PROVE KeptInv'
  <2>1. dynvars' \in foreignpw(n)
    BY <1>2, RunGetIs DEF TypeInv
  <2>2. dynvars' \in [Foreign -> {row, NULL}] \/ dynvars' = dynvars
    BY <2>1 DEF foreignpw
  <2> QED
    BY <1>1, <2>2 DEF KeptInv
<1>3. ASSUME NEW n \in Names, RunPut(n) PROVE KeptInv'
  BY <1>1, <1>3, RunPutIs DEF TypeInv
<1>4. CASE RunStops
  BY <1>1, <1>4 DEF RunStops
<1>5. ASSUME NEW c \in Literals, Text(c) PROVE KeptInv'
  BY <1>1, <1>5 DEF Text
<1>6. ASSUME NEW n \in Names, Refer(n) \/ Define(n) PROVE KeptInv'
  <2>1. UNCHANGED dynvars \/ RunGet(n) \/ RunPut(n) \/ RunStops
    BY <1>6 DEF Refer, Define, LibraryIdle, library
  <2> QED
    BY <1>1, <1>2, <1>3, <1>4, <2>1
<1>7. ASSUME SyntaxError \/ Generate \/ Fatal \/ PasswdChanges \/ UNCHANGED vars
      PROVE  KeptInv'
  <2>1. UNCHANGED dynvars \/ RunStops
    BY <1>7 DEF SyntaxError, Generate, Fatal, PasswdChanges, LibraryIdle, library, vars
  <2> QED
    BY <1>1, <1>4, <2>1
<1> QED
  BY <1>5, <1>6, <1>7 DEF Next

\* The two fields that are kept always come from one row, whatever is lost and however
\* often passwd is edited and read again; so do all the fields that the values of one
\* evaluation use, unless one was lost.
THEOREM OneUserAlways == Spec => []OneUser
<1>1. Init => RowInv /\ KeptInv
  BY RowTexts DEF Init, RowInv, KeptInv, Foreign
<1>2. TypeInv /\ RowInv /\ KeptInv => OneUser
  <2> SUFFICES ASSUME TypeInv, RowInv, lost \cap Foreign = {},
                      NEW t \in FieldsUsed, NEW u \in FieldsUsed
               PROVE  t.of = u.of
    BY DEF OneUser, KeptInv
  <2>1. ASSUME NEW f \in FieldsUsed PROVE f.of = dynvars["HOME"]
    <3>1. PICK v \in ({offsets[n] : n \in Keys} \ {NULL}) \cup {runValue} : f \in ToSet(v)
      BY DEF FieldsUsed
    <3>2. OfRow(v, dynvars["HOME"])
      BY <3>1 DEF RowInv
    <3>3. PICK i \in DOMAIN v : f = v[i]
      BY <3>1 DEF ToSet
    <3>4. f.kind \in Foreign
      BY DEF FieldsUsed
    <3> QED
      BY <3>2, <3>3, <3>4 DEF OfRow
  <2> QED
    BY <2>1
<1> QED
  BY <1>1, <1>2, TypesInit, TypesStep, RowStep, KeptStep, PTL DEF Spec

-----------------------------------------------------------------------------
(* What the toolbox accepts.                                                 *)

\* A name that is found is that of a key.
LEMMA NamedIs == \A n : Found(n) # {} <=> n \in Named
  BY DEF Found, Named

\* A definition that the toolbox does not count as an error is that of a new key.
LEMMA Defines ==
    ASSUME TypeInv, NEW n \in Names, Define(n), errcount' = 0
    PROVE  /\ errcount = 0 /\ n \in Keys /\ n \notin Named /\ cache' = cache
           /\ keys' = Append(keys, [name |-> n, value |-> toolValue, dependant |-> dependant])
           /\ dependant' = FALSE /\ toolValue' = <<>>
<1>1. ~ToolRefuses
  BY DEF ToolRefuses, TypeInv, ToolTypes
<1>2. ToolPut(n)
  BY <1>1 DEF Define
<1>3. ~(n \in Foreign \/ Found(n) # {})
  BY <1>2 DEF ToolPut, TypeInv, ToolTypes
<1>4. errcount = 0 /\ keys' = Append(keys, [name |-> n, value |-> toolValue, dependant |-> dependant])
  BY <1>2, <1>3 DEF ToolPut
<1> QED
  BY <1>2, <1>3, <1>4, NamedIs DEF ToolPut, Names

\* The names of the keys when one is added at the end.
LEMMA NamedGrows ==
    ASSUME ToolTypes, NEW k, keys' = Append(keys, k)
    PROVE  /\ Named' = Named \cup {k.name}
           /\ DOMAIN keys' = DOMAIN keys \cup {Len(keys) + 1} /\ Len(keys) + 1 \notin DOMAIN keys
           /\ keys'[Len(keys) + 1] = k /\ \A i \in DOMAIN keys : keys'[i] = keys[i]
<1>1. keys \in Seq(Row)
  BY DEF ToolTypes, Row
<1>2. /\ DOMAIN keys' = DOMAIN keys \cup {Len(keys) + 1} /\ Len(keys) + 1 \notin DOMAIN keys
      /\ keys'[Len(keys) + 1] = k /\ \A i \in DOMAIN keys : keys'[i] = keys[i]
  BY <1>1
<1> QED
  BY <1>2 DEF Named

\* A reference that the toolbox does not count as an error is to a foreign name or
\* to a key.
LEMMA Refers ==
    ASSUME TypeInv, NamesInv, NEW n \in Names, ToolGet(n), errcount' = 0
    PROVE  errcount = 0 /\ keys' = keys /\ ~ToolUnknown(n) /\ (n \in Foreign \/ n \in Named)
<1>1. ~ToolUnknown(n)
  BY DEF ToolUnknown, TypeInv, ToolTypes
<1>2. ToolCached(n) \/ ToolUses(n)
  BY <1>1 DEF ToolGet
<1>3. n \in Foreign \/ n \in Named
  BY <1>2, NamedIs DEF ToolCached, ToolUses, NamesInv, Names
<1> QED
  BY <1>1, <1>2, <1>3 DEF ToolCached, ToolUses, ToolGet

\* The other steps leave the toolbox alone, or are errors.
LEMMA Others ==
    ASSUME TypeInv, [Next]_vars, \A n \in Names : ~Refer(n) /\ ~Define(n), errcount' = 0
    PROVE  ~SyntaxError /\ UNCHANGED <<keys, cache, dependant, errcount, offsets, dynvars,
                                       errs, excused, lost, stopped, known, action>>
<1>1. ~SyntaxError
  BY DEF SyntaxError, TypeInv, ToolTypes
<1>2. ASSUME NEW c \in Literals, Text(c)
      PROVE  UNCHANGED <<keys, cache, dependant, errcount, offsets, dynvars,
                         errs, excused, lost, stopped, known, action>>
  BY <1>2 DEF Text, history
<1> QED
  BY <1>1, <1>2 DEF Next, Generate, Fatal, PasswdChanges, vars, toolbox, library, history

\* No step defines a name twice or caches one that is not defined.
LEMMA NamesStep == TypeInv /\ NamesInv /\ [Next]_vars => NamesInv'
<1> SUFFICES ASSUME TypeInv, NamesInv, [Next]_vars PROVE NamesInv'
  OBVIOUS
<1>1. ASSUME NEW n \in Names, Refer(n) PROVE NamesInv'
  <2>1. ToolGet(n) /\ keys' = keys
    BY <1>1 DEF Refer, ToolGet
  <2>2. ASSUME NEW m \in Keys, cache'[m] # NULL PROVE m \in Named
    <3>1. CASE cache'[m] = cache[m]
      BY <2>2, <3>1 DEF NamesInv
    <3>2. CASE cache'[m] # cache[m]
      <4>1. ToolUses(n)
        BY <2>1, <3>2 DEF ToolGet, ToolCached, ToolUnknown
      <4>2. m = n
        BY <3>2, <4>1 DEF ToolUses, TypeInv, ToolTypes, Names
      <4> QED
        BY <2>2, <4>1, <4>2, NamedIs, EvaluationAssumption DEF ToolUses
    <3> QED
      BY <3>1, <3>2
  <2> QED
    BY <2>1, <2>2 DEF NamesInv, Named
<1>2. ASSUME NEW n \in Names, Define(n) PROVE NamesInv'
  <2>1. CASE keys' = keys /\ cache' = cache
    BY <2>1 DEF NamesInv, Named
  <2>2. CASE /\ keys' = Append(keys, [name |-> n, value |-> toolValue, dependant |-> dependant])
             /\ cache' = cache /\ n \notin Named
    BY <2>2, NamedGrows DEF NamesInv, Named, TypeInv
  <2> QED
    BY <1>2, <2>1, <2>2, NamedIs DEF Define, ToolRefuses, ToolPut
<1>3. CASE \A n \in Names : ~Refer(n) /\ ~Define(n)
  <2>1. keys' = keys /\ cache' = cache
    BY <1>3 DEF Next, Text, SyntaxError, Generate, Fatal, PasswdChanges, vars, toolbox
  <2> QED
    BY <2>1 DEF NamesInv, Named
<1> QED
  BY <1>1, <1>2, <1>3

\* What is accepted after a step was accepted before it.
LEMMA CheckedBefore ==
    ASSUME TypeInv, NamesInv, [Next]_vars, Checked'
    PROVE  Checked /\ errcount' = 0 /\ known' = known /\ Named \subseteq Named'
<1>1. errcount' = 0 /\ Named' \subseteq known'
  BY DEF Checked
<1>2. known' = known
  BY DEF Next, Text, Refer, Define, SyntaxError, Generate, Fatal, PasswdChanges, vars
<1>3. errcount = 0 /\ Named \subseteq Named'
  <2>1. ASSUME NEW n \in Names, Refer(n) PROVE errcount = 0 /\ keys' = keys
    BY <1>1, <2>1, Refers DEF Refer
  <2>2. ASSUME NEW n \in Names, Define(n) PROVE errcount = 0 /\ Named \subseteq Named'
    BY <1>1, <2>2, Defines, NamedGrows DEF TypeInv
  <2>3. CASE \A n \in Names : ~Refer(n) /\ ~Define(n)
    BY <1>1, <2>3, Others DEF Named
  <2> QED
    BY <2>1, <2>2, <2>3 DEF Named
<1> QED
  BY <1>1, <1>2, <1>3 DEF Checked

\* A checked step defines for the library what it defines for the toolbox.
LEMMA ReadsStep == TypeInv /\ NamesInv /\ ReadsInv /\ [Next]_vars => ReadsInv'
<1> SUFFICES ASSUME TypeInv, NamesInv, ReadsInv, [Next]_vars, Checked'
             PROVE  /\ errs' = excused'
                    /\ \A n \in Keys : offsets'[n] # NULL => n \in Named'
                    /\ ~stopped' => \A n \in Named' : offsets'[n] # NULL \/ n \in lost'
  BY DEF ReadsInv
<1>1. /\ errcount' = 0 /\ Named' \subseteq known /\ Named \subseteq Named' /\ Checked
      /\ errs = excused /\ errs \in Nat
      /\ \A n \in Keys : offsets[n] # NULL => n \in Named
      /\ ~stopped => \A n \in Named : offsets[n] # NULL \/ n \in lost
  BY CheckedBefore DEF ReadsInv, Checked, TypeInv, RunTypes
<1>2. ASSUME NEW n \in Names, Refer(n)
      PROVE  /\ errs' = excused' /\ UNCHANGED <<offsets, stopped, keys>>
             /\ lost \subseteq lost'
  <2>1. keys' = keys /\ (n \in Foreign \/ n \in Named)
    BY <1>1, <1>2, Refers DEF Refer
  <2>2. CASE stopped
    BY <1>1, <1>2, <2>1, <2>2 DEF Refer, LibraryIdle, library, history
  <2>3. CASE ~stopped
    <3>1. RunGet(n)
      BY <1>2, <2>3 DEF Refer
    <3>2. UNCHANGED <<offsets, stopped>> /\ lost \subseteq lost' /\ (RunMisses(n) \/ RunReads(n))
      BY <3>1, RunGetIs DEF TypeInv
    <3>3. CASE RunReads(n)
      BY <1>1, <2>1, <3>2, <3>3 DEF RunReads
    <3>4. CASE RunMisses(n)
      <4>1. n \in Foreign \cup lost
        BY <1>1, <2>1, <2>3, <3>4 DEF RunMisses
      <4> QED
        BY <1>1, <2>1, <3>2, <3>4, <4>1 DEF RunMisses, One
    <3> QED
      BY <3>2, <3>3, <3>4
  <2> QED
    BY <2>2, <2>3
<1>3. ASSUME NEW n \in Names, Define(n)
      PROVE  /\ errs' = excused'
             /\ \A m \in Keys : offsets'[m] # NULL => m \in Named'
             /\ ~stopped' => \A m \in Named' : offsets'[m] # NULL \/ m \in lost'
  <2>1. n \in Keys /\ n \notin Named /\ Named' = Named \cup {n}
    BY <1>1, <1>3, Defines, NamedGrows DEF TypeInv
  <2>2. offsets[n] = NULL /\ n \in known
    BY <1>1, <2>1
  <2>3. CASE stopped
    <3>1. LibraryIdle
      BY <1>3, <2>3 DEF Define
    <3> QED
      BY <1>1, <2>1, <2>3, <3>1 DEF LibraryIdle, library, history
  <2>4. CASE RunStops /\ excused' = excused + 1
    BY <1>1, <2>1, <2>4 DEF RunStops
  <2>5. CASE RunPut(n) /\ ~stopped
    <3>1. One(n \in known /\ offsets[n] # NULL) = 0
      BY <2>2 DEF One
    <3>2. CASE /\ lost' = lost \cup {n} /\ offsets' = offsets
               /\ errs' = errs + 0 + 1 /\ excused' = excused + 1
      BY <1>1, <2>1, <2>5, <3>2
    <3>3. CASE /\ lost' = lost /\ excused' = excused /\ errs' = errs + 0
               /\ offsets' = [offsets EXCEPT ![n] = runValue]
      <4>1. runValue # NULL
        BY EvaluationAssumption DEF TypeInv, RunTypes, Text0
      <4>2. \A m \in Keys : offsets'[m] = IF m = n THEN runValue ELSE offsets[m]
        BY <3>3 DEF TypeInv, RunTypes
      <4>3. Named' \subseteq Keys
        BY <1>1 DEF TypeInv, RunTypes
      <4> QED
        BY <1>1, <2>1, <2>5, <3>3, <4>1, <4>2, <4>3
    <3> QED
      BY <2>2, <2>5, <3>1, <3>2, <3>3, RunPutIs DEF TypeInv
  <2> QED
    BY <1>3, <2>3, <2>4, <2>5 DEF Define
<1>4. CASE \A n \in Names : ~Refer(n) /\ ~Define(n)
  BY <1>1, <1>4, Others DEF Named
<1> QED
  BY <1>1, <1>2, <1>3, <1>4 DEF Named

\* The library reads a file that the toolbox accepts without an error of its own:
\* every error that it counts is the environment's.
THEOREM CheckedFileReadsAlways == Spec => []CheckedFileReads
<1>1. Init => NamesInv /\ ReadsInv
  BY DEF Init, NamesInv, ReadsInv, Checked, Named, Names
<1>2. ReadsInv => CheckedFileReads
  BY DEF ReadsInv, CheckedFileReads
<1> QED
  BY <1>1, <1>2, TypesInit, TypesStep, NamesStep, ReadsStep, PTL DEF Spec

-----------------------------------------------------------------------------
(* The marks of the toolbox, while nobody met an error.                      *)

\* A text has a field when one of its parts has.
LEMMA FieldTexts ==
    /\ \A v, w \in Text0 : HasField(v \o w) <=> HasField(v) \/ HasField(w)
    /\ \A t : HasField(<<t>>) <=> t.kind \in Foreign
    /\ ~HasField(<<>>)
<1>1. ASSUME NEW v \in Text0, NEW w \in Text0
      PROVE  HasField(v \o w) <=> HasField(v) \/ HasField(w)
  <2>1. ASSUME NEW i \in DOMAIN v
        PROVE  i \in DOMAIN (v \o w) /\ (v \o w)[i] = v[i]
    BY <2>1 DEF Text0
  <2>2. ASSUME NEW i \in DOMAIN w
        PROVE  Len(v) + i \in DOMAIN (v \o w) /\ (v \o w)[Len(v) + i] = w[i]
    BY <2>2 DEF Text0
  <2>3. ASSUME NEW i \in DOMAIN (v \o w), i \notin DOMAIN v
        PROVE  i - Len(v) \in DOMAIN w /\ (v \o w)[i] = w[i - Len(v)]
    BY <2>3 DEF Text0
  <2>4. HasField(v) \/ HasField(w) => HasField(v \o w)
    BY <2>1, <2>2 DEF HasField
  <2>5. HasField(v \o w) => HasField(v) \/ HasField(w)
    BY <2>1, <2>3 DEF HasField
  <2> QED
    BY <2>4, <2>5
<1> QED
  BY <1>1 DEF HasField

\* What stops the library, or loses a key, counts as an error.
LEMMA QuietStep == TypeInv /\ QuietInv /\ [Next]_vars => QuietInv' /\ (errs' = 0 => errs = 0)
<1> SUFFICES ASSUME TypeInv, QuietInv, [Next]_vars, errs' = 0
             PROVE  errs = 0 /\ stopped' = stopped /\ lost' \subseteq lost \cup Foreign
  BY DEF QuietInv
<1>1. errs \in Nat /\ ~RunStops
  BY DEF TypeInv, RunTypes, RunStops
<1>2. ASSUME NEW n \in Names, RunGet(n)
      PROVE  errs = 0 /\ stopped' = stopped /\ lost' \subseteq lost \cup Foreign
  <2>1. /\ stopped' = stopped /\ (RunMisses(n) \/ RunReads(n))
        /\ lost' = lost \cup {f \in Foreign : Looks(n) /\ dynvars'[f] = NULL}
    BY <1>2, RunGetIs DEF TypeInv
  <2>2. errs = 0
    BY <1>1, <2>1 DEF RunMisses, RunReads
  <2> QED
    BY <2>1, <2>2
<1>3. ASSUME NEW n \in Names, RunPut(n)
      PROVE  errs = 0 /\ stopped' = stopped /\ lost' = lost
  BY <1>1, <1>3, RunPutIs DEF One, TypeInv
<1>4. CASE LibraryIdle
  BY <1>4 DEF LibraryIdle, library, history
<1>5. ASSUME NEW n \in Names, Refer(n) \/ Define(n)
      PROVE  RunGet(n) \/ RunPut(n) \/ LibraryIdle
  BY <1>1, <1>5 DEF Refer, Define
<1>6. CASE \A n \in Names : ~Refer(n) /\ ~Define(n)
  <2>1. ASSUME NEW c \in Literals, Text(c) PROVE UNCHANGED <<errs, stopped, lost>>
    BY <2>1 DEF Text, history
  <2>2. CASE SyntaxError
    BY <1>1, <1>4, <2>2 DEF SyntaxError
  <2>3. CASE Generate \/ Fatal \/ PasswdChanges \/ UNCHANGED vars
    BY <2>3 DEF Generate, Fatal, PasswdChanges, vars, library, history
  <2> QED
    BY <1>6, <2>1, <2>2, <2>3 DEF Next
<1> QED
  BY <1>2, <1>3, <1>4, <1>5, <1>6

\* All the invariants that the marks rest on.
QuietTypes == TypeInv /\ NamesInv /\ ReadsInv /\ QuietInv

\* Without errors both readers find a value for a reference: the library a field
\* or the value of the key.
LEMMA Reference ==
    ASSUME QuietTypes, [Next]_vars, Checked', errs' = 0, NEW n \in Names, Refer(n)
    PROVE  /\ Checked /\ errs = 0 /\ keys' = keys /\ offsets' = offsets
           /\ ToolCached(n) \/ ToolUses(n)
           /\ \/ n \in Foreign /\ \E t \in Token : t.kind \in Foreign /\ runValue' = runValue \o <<t>>
              \/ /\ n \in Keys /\ n \notin Foreign /\ n \in Named
                 /\ offsets[n] \in Text0 /\ runValue' = runValue \o offsets[n]
<1>1. Checked /\ errcount' = 0 /\ errs = 0 /\ ~stopped
  BY CheckedBefore, QuietStep DEF QuietTypes, QuietInv
<1>2. ToolGet(n) /\ RunGet(n)
  BY <1>1 DEF Refer
<1>3. keys' = keys /\ (ToolCached(n) \/ ToolUses(n)) /\ (n \in Foreign \/ n \in Named)
  BY <1>1, <1>2, Refers DEF QuietTypes, ToolGet
<1>4. offsets' = offsets /\ dynvars' \in foreignpw(n) /\ (RunMisses(n) \/ RunReads(n))
  BY <1>2, RunGetIs DEF QuietTypes, TypeInv
<1>5. ~RunMisses(n)
  BY <1>1 DEF RunMisses
<1>6. CASE n \in known /\ offsets[n] # NULL /\ runValue' = runValue \o offsets[n]
  <2>1. n \in Keys /\ n \notin Foreign /\ offsets[n] \in Text0
    BY <1>6, EvaluationAssumption DEF QuietTypes, TypeInv, RunTypes
  <2> QED
    BY <1>1, <1>3, <1>4, <1>6, <2>1
<1>7. CASE n \in Foreign /\ dynvars'[n] # NULL /\ runValue' = runValue \o <<Field(n, dynvars'[n])>>
  <2>1. dynvars' \in [Foreign -> People \cup {NULL}]
    BY <1>4 DEF foreignpw, QuietTypes, TypeInv, RunTypes
  <2>2. Field(n, dynvars'[n]) \in Token /\ Field(n, dynvars'[n]).kind \in Foreign
    BY <1>7, <2>1, TokensAre DEF Field
  <2> QED
    BY <1>1, <1>3, <1>4, <1>7, <2>2
<1> QED
  BY <1>4, <1>5, <1>6, <1>7 DEF RunReads

\* Without errors a definition gives one new key to both readers.
LEMMA Definition ==
    ASSUME QuietTypes, [Next]_vars, Checked', errs' = 0, NEW n \in Names, Define(n)
    PROVE  /\ Checked /\ errs = 0 /\ n \in Keys /\ n \notin Named /\ runValue' = <<>>
           /\ \A m \in Keys : offsets'[m] = IF m = n THEN runValue ELSE offsets[m]
<1>1. Checked /\ errcount' = 0 /\ errs = 0 /\ ~stopped /\ n \in Keys /\ n \notin Named
      /\ known' = known
  BY CheckedBefore, QuietStep, Defines DEF QuietTypes, QuietInv
<1>2. RunPut(n)
  BY <1>1 DEF Define, RunStops
<1>3. n \in known
  <2>1. TypeInv
    BY DEF QuietTypes
  <2>2. keys' = Append(keys, [name |-> n, value |-> toolValue, dependant |-> dependant])
    BY <1>1, <2>1, Defines
  <2>3. n \in Named'
    BY <2>1, <2>2, NamedGrows DEF TypeInv
  <2> QED
    BY <1>1, <2>3 DEF Checked
<1>4. runValue' = <<>> /\ offsets' = [offsets EXCEPT ![n] = runValue]
  BY <1>1, <1>2, <1>3, RunPutIs DEF One, QuietTypes, TypeInv
<1> QED
  BY <1>1, <1>4 DEF QuietTypes, TypeInv, RunTypes

\* Without errors the other steps read a literal, or nothing.
LEMMA Rest ==
    ASSUME QuietTypes, [Next]_vars, Checked', errs' = 0, \A n \in Names : ~Refer(n) /\ ~Define(n)
    PROVE  /\ Checked /\ errs = 0 /\ UNCHANGED <<keys, cache, dependant, offsets>>
           /\ \/ UNCHANGED <<runValue, toolValue>>
              \/ \E c \in Literals : /\ runValue' = Append(runValue, Literal(c))
                                     /\ toolValue' = Append(toolValue, Literal(c))
<1>1. Checked /\ errcount' = 0 /\ errs = 0 /\ ~stopped
  BY CheckedBefore, QuietStep DEF QuietTypes, QuietInv
<1>2. ~SyntaxError /\ UNCHANGED <<keys, cache, dependant, offsets>>
  BY <1>1, Others DEF QuietTypes
<1>3. \/ UNCHANGED <<runValue, toolValue>>
      \/ \E c \in Literals : /\ runValue' = Append(runValue, Literal(c))
                             /\ toolValue' = Append(toolValue, Literal(c))
  BY <1>1, <1>2 DEF Next, Text, Generate, Fatal, PasswdChanges, vars, toolbox, library
<1> QED
  BY <1>1, <1>2, <1>3

\* A mark spreads as the field in the evaluated text does.
LEMMA MarksStep == QuietTypes /\ MarksInv /\ [Next]_vars => MarksInv'
<1> SUFFICES ASSUME QuietTypes, MarksInv, [Next]_vars, Checked', errs' = 0
             PROVE  /\ dependant' <=> HasField(runValue')
                    /\ \A i \in DOMAIN keys' :
                          keys'[i].dependant <=> HasField(offsets'[keys'[i].name])
                    /\ \A m \in Keys :
                          cache'[m] # NULL => (cache'[m].dependant <=> HasField(offsets'[m]))
                    /\ \A f \in Foreign : cache'[f] # NULL => cache'[f].dependant
  BY DEF MarksInv
<1>1. /\ ToolTypes /\ RunTypes /\ TypeInv /\ runValue \in Text0 /\ dependant \in BOOLEAN
      /\ cache \in [Names -> {NULL} \cup [normal : Text0, dependant : BOOLEAN]]
  BY DEF QuietTypes, TypeInv, RunTypes, ToolTypes
<1>2. ASSUME Checked, errs = 0
      PROVE  /\ dependant <=> HasField(runValue)
             /\ \A i \in DOMAIN keys : keys[i].dependant <=> HasField(offsets[keys[i].name])
             /\ \A m \in Keys :
                   cache[m] # NULL => (cache[m].dependant <=> HasField(offsets[m]))
             /\ \A f \in Foreign : cache[f] # NULL => cache[f].dependant
  BY <1>2 DEF MarksInv
<1>3. ASSUME NEW n \in Names, Refer(n)
      PROVE  /\ dependant' <=> HasField(runValue')
             /\ keys' = keys /\ offsets' = offsets
             /\ \A m \in Keys :
                   cache'[m] # NULL => (cache'[m].dependant <=> HasField(offsets[m]))
             /\ \A f \in Foreign : cache'[f] # NULL => cache'[f].dependant
  <2>1. /\ Checked /\ errs = 0 /\ keys' = keys /\ offsets' = offsets
        /\ ToolCached(n) \/ ToolUses(n)
    BY <1>3, Reference
  \* What the library adds to its value has a field exactly when mark says so.
  <2>2. PICK mark \in BOOLEAN :
           /\ HasField(runValue') <=> HasField(runValue) \/ mark = TRUE
           /\ n \in Foreign => mark = TRUE
           /\ n \in Keys => n \in Named /\ n \notin Foreign /\ mark = HasField(offsets[n])
    <3>1. CASE n \in Foreign /\ \E t \in Token : t.kind \in Foreign /\ runValue' = runValue \o <<t>>
      <4>1. PICK t \in Token : t.kind \in Foreign /\ runValue' = runValue \o <<t>>
        BY <3>1
      <4>2. <<t>> \in Text0
        BY DEF Text0
      <4>3. HasField(runValue')
        BY <1>1, <4>1, <4>2, FieldTexts
      <4> QED
        BY <3>1, <4>3, EvaluationAssumption
    <3>2. CASE /\ n \in Keys /\ n \notin Foreign /\ n \in Named
               /\ offsets[n] \in Text0 /\ runValue' = runValue \o offsets[n]
      <4>1. HasField(runValue') <=> HasField(runValue) \/ HasField(offsets[n])
        BY <1>1, <3>2, FieldTexts
      <4>2. HasField(offsets[n]) \in BOOLEAN
        BY DEF HasField
      <4> QED
        BY <3>2, <4>1, <4>2
    <3> QED
      BY <1>3, <3>1, <3>2, Reference
  <2>3. CASE ToolCached(n)
    <3>1. (cache[n].dependant <=> mark = TRUE) /\ dependant' = (dependant \/ cache[n].dependant)
          /\ cache' = cache /\ cache[n] # NULL
      BY <1>2, <2>1, <2>2, <2>3 DEF ToolCached, Names
    <3> QED
      BY <1>1, <1>2, <2>1, <2>2, <3>1
  <2>4. CASE ToolUses(n)
    <3> DEFINE depend == IF n \in Foreign THEN TRUE ELSE Key(n).dependant
    <3>1. depend <=> mark = TRUE
      <4>1. CASE n \in Foreign
        BY <2>2, <4>1
      <4>2. CASE n \notin Foreign
        <5>1. n \in Keys /\ Found(n) # {}
          BY <2>2, <4>2, NamedIs DEF Names
        <5>2. PICK i \in DOMAIN keys : keys[i].name = n /\ Key(n) = keys[i]
          BY <1>1, <5>1, KeyIs
        <5> QED
          BY <1>2, <2>1, <2>2, <4>2, <5>1, <5>2
      <4> QED
        BY <4>1, <4>2
    <3>2. PICK normal : /\ dependant' = (dependant \/ depend)
                        /\ cache' = [cache EXCEPT ![n] = [normal |-> normal, dependant |-> depend]]
      BY <2>4 DEF ToolUses
    <3> HIDE DEF depend
    <3>3. dependant' <=> HasField(runValue')
      BY <1>2, <2>1, <2>2, <3>1, <3>2
    <3>4. \A m \in Names : cache'[m] = IF m = n THEN [normal |-> normal, dependant |-> depend]
                                               ELSE cache[m]
      BY <1>1, <3>2
    <3>5. ASSUME NEW m \in Keys, cache'[m] # NULL
          PROVE  cache'[m].dependant <=> HasField(offsets[m])
      BY <1>2, <2>1, <2>2, <3>1, <3>4, <3>5 DEF Names
    <3>6. ASSUME NEW f \in Foreign, cache'[f] # NULL PROVE cache'[f].dependant
      BY <1>2, <2>1, <2>2, <3>1, <3>4, <3>6 DEF Names
    <3> QED
      BY <2>1, <3>3, <3>5, <3>6
  <2> QED
    BY <2>1, <2>3, <2>4
<1>4. ASSUME NEW n \in Names, Define(n)
      PROVE  /\ dependant' <=> HasField(runValue')
             /\ \A i \in DOMAIN keys' :
                   keys'[i].dependant <=> HasField(offsets'[keys'[i].name])
             /\ \A m \in Keys :
                   cache'[m] # NULL => (cache'[m].dependant <=> HasField(offsets'[m]))
             /\ \A f \in Foreign : cache'[f] # NULL => cache'[f].dependant
  <2>1. /\ Checked /\ errs = 0 /\ n \in Keys /\ n \notin Named /\ runValue' = <<>>
        /\ \A m \in Keys : offsets'[m] = IF m = n THEN runValue ELSE offsets[m]
    BY <1>4, Definition
  <2>2. /\ keys' = Append(keys, [name |-> n, value |-> toolValue, dependant |-> dependant])
        /\ dependant' = FALSE /\ cache' = cache
    BY <1>1, <1>4, Defines DEF Checked
  <2>3. /\ DOMAIN keys' = DOMAIN keys \cup {Len(keys) + 1}
        /\ keys'[Len(keys) + 1] = [name |-> n, value |-> toolValue, dependant |-> dependant]
        /\ \A i \in DOMAIN keys : keys'[i] = keys[i]
    BY <1>1, <2>2, NamedGrows
  <2>4. ASSUME NEW i \in DOMAIN keys PROVE keys[i].name \in Keys /\ keys[i].name # n
    <3>1. keys \in Seq(Row) /\ keys[i].name \in Named
      BY <1>1 DEF ToolTypes, Row, Named
    <3>2. keys[i] \in Row
      BY <2>4, <3>1
    <3> QED
      BY <2>1, <3>1, <3>2 DEF Row
  <2>5. \A i \in DOMAIN keys' : keys'[i].dependant <=> HasField(offsets'[keys'[i].name])
    BY <1>2, <2>1, <2>3, <2>4
  <2>6. \A m \in Keys : cache[m] # NULL => m # n
    BY <2>1 DEF QuietTypes, NamesInv
  <2> QED
    BY <1>2, <2>1, <2>2, <2>5, <2>6, FieldTexts
<1>5. CASE \A n \in Names : ~Refer(n) /\ ~Define(n)
  <2>1. /\ Checked /\ errs = 0 /\ UNCHANGED <<keys, cache, dependant, offsets>>
        /\ \/ runValue' = runValue
           \/ \E c \in Literals : runValue' = Append(runValue, Literal(c))
    BY <1>5, Rest
  <2>2. HasField(runValue') <=> HasField(runValue)
    <3>1. ASSUME NEW c \in Literals, runValue' = Append(runValue, Literal(c))
          PROVE  HasField(runValue') <=> HasField(runValue)
      <4>1. runValue' = runValue \o <<Literal(c)>> /\ <<Literal(c)>> \in Text0
        BY <1>1, <3>1, TokensAre DEF Text0
      <4> QED
        BY <1>1, <4>1, FieldTexts, TokensAre
    <3> QED
      BY <2>1, <3>1
  <2> QED
    BY <1>2, <2>1, <2>2
<1> QED
  BY <1>2, <1>3, <1>4, <1>5, Reference

\* A key is marked as dependant exactly when its evaluated value has a field of
\* the user, through any chain of references and any use of the cache.
THEOREM DependantExactAlways == Spec => []DependantExact
<1>1. Init => QuietTypes /\ MarksInv
  <2>1. Init => TypeInv
    BY TypesInit
  <2> QED
    BY <2>1, FieldTexts, EvaluationAssumption
    DEF Init, QuietTypes, NamesInv, ReadsInv, QuietInv, MarksInv, Checked, Named, Names
<1>2. QuietTypes /\ MarksInv /\ [Next]_vars => (QuietTypes /\ MarksInv)'
  BY TypesStep, NamesStep, ReadsStep, QuietStep, MarksStep DEF QuietTypes
<1>3. MarksInv => DependantExact
  BY DEF MarksInv, DependantExact, HasField
<1> QED
  BY <1>1, <1>2, <1>3, PTL DEF Spec

\* For rpm a text without the mark stays the evaluated one.
LEMMA RpmStep == QuietTypes /\ MarksInv /\ RpmInv /\ [Next]_vars => RpmInv'
<1> SUFFICES ASSUME QuietTypes, MarksInv, RpmInv, [Next]_vars, Checked', errs' = 0, action' = "RPM"
             PROVE  /\ ~dependant' => toolValue' = runValue'
                    /\ \A i \in DOMAIN keys' :
                          ~keys'[i].dependant => keys'[i].value = offsets'[keys'[i].name]
                    /\ \A m \in Keys :
                          cache'[m] # NULL => cache'[m].dependant \/ cache'[m].normal = offsets'[m]
  BY DEF RpmInv
<1>1. /\ ToolTypes /\ RunTypes /\ TypeInv
      /\ cache \in [Names -> {NULL} \cup [normal : Text0, dependant : BOOLEAN]]
  BY DEF QuietTypes, TypeInv, ToolTypes
<1>2. action = "RPM"
  BY DEF Next, Text, Refer, Define, SyntaxError, Generate, Fatal, PasswdChanges, vars
<1>3. ASSUME Checked, errs = 0
      PROVE  /\ ~dependant => toolValue = runValue
             /\ \A i \in DOMAIN keys :
                   ~keys[i].dependant => keys[i].value = offsets[keys[i].name]
             /\ \A m \in Keys :
                   cache[m] # NULL => cache[m].dependant \/ cache[m].normal = offsets[m]
  BY <1>2, <1>3 DEF RpmInv
<1>4. ASSUME NEW n \in Names, Refer(n)
      PROVE  /\ ~dependant' => toolValue' = runValue'
             /\ keys' = keys /\ offsets' = offsets
             /\ \A m \in Keys :
                   cache'[m] # NULL => cache'[m].dependant \/ cache'[m].normal = offsets[m]
  <2>1. /\ Checked /\ errs = 0 /\ keys' = keys /\ offsets' = offsets
        /\ ToolCached(n) \/ ToolUses(n)
        /\ n \notin Foreign => n \in Keys /\ n \in Named /\ runValue' = runValue \o offsets[n]
    BY <1>4, Reference
  <2>2. CASE ToolCached(n)
    <3>1. /\ dependant' = (dependant \/ cache[n].dependant) /\ cache' = cache
          /\ cache[n] # NULL /\ toolValue' = toolValue \o cache[n].normal
      BY <2>2 DEF ToolCached
    <3>2. ASSUME ~dependant' PROVE toolValue' = runValue'
      <4>1. ~dependant /\ ~cache[n].dependant
        BY <3>1, <3>2
      <4>2. n \notin Foreign
        BY <2>1, <3>1, <4>1 DEF MarksInv
      <4> QED
        BY <1>3, <2>1, <3>1, <4>1, <4>2
    <3> QED
      BY <1>3, <2>1, <3>1, <3>2
  <2>3. CASE ToolUses(n)
    <3> DEFINE depend == IF n \in Foreign THEN TRUE ELSE Key(n).dependant
               normal == IF action = "RPM" /\ Found(n) # {} THEN Key(n).value ELSE <<Ref(n)>>
    <3>1. /\ dependant' = (dependant \/ depend) /\ toolValue' = toolValue \o normal
          /\ cache' = [cache EXCEPT ![n] = [normal |-> normal, dependant |-> depend]]
      BY <2>3 DEF ToolUses
    <3>2. ASSUME ~depend PROVE n \notin Foreign /\ normal = offsets[n]
      <4>1. n \notin Foreign /\ Found(n) # {}
        BY <2>1, <3>2, NamedIs
      <4>2. PICK i \in DOMAIN keys : keys[i].name = n /\ Key(n) = keys[i]
        BY <1>1, <4>1, KeyIs
      <4>3. normal = keys[i].value /\ ~keys[i].dependant
        BY <1>2, <3>2, <4>1, <4>2
      <4> QED
        BY <1>3, <2>1, <4>1, <4>2, <4>3
    <3> HIDE DEF depend, normal
    <3>3. ASSUME ~dependant' PROVE toolValue' = runValue'
      <4>1. ~dependant /\ ~depend
        BY <3>1, <3>3
      <4> QED
        BY <1>3, <2>1, <3>1, <3>2, <4>1
    <3>4. \A m \in Keys : cache'[m] = IF m = n THEN [normal |-> normal, dependant |-> depend]
                                              ELSE cache[m]
      BY <1>1, <3>1 DEF Names
    <3>5. ASSUME NEW m \in Keys, cache'[m] # NULL
          PROVE  cache'[m].dependant \/ cache'[m].normal = offsets[m]
      BY <1>3, <2>1, <3>2, <3>4, <3>5
    <3> QED
      BY <2>1, <3>3, <3>5
  <2> QED
    BY <2>1, <2>2, <2>3
<1>5. ASSUME NEW n \in Names, Define(n)
      PROVE  /\ ~dependant' => toolValue' = runValue'
             /\ \A i \in DOMAIN keys' :
                   ~keys'[i].dependant => keys'[i].value = offsets'[keys'[i].name]
             /\ \A m \in Keys :
                   cache'[m] # NULL => cache'[m].dependant \/ cache'[m].normal = offsets'[m]
  <2>1. /\ Checked /\ errs = 0 /\ n \in Keys /\ n \notin Named /\ runValue' = <<>>
        /\ \A m \in Keys : offsets'[m] = IF m = n THEN runValue ELSE offsets[m]
    BY <1>5, Definition
  <2>2. /\ keys' = Append(keys, [name |-> n, value |-> toolValue, dependant |-> dependant])
        /\ toolValue' = <<>> /\ cache' = cache
    BY <1>1, <1>5, Defines DEF Checked
  <2>3. /\ DOMAIN keys' = DOMAIN keys \cup {Len(keys) + 1}
        /\ keys'[Len(keys) + 1] = [name |-> n, value |-> toolValue, dependant |-> dependant]
        /\ \A i \in DOMAIN keys : keys'[i] = keys[i]
    BY <1>1, <2>2, NamedGrows
  <2>4. ASSUME NEW i \in DOMAIN keys PROVE keys[i].name \in Keys /\ keys[i].name # n
    <3>1. keys \in Seq(Row) /\ keys[i].name \in Named
      BY <1>1 DEF ToolTypes, Row, Named
    <3>2. keys[i] \in Row
      BY <2>4, <3>1
    <3> QED
      BY <2>1, <3>1, <3>2 DEF Row
  <2>5. \A i \in DOMAIN keys' :
           ~keys'[i].dependant => keys'[i].value = offsets'[keys'[i].name]
    BY <1>3, <2>1, <2>3, <2>4
  <2>6. \A m \in Keys : cache[m] # NULL => m # n
    BY <2>1 DEF QuietTypes, NamesInv
  <2> QED
    BY <1>3, <2>1, <2>2, <2>5, <2>6
<1>6. CASE \A n \in Names : ~Refer(n) /\ ~Define(n)
  <2>1. /\ Checked /\ errs = 0 /\ UNCHANGED <<keys, cache, dependant, offsets>>
        /\ \/ UNCHANGED <<runValue, toolValue>>
           \/ \E c \in Literals : /\ runValue' = Append(runValue, Literal(c))
                                  /\ toolValue' = Append(toolValue, Literal(c))
    BY <1>6, Rest
  <2> QED
    BY <1>3, <2>1
<1> QED
  BY <1>3, <1>4, <1>5, <1>6, Reference

\* A macro of the rpm file is a key without the mark.
LEMMA MacrosStep == TypeInv /\ MacrosInv /\ [Next]_vars => MacrosInv'
<1> SUFFICES ASSUME TypeInv, MacrosInv, [Next]_vars PROVE MacrosInv'
  OBVIOUS
<1>1. action' = action
  BY DEF Next, Text, Refer, Define, SyntaxError, Generate, Fatal, PasswdChanges, vars
<1>2. CASE Generate
  BY <1>1, <1>2 DEF Generate, toolbox, MacrosInv
<1>3. CASE ~Generate
  <2>1. macros' = macros
    BY <1>3 DEF Next, Text, Refer, Define, SyntaxError, Fatal, PasswdChanges, vars
  <2>2. keys' = keys \/ \E k : keys' = Append(keys, k)
    BY <1>3 DEF Next, Text, Refer, Define, SyntaxError, Fatal, PasswdChanges, vars, toolbox,
                ToolGet, ToolRefuses, ToolPut
  <2>3. \A i \in DOMAIN keys : i \in DOMAIN keys' /\ keys'[i] = keys[i]
    BY <2>2, NamedGrows DEF TypeInv
  <2> QED
    BY <1>1, <2>1, <2>3 DEF MacrosInv
<1> QED
  BY <1>2, <1>3

\* Every macro of the rpm file has the value that the library of any user
\* computes for the key.
THEOREM MacrosRightAlways == Spec => []MacrosRight
<1>1. Init => QuietTypes /\ MarksInv /\ RpmInv /\ MacrosInv
  <2>1. Init => TypeInv
    BY TypesInit
  <2> QED
    BY <2>1, FieldTexts, EvaluationAssumption
    DEF Init, QuietTypes, NamesInv, ReadsInv, QuietInv, MarksInv, RpmInv, MacrosInv,
        Checked, Named, Names
<1>2. QuietTypes /\ MarksInv /\ RpmInv /\ MacrosInv /\ [Next]_vars
      => (QuietTypes /\ MarksInv /\ RpmInv /\ MacrosInv)'
  BY TypesStep, NamesStep, ReadsStep, QuietStep, MarksStep, RpmStep, MacrosStep DEF QuietTypes
<1>3. RpmInv /\ MacrosInv => MacrosRight
  <2> SUFFICES ASSUME RpmInv, MacrosInv, Checked, errs = 0, NEW k \in macros
               PROVE  offsets[k.name] = k.value
    BY DEF MacrosRight
  <2>1. PICK i \in DOMAIN keys : k = keys[i] /\ ~k.dependant /\ action = "RPM"
    BY DEF MacrosInv
  <2> QED
    BY <2>1 DEF RpmInv
<1> QED
  BY <1>1, <1>2, <1>3, PTL DEF Spec

-----------------------------------------------------------------------------
(* The toolbox writes what the library evaluates.                            *)

\* The fields and the values that the library may hold.
Fields == [Foreign -> People \cup {NULL}]
Values == [Keys -> Text0 \cup {NULL}]

\* What a token denotes is a text.
LEMMA DenotedText ==
    ASSUME NEW d \in Fields, NEW o \in Values, NEW t \in Token, Denotes(t, d, o)
    PROVE  Denoted(t, d, o) \in Text0
<1>1. CASE t.kind # "ref"
  BY <1>1 DEF Denoted, Text0
<1>2. CASE t.kind = "ref" /\ t.of \in Foreign
  <2>1. d[t.of] \in People
    BY <1>2 DEF Denotes, Fields
  <2>2. Field(t.of, d[t.of]) \in Token
    BY <1>2, <2>1, TokensAre
  <2>3. Denoted(t, d, o) = <<Field(t.of, d[t.of])>>
    BY <1>2 DEF Denoted
  <2> QED
    BY <2>2, <2>3 DEF Text0
<1>3. CASE t.kind = "ref" /\ t.of \notin Foreign
  BY <1>3 DEF Denoted, Denotes, Values
<1> QED
  BY <1>1, <1>2, <1>3

\* What the tokens of a text denote are texts.
LEMMA PiecesAre ==
    ASSUME NEW d \in Fields, NEW o \in Values, NEW v \in Text0,
           \A i \in DOMAIN v : Denotes(v[i], d, o)
    PROVE  [i \in DOMAIN v |-> Denoted(v[i], d, o)] \in Seq(Text0)
<1>1. \A i \in 1..Len(v) : Denoted(v[i], d, o) \in Text0
  BY DenotedText DEF Text0
<1>2. DOMAIN v = 1..Len(v) /\ Len(v) \in Nat
  BY DEF Text0
<1> QED
  BY <1>1, <1>2, IsASeq

\* The empty text means the empty text.
LEMMA MeansEmpty == \A d, o : Means(<<>>, <<>>, d, o)
<1> TAKE d, o
<1>1. [i \in DOMAIN <<>> |-> Denoted(<<>>[i], d, o)] = <<>>
  OBVIOUS
<1> QED
  BY <1>1 DEF Means, FlattenSeq

\* A token means what it denotes.
LEMMA MeansToken ==
    ASSUME NEW d \in Fields, NEW o \in Values, NEW t \in Token, Denotes(t, d, o)
    PROVE  Means(<<t>>, Denoted(t, d, o), d, o)
<1>1. [i \in DOMAIN <<t>> |-> Denoted(<<t>>[i], d, o)] = <<Denoted(t, d, o)>>
  OBVIOUS
<1>2. <<Denoted(t, d, o)>> = Append(<<>>, Denoted(t, d, o)) /\ Denoted(t, d, o) \in Text0
  BY DenotedText
<1>3. <<>> \in Seq(Text0) /\ FlattenSeq(<<>>) = <<>>
  BY DEF FlattenSeq
<1>4. FlattenSeq(<<Denoted(t, d, o)>>) = <<>> \o Denoted(t, d, o)
  BY <1>2, <1>3, FlattenAppend DEF Text0
<1>5. <<>> \o Denoted(t, d, o) = Denoted(t, d, o)
  BY <1>2, ConcatEmptySeq DEF Text0
<1> QED
  BY <1>1, <1>4, <1>5 DEF Means

\* A concatenation means the concatenation of what its parts mean.
LEMMA MeansConcat ==
    ASSUME NEW d \in Fields, NEW o \in Values, NEW v \in Text0, NEW w \in Text0,
           NEW x, NEW y, Means(v, x, d, o), Means(w, y, d, o)
    PROVE  Means(v \o w, x \o y, d, o)
<1> DEFINE D(u) == [i \in DOMAIN u |-> Denoted(u[i], d, o)]
<1>1. D(v) \in Seq(Text0) /\ D(w) \in Seq(Text0)
  BY PiecesAre DEF Means
<1>2. /\ DOMAIN (v \o w) = 1..Len(v) + Len(w) /\ DOMAIN v = 1..Len(v) /\ DOMAIN w = 1..Len(w)
      /\ Len(v) \in Nat /\ Len(w) \in Nat
      /\ \A i \in 1..Len(v) + Len(w) :
            (v \o w)[i] = IF i <= Len(v) THEN v[i] ELSE w[i - Len(v)]
  BY DEF Text0
<1>3. \A i \in DOMAIN (v \o w) : Denotes((v \o w)[i], d, o)
  <2> SUFFICES ASSUME NEW i \in 1..Len(v) + Len(w) PROVE Denotes((v \o w)[i], d, o)
    BY <1>2
  <2>1. CASE i <= Len(v)
    <3>1. i \in DOMAIN v /\ (v \o w)[i] = v[i]
      BY <1>2, <2>1
    <3> QED
      BY <3>1 DEF Means
  <2>2. CASE i > Len(v)
    <3>1. i - Len(v) \in DOMAIN w /\ (v \o w)[i] = w[i - Len(v)]
      BY <1>2, <2>2
    <3> QED
      BY <3>1 DEF Means
  <2> QED
    BY <1>2, <2>1, <2>2
<1>4. D(v \o w) = D(v) \o D(w)
  <2>1. D(v \o w) \in Seq(Text0)
    <3>1. v \o w \in Text0
      BY DEF Text0
    <3> QED
      BY <1>3, <3>1, PiecesAre
  <2>2. Len(D(v)) = Len(v) /\ Len(D(w)) = Len(w) /\ Len(D(v \o w)) = Len(v) + Len(w)
    BY <1>1, <1>2, <2>1, LenProperties
  <2>3. ASSUME NEW i \in 1..Len(v) PROVE D(v \o w)[i] = D(v)[i]
    BY <1>2
  <2>4. ASSUME NEW i \in 1..Len(w) PROVE D(v \o w)[Len(v) + i] = D(w)[i]
    <3>1. Len(v) + i \in DOMAIN (v \o w) /\ (v \o w)[Len(v) + i] = w[i] /\ i \in DOMAIN w
      BY <1>2
    <3> QED
      BY <3>1
  <2> HIDE DEF D
  <2>5. /\ Len(D(v \o w)) = Len(D(v)) + Len(D(w))
        /\ \A i \in 1..Len(D(v)) : D(v \o w)[i] = D(v)[i]
        /\ \A i \in 1..Len(D(w)) : D(v \o w)[Len(D(v)) + i] = D(w)[i]
    BY <2>2, <2>3, <2>4
  <2> QED
    BY <1>1, <2>1, <2>5, ConcatIs
<1>5. FlattenSeq(D(v \o w)) = FlattenSeq(D(v)) \o FlattenSeq(D(w))
  <2> HIDE DEF D
  <2> QED
    BY <1>1, <1>4, FlattenConcat DEF Text0
<1> QED
  BY <1>3, <1>5 DEF Means

\* A text keeps its meaning as long as what has a value keeps it.
LEMMA MeansStays ==
    ASSUME NEW d, NEW o, NEW e, NEW p, NEW v, NEW w, Means(v, w, d, o),
           \A f \in Foreign : d[f] # NULL => e[f] = d[f],
           \A n \in Keys : o[n] # NULL => p[n] = o[n]
    PROVE  Means(v, w, e, p)
<1>1. \A i \in DOMAIN v : /\ Denotes(v[i], e, p)
                          /\ Denoted(v[i], e, p) = Denoted(v[i], d, o)
  BY DEF Means, Denotes, Denoted
<1>2. [i \in DOMAIN v |-> Denoted(v[i], e, p)] = [i \in DOMAIN v |-> Denoted(v[i], d, o)]
  BY <1>1
<1> QED
  BY <1>1, <1>2 DEF Means

\* Before a step after which the library has no error but the one it stopped at:
\* it had none either, and the step keeps the values that it found.
LEMMA SameBefore ==
    ASSUME TypeInv, NamesInv, ReadsInv, RowInv, [Next]_vars,
           Checked', errs' = One(stopped'), lost' = {}
    PROVE  /\ Checked /\ errcount' = 0 /\ errs = One(stopped) /\ lost = {}
           /\ \A f \in Foreign : dynvars[f] # NULL => dynvars'[f] = dynvars[f]
           /\ \A n \in Keys : offsets[n] # NULL => offsets'[n] = offsets[n]
<1> DEFINE Stays == /\ errs = One(stopped) /\ lost = {}
                    /\ \A f \in Foreign : dynvars[f] # NULL => dynvars'[f] = dynvars[f]
                    /\ \A n \in Keys : offsets[n] # NULL => offsets'[n] = offsets[n]
<1>1. Checked /\ errcount' = 0 /\ known' = known
  BY CheckedBefore
<1>2. errs \in Nat /\ stopped \in BOOLEAN /\ RunTypes
  BY DEF TypeInv, RunTypes
<1>3. ASSUME UNCHANGED <<offsets, dynvars, errs, stopped, lost>> PROVE Stays
  BY <1>3 DEF One
<1>4. ASSUME NEW n \in Names, RunGet(n), ~stopped PROVE Stays
  <2>1. /\ dynvars' \in foreignpw(n) /\ offsets' = offsets /\ stopped' = stopped
        /\ lost' = lost \cup {f \in Foreign : Looks(n) /\ dynvars'[f] = NULL}
        /\ RunMisses(n) \/ RunReads(n)
    BY <1>2, <1>4, RunGetIs
  <2>2. lost = {} /\ dynvars["HOME"] = dynvars["USER"]
    BY <2>1 DEF RowInv
  <2>3. errs = One(stopped)
    BY <1>2, <1>4, <2>1 DEF RunMisses, RunReads, One
  <2>4. ASSUME NEW f \in Foreign, dynvars[f] # NULL PROVE dynvars'[f] = dynvars[f]
    <3>1. ~Looks(n)
      BY <2>2, <2>4 DEF Looks, Foreign
    <3> QED
      BY <2>1, <3>1 DEF foreignpw
  <2> QED
    BY <2>1, <2>2, <2>3, <2>4
<1>5. ASSUME NEW n \in Names, Define(n), RunPut(n), ~stopped PROVE Stays
  <2>1. n \notin Named
    BY <1>1, <1>5, Defines
  <2>2. n \in Keys => offsets[n] = NULL
    BY <1>1, <2>1 DEF ReadsInv
  <2>3. /\ dynvars' = dynvars /\ stopped' = stopped /\ lost' = lost
        /\ errs' = errs + One(n \in known /\ offsets[n] # NULL)
        /\ offsets' = IF n \in known THEN [offsets EXCEPT ![n] = runValue] ELSE offsets
    BY <1>2, <1>5, RunPutIs
  <2>4. errs = One(stopped)
    BY <1>2, <1>5, <2>3 DEF One
  <2> QED
    BY <1>2, <2>2, <2>3, <2>4 DEF RunTypes
<1>6. ASSUME RunStops, ~stopped PROVE Stays
  BY <1>2, <1>6 DEF RunStops, One
<1>7. ASSUME NEW n \in Names, Refer(n) PROVE Stays
  BY <1>3, <1>4, <1>7 DEF Refer, LibraryIdle, library, history
<1>8. ASSUME NEW n \in Names, Define(n) PROVE Stays
  BY <1>3, <1>5, <1>6, <1>8 DEF Define, LibraryIdle, library, history
<1>9. CASE \A n \in Names : ~Refer(n) /\ ~Define(n)
  BY <1>1, <1>3, <1>9, Others
<1> QED
  BY <1>1, <1>7, <1>8, <1>9

\* What the toolbox adds to its value for a name, and caches for it, means what the
\* library has for it.
LEMMA SameUses ==
    ASSUME TypeInv, NamesInv, SameInv, Checked, errs = One(stopped), lost = {},
           NEW n \in Names, ToolGet(n), errcount' = 0
    PROVE  \E normal \in Text0 :
              /\ toolValue' = toolValue \o normal
              /\ n \in Keys /\ offsets[n] # NULL => Means(normal, offsets[n], dynvars, offsets)
              /\ n \in Foreign => normal = <<Ref(n)>>
              /\ \A m \in Names : \/ cache'[m] = cache[m]
                                  \/ m = n /\ cache'[m].normal = normal
<1>1. /\ \A i \in DOMAIN keys :
            LET value == offsets[keys[i].name]
            IN  value # NULL => Means(keys[i].value, value, dynvars, offsets)
      /\ \A m \in Keys : cache[m] # NULL /\ offsets[m] # NULL =>
            Means(cache[m].normal, offsets[m], dynvars, offsets)
      /\ \A f \in Foreign : cache[f] # NULL => cache[f].normal = <<Ref(f)>>
  BY DEF SameInv
<1>2. ~ToolUnknown(n)
  BY Refers
<1>3. ToolTypes /\ RunTypes /\ cache \in [Names -> {NULL} \cup [normal : Text0, dependant : BOOLEAN]]
  BY DEF TypeInv, ToolTypes
<1>4. CASE ToolCached(n)
  <2>1. /\ cache[n] # NULL /\ toolValue' = toolValue \o cache[n].normal /\ cache' = cache
        /\ cache[n].normal \in Text0
    BY <1>3, <1>4 DEF ToolCached
  <2> QED
    BY <1>1, <2>1
<1>5. CASE ToolUses(n)
  <2> DEFINE depend == IF n \in Foreign THEN TRUE ELSE Key(n).dependant
             normal == IF action = "RPM" /\ Found(n) # {} THEN Key(n).value ELSE <<Ref(n)>>
  <2>1. /\ toolValue' = toolValue \o normal /\ (n \in Foreign \/ Found(n) # {})
        /\ cache' = [cache EXCEPT ![n] = [normal |-> normal, dependant |-> depend]]
    BY <1>5 DEF ToolUses
  <2>2. \A m \in Names : cache'[m] = cache[m] \/ (m = n /\ cache'[m].normal = normal)
    <3> HIDE DEF depend, normal
    <3>1. \A m \in Names : cache'[m] = IF m = n THEN [normal |-> normal, dependant |-> depend]
                                               ELSE cache[m]
      BY <1>3, <2>1
    <3>2. [normal |-> normal, dependant |-> depend].normal = normal
      OBVIOUS
    <3>3. ASSUME NEW m \in Names, m # n PROVE cache'[m] = cache[m]
      BY <3>1, <3>3
    <3>4. ASSUME NEW m \in Names, m = n PROVE cache'[m].normal = normal
      BY <3>1, <3>2, <3>4
    <3> QED
      BY <3>3, <3>4
  <2>3. Ref(n) \in Token /\ <<Ref(n)>> \in Text0
    BY TokensAre DEF Text0
  <2>4. CASE Found(n) = {}
    <3>1. normal = <<Ref(n)>> /\ n \in Foreign
      BY <2>1, <2>4
    <3> QED
      BY <2>1, <2>2, <2>3, <3>1, EvaluationAssumption
  <2>5. CASE Found(n) # {}
    <3>1. PICK i \in DOMAIN keys : keys[i].name = n /\ Key(n) = keys[i] /\ keys[i] \in Row
      BY <1>3, <2>5, KeyIs
    <3>2. n \in Keys /\ n \notin Foreign /\ Key(n).value \in Text0
      BY <3>1, EvaluationAssumption DEF Row
    <3>3. CASE action = "RPM"
      <4>1. normal = keys[i].value
        BY <2>5, <3>1, <3>3
      <4> QED
        BY <1>1, <2>1, <2>2, <3>1, <3>2, <4>1
    <3>4. CASE action # "RPM"
      <4>1. normal = <<Ref(n)>>
        BY <3>4
      <4>2. ASSUME offsets[n] # NULL PROVE Means(normal, offsets[n], dynvars, offsets)
        <5>1. Denotes(Ref(n), dynvars, offsets) /\ Denoted(Ref(n), dynvars, offsets) = offsets[n]
          BY <3>2, <4>2 DEF Denotes, Denoted, Ref
        <5>2. dynvars \in Fields /\ offsets \in Values
          BY <1>3 DEF RunTypes, Fields, Values
        <5> QED
          BY <2>3, <4>1, <5>1, <5>2, MeansToken
      <4> QED
        BY <2>1, <2>2, <2>3, <3>2, <4>1, <4>2
    <3> QED
      BY <3>3, <3>4
  <2> QED
    BY <2>4, <2>5
<1> QED
  BY <1>2, <1>4, <1>5 DEF ToolGet

\* Each step of the two readers gives to both texts that mean the same.
LEMMA SameStep ==
    TypeInv /\ NamesInv /\ ReadsInv /\ RowInv /\ SameInv /\ [Next]_vars => SameInv'
<1> DEFINE Recorded(ks) == \A i \in DOMAIN ks :
               LET value == offsets'[ks[i].name]
               IN  IF value # NULL THEN Means(ks[i].value, value, dynvars', offsets')
                   ELSE stopped' /\ \A j \in i..Len(ks) : offsets'[ks[j].name] = NULL
           Cached(c) == /\ \A n \in Keys : c[n] # NULL /\ offsets'[n] # NULL =>
                               Means(c[n].normal, offsets'[n], dynvars', offsets')
                        /\ \A f \in Foreign : c[f] # NULL => c[f].normal = <<Ref(f)>>
<1> SUFFICES ASSUME TypeInv, NamesInv, ReadsInv, RowInv, SameInv, [Next]_vars,
                    Checked', errs' = One(stopped'), lost' = {}
             PROVE  /\ ~stopped' => Means(toolValue', runValue', dynvars', offsets')
                    /\ Recorded(keys') /\ Cached(cache')
  BY DEF SameInv
<1>1. /\ Checked /\ errcount' = 0 /\ errs = One(stopped) /\ lost = {}
      /\ \A f \in Foreign : dynvars[f] # NULL => dynvars'[f] = dynvars[f]
      /\ \A n \in Keys : offsets[n] # NULL => offsets'[n] = offsets[n]
  BY SameBefore
<1>2. /\ ~stopped => Means(toolValue, runValue, dynvars, offsets)
      /\ \A i \in DOMAIN keys :
            LET value == offsets[keys[i].name]
            IN  IF value # NULL THEN Means(keys[i].value, value, dynvars, offsets)
                ELSE stopped /\ \A j \in i..Len(keys) : offsets[keys[j].name] = NULL
      /\ \A n \in Keys : cache[n] # NULL /\ offsets[n] # NULL =>
            Means(cache[n].normal, offsets[n], dynvars, offsets)
      /\ \A f \in Foreign : cache[f] # NULL => cache[f].normal = <<Ref(f)>>
  BY <1>1 DEF SameInv
<1>3. \A v, w : Means(v, w, dynvars, offsets) => Means(v, w, dynvars', offsets')
  BY <1>1, MeansStays
<1>4. /\ ToolTypes /\ RunTypes /\ RunTypes' /\ toolValue \in Text0 /\ runValue \in Text0
      /\ dynvars' \in Fields /\ offsets' \in Values /\ offsets \in Values
      /\ keys \in Seq(Row) /\ stopped \in BOOLEAN
  BY TypesStep DEF TypeInv, ToolTypes, RunTypes, Fields, Values, Row
<1>5. ASSUME NEW i \in DOMAIN keys PROVE keys[i].name \in Keys /\ keys[i].name \in Named
  <2>1. keys[i] \in Row
    BY <1>4
  <2> QED
    BY <2>1 DEF Row, Named
\* Without a new key and a new value what was recorded keeps its meaning.
<1>6. ASSUME offsets' = offsets, stopped' = stopped PROVE Recorded(keys)
  BY <1>2, <1>3, <1>6
<1>7. ASSUME offsets' = offsets PROVE Cached(cache)
  BY <1>2, <1>3, <1>7
<1>8. ASSUME NEW n \in Names, Refer(n)
      PROVE  /\ ~stopped' => Means(toolValue', runValue', dynvars', offsets')
             /\ Recorded(keys') /\ Cached(cache')
  <2>1. ToolGet(n) /\ keys' = keys
    BY <1>8 DEF Refer, ToolGet
  <2>2. PICK normal \in Text0 :
              /\ toolValue' = toolValue \o normal
              /\ n \in Keys /\ offsets[n] # NULL => Means(normal, offsets[n], dynvars, offsets)
              /\ n \in Foreign => normal = <<Ref(n)>>
              /\ \A m \in Names : \/ cache'[m] = cache[m]
                                  \/ m = n /\ cache'[m].normal = normal
    BY <1>1, <2>1, SameUses
  <2>3. offsets' = offsets /\ stopped' = stopped
    BY <1>4, <1>8, RunGetIs DEF Refer, LibraryIdle, library
  <2>4. Cached(cache')
    <3>1. \A m \in Keys : cache'[m] # NULL /\ offsets[m] # NULL =>
              Means(cache'[m].normal, offsets[m], dynvars, offsets)
      BY <1>2, <2>2 DEF Names
    <3>2. \A f \in Foreign : cache'[f] # NULL => cache'[f].normal = <<Ref(f)>>
      BY <1>2, <2>2 DEF Names
    <3> QED
      BY <1>3, <2>3, <3>1, <3>2
  <2>5. ASSUME ~stopped PROVE Means(toolValue', runValue', dynvars', offsets')
    <3>1. RunGet(n)
      BY <1>8, <2>5 DEF Refer
    <3>2. RunReads(n)
      <4>1. errs' = errs
        BY <1>1, <2>3
      <4> QED
        BY <1>4, <3>1, <4>1, RunGetIs DEF RunMisses, RunTypes
    <3>3. Means(toolValue, runValue, dynvars', offsets')
      BY <1>2, <1>3, <2>5
    <3>4. PICK value \in Text0 : runValue' = runValue \o value /\ Means(normal, value, dynvars', offsets')
      <4>1. CASE n \in known /\ offsets[n] # NULL /\ runValue' = runValue \o offsets[n]
        <5>1. n \in Keys /\ offsets[n] \in Text0
          BY <1>4, <4>1 DEF RunTypes
        <5> QED
          BY <1>3, <2>2, <4>1, <5>1
      <4>2. CASE n \in Foreign /\ dynvars'[n] # NULL
                 /\ runValue' = runValue \o <<Field(n, dynvars'[n])>>
        <5>1. /\ Denotes(Ref(n), dynvars', offsets')
              /\ Denoted(Ref(n), dynvars', offsets') = <<Field(n, dynvars'[n])>>
          BY <4>2 DEF Denotes, Denoted, Ref
        <5>2. Ref(n) \in Token
          BY TokensAre
        <5>3. <<Field(n, dynvars'[n])>> \in Text0
          BY <1>4, <5>1, <5>2, DenotedText
        <5>4. Means(<<Ref(n)>>, <<Field(n, dynvars'[n])>>, dynvars', offsets')
          BY <1>4, <5>1, <5>2, MeansToken
        <5> QED
          BY <2>2, <4>2, <5>3, <5>4
      <4> QED
        BY <3>2, <4>1, <4>2 DEF RunReads
    <3> QED
      BY <1>4, <2>2, <3>3, <3>4, MeansConcat
  <2> QED
    BY <1>6, <2>1, <2>3, <2>4, <2>5
<1>9. ASSUME NEW n \in Names, Define(n)
      PROVE  /\ ~stopped' => Means(toolValue', runValue', dynvars', offsets')
             /\ Recorded(keys') /\ Cached(cache')
  <2>1. /\ n \in Keys /\ n \notin Named /\ cache' = cache /\ toolValue' = <<>>
        /\ keys' = Append(keys, [name |-> n, value |-> toolValue, dependant |-> dependant])
    BY <1>1, <1>9, Defines
  <2>2. offsets[n] = NULL /\ n \in known
    BY <1>1, <1>4, <1>9, <2>1, NamedGrows, CheckedBefore DEF ReadsInv, Checked
  <2>3. /\ DOMAIN keys' = DOMAIN keys \cup {Len(keys) + 1} /\ Len(keys') = Len(keys) + 1
        /\ keys'[Len(keys) + 1] = [name |-> n, value |-> toolValue, dependant |-> dependant]
        /\ \A i \in DOMAIN keys : keys'[i] = keys[i]
    BY <1>4, <2>1, NamedGrows
  <2>4. \A m \in Keys : m # n => offsets'[m] = offsets[m]
    BY <1>4, <1>9, RunPutIs DEF Define, RunStops, LibraryIdle, library, Values
  \* The new key has the value read, or the library has stopped.
  <2>5. \/ ~stopped /\ offsets'[n] = runValue
        \/ stopped' /\ offsets'[n] = NULL
    <3>1. CASE RunPut(n) /\ ~stopped
      <4>1. offsets' = [offsets EXCEPT ![n] = runValue]
        BY <1>4, <2>2, <3>1, RunPutIs
      <4> QED
        BY <1>4, <2>1, <3>1, <4>1 DEF Values
    <3>2. CASE RunStops
      BY <2>2, <3>2 DEF RunStops
    <3>3. CASE stopped
      BY <1>9, <2>2, <3>3 DEF Define, LibraryIdle, library
    <3> QED
      BY <1>9, <3>1, <3>2, <3>3 DEF Define
  <2>6. stopped => stopped'
    BY <1>9 DEF Define, LibraryIdle, library
  <2>7. ~stopped' => runValue' = <<>>
    BY <1>4, <1>9, <2>6, RunPutIs DEF Define, RunStops
  <2>8. Cached(cache')
    <3>1. ASSUME NEW m \in Keys, cache[m] # NULL PROVE m # n
      BY <2>1, <3>1 DEF NamesInv
    <3> QED
      BY <1>2, <1>3, <2>1, <2>4, <3>1
  <2>9. Recorded(keys')
    <3> SUFFICES ASSUME NEW i \in DOMAIN keys'
                 PROVE  LET value == offsets'[keys'[i].name]
                        IN  IF value # NULL THEN Means(keys'[i].value, value, dynvars', offsets')
                            ELSE stopped' /\ \A j \in i..Len(keys') : offsets'[keys'[j].name] = NULL
      OBVIOUS
    <3>1. CASE i = Len(keys) + 1
      <4>1. keys'[i].name = n /\ keys'[i].value = toolValue /\ Len(keys') = i /\ i \in Nat
        BY <1>4, <2>3, <3>1
      <4>2. CASE ~stopped /\ offsets'[n] = runValue
        <5>1. runValue # NULL
          BY <1>4, EvaluationAssumption DEF Text0
        <5> QED
          BY <1>2, <1>3, <4>1, <4>2, <5>1
      <4>3. CASE stopped' /\ offsets'[n] = NULL
        <5>1. \A j \in i..Len(keys') : j = i
          BY <4>1
        <5> QED
          BY <4>1, <4>3, <5>1
      <4> QED
        BY <2>5, <4>2, <4>3
    <3>2. CASE i \in DOMAIN keys
      <4>1. keys'[i] = keys[i] /\ keys[i].name \in Keys /\ keys[i].name # n
        BY <1>5, <2>1, <2>3, <3>2
      <4>2. offsets'[keys[i].name] = offsets[keys[i].name]
        BY <2>4, <4>1
      <4>3. CASE offsets[keys[i].name] # NULL
        BY <1>2, <1>3, <3>2, <4>1, <4>2, <4>3
      <4>4. CASE offsets[keys[i].name] = NULL
        <5>1. stopped /\ \A j \in i..Len(keys) : offsets[keys[j].name] = NULL
          BY <1>2, <3>2, <4>4
        <5>2. stopped' /\ offsets'[n] = NULL
          BY <2>5, <5>1
        <5>3. ASSUME NEW j \in i..Len(keys') PROVE offsets'[keys'[j].name] = NULL
          <6>1. CASE j = Len(keys) + 1
            BY <2>3, <5>2, <6>1
          <6>2. CASE j # Len(keys) + 1
            <7>1. j \in i..Len(keys) /\ j \in DOMAIN keys
              BY <1>4, <2>3, <3>2, <6>2
            <7> QED
              BY <1>5, <2>1, <2>3, <2>4, <5>1, <7>1
          <6> QED
            BY <6>1, <6>2
        <5> QED
          BY <4>1, <4>2, <4>4, <5>2, <5>3
      <4> QED
        BY <4>3, <4>4
    <3> QED
      BY <2>3, <3>1, <3>2
  <2> QED
    BY <2>1, <2>7, <2>8, <2>9, MeansEmpty
<1>10. CASE \A n \in Names : ~Refer(n) /\ ~Define(n)
  <2>1. ~SyntaxError /\ UNCHANGED <<keys, cache, offsets, dynvars, stopped>>
    BY <1>1, <1>10, Others
  <2>2. ASSUME ~stopped PROVE Means(toolValue', runValue', dynvars', offsets')
    <3>1. Means(toolValue, runValue, dynvars', offsets')
      BY <1>2, <1>3, <2>2
    <3>2. ASSUME NEW c \in Literals, Text(c)
          PROVE  Means(toolValue', runValue', dynvars', offsets')
      <4>1. toolValue' = Append(toolValue, Literal(c)) /\ runValue' = Append(runValue, Literal(c))
        BY <2>2, <3>2 DEF Text
      <4>2. Literal(c) \in Token
        BY TokensAre
      <4>3. /\ toolValue' = toolValue \o <<Literal(c)>> /\ runValue' = runValue \o <<Literal(c)>>
            /\ <<Literal(c)>> \in Text0
        BY <1>4, <4>1, <4>2 DEF Text0
      <4>4. /\ Denotes(Literal(c), dynvars', offsets')
            /\ Denoted(Literal(c), dynvars', offsets') = <<Literal(c)>>
        BY DEF Denotes, Denoted, Literal
      <4>5. Means(<<Literal(c)>>, <<Literal(c)>>, dynvars', offsets')
        BY <1>4, <4>2, <4>4, MeansToken
      <4> QED
        BY <1>4, <3>1, <4>3, <4>5, MeansConcat
    <3>3. CASE UNCHANGED <<toolValue, runValue>>
      BY <3>1, <3>3
    <3> QED
      BY <1>10, <2>1, <3>2, <3>3
      DEF Next, Generate, Fatal, PasswdChanges, vars, toolbox, library
  <2> QED
    BY <1>6, <1>7, <2>1, <2>2
<1> QED
  BY <1>8, <1>9, <1>10

\* What the toolbox recorded for a key of a file that it accepts is what the library
\* evaluates, once its references are replaced: the normal forms that getcb caches
\* lose nothing, and a value that is too big loses that key and the later ones.
THEOREM SameEvaluationAlways == Spec => []SameEvaluation
<1>1. Init => NamesInv /\ ReadsInv /\ RowInv /\ SameInv
  <2>1. Init => NamesInv /\ ReadsInv
    BY DEF Init, NamesInv, ReadsInv, Checked, Named, Names
  <2>2. Init => RowInv
    BY RowTexts DEF Init, RowInv, Foreign
  <2>3. Init => SameInv
    BY MeansEmpty DEF Init, SameInv, Names
  <2> QED
    BY <2>1, <2>2, <2>3
<1>2. SameInv => SameEvaluation
  <2>1. \A v : Expand(v) = FlattenSeq([i \in DOMAIN v |-> Denoted(v[i], dynvars, offsets)])
    BY DEF Expand, Denoted
  <2> QED
    BY <2>1 DEF SameInv, SameEvaluation, Means
<1> QED
  BY <1>1, <1>2, TypesInit, TypesStep, NamesStep, ReadsStep, RowStep, SameStep, PTL DEF Spec
=============================================================================
