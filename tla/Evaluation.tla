----------------------------- MODULE Evaluation -----------------------------
(***************************************************************************)
(* The two readers of the configuration file: the toolbox, which checks it *)
(* and generates code and macros from it when the package is built, and    *)
(* initialize() of the library, which evaluates it in every process.  Both *)
(* are callbacks of one parser (see ConfParser), here fed token by token   *)
(* from one file; they share nothing else.                                 *)
(*                                                                         *)
(* A value is a sequence of tokens: a literal, a reference that was left   *)
(* as it is, or a field of a row of the passwd file.                       *)
(***************************************************************************)
EXTENDS Naturals, Sequences, SequencesExt

CONSTANTS Keys,         \* names of variables of the file
          Literals,
          People,       \* the rows /etc/passwd may have for the user
          MaxDefs,      \* bound: definitions in the file
          MaxTokens,    \* bound: tokens in the values of the file
          Capacity,     \* what the parser's data buffer holds
          Length,       \* Length[p]: the size of the fields of row p
          NULL

Foreign == {"HOME", "USER"}     \* enum fkey
Names   == Keys \cup Foreign
Token   == [kind : {"literal", "ref"} \cup Foreign,
            of : Literals \cup {"***error***"} \cup Names \cup People]

ASSUME EvaluationAssumption ==
    /\ MaxDefs \in Nat /\ MaxTokens \in Nat /\ Capacity \in Nat
    /\ Length \in [People -> Nat]
    /\ Keys \cap Foreign = {}
    /\ NULL \notin Names \cup People /\ NULL \notin Seq(Token)

VARIABLES
    phase, defs, tokens,    \* where the readers are in the file
    action, keys, cache, dependant, errcount, toolValue, macros,   \* toolbox.c
    known, offsets, dynvars, errs, stopped, runValue,              \* init.c
    row,                    \* the row of the user in /etc/passwd, or NULL
    lost, excused           \* history: names the library could not allocate,
                            \* errors that are the environment's

place   == <<phase, defs, tokens>>
toolbox == <<keys, cache, dependant, errcount, toolValue>>
library == <<offsets, dynvars, errs, stopped, runValue>>
history == <<lost, excused>>
vars    == <<place, action, macros, toolbox, known, library, row, history>>

Literal(c)  == [kind |-> "literal", of |-> c]
Ref(n)      == [kind |-> "ref", of |-> n]
Field(n, p) == [kind |-> n, of |-> p]

\* A value is too big for the parser: a reference the toolbox leaves as it is
\* counts for one, what the library replaces it by may count for more.
Size(v) == FoldSeq(LAMBDA t, n : n + (IF t.kind \in Foreign THEN Length[t.of] ELSE 1),
                   0, v)
TooBig(v) == Size(v) > Capacity

Found(n) == {i \in DOMAIN keys : keys[i].name = n}      \* key_search
Key(n) == keys[CHOOSE i \in Found(n) : TRUE]
One(b) == IF b THEN 1 ELSE 0

-----------------------------------------------------------------------------
(* Callbacks of toolbox.c.                                                   *)

\* Mutant of ToolCached: a cached variable does not make its user dependant.
ToolCachedFree(n) ==
    /\ cache[n] # NULL
    /\ toolValue' = toolValue \o cache[n].normal
    /\ UNCHANGED <<cache, errcount, dependant>>

\* getcb: a variable already used has its normal form cached.  A new one must
\* be foreign or defined above; for RPM its normal form is its value.
ToolCached(n) ==
    /\ cache[n] # NULL
    /\ toolValue' = toolValue \o cache[n].normal
    /\ dependant' = (dependant \/ cache[n].dependant)
    /\ UNCHANGED <<cache, errcount>>

ToolUnknown(n) ==
    /\ cache[n] = NULL /\ n \notin Foreign /\ Found(n) = {}
    /\ errcount' = errcount + 1
    /\ dependant' = TRUE
    /\ toolValue' = Append(toolValue, Literal("***error***"))
    /\ UNCHANGED cache

ToolUses(n) ==
    /\ cache[n] = NULL
    /\ n \in Foreign \/ Found(n) # {}
    /\ LET depend == IF n \in Foreign THEN TRUE ELSE Key(n).dependant
           normal == IF action = "RPM" /\ Found(n) # {} THEN Key(n).value
                                                         ELSE <<Ref(n)>>
       IN  /\ dependant' = (dependant \/ depend)
           /\ cache' = [cache EXCEPT ![n] = [normal |-> normal, dependant |-> depend]]
           /\ toolValue' = toolValue \o normal
    /\ UNCHANGED errcount

ToolGet(n) ==
    /\ ToolCached(n) \/ ToolUnknown(n) \/ ToolUses(n)
    /\ UNCHANGED keys

\* Mutants of ToolPut: redefinitions are accepted, or the value of the previous
\* key is kept.
ToolPutAgain(n) ==
    /\ n \notin Foreign
    /\ keys' = Append(keys, [name |-> n, value |-> toolValue, dependant |-> dependant])
    /\ dependant' = FALSE /\ toolValue' = <<>>
    /\ UNCHANGED <<cache, errcount>>

ToolPutKeeps(n) ==
    /\ n \notin Foreign /\ Found(n) = {}
    /\ keys' = Append(keys, [name |-> n, value |-> toolValue, dependant |-> dependant])
    /\ dependant' = FALSE
    /\ UNCHANGED <<cache, errcount, toolValue>>

\* putcb: foreign names and names already defined are errors.
ToolPut(n) ==
    /\ IF n \in Foreign \/ Found(n) # {}
       THEN errcount' = errcount + 1 /\ UNCHANGED keys
       ELSE /\ keys' = Append(keys, [name |-> n, value |-> toolValue,
                                     dependant |-> dependant])
            /\ UNCHANGED errcount
    /\ dependant' = FALSE
    /\ toolValue' = <<>>
    /\ UNCHANGED cache

\* errcb for a value too big, which is not put: only the count changes.
ToolRefuses ==
    /\ errcount' = errcount + 1
    /\ toolValue' = <<>>
    /\ UNCHANGED <<keys, cache, dependant>>

-----------------------------------------------------------------------------
(* Callbacks of init.c.                                                      *)

\* foreignpw: both fields come from one row, and are kept in the heap; a field
\* whose allocation fails is HNULL, and the next use reads both again.  When the
\* file cannot be opened, or has no row for the user, nothing changes.
Looks(n) == n \in Foreign /\ row # NULL /\ \E f \in Foreign : dynvars[f] = NULL

\* Mutant of foreignpw: the fields already kept are not looked at.
foreignpwAgain(n) ==
    IF n \in Foreign /\ row # NULL THEN [Foreign -> {row, NULL}] ELSE {dynvars}

\* Mutant of foreignpw: only the missing field is taken from the row.
foreignpwFills(n) ==
    IF Looks(n)
    THEN {[f \in Foreign |-> IF dynvars[f] = NULL THEN d[f] ELSE dynvars[f]] :
              d \in [Foreign -> {row, NULL}]}
    ELSE {dynvars}

foreignpw(n) == IF Looks(n) THEN [Foreign -> {row, NULL}] \cup {dynvars} ELSE {dynvars}

\* getcb: a name of the table or else a foreign one; an undefined one is an
\* error and reads as the empty string.
RunGet(n) ==
    \E d \in foreignpw(n) :
        LET undefined == IF n \in known THEN offsets[n] = NULL
                         ELSE n \notin Foreign \/ d[n] = NULL
            value == IF n \in known THEN offsets[n] ELSE <<Field(n, d[n])>>
        IN  /\ dynvars' = d
            /\ errs' = errs + One(undefined)
            /\ excused' = excused + One(undefined /\ n \in Foreign \cup lost)
            /\ runValue' = IF undefined THEN runValue ELSE runValue \o value
            /\ lost' = lost \cup {f \in Foreign : Looks(n) /\ d[f] = NULL}
            /\ UNCHANGED <<offsets, stopped>>

\* putcb: a redefinition is an error but replaces the value; a name that is
\* not in the table is reported and not counted.
RunPut(n) ==
    /\ \E full \in BOOLEAN :
          LET again == n \in known /\ offsets[n] # NULL
          IN  /\ full => n \in known
              /\ errs' = errs + One(again) + One(full)
              /\ excused' = excused + One(full)
              /\ lost' = IF full THEN lost \cup {n} ELSE lost
              /\ offsets' = IF n \in known /\ ~full
                            THEN [offsets EXCEPT ![n] = runValue] ELSE offsets
    /\ runValue' = <<>>
    /\ UNCHANGED <<dynvars, stopped>>

\* errcb returns 0 and the parser stops.
RunStops ==
    /\ errs' = errs + 1
    /\ stopped' = TRUE
    /\ runValue' = <<>>
    /\ UNCHANGED <<offsets, dynvars, lost>>

LibraryIdle == UNCHANGED <<library, history>>

-----------------------------------------------------------------------------
(* The file: the parser's events, delivered to both readers.                 *)

Text(c) ==
    /\ phase = "reading" /\ defs < MaxDefs /\ tokens < MaxTokens
    /\ tokens' = tokens + 1
    /\ toolValue' = Append(toolValue, Literal(c))
    /\ runValue' = IF stopped THEN runValue ELSE Append(runValue, Literal(c))
    /\ UNCHANGED <<phase, defs, action, macros, keys, cache, dependant, errcount,
                   known, offsets, dynvars, errs, stopped, row, history>>

Refer(n) ==
    /\ phase = "reading" /\ defs < MaxDefs /\ tokens < MaxTokens
    /\ tokens' = tokens + 1
    /\ ToolGet(n)
    /\ IF stopped THEN LibraryIdle ELSE RunGet(n)
    /\ UNCHANGED <<phase, defs, action, macros, known, row>>

Define(n) ==
    /\ phase = "reading" /\ defs < MaxDefs
    /\ defs' = defs + 1
    /\ IF TooBig(toolValue) THEN ToolRefuses ELSE ToolPut(n)
    /\ IF stopped THEN LibraryIdle
       ELSE IF TooBig(runValue) THEN RunStops /\ excused' = excused + 1
       ELSE RunPut(n)
    /\ UNCHANGED <<phase, tokens, action, macros, known, row>>

\* Any other error: the toolbox returns 1 and goes on, with the value it was
\* reading or the next key; the library stops.
SyntaxError ==
    /\ phase = "reading" /\ defs < MaxDefs
    /\ defs' = defs + 1
    /\ errcount' = errcount + 1
    /\ toolValue' \in {<<>>, toolValue}
    /\ IF stopped THEN LibraryIdle ELSE RunStops /\ UNCHANGED excused
    /\ UNCHANGED <<phase, tokens, action, macros, keys, cache, dependant, known, row>>

\* Mutant of Generate: every key becomes a macro.
GenerateAll ==
    /\ phase = "reading" /\ toolValue = <<>>
    /\ phase' = IF errcount = 0 THEN "generated" ELSE "refused"
    /\ macros' = IF errcount = 0 /\ action = "RPM"
                 THEN {keys[i] : i \in DOMAIN keys} ELSE {}
    /\ UNCHANGED <<defs, tokens, action, toolbox, known, library, row, history>>

\* process() after the parse: any error is fatal, else the output is made; for
\* rpm a macro for each key that does not depend on the user.
Generate ==
    /\ phase = "reading" /\ toolValue = <<>>
    /\ phase' = IF errcount = 0 THEN "generated" ELSE "refused"
    /\ macros' = IF errcount = 0 /\ action = "RPM"
                 THEN {keys[i] : i \in {j \in DOMAIN keys : ~keys[j].dependant}}
                 ELSE {}
    /\ UNCHANGED <<defs, tokens, action, toolbox, known, library, row, history>>

\* An allocation of the toolbox fails: fatal("out of memory").
Fatal ==
    /\ phase = "reading"
    /\ phase' = "refused"
    /\ UNCHANGED <<defs, tokens, action, macros, toolbox, known, library, row,
                   history>>

\* The administrator edits /etc/passwd while the library reads.
PasswdChanges ==
    /\ phase = "reading"
    /\ row' \in (People \cup {NULL}) \ {row}
    /\ UNCHANGED <<place, action, macros, toolbox, known, library, history>>

-----------------------------------------------------------------------------
Init ==
    /\ phase = "reading" /\ defs = 0 /\ tokens = 0
    /\ action \in {"CHECK", "RPM"}
    /\ keys = <<>> /\ cache = [n \in Names |-> NULL]
    /\ dependant = FALSE /\ errcount = 0 /\ toolValue = <<>> /\ macros = {}
    /\ known \in SUBSET Keys
    /\ offsets = [n \in Keys |-> NULL] /\ dynvars = [f \in Foreign |-> NULL]
    /\ errs = 0 /\ stopped = FALSE /\ runValue = <<>>
    /\ row \in People \cup {NULL}
    /\ lost = {} /\ excused = 0

Next == \/ \E c \in Literals : Text(c)
        \/ \E n \in Names : Refer(n) \/ Define(n)
        \/ SyntaxError \/ Generate \/ Fatal \/ PasswdChanges

Spec == Init /\ [][Next]_vars

-----------------------------------------------------------------------------
(* Properties                                                                *)

Named == {keys[i].name : i \in DOMAIN keys}

\* The library was built from this file, or from one with the same names, and
\* the toolbox found no error in it.
Checked == errcount = 0 /\ Named \subseteq known

\* In a file that the toolbox accepts the library meets no error of its own: only
\* an unknown user, a lack of memory or a value that no longer fits once expanded
\* can make it count one (init.c:260-363 against toolbox.c:359-485).
CheckedFileReads == Checked => errs = excused

\* The value of a normalized text for the user of the library.
Expand(v) ==
    FlattenSeq([i \in DOMAIN v |->
        IF v[i].kind # "ref" THEN <<v[i]>>
        ELSE IF v[i].of \in Foreign THEN <<Field(v[i].of, dynvars[v[i].of])>>
        ELSE offsets[v[i].of]])

\* What the toolbox recorded for a key, with its references replaced, is what
\* the library evaluates: "${name}" and the values cached for rpm denote the same.
\* A value that is too big loses that variable and the later ones, and no other.
SameEvaluation ==
    Checked /\ errs = One(stopped) /\ lost = {} =>
        \A i \in DOMAIN keys :
            LET value == offsets[keys[i].name]
            IN  IF value # NULL THEN value = Expand(keys[i].value)
                ELSE stopped /\ \A j \in i..Len(keys) : offsets[keys[j].name] = NULL

\* rpm: a macro has the value that every user's library computes.
MacrosRight ==
    Checked /\ errs = 0 => \A k \in macros : offsets[k.name] = k.value

\* A key is marked dependant exactly when its value depends on the user, through
\* any chain of variables: the others, and only they, become macros.
DependantExact ==
    Checked /\ errs = 0 =>
        \A i \in DOMAIN keys :
            keys[i].dependant <=>
                \E j \in DOMAIN offsets[keys[i].name] :
                    offsets[keys[i].name][j].kind \in Foreign

\* The fields of the user in the values defined so far and in the one being read.
FieldsUsed ==
    {t \in UNION {ToSet(v) : v \in ({offsets[n] : n \in Keys} \ {NULL}) \cup {runValue}} :
         t.kind \in Foreign}

\* The two fields that an evaluation keeps are always those of one row, also when
\* one was lost and passwd was edited before both are read again.  The fields that
\* its values use are those of one row unless one was lost: a lack of memory then
\* leaves the values of before with the older row, and nothing is reported
\* (init.c:148-161, passwd.c:118-121).
OneUser ==
    /\ \A f, g \in Foreign : NULL \notin {dynvars[f], dynvars[g]} => dynvars[f] = dynvars[g]
    /\ lost \cap Foreign = {} => \A t, u \in FieldsUsed : t.of = u.of
=============================================================================
