----------------------------- MODULE Generators -----------------------------
(***************************************************************************)
(* From the keys of a configuration file to the ids of the API.  The       *)
(* toolbox lists the keys of the file, sorts them and writes them: `h'     *)
(* makes the enumeration of the ids, `signup' the sum of the names.  The   *)
(* library and its client are built apart, of files that may differ; at    *)
(* the first call the library compares the two signups, and then takes the *)
(* id that the client passes for its own.  The sum of a text is the text.  *)
(***************************************************************************)
EXTENDS Naturals, Sequences, SequencesExt, FiniteSets

CONSTANTS Files,    \* the files, each a sequence of distinct names
          NULL

\* A name is a sequence of characters.  Zero stands for ';' in a text, and for the
\* end of a string: no name has it.
Name == Seq(Nat \ {0})
Term == 0

VARIABLES file,     \* file[side], side being library or client
          job,      \* the run of the toolbox, 1 to 4
          pc,
          read,     \* the names of the file read so far
          key,      \* of sortkeys: a name, or NULL
          keys, next,       \* the list: its head, and next[name]
          array, index,     \* of sortkeys
          header, signup,   \* what was generated for each side
          asked, answered   \* the client's call: a name, and the library's answer

vars == <<file, job, pc, read, key, keys, next, array, index, header, signup, asked,
          answered>>

Jobs == << <<"library", "h">>, <<"library", "signup">>,
           <<"client", "h">>, <<"client", "signup">> >>
Side == Jobs[job][1]

\* strcmp(s, t) < 0
Before(s, t) ==
    LET Character(i) == IF i \in DOMAIN s THEN s[i] ELSE Term
    IN  \E i \in DOMAIN t : /\ Character(i) < t[i]
                            /\ \A j \in 1..i - 1 : Character(j) = t[j]

\* What qsort makes of an array of distinct names.
Sorted(names) ==
    CHOOSE s \in [DOMAIN names -> ToSet(names)] :
        /\ ToSet(s) = ToSet(names)
        /\ \A i, j \in DOMAIN names : i < j => Before(s[i], s[j])

\* The names from n to the end of the list, as the loops on it see them.
From(n) ==
    LET list[m \in DOMAIN next \cup {NULL}] ==
            IF m = NULL THEN <<>> ELSE <<m>> \o list[next[m]]
    IN  list[n]

-----------------------------------------------------------------------------
\* The parser gives the names of the file one after the other; a new key goes
\* to the end of the list.  A failure stops the build.
KeyAdd ==
    /\ pc = "parse" /\ read < Len(file[Side])
    /\ LET name == file[Side][read + 1]
           list == From(keys)
       IN  /\ keys' = IF keys = NULL THEN name ELSE keys
           /\ next' = [n \in DOMAIN next \cup {name} |->
                           IF n = name THEN NULL
                           ELSE IF n = Last(list) THEN name ELSE next[n]]
    /\ read' = read + 1
    /\ UNCHANGED <<file, job, pc, key, array, index, header, signup, asked, answered>>

\* sortkeys: the keys are counted and put in an array, which qsort sorts.
Sort ==
    /\ pc = "parse" /\ read = Len(file[Side])
    /\ array' = Sorted(From(keys))
    /\ index' = Len(array')
    /\ key' = NULL
    /\ pc' = "relink"
    /\ UNCHANGED <<file, job, read, keys, next, header, signup, asked, answered>>

\* The array is relinked from its end, key being the successor.
Relink ==
    /\ pc = "relink" /\ index # 0
    /\ next' = [next EXCEPT ![array[index]] = key]
    /\ key' = array[index]
    /\ index' = index - 1
    /\ UNCHANGED <<file, job, pc, read, keys, array, header, signup, asked, answered>>

Relinked ==
    /\ pc = "relink" /\ index = 0
    /\ keys' = key
    /\ pc' = Jobs[job][2]
    /\ UNCHANGED <<file, job, read, key, next, array, index, header, signup, asked,
                   answered>>

\* The next run of the toolbox starts from nothing.
Finish ==
    /\ IF job < Len(Jobs) THEN job' = job + 1 /\ pc' = "parse"
                          ELSE pc' = "client" /\ UNCHANGED job
    /\ read' = 0 /\ key' = NULL /\ keys' = NULL /\ next' = <<>>
    /\ array' = <<>> /\ index' = 0

Genh ==
    /\ pc = "h"
    /\ header' = [header EXCEPT ![Side] = From(keys)]
    /\ Finish
    /\ UNCHANGED <<file, signup, asked, answered>>

\* Mutant of Signup: nothing separates the names.
SignupNoTerm ==
    /\ pc = "signup"
    /\ signup' = [signup EXCEPT ![Side] = FlattenSeq(From(keys))]
    /\ Finish
    /\ UNCHANGED <<file, header, asked, answered>>

Signup ==
    /\ pc = "signup"
    /\ signup' = [signup EXCEPT ![Side] =
                      FlattenSeq([i \in DOMAIN From(keys) |->
                                      Append(From(keys)[i], Term)])]
    /\ Finish
    /\ UNCHANGED <<file, header, asked, answered>>

-----------------------------------------------------------------------------
\* A stub of the client passes an id of its header and its signup; the first
\* call through a signup is checked, and the process aborts when it is not the
\* library's.  The library answers of the variable that has this id in its own
\* header.  The calls that follow answer without a check.
Call ==
    /\ pc \in {"client", "accepted"}
    /\ \E id \in DOMAIN header["client"] :
          /\ asked' = header["client"][id]
          /\ IF pc = "accepted" \/ signup["client"] = signup["library"]
             THEN /\ pc' = "accepted"
                  /\ answered' = IF id \in DOMAIN header["library"]
                                 THEN header["library"][id] ELSE NULL
             ELSE pc' = "aborted" /\ answered' = NULL
    /\ UNCHANGED <<file, job, read, key, keys, next, array, index, header, signup>>

Init ==
    /\ file \in [{"library", "client"} -> Files]
    /\ job = 1 /\ pc = "parse" /\ read = 0
    /\ key = NULL /\ keys = NULL /\ next = <<>> /\ array = <<>> /\ index = 0
    /\ header = [s \in {"library", "client"} |-> <<>>]
    /\ signup = [s \in {"library", "client"} |-> <<>>]
    /\ asked = NULL /\ answered = NULL

Next == KeyAdd \/ Sort \/ Relink \/ Relinked \/ Genh \/ Signup \/ Call

Spec == Init /\ [][Next]_vars

-----------------------------------------------------------------------------
\* A client whose file defines the variables of the library's, in whatever
\* order, is accepted, and each of its calls is answered of the variable it
\* names; any other client is stopped at its first call (shared-api.c:65,
\* toolbox.c:503, 684).
SignupFixesIds ==
    LET same == ToSet(file["client"]) = ToSet(file["library"])
    IN  /\ pc = "accepted" => same /\ answered = asked
        /\ pc = "aborted" => ~same
=============================================================================
