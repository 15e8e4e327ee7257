------------------------------ MODULE Interner ------------------------------
(***************************************************************************)
(* What the concatenating functions promise: "an allocated unique string   *)
(* that MUST not be freed".  A string is given an address the first time   *)
(* it is asked for, keeps it forever, and shares it with no other string.  *)
(***************************************************************************)
CONSTANTS Threads, Strings, Addresses, NULL

VARIABLES table,    \* the address of each string, NULL before it has one
          asked,    \* the string each thread asks for
          answer    \* the address it is given

vars == <<table, asked, answer>>

Used == {table[s] : s \in Strings} \ {NULL}

Ask(t) ==
    /\ \E s \in Strings : asked' = [asked EXCEPT ![t] = s]
    /\ answer[t] = NULL
    /\ UNCHANGED <<table, answer>>

\* The address of the string, a new one if it has none, or no memory.
Give(t) ==
    /\ \/ /\ table[asked[t]] # NULL
          /\ answer' = [answer EXCEPT ![t] = table[asked[t]]]
          /\ UNCHANGED table
       \/ /\ table[asked[t]] = NULL
          /\ \E a \in Addresses \ Used :
                /\ table' = [table EXCEPT ![asked[t]] = a]
                /\ answer' = [answer EXCEPT ![t] = a]
    /\ UNCHANGED asked

Forget(t) ==
    /\ answer' = [answer EXCEPT ![t] = NULL]
    /\ UNCHANGED <<table, asked>>

Init == /\ table = [s \in Strings |-> NULL]
        /\ asked \in [Threads -> Strings]
        /\ answer = [t \in Threads |-> NULL]

Next == \E t \in Threads : Ask(t) \/ Give(t) \/ Forget(t)

Spec == Init /\ [][Next]_vars
=============================================================================
