-------------------------- MODULE NameTableProofs --------------------------
(***************************************************************************)
(* Proofs about NameTable, for every set of ids and threads and every      *)
(* order of namassoc.                                                      *)
(***************************************************************************)
EXTENDS NameTable, TLAPS

Full == \A id \in Ids : names[id] # NULL

\* A thread that fills has stored the entries it has passed, and a call is in
\* its place with the argument and the answer that belong there.
CallOf(t) ==
    /\ pc[t] \in {"fill", "read"} => arg[t] \in Ids
    /\ pc[t] = "fill" =>
          \A i \in 1..iter[t] - 1 : Assoc[i] # NULL => names[Assoc[i]] # NULL
    /\ after[t] => Full
    /\ pc[t] = "return" => /\ ret[t] \in {arg[t], NULL}
                           /\ arg[t] \in Ids /\ after[t] => ret[t] = arg[t]

\* An entry holds nothing or its own name.
TableInv == /\ TypeOK
            /\ \A id \in Ids : names[id] \in {id, NULL}
            /\ \A t \in Threads : CallOf(t)

\* The table starts empty.
LEMMA TableInit == TableOK /\ Init => TableInv
  BY DEF TableOK, Init, TableInv, TypeOK, CallOf

\* No entry of the table is ever taken back.
LEMMA NamesGrow ==
    ASSUME TableOK, TableInv, [Next]_vars
    PROVE  /\ \A id \in Ids : names'[id] \in {id, NULL}
           /\ \A id \in Ids : names[id] # NULL => names'[id] # NULL
<1> USE DEF TableInv, TypeOK, TableOK
<1>1. ASSUME UNCHANGED names
      PROVE  /\ \A id \in Ids : names'[id] \in {id, NULL}
             /\ \A id \in Ids : names[id] # NULL => names'[id] # NULL
  BY <1>1
<1>2. ASSUME NEW t \in Threads, Fill(t)
      PROVE  /\ \A id \in Ids : names'[id] \in {id, NULL}
             /\ \A id \in Ids : names[id] # NULL => names'[id] # NULL
  <2> DEFINE id == Assoc[iter[t]]
  <2>1. CASE id = NULL
    BY <1>2, <2>1 DEF Fill
  <2>2. CASE id # NULL
    <3>1. names' = [names EXCEPT ![id] = id] /\ id # NULL
      BY <1>2, <2>2 DEF Fill
    <3> HIDE DEF id
    <3> QED
      BY <3>1
  <2> QED
    BY <2>1, <2>2
<1> QED
  BY <1>1, <1>2 DEF Next, Call, GetName, Filled, Read, Return, vars

\* Every step, of however many threads filling at once, preserves TableInv.
LEMMA TableStep == TableOK /\ TableInv /\ [Next]_vars => TableInv'
<1> SUFFICES ASSUME TableOK, TableInv, [Next]_vars PROVE TableInv'
  OBVIOUS
<1> USE DEF TypeOK, Goto, Answer
<1>1. /\ \A id \in Ids : names'[id] \in {id, NULL}
      /\ \A id \in Ids : names[id] # NULL => names'[id] # NULL
  BY NamesGrow
<1>2. ASSUME NEW t \in Threads, TypeOK', CallOf(t)',
             \A s \in Threads \ {t} : /\ pc'[s] = pc[s] /\ arg'[s] = arg[s]
                                      /\ iter'[s] = iter[s] /\ ret'[s] = ret[s]
                                      /\ after'[s] = after[s]
      PROVE  TableInv'
  <2>1. ASSUME NEW s \in Threads \ {t} PROVE CallOf(s)'
    <3>1. CallOf(s) /\ iter[s] \in 1..Len(Assoc) + 1
      BY DEF TableInv
    <3>2. \A i \in 1..iter[s] - 1 : Assoc[i] # NULL => Assoc[i] \in Ids
      BY <3>1 DEF TableOK
    <3> QED
      BY <1>1, <1>2, <3>1, <3>2 DEF CallOf, Full
  <2> QED
    BY <1>1, <1>2, <2>1 DEF TableInv
<1>3. ASSUME NEW t \in Threads, Call(t) PROVE TableInv'
  <2>1. CallOf(t)'
    BY <1>3 DEF Call, CallOf, Full, TableInv
  <2> QED
    BY <1>2, <1>3, <2>1 DEF Call, TableInv
<1>4. ASSUME NEW t \in Threads, GetName(t) PROVE TableInv'
  <2>1. CallOf(t)'
    BY <1>4 DEF GetName, CallOf, Full, TableInv, TableOK
  <2>2. TypeOK'
    <3>1. 1 \in 1..Len(Assoc) + 1
      BY DEF TableOK
    <3>2. iter' \in [Threads -> 1..Len(Assoc) + 1]
      BY <1>4, <3>1 DEF GetName, TableInv
    <3> QED
      BY <1>4, <3>2 DEF GetName, TableInv
  <2> QED
    BY <1>2, <1>4, <2>1, <2>2 DEF GetName, TableInv
<1>5. ASSUME NEW t \in Threads, Fill(t) PROVE TableInv'
  <2>1. /\ pc[t] = "fill" /\ iter[t] \in 1..Len(Assoc) /\ Len(Assoc) \in Nat
        /\ iter' = [iter EXCEPT ![t] = iter[t] + 1] /\ UNCHANGED <<pc, arg, ret, after>>
        /\ CallOf(t) /\ Assoc[iter[t]] \in Ids \cup {NULL}
    BY <1>5 DEF Fill, TableInv, TableOK
  <2>2. /\ names' \in [Ids -> Ids \cup {NULL}]
        /\ Assoc[iter[t]] # NULL => names'[Assoc[iter[t]]] # NULL
    BY <1>5, <2>1 DEF Fill, TableInv
  <2>3. TypeOK'
    BY <2>1, <2>2 DEF TableInv
  <2>4. \A i \in 1..iter'[t] - 1 : Assoc[i] # NULL => names'[Assoc[i]] # NULL
    <3> SUFFICES ASSUME NEW i \in 1..iter[t], Assoc[i] # NULL
                 PROVE  names'[Assoc[i]] # NULL
      BY <2>1 DEF TableInv
    <3>1. Assoc[i] \in Ids
      BY <2>1 DEF TableOK
    <3>2. CASE i = iter[t]
      BY <2>2, <3>2
    <3>3. CASE i # iter[t]
      <4>1. i \in 1..iter[t] - 1
        BY <2>1, <3>3
      <4> QED
        BY <1>1, <2>1, <3>1, <4>1 DEF CallOf
    <3> QED
      BY <3>2, <3>3
  <2>5. CallOf(t)'
    BY <1>1, <2>1, <2>4 DEF CallOf, Full
  <2> QED
    BY <1>2, <2>1, <2>3, <2>5
<1>6. ASSUME NEW t \in Threads, Filled(t) PROVE TableInv'
  <2>1. CallOf(t)'
    BY <1>6 DEF Filled, CallOf, Full, TableInv
  <2> QED
    BY <1>2, <1>6, <2>1 DEF Filled, TableInv
<1>7. ASSUME NEW t \in Threads, Read(t) PROVE TableInv'
  <2>1. CallOf(t)'
    BY <1>7 DEF Read, CallOf, Full, TableInv
  <2>2. TypeOK'
    BY <1>7 DEF Read, CallOf, TableInv
  <2> QED
    BY <1>2, <1>7, <2>1, <2>2 DEF Read, TableInv
<1>8. ASSUME NEW t \in Threads, Return(t) PROVE TableInv'
  <2>1. CallOf(t)'
    BY <1>8 DEF Return, CallOf, Full, TableInv
  <2> QED
    BY <1>2, <1>8, <2>1 DEF Return, TableInv
<1>9. CASE UNCHANGED vars
  BY <1>9 DEF vars, TableInv, CallOf, Full
<1> QED
  BY <1>3, <1>4, <1>5, <1>6, <1>7, <1>8, <1>9 DEF Next

\* The invariant holds in every reachable state.
LEMMA TableAlways == TableOK /\ Spec => []TableInv
<1> SUFFICES ASSUME TableOK PROVE Spec => []TableInv
  OBVIOUS
<1> QED
  BY TableInit, TableStep, PTL DEF Spec

\* Whatever the threads that fill the table at once do to each other, no call
\* returns the name of another variable.
THEOREM NeverAnotherNameAlways == TableOK /\ Spec => []NeverAnotherName
<1> SUFFICES ASSUME TableOK PROVE Spec => []NeverAnotherName
  OBVIOUS
<1>1. TableInv => NeverAnotherName
  BY DEF TableInv, CallOf, NeverAnotherName
<1> QED
  BY <1>1, TableAlways, PTL

\* Once the table is complete, every call that begins returns the name it is
\* asked for, even while other threads store the same names again.
THEOREM SettledTableAlways == TableOK /\ Spec => []SettledTable
<1> SUFFICES ASSUME TableOK PROVE Spec => []SettledTable
  OBVIOUS
<1>1. TableInv => SettledTable
  BY DEF TableInv, CallOf, SettledTable
<1> QED
  BY <1>1, TableAlways, PTL

-----------------------------------------------------------------------------
(* Calls that do not overlap keep what the header says of a valid id, which  *)
(* the run NameTableRace refutes for the calls that do.                      *)
Alone == \A s, t \in Threads : pc[s] # "idle" /\ pc[t] # "idle" => s = t

\* The table is complete, unless it has no entry 0 or a thread is filling it.
AloneInv ==
    /\ names[First] # NULL => Full \/ \E t \in Threads : pc[t] = "fill"
    /\ \A t \in Threads : pc[t] = "read" => Full
    /\ \A t \in Threads : pc[t] = "return" /\ arg[t] \in Ids => ret[t] = arg[t]

\* A thread that finds entry 0 alone finds a complete table.
LEMMA AloneStep ==
    TableOK /\ TableInv /\ Alone /\ AloneInv /\ [Next]_vars => AloneInv'
<1> SUFFICES ASSUME TableOK, TableInv, Alone, AloneInv, [Next]_vars PROVE AloneInv'
  OBVIOUS
<1> USE DEF TypeOK, Goto, Answer, Alone, AloneInv
<1>1. ASSUME NEW t \in Threads, Call(t) PROVE AloneInv'
  BY <1>1 DEF Call, TableInv, Full
<1>2. ASSUME NEW t \in Threads, GetName(t) PROVE AloneInv'
  <2>1. pc[t] = "getname" /\ UNCHANGED <<names, arg>>
    BY <1>2 DEF GetName
  <2>2. \A s \in Threads \ {t} : pc[s] = "idle"
    BY <2>1
  <2>3. \A s \in Threads \ {t} : pc'[s] = pc[s]
    BY <1>2 DEF GetName, TableInv
  <2>4. CASE pc'[t] = "return" /\ arg[t] \notin Ids
    BY <2>1, <2>2, <2>3, <2>4 DEF Full
  <2>5. CASE pc'[t] = "fill"
    BY <2>1, <2>2, <2>3, <2>5 DEF Full
  <2>6. CASE pc'[t] = "read" /\ names[First] # NULL
    BY <2>1, <2>2, <2>3, <2>6 DEF Full
  <2> QED
    BY <1>2, <2>4, <2>5, <2>6 DEF GetName, TableInv, TableOK
<1>3. ASSUME NEW t \in Threads, Fill(t) PROVE AloneInv'
  <2>1. pc[t] = "fill" /\ UNCHANGED <<pc, arg, ret>>
    BY <1>3 DEF Fill
  <2> QED
    BY <2>1
<1>4. ASSUME NEW t \in Threads, Filled(t) PROVE AloneInv'
  <2>1. /\ pc[t] = "fill" /\ iter[t] > Len(Assoc) /\ UNCHANGED <<names, arg, ret>>
        /\ pc' = [pc EXCEPT ![t] = "read"] /\ iter[t] \in Nat /\ Len(Assoc) \in Nat
    BY <1>4 DEF Filled, TableInv, TableOK
  <2>2. Full
    <3> SUFFICES ASSUME NEW id \in Ids PROVE names[id] # NULL
      BY DEF Full
    <3>1. PICK i \in 1..Len(Assoc) : Assoc[i] = id
      BY DEF TableOK
    <3>2. i \in 1..iter[t] - 1 /\ CallOf(t)
      BY <2>1 DEF TableInv
    <3> QED
      BY <2>1, <3>1, <3>2 DEF CallOf, TableOK
  <2>3. Full'
    BY <2>1, <2>2 DEF Full
  <2> QED
    BY <2>1, <2>3 DEF TableInv
<1>5. ASSUME NEW t \in Threads, Read(t) PROVE AloneInv'
  <2>1. /\ pc[t] = "read" /\ UNCHANGED <<names, arg>>
        /\ pc' = [pc EXCEPT ![t] = "return"] /\ ret' = [ret EXCEPT ![t] = names[arg[t]]]
    BY <1>5 DEF Read
  <2>2. Full /\ arg[t] \in Ids
    BY <2>1 DEF TableInv, CallOf
  <2>3. names[arg[t]] = arg[t]
    BY <2>2 DEF TableInv, Full
  <2>4. Full'
    BY <2>1, <2>2 DEF Full
  <2> QED
    BY <2>1, <2>3, <2>4 DEF TableInv
<1>6. ASSUME NEW t \in Threads, Return(t) PROVE AloneInv'
  BY <1>6 DEF Return, TableInv, Full
<1>7. CASE UNCHANGED vars
  BY <1>7 DEF vars, Full
<1> QED
  BY <1>1, <1>2, <1>3, <1>4, <1>5, <1>6, <1>7 DEF Next

\* "Return the name of the variable 'id' as a string": true of every valid id in
\* a client whose calls of tzplatform_getname do not overlap.
THEOREM NameWhenAlone == TableOK /\ Spec /\ []Alone => []NameOfValidId
<1> SUFFICES ASSUME TableOK PROVE Spec /\ []Alone => []NameOfValidId
  OBVIOUS
<1>1. Init => AloneInv
  BY DEF Init, AloneInv, TableOK
<1>2. AloneInv => NameOfValidId
  BY DEF AloneInv, NameOfValidId
<1> QED
  BY <1>1, <1>2, AloneStep, TableAlways, PTL DEF Spec
=============================================================================
