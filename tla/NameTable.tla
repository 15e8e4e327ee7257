----------------------------- MODULE NameTable -----------------------------
(***************************************************************************)
(* tzplatform_getname: keyname (hashing.c) fills its static table of names *)
(* at the first call, entry after entry in the order of the generated      *)
(* namassoc, and recognises a filled table by its entry 0.  No lock is     *)
(* taken.                                                                  *)
(***************************************************************************)
EXTENDS Naturals, Sequences

CONSTANTS Threads,
          Ids,      \* the valid ids
          BadId,    \* an id out of range
          First,    \* the id 0
          Assoc,    \* the ids of namassoc, a sequence in which each id is, and
                    \* NULL for the holes of the hash table (offset -1)
          NULL

\* What gperf generates: each id is somewhere in namassoc, and nothing else is
\* but the holes; an id out of range is not an id.
TableOK ==
    /\ First \in Ids /\ BadId \notin Ids /\ NULL \notin Ids \cup {BadId}
    /\ Assoc \in Seq(Ids \cup {NULL})
    /\ \A id \in Ids : \E i \in 1..Len(Assoc) : Assoc[i] = id

VARIABLES names,    \* names[id]: NULL, or the name of id, written id itself
          pc, arg,
          iter,     \* the place of each thread in namassoc
          ret,      \* what its call returns
          after     \* history: the calls that began after a complete fill

vars == <<names, pc, arg, iter, ret, after>>

Goto(t, l) == pc' = [pc EXCEPT ![t] = l]
Answer(t, r) == ret' = [ret EXCEPT ![t] = r]

Call(t) ==
    /\ pc[t] = "idle"
    /\ \E id \in Ids \cup {BadId} : arg' = [arg EXCEPT ![t] = id]
    /\ after' = [after EXCEPT ![t] = \A id \in Ids : names[id] # NULL]
    /\ Goto(t, "getname")
    /\ UNCHANGED <<names, iter, ret>>

\* The range check of _getname_tzplatform_, then the test of entry 0.
GetName(t) ==
    /\ pc[t] = "getname"
    /\ \/ /\ arg[t] = BadId
          /\ Answer(t, NULL) /\ Goto(t, "return")
          /\ UNCHANGED iter
       \/ /\ arg[t] # BadId /\ names[First] = NULL
          /\ iter' = [iter EXCEPT ![t] = 1]
          /\ Goto(t, "fill")
          /\ UNCHANGED ret
       \/ /\ arg[t] # BadId /\ names[First] # NULL
          /\ Goto(t, "read")
          /\ UNCHANGED <<iter, ret>>
    /\ UNCHANGED <<names, arg, after>>

\* Mutants of Fill: every entry gets the first name, or the table is cleared
\* before it is filled.
FillSame(t) ==
    /\ pc[t] = "fill" /\ iter[t] <= Len(Assoc)
    /\ LET id == Assoc[iter[t]]
       IN  names' = IF id = NULL THEN names ELSE [names EXCEPT ![id] = First]
    /\ iter' = [iter EXCEPT ![t] = @ + 1]
    /\ UNCHANGED <<pc, arg, ret, after>>

FillClears(t) ==
    /\ pc[t] = "fill" /\ iter[t] <= Len(Assoc)
    /\ LET id == Assoc[iter[t]]
           old == IF iter[t] = 1 THEN [i \in Ids |-> NULL] ELSE names
       IN  names' = IF id = NULL THEN old ELSE [old EXCEPT ![id] = id]
    /\ iter' = [iter EXCEPT ![t] = @ + 1]
    /\ UNCHANGED <<pc, arg, ret, after>>

Fill(t) ==
    /\ pc[t] = "fill" /\ iter[t] <= Len(Assoc)
    /\ LET id == Assoc[iter[t]]
       IN  names' = IF id = NULL THEN names ELSE [names EXCEPT ![id] = id]
    /\ iter' = [iter EXCEPT ![t] = @ + 1]
    /\ UNCHANGED <<pc, arg, ret, after>>

Filled(t) ==
    /\ pc[t] = "fill" /\ iter[t] > Len(Assoc)
    /\ Goto(t, "read")
    /\ UNCHANGED <<names, arg, iter, ret, after>>

Read(t) ==
    /\ pc[t] = "read"
    /\ Answer(t, names[arg[t]])
    /\ Goto(t, "return")
    /\ UNCHANGED <<names, arg, iter, after>>

Return(t) ==
    /\ pc[t] = "return"
    /\ Goto(t, "idle")
    /\ UNCHANGED <<names, arg, iter, ret, after>>

Init ==
    /\ names = [id \in Ids |-> NULL]
    /\ pc = [t \in Threads |-> "idle"]
    /\ arg = [t \in Threads |-> BadId]
    /\ iter = [t \in Threads |-> 1]
    /\ ret = [t \in Threads |-> NULL]
    /\ after = [t \in Threads |-> FALSE]

Next == \E t \in Threads : \/ Call(t) \/ GetName(t) \/ Fill(t) \/ Filled(t)
                           \/ Read(t) \/ Return(t)

Spec == Init /\ [][Next]_vars

-----------------------------------------------------------------------------
\* Every variable keeps its type.
TypeOK ==
    /\ names \in [Ids -> Ids \cup {NULL}]
    /\ pc \in [Threads -> {"idle", "getname", "fill", "read", "return"}]
    /\ arg \in [Threads -> Ids \cup {BadId}]
    /\ iter \in [Threads -> 1..Len(Assoc) + 1]
    /\ ret \in [Threads -> Ids \cup {NULL}]
    /\ after \in [Threads -> BOOLEAN]

\* However the fills of several threads overlap, a call never returns the name
\* of another variable: at worst it returns NULL (hashing.c:49).
NeverAnotherName ==
    \A t \in Threads : pc[t] = "return" => ret[t] \in {arg[t], NULL}

\* A call that begins after a complete fill returns the name, even when threads
\* that saw entry 0 missing are still filling the table again.
SettledTable ==
    \A t \in Threads :
        pc[t] = "return" /\ arg[t] \in Ids /\ after[t] => ret[t] = arg[t]

\* "Return the name of the variable 'id' as a string.  Return NULL if 'id' is
\* invalid." (tzplatform_config.h:43): a valid id has its name returned.
NameOfValidId ==
    \A t \in Threads : pc[t] = "return" /\ arg[t] \in Ids => ret[t] = arg[t]
=============================================================================
