------------------------------ MODULE Scratch ------------------------------
(***************************************************************************)
(* scratchcat of scratch.c: under one static mutex, the strings are        *)
(* concatenated in a scratch area that grows and is kept, and the result   *)
(* is looked up, or recorded, in a hash set of chains.  The characters are *)
(* abstract: a result is a string of the set Strings with a length and a   *)
(* hash code (ScratchCat has the concatenation itself).                    *)
(***************************************************************************)
EXTENDS Naturals, Sequences

CONSTANTS Threads,
          Strings,          \* the results of the concatenations
          Length, Hash,     \* of each of them
          Slots,            \* SET_CAPACITY
          InitialCapacity,  \* of the scratch area
          Addresses,        \* that malloc can return for an item
          NULL

\* What the constants must be.
ScratchOK ==
    /\ Slots \in Nat \ {0} /\ InitialCapacity \in Nat \ {0}
    /\ Length \in [Strings -> Nat] /\ Hash \in [Strings -> Nat]
    /\ NULL \notin Threads \cup Strings \cup Addresses

VARIABLES holder,   \* the mutex
          capacity, \* of the scratch area, 0 before it exists
          content,  \* the string the scratch area holds, NULL when partial
          chains,   \* global_path_set: the addresses linked in each slot
          text,     \* text[a]: the string of the item at a, NULL when free
          pc, arg,
          at,       \* the place in the chain of the cell that pp points to
          ret

vars == <<holder, capacity, content, chains, text, pc, arg, at, ret>>

Goto(t, l) == pc' = [pc EXCEPT ![t] = l]

Slot(s) == Hash[s] % Slots

\* Mutant of Grown: the area doubles once only.
GrownOnce(c, n) == IF n <= c THEN c ELSE 2 * c

\* The capacity after the doublings of c that make room for n characters.
Grown(c, n) ==
    LET size[k \in 0..n] == IF k = 0 THEN c ELSE 2 * size[k - 1]
        sizes == {size[k] : k \in 0..n}
    IN  CHOOSE d \in sizes : n <= d /\ \A e \in sizes : n <= e => d <= e

Call(t) ==
    /\ pc[t] = "idle"
    /\ \E s \in Strings : arg' = [arg EXCEPT ![t] = s]
    /\ Goto(t, "lock")
    /\ UNCHANGED <<holder, capacity, content, chains, text, at, ret>>

Lock(t) ==
    /\ pc[t] = "lock" /\ holder = NULL
    /\ holder' = t
    /\ Goto(t, "area")
    /\ UNCHANGED <<capacity, content, chains, text, arg, at, ret>>

Fail(t) == ret' = [ret EXCEPT ![t] = NULL] /\ Goto(t, "unlock")

\* The area is created at the first call and never freed.
Area(t) ==
    /\ pc[t] = "area"
    /\ content' = NULL
    /\ \/ /\ capacity' = IF capacity = 0 THEN InitialCapacity ELSE capacity
          /\ Goto(t, "copy")
          /\ UNCHANGED ret
       \/ capacity = 0 /\ Fail(t) /\ UNCHANGED capacity
    /\ UNCHANGED <<holder, chains, text, arg, at>>

\* Characters are appended, the area doubling when it is full.  A failed realloc
\* leaves what earlier doublings made.
Copy(t) ==
    /\ pc[t] = "copy"
    /\ \/ /\ capacity' = Grown(capacity, Length[arg[t]])
          /\ content' = arg[t]
          /\ at' = [at EXCEPT ![t] = 1]
          /\ Goto(t, "walk")
          /\ UNCHANGED ret
       \/ /\ \E n \in 0..Length[arg[t]] - 1 :
                capacity' = Grown(capacity, n) /\ capacity' < Length[arg[t]]
          /\ Fail(t)
          /\ UNCHANGED <<content, at>>
    /\ UNCHANGED <<holder, chains, text, arg>>

\* instantiate: walk the chain of the hash code, comparing hash code, length
\* and characters with what the area holds.
Here(t) == chains[Slot(content)][at[t]]
More(t) == at[t] <= Len(chains[Slot(content)])

\* Mutant of Same: the characters are not compared.
SameHash(s, r) == Hash[r] = Hash[s] /\ Length[r] = Length[s]

Same(s, r) == Hash[r] = Hash[s] /\ Length[r] = Length[s] /\ r = s

Found(t) ==
    /\ pc[t] = "walk" /\ More(t) /\ Same(content, text[Here(t)])
    /\ ret' = [ret EXCEPT ![t] = Here(t)]
    /\ Goto(t, "unlock")
    /\ UNCHANGED <<holder, capacity, content, chains, text, arg, at>>

Skip(t) ==
    /\ pc[t] = "walk" /\ More(t) /\ ~Same(content, text[Here(t)])
    /\ at' = [at EXCEPT ![t] = @ + 1]
    /\ UNCHANGED <<holder, capacity, content, chains, text, pc, arg, ret>>

\* At the end of the chain a copy is allocated, and then linked in the last
\* cell: what that cell held before is gone.
Allocate(t) ==
    /\ pc[t] = "walk" /\ ~More(t)
    /\ \/ \E a \in Addresses :
             /\ text[a] = NULL
             /\ text' = [text EXCEPT ![a] = content]
             /\ ret' = [ret EXCEPT ![t] = a]
             /\ Goto(t, "record")
       \/ Fail(t) /\ UNCHANGED text
    /\ UNCHANGED <<holder, capacity, content, chains, arg, at>>

\* Mutant of Record: the item is linked at the head of its chain.
RecordHead(t) ==
    /\ pc[t] = "record"
    /\ chains' = [chains EXCEPT ![Slot(arg[t])] = <<ret[t]>>]
    /\ Goto(t, "unlock")
    /\ UNCHANGED <<holder, capacity, content, text, arg, at, ret>>

Record(t) ==
    /\ pc[t] = "record"
    /\ chains' = [chains EXCEPT ![Slot(arg[t])] =
                     Append(SubSeq(@, 1, at[t] - 1), ret[t])]
    /\ Goto(t, "unlock")
    /\ UNCHANGED <<holder, capacity, content, text, arg, at, ret>>

Unlock(t) ==
    /\ pc[t] = "unlock"
    /\ holder' = NULL
    /\ Goto(t, "return")
    /\ UNCHANGED <<capacity, content, chains, text, arg, at, ret>>

Return(t) ==
    /\ pc[t] = "return"
    /\ Goto(t, "idle")
    /\ at' = [at EXCEPT ![t] = 1]
    /\ ret' = [ret EXCEPT ![t] = NULL]
    /\ UNCHANGED <<holder, capacity, content, chains, text, arg>>

Init ==
    /\ holder = NULL /\ capacity = 0 /\ content = NULL
    /\ chains = [i \in 0..Slots - 1 |-> <<>>]
    /\ text = [a \in Addresses |-> NULL]
    /\ pc = [t \in Threads |-> "idle"]
    /\ arg \in [Threads -> Strings]
    /\ at = [t \in Threads |-> 1]
    /\ ret = [t \in Threads |-> NULL]

Next == \E t \in Threads :
            \/ Call(t) \/ Lock(t) \/ Area(t) \/ Copy(t) \/ Found(t) \/ Skip(t)
            \/ Allocate(t) \/ Record(t) \/ Unlock(t) \/ Return(t)

Spec == Init /\ [][Next]_vars

-----------------------------------------------------------------------------
Linked(i) == {chains[i][n] : n \in DOMAIN chains[i]}

\* Every variable keeps its type.
TypeOK ==
    /\ holder \in Threads \cup {NULL} /\ capacity \in Nat
    /\ content \in Strings \cup {NULL}
    /\ chains \in [0..Slots - 1 -> Seq(Addresses)]
    /\ text \in [Addresses -> Strings \cup {NULL}]
    /\ pc \in [Threads -> {"idle", "lock", "area", "copy", "walk", "record", "unlock",
                           "return"}]
    /\ arg \in [Threads -> Strings] /\ at \in [Threads -> Nat \ {0}]
    /\ ret \in [Threads -> Addresses \cup {NULL}]

\* The result, its null included, fits in the area whatever doublings were made
\* by this call and the earlier ones, failed ones included (scratch.c:195).
AreaHolds == content # NULL => Length[content] <= capacity

\* A linked item is in the chain of its hash code, once, no string is linked
\* twice, and memory that was allocated for an item stays reachable through its
\* chain: the link of one thread never overwrites that of another (scratch.c:80, 98).
ChainsSound ==
    /\ \A i \in 0..Slots - 1 : \A m, n \in DOMAIN chains[i] :
          LET a == chains[i][m]  b == chains[i][n]
          IN  text[a] # NULL /\ Slot(text[a]) = i /\ (text[a] = text[b] => m = n)
    /\ \A a \in Addresses : text[a] # NULL =>
          \/ a \in Linked(Slot(text[a]))
          \/ \E t \in Threads : pc[t] = "record" /\ ret[t] = a

\* The address of each string of the hash set, and what each call was given.
PoolTable ==
    [s \in Strings |->
        LET found == {a \in Linked(Slot(s)) : text[a] = s}
        IN  IF found = {} THEN NULL ELSE CHOOSE a \in found : TRUE]
PoolAnswer ==
    [t \in Threads |-> IF pc[t] \in {"unlock", "return"} THEN ret[t] ELSE NULL]

\* The hash set is the table of the abstract interner, and a call is given the
\* entry of the string it asked for.
Pool == INSTANCE Interner WITH table <- PoolTable, asked <- arg, answer <- PoolAnswer
PoolSpec == Pool!Spec
=============================================================================
