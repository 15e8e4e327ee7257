--------------------------- MODULE ScratchProofs ---------------------------
(***************************************************************************)
(* Proofs about Scratch, for every set of threads, strings and addresses,  *)
(* every length and hash code and every number of slots.                   *)
(***************************************************************************)
EXTENDS Scratch, SequenceFacts, SequenceTheorems, TLAPS

\* A hash code falls in a slot.
LEMMA SlotRange == ScratchOK => \A s \in Strings : Slot(s) \in 0..Slots - 1
  BY DEF ScratchOK, Slot

\* All but the capacity.
TypeInv ==
    /\ holder \in Threads \cup {NULL} /\ content \in Strings \cup {NULL}
    /\ chains \in [0..Slots - 1 -> Seq(Addresses)]
    /\ text \in [Addresses -> Strings \cup {NULL}]
    /\ pc \in [Threads -> {"idle", "lock", "area", "copy", "walk", "record", "unlock",
                           "return"}]
    /\ arg \in [Threads -> Strings] /\ at \in [Threads -> Nat \ {0}]
    /\ ret \in [Threads -> Addresses \cup {NULL}]

Chain(t) == chains[Slot(arg[t])]

\* A call under the mutex looks for its own string, none of the items it passed
\* has it, and what it allocated is linked nowhere yet; what it returns is the
\* item of its string.
CallOf(t) ==
    /\ pc[t] \in {"area", "copy", "walk", "record", "unlock"} => holder = t
    /\ pc[t] \in {"walk", "record"} =>
          /\ content = arg[t] /\ at[t] \in 1..Len(Chain(t)) + 1
          /\ \A n \in 1..at[t] - 1 : text[Chain(t)[n]] # arg[t]
    /\ pc[t] = "record" => /\ at[t] = Len(Chain(t)) + 1
                           /\ ret[t] # NULL /\ text[ret[t]] = arg[t]
                           /\ \A i \in 0..Slots - 1 : ret[t] \notin Linked(i)
    /\ pc[t] \in {"unlock", "return"} /\ ret[t] # NULL =>
          text[ret[t]] = arg[t] /\ ret[t] \in Linked(Slot(arg[t]))
    /\ pc[t] \notin {"record", "unlock", "return"} => ret[t] = NULL

\* One chain: items of the slot, each string once.
ChainOf(i) ==
    /\ \A n \in 1..Len(chains[i]) :
          text[chains[i][n]] # NULL /\ Slot(text[chains[i][n]]) = i
    /\ \A m, n \in 1..Len(chains[i]) : text[chains[i][m]] = text[chains[i][n]] => m = n

\* An item is linked, or about to be.
ItemOf(a) ==
    text[a] # NULL => \/ a \in Linked(Slot(text[a]))
                      \/ \E t \in Threads : pc[t] = "record" /\ ret[t] = a

SInv == /\ TypeInv
        /\ \A t \in Threads : CallOf(t)
        /\ \A i \in 0..Slots - 1 : ChainOf(i)
        /\ \A a \in Addresses : ItemOf(a)

\* The hash set starts empty.
LEMMA SInit == ScratchOK /\ Init => SInv
<1> SUFFICES ASSUME ScratchOK, Init PROVE SInv
  OBVIOUS
<1>1. TypeInv
  BY DEF ScratchOK, Init, TypeInv
<1>2. \A t \in Threads : CallOf(t)
  BY DEF Init, CallOf
<1>3. \A i \in 0..Slots - 1 : ChainOf(i)
  BY DEF Init, ChainOf
<1>4. \A a \in Addresses : ItemOf(a)
  BY DEF Init, ItemOf
<1> QED
  BY <1>1, <1>2, <1>3, <1>4 DEF SInv

\* Two calls are not under the mutex at the same time.
LEMMA Exclusion ==
    ASSUME SInv, NEW s \in Threads, NEW t \in Threads,
           pc[s] \in {"area", "copy", "walk", "record", "unlock"},
           pc[t] \in {"area", "copy", "walk", "record", "unlock"}
    PROVE  s = t
  BY DEF SInv, CallOf

\* A step that changes neither the items nor the chains, and the mutex only to
\* take it or to leave it, disturbs no other call.
LEMMA QuietStep ==
    ASSUME ScratchOK, SInv, TypeInv', NEW t \in Threads, CallOf(t)',
           \A s \in Threads \ {t} : /\ pc'[s] = pc[s] /\ arg'[s] = arg[s]
                                    /\ at'[s] = at[s] /\ ret'[s] = ret[s],
           UNCHANGED <<chains, text>>,
           pc[t] # "record", pc'[t] # "record",
           UNCHANGED <<holder, content>> \/ holder = NULL
              \/ pc[t] \in {"area", "copy", "walk", "record", "unlock"}
    PROVE  SInv'
<1>1. ASSUME NEW s \in Threads \ {t} PROVE CallOf(s)'
  <2>1. CallOf(s)
    BY DEF SInv
  <2>2. pc[s] \in {"area", "copy", "walk", "record", "unlock"} => UNCHANGED <<holder, content>>
    BY <2>1, Exclusion DEF ScratchOK, CallOf
  <2> QED
    BY <2>1, <2>2 DEF CallOf, Chain, Linked
<1>2. \A i \in 0..Slots - 1 : ChainOf(i)'
  BY DEF SInv, ChainOf
<1>3. ASSUME NEW a \in Addresses PROVE ItemOf(a)'
  <2>1. ItemOf(a)
    BY DEF SInv
  <2> QED
    BY <2>1 DEF ItemOf, Linked
<1> QED
  BY <1>1, <1>2, <1>3 DEF SInv

\* What Here and More look at.
LEMMA WalkFacts ==
    ASSUME ScratchOK, SInv, NEW t \in Threads, pc[t] \in {"walk", "record"}
    PROVE  /\ content = arg[t] /\ arg[t] \in Strings /\ content # NULL
           /\ Slot(arg[t]) \in 0..Slots - 1 /\ Chain(t) \in Seq(Addresses)
           /\ Len(Chain(t)) \in Nat /\ at[t] \in Nat /\ at[t] >= 1
           /\ at[t] <= Len(Chain(t)) + 1 /\ ChainOf(Slot(arg[t]))
           /\ (More(t) <=> at[t] <= Len(Chain(t)))
           /\ (at[t] <= Len(Chain(t)) => Here(t) = Chain(t)[at[t]] /\ Here(t) \in Addresses
                                         /\ Here(t) \in Linked(Slot(arg[t])))
<1>1. content = arg[t] /\ arg[t] \in Strings /\ content # NULL
      /\ at[t] \in 1..Len(Chain(t)) + 1
  BY DEF ScratchOK, SInv, CallOf, TypeInv
<1>2. Slot(arg[t]) \in 0..Slots - 1
  BY <1>1, SlotRange
<1>3. Chain(t) \in Seq(Addresses) /\ Len(Chain(t)) \in Nat
      /\ DOMAIN Chain(t) = 1..Len(Chain(t))
  BY <1>2 DEF SInv, TypeInv, Chain
<1> QED
  BY <1>1, <1>2, <1>3, ElementOfSeq DEF SInv, More, Here, Linked, Chain

\* Every step keeps the chains sound and the calls right.
LEMMA SStep == ScratchOK /\ SInv /\ [Next]_vars => SInv'
<1> SUFFICES ASSUME ScratchOK, SInv, [Next]_vars PROVE SInv'
  OBVIOUS
<1> USE DEF ScratchOK, Goto, Fail
<1>1. ASSUME NEW t \in Threads, Call(t) \/ Return(t) PROVE SInv'
  <2>1. TypeInv'
    <3>1. CASE Call(t)
      BY <3>1 DEF Call, SInv, TypeInv
    <3>2. CASE Return(t)
      BY <3>2 DEF Return, SInv, TypeInv
    <3> QED
      BY <1>1, <3>1, <3>2
  <2>2. CallOf(t)'
    BY <1>1, SMTT(30) DEF Call, Return, SInv, TypeInv, CallOf
  <2> QED
    BY <1>1, <2>1, <2>2, QuietStep DEF Call, Return, SInv, TypeInv
<1>2. ASSUME NEW t \in Threads, Lock(t) PROVE SInv'
  <2>1. TypeInv'
    BY <1>2 DEF Lock, SInv, TypeInv
  <2>2. CallOf(t)'
    <3>1. pc[t] = "lock" /\ pc'[t] = "area" /\ holder' = t /\ UNCHANGED ret
      BY <1>2 DEF Lock, SInv, TypeInv
    <3>2. ret[t] = NULL
      BY <3>1 DEF SInv, CallOf
    <3> QED
      BY <3>1, <3>2 DEF CallOf
  <2> QED
    BY <1>2, <2>1, <2>2, QuietStep DEF Lock, SInv, TypeInv
<1>3. ASSUME NEW t \in Threads, Area(t) PROVE SInv'
  <2>1. TypeInv'
    BY <1>3 DEF Area, SInv, TypeInv
  <2>2. CallOf(t)'
    <3>1. pc[t] = "area" /\ pc'[t] \in {"copy", "unlock"} /\ UNCHANGED holder
          /\ ret'[t] \in {ret[t], NULL}
      BY <1>3 DEF Area, SInv, TypeInv
    <3>2. ret[t] = NULL /\ holder = t
      BY <3>1 DEF SInv, CallOf
    <3> QED
      BY <3>1, <3>2 DEF CallOf
  <2> QED
    BY <1>3, <2>1, <2>2, QuietStep DEF Area, SInv, TypeInv
<1>4. ASSUME NEW t \in Threads, Copy(t) PROVE SInv'
  <2>1. TypeInv'
    <3>1. CASE Fail(t) /\ UNCHANGED <<content, at>>
      BY <1>4, <3>1 DEF Copy, SInv, TypeInv
    <3>2. CASE /\ content' = arg[t] /\ at' = [at EXCEPT ![t] = 1] /\ UNCHANGED ret
               /\ pc' = [pc EXCEPT ![t] = "walk"]
      BY <1>4, <3>2 DEF Copy, SInv, TypeInv
    <3> QED
      BY <1>4, <3>1, <3>2 DEF Copy
  <2>2. CallOf(t)'
    <3>1. CASE Fail(t)
      BY <1>4, <3>1 DEF Copy, SInv, TypeInv, CallOf
    <3>2. CASE /\ content' = arg[t] /\ at' = [at EXCEPT ![t] = 1] /\ UNCHANGED ret
               /\ pc' = [pc EXCEPT ![t] = "walk"]
      <4>1. Len(Chain(t)) \in Nat
        BY SlotRange DEF SInv, TypeInv, Chain
      <4>2. at'[t] = 1 /\ Chain(t)' = Chain(t) /\ holder' = t /\ arg'[t] = arg[t]
            /\ pc'[t] = "walk" /\ ret'[t] = NULL
        BY <1>4, <3>2, SMTT(30) DEF Copy, SInv, TypeInv, CallOf, Chain
      <4> QED
        BY <3>2, <4>1, <4>2 DEF CallOf
    <3> QED
      BY <1>4, <3>1, <3>2 DEF Copy
  <2> QED
    BY <1>4, <2>1, <2>2, QuietStep DEF Copy, SInv, TypeInv
<1>5. ASSUME NEW t \in Threads, Found(t) PROVE SInv'
  <2>1. pc[t] = "walk" /\ Here(t) \in Addresses /\ Here(t) \in Linked(Slot(arg[t]))
        /\ text[Here(t)] = arg[t]
    BY <1>5, WalkFacts DEF Found, Same
  <2>2. TypeInv'
    BY <1>5, <2>1 DEF Found, SInv, TypeInv
  <2>3. CallOf(t)'
    BY <1>5, <2>1 DEF Found, SInv, TypeInv, CallOf, Linked
  <2> QED
    BY <1>5, <2>2, <2>3, QuietStep DEF Found, SInv, TypeInv
<1>6. ASSUME NEW t \in Threads, Skip(t) PROVE SInv'
  <2>1. pc[t] = "walk" /\ at[t] <= Len(Chain(t)) /\ Here(t) = Chain(t)[at[t]]
        /\ at[t] \in Nat /\ at[t] >= 1 /\ Len(Chain(t)) \in Nat /\ content = arg[t]
    BY <1>6, WalkFacts DEF Skip
  <2>2. text[Chain(t)[at[t]]] # arg[t]
    BY <1>6, <2>1 DEF Skip, Same
  <2>3. TypeInv'
    BY <1>6, <2>1 DEF Skip, SInv, TypeInv
  <2>4. \A n \in 1..at[t] : text[Chain(t)[n]] # arg[t]
    BY <2>1, <2>2 DEF SInv, CallOf
  <2>5. at'[t] = at[t] + 1 /\ Chain(t)' = Chain(t) /\ at'[t] - 1 = at[t]
        /\ UNCHANGED <<holder, content, chains, text, pc, arg, ret>>
    BY <1>6, <2>1 DEF Skip, SInv, TypeInv, Chain
  <2>6. CallOf(t)
    BY DEF SInv
  <2>7. CallOf(t)'
    BY <2>1, <2>4, <2>5, <2>6 DEF CallOf
  <2> QED
    BY <1>6, <2>3, <2>7, QuietStep DEF Skip, SInv, TypeInv
<1>7. ASSUME NEW t \in Threads, Allocate(t) PROVE SInv'
  <2>1. /\ pc[t] = "walk" /\ ~(at[t] <= Len(Chain(t))) /\ at[t] <= Len(Chain(t)) + 1
        /\ at[t] \in Nat /\ Len(Chain(t)) \in Nat /\ content = arg[t] /\ content \in Strings
        /\ content # NULL
    BY <1>7, WalkFacts DEF Allocate
  <2>2. CASE Fail(t) /\ UNCHANGED text
    <3>1. TypeInv'
      BY <1>7, <2>2 DEF Allocate, SInv, TypeInv
    <3>2. CallOf(t)'
      BY <1>7, <2>1, <2>2 DEF Allocate, SInv, TypeInv, CallOf
    <3> QED
      BY <1>7, <2>2, <3>1, <3>2, QuietStep DEF Allocate, SInv, TypeInv
  <2>3. ASSUME NEW a \in Addresses, text[a] = NULL, text' = [text EXCEPT ![a] = content],
               ret' = [ret EXCEPT ![t] = a], pc' = [pc EXCEPT ![t] = "record"]
        PROVE  SInv'
    <3>1. TypeInv'
      BY <1>7, <2>1, <2>3 DEF Allocate, SInv, TypeInv
    <3>2. UNCHANGED <<holder, content, chains, arg, at>>
          /\ \A i \in 0..Slots - 1 : Linked(i)' = Linked(i)
      BY <1>7 DEF Allocate, Linked
    <3>3. ASSUME NEW i \in 0..Slots - 1, NEW n \in 1..Len(chains[i])
          PROVE  chains[i][n] # a /\ text'[chains[i][n]] = text[chains[i][n]]
      <4>1. chains[i][n] \in Addresses /\ text[chains[i][n]] # NULL
        BY ElementOfSeq DEF SInv, TypeInv, ChainOf
      <4> QED
        BY <2>3, <4>1 DEF SInv, TypeInv
    <3>4. \A i \in 0..Slots - 1 : a \notin Linked(i)
      BY <3>3, LenProperties DEF SInv, TypeInv, Linked
    <3>5. ASSUME NEW i \in 0..Slots - 1 PROVE ChainOf(i)'
      BY <3>2, <3>3 DEF SInv, ChainOf
    <3>6. ASSUME NEW b \in Addresses PROVE ItemOf(b)'
      <4>1. CASE b = a
        BY <2>3, <4>1 DEF ItemOf, SInv, TypeInv
      <4>2. CASE b # a
        <5>1. ItemOf(b) /\ text'[b] = text[b]
          BY <2>3, <4>2 DEF SInv, TypeInv
        <5>2. \A s \in Threads : pc[s] = "record" => s = t
          BY <2>1, Exclusion
        <5> QED
          BY <2>1, <3>2, <5>1, <5>2 DEF ItemOf, Linked
      <4> QED
        BY <4>1, <4>2
    <3>7. ASSUME NEW s \in Threads PROVE CallOf(s)'
      <4>1. CallOf(s) /\ Slot(arg[s]) \in 0..Slots - 1
        BY SlotRange DEF SInv, TypeInv
      <4>2. CASE s = t
        <5>1. \A n \in 1..at[t] - 1 : text'[Chain(t)[n]] # arg[t]
          <6>1. \A n \in 1..at[t] - 1 : text[Chain(t)[n]] # arg[t] /\ n \in 1..Len(Chain(t))
            BY <2>1, <4>1, <4>2 DEF CallOf
          <6> QED
            BY <3>3, <4>1, <4>2, <6>1 DEF Chain
        <5>2. pc'[t] = "record" /\ ret'[t] = a /\ text'[a] = arg[t] /\ a # NULL
          BY <2>1, <2>3 DEF SInv, TypeInv
        <5>3. at[t] = Len(Chain(t)) + 1 /\ Chain(t)' = Chain(t)
          BY <2>1, <3>2 DEF Chain
        <5>4. holder = t
          BY <2>1, <4>1, <4>2 DEF CallOf
        <5> QED
          BY <2>1, <3>2, <3>4, <4>2, <5>1, <5>2, <5>3, <5>4 DEF CallOf
      <4>3. CASE s # t
        <5>1. pc'[s] = pc[s] /\ ret'[s] = ret[s] /\ pc[s] \notin {"walk", "record"}
          BY <2>1, <2>3, <4>3, Exclusion DEF SInv, TypeInv
        <5>2. ret[s] # NULL => ret[s] \in Addresses
          BY DEF SInv, TypeInv
        <5>3. ret[s] \in Addresses /\ text[ret[s]] # NULL => text'[ret[s]] = text[ret[s]]
          BY <2>3 DEF SInv, TypeInv
        <5>4. arg[s] # NULL
          BY DEF SInv, TypeInv
        <5> QED
          BY <3>2, <4>1, <5>1, <5>2, <5>3, <5>4 DEF CallOf
      <4> QED
        BY <4>2, <4>3
    <3> QED
      BY <3>1, <3>5, <3>6, <3>7 DEF SInv
  <2> QED
    BY <1>7, <2>2, <2>3 DEF Allocate
<1>8. ASSUME NEW t \in Threads, Record(t) PROVE SInv'
  <2>0. PICK i \in 0..Slots - 1 : i = Slot(arg[t])
    BY SlotRange DEF SInv, TypeInv
  <2>1. /\ pc[t] = "record" /\ i \in 0..Slots - 1 /\ Chain(t) = chains[i]
        /\ chains[i] \in Seq(Addresses) /\ at[t] = Len(chains[i]) + 1
        /\ Len(chains[i]) \in Nat
        /\ ret[t] \in Addresses /\ text[ret[t]] = arg[t] /\ arg[t] # NULL
        /\ \A j \in 0..Slots - 1 : ret[t] \notin Linked(j)
        /\ \A n \in 1..Len(chains[i]) : text[chains[i][n]] # arg[t]
    <3>1. pc[t] = "record" /\ CallOf(t)
      BY <1>8 DEF Record, SInv
    <3>2. i \in 0..Slots - 1 /\ Chain(t) = chains[i] /\ chains[i] \in Seq(Addresses)
          /\ Len(chains[i]) \in Nat
      BY <2>0, <3>1, WalkFacts DEF Chain
    <3>3. at[t] = Len(chains[i]) + 1
      BY <3>1, <3>2 DEF CallOf
    <3>4. at[t] - 1 = Len(chains[i])
      BY <3>2, <3>3
    <3> QED
      BY <3>1, <3>2, <3>3, <3>4 DEF CallOf, SInv, TypeInv
  <2>2. /\ chains' = [chains EXCEPT ![i] = Append(chains[i], ret[t])]
        /\ pc' = [pc EXCEPT ![t] = "unlock"]
        /\ UNCHANGED <<holder, capacity, content, text, arg, at, ret>>
    <3>1. SubSeq(chains[i], 1, at[t] - 1) = chains[i]
      BY <2>1, SubSeqFull
    <3> QED
      BY <1>8, <2>0, <3>1 DEF Record
  <2>3. /\ chains'[i] = Append(chains[i], ret[t]) /\ chains'[i] \in Seq(Addresses)
        /\ Len(chains'[i]) = Len(chains[i]) + 1
        /\ chains'[i][Len(chains[i]) + 1] = ret[t]
        /\ \A n \in 1..Len(chains[i]) : chains'[i][n] = chains[i][n]
        /\ \A j \in (0..Slots - 1) \ {i} : chains'[j] = chains[j]
    BY <2>1, <2>2 DEF SInv, TypeInv
  <2>4. TypeInv'
    BY <2>1, <2>2, <2>3 DEF SInv, TypeInv
  <2>5. /\ Linked(i)' = Linked(i) \cup {ret[t]}
        /\ \A j \in (0..Slots - 1) \ {i} : Linked(j)' = Linked(j)
    <3>1. DOMAIN chains[i] = 1..Len(chains[i]) /\ DOMAIN chains'[i] = 1..Len(chains[i]) + 1
      BY <2>1, <2>3
    <3>2. Linked(i)' = Linked(i) \cup {ret[t]}
      <4>1. \A n \in 1..Len(chains[i]) + 1 : n \in 1..Len(chains[i]) \/ n = Len(chains[i]) + 1
        BY <2>1
      <4>2. \A n \in 1..Len(chains[i]) : n \in 1..Len(chains[i]) + 1
        BY <2>1
      <4>3. Len(chains[i]) + 1 \in 1..Len(chains[i]) + 1
        BY <2>1
      <4> QED
        BY <2>3, <3>1, <4>1, <4>2, <4>3 DEF Linked
    <3>3. ASSUME NEW j \in (0..Slots - 1) \ {i} PROVE Linked(j)' = Linked(j)
      <4>1. chains'[j] = chains[j]
        BY <2>3
      <4> QED
        BY <4>1 DEF Linked
    <3> QED
      BY <3>2, <3>3
  <2>6. ASSUME NEW j \in 0..Slots - 1 PROVE ChainOf(j)'
    <3>1. ChainOf(j)
      BY DEF SInv
    <3>2. CASE j = i
      <4>1. \A n \in 1..Len(chains[i]) + 1 : n \in 1..Len(chains[i]) \/ n = Len(chains[i]) + 1
        BY <2>1
      <4>2. Slot(text[ret[t]]) = i
        BY <2>0, <2>1
      <4> QED
        BY <2>1, <2>2, <2>3, <3>1, <3>2, <4>1, <4>2 DEF ChainOf
    <3>3. CASE j # i
      BY <2>2, <2>3, <3>1, <3>3 DEF ChainOf
    <3> QED
      BY <3>2, <3>3
  <2>7. ASSUME NEW a \in Addresses PROVE ItemOf(a)'
    <3>1. ItemOf(a) /\ (text[a] # NULL => Slot(text[a]) \in 0..Slots - 1)
      BY SlotRange DEF SInv, TypeInv
    <3>2. \A s \in Threads : pc[s] = "record" => s = t
      BY <2>1, Exclusion
    <3>3. Slot(text[ret[t]]) = i
      BY <2>0, <2>1
    <3>4. CASE a = ret[t]
      BY <2>2, <2>5, <3>3, <3>4 DEF ItemOf
    <3>5. CASE a # ret[t]
      <4>1. text[a] # NULL => a \in Linked(Slot(text[a]))
        BY <3>1, <3>2, <3>5 DEF ItemOf
      <4>2. \A j \in 0..Slots - 1 : a \in Linked(j) => a \in Linked(j)'
        BY <2>5
      <4> QED
        BY <2>2, <3>1, <4>1, <4>2 DEF ItemOf
    <3> QED
      BY <3>4, <3>5
  <2>8. ASSUME NEW s \in Threads PROVE CallOf(s)'
    <3>1. CallOf(s) /\ Slot(arg[s]) \in 0..Slots - 1
      BY SlotRange DEF SInv, TypeInv
    <3>2. CASE s = t
      <4>1. pc'[t] = "unlock" /\ ret'[t] \in Linked(i)'
        BY <2>1, <2>2, <2>5 DEF SInv, TypeInv
      <4> QED
        BY <2>0, <2>1, <2>2, <3>1, <3>2, <4>1 DEF CallOf
    <3>3. CASE s # t
      <4>1. pc'[s] = pc[s] /\ pc[s] \notin {"walk", "record"}
        BY <2>1, <2>2, <3>3, Exclusion DEF SInv, TypeInv
      <4>2. \A j \in 0..Slots - 1 : Linked(j) \subseteq Linked(j)'
        BY <2>5
      <4> QED
        BY <2>2, <3>1, <4>1, <4>2 DEF CallOf
    <3> QED
      BY <3>2, <3>3
  <2> QED
    BY <2>4, <2>6, <2>7, <2>8 DEF SInv
<1>9. ASSUME NEW t \in Threads, Unlock(t) PROVE SInv'
  <2>1. TypeInv'
    BY <1>9 DEF Unlock, SInv, TypeInv
  <2>2. CallOf(t)'
    <3>1. pc[t] = "unlock" /\ pc'[t] = "return" /\ UNCHANGED <<arg, at, ret, text, chains>>
          /\ CallOf(t)
      BY <1>9 DEF Unlock, SInv, TypeInv
    <3> QED
      BY <3>1 DEF CallOf, Linked
  <2> QED
    BY <1>9, <2>1, <2>2, QuietStep DEF Unlock, SInv, TypeInv
<1>10. CASE UNCHANGED vars
  <2>1. TypeInv'
    BY <1>10 DEF vars, SInv, TypeInv
  <2>2. ASSUME NEW t \in Threads PROVE CallOf(t)'
    <3>1. CallOf(t) /\ UNCHANGED <<holder, content, chains, text, pc, arg, at, ret>>
      BY <1>10 DEF vars, SInv
    <3> QED
      BY <3>1 DEF CallOf, Linked, Chain
  <2>3. \A i \in 0..Slots - 1 : ChainOf(i)'
    BY <1>10 DEF vars, SInv, ChainOf
  <2>4. \A a \in Addresses : ItemOf(a)'
    BY <1>10 DEF vars, SInv, ItemOf, Linked
  <2> QED
    BY <2>1, <2>2, <2>3, <2>4 DEF SInv
<1> QED
  BY <1>1, <1>2, <1>3, <1>4, <1>5, <1>6, <1>7, <1>8, <1>9, <1>10 DEF Next

\* The invariant holds in every reachable state.
LEMMA SAlways == ScratchOK /\ Spec => []SInv
<1> SUFFICES ASSUME ScratchOK PROVE Spec => []SInv
  OBVIOUS
<1> QED
  BY SInit, SStep, PTL DEF Spec

\* The links of the hash set are never lost: each string is linked once, in the
\* chain of its hash code, however the calls of the threads interleave.
THEOREM ChainsSoundAlways == ScratchOK /\ Spec => []ChainsSound
<1>1. ASSUME SInv PROVE ChainsSound
  <2>1. \A i \in 0..Slots - 1 : DOMAIN chains[i] = 1..Len(chains[i])
    BY <1>1 DEF SInv, TypeInv
  <2> QED
    BY <1>1, <2>1 DEF SInv, ChainOf, ItemOf, ChainsSound
<1> QED
  BY <1>1, SAlways, PTL

-----------------------------------------------------------------------------
(* The area is large enough.                                                 *)

\* f holds the sizes of n doublings of c.
Doubles(f, c, n) ==
    /\ f = [k \in 0..n |-> IF k = 0 THEN c ELSE 2 * f[k - 1]]
    /\ \A k \in 0..n : f[k] = IF k = 0 THEN c ELSE 2 * f[k - 1]

\* An area can be doubled any number of times.
LEMMA DoublesExist ==
    ASSUME NEW c \in Nat
    PROVE  \A n \in Nat : \E f : Doubles(f, c, n)
<1> DEFINE K == {n \in Nat : \E f : Doubles(f, c, n)}
<1>1. 0 \in K
  <2> DEFINE g == [k \in 0..0 |-> c]
  <2>1. Doubles(g, c, 0)
    BY DEF Doubles
  <2> QED
    BY <2>1
<1>2. ASSUME NEW n \in Nat, n \in K PROVE n + 1 \in K
  <2>1. PICK f : Doubles(f, c, n)
    BY <1>2
  <2> DEFINE g == [k \in 0..n + 1 |-> IF k = n + 1 THEN 2 * f[n] ELSE f[k]]
  <2>2. \A k \in 0..n : f[k] = IF k = 0 THEN c ELSE 2 * f[k - 1]
    BY <2>1 DEF Doubles
  <2>3. ASSUME NEW k \in 0..n + 1 PROVE g[k] = IF k = 0 THEN c ELSE 2 * g[k - 1]
    <3>1. CASE k = n + 1
      <4>1. k - 1 = n /\ n \in 0..n + 1 /\ n # n + 1 /\ k # 0
        BY <3>1
      <4> QED
        BY <3>1, <4>1
    <3>2. CASE k # n + 1
      <4>1. k \in 0..n /\ g[k] = f[k] /\ (k # 0 => g[k - 1] = f[k - 1])
        BY <3>2
      <4> QED
        BY <2>2, <4>1
    <3> QED
      BY <3>1, <3>2
  <2>4. Doubles(g, c, n + 1)
    BY <2>3 DEF Doubles
  <2> QED
    BY <2>4
<1> HIDE DEF K
<1>3. Nat \subseteq K
  BY <1>1, <1>2, Induction
<1> QED
  BY <1>3 DEF K

\* After k doublings the area has more than k characters.
LEMMA DoublesGrow ==
    ASSUME NEW c \in Nat \ {0}, NEW n \in Nat, NEW f, Doubles(f, c, n)
    PROVE  \A k \in 0..n : f[k] \in Nat /\ k < f[k]
<1> DEFINE K == {k \in Nat : k \in 0..n => f[k] \in Nat /\ k < f[k]}
<1>1. 0 \in K
  BY DEF Doubles
<1>2. ASSUME NEW k \in Nat, k \in K PROVE k + 1 \in K
  <2> SUFFICES ASSUME k + 1 \in 0..n PROVE f[k + 1] \in Nat /\ k + 1 < f[k + 1]
    OBVIOUS
  <2>1. f[k] \in Nat /\ k < f[k]
    BY <1>2
  <2>2. f[k + 1] = 2 * f[k]
    <3>1. f[k + 1] = IF k + 1 = 0 THEN c ELSE 2 * f[(k + 1) - 1]
      BY DEF Doubles
    <3> QED
      BY <3>1
  <2> QED
    BY <2>1, <2>2
<1> HIDE DEF K
<1>3. Nat \subseteq K
  BY <1>1, <1>2, Induction
<1> QED
  BY <1>3 DEF K

\* The doublings of an area make room for any number of characters.
LEMMA GrownFits ==
    ASSUME NEW c \in Nat \ {0}, NEW n \in Nat
    PROVE  Grown(c, n) \in Nat /\ n <= Grown(c, n)
<1> DEFINE size == CHOOSE f : f = [k \in 0..n |-> IF k = 0 THEN c ELSE 2 * f[k - 1]]
           sizes == {size[k] : k \in 0..n}
<1>1. Doubles(size, c, n)
  <2>1. \E f : f = [k \in 0..n |-> IF k = 0 THEN c ELSE 2 * f[k - 1]]
    <3>1. c \in Nat
      OBVIOUS
    <3>2. PICK f : Doubles(f, c, n)
      BY <3>1, DoublesExist
    <3> QED
      BY <3>2 DEF Doubles
  <2>2. size = [k \in 0..n |-> IF k = 0 THEN c ELSE 2 * size[k - 1]]
    BY <2>1
  <2> HIDE DEF size
  <2>3. \A k \in 0..n : size[k] = IF k = 0 THEN c ELSE 2 * size[k - 1]
    <3> DEFINE e(k) == IF k = 0 THEN c ELSE 2 * size[k - 1]
    <3>1. size = [k \in 0..n |-> e(k)]
      BY <2>2
    <3> HIDE DEF e
    <3>2. \A k \in 0..n : size[k] = e(k)
      BY <3>1
    <3> QED
      BY <3>2 DEF e
  <2> QED
    BY <2>2, <2>3 DEF Doubles
<1>2. Grown(c, n) = CHOOSE d \in sizes : n <= d /\ \A e \in sizes : n <= e => d <= e
  BY DEF Grown
<1> HIDE DEF size
<1>3. \A k \in 0..n : size[k] \in Nat /\ k < size[k]
  BY <1>1, DoublesGrow
<1> DEFINE T == {d \in sizes : n <= d}
<1>4. T \subseteq Nat /\ T # {}
  <2>1. size[n] \in T
    BY <1>3
  <2> QED
    BY <1>3, <2>1
<1>5. PICK d \in T : \A e \in T : d <= e
  BY <1>4, LeastNatural
<1>6. \E d1 \in sizes : n <= d1 /\ \A e \in sizes : n <= e => d1 <= e
  BY <1>5
<1>7. Grown(c, n) \in sizes /\ n <= Grown(c, n)
  <2> HIDE DEF sizes
  <2> QED
    BY <1>2, <1>6
<1> QED
  BY <1>3, <1>7

\* The area exists and holds no string while characters are copied to it, and holds
\* the string it was last given.
AreaInv ==
    /\ capacity \in Nat /\ AreaHolds
    /\ \A t \in Threads : pc[t] = "copy" => capacity # 0 /\ content = NULL

\* The area keeps the string that it holds, or is given one after it has grown.
LEMMA AreaStep == ScratchOK /\ SInv /\ AreaInv /\ [Next]_vars => AreaInv'
<1> SUFFICES ASSUME ScratchOK, SInv, AreaInv, [Next]_vars PROVE AreaInv'
  OBVIOUS
<1> USE DEF ScratchOK, Goto, Fail
<1>1. /\ pc \in [Threads -> {"idle", "lock", "area", "copy", "walk", "record", "unlock",
                             "return"}]
      /\ arg \in [Threads -> Strings] /\ NULL \notin Strings /\ capacity \in Nat
  BY DEF SInv, TypeInv, AreaInv
<1>2. ASSUME NEW t \in Threads,
             Call(t) \/ Lock(t) \/ Found(t) \/ Skip(t) \/ Allocate(t) \/ Record(t)
                \/ Unlock(t) \/ Return(t)
      PROVE  AreaInv'
  <2>1. capacity' = capacity /\ content' = content
    BY <1>2 DEF Call, Lock, Found, Skip, Allocate, Record, Unlock, Return
  <2>2. \A s \in Threads : pc'[s] = "copy" => pc[s] = "copy"
    BY <1>1, <1>2 DEF Call, Lock, Found, Skip, Allocate, Record, Unlock, Return
  <2> QED
    BY <2>1, <2>2 DEF AreaInv, AreaHolds
<1>3. ASSUME NEW t \in Threads, Area(t) PROVE AreaInv'
  <2>1. content' = NULL
    BY <1>3 DEF Area
  <2>2. /\ capacity' \in Nat
        /\ pc'[t] = "copy" => capacity' # 0
        /\ \A s \in Threads \ {t} : pc'[s] = pc[s]
    BY <1>1, <1>3 DEF Area
  <2>3. \A s \in Threads \ {t} : pc[s] # "copy"
    BY <1>3, Exclusion DEF Area
  <2> QED
    BY <2>1, <2>2, <2>3 DEF AreaInv, AreaHolds
<1>4. ASSUME NEW t \in Threads, Copy(t) PROVE AreaInv'
  <2>1. pc[t] = "copy" /\ capacity \in Nat \ {0} /\ content = NULL /\ arg[t] \in Strings
    BY <1>1, <1>4 DEF Copy, AreaInv
  <2>2. pc'[t] # "copy" /\ \A s \in Threads \ {t} : pc'[s] = pc[s]
    BY <1>1, <1>4 DEF Copy
  <2>3. \A s \in Threads : pc'[s] # "copy"
    BY <1>4, <2>2, Exclusion DEF Copy
  <2>4. CASE capacity' = Grown(capacity, Length[arg[t]]) /\ content' = arg[t]
    <3>1. Length[arg[t]] \in Nat
      BY <2>1
    <3>2. capacity' \in Nat /\ Length[content'] <= capacity'
      BY <2>1, <2>4, <3>1, GrownFits
    <3> QED
      BY <2>3, <3>2 DEF AreaInv, AreaHolds
  <2>5. CASE /\ content' = content
             /\ \E n \in 0..Length[arg[t]] - 1 : capacity' = Grown(capacity, n)
    <3>1. Length[arg[t]] \in Nat
      BY <2>1
    <3>2. capacity' \in Nat
      BY <2>1, <2>5, <3>1, GrownFits
    <3> QED
      BY <2>1, <2>3, <2>5, <3>2 DEF AreaInv, AreaHolds
  <2> QED
    BY <1>4, <2>4, <2>5 DEF Copy
<1>5. CASE UNCHANGED vars
  BY <1>5 DEF vars, AreaInv, AreaHolds
<1> QED
  BY <1>2, <1>3, <1>4, <1>5 DEF Next

\* The string that the scratch area holds fits in it, whatever doublings of this call
\* and of the earlier ones were made or failed.
THEOREM AreaHoldsAlways == ScratchOK /\ Spec => []AreaHolds
<1> SUFFICES ASSUME ScratchOK PROVE Spec => []AreaHolds
  OBVIOUS
<1>1. Init => AreaInv
  BY DEF Init, AreaInv, AreaHolds
<1>2. AreaInv => AreaHolds
  BY DEF AreaInv
<1> QED
  BY <1>1, <1>2, SInit, SStep, AreaStep, PTL DEF Spec

-----------------------------------------------------------------------------
(* The hash set implements the abstract interner.                            *)

\* The linked items of a string.
Items(s) == {a \in Linked(Slot(s)) : text[a] = s}

\* The entry of a string, before and after a step.
LEMMA TableEntry ==
    ASSUME NEW s \in Strings
    PROVE  /\ PoolTable[s] = IF Items(s) = {} THEN NULL ELSE CHOOSE a \in Items(s) : TRUE
           /\ PoolTable'[s] = IF Items(s)' = {} THEN NULL ELSE CHOOSE a \in Items(s)' : TRUE
  BY DEF PoolTable, Items

\* An item that is linked is the address of its string in the table.
LEMMA TableOfLinked ==
    ASSUME ScratchOK, SInv, NEW s \in Strings, NEW a \in Linked(Slot(s)), text[a] = s
    PROVE  PoolTable[s] = a /\ a # NULL
<1>1. Slot(s) \in 0..Slots - 1 /\ ChainOf(Slot(s)) /\ chains[Slot(s)] \in Seq(Addresses)
      /\ DOMAIN chains[Slot(s)] = 1..Len(chains[Slot(s)])
  BY SlotRange DEF SInv, TypeInv
<1>2. Items(s) = {a}
  BY <1>1 DEF Items, Linked, ChainOf
<1>3. a # NULL
  BY <1>1, ElementOfSeq DEF ScratchOK, Linked
<1> QED
  BY <1>2, <1>3, TableEntry

\* A string that no item linked in its chain has is not in the table.
LEMMA TableOfNone ==
    ASSUME NEW s \in Strings, \A a \in Linked(Slot(s)) : text[a] # s
    PROVE  PoolTable[s] = NULL
<1>1. Items(s) = {}
  BY DEF Items
<1> QED
  BY <1>1, TableEntry

\* As long as nothing is linked, and no linked item is changed, the table stays.
LEMMA TableStays ==
    ASSUME ScratchOK, UNCHANGED chains,
           \A i \in 0..Slots - 1 : \A a \in Linked(i) : text'[a] = text[a]
    PROVE  UNCHANGED PoolTable
<1>1. ASSUME NEW s \in Strings PROVE PoolTable'[s] = PoolTable[s]
  <2>1. Items(s)' = Items(s)
    BY SlotRange DEF Items, Linked
  <2> QED
    BY <2>1, TableEntry
<1> QED
  BY <1>1 DEF PoolTable

\* Each step of the hash set is a step of the interner or changes none of what it
\* shows.
LEMMA PoolStep == ScratchOK /\ SInv /\ [Next]_vars => [Pool!Next]_(Pool!vars)
<1> SUFFICES ASSUME ScratchOK, SInv, [Next]_vars
             PROVE  (\E t \in Threads : Pool!Ask(t) \/ Pool!Give(t) \/ Pool!Forget(t))
                    \/ UNCHANGED <<PoolTable, arg, PoolAnswer>>
  BY DEF Pool!Next, Pool!vars
<1> USE DEF ScratchOK, Goto, Fail
<1>1. ASSUME UNCHANGED <<chains, text>> PROVE UNCHANGED PoolTable
  BY <1>1, TableStays
<1>2. ASSUME NEW t \in Threads, TypeInv,
             \A s \in Threads \ {t} : pc'[s] = pc[s] /\ ret'[s] = ret[s]
      PROVE  /\ PoolAnswer \in [Threads -> Addresses \cup {NULL}]
             /\ PoolAnswer' = [PoolAnswer EXCEPT ![t] =
                    IF pc'[t] \in {"unlock", "return"} THEN ret'[t] ELSE NULL]
  BY <1>2 DEF PoolAnswer, TypeInv
<1>3. ASSUME NEW t \in Threads, Call(t) PROVE Pool!Ask(t)
  <2>1. PoolAnswer' = PoolAnswer /\ PoolAnswer[t] = NULL
    BY <1>3 DEF Call, PoolAnswer, SInv, TypeInv
  <2> QED
    BY <1>1, <1>3, <2>1 DEF Call, Pool!Ask
<1>4. ASSUME NEW t \in Threads, Lock(t) \/ Skip(t) \/ Unlock(t)
      PROVE  UNCHANGED <<PoolTable, arg, PoolAnswer>>
  <2>1. UNCHANGED PoolAnswer
    BY <1>4 DEF Lock, Skip, Unlock, PoolAnswer, SInv, TypeInv
  <2> QED
    BY <1>1, <1>4, <2>1 DEF Lock, Skip, Unlock
<1>5. ASSUME NEW t \in Threads, Area(t) \/ Copy(t) \/ Allocate(t)
      PROVE  UNCHANGED <<PoolTable, arg, PoolAnswer>>
  <2>1. UNCHANGED <<arg, chains>>
    BY <1>5 DEF Area, Copy, Allocate
  <2>2. UNCHANGED PoolAnswer
    <3>1. pc[t] \notin {"unlock", "return"} /\ (pc'[t] \in {"unlock", "return"} => ret'[t] = NULL)
          /\ \A s \in Threads \ {t} : pc'[s] = pc[s] /\ ret'[s] = ret[s]
      BY <1>5 DEF Area, Copy, Allocate, SInv, TypeInv
    <3> QED
      BY <3>1 DEF PoolAnswer
  <2>3. \A i \in 0..Slots - 1 : \A a \in Linked(i) : text'[a] = text[a]
    <3>1. ASSUME NEW i \in 0..Slots - 1, NEW a \in Linked(i)
          PROVE  a \in Addresses /\ text[a] # NULL
      <4> HIDE DEF ScratchOK
      <4>1. chains[i] \in Seq(Addresses) /\ ChainOf(i)
        BY DEF SInv, TypeInv
      <4>2. PICK n \in 1..Len(chains[i]) : a = chains[i][n]
        BY <4>1, LenProperties DEF Linked
      <4> QED
        BY <4>1, <4>2, ElementOfSeq DEF ChainOf
    <3>2. CASE UNCHANGED text
      BY <3>2
    <3>3. ASSUME NEW b \in Addresses, text[b] = NULL, text' = [text EXCEPT ![b] = content]
          PROVE  \A i \in 0..Slots - 1 : \A a \in Linked(i) : text'[a] = text[a]
      BY <3>1, <3>3 DEF SInv, TypeInv
    <3> QED
      BY <1>5, <3>2, <3>3 DEF Area, Copy, Allocate
  <2> QED
    BY <2>1, <2>2, <2>3, TableStays
<1>6. ASSUME NEW t \in Threads, Found(t) PROVE Pool!Give(t)
  <2>1. /\ pc[t] = "walk" /\ Here(t) \in Linked(Slot(arg[t])) /\ text[Here(t)] = arg[t]
        /\ arg[t] \in Strings
    BY <1>6, WalkFacts DEF Found, Same
  <2>2. PoolTable[arg[t]] = Here(t) /\ Here(t) # NULL
    BY <2>1, TableOfLinked
  <2>3. UNCHANGED <<arg, chains, text>> /\ pc'[t] = "unlock" /\ ret'[t] = Here(t)
        /\ \A s \in Threads \ {t} : pc'[s] = pc[s] /\ ret'[s] = ret[s]
    BY <1>6 DEF Found, SInv, TypeInv
  <2>4. PoolAnswer' = [PoolAnswer EXCEPT ![t] = Here(t)]
    BY <1>2, <2>3 DEF SInv
  <2> QED
    BY <1>1, <2>2, <2>3, <2>4 DEF Pool!Give
<1>7. ASSUME NEW t \in Threads, Record(t) PROVE Pool!Give(t)
  <2> DEFINE a == ret[t]
             s == arg[t]
  <2>1. /\ pc[t] = "record" /\ s \in Strings /\ a \in Addresses /\ a # NULL /\ text[a] = s
        /\ \A i \in 0..Slots - 1 : a \notin Linked(i)
        /\ at[t] = Len(Chain(t)) + 1 /\ \A n \in 1..at[t] - 1 : text[Chain(t)[n]] # s
    BY <1>7 DEF Record, SInv, TypeInv, CallOf
  <2>2. /\ Slot(s) \in 0..Slots - 1 /\ Chain(t) \in Seq(Addresses) /\ Len(Chain(t)) \in Nat
        /\ Chain(t) = chains[Slot(s)]
        /\ DOMAIN Chain(t) = 1..Len(Chain(t))
    BY <2>1, WalkFacts DEF Chain
  <2>3. \A b \in Linked(Slot(s)) : text[b] # s
    BY <2>1, <2>2 DEF Linked
  <2>4. PoolTable[s] = NULL
    BY <2>1, <2>3, TableOfNone
  <2>5. SInv'
    BY SStep
  <2>6. /\ UNCHANGED <<arg, text, ret>> /\ pc'[t] = "unlock"
        /\ \A u \in Threads \ {t} : pc'[u] = pc[u] /\ ret'[u] = ret[u]
        /\ \A i \in (0..Slots - 1) \ {Slot(s)} : chains'[i] = chains[i]
        /\ chains'[Slot(s)] = Append(Chain(t), a)
    <3>1. SubSeq(chains[Slot(s)], 1, at[t] - 1) = chains[Slot(s)]
      BY <2>1, <2>2, SubSeqFull
    <3> QED
      BY <1>7, <2>2, <3>1 DEF Record, SInv, TypeInv
  <2>7. \A b : b \in Linked(Slot(s))' => b \in Linked(Slot(s)) \/ b = a
    BY <2>1, <2>2, <2>6 DEF Linked
  <2>8. a \in Linked(Slot(s))'
    BY <2>5, <2>6, <2>1 DEF SInv, CallOf
  <2>9. PoolTable'[s] = a
    <3>1. Items(s)' = {a}
      BY <2>1, <2>3, <2>6, <2>7, <2>8 DEF Items
    <3> QED
      BY <2>1, <2>6, <3>1, TableEntry
  <2>10. ASSUME NEW u \in Strings, u # s PROVE PoolTable'[u] = PoolTable[u]
    <3>1. Slot(u) \in 0..Slots - 1
      BY SlotRange
    <3>2. CASE Slot(u) # Slot(s)
      <4>1. Items(u)' = Items(u)
        BY <2>6, <3>1, <3>2 DEF Items, Linked
      <4> QED
        BY <4>1, TableEntry
    <3>3. CASE Slot(u) = Slot(s)
      <4>1. \A b : b \in Linked(Slot(s)) => b \in Linked(Slot(s))'
        BY <2>2, <2>6 DEF Linked
      <4>2. Items(u)' = Items(u)
        BY <2>1, <2>6, <2>7, <2>10, <3>3, <4>1 DEF Items
      <4> QED
        BY <4>2, TableEntry
    <3> QED
      BY <3>2, <3>3
  <2>11. PoolTable' = [PoolTable EXCEPT ![s] = a]
    BY <2>9, <2>10 DEF PoolTable
  <2>12. a \notin Pool!Used
    <3>1. ASSUME NEW u \in Strings, PoolTable[u] = a PROVE FALSE
      <4>1. a \in Items(u)
        BY <2>1, <3>1, TableEntry
      <4> QED
        BY <2>1, <4>1, SlotRange DEF Items
    <3> QED
      BY <3>1 DEF Pool!Used
  <2>13. PoolAnswer' = [PoolAnswer EXCEPT ![t] = a]
    BY <1>2, <2>6 DEF SInv
  <2> QED
    BY <2>1, <2>4, <2>6, <2>11, <2>12, <2>13 DEF Pool!Give
<1>8. ASSUME NEW t \in Threads, Return(t) PROVE Pool!Forget(t)
  <2>1. pc'[t] = "idle" /\ UNCHANGED <<arg, chains, text>>
        /\ \A s \in Threads \ {t} : pc'[s] = pc[s] /\ ret'[s] = ret[s]
    BY <1>8 DEF Return, SInv, TypeInv
  <2>2. PoolAnswer' = [PoolAnswer EXCEPT ![t] = NULL]
    BY <1>2, <2>1 DEF SInv
  <2> QED
    BY <1>1, <2>1, <2>2 DEF Pool!Forget
<1>9. CASE UNCHANGED vars
  BY <1>1, <1>9 DEF vars, PoolAnswer
<1> QED
  BY <1>3, <1>4, <1>5, <1>6, <1>7, <1>8, <1>9 DEF Next

\* A string keeps forever the address it is given at the first call that asks for
\* it, and shares it with no other: the hash set implements the interner.
THEOREM PoolImplements == ScratchOK /\ Spec => PoolSpec
<1> SUFFICES ASSUME ScratchOK PROVE Spec => PoolSpec
  OBVIOUS
<1>1. Init => Pool!Init
  <2> SUFFICES ASSUME Init PROVE Pool!Init
    OBVIOUS
  <2>1. \A s \in Strings : PoolTable[s] = NULL
    BY SlotRange, TableOfNone DEF Init, Linked
  <2> QED
    BY <2>1 DEF Init, Pool!Init, PoolTable, PoolAnswer
<1> QED
  BY <1>1, PoolStep, SAlways, PTL DEF Spec, PoolSpec, Pool!Spec
=============================================================================
