------------------------- MODULE PasswdCursorProofs -------------------------
(***************************************************************************)
(* Proofs about PasswdCursor, for every set of threads, locks and regions  *)
(* and every passwd file.                                                  *)
(***************************************************************************)
EXTENDS PasswdCursor, TLAPS

\* Where a lookup has a buffer open.
Scanning == {"next", "name", "uid", "match", "take", "close"}

TypeInv == TypeOK /\ \A t \in Threads : pc[t] \in Scanning => buffer \in Regions

\* The columns of a row of a passwd file are names and uids.
LEMMA RowColumns ==
    ASSUME CursorOK, NEW f \in PasswdFiles, NEW i \in DOMAIN f, NEW col \in Columns
    PROVE  f[i][col] \in Names \cup Uids
<1>1. f \in Seq(Row)
  BY DEF CursorOK
<1>2. f[i] \in Row
  BY <1>1
<1> QED
  BY <1>2 DEF Row, Columns

\* What is readable is a cell of a passwd file.
LEMMA ReadableCell ==
    ASSUME TypeOK, NEW p \in Cursors \cup {NULL}, Readable(p)
    PROVE  /\ p \in Cursors /\ mapped[p[1]] \in PasswdFiles
           /\ p[2] \in DOMAIN mapped[p[1]]
<1>1. p \in Cursors /\ mapped[p[1]] # NULL /\ p[2] \in DOMAIN mapped[p[1]]
  BY DEF Readable
<1>2. p[1] \in Regions
  BY <1>1 DEF Cursors
<1> QED
  BY <1>1, <1>2 DEF TypeOK

\* The process starts with no lookup in progress.
LEMMA TypeInit == CursorOK /\ Init => TypeInv
<1> SUFFICES ASSUME CursorOK, Init PROVE TypeInv
  OBVIOUS
<1>1. Queries # {}
  <2>1. PICK u \in Uids : TRUE
    BY DEF CursorOK
  <2>2. [kind |-> "has_uid", key |-> u] \in [kind : {"has_uid", "user_of"}, key : Uids]
    OBVIOUS
  <2> QED
    BY <2>2 DEF Queries
<1>2. (CHOOSE q \in Queries : TRUE) \in Queries
  BY <1>1
<1> QED
  BY <1>2 DEF CursorOK, Init, TypeInv, TypeOK, Scanning, Labels, NotFound

\* Races included, every step keeps the types.
LEMMA TypeStep == CursorOK /\ TypeInv /\ [Next]_vars => TypeInv'
<1> SUFFICES ASSUME CursorOK, TypeInv, [Next]_vars PROVE TypeInv'
  OBVIOUS
<1> USE DEF CursorOK, TypeInv, TypeOK, Scanning, Labels, statics, locals, Goto
<1>1. ASSUME Crash PROVE TypeInv'
  BY <1>1 DEF Crash
<1>2. ASSUME NEW t \in Threads, Enter(t) PROVE TypeInv'
  BY <1>2 DEF Enter
<1>3. ASSUME NEW t \in Threads, Rewind(t) \/ Leave(t) \/ Close(t) PROVE TypeInv'
  <2>1. CASE Rewind(t)
    BY <2>1 DEF Rewind
  <2>2. CASE Leave(t)
    BY <2>2 DEF Leave
  <2>3. CASE Close(t)
    BY <2>3 DEF Close
  <2> QED
    BY <1>3, <2>1, <2>2, <2>3
<1>4. ASSUME NEW t \in Threads, Open(t) PROVE TypeInv'
  <2>1. CASE pc' = [pc EXCEPT ![t] = "next"]
    <3>1. PICK r \in Regions : /\ mapped' = [mapped EXCEPT ![r] = file]
                              /\ buffer' = r
      BY <1>4, <2>1 DEF Open
    <3>2. /\ seen' = [seen EXCEPT ![t] = file]
          /\ UNCHANGED <<file, pos, starts, holder, want, at, result, crashed>>
      BY <1>4, <2>1 DEF Open
    <3> HIDE DEF CursorOK
    <3> QED
      BY <2>1, <3>1, <3>2
  <2>2. CASE pc' = [pc EXCEPT ![t] = "leave"] /\ UNCHANGED <<mapped, buffer>>
             /\ seen' = [seen EXCEPT ![t] = <<>>]
    BY <1>4, <2>2 DEF Open
  <2> QED
    BY <1>4, <2>1, <2>2 DEF Open
<1>5. ASSUME NEW t \in Threads, NextRow(t), ~Crash PROVE TypeInv'
  <2>1. buffer \in Regions
    BY <1>5 DEF NextRow
  <2>2. <<buffer, pos + 1>> \in Cursors
    BY <2>1 DEF Cursors
  <2>3. PICK l \in {"name", "close"} : pc' = [pc EXCEPT ![t] = l]
    BY <1>5 DEF NextRow
  <2>4. /\ at' = [at EXCEPT ![t] = <<buffer, pos + 1>>]
        /\ UNCHANGED <<file, mapped, statics, holder, want, result, seen, crashed>>
    BY <1>5 DEF NextRow
  <2> QED
    BY <2>1, <2>2, <2>3, <2>4
<1>6. ASSUME NEW t \in Threads, SetName(t) \/ SetUid(t), ~Crash PROVE TypeInv'
  <2>1. Readable(at[t])
    BY <1>6 DEF SetName, SetUid
  <2>2. at[t] \in Cursors /\ at[t][2] \in Nat
    BY <2>1, ReadableCell DEF Cursors
  <2>3. CASE SetName(t)
    BY <1>6, <2>2, <2>3 DEF SetName
  <2>4. CASE SetUid(t)
    BY <1>6, <2>2, <2>4 DEF SetUid
  <2> QED
    BY <1>6, <2>3, <2>4
<1>7. ASSUME NEW t \in Threads, Match(t), ~Crash PROVE TypeInv'
  BY <1>7 DEF Match
<1>8. ASSUME NEW t \in Threads, Take(t), ~Crash PROVE TypeInv'
  <2> DEFINE col == Returned(want[t])
  <2>1. Readable(starts[col]) /\ col \in Columns
    BY <1>8 DEF Take, Returned, Columns
  <2>2. Cell(col) \in Names \cup Uids
    <3>1. starts[col] \in Cursors \cup {NULL}
      BY <2>1
    <3>2. /\ mapped[starts[col][1]] \in PasswdFiles
          /\ starts[col][2] \in DOMAIN mapped[starts[col][1]]
      BY <2>1, <3>1, ReadableCell
    <3> QED
      BY <2>1, <3>2, RowColumns DEF Cell
  <2>3. result' = [result EXCEPT ![t] = Cell(col)]
    BY <1>8 DEF Take
  <2> HIDE DEF col
  <2> QED
    BY <1>8, <2>2, <2>3 DEF Take
<1>9. CASE Edit \/ UNCHANGED vars
  BY <1>9 DEF Edit, vars
<1> QED
  BY <1>1, <1>2, <1>3, <1>4, <1>5, <1>6, <1>7, <1>8, <1>9 DEF Next, Step

\* Every variable keeps its type, whatever the locks.
THEOREM CursorTypes == CursorOK /\ Spec => []TypeOK
<1> SUFFICES ASSUME CursorOK PROVE Spec => []TypeOK
  OBVIOUS
<1>1. TypeInv => TypeOK
  BY DEF TypeInv
<1> QED
  BY <1>1, TypeInit, TypeStep, PTL DEF Spec

-----------------------------------------------------------------------------
(* A lookup in progress, when no other thread is inside.                     *)
Alone(t) == \A s \in Threads \ {t} : pc[s] = "out"

\* None of the first n rows of the file that t opened matches.
Passed(t, n) == \A i \in 1..n : seen[t][i][Compared(want[t])] # want[t].key

\* The lookup of t reads the file it opened, at the row after those it passed.
LookupOf(t) ==
    /\ pc[t] \in Scanning => mapped[buffer] = seen[t] /\ seen[t] \in PasswdFiles
    /\ pc[t] \in {"rewind", "open", "next", "name", "uid", "match", "take"} =>
          result[t] = NotFound
    /\ pc[t] = "open" => pos = 0
    /\ pc[t] = "next" => pos <= Len(seen[t]) /\ Passed(t, pos)
    /\ pc[t] \in {"name", "uid"} => /\ at[t] = <<buffer, pos + 1>>
                                    /\ pos < Len(seen[t]) /\ Passed(t, pos)
    /\ pc[t] = "uid" => starts["name"] = at[t]
    /\ pc[t] \in {"match", "take"} => /\ pos \in 1..Len(seen[t]) /\ Passed(t, pos - 1)
                                      /\ \A col \in Columns : starts[col] = <<buffer, pos>>
    /\ pc[t] = "take" => seen[t][pos][Compared(want[t])] = want[t].key
    /\ pc[t] \in {"close", "leave"} => result[t] = Lookup(seen[t], want[t])

\* The first row that matches gives the answer.
LEMMA LookupFound ==
    ASSUME NEW f \in Seq(Row), NEW q, NEW n \in 1..Len(f),
           f[n][Compared(q)] = q.key, \A i \in 1..n - 1 : f[i][Compared(q)] # q.key
    PROVE  Lookup(f, q) = f[n][Returned(q)]
<1> DEFINE matching == {i \in DOMAIN f : f[i][Compared(q)] = q.key}
<1>1. n \in matching /\ \A j \in matching : j \in 1..Len(f) /\ n <= j
  OBVIOUS
<1> HIDE DEF matching
<1>2. (CHOOSE i \in matching : \A j \in matching : i <= j) = n
  <2>1. \E i \in matching : \A j \in matching : i <= j
    BY <1>1
  <2>2. ASSUME NEW i \in matching, \A j \in matching : i <= j PROVE i = n
    BY <1>1, <2>2
  <2> QED
    BY <2>1, <2>2
<1> QED
  BY <1>1, <1>2 DEF Lookup, matching

\* No row that matches is no answer.
LEMMA LookupNone ==
    ASSUME NEW f, NEW q, \A i \in DOMAIN f : f[i][Compared(q)] # q.key
    PROVE  Lookup(f, q) = NotFound
  BY DEF Lookup

\* A file that is open has rows, and its cells are those of the regions.
LEMMA OpenFile ==
    ASSUME CursorOK, TypeInv, NEW t \in Threads, LookupOf(t), pc[t] \in Scanning
    PROVE  /\ buffer \in Regions /\ mapped[buffer] = seen[t] /\ seen[t] # NULL
           /\ seen[t] \in Seq(Row) /\ Len(seen[t]) \in Nat
           /\ DOMAIN seen[t] = 1..Len(seen[t]) /\ pos \in Nat
<1>1. seen[t] \in PasswdFiles /\ mapped[buffer] = seen[t]
  BY DEF LookupOf
<1>2. seen[t] \in Seq(Row) /\ seen[t] # NULL
  BY <1>1 DEF CursorOK
<1> QED
  BY <1>1, <1>2 DEF TypeInv, TypeOK

\* The next step of a lookup that is alone reads what is mapped, and keeps the
\* lookup right.
LEMMA AloneStep ==
    ASSUME CursorOK, TypeInv, NEW t \in Threads, LookupOf(t), Alone(t), Step(t)
    PROVE  LookupOf(t)' /\ UNCHANGED crashed
<1> USE DEF TypeInv, TypeOK, LookupOf, Passed, statics, locals, Goto
<1>1. CASE Rewind(t)
  BY <1>1 DEF Rewind, Scanning
<1>2. CASE Open(t)
  <2>1. CASE pc' = [pc EXCEPT ![t] = "next"]
    <3>1. PICK r \in Regions : mapped' = [mapped EXCEPT ![r] = file] /\ buffer' = r
      BY <1>2, <2>1 DEF Open
    <3>2. file \in Seq(Row)
      BY DEF CursorOK
    <3>3. /\ seen' = [seen EXCEPT ![t] = file] /\ UNCHANGED <<pos, result, crashed>>
          /\ pc[t] = "open" /\ pc'[t] = "next"
      BY <1>2, <2>1 DEF Open
    <3> QED
      BY <3>1, <3>2, <3>3 DEF Scanning
  <2>2. CASE pc' = [pc EXCEPT ![t] = "leave"] /\ seen' = [seen EXCEPT ![t] = <<>>]
    <3>1. Lookup(<<>>, want[t]) = NotFound
      BY LookupNone
    <3> QED
      BY <1>2, <2>2, <3>1 DEF Open, Scanning
  <2> QED
    BY <1>2, <2>1, <2>2 DEF Open
<1>3. CASE NextRow(t)
  <2>1. pc[t] = "next"
    BY <1>3 DEF NextRow
  <2>2. /\ buffer \in Regions /\ mapped[buffer] = seen[t] /\ seen[t] # NULL
        /\ seen[t] \in Seq(Row) /\ Len(seen[t]) \in Nat
        /\ DOMAIN seen[t] = 1..Len(seen[t]) /\ pos \in Nat
    BY <2>1, OpenFile DEF Scanning
  <2>3. /\ at' = [at EXCEPT ![t] = <<buffer, pos + 1>>]
        /\ pc' = [pc EXCEPT ![t] = IF pos < Len(seen[t]) THEN "name" ELSE "close"]
        /\ UNCHANGED <<mapped, buffer, pos, starts, want, result, seen, crashed>>
    BY <1>3, <2>2 DEF NextRow
  <2>4. CASE pos < Len(seen[t])
    BY <2>1, <2>2, <2>3, <2>4 DEF Scanning
  <2>5. CASE ~(pos < Len(seen[t]))
    <3>1. Lookup(seen[t], want[t]) = NotFound
      BY <2>1, <2>2, <2>5, LookupNone
    <3> QED
      BY <2>1, <2>2, <2>3, <2>5, <3>1 DEF Scanning
  <2> QED
    BY <2>4, <2>5
<1>4. CASE SetName(t) \/ SetUid(t)
  <2>1. pc[t] \in {"name", "uid"}
    BY <1>4 DEF SetName, SetUid
  <2>2. /\ buffer \in Regions /\ mapped[buffer] = seen[t] /\ seen[t] # NULL
        /\ seen[t] \in Seq(Row) /\ Len(seen[t]) \in Nat
        /\ DOMAIN seen[t] = 1..Len(seen[t]) /\ pos \in Nat
    BY <2>1, OpenFile DEF Scanning
  <2>3. at[t] = <<buffer, pos + 1>> /\ pos + 1 \in 1..Len(seen[t])
    BY <2>1, <2>2
  <2>4. Readable(at[t])
    <3>1. at[t] \in Regions \X Nat /\ at[t][1] = buffer /\ at[t][2] = pos + 1
      BY <2>2, <2>3
    <3>2. at[t] # NULL
      BY <3>1 DEF CursorOK
    <3> QED
      BY <2>2, <2>3, <3>1, <3>2 DEF Readable
  <2>5. CASE SetName(t)
    BY <2>1, <2>3, <2>4, <2>5 DEF SetName, Scanning, Columns
  <2>6. CASE SetUid(t)
    <3>1. /\ starts' = [starts EXCEPT !["uid"] = at[t]] /\ pos' = pos + 1
          /\ pc[t] = "uid" /\ pc' = [pc EXCEPT ![t] = "match"]
          /\ UNCHANGED <<mapped, buffer, want, at, result, seen, crashed>>
      BY <2>3, <2>4, <2>6 DEF SetUid
    <3>2. \A col \in Columns : starts'[col] = <<buffer, pos + 1>>
      BY <2>3, <3>1 DEF Columns
    <3>3. pos' - 1 = pos
      BY <2>2, <3>1
    <3> QED
      BY <2>2, <2>3, <3>1, <3>2, <3>3 DEF Scanning
  <2> QED
    BY <1>4, <2>5, <2>6
<1>5. CASE Match(t) \/ Take(t)
  <2> DEFINE q == want[t]
  <2>1. pc[t] \in {"match", "take"}
    BY <1>5 DEF Match, Take
  <2>2. /\ buffer \in Regions /\ mapped[buffer] = seen[t] /\ seen[t] # NULL
        /\ seen[t] \in Seq(Row) /\ Len(seen[t]) \in Nat
        /\ DOMAIN seen[t] = 1..Len(seen[t]) /\ pos \in Nat
    BY <2>1, OpenFile DEF Scanning
  <2>3. ASSUME NEW col \in Columns
        PROVE  Readable(starts[col]) /\ Cell(col) = seen[t][pos][col]
    <3>1. starts[col] = <<buffer, pos>> /\ pos \in 1..Len(seen[t])
      BY <2>1
    <3>2. starts[col] \in Regions \X Nat /\ starts[col][1] = buffer /\ starts[col][2] = pos
      BY <2>2, <3>1
    <3>3. starts[col] # NULL
      BY <3>2 DEF CursorOK
    <3> QED
      BY <2>2, <3>1, <3>2, <3>3 DEF Readable, Cell
  <2>4. Compared(q) \in Columns /\ Returned(q) \in Columns
    BY DEF Compared, Returned, Columns
  <2>5. CASE Match(t)
    <3>1. pc' = [pc EXCEPT ![t] = IF seen[t][pos][Compared(q)] = q.key
                                  THEN "take" ELSE "next"]
          /\ UNCHANGED <<mapped, buffer, pos, starts, want, at, result, seen, crashed>>
          /\ pc[t] = "match"
      BY <2>3, <2>4, <2>5 DEF Match
    <3>2. pos <= Len(seen[t]) /\ \A i \in 1..pos : i \in 1..pos - 1 \/ i = pos
      BY <2>1, <2>2
    <3> QED
      BY <2>1, <2>2, <3>1, <3>2 DEF Scanning
  <2>6. CASE Take(t)
    <3>1. /\ result' = [result EXCEPT ![t] = seen[t][pos][Returned(q)]]
          /\ pc[t] = "take" /\ pc' = [pc EXCEPT ![t] = "close"]
          /\ UNCHANGED <<mapped, buffer, pos, starts, want, at, seen, crashed>>
      BY <2>3, <2>4, <2>6 DEF Take
    <3>2. Lookup(seen[t], q) = seen[t][pos][Returned(q)]
      BY <2>2, <3>1, LookupFound
    <3> QED
      BY <2>2, <3>1, <3>2 DEF Scanning
  <2> QED
    BY <1>5, <2>5, <2>6
<1>6. CASE Close(t) \/ Leave(t)
  BY <1>6 DEF Close, Leave, Scanning
<1> QED
  BY <1>1, <1>2, <1>3, <1>4, <1>5, <1>6 DEF Step

\* While a lookup is alone, the steps of the others do not disturb it: they can
\* only come in.
LEMMA LookupStep ==
    ASSUME CursorOK, TypeInv, NEW t \in Threads, LookupOf(t), pc[t] = "out" \/ Alone(t),
           [Next]_vars
    PROVE  LookupOf(t)'
<1> USE DEF TypeInv, TypeOK, LookupOf, Passed, statics, locals, Goto
<1>1. ASSUME NEW s \in Threads, Enter(s) PROVE LookupOf(t)'
  <2>1. CASE s = t
    BY <1>1, <2>1 DEF Enter, Scanning
  <2>2. CASE s # t
    <3>1. /\ UNCHANGED <<mapped, statics, at, seen>>
          /\ pc'[t] = pc[t] /\ want'[t] = want[t] /\ result'[t] = result[t]
      BY <1>1, <2>2 DEF Enter
    <3> QED
      BY <3>1
  <2> QED
    BY <2>1, <2>2
<1>2. ASSUME NEW s \in Threads, Step(s) PROVE LookupOf(t)'
  <2>1. CASE s # t
    <3>1. pc[s] # "out"
      BY <1>2 DEF Step, Rewind, Open, NextRow, SetName, SetUid, Match, Take, Close, Leave
    <3>2. pc[t] = "out"
      BY <2>1, <3>1 DEF Alone
    <3>3. pc'[t] = "out"
      BY <1>2, <2>1, <3>2 DEF Step, Rewind, Open, NextRow, SetName, SetUid, Match, Take,
         Close, Leave, Crash
    <3> QED
      BY <3>3 DEF Scanning
  <2>2. CASE s = t
    <3>1. pc[t] # "out"
      BY <1>2, <2>2 DEF Step, Rewind, Open, NextRow, SetName, SetUid, Match, Take, Close,
         Leave
    <3> HIDE DEF LookupOf
    <3> QED
      BY <1>2, <2>2, <3>1, AloneStep
  <2> QED
    BY <2>1, <2>2
<1>3. CASE Edit \/ UNCHANGED vars
  BY <1>3 DEF Edit, vars
<1> QED
  BY <1>1, <1>2, <1>3 DEF Next

-----------------------------------------------------------------------------
(* One lock around all the lookups.                                          *)
OneLock == \A s, t \in Threads : LockOf[s] = LockOf[t]

\* The lock is held by the thread inside, which has the only buffer mapped.
LockInv ==
    /\ \A t \in Threads : pc[t] # "out" => holder[LockOf[t]] = t
    /\ \A r \in Regions : mapped[r] # NULL =>
          buffer = r /\ \E t \in Threads : pc[t] \in Scanning
    /\ \A t \in Threads : LookupOf(t)
    /\ ~crashed

\* One lock leaves at most one thread inside.
LEMMA OneInside ==
    ASSUME OneLock, LockInv, NEW t \in Threads, pc[t] # "out" PROVE Alone(t)
  BY DEF OneLock, LockInv, Alone

\* Every step under one lock keeps the lookups right and closes what it opened.
LEMMA LockStep == CursorOK /\ OneLock /\ TypeInv /\ LockInv /\ [Next]_vars => LockInv'
<1> SUFFICES ASSUME CursorOK, OneLock, TypeInv, LockInv, [Next]_vars PROVE LockInv'
  OBVIOUS
<1> USE DEF CursorOK, TypeInv, TypeOK, statics, locals, Goto
<1>1. ASSUME NEW t \in Threads PROVE LookupOf(t)'
  BY OneInside, LookupStep DEF LockInv
<1>2. ASSUME NEW s \in Threads, Step(s) PROVE UNCHANGED crashed
  <2>1. pc[s] # "out"
    BY <1>2 DEF Step, Rewind, Open, NextRow, SetName, SetUid, Match, Take, Close, Leave
  <2> QED
    BY <1>2, <2>1, OneInside, AloneStep DEF LockInv
<1>3. ~crashed'
  BY <1>2 DEF LockInv, Next, Enter, Edit, vars
<1>4. \A t \in Threads : (pc[t] # "out" => holder[LockOf[t]] = t)'
  <2>1. ASSUME NEW s \in Threads, Enter(s)
        PROVE  \A t \in Threads : (pc[t] # "out" => holder[LockOf[t]] = t)'
    BY <2>1 DEF Enter, LockInv
  <2>2. ASSUME NEW s \in Threads, Leave(s)
        PROVE  \A t \in Threads : (pc[t] # "out" => holder[LockOf[t]] = t)'
    <3>1. Alone(s)
      BY <2>2, OneInside DEF Leave
    <3> QED
      BY <2>2, <3>1 DEF Leave, Alone
  <2>3. ASSUME NEW s \in Threads, Step(s), ~Leave(s)
        PROVE  \A t \in Threads : (pc[t] # "out" => holder[LockOf[t]] = t)'
    <3>1. UNCHANGED holder /\ \A t \in Threads \ {s} : pc'[t] = pc[t]
      BY <2>3 DEF Step, Rewind, Open, NextRow, SetName, SetUid, Match, Take, Close, Crash
    <3>2. pc[s] # "out"
      BY <2>3 DEF Step, Rewind, Open, NextRow, SetName, SetUid, Match, Take, Close
    <3> QED
      BY <3>1, <3>2 DEF LockInv
  <2>4. CASE Edit \/ UNCHANGED vars
    BY <2>4 DEF Edit, vars, LockInv
  <2> QED
    BY <2>1, <2>2, <2>3, <2>4 DEF Next
<1>5. \A r \in Regions : (mapped[r] # NULL =>
                             buffer = r /\ \E t \in Threads : pc[t] \in Scanning)'
  <2> DEFINE Clean == \A r \in Regions : mapped[r] # NULL =>
                         buffer = r /\ \E t \in Threads : pc[t] \in Scanning
  <2>1. Clean
    BY DEF LockInv
  <2>2. ASSUME NEW s \in Threads, Open(s) PROVE Clean'
    <3>1. Alone(s) /\ pc[s] = "open"
      BY <2>2, OneInside DEF Open
    <3>2. \A r \in Regions : mapped[r] = NULL
      BY <2>1, <3>1 DEF Alone, Scanning
    <3> QED
      BY <2>2, <3>2 DEF Open, Scanning
  <2>3. ASSUME NEW s \in Threads, Close(s) PROVE Clean'
    <3>1. \A r \in Regions : mapped'[r] = NULL
      BY <2>1, <2>3 DEF Close
    <3> QED
      BY <3>1
  <2>4. ASSUME NEW s \in Threads, UNCHANGED <<mapped, buffer>>,
               pc'[s] \in Scanning \/ pc[s] \notin Scanning,
               \A t \in Threads \ {s} : pc'[t] = pc[t]
        PROVE  Clean'
    BY <2>1, <2>4
  <2>5. ASSUME NEW s \in Threads, Step(s) \/ Enter(s), ~Open(s), ~Close(s) PROVE Clean'
    <3>1. UNCHANGED <<mapped, buffer>> /\ \A t \in Threads \ {s} : pc'[t] = pc[t]
      BY <2>5 DEF Step, Enter, Rewind, NextRow, SetName, SetUid, Match, Take, Leave, Crash
    <3>2. pc'[s] \in Scanning \/ pc[s] \notin Scanning
      BY <2>5 DEF Step, Enter, Rewind, NextRow, SetName, SetUid, Match, Take, Leave, Crash,
         Scanning
    <3> QED
      BY <2>4, <3>1, <3>2
  <2>6. CASE Edit \/ UNCHANGED vars
    BY <2>1, <2>6 DEF Edit, vars
  <2> QED
    BY <2>2, <2>3, <2>5, <2>6 DEF Next, Step
<1> QED
  BY <1>1, <1>3, <1>4, <1>5 DEF LockInv

\* The invariant of one lock holds in every reachable state.
LEMMA LockAlways == CursorOK /\ OneLock /\ Spec => [](TypeInv /\ LockInv)
<1> SUFFICES ASSUME CursorOK, OneLock PROVE Spec => [](TypeInv /\ LockInv)
  OBVIOUS
<1>1. Init => TypeInv /\ LockInv
  BY TypeInit DEF Init, LockInv, LookupOf, Scanning
<1> QED
  BY <1>1, TypeStep, LockStep, PTL DEF Spec

\* Lookups under one lock never read a buffer that was unmapped.
THEOREM OneLockNoWildRead == CursorOK /\ OneLock /\ Spec => []NoWildRead
<1>1. LockInv => NoWildRead
  BY DEF LockInv, NoWildRead
<1> QED
  BY <1>1, LockAlways, PTL

\* Lookups under one lock answer what the file they opened says, whatever rows
\* it has and however the file is edited meanwhile.
THEOREM OneLockLookupRight == CursorOK /\ OneLock /\ Spec => []LookupRight
<1>1. LockInv => LookupRight
  BY DEF LockInv, LookupOf, LookupRight
<1> QED
  BY <1>1, LockAlways, PTL

\* Lookups under one lock leave no buffer mapped.
THEOREM OneLockNothingLeaks == CursorOK /\ OneLock /\ Spec => []NothingLeaks
<1>1. LockInv => NothingLeaks
  BY DEF LockInv, NothingLeaks, Scanning
<1> QED
  BY <1>1, LockAlways, PTL

-----------------------------------------------------------------------------
(* Any locks: what Context takes for granted of its lookups.                 *)

VARIABLE raced    \* history: the threads inside whose stay overlapped another

Inside == {s \in Threads : pc[s] # "out"}

\* The history is kept like pwRaced of Context: a thread that comes in while
\* another is inside makes all of those inside raced, until they leave.
Races ==
    raced' = Inside' \cap (IF Inside' \subseteq Inside \/ Inside = {} THEN raced
                           ELSE raced \cup Inside')

RacedSpec == Init /\ raced = {} /\ [][Next /\ Races]_<<vars, raced>>

\* A thread inside that raced with nobody is alone, and its lookup is right.
RacedInv ==
    /\ raced \subseteq Inside
    /\ \A t \in Inside \ raced : Alone(t)
    /\ \A t \in Threads \ raced : LookupOf(t)
    /\ crashed => raced # {}

\* A lookup whose stay overlaps no other one answers what the file it opened
\* says, whatever others left behind when they raced; only a lookup that races
\* reads where nothing is mapped.
ExactUnlessRaced ==
    /\ \A t \in Threads \ raced : pc[t] = "leave" => result[t] = Lookup(seen[t], want[t])
    /\ crashed => raced # {}

\* A lookup is right as long as it races with nobody.
LEMMA RacedStep ==
    CursorOK /\ TypeInv /\ RacedInv /\ [Next /\ Races]_<<vars, raced>> => RacedInv'
<1> SUFFICES ASSUME CursorOK, TypeInv, RacedInv, Next, Races PROVE RacedInv'
  <2>1. UNCHANGED <<vars, raced>> => (RacedInv <=> RacedInv')
    BY DEF RacedInv, vars, statics, locals, Inside, Alone, LookupOf, Passed
  <2> QED
    BY <2>1
<1>1. [Next]_vars
  OBVIOUS
<1>2. raced' \subseteq Inside'
  BY DEF Races
<1>3. \A t \in Inside : t \notin raced' => t \notin raced \/ pc'[t] = "out"
  BY DEF Races, Inside
<1>4. UNCHANGED pc \/ \E s \in Threads : \A t \in Threads \ {s} : pc'[t] = pc[t]
  <2>1. ASSUME NEW s \in Threads, Enter(s) \/ Step(s)
        PROVE  \A t \in Threads \ {s} : pc'[t] = pc[t]
    BY <2>1 DEF TypeInv, TypeOK, Goto, Step, Enter, Rewind, Open, NextRow, SetName, SetUid,
       Match, Take, Close, Leave, Crash
  <2> QED
    BY <2>1 DEF Next, Edit
<1>5. \A t \in Inside' \ raced' : Alone(t)'
  BY <1>4 DEF RacedInv, Races, Inside, Alone
<1>6. ASSUME NEW t \in Threads, t \notin raced' PROVE LookupOf(t)'
  <2>1. CASE t \notin raced
    <3>1. LookupOf(t) /\ (pc[t] = "out" \/ Alone(t))
      BY <2>1 DEF RacedInv, Inside
    <3> QED
      BY <1>1, <3>1, LookupStep
  <2>2. CASE t \in raced
    <3>1. pc'[t] = "out"
      BY <1>3, <1>6, <2>2 DEF RacedInv
    <3> QED
      BY <3>1 DEF LookupOf, Scanning
  <2> QED
    BY <2>1, <2>2
<1>7. ASSUME crashed' PROVE raced' # {}
  <2>1. PICK s \in Threads : Step(s)
    BY <1>7 DEF Next, Edit, Enter
  <2>2. pc[s] # "out"
    BY <2>1 DEF Step, Rewind, Open, NextRow, SetName, SetUid, Match, Take, Close, Leave
  <2>3. s \in raced
    <3>1. CASE s \notin raced
      <4>1. LookupOf(s) /\ Alone(s)
        BY <2>2, <3>1 DEF RacedInv, Inside
      <4>2. UNCHANGED crashed
        BY <2>1, <4>1, AloneStep
      <4> QED
        BY <1>7, <4>2 DEF Next
    <3> QED
      BY <3>1
  <2>4. UNCHANGED pc
    BY <1>7, <2>1 DEF Next, Step, Rewind, Open, NextRow, SetName, SetUid, Match, Take, Close,
       Leave, Crash
  <2> QED
    BY <2>3, <2>4 DEF Races, Inside, RacedInv
<1> QED
  BY <1>2, <1>5, <1>6, <1>7 DEF RacedInv

\* What PwFinds of Context takes for granted, for any locks: a lookup that races
\* with no other one is exact.
THEOREM ExactLookups == CursorOK /\ RacedSpec => []ExactUnlessRaced
<1> SUFFICES ASSUME CursorOK PROVE RacedSpec => []ExactUnlessRaced
  OBVIOUS
<1>1. Init /\ raced = {} => TypeInv /\ RacedInv
  BY TypeInit DEF Init, RacedInv, Inside, LookupOf, Scanning
<1>2. TypeInv /\ [Next /\ Races]_<<vars, raced>> => TypeInv'
  BY TypeStep DEF vars
<1>3. RacedInv => ExactUnlessRaced
  BY DEF RacedInv, LookupOf, ExactUnlessRaced
<1> QED
  BY <1>1, <1>2, <1>3, RacedStep, PTL DEF RacedSpec
=============================================================================
