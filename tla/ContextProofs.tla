--------------------------- MODULE ContextProofs ---------------------------
(***************************************************************************)
(* Proofs about Context, for every set of threads, contexts, heaps and     *)
(* variables and every number of edits of the configuration file.          *)
(***************************************************************************)
EXTENDS Context, TLAPS

\* Every answer the getters and set_user can be about to return is an Answer.
LEMMA AnswerTypes ==
    /\ NoAnswer \in Answers /\ NoMemory \in Answers
    /\ \A v \in Vars, k \in Content : Value(v, k) \in Answers
    /\ \A v \in Vars \cup {BadId} : Nothing(v) \in Answers
    /\ \A u \in Uids \cup {NULL} : Uid(u) \in Answers
    /\ \A u \in Uids : User(u) \in Answers
    /\ \A ok \in BOOLEAN : Status(ok) \in Answers
  BY DEF Answers

-----------------------------------------------------------------------------
(* The arguments of a call agree with its operation and its place in it.     *)
ArgOK ==
    \A t \in Threads :
        /\ pc[t] \in {"get", "value"} => arg[t] \in Vars \cup {BadId}
        /\ pc[t] \in {"open", "create", "parse", "publish", "fetch"} =>
              arg[t] \in Vars
        /\ pc[t] \in {"set_user", "check", "switch"} => arg[t] \in Uids \cup {NotSet}
        /\ pc[t] = "check" => arg[t] # NotSet
        /\ pc[t] = "lock" => /\ op[t] \in {"get", "getuid"} => arg[t] \in Vars \cup {BadId}
                             /\ op[t] = "set_user" => arg[t] \in Uids \cup {NotSet}

\* A null pointer until the value is fetched, and for BadId.
PtrOK ==
    \A t \in Threads :
        /\ pc[t] \notin {"value", "lookup", "unlock"} => ptr[t] = NULL
        /\ pc[t] = "value" /\ ptr[t] # NULL => arg[t] \in Vars
        /\ pc[t] = "lookup" => arg[t] \in Vars

TypeInv == TypeOK /\ ArgOK /\ PtrOK

\* A process begins with its variables typed and no call in progress.
LEMMA TypeInit == Init => TypeInv
  BY ContextAssumption, AnswerTypes
  DEF Init, TypeInv, TypeOK, ArgOK, PtrOK, Versions, Labels, Ops, Content, Blank

\* Entering and leaving passwd.c keeps the sets of threads inside it.
LEMMA PwTypes ==
    ASSUME NEW t \in Threads, pwIn \in SUBSET Threads, pwRaced \in SUBSET pwIn,
           unread \in SUBSET Threads,
           PwEnter(t) \/ (PwLeave(t) /\ unread' \in {unread, unread \ {t}})
    PROVE  pwIn' \in SUBSET Threads /\ pwRaced' \in SUBSET pwIn' /\ unread' \in SUBSET Threads
  BY DEF PwEnter, PwLeave

\* No step of a thread, of a creation or of the environment breaks a type or
\* gives a call an argument its operation does not take.
LEMMA TypeStep == TypeInv /\ [Next]_vars => TypeInv'
<1> SUFFICES ASSUME TypeInv, [Next]_vars PROVE TypeInv'
  OBVIOUS
<1> USE ContextAssumption DEF TypeInv, TypeOK, ArgOK, PtrOK, Labels, Ops,
        envVars, ctxVars, heapVars, pwVars, callVars, history, Goto, Answer
<1>1. ASSUME NEW t \in Threads, Call(t) PROVE TypeInv'
  BY <1>1 DEF Call
<1>2. ASSUME NEW t \in Threads, Lock(t) PROVE TypeInv'
  BY <1>2 DEF Lock
<1>3. ASSUME NEW t \in Threads, Unlock(t) PROVE TypeInv'
  BY <1>3, AnswerTypes DEF Unlock, Versions
<1>4. ASSUME NEW t \in Threads, GetLock(t) PROVE TypeInv'
  BY <1>4 DEF GetLock
<1>5. ASSUME NEW t \in Threads, InitOpen(t) PROVE TypeInv'
  <2>1. values' \in [Contexts -> [Vars -> Heaps \cup {NULL}]]
    BY <1>5 DEF InitOpen
  <2>2. CASE InitFails(t) /\ UNCHANGED snap
    <3>1. TypeOK'
      BY <1>5, <2>1, <2>2 DEF InitOpen, InitFails
    <3>2. ArgOK'
      BY <1>5, <2>1, <2>2 DEF InitOpen, InitFails
    <3>3. PtrOK'
      BY <1>5, <2>1, <2>2 DEF InitOpen, InitFails
    <3> QED BY <3>1, <3>2, <3>3
  <2>3. CASE snap' = [snap EXCEPT ![t] = file] /\ Goto(t, "create") /\ UNCHANGED state
    <3>1. TypeOK'
      BY <1>5, <2>1, <2>3 DEF InitOpen
    <3>2. ArgOK'
      BY <1>5, <2>1, <2>3 DEF InitOpen
    <3>3. PtrOK'
      BY <1>5, <2>1, <2>3 DEF InitOpen
    <3> QED BY <3>1, <3>2, <3>3
  <2> QED
    BY <1>5, <2>2, <2>3 DEF InitOpen
<1>6. ASSUME NEW t \in Threads, InitHeap(t) PROVE TypeInv'
  <2>1. CASE InitFails(t) /\ UNCHANGED <<heap, heapVars, pwVars>>
    <3>1. TypeOK'
      BY <1>6, <2>1 DEF InitHeap, InitFails
    <3>2. ArgOK'
      BY <1>6, <2>1 DEF InitHeap, InitFails
    <3>3. PtrOK'
      BY <1>6, <2>1 DEF InitHeap, InitFails
    <3> QED BY <3>1, <3>2, <3>3
  <2>2. ASSUME NEW h \in Heaps \ live,
               heap' = [heap EXCEPT ![ctx[t]] = h], live' = live \cup {h},
               arena' = [arena EXCEPT ![h] = Blank], PwEnter(t),
               Goto(t, "parse"), UNCHANGED state
        PROVE  TypeInv'
    <3>1. Blank \in Content
      BY DEF Blank, Content, Versions
    <3>2. pwIn' \in SUBSET Threads /\ pwRaced' \in SUBSET pwIn' /\ unread' \in SUBSET Threads
      BY <2>2, PwTypes
    <3>7. TypeOK'
      BY <1>6, <2>2, <3>1, <3>2 DEF InitHeap
    <3>8. ArgOK'
      BY <1>6, <2>2, <3>1, <3>2 DEF InitHeap
    <3>9. PtrOK'
      BY <1>6, <2>2, <3>1, <3>2 DEF InitHeap
    <3> QED
      BY <3>7, <3>8, <3>9
  <2> QED
    BY <1>6, <2>1, <2>2 DEF InitHeap
<1>7. ASSUME NEW t \in Threads, InitParse(t) PROVE TypeInv'
  <2>1. PICK w \in PwFinds(t, get_uid(ctx[t])) :
            arena' = [arena EXCEPT ![heap[ctx[t]]] = [conf |-> snap[t], who |-> w]]
    BY <1>7 DEF InitParse
  <2>2. w \in Uids \cup {NULL}
    BY DEF PwFinds
  <2>3. [conf |-> snap[t], who |-> w] \in Content
    BY <2>2 DEF Content
  <2>4. pwIn' \in SUBSET Threads /\ pwRaced' \in SUBSET pwIn' /\ unread' \in SUBSET Threads
    BY <1>7, PwTypes DEF InitParse
  <2>7. TypeOK'
    BY <1>7, <2>1, <2>3, <2>4 DEF InitParse
  <2>8. ArgOK'
    BY <1>7, <2>1, <2>3, <2>4 DEF InitParse
  <2>9. PtrOK'
    BY <1>7, <2>1, <2>3, <2>4 DEF InitParse
  <2> QED
    BY <2>7, <2>8, <2>9
<1>8. ASSUME NEW t \in Threads, InitPublish(t) PROVE TypeInv'
  BY <1>8 DEF InitPublish
<1>9. ASSUME NEW t \in Threads, Fetch(t) PROVE TypeInv'
  BY <1>9 DEF Fetch
<1>10. ASSUME NEW t \in Threads, ReadNothing(t) \/ ReadValue(t) PROVE TypeInv'
  <2>1. CASE ReadNothing(t)
    BY <2>1, AnswerTypes DEF ReadNothing
  <2>2. CASE ReadValue(t)
    <3>1. arena[ptr[t]] \in Content /\ arg[t] \in Vars
      BY <2>2 DEF ReadValue
    <3>2. Value(arg[t], arena[ptr[t]]) \in Answers /\ NoMemory \in Answers
      BY <3>1, AnswerTypes
    <3>3. PICK a \in Answers : Answer(t, a)
      BY <2>2, <3>2 DEF ReadValue
    <3>4. TypeOK'
      BY <2>2, <3>3 DEF ReadValue
    <3>5. ArgOK'
      BY <2>2 DEF ReadValue
    <3>6. PtrOK'
      BY <2>2 DEF ReadValue
    <3> QED
      BY <3>4, <3>5, <3>6
  <2> QED
    BY <1>10, <2>1, <2>2
<1>11. ASSUME NEW t \in Threads, ReadName(t) PROVE TypeInv'
  BY <1>11 DEF ReadName, PwEnter
<1>12. ASSUME NEW t \in Threads, LookupName(t) PROVE TypeInv'
  BY <1>12, AnswerTypes DEF LookupName, PwLeave, PwFinds
<1>13. ASSUME NEW t \in Threads, GetUser(t) PROVE TypeInv'
  BY <1>13, AnswerTypes DEF GetUser, get_uid
<1>14. ASSUME NEW t \in Threads, Reset(t) PROVE TypeInv'
  BY <1>14, AnswerTypes DEF Reset, Drop, Dropped
<1>15. ASSUME NEW t \in Threads, SetUser(t) PROVE TypeInv'
  <2>1. CASE Answer(t, Status(TRUE)) /\ Goto(t, "unlock") /\ UNCHANGED pwVars
    <3>7. TypeOK'
      BY <1>15, <2>1, AnswerTypes DEF SetUser
    <3>8. ArgOK'
      BY <1>15, <2>1, AnswerTypes DEF SetUser
    <3>9. PtrOK'
      BY <1>15, <2>1, AnswerTypes DEF SetUser
    <3> QED
      BY <3>7, <3>8, <3>9
  <2>2. CASE /\ user[ctx[t]] # arg[t] /\ arg[t] = NotSet
             /\ Goto(t, "switch") /\ UNCHANGED <<ans, pwVars>>
    <3>7. TypeOK'
      BY <1>15, <2>2 DEF SetUser
    <3>8. ArgOK'
      BY <1>15, <2>2 DEF SetUser
    <3>9. PtrOK'
      BY <1>15, <2>2 DEF SetUser
    <3> QED
      BY <3>7, <3>8, <3>9
  <2>3. CASE /\ user[ctx[t]] # arg[t] /\ arg[t] # NotSet
             /\ PwEnter(t) /\ Goto(t, "check") /\ UNCHANGED ans
    <3>1. pwIn' \in SUBSET Threads /\ pwRaced' \in SUBSET pwIn' /\ unread' \in SUBSET Threads
      BY <2>3, PwTypes
    <3>7. TypeOK'
      BY <1>15, <2>3, <3>1 DEF SetUser
    <3>8. ArgOK'
      BY <1>15, <2>3, <3>1 DEF SetUser
    <3>9. PtrOK'
      BY <1>15, <2>3, <3>1 DEF SetUser
    <3> QED
      BY <3>7, <3>8, <3>9
  <2> QED
    BY <1>15, <2>1, <2>2, <2>3 DEF SetUser
<1>16. ASSUME NEW t \in Threads, CheckUser(t) PROVE TypeInv'
  <2>1. \/ Answer(t, Status(FALSE)) /\ Goto(t, "unlock")
        \/ Goto(t, "switch") /\ UNCHANGED ans
    BY <1>16 DEF CheckUser
  <2>2. pwIn' \in SUBSET Threads /\ pwRaced' \in SUBSET pwIn' /\ unread' \in SUBSET Threads
    BY <1>16, PwTypes DEF CheckUser
  <2>3. CASE Answer(t, Status(FALSE)) /\ Goto(t, "unlock")
    <3>7. TypeOK'
      BY <1>16, <2>2, <2>3, AnswerTypes DEF CheckUser
    <3>8. ArgOK'
      BY <1>16, <2>2, <2>3, AnswerTypes DEF CheckUser
    <3>9. PtrOK'
      BY <1>16, <2>2, <2>3, AnswerTypes DEF CheckUser
    <3> QED
      BY <3>7, <3>8, <3>9
  <2>4. CASE Goto(t, "switch") /\ UNCHANGED ans
    <3>7. TypeOK'
      BY <1>16, <2>2, <2>4 DEF CheckUser
    <3>8. ArgOK'
      BY <1>16, <2>2, <2>4 DEF CheckUser
    <3>9. PtrOK'
      BY <1>16, <2>2, <2>4 DEF CheckUser
    <3> QED
      BY <3>7, <3>8, <3>9
  <2> QED
    BY <2>1, <2>3, <2>4
<1>17. ASSUME NEW t \in Threads, SwitchUser(t) PROVE TypeInv'
  <2>1. TypeOK'
    <3>1. user' \in [Contexts -> Uids \cup {NotSet}]
      BY <1>17 DEF SwitchUser
    <3>2. ans' \in [Threads -> Answers]
      BY <1>17, AnswerTypes DEF SwitchUser
    <3>3. floor' \in [Contexts -> Versions] /\ uids' \in [Contexts -> SUBSET Uids]
      BY <1>17 DEF SwitchUser, Drop, Dropped
    <3>4. live' \in SUBSET Heaps
          /\ state' \in [Contexts -> {"RESET", "ERROR", "VALID", "absent"}]
      BY <1>17 DEF SwitchUser, Drop
    <3> QED
      BY <1>17, <3>1, <3>2, <3>3, <3>4 DEF SwitchUser
  <2>2. ArgOK'
    BY <1>17 DEF SwitchUser, Drop, Dropped
  <2>3. PtrOK'
    BY <1>17 DEF SwitchUser, Drop, Dropped
  <2> QED
    BY <2>1, <2>2, <2>3
<1>18. ASSUME NEW c \in Contexts, Create(c) \/ Destroy(c) PROVE TypeInv'
  <2>1. CASE Create(c)
    BY <2>1 DEF Create, Dropped
  <2>2. CASE Destroy(c)
    BY <2>2 DEF Destroy
  <2> QED
    BY <1>18, <2>1, <2>2
<1>19. CASE Environment
  <2>1. passwd' \in SUBSET Uids /\ passwds' \in SUBSET SUBSET Uids
    <3>1. CASE UNCHANGED <<passwd, passwds>>
      BY <3>1
    <3>2. CASE EditPasswd
      <4>1. passwd' \in SUBSET Uids
        BY <3>2 DEF EditPasswd
      <4>2. passwds' = passwds \cup {passwd'}
        BY <3>2 DEF EditPasswd
      <4> QED
        BY <4>1, <4>2
    <3> QED
      BY <1>19, <3>1, <3>2 DEF Environment, SetProcessUid, Edit
  <2>2. file' \in Versions /\ procUid' \in Uids /\ uids' \in [Contexts -> SUBSET Uids]
    BY <1>19 DEF Environment, SetProcessUid, Edit, EditPasswd, Versions
  <2> QED
    BY <1>19, <2>1, <2>2 DEF Environment
<1>20. CASE UNCHANGED vars
  BY <1>20 DEF vars
<1> QED
  BY <1>1, <1>2, <1>3, <1>4, <1>5, <1>6, <1>7, <1>8, <1>9, <1>10, <1>11, <1>12,
     <1>13, <1>14, <1>15, <1>16, <1>17, <1>18, <1>19, <1>20
  DEF Next, Work, Get, Initialize, Change

\* Every variable keeps its type.
THEOREM TypeCorrect == Spec => []TypeOK
<1>1. TypeInv => TypeOK
  BY DEF TypeInv
<1> QED
  BY <1>1, TypeInit, TypeStep, PTL DEF Spec

-----------------------------------------------------------------------------
(* The mutex of a context is held exactly by the thread that is between the  *)
(* lock and the unlock of a call on it, and calls are on existing contexts.  *)
LockInv ==
    /\ \A t \in Threads : Critical(t) => mutex[ctx[t]] = t
    /\ \A c \in Contexts : mutex[c] # NULL =>
          Critical(mutex[c]) /\ ctx[mutex[c]] = c
    /\ \A t \in Threads : pc[t] # "idle" => state[ctx[t]] # "absent"

\* The part of mutual exclusion the other invariants use.
LEMMA Exclusion ==
    ASSUME LockInv, NEW s \in Threads, NEW t \in Threads,
           Critical(s), Critical(t), ctx[s] = ctx[t]
    PROVE  s = t
  BY DEF LockInv

\* Between the lock and the unlock a thread keeps the mutex and its call, and
\* touches only its own context and its own locals.
Inside(t) ==
    /\ Critical(t)
    /\ \E l \in Labels \ {"idle", "lock"} : pc' = [pc EXCEPT ![t] = l]
    /\ UNCHANGED <<op, ctx, arg, mutex>>
    /\ state'[ctx[t]] # "absent" \/ state' = state
    /\ \A c \in Contexts \ {ctx[t]} :
          /\ state'[c] = state[c] /\ heap'[c] = heap[c] /\ user'[c] = user[c]
          /\ values'[c] = values[c] /\ floor'[c] = floor[c] /\ uids'[c] = uids[c]
    /\ \A s \in Threads \ {t} :
          ptr'[s] = ptr[s] /\ snap'[s] = snap[s] /\ ans'[s] = ans[s]

\* What a call does between its lock and its unlock stays in its own context.
LEMMA WorkInside ==
    ASSUME TypeOK, ArgOK, NEW t \in Threads, Get(t) \/ GetUser(t) \/ Change(t)
    PROVE  Inside(t)
<1> USE DEF TypeOK, Inside, Critical, Labels, Ops, ctxVars, heapVars, callVars,
        history, Goto, Answer
<1>1. CASE GetLock(t)
  BY <1>1 DEF GetLock
<1>2. CASE InitOpen(t)
  BY <1>2 DEF InitOpen, InitFails
<1>3. CASE InitHeap(t)
  BY <1>3 DEF InitHeap, InitFails
<1>4. CASE InitParse(t)
  BY <1>4 DEF InitParse
<1>5. CASE InitPublish(t)
  BY <1>5 DEF InitPublish
<1>6. CASE Fetch(t)
  BY <1>6 DEF Fetch
<1>7. CASE ReadNothing(t)
  BY <1>7 DEF ReadNothing
<1>8. CASE ReadValue(t)
  BY <1>8 DEF ReadValue
<1>9. CASE ReadName(t)
  BY <1>9 DEF ReadName
<1>10. CASE LookupName(t)
  BY <1>10 DEF LookupName
<1>11. CASE GetUser(t)
  BY <1>11 DEF GetUser
<1>12. CASE Reset(t)
  BY <1>12 DEF Reset, Drop, Dropped
<1>13. CASE SetUser(t)
  BY <1>13 DEF SetUser
<1>14. CASE CheckUser(t)
  BY <1>14 DEF CheckUser
<1>15. CASE SwitchUser(t)
  BY <1>15 DEF SwitchUser, Drop, Dropped
<1> QED
  BY <1>1, <1>2, <1>3, <1>4, <1>5, <1>6, <1>7, <1>8, <1>9, <1>10, <1>11, <1>12,
     <1>13, <1>14, <1>15
  DEF Get, Initialize, Change

\* The locks and unlocks of shared-api.c keep mutual exclusion.
LEMMA LockStep == TypeInv /\ LockInv /\ [Next]_vars => LockInv'
<1> SUFFICES ASSUME TypeInv, LockInv, [Next]_vars PROVE LockInv'
  OBVIOUS
<1> USE ContextAssumption DEF TypeInv, TypeOK, LockInv, Critical,
        envVars, ctxVars, heapVars, pwVars, callVars, history, Goto
<1>1. ASSUME NEW t \in Threads, Call(t) PROVE LockInv'
  BY <1>1 DEF Call
<1>2. ASSUME NEW t \in Threads, Lock(t) PROVE LockInv'
  <2>1. PICK l \in Ops : /\ l # "idle" /\ l # "lock"
                         /\ pc' = [pc EXCEPT ![t] = l]
    BY <1>2 DEF Lock, Ops
  <2>2. /\ mutex[ctx[t]] = NULL /\ pc[t] = "lock"
        /\ mutex' = [mutex EXCEPT ![ctx[t]] = t] /\ UNCHANGED <<ctx, state>>
    BY <1>2 DEF Lock
  <2>3. \A s \in Threads : Critical(s)' <=> Critical(s) \/ s = t
    BY <2>1
  <2>4. ASSUME NEW s \in Threads, Critical(s)' PROVE (mutex[ctx[s]] = s)'
    <3>1. CASE s = t
      BY <2>2, <3>1
    <3>2. CASE s # t
      <4>1. mutex[ctx[s]] = s
        BY <2>3, <2>4, <3>2
      <4> QED
        BY <2>2, <3>2, <4>1
    <3> QED
      BY <3>1, <3>2
  <2>5. \A c \in Contexts : (mutex[c] # NULL => Critical(mutex[c]) /\ ctx[mutex[c]] = c)'
    BY <2>2, <2>3
  <2>6. \A s \in Threads : (pc[s] # "idle" => state[ctx[s]] # "absent")'
    BY <2>1, <2>2
  <2> QED
    BY <2>4, <2>5, <2>6
<1>3. ASSUME NEW t \in Threads, Unlock(t) PROVE LockInv'
  <2>1. /\ pc[t] = "unlock" /\ pc' = [pc EXCEPT ![t] = "idle"]
        /\ mutex' = [mutex EXCEPT ![ctx[t]] = NULL]
        /\ ctx' = [ctx EXCEPT ![t] = Global] /\ UNCHANGED state
    BY <1>3 DEF Unlock
  <2>2. \A s \in Threads \ {t} : Critical(s) => ctx[s] # ctx[t]
    BY <2>1
  <2>3. \A s \in Threads : (Critical(s) => mutex[ctx[s]] = s)'
    BY <2>1, <2>2
  <2>4. \A c \in Contexts : (mutex[c] # NULL => Critical(mutex[c]) /\ ctx[mutex[c]] = c)'
    BY <2>1
  <2>5. \A s \in Threads : (pc[s] # "idle" => state[ctx[s]] # "absent")'
    BY <2>1
  <2> QED
    BY <2>3, <2>4, <2>5
<1>4. ASSUME NEW t \in Threads, Get(t) \/ GetUser(t) \/ Change(t) PROVE LockInv'
  <2>1. Inside(t)
    BY <1>4, WorkInside
  <2> QED
    BY <2>1 DEF Inside
<1>5. ASSUME NEW c \in Contexts, Create(c) PROVE LockInv'
  BY <1>5 DEF Create
<1>6. ASSUME NEW c \in Contexts, Destroy(c) PROVE LockInv'
  BY <1>6 DEF Destroy
<1>7. CASE Environment
  BY <1>7 DEF Environment, SetProcessUid
<1>8. CASE UNCHANGED vars
  BY <1>8 DEF vars
<1> QED
  BY <1>1, <1>2, <1>3, <1>4, <1>5, <1>6, <1>7, <1>8 DEF Next, Work

-----------------------------------------------------------------------------
(* Where a thread is in its call tells the state of its context, the values  *)
(* of a VALID context point into its heap, and so does a fetched value.      *)
CtrlOf(t) ==
    /\ pc[t] \in {"open", "create", "parse", "publish"} => state[ctx[t]] = "RESET"
    /\ pc[t] \in {"create", "parse", "publish"} =>
          \A v \in Vars : values[ctx[t]][v] = NULL
    /\ pc[t] = "fetch" => state[ctx[t]] \in {"VALID", "ERROR"}
    /\ pc[t] \in {"value", "lookup"} /\ ptr[t] # NULL =>
          state[ctx[t]] = "VALID" /\ ptr[t] = heap[ctx[t]]

ValuesOf(c) == state[c] = "VALID" => \A v \in Vars : values[c][v] \in {NULL, heap[c]}

CtrlInv == (\A t \in Threads : CtrlOf(t)) /\ (\A c \in Contexts : ValuesOf(c))

\* A step inside a call preserves CtrlInv when it does so for its own thread
\* and its own context.
LEMMA CtrlOthers ==
    ASSUME TypeInv, LockInv, CtrlInv, NEW t \in Threads, Inside(t),
           CtrlOf(t)', ValuesOf(ctx[t])'
    PROVE  CtrlInv'
<1> USE DEF TypeInv, TypeOK
<1>1. ASSUME NEW s \in Threads PROVE CtrlOf(s)'
  <2>1. CASE s = t
    BY <2>1
  <2>2. CASE s # t /\ Critical(s)
    <3>1. ctx[s] # ctx[t]
      BY <2>2, Exclusion DEF Inside
    <3>2. /\ pc'[s] = pc[s] /\ ctx'[s] = ctx[s] /\ ptr'[s] = ptr[s]
          /\ state'[ctx[s]] = state[ctx[s]] /\ heap'[ctx[s]] = heap[ctx[s]]
          /\ values'[ctx[s]] = values[ctx[s]]
      BY <2>2, <3>1 DEF Inside
    <3> QED
      BY <3>2 DEF CtrlInv, CtrlOf
  <2>3. CASE s # t /\ ~Critical(s)
    BY <2>3 DEF Inside, Critical, CtrlOf
  <2> QED
    BY <2>1, <2>2, <2>3
<1>2. ASSUME NEW c \in Contexts PROVE ValuesOf(c)'
  BY DEF Inside, CtrlInv, ValuesOf
<1> QED
  BY <1>1, <1>2 DEF CtrlInv

\* get_lock and initialize() keep the state of a context in step with the place
\* of the thread that holds it.
LEMMA CtrlStep == TypeInv /\ LockInv /\ CtrlInv /\ [Next]_vars => CtrlInv'
<1> SUFFICES ASSUME TypeInv, LockInv, CtrlInv, [Next]_vars PROVE CtrlInv'
  OBVIOUS
<1> USE ContextAssumption DEF TypeInv, TypeOK, CtrlOf, ValuesOf,
        envVars, ctxVars, heapVars, pwVars, callVars, history, Goto
<1>1. ASSUME NEW t \in Threads, Call(t) PROVE CtrlInv'
  BY <1>1 DEF Call, CtrlInv
<1>2. ASSUME NEW t \in Threads, Lock(t) PROVE CtrlInv'
  <2>1. PICK l \in Ops : pc' = [pc EXCEPT ![t] = l]
    BY <1>2 DEF Lock, Ops
  <2>2. l \notin {"open", "create", "parse", "publish", "fetch", "value", "lookup"}
    BY DEF Ops
  <2> QED
    BY <1>2, <2>1, <2>2 DEF Lock, CtrlInv
<1>3. ASSUME NEW t \in Threads, Unlock(t) PROVE CtrlInv'
  BY <1>3 DEF Unlock, CtrlInv
<1>4. ASSUME NEW t \in Threads, Get(t) \/ GetUser(t) \/ Change(t) PROVE CtrlInv'
  <2>1. Inside(t) /\ CtrlOf(t) /\ ValuesOf(ctx[t])
    BY <1>4, WorkInside DEF CtrlInv
  <2> SUFFICES CtrlOf(t)' /\ ValuesOf(ctx[t])'
    BY <2>1, CtrlOthers
  <2>2. CASE GetLock(t)
    BY <2>1, <2>2 DEF GetLock, PtrOK, LockInv, Critical
  <2>3. CASE InitOpen(t)
    BY <2>1, <2>3 DEF InitOpen, InitFails, PtrOK
  <2>4. CASE InitHeap(t)
    BY <2>1, <2>4 DEF InitHeap, InitFails, PtrOK
  <2>5. CASE InitParse(t)
    BY <2>1, <2>5 DEF InitParse
  <2>6. CASE InitPublish(t)
    BY <2>1, <2>6 DEF InitPublish, PtrOK
  <2>7. CASE Fetch(t)
    BY <2>1, <2>7 DEF Fetch, ArgOK
  <2>8. CASE ReadNothing(t) \/ ReadValue(t) \/ ReadName(t) \/ LookupName(t) \/ GetUser(t)
    BY <2>1, <2>8 DEF ReadNothing, ReadValue, ReadName, LookupName, GetUser
  <2>9. CASE Reset(t)
    BY <2>1, <2>9 DEF Reset, Drop, Dropped
  <2>10. CASE SetUser(t)
    <3>1. \E l \in {"unlock", "switch", "check"} : pc' = [pc EXCEPT ![t] = l]
      BY <2>10 DEF SetUser
    <3> QED
      BY <2>1, <2>10, <3>1 DEF SetUser
  <2>11. CASE CheckUser(t)
    <3>1. pc' = [pc EXCEPT ![t] = "unlock"] \/ pc' = [pc EXCEPT ![t] = "switch"]
      BY <2>11 DEF CheckUser
    <3> QED
      BY <2>1, <2>11, <3>1 DEF CheckUser
  <2>12. CASE SwitchUser(t)
    BY <2>1, <2>12 DEF SwitchUser, Drop, Dropped
  <2> QED
    BY <1>4, <2>2, <2>3, <2>4, <2>5, <2>6, <2>7, <2>8, <2>9, <2>10, <2>11, <2>12
    DEF Get, Initialize, Change
<1>5. ASSUME NEW c \in Contexts, Create(c) \/ Destroy(c) PROVE CtrlInv'
  <2>1. \A t \in Threads : pc[t] # "idle" => ctx[t] # c
    BY <1>5 DEF Create, Destroy, LockInv
  <2>2. /\ UNCHANGED <<pc, ctx, ptr, heap, values>>
        /\ state'[c] # "VALID" /\ \A d \in Contexts \ {c} : state'[d] = state[d]
    BY <1>5 DEF Create, Destroy
  <2> QED
    BY <2>1, <2>2 DEF CtrlInv
<1>7. CASE Environment
  BY <1>7 DEF Environment, SetProcessUid, CtrlInv
<1>8. CASE UNCHANGED vars
  BY <1>8 DEF vars, CtrlInv
<1> QED
  BY <1>1, <1>2, <1>3, <1>4, <1>5, <1>7, <1>8 DEF Next, Work

-----------------------------------------------------------------------------
(* Ownership of the heaps.                                                   *)
Building(t) == pc[t] \in {"parse", "publish"}

\* Under the mutex a thread alone decides whether its context owns a heap.
LEMMA OwnsInside ==
    ASSUME TypeInv, LockInv, NEW t \in Threads, Inside(t),
           NEW c \in Contexts, c = ctx[t]
    PROVE  /\ Owns(c) <=> state[c] = "VALID" \/ Building(t)
           /\ Owns(c)' <=> state'[c] = "VALID" \/ Building(t)'
           /\ \A d \in Contexts \ {c} :
                 (Owns(d)' <=> Owns(d)) /\ heap'[d] = heap[d]
<1> USE DEF TypeInv, TypeOK, Owns, Building
<1>1. \A s \in Threads \ {t} : pc'[s] = pc[s] /\ ctx'[s] = ctx[s]
  BY DEF Inside
<1>2. \A s \in Threads : Building(s) /\ ctx[s] = c => s = t
  BY Exclusion DEF Inside, Critical
<1>3. Owns(c) <=> state[c] = "VALID" \/ Building(t)
  BY <1>2
<1>4. Owns(c)' <=> state'[c] = "VALID" \/ Building(t)'
  BY <1>1, <1>2 DEF Inside
<1>5. ASSUME NEW d \in Contexts \ {c} PROVE Owns(d)' <=> Owns(d)
  BY <1>1 DEF Inside
<1> QED
  BY <1>3, <1>4, <1>5 DEF Inside

\* HeapsOwned element by element.
HeapInv ==
    /\ \A c \in Contexts : Owns(c) => heap[c] \in live
    /\ \A h \in live : \E c \in Contexts : Owns(c) /\ heap[c] = h
    /\ \A c, d \in Contexts : Owns(c) /\ Owns(d) /\ heap[c] = heap[d] => c = d

\* Element by element, the mapped heaps are those of the contexts that own one.
LEMMA HeapInvOwned == HeapInv => HeapsOwned
<1> SUFFICES ASSUME HeapInv PROVE HeapsOwned
  OBVIOUS
<1> USE DEF HeapInv
<1>1. live \subseteq {heap[c] : c \in {d \in Contexts : Owns(d)}}
  OBVIOUS
<1>2. {heap[c] : c \in {d \in Contexts : Owns(d)}} \subseteq live
  OBVIOUS
<1> QED
  BY <1>1, <1>2 DEF HeapsOwned

\* Only a heap that is not mapped is taken, and only its owner destroys it.
LEMMA HeapStep ==
    TypeInv /\ LockInv /\ CtrlInv /\ HeapInv /\ [Next]_vars => HeapInv'
<1> SUFFICES ASSUME TypeInv, LockInv, CtrlInv, HeapInv, [Next]_vars
             PROVE  HeapInv'
  OBVIOUS
<1> USE DEF TypeInv, TypeOK, Building, envVars, ctxVars, heapVars, pwVars, callVars,
        history,
        Goto
<1>1. ASSUME NEW t \in Threads, Call(t) \/ Lock(t) \/ Unlock(t) PROVE HeapInv'
  <2>1. /\ UNCHANGED <<state, heap, live>>
        /\ \A s \in Threads : Building(s) <=> Building(s)'
        /\ \A s \in Threads : Building(s) => ctx'[s] = ctx[s]
    BY <1>1 DEF Call, Lock, Unlock, Ops
  <2>2. \A c \in Contexts : Owns(c)' <=> Owns(c)
    BY <2>1 DEF Owns
  <2> QED
    BY <2>1, <2>2 DEF HeapInv
<1>2. ASSUME NEW t \in Threads, Get(t) \/ GetUser(t) \/ Change(t) PROVE HeapInv'
  <2> SUFFICES ASSUME NEW c \in Contexts, c = ctx[t] PROVE HeapInv'
    OBVIOUS
  <2>1. Inside(t) /\ CtrlOf(t)
    BY <1>2, WorkInside DEF CtrlInv
  <2>2. /\ Owns(c) <=> state[c] = "VALID" \/ Building(t)
        /\ Owns(c)' <=> state'[c] = "VALID" \/ Building(t)'
        /\ \A d \in Contexts \ {c} : (Owns(d)' <=> Owns(d)) /\ heap'[d] = heap[d]
    BY <2>1, OwnsInside
  <2>3. ASSUME Owns(c)' <=> Owns(c), UNCHANGED <<heap, live>> PROVE HeapInv'
    <3>1. \A d \in Contexts : Owns(d)' <=> Owns(d)
      BY <2>2, <2>3
    <3> QED
      BY <3>1, <2>3 DEF HeapInv
  <2>4. CASE GetLock(t)
    BY <2>2, <2>3, <2>4 DEF GetLock
  <2>5. CASE InitOpen(t)
    BY <2>1, <2>2, <2>3, <2>5 DEF InitOpen, InitFails, CtrlOf
  <2>6. CASE InitHeap(t)
    <3>1. ~Owns(c)
      BY <2>1, <2>2, <2>6 DEF InitHeap, CtrlOf
    <3>2. CASE InitFails(t) /\ UNCHANGED <<heap, heapVars, pwVars>>
      BY <2>2, <2>3, <2>6, <3>1, <3>2 DEF InitHeap, InitFails
    <3>3. ASSUME NEW h \in Heaps \ live, heap' = [heap EXCEPT ![c] = h],
                 live' = live \cup {h}, Goto(t, "parse")
          PROVE  HeapInv'
      <4>1. Owns(c)' /\ heap'[c] = h
        BY <2>2, <3>3
      <4>2. \A d \in Contexts \ {c} :
               /\ Owns(d)' <=> Owns(d)
               /\ heap'[d] = heap[d]
               /\ Owns(d) => heap[d] \in live
        BY <2>2 DEF HeapInv
      <4>3. \A d \in Contexts : Owns(d)' => heap'[d] \in live'
        BY <3>3, <4>1, <4>2
      <4>4. ASSUME NEW g \in live' PROVE \E d \in Contexts : Owns(d)' /\ heap'[d] = g
        <5>1. CASE g = h
          BY <4>1, <5>1
        <5>2. CASE g \in live
          <6>1. PICK d \in Contexts : Owns(d) /\ heap[d] = g
            BY <5>2 DEF HeapInv
          <6>2. d # c
            BY <3>1, <6>1
          <6> QED
            BY <4>2, <6>1, <6>2
        <5> QED
          BY <3>3, <5>1, <5>2
      <4>5. ASSUME NEW d \in Contexts, NEW e \in Contexts, Owns(d)', Owns(e)',
                   heap'[d] = heap'[e]
            PROVE  d = e
        <5>1. CASE d # c /\ e # c
          BY <4>2, <4>5, <5>1 DEF HeapInv
        <5>2. CASE d = c \/ e = c
          BY <3>3, <4>1, <4>2, <4>5, <5>2
        <5> QED
          BY <5>1, <5>2
      <4> QED
        BY <4>3, <4>4, <4>5 DEF HeapInv
    <3> QED
      BY <2>6, <3>2, <3>3 DEF InitHeap
  <2>7. CASE InitParse(t)
    BY <2>2, <2>3, <2>7 DEF InitParse
  <2>8. CASE InitPublish(t)
    BY <2>2, <2>3, <2>8 DEF InitPublish
  <2>9. CASE Fetch(t) \/ GetUser(t)
    BY <2>2, <2>3, <2>9 DEF Fetch, GetUser
  <2>10. CASE ReadNothing(t) \/ ReadValue(t) \/ ReadName(t) \/ LookupName(t)
    BY <2>2, <2>3, <2>10 DEF ReadNothing, ReadValue, ReadName, LookupName
  <2>11. CASE SetUser(t)
    BY <2>2, <2>3, <2>11 DEF SetUser
  <2>12. CASE CheckUser(t)
    BY <2>2, <2>3, <2>12 DEF CheckUser
  <2>13. CASE Reset(t) \/ SwitchUser(t)
    <3>4. /\ live' = IF state[c] = "VALID" THEN live \ {heap[c]} ELSE live
          /\ heap' = heap /\ state'[c] = "RESET"
      BY <2>13 DEF Reset, SwitchUser, Drop
    <3>5. ~Building(t) /\ ~Building(t)'
      BY <2>13 DEF Reset, SwitchUser
    <3>6. state'[c] # "VALID"
      BY <3>4
    <3>7. ~Owns(c)'
      BY <2>2, <3>5, <3>6
    <3>1. /\ live' = IF state[c] = "VALID" THEN live \ {heap[c]} ELSE live
          /\ heap' = heap /\ ~Owns(c)' /\ ~Building(t)
      BY <3>4, <3>5, <3>7
    <3>2. /\ Owns(c) <=> state[c] = "VALID"
          /\ \A d \in Contexts \ {c} : Owns(d)' <=> Owns(d)
      BY <2>2, <3>1
    <3>8. CASE Owns(c)
      <4>1. live' = live \ {heap[c]}
        BY <3>1, <3>2, <3>8
      <4> QED
        BY <3>1, <3>2, <3>8, <4>1 DEF HeapInv
    <3>9. CASE ~Owns(c)
      <4>1. live' = live /\ \A d \in Contexts : Owns(d)' <=> Owns(d)
        BY <3>1, <3>2, <3>9
      <4> QED
        BY <3>1, <4>1 DEF HeapInv
    <3> QED
      BY <3>8, <3>9
  <2> QED
    BY <1>2, <2>4, <2>5, <2>6, <2>7, <2>8, <2>9, <2>10, <2>11, <2>12, <2>13
    DEF Get, Initialize, Change
<1>3. ASSUME NEW c \in Contexts, Create(c) \/ Destroy(c) PROVE HeapInv'
  <2>1. \A t \in Threads : pc[t] # "idle" => ctx[t] # c
    BY <1>3 DEF Create, Destroy, LockInv
  <2>2. /\ UNCHANGED <<pc, ctx, heap>>
        /\ live' = IF state[c] = "VALID" THEN live \ {heap[c]} ELSE live
        /\ state'[c] # "VALID" /\ \A d \in Contexts \ {c} : state'[d] = state[d]
    BY <1>3 DEF Create, Destroy
  <2>3. ~Owns(c)' /\ (Owns(c) <=> state[c] = "VALID")
    BY <2>1, <2>2 DEF Owns
  <2>4. \A d \in Contexts \ {c} : Owns(d)' <=> Owns(d)
    BY <2>2 DEF Owns
  <2> QED
    BY <2>2, <2>3, <2>4 DEF HeapInv
<1>4. CASE Environment
  BY <1>4 DEF Environment, SetProcessUid, HeapInv, Owns
<1>5. CASE UNCHANGED vars
  BY <1>5 DEF vars, HeapInv, Owns
<1> QED
  BY <1>1, <1>2, <1>3, <1>4, <1>5 DEF Next, Work

-----------------------------------------------------------------------------
(* A step inside a call writes no heap another context owns, nor that of its *)
(* own context once VALID.                                                   *)
LEMMA ArenaInside ==
    ASSUME TypeInv, LockInv, CtrlInv, HeapInv,
           NEW t \in Threads, Get(t) \/ GetUser(t) \/ Change(t)
    PROVE  /\ \A d \in Contexts \ {ctx[t]} : Owns(d) => arena'[heap[d]] = arena[heap[d]]
           /\ state[ctx[t]] = "VALID" => UNCHANGED arena
<1> USE DEF TypeInv, TypeOK, heapVars
<1>1. CtrlOf(t)
  BY DEF CtrlInv
<1>2. CASE InitHeap(t)
  <2>1. UNCHANGED arena \/ \E h \in Heaps \ live : arena' = [arena EXCEPT ![h] = Blank]
    BY <1>2 DEF InitHeap
  <2>2. \A d \in Contexts : Owns(d) => heap[d] \in live
    BY DEF HeapInv
  <2>3. state[ctx[t]] # "VALID"
    BY <1>1, <1>2 DEF CtrlOf, InitHeap
  <2> QED
    BY <2>1, <2>2, <2>3
<1>3. CASE InitParse(t)
  <2>1. Owns(ctx[t]) /\ state[ctx[t]] # "VALID"
    BY <1>1, <1>3 DEF InitParse, Owns, CtrlOf
  <2>2. \A d \in Contexts \ {ctx[t]} : Owns(d) => heap[d] \in Heaps /\ heap[d] # heap[ctx[t]]
    BY <2>1 DEF HeapInv
  <2>3. \E k : arena' = [arena EXCEPT ![heap[ctx[t]]] = k]
    BY <1>3 DEF InitParse
  <2> QED
    BY <2>1, <2>2, <2>3
<1>4. CASE UNCHANGED arena
  BY <1>4
<1> QED
  BY <1>2, <1>3, <1>4 DEF Get, Initialize, Change, GetLock, InitOpen, InitPublish, Fetch,
     ReadNothing, ReadValue, ReadName, LookupName, GetUser, Reset, SetUser, CheckUser,
     SwitchUser

\* What was evaluated, or is being evaluated, is not older than the floor.
FreshOf(t) ==
    /\ pc[t] \in {"create", "parse", "publish"} => floor[ctx[t]] <= snap[t]
    /\ pc[t] = "publish" => arena[heap[ctx[t]]].conf = snap[t]
    /\ ans[t].kind = "value" => pc[t] = "unlock" /\ ans[t].from.conf >= floor[ctx[t]]

FreshAt(c) == /\ floor[c] <= file
              /\ state[c] = "VALID" => arena[heap[c]].conf >= floor[c]

FreshInv == (\A t \in Threads : FreshOf(t)) /\ (\A c \in Contexts : FreshAt(c))

\* A step inside a call preserves FreshInv when it does so for its own thread
\* and its own context.
LEMMA FreshOthers ==
    ASSUME TypeInv, LockInv, FreshInv, NEW t \in Threads, Inside(t),
           \A d \in Contexts \ {ctx[t]} : Owns(d) => arena'[heap[d]] = arena[heap[d]],
           UNCHANGED file, FreshOf(t)', FreshAt(ctx[t])'
    PROVE  FreshInv'
<1> USE DEF TypeInv, TypeOK
<1>1. ASSUME NEW s \in Threads PROVE FreshOf(s)'
  <2>1. CASE s = t
    BY <2>1
  <2>2. CASE s # t /\ Critical(s)
    <3>1. ctx[s] # ctx[t]
      BY <2>2, Exclusion DEF Inside
    <3>2. /\ pc'[s] = pc[s] /\ ctx'[s] = ctx[s] /\ snap'[s] = snap[s] /\ ans'[s] = ans[s]
          /\ heap'[ctx[s]] = heap[ctx[s]] /\ floor'[ctx[s]] = floor[ctx[s]]
      BY <2>2, <3>1 DEF Inside
    <3>3. pc[s] = "publish" => arena'[heap[ctx[s]]] = arena[heap[ctx[s]]]
      BY <3>1 DEF Owns
    <3> QED
      BY <3>2, <3>3 DEF FreshInv, FreshOf
  <2>3. CASE s # t /\ ~Critical(s)
    BY <2>3 DEF Inside, Critical, FreshOf, FreshInv
  <2> QED
    BY <2>1, <2>2, <2>3
<1>2. ASSUME NEW c \in Contexts PROVE FreshAt(c)'
  <2>1. CASE c = ctx[t]
    <3>1. ctx'[t] = c
      BY <2>1 DEF Inside
    <3> QED
      BY <3>1 DEF FreshAt
  <2>2. CASE c # ctx[t]
    <3>1. state'[c] = state[c] /\ heap'[c] = heap[c] /\ floor'[c] = floor[c]
      BY <2>2 DEF Inside
    <3>2. state[c] = "VALID" => arena'[heap[c]] = arena[heap[c]]
      BY <2>2 DEF Owns
    <3>3. FreshAt(c)
      BY DEF FreshInv
    <3> QED
      BY <3>1, <3>2, <3>3 DEF FreshAt
  <2> QED
    BY <2>1, <2>2
<1> QED
  BY <1>1, <1>2 DEF FreshInv

\* The version a context was evaluated from, and the one a call reads or is
\* answered, is never older than the last drop of the context.
LEMMA FreshStep ==
    TypeInv /\ LockInv /\ CtrlInv /\ HeapInv /\ FreshInv /\ [Next]_vars => FreshInv'
<1> SUFFICES ASSUME TypeInv, LockInv, CtrlInv, HeapInv, FreshInv, [Next]_vars
             PROVE  FreshInv'
  OBVIOUS
<1> USE ContextAssumption DEF TypeInv, TypeOK, FreshOf, FreshAt,
        envVars, ctxVars, heapVars, pwVars, callVars, history, Goto, Versions
<1>1. ASSUME NEW t \in Threads, Call(t) PROVE FreshInv'
  BY <1>1 DEF Call, FreshInv
<1>2. ASSUME NEW t \in Threads, Lock(t) PROVE FreshInv'
  <2>1. PICK l \in Ops : pc' = [pc EXCEPT ![t] = l]
    BY <1>2 DEF Lock, Ops
  <2>2. l \notin {"create", "parse", "publish"}
    BY DEF Ops
  <2> QED
    BY <1>2, <2>1, <2>2 DEF Lock, FreshInv
<1>3. ASSUME NEW t \in Threads, Unlock(t) PROVE FreshInv'
  BY <1>3 DEF Unlock, FreshInv, Answer, NoAnswer
<1>4. ASSUME NEW t \in Threads, Get(t) \/ GetUser(t) \/ Change(t) PROVE FreshInv'
  <2>1. /\ Inside(t) /\ CtrlOf(t) /\ FreshOf(t) /\ FreshAt(ctx[t])
        /\ \A d \in Contexts \ {ctx[t]} : Owns(d) => arena'[heap[d]] = arena[heap[d]]
    BY <1>4, WorkInside, ArenaInside DEF CtrlInv, FreshInv
  <2>2. UNCHANGED file
    BY <1>4 DEF Get, Initialize, Change, GetLock, InitOpen, InitHeap, InitParse, InitPublish,
       Fetch, ReadNothing, ReadValue, ReadName, LookupName, GetUser, Reset, SetUser,
       CheckUser, SwitchUser
  <2> SUFFICES FreshOf(t)' /\ FreshAt(ctx[t])'
    BY <2>1, <2>2, FreshOthers
  <2>3. CASE GetLock(t) \/ Fetch(t) \/ ReadName(t)
    BY <2>1, <2>3 DEF GetLock, Fetch, ReadName
  <2>4. CASE InitOpen(t)
    BY <2>1, <2>4 DEF InitOpen, InitFails, CtrlOf
  <2>5. CASE InitHeap(t)
    <3>1. state'[ctx[t]] # "VALID" /\ pc'[t] \in {"parse", "fetch"}
      BY <2>1, <2>5 DEF InitHeap, InitFails, CtrlOf
    <3> QED
      BY <2>1, <2>5, <3>1 DEF InitHeap
  <2>6. CASE InitParse(t)
    <3>1. heap[ctx[t]] \in Heaps
      BY <2>6 DEF InitParse, HeapInv, Owns
    <3>2. arena'[heap[ctx[t]]].conf = snap[t]
      BY <2>6, <3>1 DEF InitParse
    <3> QED
      BY <2>1, <2>6, <3>2 DEF InitParse, CtrlOf
  <2>7. CASE InitPublish(t)
    BY <2>1, <2>7 DEF InitPublish
  <2>8. CASE ReadNothing(t)
    BY <2>1, <2>8 DEF ReadNothing, Answer, Uid, Nothing
  <2>9. CASE ReadValue(t)
    BY <2>1, <2>9 DEF ReadValue, Answer, Value, NoMemory, CtrlOf
  <2>10. CASE LookupName(t) \/ GetUser(t)
    BY <2>1, <2>10 DEF LookupName, GetUser, Answer, Uid, User
  <2>11. CASE Reset(t)
    BY <2>1, <2>11 DEF Reset, Drop, Dropped
  <2>12. CASE SetUser(t)
    BY <2>1, <2>12 DEF SetUser, Answer, Status
  <2>13. CASE CheckUser(t)
    BY <2>1, <2>13 DEF CheckUser, Answer, Status
  <2>14. CASE SwitchUser(t)
    BY <2>1, <2>14 DEF SwitchUser, Drop, Dropped, Answer, Status
  <2> QED
    BY <1>4, <2>3, <2>4, <2>5, <2>6, <2>7, <2>8, <2>9, <2>10, <2>11, <2>12, <2>13, <2>14
    DEF Get, Initialize, Change
<1>5. ASSUME NEW c \in Contexts, Create(c) \/ Destroy(c) PROVE FreshInv'
  <2>1. \A t \in Threads : pc[t] # "idle" => ctx[t] # c
    BY <1>5 DEF Create, Destroy, LockInv
  <2>2. /\ UNCHANGED <<pc, ctx, snap, ans, heap, arena, file>>
        /\ state'[c] # "VALID" /\ \A d \in Contexts \ {c} : state'[d] = state[d]
        /\ floor'[c] \in {file, floor[c]} /\ \A d \in Contexts \ {c} : floor'[d] = floor[d]
    BY <1>5 DEF Create, Dropped, Destroy
  <2>3. ASSUME NEW t \in Threads PROVE FreshOf(t)'
    <3>1. CASE ctx[t] = c
      BY <2>1, <2>2, <3>1 DEF FreshInv
    <3>2. CASE ctx[t] # c
      BY <2>2, <3>2 DEF FreshInv
    <3> QED
      BY <3>1, <3>2
  <2>4. ASSUME NEW d \in Contexts PROVE FreshAt(d)'
    <3>1. FreshAt(d)
      BY DEF FreshInv
    <3>2. CASE d = c
      BY <2>2, <3>1, <3>2
    <3>3. CASE d # c
      <4>1. state'[d] = state[d] /\ floor'[d] = floor[d]
        BY <2>2, <3>3
      <4> QED
        BY <2>2, <3>1, <4>1
    <3> QED
      BY <3>2, <3>3
  <2> QED
    BY <2>3, <2>4 DEF FreshInv
<1>6. CASE Environment
  BY <1>6 DEF Environment, SetProcessUid, Edit, EditPasswd, FreshInv
<1>7. CASE UNCHANGED vars
  BY <1>7 DEF vars, FreshInv
<1> QED
  BY <1>1, <1>2, <1>3, <1>4, <1>5, <1>6, <1>7 DEF Next, Work

-----------------------------------------------------------------------------
(* The inductive invariant, and what it gives.                               *)
IInv == TypeInv /\ LockInv /\ CtrlInv /\ HeapInv /\ FreshInv

\* The inductive invariant holds when the process begins.
LEMMA IInvInit == Init => IInv
<1> SUFFICES ASSUME Init PROVE IInv
  OBVIOUS
<1>1. TypeInv
  BY TypeInit
<1>2. LockInv /\ CtrlInv /\ HeapInv
  BY ContextAssumption
  DEF Init, LockInv, Critical, CtrlInv, CtrlOf, ValuesOf, HeapInv, Owns
<1>3. FreshInv
  BY ContextAssumption DEF Init, FreshInv, FreshOf, FreshAt, NoAnswer
<1> QED
  BY <1>1, <1>2, <1>3 DEF IInv

\* Every step preserves the inductive invariant.
LEMMA IInvStep == IInv /\ [Next]_vars => IInv'
  BY TypeStep, LockStep, CtrlStep, HeapStep, FreshStep DEF IInv

\* The inductive invariant holds in every reachable state.
LEMMA IInvAlways == Spec => []IInv
  BY IInvInit, IInvStep, PTL DEF Spec

\* No call reads a value in a heap that was unmapped, nor evaluates into one,
\* for any number of threads and contexts.
THEOREM NoUseAfterUnmapAlways == Spec => []NoUseAfterUnmap
<1>1. ASSUME IInv PROVE NoUseAfterUnmap
  <2> SUFFICES ASSUME NEW t \in Threads
               PROVE  /\ pc[t] \in {"value", "lookup"} /\ ptr[t] # NULL =>
                            ptr[t] = heap[ctx[t]] /\ ptr[t] \in live
                      /\ pc[t] \in {"parse", "publish"} => heap[ctx[t]] \in live
    BY DEF NoUseAfterUnmap
  <2>1. CtrlOf(t) /\ ctx[t] \in Contexts
    BY <1>1 DEF IInv, CtrlInv, TypeInv, TypeOK
  <2>2. Owns(ctx[t]) => heap[ctx[t]] \in live
    BY <1>1, <2>1 DEF IInv, HeapInv
  <2> QED
    BY <2>1, <2>2 DEF CtrlOf, Owns
<1> QED
  BY <1>1, IInvAlways, PTL

\* No heap leaks, is unmapped twice or is shared by two contexts.
THEOREM HeapsOwnedAlways == Spec => []HeapsOwned
  BY HeapInvOwned, IInvAlways, PTL DEF IInv

\* After a reset or a change of user no call answers an older value.
THEOREM FreshAnswerAlways == Spec => []FreshAnswer
<1>1. IInv => FreshAnswer
  BY DEF IInv, FreshInv, FreshOf, FreshAnswer
<1> QED
  BY <1>1, IInvAlways, PTL

\* The content of a VALID context does not change while it stays VALID.
THEOREM ValuesStableAlways == Spec => ValuesStable
<1>1. ASSUME IInv, [Next]_vars, NEW c \in Contexts,
             state[c] = "VALID", state'[c] = "VALID"
      PROVE  /\ heap'[c] = heap[c] /\ values'[c] = values[c]
             /\ arena'[heap[c]] = arena[heap[c]]
  <2> USE DEF envVars, ctxVars, heapVars, pwVars, callVars, history
  <2>1. ASSUME NEW t \in Threads, Get(t) \/ GetUser(t) \/ Change(t), ctx[t] = c
        PROVE  UNCHANGED <<heap, values, arena>>
    <3>1. CtrlOf(t) /\ UNCHANGED arena
      BY <1>1, <2>1, ArenaInside DEF IInv, CtrlInv
    <3> QED
      BY <1>1, <2>1, <3>1 DEF CtrlOf, Get, Initialize, Change, GetLock, InitOpen, InitHeap,
         InitParse, InitPublish, Fetch, ReadNothing, ReadValue, ReadName, LookupName,
         GetUser, Reset, SetUser, CheckUser, SwitchUser, Drop, Dropped
  <2>2. ASSUME NEW t \in Threads, Get(t) \/ GetUser(t) \/ Change(t), ctx[t] # c
        PROVE  /\ heap'[c] = heap[c] /\ values'[c] = values[c]
               /\ arena'[heap[c]] = arena[heap[c]]
    <3>1. Inside(t) /\ Owns(c)
      BY <1>1, <2>2, WorkInside DEF IInv, TypeInv, Owns
    <3>2. arena'[heap[c]] = arena[heap[c]]
      BY <1>1, <2>2, <3>1, ArenaInside DEF IInv
    <3> QED
      BY <2>2, <3>1, <3>2 DEF Inside
  <2>3. ASSUME NEW t \in Threads, Call(t) \/ Lock(t) \/ Unlock(t)
        PROVE  UNCHANGED <<heap, values, arena>>
    BY <2>3 DEF Call, Lock, Unlock
  <2>4. ASSUME NEW d \in Contexts, Create(d) \/ Destroy(d)
        PROVE  UNCHANGED <<heap, values, arena>>
    BY <2>4 DEF Create, Destroy
  <2>5. CASE Environment \/ UNCHANGED vars
    BY <2>5 DEF Environment, SetProcessUid, vars
  <2> QED
    BY <1>1, <2>1, <2>2, <2>3, <2>4, <2>5 DEF Next, Work
<1>2. IInv /\ [Next]_vars => [\A c \in Contexts :
          state[c] = "VALID" /\ state'[c] = "VALID"
              => /\ heap'[c] = heap[c] /\ values'[c] = values[c]
                 /\ arena'[heap[c]] = arena[heap[c]]]_vars
  BY <1>1
<1> QED
  BY <1>2, IInvAlways, PTL DEF Spec, ValuesStable

-----------------------------------------------------------------------------
(* What depends on the lookups of passwd.c.  They are right when no two of   *)
(* them overlap (see PasswdCursor): the theorems below say so of any number  *)
(* of contexts, and that the calls on one context never overlap.             *)
NoRace == pwRaced = {}

OneContext == Contexts = {Global}

\* Who is inside passwd.c.
PwInv == /\ \A t \in pwIn : pc[t] \in {"parse", "lookup", "check"}
         /\ pwRaced = {}

\* With one context, its mutex keeps the lookups apart.
LEMMA PwStep ==
    OneContext /\ TypeInv /\ LockInv /\ PwInv /\ [Next]_vars => PwInv'
<1> SUFFICES ASSUME OneContext, TypeInv, LockInv, PwInv, [Next]_vars PROVE PwInv'
  OBVIOUS
<1> USE DEF TypeInv, TypeOK, PwInv, Goto, pwVars
<1>1. ASSUME NEW s \in Threads, NEW t \in Threads, Critical(s), Critical(t)
      PROVE  s = t
  BY <1>1, Exclusion DEF OneContext
<1>2. ASSUME NEW t \in Threads, PwEnter(t), Critical(t),
             pc[t] \notin {"parse", "lookup", "check"},
             NEW l \in {"parse", "lookup", "check"}, Goto(t, l)
      PROVE  PwInv'
  <2>1. pwIn = {}
    BY <1>1, <1>2 DEF Critical
  <2> QED
    BY <1>2, <2>1 DEF PwEnter
<1>3. ASSUME NEW t \in Threads, PwLeave(t), NEW l \in Labels, Goto(t, l)
      PROVE  PwInv'
  BY <1>3 DEF PwLeave
<1>4. ASSUME NEW t \in Threads, UNCHANGED <<pwIn, pwRaced>>,
             pc[t] \notin {"parse", "lookup", "check"},
             NEW l \in Labels, Goto(t, l)
      PROVE  PwInv'
  BY <1>4
<1> HIDE DEF PwInv
<1>5. ASSUME NEW t \in Threads, Get(t) \/ GetUser(t) \/ Change(t) \/ Unlock(t)
      PROVE  PwInv'
  <2> USE DEF Labels, Critical
  <2>1. CASE GetLock(t) \/ InitPublish(t) \/ Fetch(t) \/ GetUser(t) \/ Reset(t)
             \/ ReadNothing(t) \/ ReadValue(t) \/ SwitchUser(t) \/ Unlock(t)
    BY <1>4, <2>1 DEF GetLock, InitPublish, Fetch, GetUser, Reset, ReadNothing, ReadValue,
       SwitchUser, Unlock
  <2>2. CASE InitOpen(t)
    BY <1>4, <2>2 DEF InitOpen, InitFails
  <2>3. CASE InitHeap(t)
    BY <1>2, <1>4, <2>3 DEF InitHeap, InitFails
  <2>4. CASE InitParse(t) \/ LookupName(t)
    BY <1>3, <2>4 DEF InitParse, LookupName
  <2>5. CASE ReadName(t)
    BY <1>2, <2>5 DEF ReadName
  <2>6. CASE SetUser(t)
    BY <1>2, <1>4, <2>6 DEF SetUser
  <2>7. CASE CheckUser(t)
    BY <1>3, <2>7 DEF CheckUser
  <2> QED
    BY <1>5, <2>1, <2>2, <2>3, <2>4, <2>5, <2>6, <2>7 DEF Get, Initialize, Change
<1>6. ASSUME NEW t \in Threads, Call(t) \/ Lock(t) PROVE PwInv'
  BY <1>4, <1>6 DEF Call, Lock, Ops, Labels
<1>7. ASSUME UNCHANGED <<pc, pwVars>> PROVE PwInv'
  BY <1>7 DEF PwInv
<1>8. CASE Environment \/ UNCHANGED vars \/ \E c \in Contexts : Create(c) \/ Destroy(c)
  BY <1>7, <1>8 DEF Environment, vars, Create, Destroy
<1> QED
  BY <1>5, <1>6, <1>8 DEF Next, Work

\* Two calls on one context are never in passwd.c at the same time.
THEOREM OneContextNeverRaces == OneContext /\ Spec => []NoRace
<1> SUFFICES ASSUME OneContext PROVE Spec => []NoRace
  OBVIOUS
<1>1. Init => PwInv
  BY DEF Init, PwInv
<1>2. IInv /\ PwInv /\ [Next]_vars => PwInv'
  BY PwStep DEF IInv
<1>3. PwInv => NoRace
  BY DEF PwInv, NoRace
<1> QED
  BY <1>1, <1>2, <1>3, IInvAlways, PTL DEF Spec

-----------------------------------------------------------------------------
(* The user of the values, when lookups do not overlap.                      *)

\* Whom the values of c may have been evaluated for.
Allowed(c) == {NULL} \cup (IF user[c] = NotSet THEN uids[c] ELSE {user[c]})

\* Set(c, v): the value of v that a VALID context has, a pointer to its heap
\* exactly for the variables that the version it was evaluated from defines.
Set(c, v) == IF v \in Defined[arena[heap[c]].conf] THEN heap[c] ELSE NULL

UserOf(t) ==
    /\ pc[t] = "publish" => arena[heap[ctx[t]]].who \in Allowed(ctx[t])
    /\ pc[t] \in {"check", "switch"} => user[ctx[t]] # arg[t]
    /\ pc[t] = "value" /\ arg[t] \in Vars =>
          /\ state[ctx[t]] \in {"VALID", "ERROR"}
          /\ ptr[t] = IF state[ctx[t]] = "ERROR" THEN NULL ELSE values[ctx[t]][arg[t]]
    /\ pc[t] = "lookup" => ptr[t] # NULL /\ ptr[t] = values[ctx[t]][arg[t]]

UserAt(c) ==
    /\ procUid \in uids[c] /\ uids[c] \subseteq ProcessUids
    /\ state[c] = "VALID" => /\ arena[heap[c]].who \in Allowed(c)
                             /\ \A v \in Vars : values[c][v] = Set(c, v)

UserInv == (\A t \in Threads : UserOf(t)) /\ (\A c \in Contexts : UserAt(c))

\* A step inside a call preserves UserInv when it does so for its own thread
\* and its own context.
LEMMA UserOthers ==
    ASSUME TypeInv, LockInv, UserInv, NEW t \in Threads, Inside(t),
           \A d \in Contexts \ {ctx[t]} : Owns(d) => arena'[heap[d]] = arena[heap[d]],
           UNCHANGED procUid, UserOf(t)', UserAt(ctx[t])'
    PROVE  UserInv'
<1> USE DEF TypeInv, TypeOK
<1>1. ASSUME NEW s \in Threads PROVE UserOf(s)'
  <2>1. CASE s = t
    BY <2>1
  <2>2. CASE s # t /\ Critical(s)
    <3>1. ctx[s] # ctx[t]
      BY <2>2, Exclusion DEF Inside
    <3>2. /\ pc'[s] = pc[s] /\ ctx'[s] = ctx[s] /\ ptr'[s] = ptr[s] /\ arg'[s] = arg[s]
          /\ heap'[ctx[s]] = heap[ctx[s]] /\ state'[ctx[s]] = state[ctx[s]]
          /\ values'[ctx[s]] = values[ctx[s]]
          /\ user'[ctx[s]] = user[ctx[s]] /\ uids'[ctx[s]] = uids[ctx[s]]
      BY <2>2, <3>1 DEF Inside
    <3>3. pc[s] = "publish" => arena'[heap[ctx[s]]] = arena[heap[ctx[s]]]
      BY <3>1 DEF Owns
    <3>4. UserOf(s)
      BY DEF UserInv
    <3> HIDE DEF TypeInv, TypeOK
    <3> QED
      BY <3>2, <3>3, <3>4 DEF UserOf, Allowed
  <2>3. CASE s # t /\ ~Critical(s)
    BY <2>3 DEF Inside, Critical, UserOf
  <2> QED
    BY <2>1, <2>2, <2>3
<1>2. ASSUME NEW c \in Contexts PROVE UserAt(c)'
  <2>1. CASE c = ctx[t]
    BY <2>1 DEF Inside
  <2>2. CASE c # ctx[t]
    <3>1. /\ state'[c] = state[c] /\ heap'[c] = heap[c] /\ values'[c] = values[c]
          /\ user'[c] = user[c] /\ uids'[c] = uids[c]
      BY <2>2 DEF Inside
    <3>2. state[c] = "VALID" => arena'[heap[c]] = arena[heap[c]]
      BY <2>2 DEF Owns
    <3>3. UserAt(c)
      BY DEF UserInv
    <3> QED
      BY <3>1, <3>2, <3>3 DEF UserAt, Allowed, Set
  <2> QED
    BY <2>1, <2>2
<1> QED
  BY <1>1, <1>2 DEF UserInv

\* Exact lookups keep the values of the user that is set.
LEMMA UserStep == IInv /\ UserInv /\ NoRace /\ [Next]_vars => UserInv'
<1> SUFFICES ASSUME IInv, UserInv, NoRace, [Next]_vars PROVE UserInv'
  OBVIOUS
<1> USE ContextAssumption DEF IInv, TypeInv, TypeOK, UserOf, UserAt, Allowed, Set,
        envVars, ctxVars, heapVars, pwVars, callVars, history, Goto
<1>1. ASSUME NEW t \in Threads, Call(t) \/ Lock(t) \/ Unlock(t) PROVE UserInv'
  <2>1. /\ pc'[t] \in Ops \cup {"lock", "idle"} /\ UNCHANGED <<envVars, arena, uids>>
        /\ UNCHANGED <<state, user, heap, values>>
        /\ \A s \in Threads \ {t} : /\ pc'[s] = pc[s] /\ ctx'[s] = ctx[s]
                                    /\ arg'[s] = arg[s] /\ ptr'[s] = ptr[s]
    BY <1>1 DEF Call, Lock, Unlock, Ops
  <2>2. ASSUME NEW s \in Threads PROVE UserOf(s)'
    <3>1. CASE s = t
      BY <2>1, <3>1 DEF Ops
    <3>2. CASE s # t
      <4>1. UserOf(s)
        BY DEF UserInv
      <4> QED
        BY <2>1, <3>2, <4>1
    <3> QED
      BY <3>1, <3>2
  <2>3. ASSUME NEW c \in Contexts PROVE UserAt(c)'
    <3>1. UserAt(c)
      BY Zenon DEF UserInv
    <3>2. /\ state'[c] = state[c] /\ user'[c] = user[c] /\ uids'[c] = uids[c]
          /\ heap'[c] = heap[c] /\ values'[c] = values[c] /\ arena' = arena
          /\ procUid' = procUid
      BY <2>1, SMTT(30)
    <3> QED
      BY <3>1, <3>2
  <2> QED
    BY <2>2, <2>3 DEF UserInv
<1>4. ASSUME NEW t \in Threads, Get(t) \/ GetUser(t) \/ Change(t) PROVE UserInv'
  <2>1. /\ Inside(t) /\ CtrlOf(t) /\ FreshOf(t) /\ UserOf(t) /\ UserAt(ctx[t])
        /\ \A d \in Contexts \ {ctx[t]} : Owns(d) => arena'[heap[d]] = arena[heap[d]]
    <3>1. Inside(t)
      BY <1>4, WorkInside
    <3>2. \A d \in Contexts \ {ctx[t]} : Owns(d) => arena'[heap[d]] = arena[heap[d]]
      BY <1>4, ArenaInside
    <3>3. CtrlOf(t) /\ FreshOf(t)
      BY DEF CtrlInv, FreshInv
    <3> HIDE DEF UserOf, UserAt
    <3>4. UserOf(t) /\ UserAt(ctx[t])
      BY DEF UserInv
    <3> QED
      BY <3>1, <3>2, <3>3, <3>4
  <2>2. UNCHANGED procUid
    BY <1>4 DEF Get, Initialize, Change, GetLock, InitOpen, InitHeap, InitParse, InitPublish,
       Fetch, ReadNothing, ReadValue, ReadName, LookupName, GetUser, Reset, SetUser,
       CheckUser, SwitchUser
  <2> SUFFICES UserOf(t)' /\ UserAt(ctx[t])'
    BY <2>1, <2>2, UserOthers
  <2>3. CASE GetLock(t)
    BY <2>1, <2>3 DEF GetLock
  <2>4. CASE InitOpen(t)
    BY <2>1, <2>4 DEF InitOpen, InitFails, CtrlOf
  <2>5. CASE InitHeap(t)
    <3>1. state'[ctx[t]] # "VALID" /\ pc'[t] \in {"parse", "fetch"}
      BY <2>1, <2>5 DEF InitHeap, InitFails, CtrlOf
    <3> QED
      BY <2>1, <2>5, <3>1 DEF InitHeap
  <2>6. CASE InitParse(t)
    <3>1. heap[ctx[t]] \in Heaps
      BY <2>6 DEF InitParse, HeapInv, Owns
    <3>2. PICK w \in PwFinds(t, get_uid(ctx[t])) :
             arena' = [arena EXCEPT ![heap[ctx[t]]] = [conf |-> snap[t], who |-> w]]
      BY <2>6 DEF InitParse
    <3>3. w \in Allowed(ctx[t])
      BY <2>1 DEF PwFinds, get_uid, NoRace
    <3> QED
      BY <2>1, <2>6, <3>1, <3>2, <3>3 DEF InitParse, CtrlOf
  <2>7. CASE InitPublish(t)
    <3>1. arena[heap[ctx[t]]].conf = snap[t]
      BY <2>1, <2>7 DEF InitPublish, FreshOf
    <3> QED
      BY <2>1, <2>7, <3>1 DEF InitPublish, CtrlOf
  <2>8. CASE Fetch(t)
    BY <2>1, <2>8 DEF Fetch, CtrlOf
  <2>9. CASE ReadNothing(t) \/ ReadValue(t) \/ LookupName(t) \/ GetUser(t)
    BY <2>1, <2>9 DEF ReadNothing, ReadValue, LookupName, GetUser
  <2>10. CASE ReadName(t)
    BY <2>1, <2>10 DEF ReadName, PtrOK, CtrlOf
  <2>11. CASE Reset(t)
    BY <2>1, <2>11 DEF Reset, Drop, Dropped
  <2>12. CASE SetUser(t)
    <3>1. UNCHANGED <<ctx, arg, user, uids, state, heap, values, arena>>
      BY <2>12 DEF SetUser
    <3>2. PICK l \in {"unlock", "check", "switch"} :
             Goto(t, l) /\ (l = "unlock" \/ user[ctx[t]] # arg[t])
      BY <2>12 DEF SetUser
    <3>3. pc'[t] = l
      BY <3>2
    <3> QED
      BY <2>1, <2>2, <3>1, <3>2, <3>3
  <2>13. CASE CheckUser(t)
    <3>1. /\ pc[t] = "check"
          /\ UNCHANGED <<ctx, arg, user, uids, state, heap, values, arena>>
      BY <2>13 DEF CheckUser
    <3>2. PICK l \in {"unlock", "switch"} : Goto(t, l)
      BY <2>13 DEF CheckUser
    <3>3. pc'[t] = l
      BY <3>2
    <3> QED
      BY <2>1, <2>2, <3>1, <3>2, <3>3
  <2>14. CASE SwitchUser(t)
    BY <2>1, <2>14 DEF SwitchUser, Drop, Dropped
  <2> QED
    BY <1>4, <2>3, <2>4, <2>5, <2>6, <2>7, <2>8, <2>9, <2>10, <2>11, <2>12, <2>13, <2>14
    DEF Get, Initialize, Change
<1>5. ASSUME NEW c \in Contexts, Create(c) \/ Destroy(c) PROVE UserInv'
  <2>1. \A t \in Threads : pc[t] # "idle" => ctx[t] # c
    BY <1>5 DEF Create, Destroy, LockInv
  <2>2. /\ UNCHANGED <<pc, ctx, arg, ptr, heap, values, arena, procUid>>
        /\ state'[c] # "VALID" /\ \A d \in Contexts \ {c} : state'[d] = state[d]
        /\ uids'[c] \in {{procUid}, uids[c]}
        /\ \A d \in Contexts \ {c} : user'[d] = user[d] /\ uids'[d] = uids[d]
    BY <1>5 DEF Create, Dropped, Destroy
  <2>3. ASSUME NEW t \in Threads PROVE UserOf(t)'
    <3>1. CASE ctx[t] = c
      BY <2>1, <2>2, <3>1
    <3>2. CASE ctx[t] # c
      <4>1. UserOf(t)
        BY DEF UserInv
      <4>2. /\ state'[ctx[t]] = state[ctx[t]] /\ user'[ctx[t]] = user[ctx[t]]
            /\ uids'[ctx[t]] = uids[ctx[t]]
        BY <2>2, <3>2
      <4> QED
        BY <2>2, <4>1, <4>2
    <3> QED
      BY <3>1, <3>2
  <2>4. ASSUME NEW d \in Contexts PROVE UserAt(d)'
    <3>1. UserAt(d)
      BY DEF UserInv
    <3>2. CASE d = c
      BY <2>2, <3>1, <3>2
    <3>3. CASE d # c
      <4>1. state'[d] = state[d] /\ user'[d] = user[d] /\ uids'[d] = uids[d]
        BY <2>2, <3>3
      <4> QED
        BY <2>2, <3>1, <4>1
    <3> QED
      BY <3>2, <3>3
  <2> QED
    BY <2>3, <2>4 DEF UserInv
<1>6. CASE Environment
  <2>1. /\ UNCHANGED <<pc, ctx, arg, ptr, state, user, heap, values, arena>>
        /\ \A c \in Contexts : /\ uids[c] \subseteq uids'[c]
                               /\ uids'[c] \subseteq uids[c] \cup ProcessUids
                               /\ procUid \in uids[c] => procUid' \in uids'[c]
    BY <1>6 DEF Environment, SetProcessUid, Edit, EditPasswd
  <2>2. ASSUME NEW t \in Threads PROVE UserOf(t)'
    <3>1. UserOf(t)
      BY DEF UserInv
    <3>2. Allowed(ctx[t]) \subseteq Allowed(ctx[t])'
      BY <2>1
    <3> HIDE DEF Allowed, TypeInv, TypeOK
    <3> QED
      BY <2>1, <3>1, <3>2
  <2>3. ASSUME NEW c \in Contexts PROVE UserAt(c)'
    BY <2>1 DEF UserInv
  <2> QED
    BY <2>2, <2>3 DEF UserInv
<1>7. CASE UNCHANGED vars
  BY <1>7 DEF vars, UserInv
<1> QED
  BY <1>1, <1>4, <1>5, <1>6, <1>7 DEF Next, Work

\* UserInv holds in every reachable state of a process whose lookups never race.
LEMMA UserInvAlways == Spec /\ []NoRace => []UserInv
<1>1. Init => UserInv
  BY ContextAssumption DEF Init, UserInv, UserOf, UserAt
<1> QED
  BY <1>1, UserStep, IInvAlways, PTL DEF Spec

\* The values belong to the user that is set, for any number of contexts whose
\* lookups of passwd do not overlap...
THEOREM UserCoherentUnlessRaced == Spec /\ []NoRace => []UserCoherent
<1>1. UserInv => UserCoherent
  BY DEF UserInv, UserAt, Allowed, UserCoherent
<1> QED
  BY <1>1, UserInvAlways, PTL

\* ...and so without a condition for the clients that use the global context only.
THEOREM UserCoherentAlways == OneContext /\ Spec => []UserCoherent
  BY OneContextNeverRaces, UserCoherentUnlessRaced
-----------------------------------------------------------------------------
(* What set_user answers when lookups do not overlap, passwd being edited    *)
(* meanwhile: a step of a call follows from its operation, the user of a     *)
(* context has been listed, and a lookup that finds nobody read a file that  *)
(* does not list the uid, or could not open it.                              *)
Known == {u \in Uids \cup {NotSet} : u = NotSet \/ \E p \in passwds : u \in p}

\* Refusable(t, u): the call of t may refuse u.
Refusable(t, u) == t \in unread \/ \E p \in passwds : u \notin p

VerdictOf(t) ==
    /\ pc[t] \in {"get", "open", "create", "parse", "publish", "fetch", "value", "lookup"}
          => op[t] \in {"get", "getuid"}
    /\ pc[t] \in {"set_user", "check", "switch"} => op[t] = "set_user"
    /\ pc[t] \in {"reset", "get_user"} => op[t] = pc[t]
    /\ pc[t] = "switch" => arg[t] \in Known
    /\ pc[t] = "unlock" /\ op[t] = "set_user" =>
          IF ans[t].ok THEN arg[t] \in Known ELSE Refusable(t, arg[t])

VerdictInv == /\ passwd \in passwds
              /\ \A c \in Contexts : user[c] \in Known
              /\ \A t \in Threads : VerdictOf(t)

\* The lookup decides between the switch and the refusal.
LEMMA VerdictStep ==
    TypeInv /\ VerdictInv /\ NoRace /\ [Next]_vars => VerdictInv'
<1> SUFFICES ASSUME TypeInv, VerdictInv, NoRace, [Next]_vars
             PROVE  VerdictInv'
  OBVIOUS
<1> USE ContextAssumption DEF TypeInv, TypeOK, VerdictOf,
        envVars, ctxVars, heapVars, pwVars, callVars, history, Goto, Answer
<1>1. passwd' \in passwds' /\ passwds \subseteq passwds'
  <2>1. CASE Environment
    BY <2>1 DEF Environment, Edit, EditPasswd, SetProcessUid, VerdictInv
  <2>2. CASE ~Environment
    <3>1. UNCHANGED <<passwd, passwds>>
      BY <2>2 DEF Next, Work, Get, Initialize, Change, Call, Lock, Unlock, GetLock, InitOpen,
       InitHeap, InitParse, InitPublish, Fetch, ReadNothing, ReadValue, ReadName, LookupName,
       GetUser, Reset, SetUser, CheckUser, SwitchUser, Create, Destroy, vars
    <3> QED
      BY <3>1 DEF VerdictInv
  <2> QED
    BY <2>1, <2>2
<1>9. Known \subseteq Known'
  BY <1>1 DEF Known
<1> DEFINE Others(t) == \A s \in Threads \ {t} :
              pc'[s] = pc[s] /\ op'[s] = op[s] /\ arg'[s] = arg[s] /\ ans'[s] = ans[s]
           Kept(t) == \A s \in Threads \ {t} : s \in unread => s \in unread'
<1>2. ASSUME NEW t \in Threads, Others(t), Kept(t), VerdictOf(t)',
             \A c \in Contexts : user'[c] \in Known
      PROVE  VerdictInv'
  <2>1. ASSUME NEW s \in Threads PROVE VerdictOf(s)'
    <3>1. VerdictOf(s)
      BY DEF VerdictInv
    <3>2. CASE s = t
      BY <1>2, <3>2
    <3>3. CASE s # t
      <4>1. Refusable(s, arg[s]) => Refusable(s, arg[s])'
        BY <1>1, <1>2, <3>3 DEF Refusable
      <4> QED
        BY <1>2, <1>9, <3>1, <3>3, <4>1
    <3> QED
      BY <3>2, <3>3
  <2> QED
    BY <1>1, <1>2, <1>9, <2>1 DEF VerdictInv
<1>3. ASSUME NEW t \in Threads, Call(t) \/ Lock(t) \/ Unlock(t) PROVE VerdictInv'
  <2>1. Others(t) /\ Kept(t) /\ UNCHANGED user
    BY <1>3 DEF Call, Lock, Unlock
  <2>2. VerdictOf(t)'
    <3>1. CASE Call(t)
      BY <3>1 DEF Call
    <3>2. CASE Lock(t)
      <4>1. /\ op'[t] = op[t] /\ op[t] \in Ops
            /\ pc'[t] = IF op[t] = "getuid" THEN "get" ELSE op[t]
        BY <3>2 DEF Lock
      <4> QED
        BY <4>1 DEF Ops
    <3>3. CASE Unlock(t)
      BY <3>3 DEF Unlock
    <3> QED
      BY <1>3, <3>1, <3>2, <3>3
  <2> QED
    BY <1>2, <2>1, <2>2 DEF VerdictInv
<1>4. ASSUME NEW t \in Threads, Get(t) PROVE VerdictInv'
  <2>1. Others(t) /\ UNCHANGED <<user, op, arg>>
    BY <1>4 DEF Get, Initialize, GetLock, InitOpen, InitHeap, InitParse, InitPublish, Fetch,
       InitFails, ReadNothing, ReadValue, ReadName, LookupName
  <2>5. Kept(t)
    BY <1>4 DEF Get, Initialize, GetLock, InitOpen, InitHeap, InitParse, InitPublish, Fetch,
       ReadNothing, ReadValue, ReadName, LookupName, PwEnter
  <2>2. PICK l \in Labels : Goto(t, l) /\ l \in {"open", "create", "parse", "publish",
                                                  "fetch", "value", "lookup", "unlock"}
    BY <1>4 DEF Get, Initialize, GetLock, InitOpen, InitHeap, InitParse, InitPublish, Fetch,
       InitFails, ReadNothing, ReadValue, ReadName, LookupName, Labels
  <2>3. op[t] \in {"get", "getuid"}
    BY <1>4 DEF VerdictInv, Get, Initialize, GetLock, InitOpen, InitHeap, InitParse,
       InitPublish, Fetch, ReadNothing, ReadValue, ReadName, LookupName
  <2>4. pc'[t] = l
    BY <2>2
  <2> QED
    BY <1>2, <2>1, <2>2, <2>3, <2>4, <2>5 DEF VerdictInv
<1>5. ASSUME NEW t \in Threads, GetUser(t) \/ Reset(t) PROVE VerdictInv'
  <2>1. Others(t) /\ Kept(t) /\ UNCHANGED <<user, op, arg>> /\ pc'[t] = "unlock"
        /\ pc[t] \in {"get_user", "reset"}
    BY <1>5 DEF GetUser, Reset
  <2> QED
    BY <1>2, <2>1 DEF VerdictInv
<1>6. ASSUME NEW t \in Threads, SetUser(t) \/ CheckUser(t) \/ SwitchUser(t)
      PROVE  VerdictInv'
  <2>1. /\ Others(t) /\ Kept(t) /\ UNCHANGED <<op, arg>>
        /\ pc[t] \in {"set_user", "check", "switch"} /\ op[t] = "set_user"
        /\ arg[t] \in Uids \cup {NotSet} /\ (pc[t] = "check" => arg[t] # NotSet)
    <3>1. UNCHANGED <<op, arg>> /\ pc[t] \in {"set_user", "check", "switch"}
      BY <1>6 DEF SetUser, CheckUser, SwitchUser
    <3>2. Inside(t)
      BY <1>6, WorkInside DEF Change
    <3>3. \E l \in Labels : pc' = [pc EXCEPT ![t] = l]
      BY <3>2 DEF Inside
    <3>4. Others(t)
      BY <3>1, <3>2, <3>3 DEF Inside
    <3>5. Kept(t)
      <4>1. CASE SetUser(t)
        <5>1. UNCHANGED unread \/ PwEnter(t)
          BY <4>1 DEF SetUser
        <5> QED
          BY <5>1 DEF PwEnter
      <4>2. CASE CheckUser(t)
        BY <4>2 DEF CheckUser
      <4>3. CASE SwitchUser(t)
        BY <4>3 DEF SwitchUser
      <4> QED
        BY <1>6, <4>1, <4>2, <4>3
    <3> QED
      BY <3>1, <3>4, <3>5 DEF VerdictInv, ArgOK
  <2>2. CASE SetUser(t)
    <3>1. UNCHANGED user
      BY <2>2 DEF SetUser
    <3>2. \/ pc'[t] = "check"
          \/ pc'[t] = "switch" /\ arg[t] = NotSet
          \/ pc'[t] = "unlock" /\ ans'[t].ok = TRUE /\ arg[t] = user[ctx[t]]
      <4>1. \/ Goto(t, "check")
            \/ Goto(t, "switch") /\ arg[t] = NotSet
            \/ Goto(t, "unlock") /\ Answer(t, Status(TRUE)) /\ arg[t] = user[ctx[t]]
        BY <2>2 DEF SetUser
      <4> QED
        BY <4>1 DEF Status
    <3>3. user[ctx[t]] \in Known
      BY DEF VerdictInv
    <3>4. NotSet \in Known /\ Known \subseteq Known'
      BY <1>9 DEF Known
    <3>5. VerdictOf(t)'
      BY <2>1, <3>2, <3>3, <3>4
    <3> QED
      BY <1>2, <2>1, <3>1, <3>5 DEF VerdictInv
  <2>3. CASE CheckUser(t)
    <3>1. UNCHANGED user /\ pc[t] = "check"
      BY <2>3 DEF CheckUser
    <3>2. \E u \in {IF arg[t] \in passwd /\ t \notin unread THEN arg[t] ELSE NULL} :
             IF u = NULL THEN pc'[t] = "unlock" /\ ans'[t].ok = FALSE
                         ELSE pc'[t] = "switch"
      BY <2>3 DEF CheckUser, PwFinds, NoRace, Status
    <3>3. UNCHANGED unread
      BY <2>3 DEF CheckUser
    <3>4. CASE arg[t] \in passwd /\ t \notin unread
      <4>1. pc'[t] = "switch" /\ arg[t] \in Known'
        BY <1>9, <2>1, <3>2, <3>4 DEF Known, VerdictInv
      <4> QED
        BY <1>2, <2>1, <3>1, <4>1 DEF VerdictInv
    <3>5. CASE ~(arg[t] \in passwd /\ t \notin unread)
      <4>1. pc'[t] = "unlock" /\ ans'[t].ok = FALSE
        BY <3>2, <3>5
      <4>2. Refusable(t, arg[t])'
        BY <1>1, <2>1, <3>3, <3>5 DEF Refusable, VerdictInv
      <4> QED
        BY <1>2, <2>1, <3>1, <4>1, <4>2 DEF VerdictInv
    <3> QED
      BY <3>4, <3>5
  <2>4. CASE SwitchUser(t)
    <3>1. /\ pc'[t] = "unlock" /\ ans'[t].ok = TRUE /\ arg[t] \in Known
          /\ user' = [user EXCEPT ![ctx[t]] = arg[t]]
      <4>1. /\ pc[t] = "switch" /\ Goto(t, "unlock") /\ Answer(t, Status(TRUE))
            /\ user' = [user EXCEPT ![ctx[t]] = arg[t]]
        BY <2>4 DEF SwitchUser
      <4>2. arg[t] \in Known
        BY <4>1 DEF VerdictInv
      <4>3. ans'[t].ok = TRUE
        BY <4>1 DEF Status
      <4> QED
        BY <4>1, <4>2, <4>3
    <3>2. \A c \in Contexts : user'[c] \in Known
      BY <3>1 DEF VerdictInv
    <3>3. arg'[t] \in Known'
      BY <1>9, <2>1, <3>1
    <3>4. VerdictOf(t)'
      BY <2>1, <3>1, <3>3
    <3> QED
      BY <1>2, <2>1, <3>2, <3>4
  <2> QED
    BY <1>6, <2>2, <2>3, <2>4
<1>7. ASSUME NEW c \in Contexts, Create(c) \/ Destroy(c) PROVE VerdictInv'
  <2>1. /\ UNCHANGED <<pc, op, arg, ans, unread>>
        /\ \A d \in Contexts : user'[d] \in {user[d], NotSet}
    BY <1>7 DEF Create, Destroy
  <2>2. \A d \in Contexts : user'[d] \in Known'
    BY <1>9, <2>1 DEF VerdictInv, Known
  <2>3. ASSUME NEW t \in Threads PROVE VerdictOf(t)'
    BY <1>1, <1>9, <2>1 DEF VerdictInv, Refusable
  <2> QED
    BY <1>1, <2>2, <2>3 DEF VerdictInv
<1>8. CASE Environment \/ UNCHANGED vars
  <2>1. UNCHANGED <<pc, op, arg, ans, unread, user>>
    BY <1>8 DEF Environment, vars
  <2>2. ASSUME NEW t \in Threads PROVE VerdictOf(t)'
    BY <1>1, <1>9, <2>1 DEF VerdictInv, Refusable
  <2> QED
    BY <1>1, <1>9, <2>1, <2>2 DEF VerdictInv
<1> QED
  BY <1>3, <1>4, <1>5, <1>6, <1>7, <1>8 DEF Next, Work, Change

\* In a process whose lookups do not overlap, set_user answers 0 only to uids that
\* passwd has listed and to (uid_t)-1, and answers -1 to a uid that passwd has
\* always listed only when it could not open the file; passwd may be edited at any
\* moment of the calls.
THEOREM VerdictUnlessRaced == Spec /\ []NoRace => []SetUserVerdict
<1>1. Init => VerdictInv
  BY DEF Init, VerdictInv, VerdictOf, Known
<1>2. IInv /\ VerdictInv /\ NoRace /\ [Next]_vars => VerdictInv'
  BY VerdictStep DEF IInv
<1>3. VerdictInv => SetUserVerdict
  BY DEF VerdictInv, VerdictOf, Known, Refusable, SetUserVerdict
<1> QED
  BY <1>1, <1>2, <1>3, IInvAlways, PTL DEF Spec

\* The same for the clients of the global context only, whatever their threads.
THEOREM VerdictAlways == OneContext /\ Spec => []SetUserVerdict
  BY OneContextNeverRaces, VerdictUnlessRaced
-----------------------------------------------------------------------------
(* The contexts implement ConfigService, when lookups do not overlap.        *)

\* A step that changes the state of one context, and nothing of what another
\* one holds, is a change of that context's evaluation in the service.
LEMMA BecomesOne ==
    ASSUME TypeOK, NEW c \in Contexts, NEW s,
           state' = [state EXCEPT ![c] = s],
           \A d \in Contexts \ {c} : Held'[d] = Held[d]
    PROVE  Service!Becomes(c, s, Held'[c])
<1>1. Held' = [Held EXCEPT ![c] = Held'[c]]
  BY DEF Held
<1> QED
  BY <1>1 DEF Service!Becomes

\* A step inside a call leaves what the other contexts hold.
LEMMA HeldOthers ==
    ASSUME TypeOK, HeapInv, NEW t \in Threads, Inside(t),
           \A d \in Contexts \ {ctx[t]} : Owns(d) => arena'[heap[d]] = arena[heap[d]]
    PROVE  /\ \A d \in Contexts \ {ctx[t]} : Held'[d] = Held[d]
           /\ state'[ctx[t]] # "VALID" => Held'[ctx[t]] = Blank
           /\ state'[ctx[t]] = "VALID" => Held'[ctx[t]] = arena'[heap'[ctx[t]]]
<1>1. \A d \in Contexts \ {ctx[t]} : state'[d] = state[d] /\ heap'[d] = heap[d]
  BY DEF Inside
<1>2. \A d \in Contexts : state[d] = "VALID" => Owns(d)
  BY DEF Owns
<1>3. ctx[t] \in Contexts
  BY DEF TypeOK
<1> QED
  BY <1>1, <1>2, <1>3 DEF Held

\* What a getter reads in a VALID context is what the service defines there.
LEMMA SetDefines ==
    ASSUME TypeOK, HeapInv, NEW c \in Contexts, UserAt(c), NEW v \in Vars,
           state[c] = "VALID"
    PROVE  values[c][v] # NULL <=> Service!Defines(c, v)
<1>1. Owns(c)
  BY DEF Owns
<1>2. heap[c] # NULL
  BY <1>1, ContextAssumption DEF TypeOK, HeapInv
<1>3. Held[c] = arena[heap[c]]
  BY DEF Held
<1> QED
  BY <1>2, <1>3 DEF UserAt, Set, Service!Defines

\* Each step of the code is a step of the service, or changes none of what the
\* service shows.
LEMMA ServiceStep ==
    IInv /\ UserInv /\ NoRace /\ [Next]_vars => [Service!Next]_(Service!vars)
<1> SUFFICES ASSUME IInv, UserInv, NoRace, [Next]_vars
             PROVE  Service!Next \/ UNCHANGED <<user, state, Held, ans>>
  BY DEF Service!vars
<1> USE DEF IInv, TypeInv, envVars, ctxVars, heapVars, pwVars, callVars, history, Goto
<1>1. ASSUME UNCHANGED <<state, heap, arena>> PROVE UNCHANGED Held
  BY <1>1 DEF Held
<1>2. ASSUME NEW t \in Threads, Call(t) \/ Lock(t)
      PROVE  UNCHANGED <<user, state, Held, ans>>
  BY <1>1, <1>2 DEF Call, Lock
<1>3. ASSUME NEW t \in Threads, Unlock(t) PROVE Service!Return(t)
  BY <1>1, <1>3 DEF Unlock, Answer, NoAnswer, Service!Return, Service!Answer, Service!NoAnswer
<1>4. ASSUME NEW t \in Threads, Get(t) \/ GetUser(t) \/ Change(t)
      PROVE  Service!Next \/ UNCHANGED <<user, state, Held, ans>>
  <2> DEFINE c == ctx[t]
  <2>1. /\ c \in Contexts /\ CtrlOf(t) /\ UserOf(t) /\ UserAt(c)
        /\ (state[c] = "VALID" => heap[c] \in Heaps)
    BY DEF TypeOK, CtrlInv, UserInv, HeapInv, Owns
  <2>2. /\ \A d \in Contexts \ {c} : Held'[d] = Held[d]
        /\ state'[c] # "VALID" => Held'[c] = Blank
        /\ state'[c] = "VALID" => Held'[c] = arena'[heap'[c]]
    BY <1>4, WorkInside, ArenaInside, HeldOthers
  <2>3. ASSUME NEW s, state' = [state EXCEPT ![c] = s]
        PROVE  Service!Becomes(c, s, Held'[c]) /\ s = state'[c]
    BY <2>1, <2>2, <2>3, BecomesOne DEF TypeOK
  <2>4. ASSUME UNCHANGED state, state[c] # "VALID" PROVE UNCHANGED Held
    <3>1. \A d \in Contexts : Held'[d] = Held[d]
      BY <2>1, <2>2, <2>4 DEF Held
    <3> QED
      BY <3>1 DEF Held
  <2> HIDE DEF c
  <2>5. CASE GetLock(t) \/ Fetch(t) \/ ReadName(t)
    BY <1>1, <2>5 DEF GetLock, Fetch, ReadName
  <2>6. ASSUME InitOpen(t) \/ InitHeap(t), InitFails(t) PROVE Service!Evaluate(c)
    <3>1. state[c] = "RESET" /\ UNCHANGED <<user, ans>>
      BY <2>1, <2>6 DEF c, InitOpen, InitHeap, CtrlOf
    <3>2. Service!Becomes(c, "ERROR", Held'[c]) /\ Held'[c] = Blank
      BY <2>2, <2>3, <2>6 DEF c, InitFails
    <3> QED
      BY <3>1, <3>2 DEF Service!Evaluate, Service!Blank, Blank
  <2>7. ASSUME ((InitOpen(t) \/ InitHeap(t)) /\ ~InitFails(t)) \/ InitParse(t)
        PROVE  UNCHANGED <<user, state, Held, ans>>
    <3>1. state[c] = "RESET" /\ UNCHANGED <<user, state, ans>>
      BY <2>1, <2>7 DEF c, InitOpen, InitHeap, InitParse, CtrlOf
    <3> QED
      BY <2>4, <3>1
  <2>8. CASE InitPublish(t)
    <3>1. /\ state[c] = "RESET" /\ UNCHANGED <<user, ans, heap, arena>>
          /\ state' = [state EXCEPT ![c] = "VALID"]
      BY <2>1, <2>8 DEF c, InitPublish, CtrlOf
    <3>2. Service!Becomes(c, "VALID", arena[heap[c]])
      BY <2>2, <2>3, <3>1
    <3>3. arena[heap[c]] \in Content /\ arena[heap[c]].who \in Allowed(c)
      <4>1. pc[t] = "publish"
        BY <2>8 DEF InitPublish
      <4>2. Owns(c)
        BY <4>1 DEF c, Owns
      <4>3. heap[c] \in Heaps
        BY <2>1, <4>2 DEF HeapInv, TypeOK
      <4> QED
        BY <2>1, <4>1, <4>3 DEF c, InitPublish, UserOf, TypeOK
    <3>4. PICK n \in Versions, w \in Uids \cup {NULL} :
             arena[heap[c]] = [conf |-> n, who |-> w]
      BY <3>3 DEF Content
    <3>5. w \in Service!UsersOf(c) \cup {NULL}
      BY <2>1, <3>3, <3>4 DEF Allowed, UserAt, Service!UsersOf
    <3>6. Service!Evaluate(c)
      BY <3>1, <3>2, <3>4, <3>5 DEF Service!Evaluate, Versions
    <3> QED
      BY <2>1, <3>6 DEF Service!Next
  <2>9. CASE ReadNothing(t)
    <3>1. UNCHANGED <<user, state, Held>>
      BY <1>1, <2>9 DEF ReadNothing
    <3>2. CASE op[t] = "getuid"
      <4>1. Service!GetUidOf(t)
        BY <2>9, <3>1, <3>2 DEF ReadNothing, Answer, Uid, Service!GetUidOf, Service!Answer
      <4> QED
        BY <4>1 DEF Service!Next
    <3>3. CASE op[t] # "getuid"
      <4>1. arg[t] \in Vars \cup {BadId} /\ ptr[t] = NULL
        BY <2>9 DEF ReadNothing, ArgOK
      <4>2. arg[t] # BadId => state[c] # "RESET" /\ ~Service!Defines(c, arg[t])
        BY <2>1, <2>9, <4>1, SetDefines DEF c, ReadNothing, UserOf, Service!Defines
      <4>3. Service!Answer(t, [kind |-> "null", var |-> arg[t]])
        BY <2>9, <3>3 DEF ReadNothing, Answer, Nothing, Service!Answer
      <4>4. Service!GetNothing(t)
        BY <2>1, <3>1, <4>1, <4>2, <4>3 DEF Service!GetNothing
      <4> QED
        BY <4>4 DEF Service!Next
    <3> QED
      BY <3>2, <3>3
  <2>10. CASE ReadValue(t)
    <3>1. UNCHANGED <<user, state, Held>> /\ state[c] = "VALID" /\ arg[t] \in Vars
          /\ ptr[t] = heap[c] /\ ptr[t] # NULL
      BY <1>1, <2>1, <2>10 DEF c, ReadValue, CtrlOf, PtrOK
    <3>2. Service!Defines(c, arg[t]) /\ Held[c] = arena[ptr[t]]
      BY <2>1, <2>10, <3>1, SetDefines DEF c, ReadValue, UserOf, Held
    <3>3. CASE Answer(t, Value(arg[t], arena[ptr[t]]))
      <4>1. Service!GetValue(t)
        BY <2>1, <3>1, <3>2, <3>3 DEF Answer, Value, Service!GetValue, Service!Answer
      <4> QED
        BY <4>1 DEF Service!Next
    <3>4. CASE Answer(t, NoMemory)
      <4>1. Service!GetFails(t)
        BY <2>1, <3>1, <3>4 DEF Answer, NoMemory, Service!GetFails, Service!Answer
      <4> QED
        BY <4>1 DEF Service!Next
    <3> QED
      BY <2>10, <3>3, <3>4 DEF ReadValue
  <2>11. CASE LookupName(t)
    <3>1. UNCHANGED <<user, state, Held>> /\ state[c] = "VALID" /\ arg[t] \in Vars
      BY <1>1, <2>1, <2>11 DEF c, LookupName, CtrlOf, UserOf, PtrOK
    <3>2. Service!Defines(c, arg[t])
      BY <2>1, <2>11, <3>1, SetDefines DEF c, LookupName, UserOf
    <3>3. PICK u \in {NamedUser[arg[t]], NULL} : Answer(t, Uid(u))
      BY <2>11 DEF LookupName, PwFinds, NoRace
    <3>4. u \in {NULL} \cup {NamedUser[v] : v \in {w \in Vars :
                                     \E d \in Contexts : Service!Defines(d, w)}}
      BY <2>1, <3>1, <3>2
    <3>5. Service!GetUidOf(t)
      BY <3>1, <3>3, <3>4 DEF Answer, Uid, Service!GetUidOf, Service!Answer
    <3> QED
      BY <3>5 DEF Service!Next
  <2>12. CASE GetUser(t)
    <3>1. UNCHANGED <<user, state, Held>> /\ Answer(t, User(get_uid(c)))
      BY <1>1, <2>12 DEF c, GetUser
    <3>2. get_uid(c) \in Service!UsersOf(c)
      BY <2>1 DEF get_uid, UserAt, Service!UsersOf
    <3>3. Service!GetUserOf(t)
      BY <2>1, <3>1, <3>2 DEF Answer, User, Service!GetUserOf, Service!Answer
    <3> QED
      BY <3>3 DEF Service!Next
  <2>13. CASE Reset(t)
    <3>1. state[c] # "absent" /\ UNCHANGED <<user, ans>>
          /\ state' = [state EXCEPT ![c] = "RESET"]
      BY <2>13 DEF c, Reset, Drop, LockInv
    <3>2. Service!Forget(c)
      BY <2>2, <2>3, <3>1 DEF Service!Forget, Service!Blank, Blank
    <3> QED
      BY <2>1, <3>2 DEF Service!Next
  <2>14. CASE SetUser(t) \/ CheckUser(t)
    <3>1. UNCHANGED <<user, state, Held>> /\ state[c] # "absent"
      BY <1>1, <2>14 DEF c, SetUser, CheckUser, LockInv
    <3>2. CASE UNCHANGED ans
      BY <3>1, <3>2
    <3>3. CASE Answer(t, Status(TRUE)) /\ user[c] = arg[t]
      <4>1. user' = [user EXCEPT ![c] = user[c]] /\ user[c] \in Uids \cup {NotSet}
        BY <2>1, <3>1 DEF TypeOK
      <4>2. Service!SetUser(t)
        BY <2>1, <3>1, <3>3, <4>1 DEF Answer, Status, Service!SetUser, Service!Answer
      <4> QED
        BY <4>2 DEF Service!Next
    <3>4. CASE Answer(t, Status(FALSE))
      <4>1. Service!RefuseUser(t)
        BY <3>1, <3>4 DEF Answer, Status, Service!RefuseUser, Service!Answer
      <4> QED
        BY <4>1 DEF Service!Next
    <3> QED
      BY <2>14, <3>2, <3>3, <3>4 DEF c, SetUser, CheckUser
  <2>15. CASE SwitchUser(t)
    <3>1. /\ state[c] # "absent" /\ arg[t] \in Uids \cup {NotSet} /\ user[c] # arg[t]
          /\ user' = [user EXCEPT ![c] = arg[t]] /\ Answer(t, Status(TRUE))
          /\ state' = [state EXCEPT ![c] = "RESET"]
      BY <2>1, <2>15 DEF c, SwitchUser, Drop, LockInv, ArgOK, UserOf
    <3>2. Service!Becomes(c, "RESET", Service!Blank)
      BY <2>2, <2>3, <3>1 DEF Service!Blank, Blank
    <3>3. Service!SetUser(t)
      BY <2>1, <3>1, <3>2 DEF Answer, Status, Service!SetUser, Service!Answer
    <3> QED
      BY <3>3 DEF Service!Next
  <2>16. CASE InitOpen(t) \/ InitHeap(t) \/ InitParse(t)
    <3>1. Service!Evaluate(c) => Service!Next
      BY <2>1 DEF Service!Next
    <3> QED
      BY <2>6, <2>7, <2>16, <3>1
  <2> QED
    BY <1>4, <2>5, <2>8, <2>9, <2>10, <2>11, <2>12, <2>13, <2>14, <2>15, <2>16
    DEF Get, Initialize, Change
<1>5. ASSUME NEW c \in Contexts, Create(c) \/ Destroy(c)
      PROVE  Service!Create(c) \/ Service!Destroy(c)
  <2>1. \A d \in Contexts \ {c} : Held'[d] = Held[d]
    <3>1. UNCHANGED <<heap, arena>> /\ \A d \in Contexts \ {c} : state'[d] = state[d]
      BY <1>5 DEF Create, Destroy, TypeOK
    <3> QED
      BY <3>1 DEF Held
  <2>2. ASSUME NEW s \in {"RESET", "absent"}, state' = [state EXCEPT ![c] = s]
        PROVE  Service!Becomes(c, s, Service!Blank)
    <3>1. Held'[c] = Blank
      BY <2>2 DEF Held, TypeOK
    <3> QED
      BY <2>1, <2>2, <3>1, BecomesOne DEF Service!Blank, Blank
  <2>3. CASE Create(c)
    BY <2>2, <2>3 DEF Create, Service!Create
  <2>4. CASE Destroy(c)
    BY <2>2, <2>4 DEF Destroy, Service!Destroy
  <2> QED
    BY <1>5, <2>3, <2>4
<1>6. CASE Environment \/ UNCHANGED vars
  BY <1>1, <1>6 DEF Environment, vars
<1> QED
  BY <1>2, <1>3, <1>4, <1>5, <1>6 DEF Next, Work, Service!Next

\* The contexts of a process whose lookups do not overlap do what the header
\* promises...
THEOREM ServiceUnlessRaced == Spec /\ []NoRace => ServiceSpec
<1>1. Init => Service!Init
  BY DEF Init, Held, NoAnswer, Service!Init, Service!Blank, Service!NoAnswer, Blank
<1> QED
  BY <1>1, ServiceStep, IInvAlways, UserInvAlways, PTL DEF Spec, ServiceSpec, Service!Spec

\* ...and so, without a condition, does the global context alone.
THEOREM ServiceAlways == OneContext /\ Spec => ServiceSpec
  BY OneContextNeverRaces, ServiceUnlessRaced
=============================================================================
