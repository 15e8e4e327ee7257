------------------------------ MODULE Context ------------------------------
(***************************************************************************)
(* The platform contexts of shared-api.c, context.c and init.c: threads    *)
(* call the API on contexts, each context is guarded by its own mutex and  *)
(* caches in a read-only heap the values evaluated from the configuration  *)
(* file for its user.  A call is a sequence of steps of its thread; the    *)
(* steps are cut where another thread, or the environment, can act.        *)
(*                                                                         *)
(* The data is abstract: the configuration file is a version number, the   *)
(* passwd file is the set of uids it lists, and the content of a heap is   *)
(* the version and the user it was evaluated from.                         *)
(***************************************************************************)
EXTENDS Naturals

CONSTANTS Threads,      \* threads of the client process
          Contexts,     \* addresses of struct tzplatform_context
          Global,       \* the static global_context, one of Contexts
          Heaps,        \* addresses mmap can return for a heap
          Vars,         \* the variables, ids 0.._TZPLATFORM_VARIABLES_COUNT_-1
          BadId,        \* an id outside of that range
          Uids,         \* user ids
          ProcessUids,  \* the uids the process may run as
          PasswdFiles,  \* the sets of uids /etc/passwd may list
          MaxEdits,     \* bound: number of edits of the configuration file
          Defined,      \* Defined[n]: variables version n of the file defines
          NamedUser,    \* NamedUser[v]: the user whose name is the value of v
          NotSet,       \* _USER_NOT_SET_
          NULL

Versions == 0..MaxEdits

ASSUME ContextAssumption ==
    /\ Global \in Contexts
    /\ MaxEdits \in Nat
    /\ ProcessUids \subseteq Uids
    /\ PasswdFiles \subseteq SUBSET Uids
    /\ Defined \in [Versions -> SUBSET Vars]
    /\ NamedUser \in [Vars -> Uids]
    /\ BadId \notin Vars
    /\ NotSet \notin Uids
    /\ NULL \notin Threads \cup Contexts \cup Heaps \cup Uids

VARIABLES
    file, passwd, procUid,              \* the environment
    passwds,                            \* history: what passwd has listed
    mutex, state, user, heap, values,   \* struct tzplatform_context
    live, arena,                        \* mapped heaps and their contents
    pwIn, pwRaced,                      \* threads inside passwd.c, and those
                                        \* whose stay overlapped another one
    unread,                             \* threads whose lookup could not open
                                        \* passwd, a set_user's till it returns
    pc, op, ctx, arg,                   \* the call each thread is making
    snap, ptr, ans,                     \* its buffer, value and answer
    floor,                              \* history: the version of the file
                                        \* when the context was last dropped,
    uids                                \* and the uids of the process since

envVars  == <<file, passwd, procUid, passwds>>
ctxVars  == <<mutex, state, user, heap, values>>
heapVars == <<live, arena>>
pwVars   == <<pwIn, pwRaced, unread>>
callVars == <<op, ctx, arg>>
history  == <<floor, uids>>
vars     == <<envVars, ctxVars, heapVars, pwVars, pc, callVars, snap, ptr, ans,
              history>>

Ops     == {"get", "getuid", "set_user", "reset", "get_user"}
Content == [conf : Versions, who : Uids \cup {NULL}]
Blank   == [conf |-> 0, who |-> NULL]

\* Answers: none yet, a string value or a null pointer for an id, the null pointer
\* of an allocation that failed, the uid of a name (NULL is (uid_t)-1), the user
\* of the context, a status.
NoAnswer     == [kind |-> "none"]
NoMemory     == [kind |-> "nomemory"]
Value(v, k)  == [kind |-> "value", var |-> v, from |-> k]
Nothing(v)   == [kind |-> "null", var |-> v]
Uid(u)       == [kind |-> "uid", uid |-> u]
User(u)      == [kind |-> "user", uid |-> u]
Status(ok)   == [kind |-> "status", ok |-> ok]
Answers == {NoAnswer, NoMemory} \cup {Value(v, k) : v \in Vars, k \in Content}
           \cup {Nothing(v) : v \in Vars \cup {BadId}}
           \cup {Uid(u) : u \in Uids \cup {NULL}} \cup {User(u) : u \in Uids}
           \cup {Status(ok) : ok \in BOOLEAN}

\* Mutant of get_uid: the user that is not set is not replaced by the process's.
get_uid_Raw(c) == user[c]

get_uid(c) == IF user[c] = NotSet THEN procUid ELSE user[c]

-----------------------------------------------------------------------------
(* passwd.c as its callers see it.  Its cursor is static and takes no lock  *)
(* (PasswdCursor shows its steps): a lookup is exact when no other thread   *)
(* was inside at the same time, and returns anything when one was.  Opening *)
(* the file may fail, and then the lookup finds nobody.                     *)

PwEnter(t) ==
    /\ pwIn' = pwIn \cup {t}
    /\ pwRaced' = IF pwIn = {} THEN pwRaced ELSE pwRaced \cup pwIn \cup {t}
    /\ unread' \in {unread, unread \cup {t}}

PwLeave(t) ==
    /\ pwIn' = pwIn \ {t}
    /\ pwRaced' = pwRaced \ {t}

PwFinds(t, u) ==
    IF t \in pwRaced THEN Uids \cup {NULL}
                     ELSE {IF u \in passwd /\ t \notin unread THEN u ELSE NULL}

-----------------------------------------------------------------------------
Goto(t, l) == pc' = [pc EXCEPT ![t] = l]
Answer(t, a) == ans' = [ans EXCEPT ![t] = a]

\* Critical(t): t has locked the context of its call.
Critical(t) == pc[t] \notin {"idle", "lock"}

Call(t) ==
    /\ pc[t] = "idle"
    /\ \E o \in Ops, c \in Contexts :
          /\ state[c] # "absent"
          /\ op' = [op EXCEPT ![t] = o]
          /\ ctx' = [ctx EXCEPT ![t] = c]
          /\ \E a \in CASE o \in {"get", "getuid"} -> Vars \cup {BadId}
                        [] o = "set_user" -> Uids \cup {NotSet}
                        [] OTHER -> {NULL} :
                arg' = [arg EXCEPT ![t] = a]
    /\ Goto(t, "lock")
    /\ UNCHANGED <<envVars, ctxVars, heapVars, pwVars, snap, ptr, ans, history>>

\* Mutant of Lock: the mutex is not waited for.
LockAnyway(t) ==
    /\ pc[t] = "lock"
    /\ mutex' = [mutex EXCEPT ![ctx[t]] = t]
    /\ Goto(t, IF op[t] = "getuid" THEN "get" ELSE op[t])
    /\ UNCHANGED <<envVars, state, user, heap, values, heapVars, pwVars,
                   callVars, snap, ptr, ans, history>>

Lock(t) ==
    /\ pc[t] = "lock"
    /\ mutex[ctx[t]] = NULL
    /\ mutex' = [mutex EXCEPT ![ctx[t]] = t]
    /\ Goto(t, IF op[t] = "getuid" THEN "get" ELSE op[t])
    /\ UNCHANGED <<envVars, state, user, heap, values, heapVars, pwVars,
                   callVars, snap, ptr, ans, history>>

\* The unlock that ends every public function; the answer is returned.
Unlock(t) ==
    /\ pc[t] = "unlock"
    /\ mutex' = [mutex EXCEPT ![ctx[t]] = NULL]
    /\ Goto(t, "idle")
    /\ op' = [op EXCEPT ![t] = "reset"]
    /\ ctx' = [ctx EXCEPT ![t] = Global]
    /\ arg' = [arg EXCEPT ![t] = NULL]
    /\ snap' = [snap EXCEPT ![t] = 0]
    /\ ptr' = [ptr EXCEPT ![t] = NULL]
    /\ Answer(t, NoAnswer)
    /\ unread' = unread \ {t}
    /\ UNCHANGED <<envVars, state, user, heap, values, heapVars, pwIn, pwRaced,
                   history>>

-----------------------------------------------------------------------------
(* get_lock, and initialize() called from it.                               *)

\* Mutant of GetLock: the values are evaluated again when they are valid.
GetLockAgain(t) ==
    /\ pc[t] = "get"
    /\ Goto(t, IF arg[t] = BadId THEN "value"
               ELSE IF state[ctx[t]] # "ERROR" THEN "open" ELSE "fetch")
    /\ UNCHANGED <<envVars, ctxVars, heapVars, pwVars, callVars, snap, ptr,
                   ans, history>>

GetLock(t) ==
    /\ pc[t] = "get"
    /\ Goto(t, IF arg[t] = BadId THEN "value"
               ELSE IF state[ctx[t]] = "RESET" THEN "open" ELSE "fetch")
    /\ UNCHANGED <<envVars, ctxVars, heapVars, pwVars, callVars, snap, ptr,
                   ans, history>>

InitFails(t) ==
    /\ state' = [state EXCEPT ![ctx[t]] = "ERROR"]
    /\ Goto(t, "fetch")

\* Clear the values, read the file (it may be missing or unreadable).
InitOpen(t) ==
    /\ pc[t] = "open"
    /\ values' = [values EXCEPT ![ctx[t]] = [v \in Vars |-> NULL]]
    /\ \/ /\ snap' = [snap EXCEPT ![t] = file]
          /\ Goto(t, "create")
          /\ UNCHANGED state
       \/ InitFails(t) /\ UNCHANGED snap
    /\ UNCHANGED <<envVars, mutex, user, heap, heapVars, pwVars, callVars, ptr,
                   ans, history>>

InitHeap(t) ==
    /\ pc[t] = "create"
    /\ \/ \E h \in Heaps \ live :
             /\ heap' = [heap EXCEPT ![ctx[t]] = h]
             /\ live' = live \cup {h}
             /\ arena' = [arena EXCEPT ![h] = Blank]
             /\ PwEnter(t)
             /\ Goto(t, "parse")
             /\ UNCHANGED state
       \/ InitFails(t) /\ UNCHANGED <<heap, heapVars, pwVars>>
    /\ UNCHANGED <<envVars, mutex, user, values, callVars, snap, ptr, ans, history>>

\* The parse with init.c's callbacks: the values go to the heap, the home and
\* the name of the user are looked up in passwd when the file mentions them.
\* The heap is taken to grow as needed (see Heap, and Evaluation when it fails).
InitParse(t) ==
    /\ pc[t] = "parse"
    /\ \E w \in PwFinds(t, get_uid(ctx[t])) :
          arena' = [arena EXCEPT ![heap[ctx[t]]] = [conf |-> snap[t], who |-> w]]
    /\ PwLeave(t) /\ unread' = unread \ {t}
    /\ Goto(t, "publish")
    /\ UNCHANGED <<envVars, ctxVars, live, callVars, snap, ptr, ans, history>>

\* A variable the file does not define keeps what "open" left in it.
InitPublish(t) ==
    /\ pc[t] = "publish"
    /\ values' = [values EXCEPT ![ctx[t]] =
          [v \in Vars |-> IF v \in Defined[snap[t]] THEN heap[ctx[t]] ELSE @[v]]]
    /\ state' = [state EXCEPT ![ctx[t]] = "VALID"]
    /\ Goto(t, "fetch")
    /\ UNCHANGED <<envVars, mutex, user, heap, heapVars, pwVars, callVars, snap,
                   ptr, ans, history>>

Fetch(t) ==
    /\ pc[t] = "fetch"
    /\ ptr' = [ptr EXCEPT ![t] =
          IF state[ctx[t]] = "ERROR" THEN NULL ELSE values[ctx[t]][arg[t]]]
    /\ Goto(t, "value")
    /\ UNCHANGED <<envVars, ctxVars, heapVars, pwVars, callVars, snap, ans, history>>

-----------------------------------------------------------------------------
(* The getters: the string ones (getenv, getenv_int, mkstr, mkpath...) read  *)
(* the value while they hold the lock, most of them through scratchcat, which *)
(* may lack memory (see Scratch); getuid and getgid then look the value up   *)
(* as a user name.                                                           *)

ReadNothing(t) ==
    /\ pc[t] = "value" /\ ptr[t] = NULL
    /\ Answer(t, IF op[t] = "getuid" THEN Uid(NULL) ELSE Nothing(arg[t]))
    /\ Goto(t, "unlock")
    /\ UNCHANGED <<envVars, ctxVars, heapVars, pwVars, callVars, snap, ptr, history>>

ReadValue(t) ==
    /\ pc[t] = "value" /\ ptr[t] # NULL /\ op[t] = "get"
    /\ \/ Answer(t, Value(arg[t], arena[ptr[t]]))
       \/ Answer(t, NoMemory)
    /\ Goto(t, "unlock")
    /\ UNCHANGED <<envVars, ctxVars, heapVars, pwVars, callVars, snap, ptr, history>>

ReadName(t) ==
    /\ pc[t] = "value" /\ ptr[t] # NULL /\ op[t] = "getuid"
    /\ PwEnter(t)
    /\ Goto(t, "lookup")
    /\ UNCHANGED <<envVars, ctxVars, heapVars, callVars, snap, ptr, ans, history>>

LookupName(t) ==
    /\ pc[t] = "lookup"
    /\ \E u \in PwFinds(t, NamedUser[arg[t]]) : Answer(t, Uid(u))
    /\ PwLeave(t) /\ unread' = unread \ {t}
    /\ Goto(t, "unlock")
    /\ UNCHANGED <<envVars, ctxVars, heapVars, callVars, snap, ptr, history>>

GetUser(t) ==
    /\ pc[t] = "get_user"
    /\ Answer(t, User(get_uid(ctx[t])))
    /\ Goto(t, "unlock")
    /\ UNCHANGED <<envVars, ctxVars, heapVars, pwVars, callVars, snap, ptr, history>>

-----------------------------------------------------------------------------
(* The operations that drop what was evaluated.                              *)

\* Dropped(c): what is evaluated from now on is of the present.
Dropped(c) ==
    /\ floor' = [floor EXCEPT ![c] = file]
    /\ uids' = [uids EXCEPT ![c] = {procUid}]

\* Mutants of Drop: the heap is not destroyed, or nothing is dropped.
DropLeaks(c) ==
    /\ live' = live
    /\ state' = [state EXCEPT ![c] = "RESET"]
    /\ Dropped(c)

DropNothing(c) ==
    /\ UNCHANGED <<live, state>>
    /\ Dropped(c)

\* heap_destroy when VALID, then RESET.
Drop(c) ==
    /\ live' = IF state[c] = "VALID" THEN live \ {heap[c]} ELSE live
    /\ state' = [state EXCEPT ![c] = "RESET"]
    /\ Dropped(c)

Reset(t) ==
    /\ pc[t] = "reset"
    /\ Drop(ctx[t])
    /\ Goto(t, "unlock")
    /\ UNCHANGED <<envVars, mutex, user, heap, values, arena, pwVars, callVars,
                   snap, ptr, ans>>

\* Mutant of SetUser: the early return forgets to unlock.
SetUserKeepsLock(t) ==
    /\ pc[t] = "set_user"
    /\ \/ /\ user[ctx[t]] = arg[t]
          /\ Answer(t, NoAnswer) /\ Goto(t, "idle")
          /\ UNCHANGED pwVars
       \/ /\ user[ctx[t]] # arg[t] /\ arg[t] = NotSet
          /\ Goto(t, "switch")
          /\ UNCHANGED <<ans, pwVars>>
       \/ /\ user[ctx[t]] # arg[t] /\ arg[t] # NotSet
          /\ PwEnter(t) /\ Goto(t, "check")
          /\ UNCHANGED ans
    /\ UNCHANGED <<envVars, ctxVars, heapVars, callVars, snap, ptr, history>>

\* Nothing to do for the user already set; a uid other than (uid_t)-1 is
\* looked up in passwd before the switch.
SetUser(t) ==
    /\ pc[t] = "set_user"
    /\ \/ /\ user[ctx[t]] = arg[t]
          /\ Answer(t, Status(TRUE)) /\ Goto(t, "unlock")
          /\ UNCHANGED pwVars
       \/ /\ user[ctx[t]] # arg[t] /\ arg[t] = NotSet
          /\ Goto(t, "switch")
          /\ UNCHANGED <<ans, pwVars>>
       \/ /\ user[ctx[t]] # arg[t] /\ arg[t] # NotSet
          /\ PwEnter(t) /\ Goto(t, "check")
          /\ UNCHANGED ans
    /\ UNCHANGED <<envVars, ctxVars, heapVars, callVars, snap, ptr, history>>

\* Mutant of CheckUser: the answer of the lookup is not looked at.
CheckUserBlind(t) ==
    /\ pc[t] = "check"
    /\ Goto(t, "switch")
    /\ PwLeave(t)
    /\ UNCHANGED <<envVars, ctxVars, heapVars, unread, callVars, snap, ptr, ans,
                   history>>

CheckUser(t) ==
    /\ pc[t] = "check"
    /\ \E u \in PwFinds(t, arg[t]) :
          IF u = NULL THEN Answer(t, Status(FALSE)) /\ Goto(t, "unlock")
                      ELSE Goto(t, "switch") /\ UNCHANGED ans
    /\ PwLeave(t)
    /\ UNCHANGED <<envVars, ctxVars, heapVars, unread, callVars, snap, ptr, history>>

SwitchUser(t) ==
    /\ pc[t] = "switch"
    /\ Drop(ctx[t])
    /\ user' = [user EXCEPT ![ctx[t]] = arg[t]]
    /\ Answer(t, Status(TRUE))
    /\ Goto(t, "unlock")
    /\ UNCHANGED <<envVars, mutex, heap, values, arena, pwVars, callVars, snap,
                   ptr>>

-----------------------------------------------------------------------------
(* Creation and destruction of the contexts other than the global one.       *)

Create(c) ==
    /\ state[c] = "absent"
    /\ state' = [state EXCEPT ![c] = "RESET"]
    /\ user' = [user EXCEPT ![c] = NotSet]
    /\ mutex' = [mutex EXCEPT ![c] = NULL]
    /\ Dropped(c)
    /\ UNCHANGED <<envVars, heap, values, heapVars, pwVars, pc, callVars, snap,
                   ptr, ans>>

\* It takes no lock: the header asks that the context is not in use.
Destroy(c) ==
    /\ c # Global /\ state[c] # "absent"
    /\ \A t \in Threads : pc[t] # "idle" => ctx[t] # c
    /\ live' = IF state[c] = "VALID" THEN live \ {heap[c]} ELSE live
    /\ state' = [state EXCEPT ![c] = "absent"]
    /\ UNCHANGED <<envVars, mutex, user, heap, values, arena, pwVars, pc,
                   callVars, snap, ptr, ans, history>>

-----------------------------------------------------------------------------
(* The environment: the administrator edits the two files, the program       *)
(* changes its uid.                                                          *)

Edit ==
    /\ file < MaxEdits
    /\ file' = file + 1
    /\ UNCHANGED <<passwd, procUid, passwds>>

EditPasswd ==
    /\ passwd' \in PasswdFiles
    /\ passwds' = passwds \cup {passwd'}
    /\ UNCHANGED <<file, procUid>>

SetProcessUid(u) ==
    /\ procUid' = u
    /\ uids' = [c \in Contexts |-> uids[c] \cup {u}]
    /\ UNCHANGED <<file, passwd, passwds>>

Environment ==
    /\ \/ Edit /\ UNCHANGED uids
       \/ EditPasswd /\ UNCHANGED uids
       \/ \E u \in ProcessUids : SetProcessUid(u)
    /\ UNCHANGED <<ctxVars, heapVars, pwVars, pc, callVars, snap, ptr, ans, floor>>

-----------------------------------------------------------------------------
Init ==
    /\ file = 0 /\ passwd \in PasswdFiles /\ procUid \in ProcessUids
    /\ mutex = [c \in Contexts |-> NULL]
    /\ state = [c \in Contexts |-> IF c = Global THEN "RESET" ELSE "absent"]
    /\ user = [c \in Contexts |-> NotSet]
    /\ heap = [c \in Contexts |-> NULL]
    /\ values = [c \in Contexts |-> [v \in Vars |-> NULL]]
    /\ live = {} /\ arena = [h \in Heaps |-> Blank]
    /\ passwds = {passwd}
    /\ pwIn = {} /\ pwRaced = {} /\ unread = {}
    /\ pc = [t \in Threads |-> "idle"]
    /\ op = [t \in Threads |-> "reset"]
    /\ ctx = [t \in Threads |-> Global]
    /\ arg = [t \in Threads |-> NULL]
    /\ snap = [t \in Threads |-> 0]
    /\ ptr = [t \in Threads |-> NULL]
    /\ ans = [t \in Threads |-> NoAnswer]
    /\ floor = [c \in Contexts |-> 0] /\ uids = [c \in Contexts |-> {procUid}]

Initialize(t) == InitOpen(t) \/ InitHeap(t) \/ InitParse(t) \/ InitPublish(t)

Get(t) == \/ GetLock(t) \/ Initialize(t) \/ Fetch(t)
          \/ ReadNothing(t) \/ ReadValue(t) \/ ReadName(t) \/ LookupName(t)

Change(t) == Reset(t) \/ SetUser(t) \/ CheckUser(t) \/ SwitchUser(t)

\* What a thread does between the lock and the end of its call.
Work(t) == Get(t) \/ GetUser(t) \/ Change(t) \/ Unlock(t)

Next == \/ \E t \in Threads : Call(t) \/ Lock(t) \/ Work(t)
        \/ \E c \in Contexts : Create(c) \/ Destroy(c)
        \/ Environment

Spec == Init /\ [][Next]_vars

\* A thread that holds a mutex keeps running: none of its steps blocks.
FairSpec == Spec /\ \A t \in Threads : WF_vars(Work(t))

-----------------------------------------------------------------------------
Labels == {"idle", "lock", "unlock", "get", "open", "create", "parse", "publish",
           "fetch", "value", "lookup", "set_user", "check", "switch", "reset",
           "get_user"}

\* Every variable keeps its type (enum STATE has "absent" for freed memory).
TypeOK ==
    /\ file \in Versions /\ passwd \in SUBSET Uids /\ procUid \in Uids
    /\ mutex \in [Contexts -> Threads \cup {NULL}]
    /\ state \in [Contexts -> {"RESET", "ERROR", "VALID", "absent"}]
    /\ user \in [Contexts -> Uids \cup {NotSet}]
    /\ heap \in [Contexts -> Heaps \cup {NULL}]
    /\ values \in [Contexts -> [Vars -> Heaps \cup {NULL}]]
    /\ live \in SUBSET Heaps /\ arena \in [Heaps -> Content]
    /\ passwds \in SUBSET SUBSET Uids
    /\ pwIn \in SUBSET Threads /\ pwRaced \in SUBSET pwIn /\ unread \in SUBSET Threads
    /\ pc \in [Threads -> Labels] /\ op \in [Threads -> Ops]
    /\ ctx \in [Threads -> Contexts]
    /\ arg \in [Threads -> Vars \cup Uids \cup {BadId, NotSet, NULL}]
    /\ snap \in [Threads -> Versions]
    /\ ptr \in [Threads -> Heaps \cup {NULL}]
    /\ ans \in [Threads -> Answers]
    /\ floor \in [Contexts -> Versions] /\ uids \in [Contexts -> SUBSET Uids]

-----------------------------------------------------------------------------
(* Properties                                                                *)

\* A getter reads the value it fetched, and initialize() writes the values,
\* in the mapped heap of the context of the call: no reset, change of user or
\* destruction unmaps it in between (shared-api.c:97, init.c:419).
NoUseAfterUnmap ==
    \A t \in Threads :
        /\ pc[t] \in {"value", "lookup"} /\ ptr[t] # NULL =>
              ptr[t] = heap[ctx[t]] /\ ptr[t] \in live
        /\ pc[t] \in {"parse", "publish"} => heap[ctx[t]] \in live

\* Owns(c): c has a heap, published or under construction.
Owns(c) == \/ state[c] = "VALID"
           \/ \E t \in Threads : ctx[t] = c /\ pc[t] \in {"parse", "publish"}

\* The mapped heaps are exactly those of the contexts that own one, and no two
\* contexts share one: every path that leaves VALID destroys the heap once
\* (shared-api.c:129, 142 and 184).
HeapsOwned ==
    /\ live = {heap[c] : c \in {d \in Contexts : Owns(d)}}
    /\ \A c, d \in Contexts : Owns(c) /\ Owns(d) /\ heap[c] = heap[d] => c = d

\* The values of a context were evaluated for the user set in it, whatever
\* calls were interleaved with set_user; when none is set, for a uid that the
\* process had since the last reset, so that the reset the header asks for "in
\* case of changing of user" is enough (tzplatform_config.h:62, context.c:45).
UserCoherent ==
    \A c \in Contexts :
        state[c] = "VALID"
            => arena[heap[c]].who \in
                  {NULL} \cup (IF user[c] = NotSet THEN uids[c] ELSE {user[c]})

\* An answer is not older than the last reset or change of user of the context:
\* "Enforces the removal of the previously evaluated" variables.
FreshAnswer ==
    \A t \in Threads :
        ans[t].kind = "value" => ans[t].from.conf >= floor[ctx[t]]

\* set_user never answers 0 to a uid that passwd has not listed, and answers -1
\* to one that it has always listed only when it could not open the file, while
\* other threads edit it and other calls look names up ("Returns 0 if uid is
\* valid or -1 if not valid", tzplatform_config.h:72; passwd.c:135).
SetUserVerdict ==
    \A t \in Threads :
        pc[t] = "unlock" /\ op[t] = "set_user" =>
            IF ans[t].ok
            THEN arg[t] = NotSet \/ \E p \in passwds : arg[t] \in p
            ELSE t \in unread \/ \E p \in passwds : arg[t] \notin p

\* What a valid context holds does not change under its readers: another
\* context that maps, fills or unmaps a heap never touches it.
ValuesStable ==
    [][\A c \in Contexts :
          state[c] = "VALID" /\ state'[c] = "VALID"
              => /\ heap'[c] = heap[c] /\ values'[c] = values[c]
                 /\ arena'[heap[c]] = arena[heap[c]]]_vars

\* Every path through a call, the early returns included, ends by unlocking.
LocksReleased ==
    \A c \in Contexts : mutex[c] # NULL ~> mutex[c] = NULL

\* What each context was evaluated from, Blank when it is not VALID.
Held == [c \in Contexts |-> IF state[c] = "VALID" THEN arena[heap[c]] ELSE Blank]

\* The service the header describes: see ConfigService.
Service == INSTANCE ConfigService WITH content <- Held
ServiceSpec == Service!Spec
=============================================================================
