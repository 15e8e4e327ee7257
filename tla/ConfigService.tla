--------------------------- MODULE ConfigService ---------------------------
(***************************************************************************)
(* What tzplatform_config.h promises of a context, without its mutex, heap *)
(* and passwd cursor: a context has a user and at most one evaluation of   *)
(* the configuration; the getters answer from that evaluation, and a reset *)
(* or a change of user forgets it.                                         *)
(***************************************************************************)
EXTENDS Naturals

CONSTANTS Threads, Contexts, Global, Vars, BadId, Uids, ProcessUids, MaxEdits,
          Defined, NamedUser, NotSet, NULL

VARIABLES user,     \* the user of each context
          state,    \* absent, RESET (not evaluated), ERROR or VALID
          content,  \* what a VALID context was evaluated from
          ans       \* the answer each thread is being given

vars == <<user, state, content, ans>>

Blank    == [conf |-> 0, who |-> NULL]
NoAnswer == [kind |-> "none"]

Defines(c, v) == state[c] = "VALID" /\ v \in Defined[content[c].conf]

UsersOf(c) == IF user[c] = NotSet THEN ProcessUids ELSE {user[c]}

Answer(t, a) == ans' = [ans EXCEPT ![t] = a]

Becomes(c, s, k) == /\ state' = [state EXCEPT ![c] = s]
                    /\ content' = [content EXCEPT ![c] = k]

\* The file, or the user's entry in passwd, may be missing.
Evaluate(c) ==
    /\ state[c] = "RESET"
    /\ \/ Becomes(c, "ERROR", Blank)
       \/ \E n \in 0..MaxEdits, w \in UsersOf(c) \cup {NULL} :
             Becomes(c, "VALID", [conf |-> n, who |-> w])
    /\ UNCHANGED <<user, ans>>

GetValue(t) ==
    /\ \E c \in Contexts, v \in Vars :
          /\ Defines(c, v)
          /\ Answer(t, [kind |-> "value", var |-> v, from |-> content[c]])
    /\ UNCHANGED <<user, state, content>>

GetNothing(t) ==
    /\ \E c \in Contexts, v \in Vars \cup {BadId} :
          /\ v = BadId \/ (state[c] # "RESET" /\ ~Defines(c, v))
          /\ Answer(t, [kind |-> "null", var |-> v])
    /\ UNCHANGED <<user, state, content>>

\* "Can return NULL in case of internal error."
GetFails(t) ==
    /\ \E c \in Contexts : state[c] = "VALID"
    /\ Answer(t, [kind |-> "nomemory"])
    /\ UNCHANGED <<user, state, content>>

GetUidOf(t) ==
    /\ \E u \in {NULL} \cup {NamedUser[v] :
                    v \in {w \in Vars : \E c \in Contexts : Defines(c, w)}} :
          Answer(t, [kind |-> "uid", uid |-> u])
    /\ UNCHANGED <<user, state, content>>

GetUserOf(t) ==
    /\ \E c \in Contexts : \E u \in UsersOf(c) :
          Answer(t, [kind |-> "user", uid |-> u])
    /\ UNCHANGED <<user, state, content>>

Forget(c) ==
    /\ state[c] # "absent"
    /\ Becomes(c, "RESET", Blank)
    /\ UNCHANGED <<user, ans>>

SetUser(t) ==
    /\ \E c \in Contexts, u \in Uids \cup {NotSet} :
          /\ state[c] # "absent"
          /\ user' = [user EXCEPT ![c] = u]
          /\ IF u = user[c] THEN UNCHANGED <<state, content>>
                            ELSE Becomes(c, "RESET", Blank)
    /\ Answer(t, [kind |-> "status", ok |-> TRUE])

RefuseUser(t) ==
    /\ Answer(t, [kind |-> "status", ok |-> FALSE])
    /\ UNCHANGED <<user, state, content>>

Return(t) ==
    /\ Answer(t, NoAnswer)
    /\ UNCHANGED <<user, state, content>>

Create(c) ==
    /\ state[c] = "absent"
    /\ Becomes(c, "RESET", Blank)
    /\ user' = [user EXCEPT ![c] = NotSet]
    /\ UNCHANGED ans

Destroy(c) ==
    /\ c # Global
    /\ Becomes(c, "absent", Blank)
    /\ UNCHANGED <<user, ans>>

Init == /\ user = [c \in Contexts |-> NotSet]
        /\ state = [c \in Contexts |-> IF c = Global THEN "RESET" ELSE "absent"]
        /\ content = [c \in Contexts |-> Blank]
        /\ ans = [t \in Threads |-> NoAnswer]

Next == \/ \E c \in Contexts : Evaluate(c) \/ Forget(c) \/ Create(c) \/ Destroy(c)
        \/ \E t \in Threads : \/ GetValue(t) \/ GetNothing(t) \/ GetFails(t)
                              \/ GetUidOf(t) \/ GetUserOf(t) \/ SetUser(t) \/ RefuseUser(t)
                              \/ Return(t)

Spec == Init /\ [][Next]_vars
=============================================================================
