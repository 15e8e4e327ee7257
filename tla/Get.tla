-------------------------------- MODULE Get --------------------------------
(***************************************************************************)
(* The command tzplatform-get: options, then keys.  The options that only  *)
(* change the layout (-e, -s) are left out; a long option, or several in   *)
(* one argument, are the same as short ones apart.                         *)
(***************************************************************************)
EXTENDS Naturals, Sequences, SequencesExt, FiniteSets

CONSTANTS Names,        \* the names of the variables, in the order of the ids
          Words,        \* the other arguments: some are names, some are users
          Nss,          \* Nss[w]: the uid of the user w of the system; the empty
                        \* text, which has digits only, is the uid 0
          Passwd,       \* the uids that /etc/passwd lists: those of set_user
          Self,         \* the user when none is set: that of the process
          MaxArgs,      \* bound: the arguments
          NULL

Options == {"-a", "-n", "-q", "-l", "-c", "-u", "-h", "-?"}    \* -?: any unknown one

VARIABLES argv,         \* the arguments that remain
          pc,
          opts, user,   \* the options, and the argument of -u
          keys,         \* history: the keys, NULL until the options are accepted
          sel,          \* the ids of the keys
          current,      \* the user of the context
          i,
          out,          \* what is printed: names, with the user of the value
          status

vars == <<argv, pc, opts, user, keys, sel, current, i, out, status>>

not == opts \cap {"-a", "-n"} # {}
Ids == 1..Len(Names)
Uid(w) == IF w \in DOMAIN Nss THEN Nss[w] ELSE NULL
Exit(s) == pc' = "exit" /\ status' = s

AtOption == argv # <<>> /\ Head(argv) \in Options

\* An error: the command goes on with --continue only.
Error(next) ==
    IF "-c" \in opts THEN pc' = next /\ UNCHANGED status ELSE Exit(1)

\* The user is the argument that follows, if any.
Option ==
    /\ pc = "options" /\ AtOption
    /\ LET o == Head(argv)
           rest == Tail(argv)
       IN  \/ /\ o \in {"-h", "-?"}
              /\ Exit(IF o = "-h" THEN 0 ELSE 1)
              /\ argv' = rest /\ UNCHANGED <<opts, user>>
           \/ /\ o = "-u"
              /\ user' = IF rest = <<>> THEN NULL ELSE Head(rest)
              /\ argv' = IF rest = <<>> THEN <<>> ELSE Tail(rest)
              /\ UNCHANGED <<pc, status, opts>>
           \/ /\ o \notin {"-h", "-?", "-u"}
              /\ opts' = opts \cup {o}
              /\ argv' = rest /\ UNCHANGED <<pc, status, user>>
    /\ UNCHANGED <<keys, sel, current, i, out>>

\* Options that do not go together are refused; the selection is allocated.
Checks ==
    /\ pc = "options" /\ ~AtOption
    /\ \/ Exit(1) /\ UNCHANGED keys
       \/ /\ "-q" \in opts => opts \cap {"-a", "-n", "-l", "-c"} = {}
          /\ "-a" \in opts => argv = <<>>
          /\ pc' = "keys" /\ keys' = argv /\ UNCHANGED status
    /\ UNCHANGED <<argv, opts, user, sel, current, i, out>>

\* tzplatform_getid; an unknown key ends a query.
Key ==
    /\ pc = "keys" /\ argv # <<>>
    /\ argv' = Tail(argv)
    /\ LET ids == {id \in Ids : Names[id] = Head(argv)}
       IN  /\ sel' = sel \cup ids
           /\ IF ids = {} THEN Error("keys") ELSE UNCHANGED <<pc, status>>
    /\ UNCHANGED <<opts, user, keys, current, i, out>>

KeysDone ==
    /\ pc = "keys" /\ argv = <<>>
    /\ IF "-q" \in opts THEN Exit(0) ELSE pc' = "user" /\ UNCHANGED status
    /\ UNCHANGED <<argv, opts, user, keys, sel, current, i, out>>

\* Mutant of SetUser: a user that the library refuses is no error.
SetUserAnyway ==
    /\ pc = "user"
    /\ IF user = NULL
       THEN pc' = "emit" /\ UNCHANGED <<current, status>>
       ELSE IF Uid(user) = NULL
            THEN Error("emit") /\ UNCHANGED current
            ELSE /\ current' = IF Uid(user) \in Passwd THEN Uid(user) ELSE current
                 /\ pc' = "emit" /\ UNCHANGED status
    /\ UNCHANGED <<argv, opts, user, keys, sel, i, out>>

\* The user is looked up in the system, and set if it is in /etc/passwd.
SetUser ==
    /\ pc = "user"
    /\ IF user = NULL
       THEN pc' = "emit" /\ UNCHANGED <<current, status>>
       ELSE IF Uid(user) \in Passwd
            THEN current' = Uid(user) /\ pc' = "emit" /\ UNCHANGED status
            ELSE Error("emit") /\ UNCHANGED current
    /\ UNCHANGED <<argv, opts, user, keys, sel, i, out>>

\* One turn of the loop that prints.
Emit ==
    /\ pc = "emit" /\ i \in Ids
    /\ i' = i + 1
    /\ out' = IF (i \in sel) # not
              THEN Append(out, <<Names[i], IF "-l" \in opts THEN NULL ELSE current>>)
              ELSE out
    /\ UNCHANGED <<argv, pc, opts, user, keys, sel, current, status>>

Emitted ==
    /\ pc = "emit" /\ i \notin Ids
    /\ Exit(0)
    /\ UNCHANGED <<argv, opts, user, keys, sel, current, i, out>>

Init ==
    /\ \E n \in 0..MaxArgs : argv \in [1..n -> Options \cup Words]
    /\ pc = "options" /\ opts = {} /\ user = NULL /\ keys = NULL
    /\ sel = {} /\ current = Self /\ i = 1 /\ out = <<>> /\ status = NULL

Next == Option \/ Checks \/ Key \/ KeysDone \/ SetUser \/ Emit \/ Emitted

Spec == Init /\ [][Next]_vars

-----------------------------------------------------------------------------
query == "-q" \in opts
known == keys # NULL /\ ToSet(keys) \subseteq ToSet(Names)
asked == IF user = NULL THEN Self ELSE Uid(user)
Wanted(name) == (name \in ToSet(keys)) # not

\* Nothing is printed when the command fails or answers a query, and the query is
\* answered right.
Silent == pc = "exit" /\ (status = 1 \/ query) => out = <<>>
Answered == pc = "exit" /\ query /\ keys # NULL => (status = 0) = known

\* The lines printed are those of ids, in order.
Prints(ids) ==
    \E place \in [DOMAIN out -> ids] :
        /\ \A m, n \in DOMAIN out : m < n => place[m] < place[n]
        /\ \A id \in ids : \E n \in DOMAIN out : place[n] = id
        /\ \A n \in DOMAIN out : out[n][1] = Names[place[n]]

\* The names are those wanted, in the order of the ids, the values those of the
\* user asked for.
NamesPrinted ==
    pc = "exit" /\ ~query /\ keys # NULL /\ status = 0 =>
        /\ Prints({id \in Ids : Wanted(Names[id])})
        /\ known \/ "-c" \in opts
UserPrinted ==
    \A n \in DOMAIN out : \/ out[n][2] \in {NULL, asked}
                          \/ out[n][2] = Self /\ "-c" \in opts

\* What is printed, whatever the options and their order: names in the order of
\* the ids, each a key and the keys all there, or with --not or --all the others;
\* values of the asked user, or with --continue of the user of the process when
\* that one cannot be set; nothing at all when the command fails or answers a
\* query (tzplatform_get.c:169-214).
GetPrints == Silent /\ Answered /\ NamesPrinted /\ UserPrinted
=============================================================================
