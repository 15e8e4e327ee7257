---------------------------- MODULE PasswdCursor ----------------------------
(***************************************************************************)
(* The lookups of passwd.c.  The buffer, the position in it and the fields *)
(* of the current row are static: every thread of the process shares them, *)
(* and they are protected only by whatever lock the caller holds.  A       *)
(* lookup is cut at each access to a shared cell.                          *)
(*                                                                         *)
(* The rows are those rdpw yields (see PasswdRows), a region is the memory *)
(* buffer_create returns.                                                  *)
(***************************************************************************)
EXTENDS Naturals, Sequences

CONSTANTS Threads,
          Locks,        \* the mutexes callers hold
          LockOf,       \* LockOf[t]: the one thread t holds during a lookup
          Regions,      \* addresses of the buffers
          Names, Uids,
          PasswdFiles,  \* the contents /etc/passwd may have
          NULL

Row == [name : Names, uid : Uids]

\* What the constants must be.
CursorOK ==
    /\ LockOf \in [Threads -> Locks]
    /\ PasswdFiles \subseteq Seq(Row)
    /\ Uids # {}
    /\ NULL \notin Threads \cup Regions \cup Names \cup Uids \cup PasswdFiles
    /\ NULL \notin Regions \X Nat

VARIABLES file,     \* what /etc/passwd contains
          mapped,   \* mapped[r]: the rows in region r, NULL when unmapped
          buffer, pos, starts,    \* the statics of passwd.c
          holder,   \* holder[l]: the thread that holds lock l
          pc, want, \* the place and the query of each thread
          at,       \* the <<region, row>> that rdpw is at, in its registers
          result,   \* what the lookup returns
          seen,     \* history: the file when the thread opened it
          crashed   \* memory was read where nothing is mapped

statics == <<buffer, pos, starts>>
locals  == <<want, at, result, seen>>
vars    == <<file, mapped, statics, holder, pc, locals, crashed>>

\* pw_has_uid, pw_get_uid and pw_get (for one item).
Queries == [kind : {"has_uid", "user_of"}, key : Uids]
           \cup [kind : {"uid_of"}, key : Names]

\* The column that a query compares and the one that it returns.
Compared(q) == IF q.kind = "uid_of" THEN "name" ELSE "uid"
Returned(q) == IF q.kind = "user_of" THEN "name" ELSE "uid"

Columns == {"name", "uid"}

\* No entry, or the file could not be opened.
NotFound == NULL

\* What a lookup of q in the rows f returns: the first row that matches.
Lookup(f, q) ==
    LET matching == {i \in DOMAIN f : f[i][Compared(q)] = q.key}
    IN  IF matching = {} THEN NotFound
        ELSE f[CHOOSE i \in matching : \A j \in matching : i <= j][Returned(q)]

Readable(p) == p # NULL /\ mapped[p[1]] # NULL /\ p[2] \in DOMAIN mapped[p[1]]

Goto(t, l) == pc' = [pc EXCEPT ![t] = l]

Crash == crashed' = TRUE /\ UNCHANGED <<file, mapped, statics, holder, pc, locals>>

-----------------------------------------------------------------------------
(* The caller takes its lock and asks.                                       *)
Enter(t) ==
    /\ pc[t] = "out"
    /\ holder[LockOf[t]] = NULL
    /\ holder' = [holder EXCEPT ![LockOf[t]] = t]
    /\ \E q \in Queries : want' = [want EXCEPT ![t] = q]
    /\ result' = [result EXCEPT ![t] = NotFound]
    /\ Goto(t, "rewind")
    /\ UNCHANGED <<file, mapped, statics, at, seen, crashed>>

Leave(t) ==
    /\ pc[t] = "leave"
    /\ holder' = [holder EXCEPT ![LockOf[t]] = NULL]
    /\ Goto(t, "out")
    /\ UNCHANGED <<file, mapped, statics, locals, crashed>>

\* Mutant of Rewind: the position stays.
RewindForgotten(t) ==
    /\ pc[t] = "rewind"
    /\ Goto(t, "open")
    /\ UNCHANGED <<file, mapped, statics, holder, locals, crashed>>

\* oppw: the position first, then the buffer; buffer_create may fail.
Rewind(t) ==
    /\ pc[t] = "rewind"
    /\ pos' = 0
    /\ Goto(t, "open")
    /\ UNCHANGED <<file, mapped, buffer, starts, holder, locals, crashed>>

Open(t) ==
    /\ pc[t] = "open"
    /\ \/ \E r \in Regions :
             /\ mapped[r] = NULL
             /\ mapped' = [mapped EXCEPT ![r] = file]
             /\ buffer' = r
             /\ seen' = [seen EXCEPT ![t] = file]
             /\ Goto(t, "next")
       \/ /\ seen' = [seen EXCEPT ![t] = <<>>]
          /\ Goto(t, "leave")
          /\ UNCHANGED <<mapped, buffer>>
    /\ UNCHANGED <<file, pos, starts, holder, want, at, result, crashed>>

\* rdpw: load the position, and leave when it is at the end.
NextRow(t) ==
    /\ pc[t] = "next"
    /\ IF mapped[buffer] = NULL
       THEN Crash
       ELSE /\ at' = [at EXCEPT ![t] = <<buffer, pos + 1>>]
            /\ Goto(t, IF pos < Len(mapped[buffer]) THEN "name" ELSE "close")
            /\ UNCHANGED <<file, mapped, statics, holder, want, result, seen, crashed>>

\* The columns are recorded one after the other while the row is scanned.
SetName(t) ==
    /\ pc[t] = "name"
    /\ IF ~Readable(at[t])
       THEN Crash
       ELSE /\ starts' = [starts EXCEPT !["name"] = at[t]]
            /\ Goto(t, "uid")
            /\ UNCHANGED <<file, mapped, buffer, pos, holder, locals, crashed>>

SetUid(t) ==
    /\ pc[t] = "uid"
    /\ IF ~Readable(at[t])
       THEN Crash
       ELSE /\ starts' = [starts EXCEPT !["uid"] = at[t]]
            /\ pos' = at[t][2]
            /\ Goto(t, "match")
            /\ UNCHANGED <<file, mapped, buffer, holder, locals, crashed>>

Cell(col) == mapped[starts[col][1]][starts[col][2]][col]

\* Mutant of Match: the file is closed before the answer is read in it.
MatchCloses(t) ==
    /\ pc[t] = "match" /\ Readable(starts[Compared(want[t])])
    /\ IF Cell(Compared(want[t])) = want[t].key
       THEN Goto(t, "take") /\ mapped' = [mapped EXCEPT ![buffer] = NULL]
       ELSE Goto(t, "next") /\ UNCHANGED mapped
    /\ UNCHANGED <<file, statics, holder, locals, crashed>>

Match(t) ==
    /\ pc[t] = "match"
    /\ IF ~Readable(starts[Compared(want[t])])
       THEN Crash
       ELSE /\ Goto(t, IF Cell(Compared(want[t])) = want[t].key THEN "take" ELSE "next")
            /\ UNCHANGED <<file, mapped, statics, holder, locals, crashed>>

\* Mutant of Take: the return inside the loop does not close the file.
TakeLeaks(t) ==
    /\ pc[t] = "take" /\ Readable(starts[Returned(want[t])])
    /\ result' = [result EXCEPT ![t] = Cell(Returned(want[t]))]
    /\ Goto(t, "leave")
    /\ UNCHANGED <<file, mapped, statics, holder, want, at, seen, crashed>>

Take(t) ==
    /\ pc[t] = "take"
    /\ IF ~Readable(starts[Returned(want[t])])
       THEN Crash
       ELSE /\ result' = [result EXCEPT ![t] = Cell(Returned(want[t]))]
            /\ Goto(t, "close")
            /\ UNCHANGED <<file, mapped, statics, holder, want, at, seen, crashed>>

\* clpw: unmapping an address where nothing is mapped is no error.
Close(t) ==
    /\ pc[t] = "close"
    /\ mapped' = [mapped EXCEPT ![buffer] = NULL]
    /\ Goto(t, "leave")
    /\ UNCHANGED <<file, statics, holder, locals, crashed>>

Edit ==
    /\ file' \in PasswdFiles
    /\ UNCHANGED <<mapped, statics, holder, pc, locals, crashed>>

-----------------------------------------------------------------------------
Init ==
    /\ file \in PasswdFiles
    /\ mapped = [r \in Regions |-> NULL]
    /\ buffer = NULL /\ pos = 0 /\ starts = [col \in Columns |-> NULL]
    /\ holder = [l \in Locks |-> NULL]
    /\ pc = [t \in Threads |-> "out"]
    /\ want = [t \in Threads |-> CHOOSE q \in Queries : TRUE]
    /\ at = [t \in Threads |-> NULL]
    /\ result = [t \in Threads |-> NotFound]
    /\ seen = [t \in Threads |-> <<>>]
    /\ crashed = FALSE

Step(t) == \/ Rewind(t) \/ Open(t) \/ NextRow(t) \/ SetName(t) \/ SetUid(t)
           \/ Match(t) \/ Take(t) \/ Close(t) \/ Leave(t)

Next == ~crashed /\ (Edit \/ \E t \in Threads : Enter(t) \/ Step(t))

Spec == Init /\ [][Next]_vars

-----------------------------------------------------------------------------
Cursors == Regions \X (Nat \ {0})
Labels == {"out", "rewind", "open", "next", "name", "uid", "match", "take", "close",
           "leave"}

\* Every variable keeps its type.
TypeOK ==
    /\ file \in PasswdFiles
    /\ mapped \in [Regions -> PasswdFiles \cup {NULL}]
    /\ buffer \in Regions \cup {NULL} /\ pos \in Nat
    /\ starts \in [Columns -> Cursors \cup {NULL}]
    /\ holder \in [Locks -> Threads \cup {NULL}]
    /\ pc \in [Threads -> Labels] /\ want \in [Threads -> Queries]
    /\ at \in [Threads -> Cursors \cup {NULL}]
    /\ result \in [Threads -> Names \cup Uids \cup {NotFound}]
    /\ seen \in [Threads -> PasswdFiles \cup {<<>>}]
    /\ crashed \in BOOLEAN

-----------------------------------------------------------------------------
(* Properties                                                                *)

\* No lookup reads a row in a buffer that was unmapped, by itself or by another
\* thread (rdpw and its callers, passwd.c:66).
NoWildRead == ~crashed

\* A lookup returns what the passwd file said when it was opened.
LookupRight ==
    \A t \in Threads : pc[t] = "leave" => result[t] = Lookup(seen[t], want[t])

\* "Returns 0 if uid is valid or -1 if not valid." (tzplatform_config.h:72): the
\* lookup that set_user asks for (pw_has_uid) finds a uid that the passwd file
\* it opened lists.
ValidUidFound ==
    \A t \in Threads :
        /\ pc[t] = "leave" /\ want[t].kind = "has_uid"
        /\ Lookup(seen[t], want[t]) # NotFound
        => result[t] # NotFound

\* The only buffer mapped is that of a lookup in progress: every return of the
\* lookups closes what it opened (the clpw of passwd.c:130, 140, 156, 172).
NothingLeaks ==
    \A r \in Regions : mapped[r] # NULL =>
        \E t \in Threads : pc[t] \notin {"out", "rewind", "open", "leave"} /\ buffer = r

=============================================================================
