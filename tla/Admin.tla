------------------------------- MODULE Admin -------------------------------
(***************************************************************************)
(* _has_system_group_static_ (isadmin.c), the answer of                    *)
(* tzplatform_has_system_group: is a user in the administration group?     *)
(* The call asks the system for users and groups several times, while its  *)
(* administrator changes them.                                             *)
(***************************************************************************)
EXTENDS Integers, FiniteSets

CONSTANTS Uids, Gids,
          Variable,     \* the name of TZ_SYS_ADMIN_GROUP
          Group,        \* the group "system"
          MaxChanges,   \* bound: changes of the users and groups
          NULL

Caller == -1

VARIABLES
    gidOf,      \* gidOf[name]: the gid of this group, NULL when getgrnam_r
                \* gives none
    primary,    \* primary[u]: the group of the user, NULL when getpwuid_r gives
                \* no user
    others,     \* others[u]: the groups that name the user as a member
    changes,
    own,        \* the uid of the process
    pc, uid, sysgrpname, systemGid, pwGid, nbgroups, groups,    \* the call
    verdict,
    seen        \* history: what the system was during the call

system == <<gidOf, primary, others>>
vars == <<system, changes, own, pc, uid, sysgrpname, systemGid, pwGid, nbgroups,
          groups, verdict, seen>>

env == <<system, changes, own>>
asked == <<uid, sysgrpname>>

Give(v) == verdict' = v /\ pc' = "done"
List == {pwGid} \cup others[uid]

\* The name comes of tzplatform_getname, and may be NULL (see NameTable).
Call ==
    /\ pc = "call"
    /\ \E u \in Uids \cup {Caller} : uid' = IF u = Caller THEN own ELSE u
    /\ sysgrpname' \in {Variable, NULL}
    /\ pc' = "group"
    /\ seen' = {system}
    /\ UNCHANGED <<env, systemGid, pwGid, nbgroups, groups, verdict>>

NoName ==
    /\ pc = "group" /\ sysgrpname = NULL
    /\ Give(-1)
    /\ UNCHANGED <<env, asked, systemGid, pwGid, nbgroups, groups, seen>>

\* The group that has this name.
FindGroup ==
    /\ pc = "group" /\ sysgrpname # NULL
    /\ systemGid' = gidOf[sysgrpname]
    /\ IF gidOf[sysgrpname] = NULL THEN Give(-1) ELSE pc' = "user" /\ UNCHANGED verdict
    /\ UNCHANGED <<env, asked, pwGid, nbgroups, groups, seen>>

\* The entry of the user, which the next step uses without a check.
FindUser ==
    /\ pc = "user"
    /\ pwGid' = primary[uid]
    /\ pc' = IF primary[uid] = NULL THEN "crashed" ELSE "count"
    /\ UNCHANGED <<env, asked, systemGid, nbgroups, groups, verdict, seen>>

\* Asked with no room, the list is refused and its size given; then malloc.
CountGroups ==
    /\ pc = "count"
    /\ nbgroups' = Cardinality(List)
    /\ \/ pc' = "list" /\ UNCHANGED verdict
       \/ Give(-1)
    /\ UNCHANGED <<env, asked, systemGid, pwGid, groups, seen>>

\* Mutant of ListGroups: what fits is taken for the list.
ListWhatFits ==
    /\ pc = "list"
    /\ groups' \in {l \in SUBSET List :
                       pwGid \in l /\ (l = List \/ Cardinality(l) = nbgroups)}
    /\ pc' = "scan"
    /\ UNCHANGED <<env, asked, systemGid, pwGid, nbgroups, verdict, seen>>

\* A list that has grown does not fit any more; one that has shrunk sets its size.
ListGroups ==
    /\ pc = "list"
    /\ IF Cardinality(List) > nbgroups
       THEN Give(-1) /\ UNCHANGED <<nbgroups, groups>>
       ELSE /\ groups' = List /\ nbgroups' = Cardinality(List)
            /\ pc' = "scan" /\ UNCHANGED verdict
    /\ UNCHANGED <<env, asked, systemGid, pwGid, seen>>

Scan ==
    /\ pc = "scan"
    /\ Give(IF systemGid \in groups THEN 1 ELSE 0)
    /\ UNCHANGED <<env, asked, systemGid, pwGid, nbgroups, groups, seen>>

\* The administrator adds, changes or removes a group, a user or a membership.
Change ==
    /\ pc \notin {"call", "done", "crashed"} /\ changes < MaxChanges
    /\ changes' = changes + 1
    /\ \/ /\ \E name \in DOMAIN gidOf, g \in Gids \cup {NULL} :
                gidOf' = [gidOf EXCEPT ![name] = g]
          /\ UNCHANGED <<primary, others>>
       \/ /\ \E u \in Uids, g \in Gids \cup {NULL} :
                primary' = [primary EXCEPT ![u] = g]
          /\ UNCHANGED <<gidOf, others>>
       \/ /\ \E u \in Uids, gs \in SUBSET Gids : others' = [others EXCEPT ![u] = gs]
          /\ UNCHANGED <<gidOf, primary>>
    /\ seen' = seen \cup {system'}
    /\ UNCHANGED <<own, pc, asked, systemGid, pwGid, nbgroups, groups, verdict>>

Init ==
    /\ gidOf \in [{Variable, Group} -> Gids \cup {NULL}]
    /\ primary \in [Uids -> Gids \cup {NULL}]
    /\ others \in [Uids -> SUBSET Gids]
    /\ changes = 0
    /\ own \in Uids
    /\ pc = "call" /\ uid = own /\ sysgrpname = NULL
    /\ systemGid = NULL /\ pwGid = NULL /\ nbgroups = 0 /\ groups = {}
    /\ verdict = NULL /\ seen = {}

Next == Call \/ NoName \/ FindGroup \/ FindUser \/ CountGroups \/ ListGroups \/ Scan
        \/ Change

Spec == Init /\ [][Next]_vars

-----------------------------------------------------------------------------
\* What the system had during the call: a gid of the group, a group of the user
\* and a list of its other groups.
Seen(P(_, _)) ==
    \E s1, s2, s3 \in seen :
        LET gid == s1[1][sysgrpname]  first == s2[2][uid]  rest == s3[3][uid]
        IN  gid # NULL /\ first # NULL /\ P(gid, {first} \cup rest)

\* An answer 1 or 0 is that of a group and of whole lists of groups that the
\* system had during the call, even when they change between the count and the
\* list (isadmin.c:81-105).
AdminVerdict ==
    /\ verdict = 1 => Seen(LAMBDA gid, list : gid \in list)
    /\ verdict = 0 => Seen(LAMBDA gid, list : gid \notin list)

\* "Return -1 in case of error." (tzplatform_config.h:388): a call always gives an
\* answer, also for a user that the system does not know (isadmin.c:77-81).
EveryCallAnswers == pc # "crashed"

\* "Return 1 if given uid is in the system admin group (named "system")"
\* (tzplatform_config.h:386), in a system that does not change.
MemberOfSystem ==
    LET member == /\ gidOf[Group] # NULL /\ primary[uid] # NULL
                  /\ gidOf[Group] \in {primary[uid]} \cup others[uid]
        still == seen = {system} /\ sysgrpname # NULL
    IN  pc = "done" /\ still /\ member => verdict = 1
=============================================================================
