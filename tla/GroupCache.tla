------------------------------ MODULE GroupCache ------------------------------
(***************************************************************************)
(* The list of a user's groups (listMyGroups), kept in Redis for a minute: *)
(* who fills it, one SELECT at a time, and which changes of a group delete *)
(* it.  CacheService answers no error of Redis.                            *)
(*                                                                         *)
(* A row is the number of times it was written, and it exists when that is *)
(* odd: creating and deleting add one, updating adds two.                  *)
(***************************************************************************)
EXTENDS Integers

CONSTANTS
    Host,
    Members,
    Readers,        \* calls of listMyGroups that may be in flight
    Ttl,            \* ticks an entry lives
    Null,
    MaxChanges, MaxFailures

ASSUME CacheAssumptions ==
    /\ Ttl \in Nat \ {0} /\ MaxChanges \in Nat /\ MaxFailures \in Nat
    /\ Host \notin Members /\ Null \notin Members \cup {Host}

VARIABLES
    group, member, period,  \* the rows of a group, of its members, of its periods
    cache,      \* cache:user:{id}:groups
    read,       \* the calls of listMyGroups in flight
    change,     \* whose group or membership the host's request in flight has changed
    answered,   \* history: the version of a user's own row when a change was answered
    changes, failures

rows == <<group, member, period>>
vars == <<group, member, period, cache, read, change, answered, changes, failures>>

Users == Members \cup {Host}
Exists(version) == version % 2 = 1

Parts == {"own", "group", "members", "period"}
NoMembers == [m \in Members |-> 0]
NoList == [own |-> 0, group |-> 0, members |-> NoMembers, period |-> 0]
List == [own : Nat, group : Nat, members : [Members -> Nat], period : Nat]

\* late: history, the key was to be deleted while this list was read, or could not be.
Idle == [user |-> Null, missing |-> {}, list |-> NoList, late |-> FALSE]

Init ==
    /\ group \in {0, 1} /\ period = 0
    /\ member \in [Members -> {0, group}]
    /\ cache = [u \in Users |-> Null]
    /\ read = [r \in Readers |-> Idle]
    /\ change = Null
    /\ answered = [u \in Users |-> 0]
    /\ changes = 0
    /\ failures = 0

CanFail == failures < MaxFailures /\ failures' = failures + 1

------------------------------------------------------------------------------
(* listMyGroups. *)

\* findByHostId, or findByUserId for a member
Own(u) == IF u = Host THEN group ELSE member[u]

\* What fetchMyGroups puts together at one moment, for a user whose own row is this one; a
\* user without a group is not asked about further.
Seen(own) ==
    IF Exists(own) THEN [own |-> own, group |-> group, members |-> member, period |-> period]
    ELSE [NoList EXCEPT !.own = own]

Current(u) == Seen(Own(u))

\* The first SELECT, then the others in their order
NextPart(missing) ==
    CASE "own" \in missing -> "own"
      [] "own" \notin missing /\ "group" \in missing -> "group"
      [] missing = {"members", "period"} -> "members"
      [] OTHER -> "period"

\* getOrSet finds no entry, or cannot look.
Miss(r, u) ==
    /\ read[r].user = Null
    /\ \/ cache[u] = Null /\ UNCHANGED failures
       \/ cache[u] # Null /\ CanFail
    /\ read' = [read EXCEPT ![r] = [Idle EXCEPT !.user = u, !.missing = Parts]]
    /\ UNCHANGED <<rows, cache, change, answered, changes>>

\* The list when one more part has been read; the later parts follow the row read first
Extended(list, u, part) ==
    CASE part = "own" -> [list EXCEPT !.own = Own(u)]
      [] part = "group" -> [list EXCEPT !.group = Seen(list.own).group]
      [] part = "members" -> [list EXCEPT !.members = Seen(list.own).members]
      [] part = "period" -> [list EXCEPT !.period = Seen(list.own).period]

Fetch(r) ==
    LET part == NextPart(read[r].missing)
    IN  /\ read[r].missing # {}
        /\ read' = [read EXCEPT ![r].missing = @ \ {part},
                                ![r].list = Extended(@, read[r].user, part)]
        /\ UNCHANGED <<rows, cache, change, answered, changes, failures>>

\* cacheService.set, whatever has happened since the first SELECT
Store(r) ==
    /\ read[r].user # Null /\ read[r].missing = {}
    /\ cache' = [cache EXCEPT ![read[r].user] =
                     [list |-> read[r].list, left |-> Ttl, late |-> read[r].late]]
    /\ read' = [read EXCEPT ![r] = Idle]
    /\ UNCHANGED <<rows, change, answered, changes, failures>>

\* A SELECT or the set is rejected, or the process dies.
ReadFails(r) ==
    /\ read[r].user # Null /\ CanFail
    /\ read' = [read EXCEPT ![r] = Idle]
    /\ UNCHANGED <<rows, cache, change, answered, changes>>

------------------------------------------------------------------------------
(* Changes of the group, and the key they delete in the end. *)

Change(u) ==
    /\ change = Null /\ changes < MaxChanges
    /\ changes' = changes + 1
    /\ change' = u
    /\ UNCHANGED <<period, cache, read, answered, failures>>

\* createGroup, updateGroup, and deleteGroup while there is no current period
CreateGroup == group = 0 /\ group' = 1 /\ Change(Host) /\ UNCHANGED member
UpdateGroup == Exists(group) /\ group' = group + 2 /\ Change(Host) /\ UNCHANGED member
DeleteGroup ==
    Exists(group) /\ ~Exists(period) /\ group' = group + 1 /\ Change(Host) /\ UNCHANGED member

\* addMember inserts or restores a row, removeMember marks and soft-deletes it.
ChangeMember(m) ==
    /\ Exists(group)
    /\ member' = [member EXCEPT ![m] = @ + 1]
    /\ Change(m) /\ UNCHANGED group

\* The daily check creates and moves periods; it deletes no key.
ChangePeriod ==
    /\ Exists(group) /\ changes < MaxChanges
    /\ changes' = changes + 1
    /\ period' = period + 1
    /\ UNCHANGED <<group, member, cache, read, change, answered, failures>>

\* The lists of u that are being read, and the one that is kept, are late.
Overtaken(u) ==
    read' = [r \in Readers |-> [read[r] EXCEPT !.late = @ \/ read[r].user = u]]

Answer(u) ==
    /\ change' = Null
    /\ answered' = [v \in Users |-> IF v = u THEN Own(u) ELSE answered[v]]

\* Mutant: the key of who makes the change.
KeyOf_Caller(u) == Host

\* The user whose key is deleted: the host's, or the member's who joined or left
KeyOf(u) == u

\* cacheService.del
Invalidate ==
    /\ change # Null
    /\ Answer(change) /\ Overtaken(change)
    /\ cache' = [cache EXCEPT ![KeyOf(change)] = Null]
    /\ UNCHANGED <<rows, changes, failures>>

InvalidateFails ==
    /\ change # Null /\ CanFail
    /\ Answer(change) /\ Overtaken(change)
    /\ cache' = [u \in Users |-> IF u = change /\ cache[u] # Null
                                 THEN [cache[u] EXCEPT !.late = TRUE] ELSE cache[u]]
    /\ UNCHANGED <<rows, changes>>

\* The process dies between the change and the key.
ChangeFails ==
    /\ change # Null /\ CanFail
    /\ change' = Null
    /\ UNCHANGED <<rows, cache, read, answered, changes>>

------------------------------------------------------------------------------
\* Mutant: entries have no lifetime.
Expire_Never(entry) == entry

Expire(entry) ==
    IF entry = Null \/ entry.left = 1 THEN Null ELSE [entry EXCEPT !.left = @ - 1]

Tick ==
    /\ \E u \in Users : cache[u] # Null
    /\ cache' = [u \in Users |-> IF cache[u] = Null THEN Null ELSE Expire(cache[u])]
    /\ UNCHANGED <<rows, read, change, answered, changes, failures>>

Next ==
    \/ \E r \in Readers : (\E u \in Users : Miss(r, u)) \/ Fetch(r) \/ Store(r) \/ ReadFails(r)
    \/ CreateGroup \/ DeleteGroup \/ UpdateGroup
    \/ \E m \in Members : ChangeMember(m)
    \/ ChangePeriod
    \/ Invalidate \/ InvalidateFails \/ ChangeFails
    \/ Tick

Spec == Init /\ [][Next]_vars

\* Time passes, and a call that is in flight goes on.
Fairness == WF_vars(Tick) /\ \A r \in Readers : WF_vars(Fetch(r) \/ Store(r))

FairSpec == Spec /\ Fairness

------------------------------------------------------------------------------
Entry == [list : List, left : 1..Ttl, late : BOOLEAN]
Read == [user : Users \cup {Null}, missing : SUBSET Parts, list : List, late : BOOLEAN]

TypeOK ==
    /\ group \in Nat /\ period \in Nat /\ member \in [Members -> Nat]
    /\ cache \in [Users -> Entry \cup {Null}]
    /\ read \in [Readers -> Read]
    /\ change \in Users \cup {Null}
    /\ answered \in [Users -> Nat]
    /\ changes \in 0..MaxChanges /\ failures \in 0..MaxFailures

(***************************************************************************)
(* Once a change has been answered, the list kept for the user whose group *)
(* or membership it was is at least as new, unless that list was already   *)
(* being read when the key was deleted, or Redis refused to delete it      *)
(* (createGroup, updateGroup, deleteGroup, addMember, removeMember).       *)
(***************************************************************************)
AnsweredChangesShow ==
    \A u \in Users :
        (cache[u] # Null /\ ~cache[u].late) => cache[u].list.own >= answered[u]

(***************************************************************************)
(* In the end nobody keeps a list that is out of date: not one stored      *)
(* after its key was deleted, not one put together from several states,    *)
(* not that of a user whose key no change deletes (getOrSet, fetchMyGroups). *)
(***************************************************************************)
ListsCatchUp ==
    <>[](\A u \in Users : cache[u] # Null => cache[u].list = Current(u))
==============================================================================
