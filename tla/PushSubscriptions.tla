--------------------------- MODULE PushSubscriptions ---------------------------
(***************************************************************************)
(* The push subscriptions of browsers: PushSubscriptionService over        *)
(* BaseRepository, one await at a time, and the push worker, which deletes *)
(* the rows of endpoints the push service no longer knows.                 *)
(*                                                                         *)
(* An endpoint is a browser, and a browser may be handed from one user to  *)
(* another.  Rows are found by endpoint, and updated and deleted by id     *)
(* some awaits later.  save() of a loaded entity reads its row again: it   *)
(* writes the columns that differ, or inserts the whole entity, under its  *)
(* old id, when the row is gone.                                           *)
(***************************************************************************)
EXTENDS Naturals

CONSTANTS
    Users,
    Endpoints,
    Keys,           \* p256dh and auth, which a browser may rotate
    Calls,          \* requests that may be in flight at once
    Workers,        \* push workers
    Null,
    MaxCalls,       \* bound: requests of a behaviour
    MaxFailures     \* bound: awaits of them that reject

ASSUME NullAssumption ==
    Null \notin Users \cup Endpoints \cup Keys \cup {"subscribe", "unsubscribe"}
ASSUME BoundsAssumption == MaxCalls \in Nat /\ MaxFailures \in Nat

VARIABLES
    row,        \* push_subscriptions; the endpoint is unique
    lastId,
    known,      \* endpoints the push service delivers to
    call,
    push,       \* the job of each worker
    begun,
    failures,
    left,       \* history: an unsubscribe of this user and endpoint was answered, and no
                \* subscribe of theirs overlapped it or was begun since
    sure        \* history: the last subscribe answered, if no call overlapped it or
                \* could replace it since

vars == <<row, lastId, known, call, push, begun, failures, left, sure>>

Ids == Nat \ {0}

NoRow == [id |-> 0, user |-> Null, keys |-> Null]
Row == [id : Ids, user : Users, keys : Keys] \cup {NoRow}
Ops == {"subscribe", "unsubscribe"}
Columns == {"user", "keys"}

\* entity: the loaded row with the new values assigned; fields: the columns save() has
\* found changed in the row that is there, if one is.
Call == [pc       : {"idle", "find", "create", "updateFind", "load", "write", "delete"},
         op       : Ops \cup {Null},
         user     : Users \cup {Null},
         endpoint : Endpoints \cup {Null},
         keys     : Keys \cup {Null},
         entity   : Row,
         there    : BOOLEAN,
         fields   : SUBSET Columns,
         met      : SUBSET (Users \X Ops)]

Idle == [pc |-> "idle", op |-> Null, user |-> Null, endpoint |-> Null, keys |-> Null,
         entity |-> NoRow, there |-> FALSE, fields |-> {}, met |-> {}]

Job == [pc : {"idle", "send"}, todo : SUBSET (Endpoints \X Ids), stale : SUBSET Ids]

At(c, pc) == call[c].pc = pc
Caller(c) == <<call[c].user, call[c].endpoint>>

Init ==
    /\ row = [e \in Endpoints |-> NoRow]
    /\ lastId = 0
    /\ known = Endpoints
    /\ call = [c \in Calls |-> Idle]
    /\ push = [w \in Workers |-> [pc |-> "idle", todo |-> {}, stale |-> {}]]
    /\ begun = 0
    /\ failures = 0
    /\ left = {}
    /\ sure = [e \in Endpoints |-> NoRow]

------------------------------------------------------------------------------
(* Requests. *)

InFlight(e) == {c \in Calls : call[c].endpoint = e}

\* A request arrives: whoever is in flight on the same endpoint meets it.
Begin(c, op, u, e, k) ==
    /\ At(c, "idle")
    /\ begun < MaxCalls
    /\ begun' = begun + 1
    /\ call' = [d \in Calls |->
                  IF d = c
                  THEN [Idle EXCEPT !.pc = "find", !.op = op, !.user = u, !.endpoint = e,
                                    !.keys = k,
                                    !.met = {<<call[o].user, call[o].op>> : o \in InFlight(e)}]
                  ELSE IF d \in InFlight(e)
                  THEN [call[d] EXCEPT !.met = @ \cup {<<u, op>>}] ELSE call[d]]
    /\ left' = IF op = "subscribe" THEN left \ {<<u, e>>} ELSE left
    /\ sure' = IF /\ op = "unsubscribe" /\ InFlight(e) = {}
                  /\ sure[e] # NoRow /\ sure[e].user # u
               THEN sure ELSE [sure EXCEPT ![e] = NoRow]
    /\ UNCHANGED <<row, lastId, known, push, failures>>

\* The answer of a request.
Answer(c) == call' = [call EXCEPT ![c] = Idle]

Subscribed(c) ==
    /\ Answer(c)
    /\ sure' = IF call[c].met = {}
               THEN [sure EXCEPT ![call[c].endpoint] =
                          [id |-> row'[call[c].endpoint].id, user |-> call[c].user,
                           keys |-> call[c].keys]]
               ELSE sure
    /\ UNCHANGED left

Unsubscribed(c) ==
    /\ Answer(c)
    /\ left' = IF <<call[c].user, "subscribe">> \in call[c].met
               THEN left ELSE left \cup {Caller(c)}
    /\ UNCHANGED sure

Steps(c, pc) ==
    /\ At(c, pc)
    /\ UNCHANGED <<known, push, begun, failures>>

\* subscribe: findByEndpoint
SubscribeFind(c) ==
    /\ Steps(c, "find")
    /\ call[c].op = "subscribe"
    /\ call' = [call EXCEPT ![c].entity = row[call[c].endpoint],
                            ![c].pc = IF row[call[c].endpoint] = NoRow THEN "create"
                                      ELSE "updateFind"]
    /\ UNCHANGED <<row, lastId, left, sure>>

\* createEntity: the INSERT, which the unique index refuses when another was first.
Create(c) ==
    LET e == call[c].endpoint
    IN  /\ Steps(c, "create")
        /\ IF row[e] = NoRow
           THEN /\ lastId' = lastId + 1
                /\ row' = [row EXCEPT ![e] = [id |-> lastId + 1, user |-> call[c].user,
                                              keys |-> call[c].keys]]
                /\ Subscribed(c)
           ELSE Answer(c) /\ UNCHANGED <<row, lastId, left, sure>>

\* Mutant: the owner stays as it is.
Assigned_Keys(c, entity) == [entity EXCEPT !.keys = call[c].keys]

\* Object.assign in BaseRepository.update
Assigned(c, entity) == [entity EXCEPT !.user = call[c].user, !.keys = call[c].keys]

\* BaseRepository.update: findByIdOrFail and the assignment
UpdateFind(c) ==
    LET found == row[call[c].endpoint]
    IN  /\ Steps(c, "updateFind")
        /\ IF found.id = call[c].entity.id
           THEN call' = [call EXCEPT ![c].pc = "load", ![c].entity = Assigned(c, found)]
           ELSE Answer(c)
        /\ UNCHANGED <<row, lastId, left, sure>>

\* save(): it loads the row by id and compares; without one it will insert.
SaveLoad(c) ==
    LET found == row[call[c].endpoint]
    IN  /\ Steps(c, "load")
        /\ call' = [call EXCEPT
              ![c].pc = "write",
              ![c].there = found.id = call[c].entity.id,
              ![c].fields = {f \in Columns : found[f] # call[c].entity[f]}]
        /\ UNCHANGED <<row, lastId, left, sure>>

\* The INSERT of the entity under its old id, the unique index permitting ...
SaveInsert(c) ==
    LET e == call[c].endpoint
    IN  /\ Steps(c, "write")
        /\ ~call[c].there
        /\ IF row[e] = NoRow
           THEN row' = [row EXCEPT ![e] = call[c].entity] /\ Subscribed(c)
           ELSE Answer(c) /\ UNCHANGED <<row, left, sure>>
        /\ UNCHANGED lastId

\* ... or the UPDATE of the changed columns, which may find no row any more.
SaveUpdate(c) ==
    LET e == call[c].endpoint
        New(f) == IF f \in call[c].fields THEN call[c].entity[f] ELSE row[e][f]
    IN  /\ Steps(c, "write")
        /\ call[c].there
        /\ row' = IF row[e].id = call[c].entity.id
                  THEN [row EXCEPT ![e].user = New("user"), ![e].keys = New("keys")]
                  ELSE row
        /\ Subscribed(c)
        /\ UNCHANGED lastId

\* Mutant: whoever knows the endpoint may delete it.
Owns_Any(c, found) == found # NoRow

\* unsubscribe: not found, of another user, or to be deleted
Owns(c, found) == found.user = call[c].user

UnsubscribeFind(c) ==
    LET found == row[call[c].endpoint]
    IN  /\ Steps(c, "find")
        /\ call[c].op = "unsubscribe"
        /\ IF Owns(c, found)
           THEN /\ call' = [call EXCEPT ![c].pc = "delete", ![c].entity = found]
                /\ UNCHANGED <<left, sure>>
           ELSE Unsubscribed(c)
        /\ UNCHANGED <<row, lastId>>

\* The rows with these ids are deleted.
Without(ids) == [e \in Endpoints |-> IF row[e].id \in ids THEN NoRow ELSE row[e]]

\* hardDelete, by id
Delete(c) ==
    /\ Steps(c, "delete")
    /\ row' = Without({call[c].entity.id})
    /\ Unsubscribed(c)
    /\ UNCHANGED lastId

\* An await rejects: the request is answered with an error.
Fail(c) ==
    /\ ~At(c, "idle")
    /\ failures < MaxFailures
    /\ failures' = failures + 1
    /\ Answer(c)
    /\ UNCHANGED <<row, lastId, known, push, begun, left, sure>>

------------------------------------------------------------------------------
(* The push worker, and the push service. *)

\* A job for a user: the list of their subscriptions.
List(w, u) ==
    /\ push[w].pc = "idle"
    /\ LET todo == {<<e, row[e].id>> : e \in {x \in Endpoints : row[x].user = u}}
       IN  todo # {} /\ push' = [push EXCEPT ![w] = [pc |-> "send", todo |-> todo, stale |-> {}]]
    /\ UNCHANGED <<row, lastId, known, call, begun, failures, left, sure>>

\* VapidProvider.sendPush: 410 and 404 are what the service says of an endpoint it has forgotten.
shouldRemove(e, answer) == answer = "refused" /\ e \notin known

Send(w, s, answer) ==
    /\ s \in push[w].todo
    /\ push' = [push EXCEPT ![w].todo = @ \ {s},
                            ![w].stale = IF shouldRemove(s[1], answer) THEN @ \cup {s[2]} ELSE @]
    /\ UNCHANGED <<row, lastId, known, call, begun, failures, left, sure>>

\* Once all have been sent, the stale rows are deleted by id.
Prune(w) ==
    /\ push[w].pc = "send" /\ push[w].todo = {}
    /\ row' = Without(push[w].stale)
    /\ push' = [push EXCEPT ![w].pc = "idle", ![w].stale = {}]
    /\ UNCHANGED <<lastId, known, call, begun, failures, left, sure>>

\* The browser drops its subscription.
Forget(e) ==
    /\ known' = known \ {e}
    /\ UNCHANGED <<row, lastId, call, push, begun, failures, left, sure>>

------------------------------------------------------------------------------
Request(c) ==
    \/ \E op \in Ops, u \in Users, e \in Endpoints, k \in Keys : Begin(c, op, u, e, k)
    \/ SubscribeFind(c) \/ Create(c)
    \/ UpdateFind(c) \/ SaveLoad(c) \/ SaveInsert(c) \/ SaveUpdate(c)
    \/ UnsubscribeFind(c) \/ Delete(c)
    \/ Fail(c)

Work(w) ==
    \/ \E u \in Users : List(w, u)
    \/ \E s \in push[w].todo, answer \in {"sent", "refused"} : Send(w, s, answer)
    \/ Prune(w)

Next ==
    \/ \E c \in Calls : Request(c)
    \/ \E w \in Workers : Work(w)
    \/ \E e \in Endpoints : Forget(e)

Spec == Init /\ [][Next]_vars

------------------------------------------------------------------------------
TypeOK ==
    /\ row \in [Endpoints -> Row]
    /\ lastId \in Nat
    /\ known \subseteq Endpoints
    /\ call \in [Calls -> Call]
    /\ push \in [Workers -> Job]
    /\ begun \in 0..MaxCalls
    /\ failures \in 0..MaxFailures
    /\ left \subseteq Users \X Endpoints
    /\ sure \in [Endpoints -> [id : Nat, user : Users, keys : Keys] \cup {NoRow}]

(***************************************************************************)
(* Whoever has been answered that a browser is not, or no longer, theirs   *)
(* is not entered for it again unless they subscribe: no other user's      *)
(* subscribe in flight brings their row back, though save() inserts the    *)
(* rows it misses (unsubscribe, subscribe, push worker).                   *)
(***************************************************************************)
LeaversStayAway ==
    \A u \in Users, e \in Endpoints :
        <<u, e>> \in left => row[e].user # u

(***************************************************************************)
(* A subscription answered while no other request was in flight on its     *)
(* endpoint stays, with its owner and its keys, as long as the browser     *)
(* does and until it is replaced: neither a refused unsubscribe nor a      *)
(* worker with an old list of ids takes it away (push worker, unsubscribe).*)
(***************************************************************************)
SubscriptionsStay ==
    \A e \in Endpoints :
        sure[e] # NoRow /\ e \in known => row[e] = sure[e]
==============================================================================
