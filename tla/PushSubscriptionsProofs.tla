------------------------- MODULE PushSubscriptionsProofs -------------------------
(***************************************************************************)
(* Proofs that the safety properties of PushSubscriptions hold for any     *)
(* users, endpoints, keys, requests in flight, workers and bounds.         *)
(***************************************************************************)
EXTENDS PushSubscriptions, TLAPS

\* A request in flight knows who sent it, and what it has loaded.
Formed(s) ==
    /\ s.pc = "idle" => s = Idle
    /\ s.pc # "idle" => s.user \in Users /\ s.endpoint \in Endpoints /\ s.keys \in Keys /\ s.op \in Ops
    /\ s.pc \in {"create", "updateFind", "load", "write"} => s.op = "subscribe"
    /\ s.pc = "delete" => s.op = "unsubscribe"
    /\ s.pc \in {"updateFind", "load", "write", "delete"} => s.entity.id \in Ids
    /\ s.pc \in {"load", "write", "delete"} => s.entity.user = s.user
    /\ s.pc \in {"load", "write"} => s.entity.keys = s.keys

\* Requests on one endpoint that overlap have met.
Met ==
    \A c, d \in Calls :
        (c # d /\ ~At(c, "idle") /\ ~At(d, "idle") /\ call[c].endpoint = call[d].endpoint) =>
            <<call[d].user, call[d].op>> \in call[c].met

\* The id i is known as one of the endpoint e.
Holds(e, i) ==
    \/ row[e].id = i
    \/ \E c \in Calls : call[c].endpoint = e /\ call[c].entity.id = i
    \/ \E w \in Workers : <<e, i>> \in push[w].todo

\* An id is one endpoint's, and a stale one is of an endpoint that is gone.
OwnIds ==
    /\ \A e, f \in Endpoints, i \in Ids : Holds(e, i) /\ Holds(f, i) => e = f
    /\ \A e \in Endpoints, i \in Ids : Holds(e, i) => i <= lastId
    /\ \A w \in Workers : \A i \in push[w].stale :
          i <= lastId /\ \A e \in known : ~Holds(e, i)

\* Of a request by s.user that has met none of its user's subscriptions: their row is the
\* one it is about to delete.
Leaves(s) ==
    /\ s.op = "subscribe" => <<s.user, s.endpoint>> \notin left
    /\ (s.pc = "delete" /\ <<s.user, "subscribe">> \notin s.met) =>
          (row[s.endpoint].user = s.user => row[s.endpoint].id = s.entity.id)

\* A request that has met nobody still finds the row it has loaded.
Alone(s) ==
    s.met = {} =>
        /\ s.pc \in {"updateFind", "load"} /\ s.endpoint \in known =>
              row[s.endpoint].id = s.entity.id
        /\ s.pc = "write" /\ s.there =>
              \/ row[s.endpoint] = NoRow /\ s.endpoint \notin known
              \/ /\ row[s.endpoint].id = s.entity.id
                 /\ \A f \in Columns \ s.fields : row[s.endpoint][f] = s.entity[f]

\* Where a subscription is sure, only others are asking to leave.
Sure(e) ==
    sure[e] # NoRow =>
        /\ row[e] \in {sure[e], NoRow} /\ (e \in known => row[e] = sure[e])
        /\ \A c \in Calls : call[c].endpoint = e =>
              call[c].op = "unsubscribe" /\ call[c].user # sure[e].user /\ call[c].pc = "find"

Inv ==
    /\ TypeOK
    /\ LeaversStayAway
    /\ Met
    /\ OwnIds
    /\ \A c \in Calls : Formed(call[c]) /\ Leaves(call[c]) /\ Alone(call[c])
    /\ \A e \in Endpoints : Sure(e)

------------------------------------------------------------------------------
(* Rows and requests. *)

LEMMA NoRowIs == NoRow.id = 0 /\ NoRow.user = Null /\ NoRow.keys = Null
  BY DEF NoRow

LEMMA RowTyped ==
    ASSUME NEW r \in Row
    PROVE  /\ r.id \in Nat /\ (r.id = 0 <=> r = NoRow)
           /\ r.id \in Ids => r.user \in Users /\ r.keys \in Keys
           /\ r.id \notin Ids => r = NoRow
           /\ r.user \in Users <=> r.id \in Ids
  BY NullAssumption DEF Row, NoRow, Ids

LEMMA IdleTyped == /\ Idle \in Call /\ Idle.pc = "idle" /\ Idle.endpoint = Null
                   /\ Idle.entity.id = 0 /\ Idle.op = Null /\ Idle.user = Null
  BY DEF Idle, Call, Row, NoRow

LEMMA IdleOK == Formed(Idle) /\ Leaves(Idle) /\ Alone(Idle)
  BY IdleTyped, NullAssumption DEF Formed, Leaves, Alone

LEMMA Typed ==
    ASSUME Inv
    PROVE  /\ row \in [Endpoints -> Row] /\ call \in [Calls -> Call] /\ lastId \in Nat
           /\ push \in [Workers -> Job] /\ known \subseteq Endpoints
           /\ \A e \in Endpoints : row[e] \in Row
           /\ \A c \in Calls : call[c] \in Call /\ Formed(call[c]) /\ call[c].entity \in Row
  BY DEF Inv, TypeOK, Call

\* Who is in flight on an endpoint.
LEMMA EndpointBusy ==
    ASSUME Inv, NEW c \in Calls
    PROVE  /\ call[c].endpoint \in Endpoints <=> ~At(c, "idle")
           /\ ~At(c, "idle") => call[c].user \in Users /\ call[c].op \in Ops
           /\ At(c, "idle") => call[c] = Idle
  BY Typed, IdleTyped, NullAssumption DEF Formed, At

------------------------------------------------------------------------------
(* What stays. *)

LEMMA MetStays ==
    ASSUME Inv, NEW c \in Calls, NEW s \in Call, call' = [call EXCEPT ![c] = s],
           \/ s = Idle
           \/ /\ ~At(c, "idle") /\ s.endpoint = call[c].endpoint /\ s.user = call[c].user
              /\ s.op = call[c].op /\ s.met = call[c].met
    PROVE  Met'
  <1>1. \A d \in Calls : call'[d] = IF d = c THEN s ELSE call[d]
    BY Typed
  <1>2. ASSUME NEW a \in Calls, NEW b \in Calls, a # b, ~At(a, "idle")', ~At(b, "idle")',
               call'[a].endpoint = call'[b].endpoint
        PROVE  <<call'[b].user, call'[b].op>> \in call'[a].met
    <2>1. \A d \in Calls : ~At(d, "idle")' =>
              /\ ~At(d, "idle") /\ call'[d].endpoint = call[d].endpoint
              /\ call'[d].user = call[d].user
              /\ call'[d].op = call[d].op /\ call'[d].met = call[d].met
      BY <1>1, IdleTyped DEF At
    <2>. QED
      BY <1>2, <2>1 DEF Inv, Met
  <1>. QED
    BY <1>2 DEF Met

LEMMA IdsStay ==
    ASSUME Inv, \A e \in Endpoints, i \in Ids : Holds(e, i)' => Holds(e, i),
           lastId' = lastId, known' \subseteq known,
           \A w \in Workers : push'[w].stale \subseteq push[w].stale,
           push \in [Workers -> Job]
    PROVE  OwnIds'
  <1>1. \A w \in Workers : push[w].stale \subseteq Ids
    BY DEF Job
  <1>. QED
    BY <1>1, Typed DEF Inv, OwnIds

(***************************************************************************)
(* A request moves on as s; the rows stay, and so does what is answered.   *)
(***************************************************************************)
LEMMA QuietStep ==
    ASSUME Inv, NEW c \in Calls, NEW s \in Call, call' = [call EXCEPT ![c] = s],
           UNCHANGED <<row, lastId, known, push, left, sure>>,
           begun' \in 0..MaxCalls, failures' \in 0..MaxFailures,
           Formed(s), Leaves(s), Alone(s),
           \/ s = Idle
           \/ /\ ~At(c, "idle") /\ s.endpoint = call[c].endpoint /\ s.user = call[c].user
              /\ s.op = call[c].op /\ s.met = call[c].met
              /\ sure[call[c].endpoint] = NoRow
              /\ s.entity.id \in Ids => Holds(s.endpoint, s.entity.id)
    PROVE  Inv'
  <1>1. \A d \in Calls : call'[d] = IF d = c THEN s ELSE call[d]
    BY Typed
  <1>2. TypeOK'
    BY DEF Inv, TypeOK
  <1>3. LeaversStayAway'
    BY DEF Inv, LeaversStayAway
  <1>4. Met'
    BY MetStays
  <1>5. OwnIds'
    <2>1. ASSUME NEW e \in Endpoints, NEW i \in Ids, Holds(e, i)' PROVE Holds(e, i)
      <3>1. CASE \E d \in Calls : call'[d].endpoint = e /\ call'[d].entity.id = i
        BY <1>1, <3>1, IdleTyped, NullAssumption DEF Holds
      <3>2. CASE row'[e].id = i \/ \E w \in Workers : <<e, i>> \in push'[w].todo
        BY <3>2 DEF Holds
      <3>. QED
        BY <2>1, <3>1, <3>2 DEF Holds
    <2>. QED
      BY <2>1, IdsStay, Typed
  <1>6. ASSUME NEW d \in Calls PROVE (Formed(call[d]) /\ Leaves(call[d]) /\ Alone(call[d]))'
    <2>1. \A t : (Formed(t) => Formed(t)') /\ (Leaves(t) => Leaves(t)') /\ (Alone(t) => Alone(t)')
      BY DEF Formed, Leaves, Alone
    <2>. QED
      BY <1>1, <2>1 DEF Inv
  <1>7. ASSUME NEW e \in Endpoints PROVE Sure(e)'
    BY <1>1, <1>7, IdleTyped, NullAssumption DEF Inv, Sure
  <1>. QED
    BY <1>2, <1>3, <1>4, <1>5, <1>6, <1>7 DEF Inv

(***************************************************************************)
(* A subscribe writes the row of its endpoint and is answered.             *)
(***************************************************************************)
LEMMA WriteStep ==
    ASSUME Inv, NEW c \in Calls, call[c].op = "subscribe", ~At(c, "idle"), Subscribed(c),
           NEW new \in Row, row' = [row EXCEPT ![call[c].endpoint] = new],
           new.user = call[c].user \/ new = row[call[c].endpoint]
              \/ (new.user = row[call[c].endpoint].user /\ new.id = row[call[c].endpoint].id),
           call[c].met = {} =>
              \/ new.user = call[c].user /\ new.keys = call[c].keys /\ new.id \in Ids
              \/ new = NoRow /\ call[c].endpoint \notin known,
           lastId' \in Nat, OwnIds',
           UNCHANGED <<known, push, begun, failures>>
    PROVE  Inv'
  <1>. DEFINE e == call[c].endpoint
  <1>1. /\ call' = [call EXCEPT ![c] = Idle] /\ left' = left
        /\ \A d \in Calls : call'[d] = IF d = c THEN Idle ELSE call[d]
        /\ e \in Endpoints /\ call[c].user \in Users /\ call[c].keys \in Keys
        /\ \A x \in Endpoints : row'[x] = IF x = e THEN new ELSE row[x]
    BY Typed DEF Subscribed, Answer, Formed, At
  <1>2. PICK k \in [id : Nat, user : Users, keys : Keys] :
           /\ k = [id |-> new.id, user |-> call[c].user, keys |-> call[c].keys]
           /\ new.user = call[c].user /\ new.keys = call[c].keys /\ new.id \in Ids => k = new
    <2>1. PICK u \in Users, q \in Keys : u = call[c].user /\ q = call[c].keys
      BY <1>1
    <2>2. [id |-> new.id, user |-> u, keys |-> q] \in [id : Nat, user : Users, keys : Keys]
      BY RowTyped
    <2>3. ASSUME new.user = u, new.keys = q, new.id \in Ids
          PROVE  [id |-> new.id, user |-> u, keys |-> q] = new
      BY <2>3, NoRowIs DEF Row, Ids
    <2>. QED
      BY <2>1, <2>2, <2>3
  <1>3. sure' = IF call[c].met = {} THEN [sure EXCEPT ![e] = k] ELSE sure
    <2>1. row'[call[c].endpoint] = new
      BY <1>1
    <2>. QED
      BY <1>2, <2>1 DEF Subscribed
  <1>4. sure[e] = NoRow
    BY <1>1 DEF Inv, Sure
  <1>5. TypeOK'
    BY <1>1, <1>3, IdleTyped DEF Inv, TypeOK
  <1>6. <<call[c].user, e>> \notin left
    BY DEF Inv, Leaves
  <1>7. LeaversStayAway'
    BY <1>1, <1>6 DEF Inv, LeaversStayAway
  <1>8. Met'
    BY <1>1, IdleTyped, MetStays
  <1>9. ASSUME NEW d \in Calls PROVE (Formed(call[d]) /\ Leaves(call[d]) /\ Alone(call[d]))'
    <2>1. CASE d = c
      BY <1>1, <2>1, IdleTyped, NullAssumption DEF Formed, Leaves, Alone
    <2>2. CASE d # c
      <3>1. PICK t \in Call : /\ t = call[d] /\ t = call'[d]
                              /\ Formed(t) /\ Leaves(t) /\ Alone(t)
        BY <1>1, <2>2, Typed DEF Inv
      <3>2. CASE t.endpoint # e
        <4>1. t.pc # "idle" => row'[t.endpoint] = row[t.endpoint]
          BY <1>1, <3>1, <3>2 DEF Formed
        <4>. QED
          BY <1>1, <3>1, <4>1 DEF Formed, Leaves, Alone
      <3>3. CASE t.endpoint = e
        <4>1. t.pc # "idle" /\ <<call[c].user, "subscribe">> \in t.met
          BY <1>1, <2>2, <3>1, <3>3, IdleTyped, NullAssumption DEF Inv, Met, At, Formed
        <4>2. Alone(t)'
          BY <4>1 DEF Alone
        <4>3. Leaves(t)'
          BY <1>1, <3>1, <3>3, <4>1 DEF Leaves
        <4>. QED
          BY <3>1, <4>2, <4>3 DEF Formed
      <3>. QED
        BY <3>2, <3>3
    <2>. QED
      BY <2>1, <2>2
  <1>10. ASSUME NEW x \in Endpoints PROVE Sure(x)'
    <2>1. CASE x # e
      <3>1. row'[x] = row[x] /\ sure'[x] = sure[x]
        BY <1>1, <1>3, <2>1 DEF Inv, TypeOK
      <3>. QED
        BY <1>1, <3>1, IdleTyped, NullAssumption DEF Inv, Sure
    <2>2. CASE x = e /\ call[c].met # {}
      BY <1>3, <1>4, <2>2 DEF Sure
    <2>3. CASE x = e /\ call[c].met = {}
      <3>1. \A d \in Calls : call'[d].endpoint # e
        <4>1. ASSUME NEW d \in Calls, d # c, call[d].endpoint = e PROVE FALSE
          <5>1. ~At(d, "idle")
            BY <1>1, <4>1, EndpointBusy
          <5>. QED
            BY <2>3, <4>1, <5>1 DEF Inv, Met
        <4>. QED
          BY <1>1, <4>1, IdleTyped, NullAssumption
      <3>2. sure'[e] = k
        BY <1>1, <1>3, <2>3 DEF Inv, TypeOK
      <3>3. row'[e] \in {k, NoRow} /\ (e \in known => row'[e] = k)
        BY <1>1, <1>2, <2>3
      <3>. QED
        BY <2>3, <3>1, <3>2, <3>3 DEF Sure
    <2>. QED
      BY <2>1, <2>2, <2>3
  <1>. QED
    BY <1>5, <1>7, <1>8, <1>9, <1>10 DEF Inv

(***************************************************************************)
(* An unsubscribe is answered: the row of its endpoint is gone, or not its *)
(* user's unless they have subscribed meanwhile; the other rows stay.      *)
(***************************************************************************)
LEMMA LeaveStep ==
    ASSUME Inv, NEW c \in Calls, call[c].op = "unsubscribe", ~At(c, "idle"), Unsubscribed(c),
           row' \in [Endpoints -> Row],
           \A x \in Endpoints :
              \/ row'[x] = row[x]
              \/ x = call[c].endpoint /\ row'[x] = NoRow /\ sure[x] = NoRow,
           <<call[c].user, "subscribe">> \notin call[c].met =>
              row'[call[c].endpoint].user # call[c].user,
           UNCHANGED <<lastId, known, push, begun, failures>>
    PROVE  Inv'
  <1>. DEFINE e == call[c].endpoint
  <1>1. /\ call' = [call EXCEPT ![c] = Idle] /\ sure' = sure
        /\ \A d \in Calls : call'[d] = IF d = c THEN Idle ELSE call[d]
        /\ e \in Endpoints /\ call[c].user \in Users
    BY Typed DEF Unsubscribed, Answer, Formed, At
  <1>2. /\ left' \subseteq left \cup {<<call[c].user, e>>}
        /\ <<call[c].user, "subscribe">> \in call[c].met => left' = left
    BY DEF Unsubscribed, Caller
  <1>3. TypeOK'
    <2>1. left' \subseteq Users \X Endpoints
      BY <1>1, <1>2 DEF Inv, TypeOK
    <2>. QED
      BY <1>1, <2>1, IdleTyped DEF Inv, TypeOK
  <1>4. LeaversStayAway'
    <2>1. ASSUME NEW u \in Users, NEW x \in Endpoints, <<u, x>> \in left'
          PROVE  row'[x].user # u
      <3>1. CASE <<u, x>> \in left
        BY <3>1, NoRowIs, NullAssumption DEF Inv, LeaversStayAway
      <3>2. CASE <<u, x>> \notin left
        BY <1>2, <2>1, <3>2
      <3>. QED
        BY <3>1, <3>2
    <2>. QED
      BY <2>1 DEF LeaversStayAway
  <1>5. Met'
    BY <1>1, IdleTyped, MetStays
  <1>6. OwnIds'
    <2>1. ASSUME NEW x \in Endpoints, NEW i \in Ids, Holds(x, i)' PROVE Holds(x, i)
      <3>1. CASE \E d \in Calls : call'[d].endpoint = x /\ call'[d].entity.id = i
        BY <1>1, <3>1, IdleTyped, NullAssumption DEF Holds
      <3>2. CASE row'[x].id = i
        BY <3>2, NoRowIs DEF Holds, Ids
      <3>3. CASE \E w \in Workers : <<x, i>> \in push'[w].todo
        BY <3>3 DEF Holds
      <3>. QED
        BY <2>1, <3>1, <3>2, <3>3 DEF Holds
    <2>. QED
      BY <2>1, IdsStay, Typed
  <1>7. ASSUME NEW d \in Calls PROVE (Formed(call[d]) /\ Leaves(call[d]) /\ Alone(call[d]))'
    <2>1. CASE d = c
      BY <1>1, <2>1, IdleTyped, NullAssumption DEF Formed, Leaves, Alone
    <2>2. CASE d # c
      <3>1. PICK t \in Call : /\ t = call[d] /\ t = call'[d]
                              /\ Formed(t) /\ Leaves(t) /\ Alone(t)
        BY <1>1, <2>2, Typed DEF Inv
      <3>2. t.endpoint = e => <<t.user, t.op>> \in call[c].met /\ t.met # {}
        BY <1>1, <2>2, <3>1, EndpointBusy DEF Inv, Met
      <3>3. t.pc # "idle" => t.endpoint \in Endpoints /\ t.user \in Users
        BY <3>1 DEF Formed
      <3>4. Leaves(t)'
        <4>1. ASSUME t.op = "subscribe" PROVE <<t.user, t.endpoint>> \notin left'
          BY <1>2, <3>1, <3>2, <4>1 DEF Leaves
        <4>2. ASSUME t.pc = "delete", <<t.user, "subscribe">> \notin t.met,
                     row'[t.endpoint].user = t.user
              PROVE  row'[t.endpoint].id = t.entity.id
          BY <3>1, <3>3, <4>2, NoRowIs, NullAssumption DEF Leaves
        <4>. QED
          BY <4>1, <4>2 DEF Leaves
      <3>5. Alone(t)'
        <4>1. CASE t.endpoint = e
          BY <3>2, <4>1 DEF Alone
        <4>2. CASE t.endpoint # e
          BY <3>1, <3>3, <4>2 DEF Alone
        <4>. QED
          BY <4>1, <4>2
      <3>. QED
        BY <3>1, <3>4, <3>5 DEF Formed
    <2>. QED
      BY <2>1, <2>2
  <1>8. ASSUME NEW x \in Endpoints PROVE Sure(x)'
    BY <1>1, IdleTyped, NullAssumption DEF Inv, Sure
  <1>. QED
    BY <1>3, <1>4, <1>5, <1>6, <1>7, <1>8 DEF Inv

(***************************************************************************)
(* Nobody is answered: rows go only of endpoints that are gone.            *)
(***************************************************************************)
LEMMA OtherStep ==
    ASSUME Inv, TypeOK', OwnIds', UNCHANGED <<call, left, sure>>, known' \subseteq known,
           \A x \in Endpoints : row'[x] = row[x] \/ (row'[x] = NoRow /\ x \notin known)
    PROVE  Inv'
  <1>1. LeaversStayAway'
    BY NoRowIs, NullAssumption DEF Inv, LeaversStayAway
  <1>2. Met'
    BY DEF Inv, Met, At
  <1>3. ASSUME NEW d \in Calls PROVE (Formed(call[d]) /\ Leaves(call[d]) /\ Alone(call[d]))'
    <2>1. PICK t \in Call : /\ t = call[d] /\ t = call'[d]
                            /\ Formed(t) /\ Leaves(t) /\ Alone(t)
      BY Typed DEF Inv
    <2>2. t.pc # "idle" => t.endpoint \in Endpoints /\ t.user \in Users
      BY <2>1 DEF Formed
    <2>3. Leaves(t)'
      BY <2>1, <2>2, NoRowIs, NullAssumption DEF Leaves
    <2>4. Alone(t)'
      BY <2>1, <2>2 DEF Alone
    <2>. QED
      BY <2>1, <2>3, <2>4 DEF Formed
  <1>4. ASSUME NEW x \in Endpoints PROVE Sure(x)'
    BY DEF Inv, Sure
  <1>. QED
    BY <1>1, <1>2, <1>3, <1>4 DEF Inv

------------------------------------------------------------------------------
(* The initial states, and the steps of a request. *)

LEMMA InitOK == Init => Inv
  <1>. SUFFICES ASSUME Init PROVE Inv
    OBVIOUS
  <1>1. TypeOK
    BY IdleTyped, BoundsAssumption DEF Init, TypeOK, Row, Job, Ids
  <1>2. LeaversStayAway /\ Met
    BY IdleTyped DEF Init, LeaversStayAway, Met, At
  <1>3. OwnIds
    BY IdleTyped, NoRowIs DEF Init, OwnIds, Holds, Ids
  <1>4. \A c \in Calls : Formed(call[c]) /\ Leaves(call[c]) /\ Alone(call[c])
    BY IdleOK DEF Init
  <1>5. \A e \in Endpoints : Sure(e)
    BY DEF Init, Sure
  <1>. QED
    BY <1>1, <1>2, <1>3, <1>4, <1>5 DEF Inv

LEMMA BeginStep ==
    ASSUME Inv, NEW c \in Calls, NEW op \in Ops, NEW u \in Users, NEW e \in Endpoints,
           NEW k \in Keys, Begin(c, op, u, e, k)
    PROVE  Inv'
  <1>. DEFINE mets == {<<call[o].user, call[o].op>> : o \in InFlight(e)}
              s == [Idle EXCEPT !.pc = "find", !.op = op, !.user = u, !.endpoint = e,
                                !.keys = k, !.met = mets]
  <1>1. mets \subseteq Users \X Ops
    BY EndpointBusy DEF InFlight
  <1>2. /\ s \in Call /\ s.pc = "find" /\ s.op = op /\ s.user = u /\ s.endpoint = e
        /\ s.keys = k /\ s.entity.id = 0 /\ s.met = mets
    BY <1>1, IdleTyped DEF Call, Idle
  <1>3. /\ At(c, "idle") /\ begun' = begun + 1 /\ begun < MaxCalls
        /\ UNCHANGED <<row, lastId, known, push, failures>>
        /\ call' = [d \in Calls |->
                      IF d = c THEN s
                      ELSE IF d \in InFlight(e)
                      THEN [call[d] EXCEPT !.met = @ \cup {<<u, op>>}] ELSE call[d]]
    BY DEF Begin
  <1>. HIDE DEF s, mets
  <1>4. /\ left' \subseteq left
        /\ op = "subscribe" => <<u, e>> \notin left'
    BY DEF Begin
  <1>5. ASSUME NEW d \in Calls, d # c
        PROVE  /\ call'[d] \in Call
               /\ \A f \in {"pc", "op", "user", "endpoint", "keys", "entity", "there", "fields"} :
                     call'[d][f] = call[d][f]
               /\ call[d].met \subseteq call'[d].met
               /\ call[d].endpoint = e => <<u, op>> \in call'[d].met
               /\ call[d].endpoint # e => call'[d] = call[d]
    <2>1. PICK t \in Call : t = call[d]
      BY Typed
    <2>2. CASE d \in InFlight(e)
      <3>. DEFINE m == t.met \cup {<<u, op>>}
      <3>1. m \subseteq Users \X Ops
        BY DEF Call
      <3>2. call'[d] = [t EXCEPT !.met = m]
        BY <1>3, <1>5, <2>1, <2>2
      <3>. HIDE DEF m
      <3>3. [t EXCEPT !.met = m] \in Call
        BY <3>1 DEF Call
      <3>4. [t EXCEPT !.met = m].met = m
        BY DEF Call
      <3>. QED
        BY <2>1, <2>2, <3>2, <3>3, <3>4 DEF m, Call, InFlight
    <2>3. CASE d \notin InFlight(e)
      BY <1>3, <1>5, <2>1, <2>3 DEF InFlight
    <2>. QED
      BY <2>2, <2>3
  <1>6. call'[c] = s /\ call' \in [Calls -> Call]
    BY <1>2, <1>3, <1>5
  <1>7. /\ sure' \in [Endpoints -> [id : Nat, user : Users, keys : Keys] \cup {NoRow}]
        /\ \A x \in Endpoints : x # e => sure'[x] = sure[x]
        /\ \/ sure'[e] = NoRow
           \/ sure' = sure /\ op = "unsubscribe" /\ InFlight(e) = {} /\ sure[e].user # u
    BY DEF Begin, Inv, TypeOK
  <1>8. TypeOK'
    BY <1>3, <1>4, <1>6, <1>7, BoundsAssumption DEF Inv, TypeOK
  <1>9. LeaversStayAway'
    BY <1>3, <1>4 DEF Inv, LeaversStayAway
  <1>10. Met'
    <2>1. ASSUME NEW a \in Calls, NEW b \in Calls, a # b, ~At(a, "idle")', ~At(b, "idle")',
                 call'[a].endpoint = call'[b].endpoint
          PROVE  <<call'[b].user, call'[b].op>> \in call'[a].met
      <3>1. CASE a = c
        <4>1. b \in InFlight(e)
          BY <1>2, <1>5, <1>6, <2>1, <3>1 DEF InFlight
        <4>. QED
          BY <1>2, <1>5, <1>6, <2>1, <3>1, <4>1 DEF mets
      <3>2. CASE b = c
        BY <1>2, <1>5, <1>6, <2>1, <3>2
      <3>3. CASE a # c /\ b # c
        <4>1. ~At(a, "idle") /\ ~At(b, "idle") /\ call[a].endpoint = call[b].endpoint
          BY <1>5, <2>1, <3>3 DEF At
        <4>. QED
          BY <1>5, <2>1, <3>3, <4>1 DEF Inv, Met
      <3>. QED
        BY <3>1, <3>2, <3>3
    <2>. QED
      BY <2>1 DEF Met
  <1>11. OwnIds'
    <2>1. ASSUME NEW x \in Endpoints, NEW i \in Ids, Holds(x, i)' PROVE Holds(x, i)
      <3>1. CASE \E d \in Calls : call'[d].endpoint = x /\ call'[d].entity.id = i
        <4>1. PICK d \in Calls : call'[d].endpoint = x /\ call'[d].entity.id = i
          BY <3>1
        <4>2. d # c
          BY <1>2, <1>6, <4>1 DEF Ids
        <4>. QED
          BY <1>5, <4>1, <4>2 DEF Holds
      <3>2. CASE row'[x].id = i \/ \E w \in Workers : <<x, i>> \in push'[w].todo
        BY <1>3, <3>2 DEF Holds
      <3>. QED
        BY <2>1, <3>1, <3>2 DEF Holds
    <2>. QED
      BY <1>3, <2>1, IdsStay, Typed
  <1>12. ASSUME NEW d \in Calls PROVE (Formed(call[d]) /\ Leaves(call[d]) /\ Alone(call[d]))'
    <2>1. CASE d = c
      BY <1>2, <1>4, <1>6, <2>1 DEF Formed, Leaves, Alone
    <2>2. CASE d # c
      <3>1. Formed(call[d]) /\ Leaves(call[d]) /\ Alone(call[d])
        BY DEF Inv
      <3>2. Formed(call'[d])
        <4>1. call[d].pc = "idle" => call'[d] = Idle
          BY <1>5, <2>2, EndpointBusy, IdleTyped, NullAssumption DEF At
        <4>. QED
          BY <1>5, <2>2, <3>1, <4>1 DEF Formed
      <3>3. Leaves(call[d])'
        <4>1. call[d].op = "subscribe" => <<call[d].user, call[d].endpoint>> \notin left'
          BY <1>4, <3>1 DEF Leaves
        <4>. QED
          BY <1>3, <1>5, <2>2, <3>1, <4>1 DEF Leaves
      <3>4. Alone(call[d])'
        BY <1>3, <1>5, <2>2, <3>1 DEF Alone
      <3>. QED
        BY <3>2, <3>3, <3>4 DEF Formed
    <2>. QED
      BY <2>1, <2>2
  <1>13. ASSUME NEW x \in Endpoints PROVE Sure(x)'
    <2>1. CASE x # e
      BY <1>2, <1>3, <1>5, <1>6, <1>7, <2>1 DEF Inv, Sure
    <2>2. CASE x = e /\ sure'[e] = NoRow
      BY <2>2 DEF Sure
    <2>3. CASE x = e /\ sure' = sure /\ op = "unsubscribe" /\ InFlight(e) = {} /\ sure[e].user # u
      BY <1>2, <1>3, <1>5, <1>6, <2>3 DEF Inv, Sure, InFlight
    <2>. QED
      BY <1>7, <2>1, <2>2, <2>3
  <1>. QED
    BY <1>8, <1>9, <1>10, <1>11, <1>12, <1>13 DEF Inv

\* A request is answered, and nothing is said by the answer.
LEMMA AnswerStep ==
    ASSUME Inv, NEW c \in Calls, Answer(c),
           UNCHANGED <<row, lastId, known, push, begun, left, sure>>, failures' \in 0..MaxFailures
    PROVE  Inv'
  <1>1. begun' \in 0..MaxCalls
    BY DEF Inv, TypeOK
  <1>. QED
    BY <1>1, IdleTyped, IdleOK, QuietStep DEF Answer

\* A request that goes on as s, its rows untouched.
LEMMA GoStep ==
    ASSUME Inv, NEW c \in Calls, NEW s \in Call, call' = [call EXCEPT ![c] = s], ~At(c, "idle"),
           UNCHANGED <<row, lastId, known, push, begun, failures, left, sure>>,
           s.endpoint = call[c].endpoint, s.user = call[c].user, s.keys = call[c].keys,
           s.op = call[c].op, s.met = call[c].met,
           sure[call[c].endpoint] = NoRow,
           s.entity.id \in Ids => Holds(s.endpoint, s.entity.id),
           Formed(s), Alone(s),
           s.pc = "delete" => s.entity.id = row[s.endpoint].id
    PROVE  Inv'
  <1>1. begun' \in 0..MaxCalls /\ failures' \in 0..MaxFailures
    BY DEF Inv, TypeOK
  <1>2. Leaves(s)
    BY DEF Inv, Leaves
  <1>. QED
    BY <1>1, <1>2, QuietStep

\* Where a subscribe is in flight nothing is sure.
LEMMA Unsure ==
    ASSUME Inv, NEW c \in Calls, call[c].op = "subscribe", ~At(c, "idle")
    PROVE  sure[call[c].endpoint] = NoRow
  BY EndpointBusy DEF Inv, Sure

LEMMA SubscribeFindStep ==
    ASSUME Inv, NEW c \in Calls, SubscribeFind(c)
    PROVE  Inv'
  <1>1. PICK t \in Call : t = call[c] /\ Formed(t) /\ t.pc = "find" /\ t.op = "subscribe"
    BY Typed DEF SubscribeFind, Steps, At
  <1>2. PICK r \in Row : r = row[t.endpoint]
    BY <1>1, Typed DEF Formed
  <1>. DEFINE pc == IF r = NoRow THEN "create" ELSE "updateFind"
              s == [t EXCEPT !.entity = r, !.pc = pc]
  <1>3. /\ s \in Call /\ s.pc = pc /\ s.entity = r
        /\ \A f \in {"op", "user", "endpoint", "keys", "met", "there", "fields"} : s[f] = t[f]
    BY DEF Call
  <1>4. call' = [call EXCEPT ![c] = s]
    BY <1>1, <1>2, Typed DEF SubscribeFind
  <1>. HIDE DEF s
  <1>5. Formed(s)
    BY <1>1, <1>3, RowTyped DEF Formed
  <1>6. Alone(s)
    BY <1>2, <1>3 DEF Alone
  <1>7. s.entity.id \in Ids => Holds(s.endpoint, s.entity.id)
    BY <1>2, <1>3 DEF Holds
  <1>. QED
    BY <1>1, <1>3, <1>4, <1>5, <1>6, <1>7, Unsure, GoStep DEF SubscribeFind, Steps, At

LEMMA UpdateFindStep ==
    ASSUME Inv, NEW c \in Calls, UpdateFind(c)
    PROVE  Inv'
  <1>1. PICK t \in Call : t = call[c] /\ Formed(t) /\ t.pc = "updateFind"
    BY Typed DEF UpdateFind, Steps, At
  <1>2. PICK r \in Row : r = row[t.endpoint]
    BY <1>1, Typed DEF Formed
  <1>3. CASE r.id = t.entity.id
    <2>1. PICK u \in Users, k \in Keys : u = t.user /\ k = t.keys
      BY <1>1 DEF Formed
    <2>. DEFINE n == [r EXCEPT !.user = u, !.keys = k]
                s == [t EXCEPT !.pc = "load", !.entity = n]
    <2>2. n \in Row /\ n.id = r.id /\ n.user = u /\ n.keys = k
      <3>1. r \in [id : Ids, user : Users, keys : Keys]
        BY <1>1, <1>3, NoRowIs DEF Formed, Row, Ids
      <3>. QED
        BY <3>1 DEF Row
    <2>3. call' = [call EXCEPT ![c] = s]
      BY <1>1, <1>2, <1>3, <2>1, Typed DEF UpdateFind, Assigned
    <2>. HIDE DEF n
    <2>4. /\ s \in Call /\ s.pc = "load" /\ s.entity = n
          /\ \A f \in {"op", "user", "endpoint", "keys", "met", "there", "fields"} : s[f] = t[f]
      BY <2>2 DEF Call
    <2>. HIDE DEF s
    <2>5. Formed(s)
      BY <1>1, <1>3, <2>1, <2>2, <2>4 DEF Formed
    <2>6. Alone(s)
      BY <1>2, <2>2, <2>4 DEF Alone
    <2>7. s.entity.id \in Ids => Holds(s.endpoint, s.entity.id)
      BY <1>2, <2>2, <2>4 DEF Holds
    <2>8. t.op = "subscribe"
      BY <1>1 DEF Formed
    <2>. QED
      BY <1>1, <2>3, <2>4, <2>5, <2>6, <2>7, <2>8, Unsure, GoStep DEF UpdateFind, Steps, At
  <1>4. CASE r.id # t.entity.id
    <2>1. Answer(c) /\ failures' \in 0..MaxFailures
      BY <1>1, <1>2, <1>4 DEF UpdateFind, Steps, Inv, TypeOK
    <2>. QED
      BY <2>1, AnswerStep DEF UpdateFind, Steps
  <1>. QED
    BY <1>3, <1>4

LEMMA SaveLoadStep ==
    ASSUME Inv, NEW c \in Calls, SaveLoad(c)
    PROVE  Inv'
  <1>1. PICK t \in Call : t = call[c] /\ Formed(t) /\ t.pc = "load"
    BY Typed DEF SaveLoad, Steps, At
  <1>2. PICK r \in Row : r = row[t.endpoint]
    BY <1>1, Typed DEF Formed
  <1>. DEFINE b == r.id = t.entity.id
              fs == {f \in Columns : r[f] # t.entity[f]}
  <1>3. call' = [call EXCEPT ![c] = [t EXCEPT !.pc = "write", !.there = b, !.fields = fs]]
    BY <1>1, <1>2, Typed DEF SaveLoad
  <1>4. fs \subseteq Columns /\ \A f \in Columns \ fs : r[f] = t.entity[f]
    OBVIOUS
  <1>5. PICK q \in BOOLEAN : q = b
    BY Zenon
  <1>6. q = TRUE => r.id = t.entity.id
    BY <1>5, Zenon
  <1>. DEFINE s == [t EXCEPT !.pc = "write", !.there = q, !.fields = fs]
  <1>. HIDE DEF fs, b
  <1>7. call' = [call EXCEPT ![c] = s]
    BY <1>3, <1>5, Zenon
  <1>8. /\ s \in Call /\ s.pc = "write" /\ s.fields = fs /\ s.there = q
         /\ \A f \in {"op", "user", "endpoint", "keys", "met", "entity"} : s[f] = t[f]
    BY <1>4 DEF Call
  <1>. HIDE DEF s
  <1>9. Formed(s)
    BY <1>1, <1>8 DEF Formed
  <1>10. Alone(s)
    BY <1>2, <1>4, <1>6, <1>8 DEF Alone
  <1>11. s.entity.id \in Ids => Holds(s.endpoint, s.entity.id)
    BY <1>1, <1>8 DEF Holds
  <1>12. t.op = "subscribe"
    BY <1>1 DEF Formed
  <1>. QED
    BY <1>1, <1>9, <1>10, <1>11, <1>12, <1>7, <1>8, Unsure, GoStep DEF SaveLoad, Steps, At

LEMMA CreateStep ==
    ASSUME Inv, NEW c \in Calls, Create(c)
    PROVE  Inv'
  <1>1. PICK t \in Call : t = call[c] /\ Formed(t) /\ t.pc = "create" /\ t.op = "subscribe"
    BY Typed DEF Create, Steps, At, Formed
  <1>2. t.endpoint \in Endpoints /\ t.user \in Users /\ t.keys \in Keys
    BY <1>1 DEF Formed
  <1>3. CASE row[t.endpoint] = NoRow
    <2>1. PICK u \in Users, k \in Keys : u = t.user /\ k = t.keys
      BY <1>2
    <2>2. PICK n \in Row : n = [id |-> lastId + 1, user |-> u, keys |-> k]
      <3>1. [id |-> lastId + 1, user |-> u, keys |-> k] \in Row
        BY Typed DEF Row, Ids
      <3>. QED
        BY <3>1
    <2>3. /\ row' = [row EXCEPT ![t.endpoint] = n] /\ lastId' = lastId + 1
          /\ Subscribed(c) /\ UNCHANGED <<known, push, begun, failures>>
      BY <1>1, <1>3, <2>1, <2>2 DEF Create, Steps
    <2>4. n.id = lastId + 1 /\ n.id \in Ids /\ n.user = u /\ n.keys = k
      BY <2>2, Typed DEF Ids
    <2>5. \A d \in Calls : call'[d] = IF d = c THEN Idle ELSE call[d]
      BY <2>3, Typed DEF Subscribed, Answer
    <2>6. ASSUME NEW x \in Endpoints, NEW i \in Ids, Holds(x, i)'
          PROVE  Holds(x, i) \/ (x = t.endpoint /\ i = lastId + 1)
      <3>1. CASE \E d \in Calls : call'[d].endpoint = x /\ call'[d].entity.id = i
        BY <2>5, <3>1, IdleTyped, NullAssumption DEF Holds
      <3>2. CASE row'[x].id = i
        BY <1>2, <2>3, <2>4, <3>2, Typed DEF Holds
      <3>3. CASE \E w \in Workers : <<x, i>> \in push'[w].todo
        BY <2>3, <3>3 DEF Holds
      <3>. QED
        BY <2>6, <3>1, <3>2, <3>3 DEF Holds
    <2>7. OwnIds'
      <3>1. \A w \in Workers : push[w].stale \subseteq Ids
        BY Typed DEF Job
      <3>2. \A x \in Endpoints, i \in Ids : Holds(x, i) => i <= lastId
        BY DEF Inv, OwnIds
      <3>3. \A x, y \in Endpoints, i \in Ids : Holds(x, i)' /\ Holds(y, i)' => x = y
        BY <2>6, <3>2, Typed DEF Inv, OwnIds, Ids
      <3>4. \A x \in Endpoints, i \in Ids : Holds(x, i)' => i <= lastId + 1
        BY <2>6, <3>2, Typed DEF Ids
      <3>5. \A w \in Workers : \A i \in push[w].stale :
               i <= lastId /\ i \in Ids /\ \A x \in known : ~Holds(x, i)'
        BY <2>6, <3>1, Typed DEF Inv, OwnIds, Ids
      <3>. QED
        BY <2>3, <3>3, <3>4, <3>5, Typed DEF OwnIds, Ids
    <2>8. /\ call[c].op = "subscribe" /\ ~At(c, "idle") /\ lastId' \in Nat
          /\ row' = [row EXCEPT ![call[c].endpoint] = n]
          /\ n.user = call[c].user /\ n.keys = call[c].keys
      BY <1>1, <2>1, <2>3, <2>4, Typed DEF At
    <2>. QED
      BY <2>3, <2>4, <2>7, <2>8, WriteStep
  <1>4. CASE row[t.endpoint] # NoRow
    <2>1. Answer(c) /\ UNCHANGED <<row, lastId, known, push, begun, left, sure>>
      BY <1>1, <1>4 DEF Create, Steps
    <2>2. failures' \in 0..MaxFailures
      BY DEF Create, Steps, Inv, TypeOK
    <2>. QED
      BY <2>1, <2>2, AnswerStep
  <1>. QED
    BY <1>3, <1>4

LEMMA SaveInsertStep ==
    ASSUME Inv, NEW c \in Calls, SaveInsert(c)
    PROVE  Inv'
  <1>1. PICK t \in Call : t = call[c] /\ Formed(t) /\ t.pc = "write" /\ t.op = "subscribe"
    BY Typed DEF SaveInsert, Steps, At, Formed
  <1>2. /\ t.endpoint \in Endpoints /\ t.user \in Users /\ t.keys \in Keys
        /\ t.entity \in Row /\ t.entity.id \in Ids
        /\ t.entity.user = t.user /\ t.entity.keys = t.keys
    BY <1>1 DEF Formed, Call
  <1>3. CASE row[t.endpoint] = NoRow
    <2>1. /\ row' = [row EXCEPT ![t.endpoint] = t.entity]
          /\ Subscribed(c) /\ UNCHANGED <<lastId, known, push, begun, failures>>
      BY <1>1, <1>3 DEF SaveInsert, Steps
    <2>2. \A d \in Calls : call'[d] = IF d = c THEN Idle ELSE call[d]
      BY <2>1, Typed DEF Subscribed, Answer
    <2>3. ASSUME NEW x \in Endpoints, NEW i \in Ids, Holds(x, i)' PROVE Holds(x, i)
      <3>1. CASE \E d \in Calls : call'[d].endpoint = x /\ call'[d].entity.id = i
        BY <2>2, <3>1, IdleTyped, NullAssumption DEF Holds
      <3>2. CASE row'[x].id = i
        BY <1>1, <1>2, <2>1, <3>2, Typed DEF Holds
      <3>3. CASE \E w \in Workers : <<x, i>> \in push'[w].todo
        BY <2>1, <3>3 DEF Holds
      <3>. QED
        BY <2>3, <3>1, <3>2, <3>3 DEF Holds
    <2>4. OwnIds'
      BY <2>1, <2>3, IdsStay, Typed
    <2>. QED
      BY <1>1, <1>2, <2>1, <2>4, Typed, WriteStep DEF At
  <1>4. CASE row[t.endpoint] # NoRow
    <2>1. Answer(c) /\ UNCHANGED <<row, lastId, known, push, begun, left, sure>>
      BY <1>1, <1>4 DEF SaveInsert, Steps
    <2>2. failures' \in 0..MaxFailures
      BY DEF SaveInsert, Steps, Inv, TypeOK
    <2>. QED
      BY <2>1, <2>2, AnswerStep
  <1>. QED
    BY <1>3, <1>4

LEMMA SaveUpdateStep ==
    ASSUME Inv, NEW c \in Calls, SaveUpdate(c)
    PROVE  Inv'
  <1>1. PICK t \in Call : /\ t = call[c] /\ Formed(t) /\ t.pc = "write" /\ t.op = "subscribe"
                          /\ t.there /\ Alone(t)
    BY Typed DEF SaveUpdate, Steps, At, Formed, Inv
  <1>2. /\ t.endpoint \in Endpoints /\ t.user \in Users /\ t.keys \in Keys
        /\ t.entity \in Row /\ t.entity.id \in Ids
        /\ t.entity.user = t.user /\ t.entity.keys = t.keys
    BY <1>1 DEF Formed, Call
  <1>3. Subscribed(c) /\ UNCHANGED <<lastId, known, push, begun, failures>>
    BY DEF SaveUpdate, Steps
  <1>4. PICK r \in Row : r = row[t.endpoint]
    BY <1>2, Typed
  <1>5. PICK n \in Row :
           /\ row' = [row EXCEPT ![t.endpoint] = n] /\ n.id = r.id
           /\ n.user = t.user \/ n.user = r.user
           /\ t.met = {} => \/ n.user = t.user /\ n.keys = t.keys /\ n.id \in Ids
                            \/ n = NoRow /\ t.endpoint \notin known
    <2>1. CASE r.id = t.entity.id
      <3>. DEFINE New(f) == IF f \in t.fields THEN t.entity[f] ELSE r[f]
                  n == [r EXCEPT !.user = New("user"), !.keys = New("keys")]
      <3>1. r \in [id : Ids, user : Users, keys : Keys]
        BY <1>2, <2>1, NoRowIs DEF Row, Ids
      <3>2. n \in Row /\ n.id = r.id /\ n.user = New("user") /\ n.keys = New("keys")
        BY <1>2, <3>1 DEF Row
      <3>3. row' = [row EXCEPT ![t.endpoint] = n]
        <4>1. row' = [row EXCEPT ![t.endpoint].user = New("user"), ![t.endpoint].keys = New("keys")]
          BY <1>1, <1>4, <2>1 DEF SaveUpdate
        <4>. QED
          BY <1>2, <1>4, <4>1, Typed
      <3>4. t.met = {} => n.user = t.user /\ n.keys = t.keys
        <4>1. ASSUME t.met = {} PROVE \A f \in Columns \ t.fields : r[f] = t.entity[f]
          BY <1>1, <1>2, <1>4, <2>1, <4>1, NoRowIs DEF Alone, Ids
        <4>. QED
          BY <1>2, <3>2, <4>1 DEF Columns
      <3>. QED
        BY <1>2, <2>1, <3>2, <3>3, <3>4
    <2>2. CASE r.id # t.entity.id
      <3>1. row' = [row EXCEPT ![t.endpoint] = r]
        BY <1>1, <1>4, <2>2, Typed DEF SaveUpdate
      <3>2. t.met = {} => r = NoRow /\ t.endpoint \notin known
        BY <1>1, <1>4, <2>2 DEF Alone
      <3>. QED
        BY <3>1, <3>2
    <2>. QED
      BY <2>1, <2>2
  <1>6. \A d \in Calls : call'[d] = IF d = c THEN Idle ELSE call[d]
    BY <1>3, Typed DEF Subscribed, Answer
  <1>7. ASSUME NEW x \in Endpoints, NEW i \in Ids, Holds(x, i)' PROVE Holds(x, i)
    <2>1. CASE \E d \in Calls : call'[d].endpoint = x /\ call'[d].entity.id = i
      BY <1>6, <2>1, IdleTyped, NullAssumption DEF Holds
    <2>2. CASE row'[x].id = i
      BY <1>2, <1>4, <1>5, <2>2, Typed DEF Holds
    <2>3. CASE \E w \in Workers : <<x, i>> \in push'[w].todo
      BY <1>3, <2>3 DEF Holds
    <2>. QED
      BY <1>7, <2>1, <2>2, <2>3 DEF Holds
  <1>8. OwnIds'
    BY <1>3, <1>7, IdsStay, Typed
  <1>9. n.user = t.user \/ n = r \/ (n.user = r.user /\ n.id = r.id)
    BY <1>5
  <1>10. lastId' \in Nat /\ ~At(c, "idle")
    BY <1>1, <1>3, Typed DEF At
  <1>. QED
    BY <1>1, <1>3, <1>4, <1>5, <1>8, <1>9, <1>10, WriteStep

LEMMA UnsubscribeFindStep ==
    ASSUME Inv, NEW c \in Calls, UnsubscribeFind(c)
    PROVE  Inv'
  <1>1. PICK t \in Call : t = call[c] /\ Formed(t) /\ t.pc = "find" /\ t.op = "unsubscribe"
    BY Typed DEF UnsubscribeFind, Steps, At
  <1>2. t.endpoint \in Endpoints /\ t.user \in Users
    BY <1>1 DEF Formed
  <1>3. PICK r \in Row : r = row[t.endpoint]
    BY <1>2, Typed
  <1>4. CASE r.user = t.user
    <2>. DEFINE s == [t EXCEPT !.pc = "delete", !.entity = r]
    <2>1. call' = [call EXCEPT ![c] = s]
      BY <1>1, <1>3, <1>4, Typed DEF UnsubscribeFind, Owns
    <2>2. /\ s \in Call /\ s.pc = "delete" /\ s.entity = r
          /\ \A f \in {"op", "user", "endpoint", "keys", "met", "there", "fields"} : s[f] = t[f]
      BY DEF Call
    <2>. HIDE DEF s
    <2>3. UNCHANGED <<row, lastId, known, push, begun, failures, left, sure>>
      BY <1>1, <1>3, <1>4 DEF UnsubscribeFind, Owns, Steps
    <2>4. Formed(s)
      BY <1>1, <1>2, <1>4, <2>2, RowTyped DEF Formed
    <2>5. Alone(s)
      BY <2>2 DEF Alone
    <2>6. sure[t.endpoint] = NoRow
      BY <1>1, <1>2, <1>3, <1>4, NoRowIs, NullAssumption DEF Inv, Sure
    <2>7. s.entity.id \in Ids => Holds(s.endpoint, s.entity.id)
      BY <1>3, <2>2 DEF Holds
    <2>. QED
      BY <1>1, <1>3, <2>1, <2>2, <2>3, <2>4, <2>5, <2>6, <2>7, GoStep DEF At
  <1>5. CASE r.user # t.user
    <2>1. Unsubscribed(c) /\ UNCHANGED <<row, lastId, known, push, begun, failures>>
      BY <1>1, <1>3, <1>5 DEF UnsubscribeFind, Owns, Steps
    <2>. QED
      BY <1>1, <1>3, <1>5, <2>1, Typed, LeaveStep DEF At
  <1>. QED
    BY <1>4, <1>5

\* Deleting by id takes rows away, or leaves them as they are.
LEMMA RowsGo ==
    ASSUME Inv, NEW ids, row' = Without(ids)
    PROVE  /\ \A x \in Endpoints : row'[x] = IF row[x].id \in ids THEN NoRow ELSE row[x]
           /\ row' \in [Endpoints -> Row]
  BY Typed DEF Without, Row

LEMMA DeleteStep ==
    ASSUME Inv, NEW c \in Calls, Delete(c)
    PROVE  Inv'
  <1>1. PICK t \in Call : /\ t = call[c] /\ Formed(t) /\ Leaves(t)
                          /\ t.pc = "delete" /\ t.op = "unsubscribe"
    BY Typed DEF Delete, Steps, At, Formed, Inv
  <1>2. t.endpoint \in Endpoints /\ t.user \in Users /\ t.entity.id \in Ids
    BY <1>1 DEF Formed
  <1>3. /\ Unsubscribed(c) /\ UNCHANGED <<lastId, known, push, begun, failures>>
        /\ row' = Without({t.entity.id})
    BY <1>1 DEF Delete, Steps
  <1>4. /\ \A x \in Endpoints : row'[x] = IF row[x].id = t.entity.id THEN NoRow ELSE row[x]
        /\ row' \in [Endpoints -> Row]
    BY <1>3, Typed DEF Without, Row
  <1>5. sure[t.endpoint] = NoRow
    BY <1>1, <1>2 DEF Inv, Sure
  <1>6. ASSUME NEW x \in Endpoints, row[x].id = t.entity.id PROVE x = t.endpoint
    BY <1>1, <1>2, <1>6 DEF Inv, OwnIds, Holds
  <1>7. \A x \in Endpoints :
           \/ row'[x] = row[x]
           \/ x = t.endpoint /\ row'[x] = NoRow /\ sure[x] = NoRow
    <2>1. ASSUME NEW x \in Endpoints, row[x].id = t.entity.id
          PROVE  x = t.endpoint /\ row'[x] = NoRow /\ sure[x] = NoRow
      BY <1>4, <1>5, <1>6, <2>1
    <2>2. ASSUME NEW x \in Endpoints, row[x].id # t.entity.id PROVE row'[x] = row[x]
      BY <1>4, <2>2
    <2>. QED
      BY <2>1, <2>2
  <1>8. <<t.user, "subscribe">> \notin t.met => row'[t.endpoint].user # t.user
    BY <1>1, <1>2, <1>4, NoRowIs, NullAssumption DEF Leaves
  <1>. QED
    BY <1>1, <1>3, <1>4, <1>7, <1>8, LeaveStep DEF At

LEMMA FailStep ==
    ASSUME Inv, NEW c \in Calls, Fail(c)
    PROVE  Inv'
  <1>1. failures' \in 0..MaxFailures
    BY BoundsAssumption DEF Fail, Inv, TypeOK
  <1>. QED
    BY <1>1, AnswerStep DEF Fail

------------------------------------------------------------------------------
(* The steps of the push workers and of the browsers. *)

LEMMA ListStep ==
    ASSUME Inv, NEW w \in Workers, NEW u \in Users, List(w, u)
    PROVE  Inv'
  <1>. DEFINE todo == {<<e, row[e].id>> : e \in {x \in Endpoints : row[x].user = u}}
              j == [pc |-> "send", todo |-> todo, stale |-> {}]
  <1>1. todo \subseteq Endpoints \X Ids
    BY Typed, RowTyped
  <1>2. \A e \in Endpoints, i \in Ids : <<e, i>> \in todo => row[e].id = i
    OBVIOUS
  <1>3. push' = [push EXCEPT ![w] = j] /\ UNCHANGED <<row, lastId, known, call, begun, failures, left, sure>>
    BY DEF List
  <1>. HIDE DEF todo
  <1>4. j \in Job /\ j.todo = todo /\ j.stale = {}
    BY <1>1 DEF Job
  <1>. HIDE DEF j
  <1>5. \A v \in Workers : push'[v] = IF v = w THEN j ELSE push[v]
    BY <1>3, Typed
  <1>6. TypeOK'
    BY <1>3, <1>4 DEF Inv, TypeOK
  <1>7. ASSUME NEW e \in Endpoints, NEW i \in Ids, Holds(e, i)' PROVE Holds(e, i)
    <2>1. CASE \E v \in Workers : <<e, i>> \in push'[v].todo
      BY <1>2, <1>4, <1>5, <2>1 DEF Holds
    <2>2. CASE row'[e].id = i \/ \E c \in Calls : call'[c].endpoint = e /\ call'[c].entity.id = i
      BY <1>3, <2>2 DEF Holds
    <2>. QED
      BY <1>7, <2>1, <2>2 DEF Holds
  <1>8. OwnIds'
    BY <1>3, <1>4, <1>5, <1>7, IdsStay, Typed
  <1>. QED
    BY <1>3, <1>6, <1>8, OtherStep

LEMMA SendStep ==
    ASSUME Inv, NEW w \in Workers, NEW s \in push[w].todo, NEW answer, Send(w, s, answer)
    PROVE  Inv'
  <1>1. PICK j \in Job : j = push[w]
    BY Typed
  <1>2. PICK e \in Endpoints, i \in Ids : s = <<e, i>>
    BY <1>1 DEF Job
  <1>3. Holds(e, i)
    BY <1>2 DEF Holds
  <1>4. PICK k \in Job :
           /\ push' = [push EXCEPT ![w] = k] /\ k.todo \subseteq j.todo
           /\ k.stale \subseteq j.stale \cup {i} /\ (e \in known => k.stale = j.stale)
    <2>. DEFINE todo == j.todo \ {s}
                stale == IF shouldRemove(s[1], answer) THEN j.stale \cup {s[2]} ELSE j.stale
                k == [j EXCEPT !.todo = todo, !.stale = stale]
    <2>1. push' = [push EXCEPT ![w] = k]
      BY <1>1, Typed DEF Send
    <2>2. /\ todo \subseteq j.todo /\ todo \subseteq Endpoints \X Ids /\ stale \subseteq Ids
          /\ stale \subseteq j.stale \cup {i} /\ (e \in known => stale = j.stale)
      BY <1>1, <1>2 DEF Job, shouldRemove
    <2>. HIDE DEF todo, stale
    <2>3. k \in Job /\ k.todo = todo /\ k.stale = stale
      BY <2>2 DEF Job
    <2>. QED
      BY <2>1, <2>2, <2>3
  <1>5. UNCHANGED <<row, lastId, known, call, begun, failures, left, sure>>
    BY DEF Send
  <1>6. \A v \in Workers : push'[v] = IF v = w THEN k ELSE push[v]
    BY <1>4, Typed
  <1>7. TypeOK'
    BY <1>4, <1>5 DEF Inv, TypeOK
  <1>8. ASSUME NEW x \in Endpoints, NEW n \in Ids, Holds(x, n)' PROVE Holds(x, n)
    <2>1. CASE \E v \in Workers : <<x, n>> \in push'[v].todo
      BY <1>1, <1>4, <1>6, <2>1 DEF Holds
    <2>2. CASE row'[x].id = n \/ \E c \in Calls : call'[c].endpoint = x /\ call'[c].entity.id = n
      BY <1>5, <2>2 DEF Holds
    <2>. QED
      BY <1>8, <2>1, <2>2 DEF Holds
  <1>9. OwnIds'
    <2>1. \A v \in Workers : push[v].stale \subseteq Ids
      BY Typed DEF Job
    <2>2. ASSUME NEW v \in Workers, NEW n \in push'[v].stale
          PROVE  n \in Ids /\ n <= lastId /\ \A x \in known : ~Holds(x, n)
      <3>1. CASE n \in push[v].stale
        BY <2>1, <3>1 DEF Inv, OwnIds
      <3>2. CASE n \notin push[v].stale
        <4>1. n = i /\ e \notin known
          BY <1>1, <1>4, <1>6, <2>2, <3>2
        <4>. QED
          BY <1>2, <1>3, <4>1, Typed DEF Inv, OwnIds
      <3>. QED
        BY <3>1, <3>2
    <2>3. \A v \in Workers : \A n \in push'[v].stale :
             n <= lastId' /\ \A x \in known' : ~Holds(x, n)'
      BY <1>5, <1>8, <2>2, Typed
    <2>. QED
      BY <1>5, <1>8, <2>3 DEF Inv, OwnIds
  <1>. QED
    BY <1>5, <1>7, <1>9, OtherStep

LEMMA PruneStep ==
    ASSUME Inv, NEW w \in Workers, Prune(w)
    PROVE  Inv'
  <1>1. PICK j \in Job : j = push[w]
    BY Typed
  <1>. DEFINE k == [j EXCEPT !.pc = "idle", !.stale = {}]
  <1>2. /\ row' = Without(j.stale) /\ push' = [push EXCEPT ![w] = k]
        /\ UNCHANGED <<lastId, known, call, begun, failures, left, sure>>
    BY <1>1, Typed DEF Prune
  <1>3. k \in Job /\ k.todo = j.todo /\ k.stale = {}
    BY DEF Job
  <1>. HIDE DEF k
  <1>4. \A v \in Workers : push'[v] = IF v = w THEN k ELSE push[v]
    BY <1>2, Typed
  <1>5. TypeOK'
    BY <1>2, <1>3, RowsGo DEF Inv, TypeOK
  <1>6. j.stale \subseteq Ids
    BY DEF Job
  <1>7. \A x \in Endpoints : row'[x] = row[x] \/ (row'[x] = NoRow /\ x \notin known)
    BY <1>1, <1>2, <1>6, RowsGo DEF Inv, OwnIds, Holds
  <1>8. ASSUME NEW x \in Endpoints, NEW i \in Ids, Holds(x, i)' PROVE Holds(x, i)
    <2>1. CASE \E v \in Workers : <<x, i>> \in push'[v].todo
      BY <1>1, <1>3, <1>4, <2>1 DEF Holds
    <2>2. CASE row'[x].id = i
      BY <1>7, <2>2, NoRowIs DEF Holds, Ids
    <2>3. CASE \E c \in Calls : call'[c].endpoint = x /\ call'[c].entity.id = i
      BY <1>2, <2>3 DEF Holds
    <2>. QED
      BY <1>8, <2>1, <2>2, <2>3 DEF Holds
  <1>9. OwnIds'
    BY <1>2, <1>3, <1>4, <1>8, IdsStay, Typed
  <1>. QED
    BY <1>2, <1>5, <1>7, <1>9, OtherStep

LEMMA ForgetStep ==
    ASSUME Inv, NEW e \in Endpoints, Forget(e)
    PROVE  Inv'
  <1>1. known' \subseteq known /\ UNCHANGED <<row, lastId, call, push, begun, failures, left, sure>>
    BY DEF Forget
  <1>2. TypeOK'
    BY <1>1 DEF Inv, TypeOK
  <1>3. \A x \in Endpoints, i \in Ids : Holds(x, i)' => Holds(x, i)
    BY <1>1 DEF Holds
  <1>4. OwnIds'
    BY <1>1, <1>3, IdsStay, Typed
  <1>. QED
    BY <1>1, <1>2, <1>4, OtherStep

------------------------------------------------------------------------------
(* The theorems. *)

LEMMA StepOK == Inv /\ [Next]_vars => Inv'
  <1>. SUFFICES ASSUME Inv, [Next]_vars PROVE Inv'
    OBVIOUS
  <1>1. CASE \E c \in Calls : Request(c)
    <2>1. PICK c \in Calls : Request(c)
      BY <1>1
    <2>. QED
      BY <2>1, BeginStep, SubscribeFindStep, CreateStep, UpdateFindStep, SaveLoadStep,
         SaveInsertStep, SaveUpdateStep, UnsubscribeFindStep, DeleteStep, FailStep DEF Request
  <1>2. CASE \E w \in Workers : Work(w)
    <2>1. PICK w \in Workers : Work(w)
      BY <1>2
    <2>. QED
      BY <2>1, ListStep, SendStep, PruneStep DEF Work
  <1>3. CASE \E e \in Endpoints : Forget(e)
    BY <1>3, ForgetStep
  <1>4. CASE UNCHANGED vars
    BY <1>4, OtherStep DEF vars, Inv, TypeOK, OwnIds, Holds
  <1>. QED
    BY <1>1, <1>2, <1>3, <1>4 DEF Next

(***************************************************************************)
(* The inductive invariant: requests that overlap on an endpoint know of   *)
(* each other, ids are one endpoint's, and what a request has loaded is    *)
(* still there as long as it has met nobody (PushSubscriptionService).     *)
(***************************************************************************)
THEOREM Invariance == Spec => []Inv
  BY InitOK, StepOK, PTL DEF Spec

\* The variables have their types, for any users, endpoints, keys and bounds.
THEOREM TypeCorrect == Spec => []TypeOK
  <1>1. Inv => TypeOK
    BY DEF Inv
  <1>. QED
    BY <1>1, Invariance, PTL

(***************************************************************************)
(* Whoever has left a browser is not entered for it again unless they      *)
(* subscribe (unsubscribe, save of a row deleted meanwhile).               *)
(***************************************************************************)
THEOREM NobodyIsBroughtBack == Spec => []LeaversStayAway
  <1>1. Inv => LeaversStayAway
    BY DEF Inv
  <1>. QED
    BY <1>1, Invariance, PTL

(***************************************************************************)
(* A subscription answered while nobody else asked stays as long as the    *)
(* browser does and nobody replaces it (push worker, unsubscribe).         *)
(***************************************************************************)
THEOREM SureOnesStay == Spec => []SubscriptionsStay
  <1>1. Inv => SubscriptionsStay
    BY DEF Inv, Sure, SubscriptionsStay
  <1>. QED
    BY <1>1, Invariance, PTL
==============================================================================
