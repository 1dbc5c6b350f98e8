-------------------------- MODULE BillingCycleProofs --------------------------
(***************************************************************************)
(* Proofs that the safety properties of BillingCycle hold for any members, *)
(* any number of handlers in flight and any bounds.                        *)
(***************************************************************************)
EXTENDS BillingCycle, SequenceTheorems, TLAPS

\* The upcoming period p holds no record of m yet.
Unbilled(p, m) == p \in Periods /\ periods[p].status = "UPCOMING" /\ <<p, m>> \notin records

\* The members a generation has still to bill, and the periods addMember still bills in.
Waiting(s) == {s.todo[i] : i \in 1..Len(s.todo)}
Covers(s, p) == p \in s.bills \/ (s.pc = "record" /\ s.period = p)

\* Where a period generated today starts, for a group read with schedule s.
Start(s) == PeriodDates[s][today].periodStart

\* Of the periods made for s, those with this status are the one generated today.
OnlyNow(s, status) ==
    \A p \in Periods :
        periods[p].status = status /\ periods[p].schedule = s => periods[p].start = Start(s)

\* What a handler relies on between two of its awaits.
SlotOK(s) ==
    /\ \/ s.pc \in {"host", "group", "upcoming", "create", "shares", "records"}
       \/ s.pc \in {"current", "currentUpcoming"} /\ s.stage # "delete"
       => s.op \in Generators
    /\ \/ s.pc \in {"upcoming", "create"}
       \/ s.pc \in {"current", "currentUpcoming"} /\ s.stage = "generate"
       => s.schedule \in Schedules
    /\ s.pc = "currentUpcoming" /\ s.stage = "generate" => OnlyNow(s.schedule, "ACTIVE")
    /\ s.pc \in {"upcoming", "create"} =>
          OnlyNow(s.schedule, "ACTIVE") /\ OnlyNow(s.schedule, "UPCOMING")
    /\ s.pc \in {"shares", "records"} => s.period \in Periods
    /\ s.pc = "records" => \A m \in joined : Unbilled(s.period, m) => m \in Waiting(s)
    /\ s.pc \in {"member", "periods", "bill", "record"} => s.member \in Members
    /\ s.pc \in {"periods", "bill", "record"} => s.member \in Joined
    /\ s.pc \in {"bill", "record"} =>
          \A p \in complete : Unbilled(p, s.member) => Covers(s, p)

\* An addMember and a generation in flight: one of the two bills the member.
PairOK(a, g) ==
    a.pc \in {"bill", "record"} /\ g.pc = "records" =>
        (Unbilled(g.period, a.member) => Covers(a, g.period) \/ a.member \in Waiting(g))

\* The periods made for one schedule start one after the other, none later than that of
\* today, and the one of today is the only one whose due date is still to come.
Ordered ==
    /\ \A p \in Periods : periods[p].start <= Start(periods[p].schedule)
    /\ \A p \in Periods :
          today < periods[p].due =>
              /\ periods[p].start = Start(periods[p].schedule)
              /\ periods[p].due = PeriodDates[periods[p].schedule][today].dueDate
    /\ \A p, o \in Periods :
          p < o /\ periods[p].schedule = periods[o].schedule => periods[p].start < periods[o].start

Seen == complete \subseteq Periods /\ joined \subseteq Joined

Inv ==
    /\ TypeOK
    /\ Ordered
    /\ OneOpenCycle
    /\ Seen
    /\ NewcomersAreBilled
    /\ \A q \in Slots : SlotOK(req[q])
    /\ \A q, o \in Slots : PairOK(req[q], req[o])

------------------------------------------------------------------------------
(* The rows. *)

\* What a step may do to the rows while handlers rely on them.
Grows ==
    /\ Periods \subseteq Periods'
    /\ \A p \in Periods :
          /\ periods'[p].start = periods[p].start
          /\ periods'[p].schedule = periods[p].schedule
          /\ periods'[p].status = "UPCOMING" => periods[p].status = "UPCOMING"
          /\ periods'[p].status = "ACTIVE" =>
                periods[p].status = "ACTIVE" \/ periods[p].start = Start(periods[p].schedule)
    /\ \A p \in Periods' \ Periods : periods'[p].start = Start(periods'[p].schedule)
    /\ records \subseteq records'
    /\ Joined \subseteq Joined'
    /\ today' = today

LEMMA DatesTyped ==
    ASSUME NEW s \in Schedules, NEW d \in Days
    PROVE  /\ PeriodDates[s][d].periodStart \in Nat
           /\ PeriodDates[s][d].dueDate \in Nat
           /\ d \in Nat
  <1>1. PeriodDates[s][d] \in Dates
    BY CalendarAssumption
  <1>. QED
    BY <1>1, CalendarAssumption DEF Dates

LEMMA Typed ==
    ASSUME TypeOK
    PROVE  /\ Len(periods) \in Nat /\ DOMAIN periods = Periods
           /\ \A p \in Periods : periods[p] \in Period
           /\ Len(members) \in Nat /\ \A i \in 1..Len(members) : members[i] \in Members
           /\ Joined \subseteq Members
           /\ \A q \in Slots : req[q] \in Slot
  <1>1. periods \in Seq(Period) /\ members \in Seq(Members)
    BY DEF TypeOK
  <1>2. Len(periods) \in Nat /\ DOMAIN periods = Periods /\ \A p \in Periods : periods[p] \in Period
    BY <1>1, LenProperties, ElementOfSeq DEF Periods
  <1>3. Len(members) \in Nat /\ \A i \in 1..Len(members) : members[i] \in Members
    BY <1>1, LenProperties, ElementOfSeq
  <1>. QED
    BY <1>2, <1>3 DEF TypeOK, Joined

LEMMA IdleOK == Idle \in Slot /\ SlotOK(Idle) /\ Idle.pc = "idle"
  <1>1. <<>> \in Seq(Members)
    BY EmptySeq
  <1>2. Idle \in Slot /\ Idle.pc = "idle"
    BY <1>1 DEF Idle, Slot, PCs
  <1>. QED
    BY <1>2 DEF SlotOK

LEMMA SameRows ==
    ASSUME TypeOK, UNCHANGED <<periods, records, members, today>>
    PROVE  Grows
  BY DEF Grows, Periods, Joined

\* Handlers may go on relying on what they have seen.
LEMMA Stays ==
    ASSUME Inv, Grows, joined' = joined, complete' = complete, NEW s \in Slot, SlotOK(s)
    PROVE  SlotOK(s)'
  <1>1. \A p, m : Unbilled(p, m)' /\ p \in Periods => Unbilled(p, m)
    BY DEF Unbilled, Grows
  <1>2. OnlyNow(s.schedule, "ACTIVE") => OnlyNow(s.schedule, "ACTIVE")'
    BY DEF OnlyNow, Start, Grows
  <1>3. OnlyNow(s.schedule, "UPCOMING") => OnlyNow(s.schedule, "UPCOMING")'
    BY DEF OnlyNow, Start, Grows
  <1>4. Periods \subseteq Periods' /\ Joined \subseteq Joined' /\ complete \subseteq Periods
    BY DEF Grows, Inv, Seen
  <1>5. s.pc = "records" =>
            (\A m \in joined : Unbilled(s.period, m) => m \in Waiting(s)) /\ s.period \in Periods
    BY DEF SlotOK
  <1>6. s.pc \in {"bill", "record"} => \A p \in complete : Unbilled(p, s.member) => Covers(s, p)
    BY DEF SlotOK
  <1>7. (s.pc = "records" => \A m \in joined : Unbilled(s.period, m) => m \in Waiting(s))'
    BY <1>1, <1>5 DEF Waiting
  <1>8. (s.pc \in {"bill", "record"} =>
            \A p \in complete : Unbilled(p, s.member) => Covers(s, p))'
    BY <1>1, <1>4, <1>6 DEF Covers
  <1>. QED
    BY <1>2, <1>3, <1>4, <1>7, <1>8 DEF SlotOK

LEMMA PairStays ==
    ASSUME Grows, NEW a \in Slot, NEW g \in Slot, SlotOK(g), PairOK(a, g)
    PROVE  PairOK(a, g)'
  <1>1. \A p, m : Unbilled(p, m)' /\ p \in Periods => Unbilled(p, m)
    BY DEF Unbilled, Grows
  <1>2. g.pc = "records" => g.period \in Periods
    BY DEF SlotOK
  <1>. QED
    BY <1>1, <1>2 DEF PairOK, Covers, Waiting

LEMMA HistoryStays ==
    ASSUME Inv, Grows, joined' = joined, complete' = complete
    PROVE  Seen' /\ NewcomersAreBilled'
  <1>1. Seen'
    BY DEF Inv, Seen, Grows
  <1>2. NewcomersAreBilled'
    BY DEF Inv, Seen, Grows, NewcomersAreBilled
  <1>. QED
    BY <1>1, <1>2

(***************************************************************************)
(* A step of one handler, whose new state s is in order among the others.  *)
(***************************************************************************)
LEMMA SlotStep ==
    ASSUME Inv, Grows, TypeOK', Ordered', OneOpenCycle', joined' = joined, complete' = complete,
           NEW q \in Slots, NEW s \in Slot, req' = [req EXCEPT ![q] = s], SlotOK(s)',
           \A o \in Slots, t \in Slot :
              o # q /\ t = req[o] => PairOK(s, t)' /\ PairOK(t, s)'
    PROVE  Inv'
  <1>1. Seen' /\ NewcomersAreBilled'
    BY HistoryStays
  <1>2. \A x \in Slots : req[x] \in Slot /\ SlotOK(req[x]) /\ req'[x] = IF x = q THEN s ELSE req[x]
    BY Typed DEF Inv, TypeOK
  <1>3. \A t \in Slot : SlotOK(t) => SlotOK(t)'
    BY Stays
  <1>4. \A x \in Slots : SlotOK(req[x])'
    BY <1>2, <1>3
  <1>5. ASSUME NEW x \in Slots, NEW y \in Slots PROVE PairOK(req[x], req[y])'
    <2>1. CASE x = q /\ y = q
      <3>1. PairOK(s, s)'
        BY DEF PairOK
      <3>. QED
        BY <1>2, <2>1, <3>1
    <2>2. CASE x = q /\ y # q
      BY <1>2, <2>2
    <2>3. CASE x # q /\ y = q
      BY <1>2, <2>3
    <2>4. CASE x # q /\ y # q
      <3>1. \A a, g \in Slot : SlotOK(g) /\ PairOK(a, g) => PairOK(a, g)'
        BY PairStays
      <3>2. PairOK(req[x], req[y])
        BY DEF Inv
      <3>. QED
        BY <1>2, <2>4, <3>1, <3>2
    <2>. QED
      BY <2>1, <2>2, <2>3, <2>4
  <1>. QED
    BY <1>1, <1>4, <1>5 DEF Inv

\* A handler moves on and leaves the rows alone.
LEMMA QuietStep ==
    ASSUME Inv, UNCHANGED <<rows, today, joined, complete>>,
           requests' \in 0..MaxRequests, failures' \in 0..MaxFailures, ran' \in BOOLEAN,
           NEW q \in Slots, NEW s \in Slot, req' = [req EXCEPT ![q] = s], SlotOK(s),
           \A o \in Slots, t \in Slot :
              o # q /\ t = req[o] => PairOK(s, t) /\ PairOK(t, s)
    PROVE  Inv'
  <1>1. Grows
    BY SameRows DEF Inv, rows
  <1>2. TypeOK'
    BY DEF Inv, TypeOK, rows
  <1>3. Ordered' /\ OneOpenCycle'
    BY DEF Inv, Ordered, Start, OneOpenCycle, Periods, rows
  <1>4. SlotOK(s)'
    BY <1>1, Stays
  <1>5. \A o \in Slots, t \in Slot :
           o # q /\ t = req[o] => PairOK(s, t)' /\ PairOK(t, s)'
    <2>1. \A a, g \in Slot : SlotOK(g) /\ PairOK(a, g) => PairOK(a, g)'
      BY <1>1, PairStays
    <2>2. \A o \in Slots : SlotOK(req[o])
      BY DEF Inv
    <2>. QED
      BY <2>1, <2>2
  <1>. QED
    BY <1>1, <1>2, <1>3, <1>4, <1>5, SlotStep

\* The same, where the handler neither bills a newcomer nor inserts records.
LEMMA PlainStep ==
    ASSUME Inv, UNCHANGED <<rows, today, joined, complete>>,
           requests' \in 0..MaxRequests, failures' \in 0..MaxFailures, ran' \in BOOLEAN,
           NEW q \in Slots, NEW s \in Slot, req' = [req EXCEPT ![q] = s], SlotOK(s),
           s.pc \notin {"bill", "record", "records"}
    PROVE  Inv'
  <1>1. \A o \in Slots, t \in Slot : PairOK(s, t) /\ PairOK(t, s)
    BY DEF PairOK
  <1>. QED
    BY <1>1, QuietStep

LEMMA GotoTyped ==
    ASSUME Inv, NEW q \in Slots, NEW pc \in PCs, Goto(q, pc)
    PROVE  \E s \in Slot : /\ req' = [req EXCEPT ![q] = s] /\ s.pc = pc
                           /\ s.op = req[q].op /\ s.stage = req[q].stage
                           /\ s.status = req[q].status /\ s.period = req[q].period
                           /\ s.todo = req[q].todo /\ s.member = req[q].member
                           /\ s.bills = req[q].bills /\ s.schedule = req[q].schedule
  <1>1. req[q] \in Slot /\ req \in [Slots -> Slot]
    BY Typed DEF Inv, TypeOK
  <1>. DEFINE s == [req[q] EXCEPT !.pc = pc]
  <1>2. req' = [req EXCEPT ![q] = s]
    BY <1>1 DEF Goto
  <1>3. /\ s \in Slot /\ s.pc = pc
        /\ s.op = req[q].op /\ s.stage = req[q].stage
        /\ s.status = req[q].status /\ s.period = req[q].period
        /\ s.todo = req[q].todo /\ s.member = req[q].member /\ s.bills = req[q].bills
        /\ s.schedule = req[q].schedule
    BY <1>1 DEF Slot
  <1>. QED
    BY <1>2, <1>3

\* A handler that ends leaves nothing to be relied on.
LEMMA ReplyStep ==
    ASSUME Inv, UNCHANGED <<rows, today, joined, complete>>,
           requests' \in 0..MaxRequests, failures' \in 0..MaxFailures, ran' \in BOOLEAN,
           NEW q \in Slots, Reply(q)
    PROVE  Inv'
  BY IdleOK, PlainStep DEF Reply

LEMMA FinishStep ==
    ASSUME Inv, UNCHANGED <<rows, today, requests, failures>>, NEW q \in Slots, Finish(q)
    PROVE  Inv'
  <1>1. ran' \in BOOLEAN /\ requests' \in 0..MaxRequests /\ failures' \in 0..MaxFailures
    BY DEF Inv, TypeOK, Finish
  <1>. QED
    BY <1>1, ReplyStep DEF Finish

\* A handler goes on, with nothing new to be relied on.
LEMMA GotoStep ==
    ASSUME Inv, UNCHANGED <<rows, today, requests, failures, history>>, NEW q \in Slots,
           NEW pc \in PCs \ {"bill", "record", "records"}, Goto(q, pc),
           \A s \in Slot : /\ s.pc = pc /\ s.op = req[q].op /\ s.stage = req[q].stage
                            /\ s.schedule = req[q].schedule => SlotOK(s)
    PROVE  Inv'
  <1>1. ran' \in BOOLEAN /\ requests' \in 0..MaxRequests /\ failures' \in 0..MaxFailures
    BY DEF Inv, TypeOK, history
  <1>2. PICK s \in Slot : /\ req' = [req EXCEPT ![q] = s] /\ s.pc = pc
                          /\ s.op = req[q].op /\ s.stage = req[q].stage
                          /\ s.schedule = req[q].schedule
    BY GotoTyped
  <1>3. SlotOK(s)
    BY <1>2
  <1>. QED
    BY <1>1, <1>2, <1>3, PlainStep DEF history

\* A request arrives; what it is to do is read from its arguments.
LEMMA BeginStep ==
    ASSUME Inv, UNCHANGED <<rows, today, failures, history>>,
           requests' \in 0..MaxRequests, NEW q \in Slots, NEW s \in Slot,
           req' = [req EXCEPT ![q] = s], SlotOK(s), s.pc \notin {"bill", "record", "records"}
    PROVE  Inv'
  <1>1. ran' \in BOOLEAN /\ failures' \in 0..MaxFailures
    BY DEF Inv, TypeOK, history
  <1>. QED
    BY <1>1, PlainStep DEF history

------------------------------------------------------------------------------
(* The steps of the handlers. *)

LEMMA CallStep ==
    ASSUME Inv, NEW q \in Slots, Call(q)
    PROVE  Inv'
  <1>1. requests \in Nat /\ MaxRequests \in Nat
    BY BoundsAssumption DEF Inv, TypeOK
  <1>2. CASE CreateGroup(q)
    <2>. DEFINE s == [Idle EXCEPT !.pc = "host", !.op = "createGroup"]
    <2>1. s \in Slot /\ s.pc = "host" /\ s.op = "createGroup"
      BY IdleOK DEF Slot, PCs, Requests
    <2>2. SlotOK(s)'
      BY <2>1 DEF SlotOK, Generators
    <2>3. /\ req' = [req EXCEPT ![q] = s] /\ requests' \in 0..MaxRequests
          /\ group' = "ACTIVE"
          /\ UNCHANGED <<schedule, deleted, members, shares, periods, records, paid, today,
                         failures, ran, complete, joined>>
      BY <1>1, <1>2 DEF CreateGroup, Accept, history
    <2>. HIDE DEF s
    <2>4. TypeOK'
      BY <2>1, <2>3 DEF Inv, TypeOK, GroupStatus
    <2>5. Grows
      BY <2>3, SameRows DEF Inv
    <2>6. Ordered' /\ OneOpenCycle'
      BY <2>3 DEF Inv, Ordered, Start, OneOpenCycle, Periods
    <2>7. \A o \in Slots, t \in Slot : PairOK(s, t)' /\ PairOK(t, s)'
      BY <2>1 DEF PairOK
    <2>. QED
      BY <2>1, <2>2, <2>3, <2>4, <2>5, <2>6, <2>7, SlotStep
  <1>3. CASE DeleteGroup(q)
    <2>. DEFINE s == [Idle EXCEPT !.pc = "current", !.op = "deleteGroup", !.stage = "delete"]
    <2>1. s \in Slot /\ s.pc = "current" /\ s.stage = "delete"
      BY IdleOK DEF Slot, PCs, Requests
    <2>2. SlotOK(s)
      BY <2>1 DEF SlotOK
    <2>3. /\ req' = [req EXCEPT ![q] = s] /\ requests' \in 0..MaxRequests
          /\ UNCHANGED <<rows, today, failures, history>>
      BY <1>1, <1>3 DEF DeleteGroup, Accept
    <2>. HIDE DEF s
    <2>. QED
      BY <2>1, <2>2, <2>3, BeginStep
  <1>4. ASSUME NEW to \in GroupStatus \cup {Null}, NEW new \in Schedules \cup {Null},
               UpdateGroup(q, to, new)
        PROVE  Inv'
    <2>. DEFINE s == [Idle EXCEPT !.pc = "update", !.op = "updateGroup", !.status = to,
                                  !.schedule = new]
    <2>1. s \in Slot /\ s.pc = "update"
      BY IdleOK DEF Slot, PCs, Requests
    <2>2. SlotOK(s)
      BY <2>1 DEF SlotOK
    <2>3. /\ req' = [req EXCEPT ![q] = s] /\ requests' \in 0..MaxRequests
          /\ UNCHANGED <<rows, today, failures, history>>
      BY <1>1, <1>4 DEF UpdateGroup, Accept
    <2>. HIDE DEF s
    <2>. QED
      BY <2>1, <2>2, <2>3, BeginStep
  <1>5. ASSUME NEW m \in Members, AddMember(q, m) PROVE Inv'
    <2>. DEFINE s == [Idle EXCEPT !.pc = "member", !.op = "addMember", !.member = m]
    <2>1. s \in Slot /\ s.pc = "member" /\ s.member = m
      BY IdleOK DEF Slot, PCs, Requests
    <2>2. SlotOK(s)
      BY <2>1 DEF SlotOK
    <2>3. /\ req' = [req EXCEPT ![q] = s] /\ requests' \in 0..MaxRequests
          /\ UNCHANGED <<rows, today, failures, history>>
      BY <1>1, <1>5 DEF AddMember, Accept
    <2>. HIDE DEF s
    <2>. QED
      BY <2>1, <2>2, <2>3, BeginStep
  <1>. QED
    BY <1>2, <1>3, <1>4, <1>5 DEF Call

LEMMA DailyCheckStep ==
    ASSUME Inv, NEW q \in Slots, DailyCheck(q)
    PROVE  Inv'
  <1>. DEFINE s == [Idle EXCEPT !.pc = "current", !.stage = "check",
                                !.op = "generateUpcomingCycles", !.schedule = schedule]
  <1>1. s \in Slot /\ s.pc = "current" /\ s.op = "generateUpcomingCycles"
        /\ s.stage = "check"
    BY IdleOK DEF Slot, PCs, Generators, Inv, TypeOK
  <1>2. SlotOK(s)
    BY <1>1 DEF SlotOK, Generators
  <1>3. UNCHANGED <<rows, today, requests, failures, complete, joined>>
    BY DEF DailyCheck
  <1>4. requests' \in 0..MaxRequests /\ failures' \in 0..MaxFailures
    BY <1>3 DEF Inv, TypeOK
  <1>5. CASE group = "ACTIVE" /\ ~deleted
    <2>1. req' = [req EXCEPT ![q] = s] /\ ran' \in BOOLEAN
      BY <1>5 DEF DailyCheck, Inv, TypeOK
    <2>. HIDE DEF s
    <2>. QED
      BY <1>1, <1>2, <1>3, <1>4, <2>1, PlainStep
  <1>6. CASE ~(group = "ACTIVE" /\ ~deleted)
    <2>1. ran' = TRUE /\ req' = req
      BY <1>6 DEF DailyCheck
    <2>2. /\ UNCHANGED <<group, schedule, deleted, members, shares, periods, records, paid, today>>
          /\ UNCHANGED <<requests, failures, complete, joined>>
      BY <1>3 DEF rows
    <2>3. TypeOK'
      BY <2>1, <2>2 DEF Inv, TypeOK
    <2>4. Ordered' /\ OneOpenCycle' /\ Seen'
      BY <2>2 DEF Inv, Ordered, Start, OneOpenCycle, Seen, Periods, Joined
    <2>5. NewcomersAreBilled'
      BY <2>2 DEF Inv, NewcomersAreBilled
    <2>6. \A o \in Slots : SlotOK(req[o])'
      BY <2>1, <2>2 DEF Inv, SlotOK, Unbilled, OnlyNow, Start, Waiting, Covers, Periods, Joined
    <2>7. \A o, g \in Slots : PairOK(req[o], req[g])'
      BY <2>1, <2>2, SMTT(30) DEF Inv, PairOK, Unbilled, Waiting, Covers, Periods
    <2>. QED
      BY <2>3, <2>4, <2>5, <2>6, <2>7 DEF Inv
  <1>. QED
    BY <1>5, <1>6

\* Somebody joins, whatever the step does besides.
LEMMA AppendMember ==
    ASSUME Inv, NEW m \in Members, members' = Append(members, m),
           UNCHANGED <<periods, records, today>>
    PROVE  members' \in Seq(Members) /\ Grows /\ m \in Joined'
  <1>1. members \in Seq(Members)
    BY DEF Inv, TypeOK
  <1>2. /\ members' \in Seq(Members) /\ Len(members') = Len(members) + 1 /\ Len(members) \in Nat
        /\ \A i \in 1..Len(members) : members'[i] = members[i]
        /\ members'[Len(members) + 1] = m
    BY <1>1, AppendProperties, LenProperties
  <1>3. Joined \subseteq Joined' /\ m \in Joined'
    BY <1>2 DEF Joined
  <1>. QED
    BY <1>2, <1>3 DEF Grows, Periods

LEMMA InsertHostStep ==
    ASSUME Inv, NEW q \in Slots, InsertHost(q)
    PROVE  Inv'
  <1>1. PICK s \in Slot : req' = [req EXCEPT ![q] = s] /\ s.pc = "group" /\ s.op = req[q].op
    BY GotoTyped DEF InsertHost, PCs
  <1>2. req[q].op \in Generators
    BY DEF Inv, SlotOK, InsertHost, At
  <1>3. SlotOK(s)'
    BY <1>1, <1>2 DEF SlotOK
  <1>4. /\ members' = Append(members, HostMember) /\ HostMember \in Members
        /\ UNCHANGED <<group, schedule, deleted, shares, periods, records, paid, today, requests,
                       failures, ran, complete, joined>>
    BY MembersAssumption DEF InsertHost, history
  <1>5. Grows /\ members' \in Seq(Members)
    BY <1>4, AppendMember
  <1>6. TypeOK'
    BY <1>1, <1>4, <1>5 DEF Inv, TypeOK
  <1>7. Ordered' /\ OneOpenCycle'
    BY <1>4 DEF Inv, Ordered, Start, OneOpenCycle, Periods
  <1>8. \A t \in Slot : PairOK(s, t)' /\ PairOK(t, s)'
    BY <1>1 DEF PairOK
  <1>. QED
    BY <1>1, <1>3, <1>4, <1>5, <1>6, <1>7, <1>8, SlotStep

LEMMA GroupWriteStep ==
    ASSUME Inv, NEW q \in Slots, WriteGroup(q) \/ SoftDelete(q)
    PROVE  Inv'
  <1>1. /\ UNCHANGED <<members, shares, periods, records, paid, today, requests,
                       failures, ran, complete, joined>>
        /\ req' = [req EXCEPT ![q] = Idle]
    BY DEF WriteGroup, SoftDelete, Reply, history
  <1>2. /\ deleted' \in BOOLEAN /\ group' \in GroupStatus \cup {Null}
        /\ schedule' \in Schedules
    <2>1. /\ req[q] \in Slot /\ deleted \in BOOLEAN /\ schedule \in Schedules
          /\ group \in GroupStatus \cup {Null}
      BY Typed DEF Inv, TypeOK
    <2>2. /\ req[q].status \in GroupStatus \cup {Null}
          /\ req[q].schedule \in Schedules \cup {Null}
      BY <2>1 DEF Slot
    <2>. QED
      BY <2>1, <2>2 DEF WriteGroup, SoftDelete
  <1>3. Idle \in Slot /\ SlotOK(Idle)' /\ Idle.pc = "idle"
    BY IdleOK DEF SlotOK
  <1>4. TypeOK'
    BY <1>1, <1>2, <1>3 DEF Inv, TypeOK
  <1>5. Grows
    BY <1>1, SameRows DEF Inv
  <1>6. Ordered' /\ OneOpenCycle'
    BY <1>1 DEF Inv, Ordered, Start, OneOpenCycle, Periods
  <1>7. \A t \in Slot : PairOK(Idle, t)' /\ PairOK(t, Idle)'
    BY <1>3 DEF PairOK
  <1>. QED
    BY <1>1, <1>3, <1>4, <1>5, <1>6, <1>7, SlotStep

LEMMA FindStep ==
    ASSUME Inv, NEW q \in Slots,
           FindActive(q) \/ FindUpcoming(q) \/ ReadGroup(q) \/ FindUpcomingAgain(q)
    PROVE  Inv'
  <1>1. UNCHANGED <<rows, today, requests, failures>>
    BY DEF FindActive, FindUpcoming, ReadGroup, FindUpcomingAgain
  <1>2. CASE Finish(q)
    BY <1>1, <1>2, FinishStep
  <1>3. CASE FindActive(q) /\ ~Finish(q)
    <2>1. ~Exists("ACTIVE") /\ Goto(q, "currentUpcoming") /\ UNCHANGED history /\ At(q, "current")
      BY <1>3 DEF FindActive
    <2>2. OnlyNow(req[q].schedule, "ACTIVE")
      BY <2>1 DEF Exists, OnlyNow
    <2>3. /\ req[q].stage # "delete" => req[q].op \in Generators
          /\ req[q].stage = "generate" => req[q].schedule \in Schedules
      BY <2>1 DEF Inv, SlotOK, At
    <2>4. \A s \in Slot : (/\ s.pc = "currentUpcoming" /\ s.op = req[q].op
                            /\ s.stage = req[q].stage /\ s.schedule = req[q].schedule)
                             => SlotOK(s)
      BY <2>2, <2>3 DEF SlotOK
    <2>. QED
      BY <1>1, <2>1, <2>4, GotoStep DEF PCs
  <1>4. CASE FindUpcoming(q) /\ ~Finish(q)
    <2>1. ~Exists("UPCOMING") /\ NoCurrent(q) /\ At(q, "currentUpcoming")
      BY <1>4 DEF FindUpcoming
    <2>2. SlotOK(req[q]) /\ req[q] \in Slot
      BY Typed DEF Inv
    <2>3. CASE req[q].stage = "check"
      <3>1. Goto(q, "group") /\ UNCHANGED history
        BY <1>4, <2>1, <2>3 DEF NoCurrent
      <3>2. \A s \in Slot : s.pc = "group" /\ s.op = req[q].op => SlotOK(s)
        BY <2>1, <2>2, <2>3 DEF SlotOK, At
      <3>. QED
        BY <1>1, <3>1, <3>2, GotoStep DEF PCs
    <2>4. CASE req[q].stage = "generate"
      <3>1. Goto(q, "upcoming") /\ UNCHANGED history
        BY <2>1, <2>4 DEF NoCurrent
      <3>2. OnlyNow(req[q].schedule, "UPCOMING")
        BY <2>1 DEF Exists, OnlyNow
      <3>3. \A s \in Slot : (/\ s.pc = "upcoming" /\ s.op = req[q].op
                              /\ s.schedule = req[q].schedule) => SlotOK(s)
        BY <2>1, <2>2, <2>4, <3>2 DEF SlotOK, At
      <3>. QED
        BY <1>1, <3>1, <3>3, GotoStep DEF PCs
    <2>5. CASE req[q].stage = "delete"
      <3>1. Goto(q, "softDelete") /\ UNCHANGED history
        BY <2>1, <2>5 DEF NoCurrent
      <3>2. \A s \in Slot : s.pc = "softDelete" => SlotOK(s)
        BY DEF SlotOK
      <3>. QED
        BY <1>1, <3>1, <3>2, GotoStep DEF PCs
    <2>. QED
      BY <2>2, <2>3, <2>4, <2>5 DEF Slot
  <1>5. CASE ReadGroup(q) /\ ~Finish(q)
    <2>. DEFINE s == [req[q] EXCEPT !.pc = "current", !.stage = "generate",
                                    !.schedule = schedule]
    <2>1. /\ req' = [req EXCEPT ![q].pc = "current", ![q].stage = "generate",
                                ![q].schedule = schedule]
          /\ UNCHANGED history /\ At(q, "group")
      BY <1>5 DEF ReadGroup
    <2>2. /\ req[q] \in Slot /\ req \in [Slots -> Slot] /\ req[q].op \in Generators
          /\ schedule \in Schedules
      BY <2>1, Typed DEF Inv, TypeOK, SlotOK, At
    <2>3. s \in Slot /\ s.pc = "current" /\ s.op \in Generators /\ s.schedule \in Schedules
      BY <2>2 DEF Slot, PCs
    <2>4. SlotOK(s)
      BY <2>3 DEF SlotOK
    <2>5. req' = [req EXCEPT ![q] = s]
      BY <2>1, <2>2
    <2>6. requests' \in 0..MaxRequests /\ failures' \in 0..MaxFailures /\ ran' \in BOOLEAN
      BY <1>1, <2>1 DEF Inv, TypeOK, history
    <2>. HIDE DEF s
    <2>. QED
      BY <1>1, <2>1, <2>3, <2>4, <2>5, <2>6, PlainStep DEF history
  <1>6. CASE FindUpcomingAgain(q) /\ ~Finish(q)
    <2>1. Goto(q, "create") /\ UNCHANGED history /\ At(q, "upcoming")
      BY <1>6 DEF FindUpcomingAgain
    <2>2. SlotOK(req[q])
      BY DEF Inv
    <2>3. \A s \in Slot : (/\ s.pc = "create" /\ s.op = req[q].op
                            /\ s.schedule = req[q].schedule) => SlotOK(s)
      BY <2>1, <2>2 DEF SlotOK, At
    <2>. QED
      BY <1>1, <2>1, <2>3, GotoStep DEF PCs
  <1>. QED
    BY <1>2, <1>3, <1>4, <1>5, <1>6

LEMMA CreatePeriodStep ==
    ASSUME Inv, NEW q \in Slots, CreatePeriod(q)
    PROVE  Inv'
  <1>. DEFINE dates == PeriodDates[req[q].schedule][today]
  <1>1. /\ UNCHANGED <<group, schedule, deleted, members, shares, records, paid, today,
                       requests, failures>>
        /\ At(q, "create") /\ req[q] \in Slot /\ req \in [Slots -> Slot]
    BY Typed DEF CreatePeriod, Inv, TypeOK
  <1>2. CASE ~UniquePeriod(dates.periodStart)
    <2>1. Finish(q) /\ UNCHANGED periods
      BY <1>2 DEF CreatePeriod
    <2>. QED
      BY <1>1, <2>1, FinishStep DEF rows
  <1>3. CASE UniquePeriod(dates.periodStart)
    <2>1. PICK sch \in Schedules : sch = req[q].schedule
      BY <1>1 DEF Inv, SlotOK, At
    <2>2. dates.periodStart = Start(sch) /\ Start(sch) \in Nat /\ dates.dueDate \in Nat
      BY <2>1, DatesTyped DEF Inv, TypeOK, Start
    <2>. DEFINE new == [start |-> Start(sch), due |-> dates.dueDate, status |-> "UPCOMING",
                        schedule |-> sch]
    <2>3. /\ periods' = Append(periods, new) /\ UNCHANGED <<ran, complete, joined>>
          /\ req' = [req EXCEPT ![q].pc = "shares", ![q].period = Len(periods) + 1]
      BY <1>3, <2>1, <2>2 DEF CreatePeriod, history
    <2>4. /\ new \in Period /\ new.start = Start(sch) /\ new.status = "UPCOMING"
          /\ new.schedule = sch /\ new.due = PeriodDates[sch][today].dueDate
          /\ periods \in Seq(Period) /\ Len(periods) \in Nat
      BY <2>1, <2>2, LenProperties DEF Inv, TypeOK, Period, PeriodStatus
    <2>. HIDE DEF new
    <2>5. /\ periods' \in Seq(Period) /\ Len(periods') = Len(periods) + 1
          /\ \A p \in Periods : periods'[p] = periods[p]
          /\ periods'[Len(periods) + 1] = new
      BY <2>3, <2>4, AppendProperties DEF Periods
    <2>6. /\ Periods' = Periods \cup {Len(periods) + 1} /\ Len(periods) + 1 \notin Periods
          /\ \A p \in Periods : p < Len(periods) + 1
      BY <2>4, <2>5 DEF Periods
    <2>7. OnlyNow(sch, "ACTIVE") /\ OnlyNow(sch, "UPCOMING") /\ req[q].op \in Generators
      BY <1>1, <2>1 DEF Inv, SlotOK, At
    <2>8. \A p \in Periods : periods[p].schedule = sch =>
             periods[p].start < Start(sch) /\ periods[p].status \notin Open
      <3>1. \A p \in Periods : periods[p].schedule = sch =>
               /\ periods[p].start <= Start(sch) /\ periods[p].start # Start(sch)
               /\ periods[p].start \in Nat
        BY <1>3, <2>2, Typed DEF Inv, Ordered, UniquePeriod, Period
      <3>2. \A p \in Periods : periods[p].schedule = sch => periods[p].status \notin Open
        BY <2>7, <3>1 DEF OnlyNow, Open
      <3>. QED
        BY <2>2, <3>1, <3>2
    <2>9. Start(sch)' = Start(sch) /\ today' = today
      BY <1>1 DEF Start
    <2>10. Grows
      BY <1>1, <2>4, <2>5, <2>6, <2>9 DEF Grows, Start, Joined
    <2>11. Ordered'
      <3>1. (\A p \in Periods : periods[p].start <= Start(periods[p].schedule))'
        BY <1>1, <2>2, <2>4, <2>5, <2>6 DEF Inv, Ordered, Start
      <3>2. (\A p \in Periods :
                today < periods[p].due =>
                    /\ periods[p].start = Start(periods[p].schedule)
                    /\ periods[p].due = PeriodDates[periods[p].schedule][today].dueDate)'
        BY <1>1, <2>4, <2>5, <2>6 DEF Inv, Ordered, Start
      <3>3. (\A p, o \in Periods :
                p < o /\ periods[p].schedule = periods[o].schedule =>
                    periods[p].start < periods[o].start)'
        <4>1. \A p \in Periods : ~(Len(periods) + 1 < p)
          BY <2>4 DEF Periods
        <4>2. ~(Len(periods) + 1 < Len(periods) + 1)
          BY <2>4
        <4>. QED
          BY <2>4, <2>5, <2>6, <2>8, <4>1, <4>2 DEF Inv, Ordered
      <3>. QED
        BY <3>1, <3>2, <3>3 DEF Ordered
    <2>12. OneOpenCycle'
      <3>1. \A p \in Periods : ~(Len(periods) + 1 < p)
        BY <2>4 DEF Periods
      <3>2. ~(Len(periods) + 1 < Len(periods) + 1)
        BY <2>4
      <3>. QED
        BY <2>4, <2>5, <2>6, <2>8, <3>1, <3>2 DEF Inv, OneOpenCycle
    <2>13. PICK s \in Slot : /\ s.pc = "shares" /\ s.op \in Generators
                              /\ s.period = Len(periods) + 1 /\ req' = [req EXCEPT ![q] = s]
      <3>1. PICK n \in Nat : n = Len(periods) + 1
        BY <2>4
      <3>. DEFINE s == [req[q] EXCEPT !.pc = "shares", !.period = n]
      <3>2. s \in Slot
        BY <1>1 DEF Slot, PCs
      <3>3. s.pc = "shares" /\ s.op \in Generators /\ s.period = n
        BY <1>1, <2>7 DEF Slot
      <3>4. req' = [req EXCEPT ![q] = s]
        BY <1>1, <2>3, <3>1
      <3>. QED
        BY <3>1, <3>2, <3>3, <3>4
    <2>14. SlotOK(s)'
      BY <2>6, <2>13 DEF SlotOK
    <2>15. TypeOK'
      BY <1>1, <2>3, <2>5, <2>13 DEF Inv, TypeOK
    <2>16. \A t \in Slot : PairOK(s, t)' /\ PairOK(t, s)'
      BY <2>13 DEF PairOK
    <2>. QED
      BY <2>3, <2>10, <2>11, <2>12, <2>13, <2>14, <2>15, <2>16, SlotStep
  <1>. QED
    BY <1>2, <1>3

LEMMA CalculateSharesStep ==
    ASSUME Inv, NEW q \in Slots, CalculateShares(q)
    PROVE  Inv'
  <1>1. UNCHANGED <<rows, today, requests, failures>> /\ At(q, "shares")
    BY DEF CalculateShares
  <1>2. CASE ~SharesAddUp
    BY <1>1, <1>2, FinishStep DEF CalculateShares
  <1>3. CASE SharesAddUp
    <2>. DEFINE s == [req[q] EXCEPT !.pc = "records", !.todo = members]
    <2>1. /\ req' = [req EXCEPT ![q].pc = "records", ![q].todo = members]
          /\ UNCHANGED <<ran, complete, joined>>
      BY <1>3 DEF CalculateShares, history
    <2>2. /\ req[q] \in Slot /\ req \in [Slots -> Slot] /\ members \in Seq(Members)
          /\ req[q].op \in Generators /\ req[q].period \in Periods
      BY <1>1, Typed DEF Inv, TypeOK, SlotOK, At
    <2>3. /\ s \in Slot /\ s.pc = "records" /\ s.op \in Generators /\ s.period \in Periods
          /\ s.todo = members
      BY <2>2 DEF Slot, PCs
    <2>4. req' = [req EXCEPT ![q] = s]
      BY <2>1, <2>2
    <2>. HIDE DEF s
    <2>5. Waiting(s) = Joined
      BY <2>3 DEF Waiting, Joined
    <2>6. SlotOK(s)
      BY <2>3, <2>5 DEF Inv, Seen, SlotOK
    <2>7. \A o \in Slots, t \in Slot : o # q /\ t = req[o] => PairOK(s, t) /\ PairOK(t, s)
      BY <2>3, <2>5 DEF Inv, PairOK, SlotOK
    <2>8. requests' \in 0..MaxRequests /\ failures' \in 0..MaxFailures /\ ran' \in BOOLEAN
      BY <1>1, <2>1 DEF Inv, TypeOK
    <2>. QED
      BY <1>1, <2>1, <2>3, <2>4, <2>6, <2>7, <2>8, QuietStep
  <1>. QED
    BY <1>2, <1>3

LEMMA WaitingShrinks ==
    ASSUME NEW s \in Slot, NEW t \in Slot, s.todo # <<>>, t.todo = Tail(s.todo)
    PROVE  Waiting(s) = {Head(s.todo)} \cup Waiting(t) /\ Head(s.todo) \in Members
  <1>1. s.todo \in Seq(Members)
    BY DEF Slot
  <1>2. /\ Len(s.todo) \in Nat /\ Len(s.todo) >= 1 /\ Len(t.todo) = Len(s.todo) - 1
        /\ \A i \in 1..Len(t.todo) : t.todo[i] = s.todo[i + 1]
        /\ Head(s.todo) = s.todo[1] /\ Head(s.todo) \in Members
    BY <1>1, HeadTailProperties, LenProperties, EmptySeq
  <1>3. \A i \in 1..Len(s.todo) : i = 1 \/ (i - 1 \in 1..Len(t.todo) /\ s.todo[i] = t.todo[i - 1])
    BY <1>2
  <1>4. \A i \in 1..Len(t.todo) : i + 1 \in 1..Len(s.todo) /\ 1 \in 1..Len(s.todo)
    BY <1>2
  <1>5. 1 \in 1..Len(s.todo)
    BY <1>2
  <1>6. ASSUME NEW i \in 1..Len(s.todo) PROVE s.todo[i] \in {Head(s.todo)} \cup Waiting(t)
    <2>1. CASE i = 1
      BY <1>2, <2>1
    <2>2. CASE i # 1
      BY <1>3, <2>2 DEF Waiting
    <2>. QED
      BY <2>1, <2>2
  <1>7. Head(s.todo) \in Waiting(s)
    BY <1>2, <1>5 DEF Waiting
  <1>8. ASSUME NEW i \in 1..Len(t.todo) PROVE t.todo[i] \in Waiting(s)
    BY <1>2, <1>4 DEF Waiting
  <1>9. Waiting(s) \subseteq {Head(s.todo)} \cup Waiting(t)
    BY <1>6 DEF Waiting
  <1>10. {Head(s.todo)} \cup Waiting(t) \subseteq Waiting(s)
    BY <1>7, <1>8 DEF Waiting
  <1>. QED
    BY <1>2, <1>9, <1>10

\* A record is inserted by a handler that goes on as s.
LEMMA RecordStep ==
    ASSUME Inv, NEW q \in Slots, NEW s \in Slot, req' = [req EXCEPT ![q] = s],
           NEW rec \in Nat \X Members, records' = records \cup {rec}, SlotOK(s)',
           UNCHANGED <<group, schedule, deleted, members, shares, periods, paid, today, requests,
                       failures, complete, joined>>, ran' \in BOOLEAN,
           \A o \in Slots, t \in Slot :
              o # q /\ t = req[o] => PairOK(s, t)' /\ PairOK(t, s)'
    PROVE  Inv'
  <1>1. TypeOK'
    BY DEF Inv, TypeOK
  <1>2. Grows
    BY DEF Grows, Periods, Joined
  <1>3. Ordered' /\ OneOpenCycle'
    BY DEF Inv, Ordered, Start, OneOpenCycle, Periods
  <1>. QED
    BY <1>1, <1>2, <1>3, SlotStep

LEMMA CreateRecordStep ==
    ASSUME Inv, NEW q \in Slots, CreateRecord(q)
    PROVE  Inv'
  <1>. DEFINE rec == <<req[q].period, Head(req[q].todo)>>
  <1>1. /\ At(q, "records") /\ req[q].todo # <<>>
        /\ UNCHANGED <<group, schedule, deleted, members, shares, periods, paid, today, requests,
                       failures>>
    BY DEF CreateRecord
  <1>2. CASE rec \in records
    <2>1. Finish(q) /\ records' = records
      BY <1>2 DEF CreateRecord
    <2>. QED
      BY <1>1, <2>1, FinishStep DEF rows
  <1>3. CASE rec \notin records
    <2>1. /\ req' = [req EXCEPT ![q].todo = Tail(@)] /\ UNCHANGED <<ran, complete, joined>>
          /\ records' = records \cup {rec}
      BY <1>3 DEF CreateRecord, history
    <2>2. req[q] \in Slot /\ req \in [Slots -> Slot] /\ ran \in BOOLEAN /\ SlotOK(req[q])
      BY Typed DEF Inv, TypeOK
    <2>3. PICK s \in Slot : /\ req' = [req EXCEPT ![q] = s] /\ s.pc = "records"
                            /\ s.op = req[q].op /\ s.period = req[q].period
                            /\ s.todo = Tail(req[q].todo)
      <3>1. PICK rest \in Seq(Members) : rest = Tail(req[q].todo)
        BY <1>1, <2>2, HeadTailProperties DEF Slot
      <3>. DEFINE s == [req[q] EXCEPT !.todo = rest]
      <3>2. /\ s \in Slot /\ s.pc = req[q].pc /\ s.op = req[q].op /\ s.period = req[q].period
            /\ s.todo = rest
        BY <2>2 DEF Slot
      <3>3. req' = [req EXCEPT ![q] = s]
        BY <2>1, <2>2, <3>1
      <3>. QED
        BY <1>1, <3>1, <3>2, <3>3 DEF At
    <2>4. Waiting(req[q]) = {Head(req[q].todo)} \cup Waiting(s) /\ Head(req[q].todo) \in Members
      BY <1>1, <2>2, <2>3, WaitingShrinks
    <2>5. rec \in Nat \X Members
      BY <2>2, <2>4 DEF Slot
    <2>6. \A m : Unbilled(s.period, m)' =>
                    Unbilled(s.period, m) /\ m # Head(req[q].todo)
      BY <1>1, <2>1, <2>3 DEF Unbilled, Periods
    <2>7. SlotOK(s)'
      <3>1. s.op \in Generators /\ s.period \in Periods'
        BY <1>1, <2>2, <2>3 DEF SlotOK, At, Periods
      <3>2. \A m \in joined : Unbilled(s.period, m) => m \in Waiting(req[q])
        BY <1>1, <2>2, <2>3 DEF SlotOK, At
      <3>3. (\A m \in joined : Unbilled(s.period, m) => m \in Waiting(s))'
        BY <2>1, <2>4, <2>6, <3>2 DEF Waiting
      <3>. QED
        BY <2>3, <3>1, <3>3 DEF SlotOK
    <2>8. \A o \in Slots, t \in Slot : o # q /\ t = req[o] => PairOK(s, t)' /\ PairOK(t, s)'
      <3>1. \A t \in Slot : PairOK(s, t)'
        BY <2>3 DEF PairOK
      <3>2. \A t \in Slot : PairOK(t, req[q]) => PairOK(t, s)'
        BY <1>1, <2>3, <2>4, <2>6 DEF PairOK, At, Covers, Waiting
      <3>. QED
        BY <3>1, <3>2 DEF Inv
    <2>. HIDE DEF rec
    <2>. QED
      BY <1>1, <2>1, <2>2, <2>3, <2>5, <2>7, <2>8, RecordStep
  <1>. QED
    BY <1>2, <1>3

LEMMA GeneratedStep ==
    ASSUME Inv, NEW q \in Slots, Generated(q)
    PROVE  Inv'
  <1>1. /\ At(q, "records") /\ req[q].todo = <<>> /\ req' = [req EXCEPT ![q] = Idle]
        /\ complete' = complete \cup {req[q].period} /\ ran' \in BOOLEAN
        /\ UNCHANGED <<rows, today, requests, failures, joined>>
    BY DEF Generated, Reply, Inv, TypeOK
  <1>2. req[q] \in Slot /\ req \in [Slots -> Slot] /\ SlotOK(req[q])
    BY Typed DEF Inv, TypeOK
  <1>3. /\ \A x \in Slots : req'[x] = IF x = q THEN Idle ELSE req[x]
        /\ \A x \in Slots : req[x] \in Slot
    BY <1>1, <1>2
  <1>4. req[q].period \in Periods /\ Waiting(req[q]) = {}
    BY <1>1, <1>2, EmptySeq DEF SlotOK, At, Waiting
  <1>5. TypeOK'
    BY <1>1, <1>2, IdleOK DEF Inv, TypeOK, rows, Slot
  <1>6. Ordered' /\ OneOpenCycle' /\ Seen'
    BY <1>1, <1>4 DEF Inv, Ordered, Start, OneOpenCycle, Seen, Periods, Joined, rows
  <1>7. NewcomersAreBilled'
    <2>1. \A m \in joined : ~Unbilled(req[q].period, m)
      BY <1>1, <1>2, <1>4 DEF SlotOK, At
    <2>. QED
      BY <1>1, <1>4, <2>1 DEF Inv, NewcomersAreBilled, Unbilled, rows
  <1>8. ASSUME NEW x \in Slots PROVE SlotOK(req[x])'
    <2>1. CASE x = q
      BY <1>3, <2>1, IdleOK DEF SlotOK
    <2>2. CASE x # q
      <3>1. PICK t \in Slot : t = req[x] /\ t = req'[x] /\ SlotOK(t) /\ PairOK(t, req[q])
        BY <1>3, <2>2 DEF Inv
      <3>2. t.pc \in {"bill", "record"} =>
                \A p \in complete' : Unbilled(p, t.member) => Covers(t, p)
        BY <1>1, <1>4, <3>1 DEF SlotOK, PairOK, At
      <3>3. SlotOK(t)'
        BY <1>1, <3>1, <3>2 DEF SlotOK, OnlyNow, Start, Unbilled, Waiting, Covers, Periods,
             Joined, rows
      <3>. QED
        BY <3>1, <3>3
    <2>. QED
      BY <2>1, <2>2
  <1>9. ASSUME NEW x \in Slots, NEW y \in Slots PROVE PairOK(req[x], req[y])'
    <2>1. CASE x = q \/ y = q
      BY <1>3, <2>1, IdleOK DEF PairOK
    <2>2. CASE x # q /\ y # q
      <3>1. \A a, g \in Slot : PairOK(a, g) => PairOK(a, g)'
        BY <1>1 DEF PairOK, Unbilled, Covers, Waiting, Periods, rows
      <3>2. PairOK(req[x], req[y])
        BY DEF Inv
      <3>. QED
        BY <1>3, <2>2, <3>1, <3>2
    <2>. QED
      BY <2>1, <2>2
  <1>. QED
    BY <1>5, <1>6, <1>7, <1>8, <1>9 DEF Inv

LEMMA MemberAddedStep ==
    ASSUME Inv, NEW q \in Slots, MemberAdded(q)
    PROVE  Inv'
  <1>1. /\ At(q, "bill") /\ req[q].bills = {} /\ req' = [req EXCEPT ![q] = Idle]
        /\ joined' = joined \cup {req[q].member}
        /\ UNCHANGED <<rows, today, requests, failures, ran, complete>>
    BY DEF MemberAdded, Reply
  <1>2. req[q] \in Slot /\ req \in [Slots -> Slot] /\ SlotOK(req[q])
    BY Typed DEF Inv, TypeOK
  <1>3. /\ \A x \in Slots : req'[x] = IF x = q THEN Idle ELSE req[x]
        /\ \A x \in Slots : req[x] \in Slot
    BY <1>1, <1>2
  <1>4. req[q].member \in Members /\ req[q].member \in Joined
    BY <1>1, <1>2 DEF SlotOK, At
  <1>5. TypeOK'
    BY <1>1, <1>2, <1>4, IdleOK DEF Inv, TypeOK, rows
  <1>6. Ordered' /\ OneOpenCycle' /\ Seen'
    BY <1>1, <1>4 DEF Inv, Ordered, Start, OneOpenCycle, Seen, Periods, Joined, rows
  <1>7. \A p : ~Covers(req[q], p)
    BY <1>1 DEF Covers, At
  <1>8. NewcomersAreBilled'
    <2>1. \A p \in complete : ~Unbilled(p, req[q].member)
      BY <1>1, <1>2, <1>7 DEF SlotOK, At
    <2>. QED
      BY <1>1, <2>1 DEF Inv, Seen, NewcomersAreBilled, Unbilled, rows
  <1>9. ASSUME NEW x \in Slots PROVE SlotOK(req[x])'
    <2>1. CASE x = q
      BY <1>3, <2>1, IdleOK DEF SlotOK
    <2>2. CASE x # q
      <3>1. PICK t \in Slot : t = req[x] /\ t = req'[x] /\ SlotOK(t) /\ PairOK(req[q], t)
        BY <1>3, <2>2 DEF Inv
      <3>2. t.pc = "records" =>
                \A m \in joined' : Unbilled(t.period, m) => m \in Waiting(t)
        <4>1. t.pc = "records" => \A m \in joined : Unbilled(t.period, m) => m \in Waiting(t)
          BY <3>1 DEF SlotOK
        <4>2. t.pc = "records" /\ Unbilled(t.period, req[q].member) => req[q].member \in Waiting(t)
          BY <1>1, <1>7, <3>1 DEF PairOK, At
        <4>. QED
          BY <1>1, <4>1, <4>2
      <3>3. SlotOK(t)'
        BY <1>1, <3>1, <3>2 DEF SlotOK, OnlyNow, Start, Unbilled, Waiting, Covers, Periods,
             Joined, rows
      <3>. QED
        BY <3>1, <3>3
    <2>. QED
      BY <2>1, <2>2
  <1>10. ASSUME NEW x \in Slots, NEW y \in Slots PROVE PairOK(req[x], req[y])'
    <2>1. CASE x = q \/ y = q
      BY <1>3, <2>1, IdleOK DEF PairOK
    <2>2. CASE x # q /\ y # q
      <3>1. \A a, g \in Slot : PairOK(a, g) => PairOK(a, g)'
        BY <1>1 DEF PairOK, Unbilled, Covers, Waiting, Periods, rows
      <3>2. PairOK(req[x], req[y])
        BY DEF Inv
      <3>. QED
        BY <1>3, <2>2, <3>1, <3>2
    <2>. QED
      BY <2>1, <2>2
  <1>. QED
    BY <1>5, <1>6, <1>8, <1>9, <1>10 DEF Inv

LEMMA InsertMemberStep ==
    ASSUME Inv, NEW q \in Slots, InsertMember(q)
    PROVE  Inv'
  <1>1. /\ At(q, "member") /\ SlotOK(req[q]) /\ req[q].member \in Members
        /\ UNCHANGED <<group, schedule, deleted, periods, records, paid, today, requests, failures,
                       ran, complete, joined>>
    BY DEF InsertMember, history, Inv, SlotOK, At
  <1>2. CASE req[q].member \in Joined
    <2>1. Reply(q) /\ UNCHANGED <<members, shares>>
      BY <1>2 DEF InsertMember
    <2>2. requests' \in 0..MaxRequests /\ failures' \in 0..MaxFailures /\ ran' \in BOOLEAN
      BY <1>1 DEF Inv, TypeOK
    <2>. QED
      BY <1>1, <2>1, <2>2, ReplyStep DEF rows
  <1>3. CASE req[q].member \notin Joined
    <2>1. /\ members' = Append(members, req[q].member) /\ Goto(q, "periods")
          /\ shares' \in Shares
      BY <1>3 DEF InsertMember, Shares, Entered
    <2>2. PICK s \in Slot : /\ req' = [req EXCEPT ![q] = s] /\ s.pc = "periods"
                            /\ s.member = req[q].member
      BY <2>1, GotoTyped DEF PCs
    <2>3. members' \in Seq(Members) /\ Grows /\ s.member \in Joined'
      BY <1>1, <2>1, <2>2, AppendMember
    <2>4. SlotOK(s)'
      BY <1>1, <2>2, <2>3 DEF SlotOK
    <2>5. TypeOK'
      BY <1>1, <2>1, <2>2, <2>3 DEF Inv, TypeOK
    <2>6. Ordered' /\ OneOpenCycle'
      BY <1>1 DEF Inv, Ordered, Start, OneOpenCycle, Periods
    <2>7. \A t \in Slot : PairOK(s, t)' /\ PairOK(t, s)'
      BY <2>2 DEF PairOK
    <2>. QED
      BY <1>1, <2>2, <2>3, <2>4, <2>5, <2>6, <2>7, SlotStep
  <1>. QED
    BY <1>2, <1>3

\* addMember goes on as s, which covers the periods its member is not billed in.
LEMMA CoverStep ==
    ASSUME Inv, UNCHANGED <<rows, today, requests, failures, history>>, NEW q \in Slots,
           NEW s \in Slot, req' = [req EXCEPT ![q] = s], s.pc \in {"bill", "record"},
           s.member \in Members, s.member \in Joined,
           \A p \in complete : Unbilled(p, s.member) => Covers(s, p),
           \A t \in Slot :
              (\E o \in Slots : o # q /\ t = req[o]) /\ t.pc = "records" =>
                 (Unbilled(t.period, s.member) => Covers(s, t.period) \/ s.member \in Waiting(t))
    PROVE  Inv'
  <1>1. SlotOK(s)
    BY DEF SlotOK
  <1>2. \A o \in Slots, t \in Slot : o # q /\ t = req[o] => PairOK(s, t) /\ PairOK(t, s)
    BY DEF PairOK
  <1>3. requests' \in 0..MaxRequests /\ failures' \in 0..MaxFailures /\ ran' \in BOOLEAN
    BY DEF Inv, TypeOK, history
  <1>. QED
    BY <1>1, <1>2, <1>3, QuietStep DEF history

LEMMA FindPeriodsStep ==
    ASSUME Inv, NEW q \in Slots, FindPeriods(q)
    PROVE  Inv'
  <1>1. req[q] \in Slot /\ req \in [Slots -> Slot] /\ SlotOK(req[q]) /\ At(q, "periods")
    BY Typed DEF Inv, TypeOK, FindPeriods
  <1>2. PICK s \in Slot : /\ req' = [req EXCEPT ![q] = s] /\ s.pc = "bill"
                          /\ s.member = req[q].member /\ s.bills = findAllUpcomingByGroup
    <2>1. PICK b \in SUBSET Nat : b = findAllUpcomingByGroup
      <3>1. findAllUpcomingByGroup \subseteq Nat
        BY DEF findAllUpcomingByGroup, Periods
      <3>. QED
        BY <3>1
    <2>. DEFINE s == [req[q] EXCEPT !.pc = "bill", !.bills = b]
    <2>2. s \in Slot /\ s.pc = "bill" /\ s.member = req[q].member /\ s.bills = b
      BY <1>1 DEF Slot, PCs
    <2>3. req' = [req EXCEPT ![q] = s]
      BY <1>1, <2>1 DEF FindPeriods
    <2>. QED
      BY <2>1, <2>2, <2>3
  <1>3. s.member \in Members /\ s.member \in Joined
    BY <1>1, <1>2 DEF SlotOK, At
  <1>4. \A p, m : Unbilled(p, m) => Covers(s, p)
    BY <1>2 DEF Unbilled, Covers, findAllUpcomingByGroup
  <1>5. UNCHANGED <<rows, today, requests, failures, history>>
    BY DEF FindPeriods
  <1>. QED
    BY <1>2, <1>3, <1>4, <1>5, CoverStep

LEMMA FindRecordStep ==
    ASSUME Inv, NEW q \in Slots, NEW p \in Periods, FindRecord(q, p)
    PROVE  Inv'
  <1>1. req[q] \in Slot /\ req \in [Slots -> Slot] /\ SlotOK(req[q]) /\ At(q, "bill")
    BY Typed DEF Inv, TypeOK, FindRecord
  <1>2. PICK s \in Slot : /\ req' = [req EXCEPT ![q] = s] /\ s.pc \in {"bill", "record"}
                          /\ s.member = req[q].member /\ s.bills = req[q].bills \ {p}
                          /\ \/ <<p, req[q].member>> \in records
                             \/ s.pc = "record" /\ s.period = p
    <2>. DEFINE m == req[q].member
    <2>1. CASE <<p, m>> \in records
      <3>. DEFINE s == [req[q] EXCEPT !.bills = req[q].bills \ {p}]
      <3>1. s \in Slot /\ s.pc = "bill" /\ s.member = m /\ s.bills = req[q].bills \ {p}
        BY <1>1 DEF Slot, At
      <3>2. req' = [req EXCEPT ![q] = s]
        BY <1>1, <2>1 DEF FindRecord
      <3>. QED
        BY <2>1, <3>1, <3>2
    <2>2. CASE <<p, m>> \notin records
      <3>. DEFINE s == [req[q] EXCEPT !.bills = req[q].bills \ {p}, !.period = p, !.pc = "record"]
      <3>1. p \in Nat
        BY DEF Periods
      <3>2. /\ s \in Slot /\ s.pc = "record" /\ s.member = m /\ s.bills = req[q].bills \ {p}
            /\ s.period = p
        BY <1>1, <3>1 DEF Slot, PCs
      <3>3. req' = [req EXCEPT ![q] = s]
        BY <1>1, <2>2 DEF FindRecord
      <3>. QED
        BY <3>2, <3>3
    <2>. QED
      BY <2>1, <2>2
  <1>3. s.member \in Members /\ s.member \in Joined
    BY <1>1, <1>2 DEF SlotOK, At
  <1>4. \A x : Unbilled(x, s.member) /\ Covers(req[q], x) => Covers(s, x)
    BY <1>1, <1>2 DEF Unbilled, Covers, At
  <1>5. \A x \in complete : Unbilled(x, s.member) => Covers(s, x)
    BY <1>1, <1>2, <1>4 DEF SlotOK, At
  <1>6. ASSUME NEW t \in Slot, \E o \in Slots : o # q /\ t = req[o], t.pc = "records",
               Unbilled(t.period, s.member)
        PROVE  Covers(s, t.period) \/ s.member \in Waiting(t)
    <2>1. PairOK(req[q], t)
      BY <1>6 DEF Inv
    <2>2. Covers(req[q], t.period) \/ s.member \in Waiting(t)
      BY <1>1, <1>2, <1>6, <2>1 DEF PairOK, At
    <2>. QED
      BY <1>4, <1>6, <2>2
  <1>7. UNCHANGED <<rows, today, requests, failures, history>>
    BY DEF FindRecord
  <1>. QED
    BY <1>2, <1>3, <1>5, <1>6, <1>7, CoverStep

LEMMA BillMemberStep ==
    ASSUME Inv, NEW q \in Slots, BillMember(q)
    PROVE  Inv'
  <1>. DEFINE rec == <<req[q].period, req[q].member>>
  <1>1. /\ At(q, "record") /\ SlotOK(req[q]) /\ req[q] \in Slot
        /\ records' = records \cup {rec} /\ (IF rec \in records THEN Reply(q) ELSE Goto(q, "bill"))
        /\ UNCHANGED <<group, schedule, deleted, members, shares, periods, paid, today, requests,
                       failures, ran, complete, joined>>
    BY Typed DEF BillMember, Inv, history
  <1>2. CASE rec \in records
    <2>1. requests' \in 0..MaxRequests /\ failures' \in 0..MaxFailures /\ ran' \in BOOLEAN
      BY <1>1 DEF Inv, TypeOK
    <2>2. records' = records /\ Reply(q)
      BY <1>1, <1>2
    <2>. QED
      BY <1>1, <2>1, <2>2, ReplyStep DEF rows
  <1>3. CASE rec \notin records
    <2>1. PICK s \in Slot : /\ req' = [req EXCEPT ![q] = s] /\ s.pc = "bill"
                            /\ s.member = req[q].member /\ s.bills = req[q].bills
      BY <1>1, <1>3, GotoTyped DEF PCs
    <2>2. s.member \in Members /\ s.member \in Joined /\ rec \in Nat \X Members
      BY <1>1, <2>1 DEF SlotOK, At, Slot
    <2>3. \A p : Unbilled(p, s.member)' => Unbilled(p, s.member) /\ p # req[q].period
      BY <1>1, <2>1 DEF Unbilled, Periods
    <2>4. \A p : Covers(req[q], p) /\ p # req[q].period => Covers(s, p)
      BY <1>1, <2>1 DEF Covers, At
    <2>5. SlotOK(s)'
      <3>1. \A p \in complete : Unbilled(p, s.member) => Covers(req[q], p)
        BY <1>1, <2>1 DEF SlotOK, At
      <3>2. (\A p \in complete : Unbilled(p, s.member) => Covers(s, p))'
        BY <1>1, <2>3, <2>4, <3>1 DEF Covers
      <3>3. s.member \in Joined'
        BY <1>1, <2>2 DEF Joined
      <3>. QED
        BY <2>1, <2>2, <3>2, <3>3 DEF SlotOK
    <2>6. ASSUME NEW o \in Slots, NEW t \in Slot, o # q, t = req[o]
          PROVE  PairOK(s, t)' /\ PairOK(t, s)'
      <3>1. PairOK(req[q], t)
        BY <2>6 DEF Inv
      <3>2. t.pc = "records" /\ Unbilled(t.period, s.member)' =>
                Covers(s, t.period) \/ s.member \in Waiting(t)
        BY <1>1, <2>1, <2>3, <2>4, <3>1 DEF PairOK, At
      <3>3. PairOK(s, t)'
        BY <3>2 DEF PairOK, Covers, Waiting
      <3>. QED
        BY <2>1, <3>3 DEF PairOK
    <2>7. ran' \in BOOLEAN
      BY <1>1 DEF Inv, TypeOK
    <2>. HIDE DEF rec
    <2>. QED
      BY <1>1, <2>1, <2>2, <2>5, <2>6, <2>7, RecordStep
  <1>. QED
    BY <1>2, <1>3

LEMMA FailStep ==
    ASSUME Inv, NEW q \in Slots, Fail(q)
    PROVE  Inv'
  <1>1. failures' \in 0..MaxFailures
    BY BoundsAssumption DEF Fail, Inv, TypeOK
  <1>2. requests' \in 0..MaxRequests /\ ran' \in BOOLEAN
    BY DEF Fail, Inv, TypeOK
  <1>. QED
    BY <1>1, <1>2, ReplyStep DEF Fail

------------------------------------------------------------------------------
(* The other steps. *)

\* A payment makes ACTIVE only a period whose due date is still to come.
LEMMA PayStep ==
    ASSUME Inv, NEW p \in Periods, NEW m \in Members, Pay(p, m)
    PROVE  Inv'
  <1>1. /\ paid' = paid \cup {<<p, m>>} /\ <<p, m>> \in records
        /\ periods' = [periods EXCEPT ![p].status = updateCycleStatus(p, paid')]
        /\ UNCHANGED <<group, schedule, deleted, members, shares, records, today, req, requests,
                       failures, ran, complete, joined>>
    BY DEF Pay, history
  <1>2. /\ periods \in Seq(Period) /\ periods[p] \in Period /\ DOMAIN periods = Periods
        /\ Len(periods) \in Nat /\ today \in Nat
    BY Typed, CalendarAssumption DEF Inv, TypeOK
  <1>3. PICK st \in {"COMPLETED", "OVERDUE", "ACTIVE"} :
           /\ st = updateCycleStatus(p, paid')
           /\ st = "ACTIVE" => ~(today >= periods[p].due)
    BY DEF updateCycleStatus
  <1>. DEFINE new == [periods[p] EXCEPT !.status = st]
  <1>4. /\ new \in Period /\ new.start = periods[p].start /\ new.status = st
        /\ new.schedule = periods[p].schedule /\ new.due = periods[p].due
    BY <1>2 DEF Period, PeriodStatus
  <1>5. periods' = [periods EXCEPT ![p] = new]
    BY <1>1, <1>2, <1>3
  <1>. HIDE DEF new
  <1>6. /\ periods' \in Seq(Period) /\ Len(periods') = Len(periods)
        /\ \A x \in Periods : periods'[x] = IF x = p THEN new ELSE periods[x]
    BY <1>2, <1>4, <1>5, ExceptSeq DEF Periods
  <1>7. Periods' = Periods
    BY <1>6 DEF Periods
  <1>8. st = "ACTIVE" => periods[p].start = Start(periods[p].schedule)
    <2>1. periods[p].due \in Nat
      BY <1>2 DEF Period
    <2>2. st = "ACTIVE" => today < periods[p].due
      BY <1>2, <1>3, <2>1
    <2>. QED
      BY <2>2 DEF Inv, Ordered
  <1>9. Grows
    BY <1>1, <1>3, <1>4, <1>6, <1>7, <1>8 DEF Grows, Start, Joined
  <1>10. TypeOK'
    BY <1>1, <1>6 DEF Inv, TypeOK
  <1>11. Ordered'
    BY <1>1, <1>4, <1>6, <1>7 DEF Inv, Ordered, Start
  <1>12. OneOpenCycle'
    <2>1. CASE st = "ACTIVE"
      <3>1. \A o \in Periods : periods[o].start \in Nat
        BY Typed DEF Inv, Period
      <3>2. ASSUME NEW o \in Periods, p < o, periods[p].schedule = periods[o].schedule
            PROVE  FALSE
        <4>1. /\ periods[o].start <= Start(periods[p].schedule)
              /\ periods[p].start < periods[o].start
          BY <3>2 DEF Inv, Ordered
        <4>. QED
          BY <1>8, <2>1, <3>1, <4>1
      <3>. QED
        BY <1>4, <1>6, <1>7, <3>2 DEF Inv, OneOpenCycle
    <2>2. CASE st # "ACTIVE"
      BY <1>3, <1>4, <1>6, <1>7, <2>2 DEF Inv, OneOpenCycle, Open
    <2>. QED
      BY <2>1, <2>2
  <1>13. Seen' /\ NewcomersAreBilled'
    BY <1>1, <1>9, HistoryStays
  <1>14. \A x \in Slots : SlotOK(req[x])'
    <2>1. \A t \in Slot : SlotOK(t) => SlotOK(t)'
      BY <1>1, <1>9, Stays
    <2>. QED
      BY <1>1, <2>1, Typed DEF Inv
  <1>15. \A x, y \in Slots : PairOK(req[x], req[y])'
    <2>1. \A a, g \in Slot : SlotOK(g) /\ PairOK(a, g) => PairOK(a, g)'
      BY <1>9, PairStays
    <2>. QED
      BY <1>1, <2>1, Typed DEF Inv
  <1>. QED
    BY <1>10, <1>11, <1>12, <1>13, <1>14, <1>15 DEF Inv

LEMMA UpdateSharesStep ==
    ASSUME Inv, UpdateShares
    PROVE  Inv'
  <1>1. /\ requests' = requests + 1 /\ requests < MaxRequests /\ shares' \in Entered
        /\ UNCHANGED <<group, schedule, deleted, members, periods, records, paid, today, req,
                       failures, ran, complete, joined>>
    BY DEF UpdateShares, history
  <1>2. TypeOK'
    BY <1>1, BoundsAssumption DEF Inv, TypeOK, Shares
  <1>3. Grows
    BY <1>1, SameRows DEF Inv
  <1>4. Ordered' /\ OneOpenCycle'
    BY <1>1 DEF Inv, Ordered, Start, OneOpenCycle, Periods
  <1>5. Seen' /\ NewcomersAreBilled'
    BY <1>1, <1>3, HistoryStays
  <1>6. \A x \in Slots : SlotOK(req[x])'
    <2>1. \A t \in Slot : SlotOK(t) => SlotOK(t)'
      BY <1>1, <1>3, Stays
    <2>. QED
      BY <1>1, <2>1, Typed DEF Inv
  <1>7. \A x, y \in Slots : PairOK(req[x], req[y])'
    <2>1. \A a, g \in Slot : SlotOK(g) /\ PairOK(a, g) => PairOK(a, g)'
      BY <1>3, PairStays
    <2>. QED
      BY <1>1, <2>1, Typed DEF Inv
  <1>. QED
    BY <1>2, <1>4, <1>5, <1>6, <1>7 DEF Inv

\* The day changes only while no generation relies on it.
LEMMA TimePassesStep ==
    ASSUME Inv, TimePasses
    PROVE  Inv'
  <1>1. /\ \A q \in Slots : req[q].op \notin Generators
        /\ today' \in Days /\ today' > today /\ ran' = FALSE
        /\ UNCHANGED <<group, schedule, deleted, members, shares, periods, records, paid, req,
                       requests, failures, complete, joined>>
    BY DEF TimePasses, rows
  <1>2. TypeOK'
    BY <1>1 DEF Inv, TypeOK
  <1>3. Ordered'
    <2>1. /\ today \in Days /\ today \in Nat /\ today' \in Nat /\ today <= today'
          /\ Periods' = Periods
      BY <1>1, CalendarAssumption DEF Inv, TypeOK, Periods
    <2>2. ASSUME NEW p \in Periods
          PROVE  /\ periods[p].start <= Start(periods[p].schedule)'
                 /\ today' < periods[p].due =>
                      /\ periods[p].start = Start(periods[p].schedule)'
                      /\ periods[p].due = PeriodDates[periods[p].schedule][today'].dueDate
      <3>1. PICK s \in Schedules : s = periods[p].schedule
        BY Typed DEF Inv, Period
      <3>2. periods[p].start \in Nat /\ periods[p].due \in Nat
        BY Typed DEF Inv, Period
      <3>. DEFINE now == PeriodDates[s][today]
                  later == PeriodDates[s][today']
      <3>3. /\ now.periodStart \in Nat /\ now.dueDate \in Nat
            /\ later.periodStart \in Nat /\ later.dueDate \in Nat
        BY <1>1, <2>1, DatesTyped
      <3>4. now.periodStart <= later.periodStart /\ (today' < now.dueDate => later = now)
        BY <1>1, <2>1, CalendarAssumption
      <3>5. /\ periods[p].start <= now.periodStart
            /\ today < periods[p].due =>
                  periods[p].start = now.periodStart /\ periods[p].due = now.dueDate
        BY <3>1 DEF Inv, Ordered, Start
      <3>6. Start(periods[p].schedule)' = later.periodStart
        BY <1>1, <3>1 DEF Start
      <3>. HIDE DEF now, later
      <3>7. periods[p].start <= later.periodStart
        BY <3>2, <3>3, <3>4, <3>5
      <3>8. today' < periods[p].due => periods[p].due = now.dueDate /\ later = now
        BY <2>1, <3>2, <3>3, <3>4, <3>5
      <3>9. today' < periods[p].due =>
               periods[p].start = later.periodStart /\ periods[p].due = later.dueDate
        BY <2>1, <3>2, <3>5, <3>8
      <3>. QED
        BY <3>1, <3>6, <3>7, <3>9 DEF later
    <2>. QED
      BY <1>1, <2>1, <2>2 DEF Inv, Ordered
  <1>4. OneOpenCycle' /\ Seen' /\ NewcomersAreBilled'
    BY <1>1 DEF Inv, OneOpenCycle, Seen, NewcomersAreBilled, Periods, Joined
  <1>5. ASSUME NEW q \in Slots PROVE SlotOK(req[q])'
    <2>1. PICK s \in Slot : s = req[q] /\ s = req'[q] /\ SlotOK(s) /\ s.op \notin Generators
      BY <1>1, Typed DEF Inv
    <2>2. s.pc \notin {"upcoming", "create"} /\ ~(s.pc = "currentUpcoming" /\ s.stage = "generate")
      BY <2>1 DEF SlotOK
    <2>3. SlotOK(s)'
      BY <1>1, <2>1, <2>2 DEF SlotOK, Unbilled, Waiting, Covers, Periods, Joined
    <2>. QED
      BY <2>1, <2>3
  <1>6. \A x, y \in Slots : PairOK(req[x], req[y])'
    <2>1. \A a, g \in Slot : PairOK(a, g) => PairOK(a, g)'
      BY <1>1 DEF PairOK, Unbilled, Covers, Waiting, Periods
    <2>. QED
      BY <1>1, <2>1, Typed DEF Inv
  <1>. QED
    BY <1>2, <1>3, <1>4, <1>5, <1>6 DEF Inv

------------------------------------------------------------------------------
LEMMA InitInv == Init => Inv
  <1>. SUFFICES ASSUME Init PROVE Inv
    OBVIOUS
  <1>1. /\ <<>> \in Seq(Members) /\ <<>> \in Seq(Period) /\ Len(periods) = 0 /\ Periods = {}
        /\ \A q \in Slots : req[q] = Idle
    BY EmptySeq DEF Init, Periods
  <1>2. TypeOK
    <2>1. deleted \in BOOLEAN /\ schedule \in Schedules /\ today \in Days /\ ran \in BOOLEAN
      BY DEF Init
    <2>2. members \in Seq(Members) /\ periods \in Seq(Period) /\ req \in [Slots -> Slot]
      BY <1>1, IdleOK DEF Init
    <2>3. requests \in 0..MaxRequests /\ failures \in 0..MaxFailures
      BY BoundsAssumption DEF Init
    <2>. QED
      BY <2>1, <2>2, <2>3 DEF Init, TypeOK, Shares, Entered
  <1>3. Ordered /\ OneOpenCycle /\ Seen /\ NewcomersAreBilled
    BY <1>1 DEF Init, Ordered, OneOpenCycle, Seen, NewcomersAreBilled
  <1>4. \A q \in Slots : SlotOK(req[q])
    BY <1>1, IdleOK
  <1>5. \A q, o \in Slots : PairOK(req[q], req[o])
    BY <1>1, IdleOK DEF PairOK
  <1>. QED
    BY <1>2, <1>3, <1>4, <1>5 DEF Inv

LEMMA NextInv == Inv /\ [Next]_vars => Inv'
  <1>. SUFFICES ASSUME Inv, [Next]_vars PROVE Inv'
    OBVIOUS
  <1>1. ASSUME NEW q \in Slots, Call(q) PROVE Inv'
    BY <1>1, CallStep
  <1>2. ASSUME NEW q \in Slots, DailyCheck(q) PROVE Inv'
    BY <1>2, DailyCheckStep
  <1>3. ASSUME NEW q \in Slots, Step(q) PROVE Inv'
    <2>1. CASE InsertHost(q)
      BY <2>1, InsertHostStep
    <2>2. CASE WriteGroup(q) \/ SoftDelete(q)
      BY <2>2, GroupWriteStep
    <2>3. CASE FindActive(q) \/ FindUpcoming(q) \/ ReadGroup(q) \/ FindUpcomingAgain(q)
      BY <2>3, FindStep
    <2>4. CASE CreatePeriod(q)
      BY <2>4, CreatePeriodStep
    <2>5. CASE CalculateShares(q)
      BY <2>5, CalculateSharesStep
    <2>6. CASE CreateRecord(q)
      BY <2>6, CreateRecordStep
    <2>7. CASE Generated(q)
      BY <2>7, GeneratedStep
    <2>8. CASE InsertMember(q)
      BY <2>8, InsertMemberStep
    <2>9. CASE FindPeriods(q)
      BY <2>9, FindPeriodsStep
    <2>10. CASE BillMember(q)
      BY <2>10, BillMemberStep
    <2>11. CASE MemberAdded(q)
      BY <2>11, MemberAddedStep
    <2>12. CASE \E p \in Periods : FindRecord(q, p)
      BY <2>12, FindRecordStep
    <2>. QED
      BY <1>3, <2>1, <2>2, <2>3, <2>4, <2>5, <2>6, <2>7, <2>8, <2>9, <2>10, <2>11, <2>12
         DEF Step
  <1>4. ASSUME NEW q \in Slots, Fail(q) PROVE Inv'
    BY <1>4, FailStep
  <1>5. ASSUME NEW p \in Periods, NEW m \in Members, Pay(p, m) PROVE Inv'
    BY <1>5, PayStep
  <1>6. CASE UpdateShares
    BY <1>6, UpdateSharesStep
  <1>7. CASE TimePasses
    BY <1>7, TimePassesStep
  <1>8. CASE UNCHANGED vars
    <2>1. /\ UNCHANGED <<group, schedule, deleted, members, shares, periods, records, paid, today>>
          /\ UNCHANGED <<req, requests, failures, ran, complete, joined>>
      BY <1>8 DEF vars
    <2>2. TypeOK'
      BY <2>1 DEF Inv, TypeOK
    <2>3. Ordered' /\ OneOpenCycle' /\ Seen' /\ NewcomersAreBilled'
      BY <2>1 DEF Inv, Ordered, Start, OneOpenCycle, Seen, NewcomersAreBilled, Periods, Joined
    <2>4. \A q \in Slots : SlotOK(req[q])'
      BY <2>1 DEF Inv, SlotOK, Unbilled, OnlyNow, Start, Waiting, Covers, Periods, Joined
    <2>5. \A q, o \in Slots : PairOK(req[q], req[o])'
      BY <2>1 DEF Inv, PairOK, Unbilled, Waiting, Covers, Periods
    <2>. QED
      BY <2>2, <2>3, <2>4, <2>5 DEF Inv
  <1>. QED
    BY <1>1, <1>2, <1>3, <1>4, <1>5, <1>6, <1>7, <1>8 DEF Next

(***************************************************************************)
(* What handlers rely on between their awaits holds in every reachable     *)
(* state, however many of them overlap and wherever they fail.             *)
(***************************************************************************)
THEOREM Invariance == Spec => []Inv
  BY InitInv, NextInv, PTL DEF Spec

(***************************************************************************)
(* Every variable keeps its type.                                          *)
(***************************************************************************)
THEOREM TypeCorrect == Spec => []TypeOK
  <1>1. Inv => TypeOK
    BY DEF Inv
  <1>. QED
    BY <1>1, Invariance, PTL

(***************************************************************************)
(* Of the periods generated for one frequency and due day only the newest  *)
(* is open: the checks of generateNextCycle before its INSERT and the      *)
(* unique index are together enough, whichever processes run it at once,   *)
(* as long as the host does not move the due day between their readings.   *)
(***************************************************************************)
THEOREM CyclesDoNotOverlap == Spec => []OneOpenCycle
  <1>1. Inv => OneOpenCycle
    BY DEF Inv
  <1>. QED
    BY <1>1, Invariance, PTL

(***************************************************************************)
(* Of an addMember and a generation that overlap, one bills the newcomer   *)
(* (addMember, generateNextCycle).                                         *)
(***************************************************************************)
THEOREM NoNewcomerIsMissed == Spec => []NewcomersAreBilled
  <1>1. Inv => NewcomersAreBilled
    BY DEF Inv
  <1>. QED
    BY <1>1, Invariance, PTL
==============================================================================
