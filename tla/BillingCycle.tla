----------------------------- MODULE BillingCycle -----------------------------
(***************************************************************************)
(* How the billing periods of one group come to be: createGroup            *)
(* and the daily cron generate them, addMember bills a newcomer in them,   *)
(* updateGroup and deleteGroup are meant to stop them.                     *)
(*                                                                         *)
(* The two processes of entrypoint.sh both run the cron, and nothing is    *)
(* locked: a handler runs in a slot, one database call at a time.  Between *)
(* two generations stand only the unique indexes of the tables, on         *)
(* (group_id, period_start) and on (period_id, member_id).                 *)
(*                                                                         *)
(* What computePeriodDates answers is a constant here, for each schedule   *)
(* and day; BillingDates computes it.                                      *)
(***************************************************************************)
EXTENDS Naturals, FiniteSets, Sequences

CONSTANTS
    Members,        \* people who may belong to the group
    HostMember,
    Slots,          \* handlers that may be in flight at once
    Operations,     \* the entry points in use
    MaxMembers,     \* MAX_MEMBERS
    Schedules,      \* what frequency and due_day of the group may be
    Days,           \* bound: the days, by number, on which anything happens
    PeriodDates,    \* [Schedules -> [Days -> what computePeriodDates answers]]
    dueWithin7Days,         \* [Schedules -> [Days -> BOOLEAN]]
    Null,
    MaxRequests,    \* bound: requests accepted, besides the cron
    MaxFailures     \* bound: awaits that reject, or processes that die

Requests == {"createGroup", "addMember", "updateGroup", "deleteGroup"}
Generators == {"createGroup", "generateUpcomingCycles"}
GroupStatus == {"ACTIVE", "PAUSED", "CANCELLED"}
PeriodStatus == {"UPCOMING", "ACTIVE", "COMPLETED", "OVERDUE"}
Open == {"ACTIVE", "UPCOMING"}
Entered == {"balanced", "unbalanced"}
Shares == Entered \cup {"computed"}

ASSUME MembersAssumption == HostMember \in Members /\ Null \notin Members
ASSUME OperationsAssumption ==
    /\ Operations \subseteq Requests \cup {"generateUpcomingCycles"}
    /\ Null \notin Requests \cup Generators
ASSUME GroupAssumption ==
    /\ MaxMembers \in Nat \ {0}
    /\ Null \notin GroupStatus /\ Null \notin Schedules
ASSUME BoundsAssumption == MaxRequests \in Nat /\ MaxFailures \in Nat

Dates == [periodStart : Nat, dueDate : Nat]

\* Day after day the same period is offered until its due date, then a later one.
ASSUME CalendarAssumption ==
    /\ Days \subseteq Nat /\ Days # {}
    /\ PeriodDates \in [Schedules -> [Days -> Dates]]
    /\ \A s \in Schedules, d, e \in Days :
          d <= e => LET now == PeriodDates[s][d]  later == PeriodDates[s][e]
                    IN  /\ now.periodStart <= later.periodStart
                        /\ e < now.dueDate => later = now

VARIABLES
    group,      \* groups.status, Null before the row is inserted
    schedule,   \* groups.frequency and due_day
    deleted,    \* the group is soft-deleted
    members,    \* the active group_members, as they joined
    shares,     \* computed by an EQUAL or PRO_RATA split, or entered and adding up or not
    periods,    \* the rows of payment_periods, in the order of created_at
    records,    \* the rows of payment_records: <<period, member>>
    paid,       \* those that are PAID
    today,
    req,        \* the handler in each slot
    requests,
    failures,
    ran,        \* history: a pass of the cron ended since the today moved
    complete,   \* history: periods whose generation ended without an error
    joined      \* history: members whose addMember returned

rows == <<group, schedule, deleted, members, shares, periods, records, paid>>
history == <<ran, complete, joined>>
vars == <<group, schedule, deleted, members, shares, periods, records, paid, today, req,
          requests, failures, ran, complete, joined>>

\* history: the schedule the generation has read
Period == [start : Nat, due : Nat, status : PeriodStatus, schedule : Schedules]
Periods == 1..Len(periods)
Exists(status) == \E p \in Periods : periods[p].status = status
Joined == {members[i] : i \in 1..Len(members)}

PCs == {"idle", "host", "group", "current", "currentUpcoming", "upcoming", "create",
        "shares", "records", "update", "softDelete", "member", "periods", "bill", "record"}

\* stage tells which of the three callers of findCurrentByGroup is asking;
\* schedule is the one last read of the group, or the one to be written.
Slot == [pc       : PCs,
         op       : Requests \cup Generators \cup {Null},
         stage    : {"check", "generate", "delete"},
         status   : GroupStatus \cup {Null},
         schedule : Schedules \cup {Null},
         period   : Nat,
         todo     : Seq(Members),
         member   : Members \cup {Null},
         bills    : SUBSET Nat]

Idle == [pc |-> "idle", op |-> Null, stage |-> "generate", status |-> Null,
         schedule |-> Null, period |-> 0, todo |-> <<>>, member |-> Null, bills |-> {}]

Init ==
    /\ group = Null
    /\ schedule \in Schedules
    /\ deleted = FALSE
    /\ members = <<>>
    /\ shares \in {"computed", "unbalanced"}
    /\ periods = <<>>
    /\ records = {}
    /\ paid = {}
    /\ today \in Days /\ \A d \in Days : today <= d
    /\ req = [q \in Slots |-> Idle]
    /\ requests = 0
    /\ failures = 0
    /\ ran = FALSE
    /\ complete = {}
    /\ joined = {}

At(q, pc) == req[q].pc = pc
Goto(q, pc) == req' = [req EXCEPT ![q].pc = pc]
Reply(q) == req' = [req EXCEPT ![q] = Idle]

\* A generation ends, or throws, which both callers only log: the cron goes on to the
\* next group, which ends its pass here, and createGroup returns the group.
Finish(q) ==
    /\ Reply(q)
    /\ ran' = (ran \/ req[q].op = "generateUpcomingCycles")
    /\ UNCHANGED <<complete, joined>>

------------------------------------------------------------------------------
(* Entry points. *)

Accept(q, op) ==
    /\ At(q, "idle")
    /\ op \in Operations
    /\ requests < MaxRequests
    /\ requests' = requests + 1

GroupExists == group # Null /\ ~deleted

\* createGroup: the row of the group, then that of its host.
CreateGroup(q) ==
    /\ Accept(q, "createGroup")
    /\ group = Null
    /\ group' = "ACTIVE"
    /\ req' = [req EXCEPT ![q] = [Idle EXCEPT !.pc = "host", !.op = "createGroup"]]
    /\ UNCHANGED <<schedule, deleted, members, shares, periods, records, paid, today,
                   failures, history>>

InsertHost(q) ==
    /\ At(q, "host")
    /\ members' = Append(members, HostMember)
    /\ Goto(q, "group")
    /\ UNCHANGED <<group, schedule, deleted, shares, periods, records, paid, today, requests,
                   failures, history>>

\* generateUpcomingCycles: a pass over the active groups.
DailyCheck(q) ==
    /\ At(q, "idle")
    /\ "generateUpcomingCycles" \in Operations
    /\ IF group = "ACTIVE" /\ ~deleted
       THEN /\ req' = [req EXCEPT ![q] = [Idle EXCEPT !.pc = "current", !.stage = "check",
                                                      !.op = "generateUpcomingCycles",
                                                      !.schedule = schedule]]
            /\ UNCHANGED ran
       ELSE ran' = TRUE /\ UNCHANGED req
    /\ UNCHANGED <<rows, today, requests, failures, complete, joined>>

\* updateGroup reads the group and refuses a new status when it is CANCELLED.  The host
\* may give a status, a frequency and due day, or both.
UpdateGroup(q, status, new) ==
    /\ Accept(q, "updateGroup")
    /\ GroupExists
    /\ status # Null \/ new # Null
    /\ status # Null => group # "CANCELLED"
    /\ req' = [req EXCEPT ![q] = [Idle EXCEPT !.pc = "update", !.op = "updateGroup",
                                              !.status = status, !.schedule = new]]
    /\ UNCHANGED <<rows, today, failures, history>>

\* The update loads the group again, and fails when it is gone.  A column that its save()
\* writes back unasked has a value another request could have asked for.
WriteGroup(q) ==
    LET Given(new, old) == IF deleted \/ new = Null THEN old ELSE new
    IN  /\ At(q, "update")
        /\ group' = Given(req[q].status, group)
        /\ schedule' = Given(req[q].schedule, schedule)
        /\ Reply(q)
        /\ UNCHANGED <<deleted, members, shares, periods, records, paid, today, requests,
                       failures, history>>

DeleteGroup(q) ==
    /\ Accept(q, "deleteGroup")
    /\ GroupExists
    /\ req' = [req EXCEPT ![q] = [Idle EXCEPT !.pc = "current", !.op = "deleteGroup",
                                              !.stage = "delete"]]
    /\ UNCHANGED <<rows, today, failures, history>>

SoftDelete(q) ==
    /\ At(q, "softDelete")
    /\ deleted' = TRUE
    /\ Reply(q)
    /\ UNCHANGED <<group, schedule, members, shares, periods, records, paid, today, requests,
                   failures, history>>

\* addMember of an email new to the group: the limit and the email are checked here.
AddMember(q, m) ==
    /\ Accept(q, "addMember")
    /\ GroupExists
    /\ Len(members) < MaxMembers
    /\ m \notin Joined
    /\ m # HostMember
    /\ req' = [req EXCEPT ![q] = [Idle EXCEPT !.pc = "member", !.op = "addMember",
                                              !.member = m]]
    /\ UNCHANGED <<rows, today, failures, history>>

------------------------------------------------------------------------------
(* findCurrentByGroup: two SELECTs, the ACTIVE period first. *)

FindActive(q) ==
    /\ At(q, "current")
    /\ IF Exists("ACTIVE") THEN Finish(q)
       ELSE Goto(q, "currentUpcoming") /\ UNCHANGED history
    /\ UNCHANGED <<rows, today, requests, failures>>

\* The next due day of the month, in the cron's reading of the group.
DueSoon(q) == dueWithin7Days[req[q].schedule][today]

\* Mutant: the cron generates when the due date is still far.
NoCurrent_Far(q) ==
    CASE req[q].stage = "check"    -> IF ~DueSoon(q) THEN Goto(q, "group") /\ UNCHANGED history
                                               ELSE Finish(q)
      [] req[q].stage = "generate" -> Goto(q, "upcoming") /\ UNCHANGED history
      [] req[q].stage = "delete"   -> Goto(q, "softDelete") /\ UNCHANGED history

\* Where each caller goes on when there is no current period.
NoCurrent(q) ==
    CASE req[q].stage = "check"    -> IF DueSoon(q) THEN Goto(q, "group") /\ UNCHANGED history
                                              ELSE Finish(q)
      [] req[q].stage = "generate" -> Goto(q, "upcoming") /\ UNCHANGED history
      [] req[q].stage = "delete"   -> Goto(q, "softDelete") /\ UNCHANGED history

FindUpcoming(q) ==
    /\ At(q, "currentUpcoming")
    /\ IF Exists("UPCOMING") THEN Finish(q) ELSE NoCurrent(q)
    /\ UNCHANGED <<rows, today, requests, failures>>

------------------------------------------------------------------------------
(* generateNextCycle. *)

\* It reads the group itself, whatever its caller saw.
ReadGroup(q) ==
    /\ At(q, "group")
    /\ IF group = "ACTIVE" /\ ~deleted
       THEN /\ req' = [req EXCEPT ![q].pc = "current", ![q].stage = "generate",
                                  ![q].schedule = schedule]
            /\ UNCHANGED history
       ELSE Finish(q)
    /\ UNCHANGED <<rows, today, requests, failures>>

FindUpcomingAgain(q) ==
    /\ At(q, "upcoming")
    /\ IF Exists("UPCOMING") THEN Finish(q) ELSE Goto(q, "create") /\ UNCHANGED history
    /\ UNCHANGED <<rows, today, requests, failures>>

\* Mutant: nothing keeps two periods of a group from starting the same day.
UniquePeriod_None(start) == TRUE

\* The unique index on (group_id, period_start).
UniquePeriod(start) == \A p \in Periods : periods[p].start # start

\* Each generation computes its dates from its own reading of the group.
CreatePeriod(q) ==
    LET dates == PeriodDates[req[q].schedule][today]
    IN  /\ At(q, "create")
        /\ IF UniquePeriod(dates.periodStart)
           THEN /\ periods' = Append(periods, [start |-> dates.periodStart,
                                               due |-> dates.dueDate, status |-> "UPCOMING",
                                               schedule |-> req[q].schedule])
                /\ req' = [req EXCEPT ![q].pc = "shares", ![q].period = Len(periods) + 1]
                /\ UNCHANGED history
           ELSE Finish(q) /\ UNCHANGED periods
        /\ UNCHANGED <<group, schedule, deleted, members, shares, records, paid, today,
                       requests, failures>>

\* calculateShares throws when the shares do not add up to the cost, also for no members.
SharesAddUp == ~deleted /\ members # <<>> /\ shares # "unbalanced"

CalculateShares(q) ==
    /\ At(q, "shares")
    /\ IF SharesAddUp
       THEN /\ req' = [req EXCEPT ![q].pc = "records", ![q].todo = members]
            /\ UNCHANGED history
       ELSE Finish(q)
    /\ UNCHANGED <<rows, today, requests, failures>>

\* One INSERT per share, under the unique index on (period_id, member_id).
CreateRecord(q) ==
    /\ At(q, "records")
    /\ req[q].todo # <<>>
    /\ LET rec == <<req[q].period, Head(req[q].todo)>>
       IN  IF rec \in records
           THEN Finish(q) /\ UNCHANGED records
           ELSE /\ records' = records \cup {rec}
                /\ req' = [req EXCEPT ![q].todo = Tail(@)]
                /\ UNCHANGED history
    /\ UNCHANGED <<group, schedule, deleted, members, shares, periods, paid, today, requests,
                   failures>>

Generated(q) ==
    /\ At(q, "records")
    /\ req[q].todo = <<>>
    /\ complete' = complete \cup {req[q].period}
    /\ Reply(q)
    /\ ran' = (ran \/ req[q].op = "generateUpcomingCycles")
    /\ UNCHANGED <<rows, today, requests, failures, joined>>

------------------------------------------------------------------------------
(* addMember, from its first write on. *)

\* The unique index on (group_id, email).  The new share may or may not balance.
InsertMember(q) ==
    /\ At(q, "member")
    /\ IF req[q].member \in Joined
       THEN Reply(q) /\ UNCHANGED <<members, shares>>
       ELSE /\ members' = Append(members, req[q].member)
            /\ shares' \in IF shares = "computed" THEN {"computed"} ELSE Entered
            /\ Goto(q, "periods")
    /\ UNCHANGED <<group, schedule, deleted, periods, records, paid, today, requests, failures,
                   history>>

\* Mutant: the newcomer is billed in the current period only.
findAllUpcomingByGroup_Active == {p \in Periods : periods[p].status = "ACTIVE"}
findAllUpcomingByGroup == {p \in Periods : periods[p].status = "UPCOMING"}

FindPeriods(q) ==
    /\ At(q, "periods")
    /\ req' = [req EXCEPT ![q].pc = "bill", ![q].bills = findAllUpcomingByGroup]
    /\ UNCHANGED <<rows, today, requests, failures, history>>

\* One period after the other: is there a record already?
FindRecord(q, p) ==
    /\ At(q, "bill")
    /\ p \in req[q].bills
    /\ req' = IF <<p, req[q].member>> \in records
              THEN [req EXCEPT ![q].bills = @ \ {p}]
              ELSE [req EXCEPT ![q].bills = @ \ {p}, ![q].period = p, ![q].pc = "record"]
    /\ UNCHANGED <<rows, today, requests, failures, history>>

\* The INSERT fails, and the request with it, when a generation was faster.
BillMember(q) ==
    /\ At(q, "record")
    /\ LET rec == <<req[q].period, req[q].member>>
       IN  /\ records' = records \cup {rec}
           /\ IF rec \in records THEN Reply(q) ELSE Goto(q, "bill")
    /\ UNCHANGED <<group, schedule, deleted, members, shares, periods, paid, today, requests,
                   failures, history>>

MemberAdded(q) ==
    /\ At(q, "bill")
    /\ req[q].bills = {}
    /\ joined' = joined \cup {req[q].member}
    /\ Reply(q)
    /\ UNCHANGED <<rows, today, requests, failures, ran, complete>>

------------------------------------------------------------------------------
(* Payments, time and failures. *)

\* Mutant: a period with payments to come takes the status of a record.
updateCycleStatus_Pending(p, settled) ==
    IF \A rec \in records : rec[1] = p => rec \in settled THEN "COMPLETED" ELSE "PENDING"

\* updateCycleStatus, after a payment of one of the records.
updateCycleStatus(p, settled) ==
    IF \A rec \in records : rec[1] = p => rec \in settled THEN "COMPLETED"
    ELSE IF today >= periods[p].due THEN "OVERDUE"
    ELSE "ACTIVE"

\* hostMarkPaid of a record; its own interleavings are in PaymentRecords.
Pay(p, m) ==
    /\ <<p, m>> \in records \ paid
    /\ paid' = paid \cup {<<p, m>>}
    /\ periods' = [periods EXCEPT ![p].status = updateCycleStatus(p, paid')]
    /\ UNCHANGED <<group, schedule, deleted, members, shares, records, today, req, requests,
                   failures, history>>

\* A whole updateMember by the host: shares of a custom split are entered one by one.
UpdateShares ==
    /\ GroupExists /\ members # <<>>
    /\ shares \in Entered
    /\ requests < MaxRequests
    /\ requests' = requests + 1
    /\ shares' \in Entered
    /\ UNCHANGED <<group, schedule, deleted, members, periods, records, paid, today, req, failures,
                   history>>

\* Dates change at midnight, the cron runs at seven, a request lasts seconds: no
\* generation is in flight when the date changes.  The cron runs in those seven days.
TimePasses ==
    /\ \A q \in Slots : req[q].op \notin Generators
    /\ dueWithin7Days[schedule][today] => ran
    /\ today' \in {d \in Days : d > today}
    /\ \A d \in Days : d > today => today' <= d
    /\ ran' = FALSE
    /\ UNCHANGED <<rows, req, requests, failures, complete, joined>>

\* An await rejects or the process dies.  createGroup survives a failed generation.
Fail(q) ==
    /\ ~At(q, "idle")
    /\ failures < MaxFailures
    /\ failures' = failures + 1
    /\ Reply(q)
    /\ UNCHANGED <<rows, today, requests, ran, complete, joined>>

------------------------------------------------------------------------------
Call(q) ==
    \/ CreateGroup(q) \/ DeleteGroup(q)
    \/ \E s \in GroupStatus \cup {Null}, new \in Schedules \cup {Null} : UpdateGroup(q, s, new)
    \/ \E m \in Members : AddMember(q, m)

Step(q) ==
    \/ InsertHost(q) \/ WriteGroup(q) \/ SoftDelete(q)
    \/ FindActive(q) \/ FindUpcoming(q)
    \/ ReadGroup(q) \/ FindUpcomingAgain(q) \/ CreatePeriod(q) \/ CalculateShares(q)
    \/ CreateRecord(q) \/ Generated(q)
    \/ InsertMember(q) \/ FindPeriods(q) \/ BillMember(q) \/ MemberAdded(q)
    \/ \E p \in Periods : FindRecord(q, p)

Next ==
    \/ \E q \in Slots : Call(q) \/ DailyCheck(q) \/ Step(q) \/ Fail(q)
    \/ \E p \in Periods, m \in Members : Pay(p, m)
    \/ UpdateShares
    \/ TimePasses

Spec == Init /\ [][Next]_vars

\* As long as nothing fails, some handler gets on with its work, or the cron is started:
\* it is enough that one of the two processes does.
Fairness == WF_vars(failures = 0 /\ \E q \in Slots : Step(q) \/ DailyCheck(q))

FairSpec == Spec /\ Fairness

------------------------------------------------------------------------------
(* Correctness. *)

TypeOK ==
    /\ group \in GroupStatus \cup {Null}
    /\ schedule \in Schedules
    /\ deleted \in BOOLEAN
    /\ members \in Seq(Members)
    /\ shares \in Shares
    /\ periods \in Seq(Period)
    /\ records \subseteq Nat \X Members
    /\ paid \subseteq records
    /\ today \in Days
    /\ req \in [Slots -> Slot]
    /\ requests \in 0..MaxRequests
    /\ failures \in 0..MaxFailures
    /\ ran \in BOOLEAN
    /\ complete \subseteq Nat
    /\ joined \subseteq Members

(***************************************************************************)
(* However many generations overlap, of the periods made for one frequency *)
(* and due day only the newest is ACTIVE or UPCOMING.  The checks of       *)
(* generateNextCycle all come before its INSERT, and the unique index does *)
(* not separate two generations between which the host moves the due day.  *)
(***************************************************************************)
OneOpenCycle ==
    \A p, o \in Periods :
        p < o /\ periods[p].schedule = periods[o].schedule => periods[p].status \notin Open

(***************************************************************************)
(* A member who was added is billed in every upcoming period that was      *)
(* generated without an error: either the generation saw the member or     *)
(* addMember saw the period (generateNextCycle, addMember).                *)
(***************************************************************************)
NewcomersAreBilled ==
    \A p \in complete, m \in joined :
        periods[p].status = "UPCOMING" => <<p, m>> \in records

(***************************************************************************)
(* When the due date comes near and the cron is still to run before it, an *)
(* active group gets the period of that date or still has an open one,     *)
(* unless something fails or the host moves the due day                    *)
(* (generateUpcomingCycles).                                               *)
(***************************************************************************)
EveryMonthIsGenerated ==
    \A s \in Schedules : \A d \in {e \in Days : dueWithin7Days[s][e]} :
        (/\ today = d /\ schedule = s /\ ~ran /\ group = "ACTIVE"
         /\ \A q \in Slots : req[q].op = "generateUpcomingCycles" => req[q].schedule = s) ~>
            (\/ \E p \in Periods : \/ periods[p].start = PeriodDates[s][d].periodStart
                                 \/ periods[p].status \in Open
             \/ schedule # s \/ group # "ACTIVE" \/ deleted \/ failures > 0)

------------------------------------------------------------------------------
(* What the repository says of itself and the code does not keep. *)

(***************************************************************************)
(* "Guard: no duplicate active cycle" (billing-cycle.service.ts:47), so    *)
(* that generateNextCycle "skips if an ACTIVE or UPCOMING cycle already    *)
(* exists" (:32).                                                          *)
(***************************************************************************)
NoDuplicateCycle == Cardinality({p \in Periods : periods[p].status \in Open}) <= 1
==============================================================================
