---------------------------- MODULE PaymentRecords ----------------------------
(***************************************************************************)
(* The payment records of one billing period of an EQUAL-split group, and  *)
(* every code path that writes them: the handlers of PaymentsService, the  *)
(* membership changes of MembersService, the overdue sweep of the daily    *)
(* cron and the webhook worker.                                            *)
(*                                                                         *)
(* A handler runs in a slot, one await at a time.  Every handler writes    *)
(* through BaseRepository.update, which is three database calls: it loads  *)
(* the entity and assigns the new values (UpdateFind), save() loads the    *)
(* row again to compute the changed columns (SaveLoad), and the UPDATE     *)
(* writes exactly those columns (SaveWrite).  Nothing locks the row        *)
(* meanwhile.  The webhook worker is the exception: it locks the row and   *)
(* is one step here.                                                       *)
(***************************************************************************)
EXTENDS Naturals, FiniteSets, PaymentStateMachine

CONSTANTS
    Records,        \* payment records of the period, one per member
    HostRecord,     \* the record of the host, who is a member too
    Slots,          \* handlers that may be in flight at once
    Operations,     \* the entry points in use
    Actors,         \* who calls them: "host", "payer" (of the record), "other"
    Txs,            \* invoices the gateway can issue
    EventStatuses,  \* statuses the gateway reports
    Provider,       \* "XENDIT" or "MIDTRANS"
    SnapToken,      \* the token of a Midtrans Snap transaction
    TotalAmount,    \* cost of the subscription, in cents
    Null,
    MaxRequests,    \* bound: requests accepted in a behaviour
    MaxFailures     \* bound: awaits that reject, or processes that die

PaidOperations == {"hostMarkPaid", "approve"}
RecordOperations ==
    {"createGatewayPaymentLink", "confirmPayment", "hostMarkPaid", "waivePayment",
     "confirmManual", "approve", "reject", "markOverdue"}
MemberOperations == {"addMember", "removeMember"}

Confirmations == {"SYSTEM_WEBHOOK", "MEMBER_SELF_REPORT", "HOST_MANUAL"}

ASSUME RecordsAssumption == IsFiniteSet(Records) /\ HostRecord \in Records
ASSUME NullAssumption ==
    /\ Null \notin Records \cup Txs \cup Nat
    /\ Null \notin RecordOperations \cup MemberOperations \cup Confirmations
    /\ Null \notin {"host", "payer", "other"}
ASSUME OperationsAssumption == Operations \subseteq RecordOperations \cup MemberOperations
ASSUME ActorsAssumption == Actors \subseteq {"host", "payer", "other"}
ASSUME GatewayAssumption ==
    /\ EventStatuses \subseteq GatewayStatus
    /\ Provider \in {"XENDIT", "MIDTRANS"}
    /\ SnapToken \notin Records \cup {Null}
ASSUME AmountAssumption == TotalAmount \in Nat
ASSUME BoundsAssumption == MaxRequests \in Nat /\ MaxFailures \in Nat

VARIABLES
    row,        \* payment_records, by id
    period,     \* payment_periods.status of their period
    clock,      \* before the due date, after it, or after the grace days too
    inactive,   \* records whose member has status REMOVED
    deleted,    \* records whose member is soft-deleted
    used,       \* records with a Redis key confirm:used:{id}
    invoices,   \* what the gateway has issued
    events,     \* what the gateway reports; a webhook may arrive any number of times
    req,        \* the handler in each slot
    requests,
    failures,
    hostAsked,  \* history: the host asked for this record to be marked paid or approved
    reported,   \* history: the record has been PENDING_HOST_REVIEW
    dues        \* history: every amount a record has had due

external == <<clock, invoices, events>>
members == <<inactive, deleted>>
counters == <<requests, failures>>
history == <<hostAsked, reported, dues>>
vars == <<row, period, clock, inactive, deleted, used, invoices, events, req,
          requests, failures, hostAsked, reported, dues>>

------------------------------------------------------------------------------
(* Rows. *)

\* paidAt stands for paid_at and confirmed_at, which every writer sets together.
Fields == {"status", "confirmedBy", "amountDue", "amountPaid", "paidAt",
           "gatewayReferenceId", "gatewayTransactionId"}

Row == [status               : PaymentStatus,
        confirmedBy          : Confirmations \cup {Null},
        amountDue            : Nat,
        amountPaid           : Nat \cup {Null},
        paidAt               : BOOLEAN,
        gatewayReferenceId   : Records \cup {SnapToken, Null},
        gatewayTransactionId : Txs \cup {Null}]

\* findActiveByGroup: soft-deleted members are never found.
Active == Records \ (inactive \cup deleted)

\* Everyone carries an equal part; the first member, the host, adds the remainder.
Part(n) == TotalAmount \div n
EqualShare(r, n) == IF r = HostRecord THEN Part(n) + (TotalAmount % n) ELSE Part(n)

\* Math.round(Number(amountDue)): the gateway deals in rupiah.
Rupiah(cents) == (cents + 50) \div 100

\* A share is written without trailing zeros, a column read back with two decimals.
SameText(share, column) == share = column /\ share % 10 # 0

PendingRow(due) ==
    [status |-> "PENDING", confirmedBy |-> Null, amountDue |-> due, amountPaid |-> Null,
     paidAt |-> FALSE, gatewayReferenceId |-> Null, gatewayTransactionId |-> Null]

\* Object.assign of some columns, and the UPDATE of some columns.
Assign(old, new, fields) ==
    LET Pick(f) == IF f \in fields THEN new ELSE old
    IN  [status               |-> Pick("status").status,
         confirmedBy          |-> Pick("confirmedBy").confirmedBy,
         amountDue            |-> Pick("amountDue").amountDue,
         amountPaid           |-> Pick("amountPaid").amountPaid,
         paidAt               |-> Pick("paidAt").paidAt,
         gatewayReferenceId   |-> Pick("gatewayReferenceId").gatewayReferenceId,
         gatewayTransactionId |-> Pick("gatewayTransactionId").gatewayTransactionId]

\* The columns save() finds changed.  A new Date is never equal to a stored one.
Changed(r, entity, assigned) ==
    {f \in Fields :
        \/ entity[f] # row[r][f]
        \/ f = "paidAt" /\ f \in assigned /\ entity.paidAt
        \/ f = "amountDue" /\ f \in assigned
              /\ ~SameText(entity.amountDue, row[r].amountDue)}

------------------------------------------------------------------------------
(* Handlers in flight. *)

\* A membership change: of whom, and updatedShares for the members still to do.
Job == [member : Records \cup {Null}, todo : SUBSET Records,
        shares : [Records -> Nat], newShare : Nat]
NoJob == [member |-> Null, todo |-> {}, shares |-> [r \in Records |-> 0], newShare |-> 0]

PCs == {"idle", "read", "seen", "gateway", "linked", "update", "found", "write",
        "burn", "cycle", "judge", "cycleLoad", "cycleWrite",
        "softDelete", "restore", "activate",
        "recalculate", "shares", "syncRead", "sync", "revive"}

Slot == [pc     : PCs,
         op     : RecordOperations \cup MemberOperations \cup {Null},
         rec    : Records \cup {Null},
         actor  : {"host", "payer", "other", Null},
         data   : Row,
         fields : SUBSET Fields,
         next   : {"idle", "burn", "cycle", "sync"},
         cycle  : PeriodStatus,
         job    : Job]

Idle == [pc |-> "idle", op |-> Null, rec |-> Null, actor |-> Null, data |-> PendingRow(0),
         fields |-> {}, next |-> "idle", cycle |-> "UPCOMING", job |-> NoJob]

At(q, pc) == req[q].pc = pc
Goto(q, pc) == req' = [req EXCEPT ![q].pc = pc]
Reply(q) == req' = [req EXCEPT ![q] = Idle]

\* Call recordRepo.update(rec, fields of data), and go on at next when it returns.
Update(q, data, fields, next) ==
    req' = [req EXCEPT ![q].pc = "update", ![q].data = data,
                       ![q].fields = fields, ![q].next = next]

Init ==
    /\ row = [r \in Records |-> PendingRow(EqualShare(r, Cardinality(Records)))]
    /\ period = "UPCOMING"
    /\ clock = "open"
    /\ inactive = {}
    /\ deleted = {}
    /\ used = {}
    /\ invoices = {}
    /\ events = {}
    /\ req = [q \in Slots |-> Idle]
    /\ requests = 0
    /\ failures = 0
    /\ hostAsked = {}
    /\ reported = {}
    /\ dues = [r \in Records |-> {EqualShare(r, Cardinality(Records))}]

------------------------------------------------------------------------------
(* Entry points. *)

Accept(q, op) ==
    /\ At(q, "idle")
    /\ op \in Operations
    /\ requests < MaxRequests
    /\ requests' = requests + 1
    /\ UNCHANGED <<row, period, external, used, failures, reported, dues>>

Users(op) == IF op \in {"confirmPayment", "markOverdue"} THEN {Null} ELSE Actors

\* The host pays the host's own record.
IsPayer(r, actor) == actor = IF r = HostRecord THEN "host" ELSE "payer"

\* The first database call of a handler on one record: it loads the record.
ReadRecord(q, op, r, actor) ==
    /\ Accept(q, op)
    /\ op \in RecordOperations \ {"confirmPayment", "confirmManual"}
    /\ actor \in Users(op)
    /\ actor = "payer" => r # HostRecord
    /\ req' = [req EXCEPT ![q] = [Idle EXCEPT !.pc = "seen", !.op = op, !.rec = r,
                                              !.actor = actor, !.data = row[r]]]
    /\ hostAsked' = IF op \in PaidOperations /\ actor = "host"
                    THEN hostAsked \cup {r} ELSE hostAsked
    /\ UNCHANGED members

\* confirmPayment asks Redis first, and answers at once when the key is there;
\* confirmManual looks at the member first.
ReadLater(q, op, r) ==
    /\ Accept(q, op)
    /\ req' = [req EXCEPT ![q] = [Idle EXCEPT !.pc = "read", !.op = op, !.rec = r]]
    /\ UNCHANGED <<members, hostAsked>>

ConfirmPayment(q, r) == r \notin used /\ ReadLater(q, "confirmPayment", r)

ConfirmManual(q, r) ==
    /\ r \notin deleted
    /\ \E actor \in Actors : IsPayer(r, actor)
    /\ ReadLater(q, "confirmManual", r)

ConfirmRead(q) ==
    /\ At(q, "read")
    /\ req' = [req EXCEPT ![q].pc = "seen", ![q].data = row[req[q].rec]]
    /\ UNCHANGED <<row, period, external, members, used, counters, history>>

\* Mutant: the host may remove himself.
RemoveMember_Host(q, r) ==
    /\ Accept(q, "removeMember")
    /\ r \notin deleted
    /\ inactive' = inactive \cup {r}
    /\ req' = [req EXCEPT ![q] = [Idle EXCEPT !.pc = "softDelete", !.op = "removeMember",
                                              !.job = [NoJob EXCEPT !.member = r]]]
    /\ UNCHANGED <<deleted, hostAsked>>

\* removeMember: status REMOVED, soft delete, then recalculateEqualShares.
RemoveMember(q, r) ==
    /\ Accept(q, "removeMember")
    /\ r # HostRecord
    /\ r \notin deleted
    /\ inactive' = inactive \cup {r}
    /\ req' = [req EXCEPT ![q] = [Idle EXCEPT !.pc = "softDelete", !.op = "removeMember",
                                              !.job = [NoJob EXCEPT !.member = r]]]
    /\ UNCHANGED <<deleted, hostAsked>>

\* addMember of an email that has been a member: restore it, set its status to
\* ACTIVE, then recalculateEqualShares.  Its own share counts the members before.
AddMember(q, r) ==
    /\ Accept(q, "addMember")
    /\ r \notin Active
    /\ LET job == [NoJob EXCEPT !.member = r, !.newShare = Part(Cardinality(Active) + 1)]
       IN  req' = [req EXCEPT ![q] = [Idle EXCEPT !.pc = "restore", !.op = "addMember",
                                                  !.job = job]]
    /\ UNCHANGED <<members, hostAsked>>

------------------------------------------------------------------------------
(* The decision of each handler, on the record it has read. *)

\* What the handlers assign.
SelfReported(seen) == [seen EXCEPT !.status = "PENDING_HOST_REVIEW",
                                   !.confirmedBy = "MEMBER_SELF_REPORT"]

\* Mutant: the host enters the cost of the whole subscription.
PaidByHost_Total(seen) == [seen EXCEPT !.status = "PAID", !.amountPaid = TotalAmount,
                                       !.paidAt = TRUE, !.confirmedBy = "HOST_MANUAL"]
PaidByHost(seen) == [seen EXCEPT !.status = "PAID", !.amountPaid = seen.amountDue,
                                 !.paidAt = TRUE, !.confirmedBy = "HOST_MANUAL"]

\* Mutant: a rejected report is forgotten.
Rejected_Forgotten(seen) == [seen EXCEPT !.status = "PENDING", !.paidAt = FALSE,
                                         !.confirmedBy = Null]
Rejected(seen) == [seen EXCEPT !.status = "PENDING", !.paidAt = FALSE]

\* Mutant: every member may act on the record.
assertHostOwnership_Member(q) == req[q].rec \notin deleted

\* assertHostOwnership: the member exists and the caller hosts the group.
assertHostOwnership(q) == req[q].rec \notin deleted /\ req[q].actor = "host"

\* Every other variable than req keeps its value.
Decides(q, op) ==
    /\ At(q, "seen")
    /\ req[q].op = op
    /\ UNCHANGED <<row, period, external, members, used, counters, history>>

\* Mutant: the link is burnt though the report is refused.
ConfirmDecide_BurnAlways(q) ==
    LET seen == req[q].data
    IN  /\ Decides(q, "confirmPayment")
        /\ IF ensureTransition(seen.status, "PENDING_HOST_REVIEW")
           THEN Update(q, SelfReported(seen), {"status", "confirmedBy"}, "burn")
           ELSE Goto(q, "burn")

\* confirmPayment, and confirmManual: the one burns the link, the other has none.
ConfirmDecide(q) ==
    LET seen == req[q].data
    IN  /\ Decides(q, "confirmPayment")
        /\ IF seen.status = "PENDING_HOST_REVIEW" THEN Goto(q, "burn")
           ELSE IF ensureTransition(seen.status, "PENDING_HOST_REVIEW")
           THEN Update(q, SelfReported(seen), {"status", "confirmedBy"}, "burn")
           ELSE Reply(q)

ConfirmManualDecide(q) ==
    LET seen == req[q].data
    IN  /\ Decides(q, "confirmManual")
        /\ IF ensureTransition(seen.status, "PENDING_HOST_REVIEW")
           THEN Update(q, SelfReported(seen), {"status", "confirmedBy"}, "idle")
           ELSE Reply(q)

\* hostMarkPaid
HostMarkPaid(q) ==
    LET seen == req[q].data
    IN  /\ Decides(q, "hostMarkPaid")
        /\ IF /\ assertHostOwnership(q)
              /\ seen.status # "PAID"
              /\ ensureTransition(seen.status, "PAID")
           THEN Update(q, PaidByHost(seen), {"status", "amountPaid", "paidAt", "confirmedBy"},
                       "cycle")
           ELSE Reply(q)

\* waivePayment
WaivePayment(q) ==
    LET seen   == req[q].data
        target == IF seen.status = "PAID" THEN "REFUNDED" ELSE "FAILED"
    IN  /\ Decides(q, "waivePayment")
        /\ IF assertHostOwnership(q) /\ ensureTransition(seen.status, target)
           THEN Update(q, [seen EXCEPT !.status = target, !.confirmedBy = "HOST_MANUAL"],
                       {"status", "confirmedBy"}, "idle")
           ELSE Reply(q)

\* reviewPayment(approve)
Approve(q) ==
    LET seen == req[q].data
    IN  /\ Decides(q, "approve")
        /\ IF assertHostOwnership(q) /\ ensureTransition(seen.status, "PAID")
           THEN Update(q, PaidByHost(seen), {"status", "amountPaid", "paidAt", "confirmedBy"},
                       "cycle")
           ELSE Reply(q)

\* reviewPayment(reject)
Reject(q) ==
    LET seen == req[q].data
    IN  /\ Decides(q, "reject")
        /\ IF assertHostOwnership(q) /\ ensureTransition(seen.status, "PENDING")
           THEN Update(q, Rejected(seen), {"status", "amountPaid", "paidAt", "confirmedBy"},
                       "idle")
           ELSE Reply(q)

\* Mutant: the grace days are not granted.
GraceIsOver_DueDate == clock # "open"
GraceIsOver == clock = "late"

\* markOverdueAndAlert: it never looks at transitionMap.
MarkOverdue(q) ==
    LET seen == req[q].data
    IN  /\ Decides(q, "markOverdue")
        /\ IF seen.status = "PENDING" /\ GraceIsOver
           THEN Update(q, [seen EXCEPT !.status = "EXPIRED"], {"status"}, "idle")
           ELSE Reply(q)

\* createGatewayPaymentLink calls the gateway before it checks the transition.
LinkCheckAccess(q) ==
    /\ Decides(q, "createGatewayPaymentLink")
    /\ IF req[q].rec \notin deleted /\ req[q].actor \in {"host", "payer"}
       THEN Goto(q, "gateway")
       ELSE Reply(q)

\* The reference the provider's createPaymentLink returns for a record.
gatewayReference(r) == IF Provider = "XENDIT" THEN r ELSE SnapToken

LinkCreated(q) ==
    LET seen == req[q].data
    IN  /\ At(q, "linked")
        /\ IF ensureTransition(seen.status, "AWAITING_GATEWAY")
           THEN Update(q, [seen EXCEPT !.status = "AWAITING_GATEWAY",
                                       !.gatewayReferenceId = gatewayReference(req[q].rec)],
                       {"status", "gatewayReferenceId"}, "idle")
           ELSE Reply(q)
        /\ UNCHANGED <<row, period, external, members, used, counters, history>>

------------------------------------------------------------------------------
(* BaseRepository.update. *)

UpdateFind(q) ==
    /\ At(q, "update")
    /\ req' = [req EXCEPT ![q].pc = "found",
                          ![q].data = Assign(row[req[q].rec], req[q].data, req[q].fields)]
    /\ UNCHANGED <<row, period, external, members, used, counters, history>>

SaveLoad(q) ==
    /\ At(q, "found")
    /\ req' = [req EXCEPT ![q].pc = "write",
                          ![q].fields = Changed(req[q].rec, req[q].data, req[q].fields)]
    /\ UNCHANGED <<row, period, external, members, used, counters, history>>

SaveWrite(q) ==
    LET r   == req[q].rec
        new == Assign(row[r], req[q].data, req[q].fields)
    IN  /\ At(q, "write")
        /\ row' = [row EXCEPT ![r] = new]
        /\ dues' = [dues EXCEPT ![r] = @ \cup {new.amountDue}]
        /\ reported' = IF new.status = "PENDING_HOST_REVIEW"
                       THEN reported \cup {r} ELSE reported
        /\ req' = [req EXCEPT ![q] = IF req[q].next = "idle" THEN Idle
                                     ELSE [req[q] EXCEPT !.pc = req[q].next]]
        /\ UNCHANGED <<period, external, members, used, counters, hostAsked>>

\* Mutant: the key is made of the caller instead of the record.
BurnToken_Caller(q) ==
    /\ At(q, "burn")
    /\ used' = used \cup {req[q].actor}
    /\ Reply(q)
    /\ UNCHANGED <<row, period, external, members, counters, history>>

\* confirmPayment records the use of the link, after the update.
BurnToken(q) ==
    /\ At(q, "burn")
    /\ used' = used \cup {req[q].rec}
    /\ Reply(q)
    /\ UNCHANGED <<row, period, external, members, counters, history>>

------------------------------------------------------------------------------
(* BillingCycleService.updateCycleStatus, at the end of a host's payment. *)

CycleRead(q) ==
    /\ At(q, "cycle")
    /\ req' = [req EXCEPT ![q].pc = "judge", ![q].cycle = period]
    /\ UNCHANGED <<row, period, external, members, used, counters, history>>

Paid(r) == row[r].status = "PAID"

\* Mutants: one payment completes the period; the due date is compared the wrong
\* way round; a payment is looked for before all of them are.
newStatus_AnyPaid(current) ==
    IF \E r \in Records : Paid(r) THEN "COMPLETED"
    ELSE IF clock # "open" THEN "OVERDUE" ELSE current
newStatus_NotDue(current) ==
    IF \A r \in Records : Paid(r) THEN "COMPLETED"
    ELSE IF clock = "open" THEN "OVERDUE"
    ELSE IF \E r \in Records : Paid(r) THEN "ACTIVE"
    ELSE current
newStatus_AnyFirst(current) ==
    IF \E r \in Records : Paid(r) THEN "ACTIVE"
    ELSE IF clock # "open" THEN "OVERDUE"
    ELSE current

newStatus(current) ==
    IF \A r \in Records : Paid(r) THEN "COMPLETED"
    ELSE IF clock # "open" THEN "OVERDUE"
    ELSE IF \E r \in Records : Paid(r) THEN "ACTIVE"
    ELSE current

CycleJudge(q) ==
    /\ At(q, "judge")
    /\ IF newStatus(req[q].cycle) = req[q].cycle
       THEN Reply(q)
       ELSE req' = [req EXCEPT ![q].pc = "cycleLoad", ![q].cycle = newStatus(req[q].cycle)]
    /\ UNCHANGED <<row, period, external, members, used, counters, history>>

\* periodRepo.update: only the status column can differ.
CycleLoad(q) ==
    /\ At(q, "cycleLoad")
    /\ IF period = req[q].cycle THEN Reply(q) ELSE Goto(q, "cycleWrite")
    /\ UNCHANGED <<row, period, external, members, used, counters, history>>

CycleWrite(q) ==
    /\ At(q, "cycleWrite")
    /\ period' = req[q].cycle
    /\ Reply(q)
    /\ UNCHANGED <<row, external, members, used, counters, history>>

------------------------------------------------------------------------------
(* MembersService.recalculateEqualShares and the end of addMember. *)

SoftDelete(q) ==
    /\ At(q, "softDelete")
    /\ deleted' = deleted \cup {req[q].job.member}
    /\ Goto(q, "recalculate")
    /\ UNCHANGED <<row, period, external, inactive, used, counters, history>>

Restore(q) ==
    /\ At(q, "restore")
    /\ deleted' = deleted \ {req[q].job.member}
    /\ Goto(q, "activate")
    /\ UNCHANGED <<row, period, external, inactive, used, counters, history>>

\* memberRepo.update throws when the member is not found.
Activate(q) ==
    /\ At(q, "activate")
    /\ IF req[q].job.member \in deleted
       THEN Reply(q) /\ UNCHANGED inactive
       ELSE inactive' = inactive \ {req[q].job.member} /\ Goto(q, "recalculate")
    /\ UNCHANGED <<row, period, external, deleted, used, counters, history>>

\* updatedShares, from the members as they are now.
RecalculateShares(q) ==
    LET n == Cardinality(Active)
    IN  /\ At(q, "recalculate")
        /\ req' = [req EXCEPT ![q].pc = "shares",
                              ![q].job.todo = Active,
                              ![q].job.shares = [r \in Records |-> EqualShare(r, n)]]
        /\ UNCHANGED <<row, period, external, members, used, counters, history>>

\* memberRepo.update of every share, and findAllUpcomingByGroup.
SaveShares(q) ==
    /\ At(q, "shares")
    /\ IF req[q].job.todo \cap deleted # {}
       THEN Reply(q)
       ELSE req' = [req EXCEPT ![q].pc = IF period = "UPCOMING" THEN "syncRead" ELSE "sync",
                               ![q].job.todo = IF period = "UPCOMING" THEN @ ELSE {}]
    /\ UNCHANGED <<row, period, external, members, used, counters, history>>

\* The records to sync are PENDING and differ from the new share as texts.
SyncRead(q) ==
    LET job   == req[q].job
        stale == {r \in job.todo : /\ row[r].status = "PENDING"
                                   /\ ~SameText(job.shares[r], row[r].amountDue)}
    IN  /\ At(q, "syncRead")
        /\ req' = [req EXCEPT ![q].pc = "sync", ![q].job.todo = stale]
        /\ UNCHANGED <<row, period, external, members, used, counters, history>>

SyncAmount(q, r) ==
    /\ At(q, "sync")
    /\ r \in req[q].job.todo
    /\ req' = [req EXCEPT ![q].pc = "update", ![q].rec = r,
                          ![q].data = PendingRow(req[q].job.shares[r]),
                          ![q].fields = {"amountDue"}, ![q].next = "sync",
                          ![q].job.todo = @ \ {r}]
    /\ UNCHANGED <<row, period, external, members, used, counters, history>>

SyncDone(q) ==
    /\ At(q, "sync")
    /\ req[q].job.todo = {}
    /\ IF req[q].op = "addMember" THEN Goto(q, "revive") ELSE Reply(q)
    /\ UNCHANGED <<row, period, external, members, used, counters, history>>

\* The record of a revived member starts over, whatever its status was.
ReviveRecord(q) ==
    /\ At(q, "revive")
    /\ IF period = "UPCOMING"
       THEN req' = [req EXCEPT ![q].pc = "update", ![q].rec = req[q].job.member,
                               ![q].data = PendingRow(req[q].job.newShare),
                               ![q].fields = {"amountDue", "status"}, ![q].next = "idle"]
       ELSE Reply(q)
    /\ UNCHANGED <<row, period, external, members, used, counters, history>>

------------------------------------------------------------------------------
(* The gateway, and the webhook worker. *)

Invoice == [rec : Records, amount : Nat, tx : Txs]
Event == [rec : Records, amount : Nat, tx : Txs, status : GatewayStatus]

\* The gateway issues an invoice for the amount the handler has read.
GatewayIssues(q, tx) ==
    /\ At(q, "gateway")
    /\ tx \notin {i.tx : i \in invoices}
    /\ invoices' = invoices \cup
                      {[rec |-> req[q].rec, amount |-> Rupiah(req[q].data.amountDue), tx |-> tx]}
    /\ Goto(q, "linked")
    /\ UNCHANGED <<row, period, clock, members, used, events, counters, history>>

\* Something happens to an invoice, and the gateway will report it.
GatewayReports(i, s) ==
    /\ events' = events \cup
                    {[rec |-> i.rec, amount |-> i.amount, tx |-> i.tx, status |-> s]}
    /\ UNCHANGED <<row, period, clock, members, used, invoices, req, counters,
                   history>>

(***************************************************************************)
(* processWebhook, a transaction under a lock on the record.  Where the    *)
(* service throws (no record, another transaction, no entry in the map)    *)
(* nothing changes: the job is retried, that is, the step is tried again.  *)
(***************************************************************************)
\* Mutant: the record is not looked up by the reference.
FoundBy_Any(e, r) ==
    /\ row[r].gatewayReferenceId # Null
    /\ row[r].gatewayTransactionId \in {Null, e.tx}

FoundBy(e, r) ==
    /\ row[r].gatewayReferenceId = e.rec
    /\ row[r].gatewayTransactionId \in {Null, e.tx}

WebhookMismatch(e, r) ==
    /\ FoundBy(e, r)
    /\ Rupiah(row[r].amountDue) # e.amount
    /\ row' = [row EXCEPT ![r].status = "FAILED", ![r].gatewayTransactionId = e.tx]
    /\ UNCHANGED <<period, external, members, used, req, counters, history>>

WebhookApply(e, r, to) ==
    /\ FoundBy(e, r)
    /\ Rupiah(row[r].amountDue) = e.amount
    /\ [from |-> row[r].status, event |-> e.status, to |-> to] \in webhookTransitionMap
    /\ row' = [row EXCEPT ![r].status = to,
                          ![r].paidAt = IF to = "PAID" THEN TRUE ELSE @,
                          ![r].confirmedBy = IF to = "PAID" THEN "SYSTEM_WEBHOOK" ELSE @,
                          ![r].gatewayTransactionId = e.tx]
    /\ UNCHANGED <<period, external, members, used, req, counters, history>>

------------------------------------------------------------------------------
(* The environment. *)

\* The due date passes, and then the grace days.
TimePasses ==
    /\ clock' = CASE clock = "open" -> "due" [] OTHER -> "late"
    /\ UNCHANGED <<row, period, members, used, invoices, events, req, counters,
                   history>>

\* The seven days of confirm:used:{id} are over.
KeyExpires(r) ==
    /\ used' = used \ {r}
    /\ UNCHANGED <<row, period, external, members, req, counters, history>>

\* An await of the handler rejects, or its process dies: what it wrote stays.
Fail(q) ==
    /\ ~At(q, "idle")
    /\ failures < MaxFailures
    /\ failures' = failures + 1
    /\ Reply(q)
    /\ UNCHANGED <<row, period, external, members, used, requests, history>>

------------------------------------------------------------------------------
Begin(q) ==
    \E r \in Records :
        \/ \E op \in RecordOperations, actor \in Actors \cup {Null} :
              ReadRecord(q, op, r, actor)
        \/ ConfirmPayment(q, r) \/ ConfirmManual(q, r)
        \/ RemoveMember(q, r) \/ AddMember(q, r)

Decide(q) ==
    \/ ConfirmRead(q) \/ ConfirmDecide(q) \/ ConfirmManualDecide(q)
    \/ HostMarkPaid(q) \/ WaivePayment(q) \/ Approve(q) \/ Reject(q)
    \/ MarkOverdue(q) \/ LinkCheckAccess(q) \/ LinkCreated(q)

Finish(q) ==
    \/ UpdateFind(q) \/ SaveLoad(q) \/ SaveWrite(q) \/ BurnToken(q)
    \/ CycleRead(q) \/ CycleJudge(q) \/ CycleLoad(q) \/ CycleWrite(q)

Membership(q) ==
    \/ SoftDelete(q) \/ Restore(q) \/ Activate(q)
    \/ RecalculateShares(q) \/ SaveShares(q) \/ SyncRead(q) \/ SyncDone(q)
    \/ ReviveRecord(q)
    \/ \E r \in Records : SyncAmount(q, r)

Handler(q) ==
    \/ Begin(q) \/ Decide(q) \/ Finish(q) \/ Membership(q)
    \/ \E tx \in Txs : GatewayIssues(q, tx)
    \/ Fail(q)

Webhook(e) ==
    \E r \in Records :
        \/ WebhookMismatch(e, r)
        \/ \E to \in PaymentStatus : WebhookApply(e, r, to)

Next ==
    \/ \E q \in Slots : Handler(q)
    \/ \E i \in invoices, s \in EventStatuses : GatewayReports(i, s)
    \/ \E e \in events : Webhook(e)
    \/ TimePasses
    \/ \E r \in Records : KeyExpires(r)

Spec == Init /\ [][Next]_vars

------------------------------------------------------------------------------
(* Correctness. *)

TypeOK ==
    /\ row \in [Records -> Row]
    /\ period \in PeriodStatus
    /\ clock \in {"open", "due", "late"}
    /\ inactive \subseteq Records
    /\ deleted \subseteq Records
    /\ used \subseteq Records
    /\ invoices \subseteq Invoice
    /\ events \subseteq Event
    /\ req \in [Slots -> Slot]
    /\ requests \in 0..MaxRequests
    /\ failures \in 0..MaxFailures
    /\ hostAsked \subseteq Records
    /\ reported \subseteq Records
    /\ dues \in [Records -> SUBSET Nat]

\* The gateway reported a payment of an amount this record has had due.
Settled(r) ==
    \E e \in events : e.rec = r /\ e.status = "PAID" /\ e.amount \in {Rupiah(d) : d \in dues[r]}

Authorised(r) == r \in hostAsked \/ Settled(r)

(***************************************************************************)
(* Whatever the interleaving of stale snapshots and partial writes, a      *)
(* record is PAID only if its host asked for it or the gateway reported    *)
(* its payment: a member's own report never suffices (hostMarkPaid,        *)
(* reviewPayment, confirmPayment, processWebhook).  The repository's own   *)
(* documentation of confirmPayment disagrees: see ConfirmedIsPaid.         *)
(***************************************************************************)
PaidIsAuthorised == \A r \in Records : Paid(r) => Authorised(r)

(***************************************************************************)
(* confirmed_by = SYSTEM_WEBHOOK is only ever found on a record the        *)
(* gateway reported paid for an amount that was due (processWebhook).      *)
(***************************************************************************)
GatewayAttribution ==
    \A r \in Records : row[r].confirmedBy = "SYSTEM_WEBHOOK" => Settled(r)

(***************************************************************************)
(* amount_paid is an amount that was due on that record, and was entered   *)
(* on behalf of its host (hostMarkPaid, reviewPayment).                    *)
(***************************************************************************)
CollectedAmountWasDue ==
    \A r \in Records : row[r].amountPaid # Null =>
        r \in hostAsked /\ row[r].amountPaid \in dues[r]

(***************************************************************************)
(* A record bound to a gateway transaction was bound by a report of that   *)
(* very transaction for this very record (processWebhook).                 *)
(***************************************************************************)
BoundTransactionWasReported ==
    \A r \in Records : row[r].gatewayTransactionId # Null =>
        \E e \in events : e.rec = r /\ e.tx = row[r].gatewayTransactionId

(***************************************************************************)
(* No record expires early: EXPIRED means that the grace days are over or  *)
(* that the gateway reported the invoice expired (markOverdueAndAlert).    *)
(***************************************************************************)
ExpiredIsJustified ==
    \A r \in Records : row[r].status = "EXPIRED" =>
        clock = "late" \/ \E e \in events : e.rec = r /\ e.status = "EXPIRED"

(***************************************************************************)
(* A confirmation link is burnt only after the report it carries reached   *)
(* the record, also when a handler dies half-way (confirmPayment).         *)
(***************************************************************************)
TokenBurntAfterReport == used \subseteq reported

(***************************************************************************)
(* Violated.  "Verify status updated to PAID": payments/README.md and the  *)
(* end-to-end test expect a confirmation link that was used to have paid   *)
(* its record, while the code leaves it to its host's review               *)
(* (confirmPayment).                                                       *)
(***************************************************************************)
ConfirmedIsPaid == \A r \in used : Paid(r)

(***************************************************************************)
(* A COMPLETED period stands for authorised payments of all its records,   *)
(* though updateCycleStatus judges the records some time before it writes. *)
(***************************************************************************)
CompletedIsBacked == period = "COMPLETED" => \A r \in Records : Authorised(r)

(***************************************************************************)
(* A period is OVERDUE only past its due date, and once it has left        *)
(* UPCOMING, where membership changes rewrite its records, it never        *)
(* returns there (updateCycleStatus).                                      *)
(***************************************************************************)
PeriodMoves ==
    [][/\ period # "UPCOMING" => period' # "UPCOMING"
       /\ period' = "OVERDUE" => clock' # "open"]_<<period, clock>>

------------------------------------------------------------------------------
(* The inductive invariant: what the properties above need of the          *)
(* snapshots and changes the handlers carry from one await to the next.    *)

\* Column by column, v is a version of record r that can be justified.  The
\* columns are judged one at a time because an UPDATE mixes two versions.
Backed(v, r) ==
    /\ v.status = "PAID" => Authorised(r)
    /\ v.status = "EXPIRED" =>
          clock = "late" \/ \E e \in events : e.rec = r /\ e.status = "EXPIRED"
    /\ v.confirmedBy = "SYSTEM_WEBHOOK" => Settled(r)
    /\ v.amountPaid # Null => r \in hostAsked /\ v.amountPaid \in dues[r]
    /\ v.gatewayTransactionId # Null =>
          \E e \in events : e.rec = r /\ e.tx = v.gatewayTransactionId
    /\ v.gatewayReferenceId \in {r, SnapToken, Null}

\* Moreover, v is what the row holds or once held.
Read(v, r) ==
    /\ v.amountDue \in dues[r]
    /\ v.status = "PENDING_HOST_REVIEW" => r \in reported

RowInv(r) == Backed(row[r], r) /\ Read(row[r], r)

CycleInv(p) ==
    /\ p = "COMPLETED" => \A r \in Records : Authorised(r)
    /\ p = "OVERDUE" => clock # "open"

RecordPCs == {"read", "seen", "gateway", "linked", "update", "found", "write", "burn"}

MemberPCs == {"softDelete", "restore", "activate", "revive"}

\* A link is burnt after the save of a report: the row holds the report when
\* the UPDATE writes the status, and held it when the UPDATE leaves it out.
BurnInv(s) ==
    /\ s.pc \in {"update", "found", "write"} /\ s.next = "burn" =>
          s.data.status = "PENDING_HOST_REVIEW"
    /\ s.pc = "update" /\ s.next = "burn" => "status" \in s.fields
    /\ s.pc = "write" /\ s.next = "burn" /\ "status" \notin s.fields => s.rec \in reported
    /\ s.pc = "burn" => s.rec \in reported

SlotInv(s) ==
    /\ s.pc \in RecordPCs => s.rec \in Records
    /\ s.pc = "read" => s.op \notin PaidOperations
    /\ s.op \in MemberOperations => s.job.member \in Records
    /\ s.pc \in MemberPCs => s.op \in MemberOperations
    /\ s.pc = "softDelete" => s.job.member # HostRecord
    /\ s.rec \in Records => Backed(s.data, s.rec)
    /\ s.pc \in {"seen", "gateway", "linked"} => Read(s.data, s.rec)
    /\ s.pc = "seen" /\ s.op \in PaidOperations /\ s.actor = "host" => s.rec \in hostAsked
    /\ BurnInv(s)
    /\ CycleInv(s.cycle)
    /\ s.pc \in {"cycleLoad", "cycleWrite"} => s.cycle # "UPCOMING"

(***************************************************************************)
(* IInv is preserved by every step on its own, and implies the safety      *)
(* properties above: every snapshot, pending change and period judgement   *)
(* in a slot is as justified as the row it may be written to.              *)
(***************************************************************************)
IInv ==
    /\ TypeOK
    /\ \A r \in Records : RowInv(r)
    /\ \A q \in Slots : SlotInv(req[q])
    /\ CycleInv(period)
    /\ used \subseteq reported
    /\ HostRecord \in Active
==============================================================================
