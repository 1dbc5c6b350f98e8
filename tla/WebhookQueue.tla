----------------------------- MODULE WebhookQueue -----------------------------
(***************************************************************************)
(* How a report of the payment gateway reaches a payment record: the       *)
(* controller logs and enqueues it, a worker looks the record up by the    *)
(* reference createGatewayPaymentLink stored, and applies the report in a  *)
(* transaction, with five attempts.  Meanwhile the handlers that change    *)
(* the record through BaseRepository.update find it, load it once more and *)
(* write the columns that differ.                                          *)
(***************************************************************************)
EXTENDS PaymentStateMachine, Integers, Sequences

CONSTANTS
    Records,        \* payment records
    Handlers,       \* the other handlers of the records that may be in flight
    Provider,       \* "XENDIT" or "MIDTRANS"
    SnapToken,      \* the token Midtrans answers with
    Amounts,        \* what a record may have due, in rupiah
    Outcomes,       \* the statuses the gateway reports, in its own words
    Attempts,       \* attempts of a job of payment-webhook-queue
    Null,
    MaxInvoices, MaxReports, MaxChanges, MaxFailures

ASSUME WebhookAssumptions ==
    /\ Attempts \in Nat \ {0}
    /\ MaxInvoices \in Nat /\ MaxReports \in Nat /\ MaxChanges \in Nat /\ MaxFailures \in Nat
    /\ SnapToken \notin Records /\ Null \notin Records \cup Nat \cup Outcomes \cup {SnapToken}

VARIABLES
    row,        \* payment_records: status, amount, reference, transaction
    call,       \* the other handlers in flight
    invoice,    \* the gateway's invoices
    log,        \* payment_webhook_logs, each row with its job
    undone,     \* history: processed reports whose record was written back
    alerts,     \* overdue alerts enqueued for a mismatch, per log row
    changes,    \* decisions of the host and changes of shares so far
    failures

vars == <<row, call, invoice, log, undone, alerts, changes, failures>>

\* The invoices are numbered; the number is also the transaction id.
Invoices == 1..MaxInvoices

Columns == {"status", "due", "ref", "tx"}

Row == [status : PaymentStatus, due : Amounts,
        ref : Records \cup {SnapToken, Null}, tx : Invoices \cup {Null}]

Invoice == [record : Records, amount : Amounts, outcome : Outcomes \cup {Null}]

Log == [invoice : Invoices, outcome : Outcomes, processed : BOOLEAN,
        at : {"refused", "waiting", "alerting", "committing", "committed", "failed"},
        left : 0..Attempts, stalled : BOOLEAN]

\* The entity is the row as a handler has read it, then with its assignments;
\* cols are the columns assigned, then those to be written.
Call == [at : {"idle", "asked", "answered", "update", "found", "write"},
         record : Records \cup {Null}, entity : Row \cup {Null}, cols : SUBSET Columns,
         stale : BOOLEAN]       \* history: a report was committed since the row was found

NoCall == [at |-> "idle", record |-> Null, entity |-> Null, cols |-> {}, stale |-> FALSE]

Init ==
    /\ row \in [Records -> {[status |-> "PENDING", due |-> a, ref |-> Null, tx |-> Null] :
                              a \in Amounts}]
    /\ call = [h \in Handlers |-> NoCall]
    /\ invoice = <<>>
    /\ log = <<>>
    /\ undone = {}
    /\ alerts = [l \in 1..MaxReports |-> 0]
    /\ changes = 0
    /\ failures = 0

CanFail == failures < MaxFailures /\ failures' = failures + 1

------------------------------------------------------------------------------
(* The two gateways. *)

\* The status of parseWebhookPayload; a capture the fraud check holds back is
\* one of the others.
ParsedStatus(outcome) ==
    CASE outcome \in {"PAID", "SETTLED", "settlement", "capture"}     -> "PAID"
      [] outcome \in {"EXPIRED", "expire"}                            -> "EXPIRED"
      [] outcome \in {"FAILED", "deny", "cancel", "failure"}          -> "FAILED"
      [] OTHER                                                        -> "PENDING"

\* gatewayReferenceId as createPaymentLink returns it and as a report names it:
\* the external_id, or the Snap token and the order_id.
StoredReference(r) == IF Provider = "XENDIT" THEN r ELSE SnapToken
ReportedReference(i) == invoice[i].record

\* The gateway's side of createPaymentLink.
OpenInvoice(h) ==
    /\ call[h].at = "asked" /\ Len(invoice) < MaxInvoices
    /\ invoice' = Append(invoice, [record |-> call[h].record, amount |-> call[h].entity.due,
                                   outcome |-> Null])
    /\ call' = [call EXCEPT ![h].at = "answered"]
    /\ UNCHANGED <<row, log, undone, alerts, changes, failures>>

\* An invoice comes to an end, after which a payment may still be settled.
InvoiceMoves(i, outcome) ==
    /\ \/ invoice[i].outcome = Null \/ ParsedStatus(invoice[i].outcome) = "PENDING"
       \/ invoice[i].outcome = "PAID" /\ outcome = "SETTLED"
    /\ invoice' = [invoice EXCEPT ![i].outcome = outcome]
    /\ UNCHANGED <<row, call, log, undone, alerts, changes, failures>>

------------------------------------------------------------------------------
(* The other handlers of the record. *)

\* A transaction holds the row lock from its SELECT to its end.
Locked(r) ==
    \E l \in DOMAIN log :
        log[l].at \in {"alerting", "committing"} /\ row[r].ref = ReportedReference(log[l].invoice)

Begin(h, at, r, entity, cols) ==
    /\ call[h].at = "idle"
    /\ call' = [call EXCEPT ![h] = [at |-> at, record |-> r, entity |-> entity, cols |-> cols,
                                    stale |-> FALSE]]
    /\ UNCHANGED <<row, invoice, log, undone, alerts, failures>>

\* createGatewayPaymentLink up to its call of the gateway
AskForLink(h, r) == Begin(h, "asked", r, row[r], {}) /\ UNCHANGED changes

\* The gateway's answer, and the transition check on the old reading.
StoreLink(h) ==
    LET seen == call[h].entity  r == call[h].record
    IN  /\ call[h].at = "answered"
        /\ call' = [call EXCEPT ![h] =
               IF ensureTransition(seen.status, "AWAITING_GATEWAY")
                 THEN [@ EXCEPT !.at = "update", !.cols = {"status", "ref"},
                                !.entity = [seen EXCEPT !.status = "AWAITING_GATEWAY",
                                                        !.ref = StoredReference(r)]]
                 ELSE NoCall]
        /\ UNCHANGED <<row, invoice, log, undone, alerts, changes, failures>>

Changes == changes < MaxChanges /\ changes' = changes + 1

\* hostMarkPaid, waivePayment
HostSettles(h, r, to) ==
    /\ to \in IF row[r].status = "PAID" THEN {"REFUNDED"} ELSE {"PAID", "FAILED"}
    /\ ensureTransition(row[r].status, to) /\ Changes
    /\ Begin(h, "update", r, [row[r] EXCEPT !.status = to], {"status"})

\* recalculateEqualShares
ChangeShare(h, r, a) ==
    /\ row[r].status = "PENDING" /\ Changes
    /\ Begin(h, "update", r, [row[r] EXCEPT !.due = a], {"due"})

\* addMember: the record of a member who comes back
ReviveRecord(h, r, a) ==
    /\ Changes
    /\ Begin(h, "update", r, [row[r] EXCEPT !.status = "PENDING", !.due = a], {"status", "due"})

\* BaseRepository.update: find, and Object.assign
Assign(old, new, cols) ==
    LET Pick(c) == IF c \in cols THEN new ELSE old
    IN  [status |-> Pick("status").status, due |-> Pick("due").due,
         ref |-> Pick("ref").ref, tx |-> Pick("tx").tx]

UpdateFind(h) ==
    /\ call[h].at = "update"
    /\ call' = [call EXCEPT ![h].at = "found",
                            ![h].entity = Assign(row[call[h].record], @, call[h].cols)]
    /\ UNCHANGED <<row, invoice, log, undone, alerts, changes, failures>>

\* save() loads the row and compares; an amount assigned is never the text of one read.
SaveLoad(h) ==
    /\ call[h].at = "found"
    /\ call' = [call EXCEPT ![h].at = "write",
                            ![h].cols = {c \in Columns :
                                            \/ call[h].entity[c] # row[call[h].record][c]
                                            \/ c = "due" /\ c \in @}]
    /\ UNCHANGED <<row, invoice, log, undone, alerts, changes, failures>>

\* The UPDATE waits for the lock.
SaveWrite(h) ==
    LET r == call[h].record
    IN  /\ call[h].at = "write"
        /\ call[h].cols # {} => ~Locked(r)
        /\ row' = [row EXCEPT ![r] = Assign(@, call[h].entity, call[h].cols)]
        /\ undone' = IF call[h].stale /\ "tx" \in call[h].cols
                     THEN undone \cup {l \in DOMAIN log : /\ log[l].processed
                                                         /\ invoice[log[l].invoice].record = r}
                     ELSE undone
        /\ call' = [call EXCEPT ![h] = NoCall]
        /\ UNCHANGED <<invoice, log, alerts, changes, failures>>

\* A call is refused, its answer lost, or the process dies.
CallFails(h) ==
    /\ call[h].at # "idle" /\ CanFail
    /\ call' = [call EXCEPT ![h] = NoCall]
    /\ UNCHANGED <<row, invoice, log, undone, alerts, changes>>

------------------------------------------------------------------------------
(* WebhooksController. *)

\* A report of invoice i is logged, and from then on in state at.
Logged(i, at) ==
    /\ invoice[i].outcome # Null /\ Len(log) < MaxReports
    /\ log' = Append(log, [invoice |-> i, outcome |-> invoice[i].outcome, processed |-> FALSE,
                           at |-> at, left |-> Attempts, stalled |-> FALSE])
    /\ UNCHANGED <<row, call, invoice, undone, alerts, changes>>

\* handleGatewayWebhook; a report whose signature is not valid is only logged.
Receive(i, signatureValid) ==
    /\ Logged(i, IF signatureValid THEN "waiting" ELSE "refused")
    /\ UNCHANGED failures

\* Redis refuses the job of a logged report: the gateway gets an error and may
\* report again.
EnqueueFails(i) == CanFail /\ Logged(i, "refused")

------------------------------------------------------------------------------
(* WebhooksWorker. *)

\* Mutant: the job has one attempt, as those of the cron have.
Thrown_Final(j) == [j EXCEPT !.left = @ - 1, !.at = "failed"]

\* An attempt that throws; the backoff is any delay.
Thrown(j) ==
    [j EXCEPT !.left = @ - 1, !.at = IF j.left = 1 THEN "failed" ELSE "waiting"]

AmountDiffers(l, r) == row[r].due # invoice[log[l].invoice].amount

\* Mutant: the transaction is not looked at.
OtherTransaction_Ignored(l, r) == row[r].tx \notin Invoices \cup {Null}

OtherTransaction(l, r) == row[r].tx \notin {Null, log[l].invoice}

NextStatus(l, r) ==
    {to \in PaymentStatus :
        [from |-> row[r].status, event |-> ParsedStatus(log[l].outcome), to |-> to]
            \in webhookTransitionMap}

\* processWebhook: the lookup under lock, and its checks in their order
Decide(l, r) ==
    IF OtherTransaction(l, r) THEN Thrown(log[l])
    ELSE IF AmountDiffers(l, r) THEN [log[l] EXCEPT !.at = "alerting"]
    ELSE IF NextStatus(l, r) = {} THEN Thrown(log[l])
    ELSE [log[l] EXCEPT !.at = "committing"]

Attempt(l) ==
    LET found == {r \in Records : row[r].ref = ReportedReference(log[l].invoice)}
    IN  /\ log[l].at = "waiting"
        /\ IF found = {}
             THEN log' = [log EXCEPT ![l] = Thrown(@)]
             ELSE \E r \in found : ~Locked(r) /\ log' = [log EXCEPT ![l] = Decide(l, r)]
        /\ UNCHANGED <<row, call, invoice, undone, alerts, changes, failures>>

\* notifyAmountMismatch, inside the transaction; not for a member who has left
Alert(l) ==
    /\ log[l].at = "alerting"
    /\ log' = [log EXCEPT ![l].at = "committing"]
    /\ alerts' \in {alerts, [alerts EXCEPT ![l] = @ + 1]}
    /\ UNCHANGED <<row, call, invoice, undone, changes, failures>>

\* Those who have found the row before will not see what is written to it.
Overtaken(r) ==
    call' = [h \in Handlers |->
               IF call[h].record = r /\ call[h].at \in {"found", "write"}
                 THEN [call[h] EXCEPT !.stale = TRUE] ELSE call[h]]

\* Mutant: an error after the commit has the job done again.
Commit_Again(l) ==
    /\ log[l].at = "committing"
    /\ \E r \in Records :
          /\ row[r].ref = ReportedReference(log[l].invoice)
          /\ row' = [row EXCEPT ![r].tx = log[l].invoice,
                                ![r].status = IF AmountDiffers(l, r) THEN "FAILED"
                                              ELSE CHOOSE to \in NextStatus(l, r) : TRUE]
          /\ Overtaken(r)
    /\ log' = [log EXCEPT ![l] = [Thrown(@) EXCEPT !.processed = TRUE]]
    /\ undone' = undone \ {l}
    /\ UNCHANGED <<invoice, alerts, changes, failures>>

Commit(l) ==
    /\ log[l].at = "committing"
    /\ \E r \in Records :
          /\ row[r].ref = ReportedReference(log[l].invoice)
          /\ row' = [row EXCEPT ![r].tx = log[l].invoice,
                                ![r].status = IF AmountDiffers(l, r) THEN "FAILED"
                                              ELSE CHOOSE to \in NextStatus(l, r) : TRUE]
          /\ Overtaken(r)
    /\ log' = [log EXCEPT ![l].at = "committed", ![l].processed = TRUE]
    /\ undone' = undone \ {l}
    /\ UNCHANGED <<invoice, alerts, changes, failures>>

\* The database or Redis rejects a call of the transaction, which is rolled back.
AttemptFails(l) ==
    /\ log[l].at \in {"waiting", "alerting", "committing"} /\ CanFail
    /\ log' = [log EXCEPT ![l] = Thrown(@)]
    /\ UNCHANGED <<row, call, invoice, undone, alerts, changes>>

\* The worker dies; BullMQ gives the job out again, once, at no attempt's cost.
JobStalls(l) ==
    /\ log[l].at \in {"alerting", "committing", "committed"} /\ CanFail
    /\ log' = [log EXCEPT ![l].at = IF log[l].stalled THEN "failed" ELSE "waiting",
                          ![l].stalled = TRUE]
    /\ UNCHANGED <<row, call, invoice, undone, alerts, changes>>

Work(l) == Attempt(l) \/ Alert(l) \/ Commit(l)

Next ==
    \/ \E h \in Handlers :
          \/ \E r \in Records :
                \/ AskForLink(h, r)
                \/ \E to \in PaymentStatus : HostSettles(h, r, to)
                \/ \E a \in Amounts : ChangeShare(h, r, a) \/ ReviveRecord(h, r, a)
          \/ OpenInvoice(h) \/ StoreLink(h)
          \/ UpdateFind(h) \/ SaveLoad(h) \/ SaveWrite(h) \/ CallFails(h)
    \/ \E i \in DOMAIN invoice :
          \/ \E outcome \in Outcomes : InvoiceMoves(i, outcome)
          \/ \E signatureValid \in BOOLEAN : Receive(i, signatureValid)
          \/ EnqueueFails(i)
    \/ \E l \in DOMAIN log : Work(l) \/ AttemptFails(l) \/ JobStalls(l)

Spec == Init /\ [][Next]_vars

\* BullMQ hands out what waits, and a handler that is called runs on.
Fairness == \A l \in 1..MaxReports : WF_vars(l \in DOMAIN log /\ Work(l))

FairSpec == Spec /\ Fairness

------------------------------------------------------------------------------
TypeOK ==
    /\ row \in [Records -> Row]
    /\ call \in [Handlers -> Call]
    /\ invoice \in Seq(Invoice) /\ Len(invoice) <= MaxInvoices
    /\ log \in Seq(Log) /\ Len(log) <= MaxReports
    /\ undone \subseteq DOMAIN log
    /\ alerts \in [1..MaxReports -> Nat]
    /\ changes \in 0..MaxChanges /\ failures \in 0..MaxFailures

(***************************************************************************)
(* A report counts as processed only if its record has been bound to its   *)
(* transaction, and no later report of another invoice, repeated attempt   *)
(* or second link takes the record away from it.  Only an update() that    *)
(* had found the row before the report was committed can: it writes the    *)
(* transaction it has read back, and then another invoice's report may     *)
(* take the record (processWebhook, BaseRepository.update).                *)
(***************************************************************************)
ProcessedTookEffect ==
    \A l \in DOMAIN log :
        log[l].processed /\ l \notin undone =>
            row[invoice[log[l].invoice].record].tx = log[l].invoice

(***************************************************************************)
(* A mismatch is announced once per report, although the alert is enqueued *)
(* before the transaction commits and the job may be done again; only a    *)
(* failure in between can repeat it (notifyAmountMismatch).                *)
(***************************************************************************)
AlertedOncePerReport == \A l \in DOMAIN log : alerts[l] <= 1 + failures

(***************************************************************************)
(* A record that waits for the gateway and has its reference stored does   *)
(* not wait for ever once its payment has been reported: the attempts that *)
(* are left outlast the failures, unless the amount, the reference or the  *)
(* transaction of the record becomes another one (WebhooksController,      *)
(* processWebhook).                                                        *)
(***************************************************************************)
PaymentsAreRecorded ==
    \A l \in 1..MaxReports, i \in Invoices, r \in Records :
        LET Open == /\ i \in DOMAIN invoice /\ row[r].status = "AWAITING_GATEWAY"
                    /\ row[r].ref # Null /\ row[r].tx \in {Null, i} /\ row[r].due = invoice[i].amount
        IN  (/\ l \in DOMAIN log /\ log[l].at = "waiting" /\ log[l].left > MaxFailures
             /\ log[l].invoice = i /\ ParsedStatus(log[l].outcome) = "PAID"
             /\ invoice[i].record = r /\ Open) ~> ~Open

------------------------------------------------------------------------------
(* What the repository says of itself and the code does not keep. *)

(***************************************************************************)
(* "PENDING -> PAID (via confirm/host/webhook)" (payments/README.md:162)   *)
(* for a link made "via Midtrans/Xendit" (payments.controller.ts:166): a   *)
(* record does not wait for ever for a payment that has been reported.     *)
(***************************************************************************)
PaidViaWebhook ==
    \A l \in 1..MaxReports, r \in Records :
        (/\ l \in DOMAIN log /\ log[l].at = "waiting"
         /\ ParsedStatus(log[l].outcome) = "PAID"
         /\ ReportedReference(log[l].invoice) = r
         /\ row[r].status = "AWAITING_GATEWAY") ~> row[r].status # "AWAITING_GATEWAY"
==============================================================================
