--------------------------- MODULE PaymentLifecycle ---------------------------
(***************************************************************************)
(* What the payment handlers promise when each of them is one atomic step: *)
(* the life of a record, with who confirmed it, whether an amount was      *)
(* entered for it and whether it carries a payment date.  PaymentRecords   *)
(* is the same system with the handlers taken apart.                       *)
(***************************************************************************)
EXTENDS PaymentStateMachine

CONSTANTS Records, Null

VARIABLE record

Life == [status      : PaymentStatus,
         confirmedBy : {"SYSTEM_WEBHOOK", "MEMBER_SELF_REPORT", "HOST_MANUAL", Null},
         collected   : BOOLEAN,
         dated       : BOOLEAN]

Init ==
    record = [r \in Records |-> [status |-> "PENDING", confirmedBy |-> Null,
                                 collected |-> FALSE, dated |-> FALSE]]

\* A guarded handler: it moves the record along transitionMap.
Move(r, to) == ensureTransition(record[r].status, to)

\* confirmPayment, confirmManual
SelfReport(r) ==
    /\ Move(r, "PENDING_HOST_REVIEW")
    /\ record' = [record EXCEPT ![r].status = "PENDING_HOST_REVIEW",
                                ![r].confirmedBy = "MEMBER_SELF_REPORT"]

\* hostMarkPaid, reviewPayment(approve)
HostPaid(r) ==
    /\ Move(r, "PAID")
    /\ record' = [record EXCEPT ![r] = [status |-> "PAID", confirmedBy |-> "HOST_MANUAL",
                                        collected |-> TRUE, dated |-> TRUE]]

\* reviewPayment(reject)
Reject(r) ==
    /\ Move(r, "PENDING")
    /\ record' = [record EXCEPT ![r].status = "PENDING", ![r].dated = FALSE]

\* waivePayment of a record that is not paid, and of one that is
Waive(r) ==
    /\ record[r].status # "PAID"
    /\ Move(r, "FAILED")
    /\ record' = [record EXCEPT ![r].status = "FAILED", ![r].confirmedBy = "HOST_MANUAL"]

Refund(r) ==
    /\ Move(r, "REFUNDED")
    /\ record' = [record EXCEPT ![r].status = "REFUNDED", ![r].confirmedBy = "HOST_MANUAL"]

\* createGatewayPaymentLink
OpenLink(r) ==
    /\ Move(r, "AWAITING_GATEWAY")
    /\ record' = [record EXCEPT ![r].status = "AWAITING_GATEWAY"]

\* processWebhook, with the amount that is due and with another one
GatewayEvent(r, event, to) ==
    /\ [from |-> record[r].status, event |-> event, to |-> to] \in webhookTransitionMap
    /\ record' = [record EXCEPT
                    ![r].status = to,
                    ![r].dated = IF to = "PAID" THEN TRUE ELSE @,
                    ![r].confirmedBy = IF to = "PAID" THEN "SYSTEM_WEBHOOK" ELSE @]

GatewayMismatch(r) == record' = [record EXCEPT ![r].status = "FAILED"]

\* markOverdueAndAlert
Expire(r) ==
    /\ record[r].status = "PENDING"
    /\ record' = [record EXCEPT ![r].status = "EXPIRED"]

\* addMember of a removed member
Revive(r) == record' = [record EXCEPT ![r].status = "PENDING"]

Next ==
    \E r \in Records :
        \/ SelfReport(r) \/ HostPaid(r) \/ Reject(r) \/ Waive(r) \/ Refund(r)
        \/ OpenLink(r) \/ GatewayMismatch(r) \/ Expire(r) \/ Revive(r)
        \/ \E event \in GatewayStatus, to \in PaymentStatus : GatewayEvent(r, event, to)

Spec == Init /\ [][Next]_record

------------------------------------------------------------------------------
TypeOK == record \in [Records -> Life]

(***************************************************************************)
(* With atomic handlers the columns of a row agree: a PAID or REFUNDED     *)
(* record carries a payment date and a confirmation that is not the        *)
(* member's own (hostMarkPaid, reviewPayment, waivePayment).               *)
(***************************************************************************)
SettledIsDated ==
    \A r \in Records :
        record[r].status \in {"PAID", "REFUNDED"} =>
            record[r].dated /\ record[r].confirmedBy \in {"SYSTEM_WEBHOOK", "HOST_MANUAL"}

(***************************************************************************)
(* A record the host marked paid has its amount entered; one without an    *)
(* amount was paid through the gateway (amountPaid is never set by         *)
(* processWebhook).                                                        *)
(***************************************************************************)
HostPaidIsCollected ==
    \A r \in Records :
        record[r].status = "PAID" /\ record[r].confirmedBy = "HOST_MANUAL" =>
            record[r].collected

(***************************************************************************)
(* A settled record is not reopened: it leaves PAID only by a refund, a    *)
(* gateway mismatch or a revived membership, and a closed one moves only   *)
(* on the last two (transitionMap, webhookTransitionMap).                  *)
(***************************************************************************)
ClosedStaysClosed ==
    [][\A r \in Records :
          /\ record[r].status = "PAID" =>
                record'[r].status \in {"PAID", "REFUNDED", "FAILED", "PENDING"}
          /\ record[r].status \in {"FAILED", "EXPIRED", "REFUNDED"} =>
                record'[r].status \in {record[r].status, "FAILED", "PENDING"}]_record
==============================================================================
