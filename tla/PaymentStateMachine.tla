------------------------- MODULE PaymentStateMachine -------------------------
(***************************************************************************)
(* The status values of a payment record and the two transition tables of  *)
(* the code: the one PaymentsService guards its handlers with, and the one *)
(* WebhooksService looks gateway events up in.  No state of its own.       *)
(***************************************************************************)

PaymentStatus ==
    {"PENDING", "AWAITING_GATEWAY", "PAID", "FAILED", "EXPIRED",
     "PENDING_HOST_REVIEW", "REFUNDED"}

PeriodStatus == {"UPCOMING", "ACTIVE", "OVERDUE", "COMPLETED"}

\* NormalizedWebhookEvent['status'].
GatewayStatus == {"PENDING", "PAID", "FAILED", "EXPIRED"}

\* PaymentsService.transitionMap.
transitionMap ==
    [PENDING             |-> {"AWAITING_GATEWAY", "PENDING_HOST_REVIEW", "PAID", "FAILED"},
     AWAITING_GATEWAY    |-> {"PAID", "FAILED", "EXPIRED", "AWAITING_GATEWAY"},
     PAID                |-> {"REFUNDED", "PAID"},
     FAILED              |-> {"FAILED"},
     EXPIRED             |-> {"EXPIRED"},
     PENDING_HOST_REVIEW |-> {"PAID", "PENDING", "FAILED"},
     REFUNDED            |-> {"REFUNDED"}]

\* PaymentsService.ensureTransition, as the condition under which it returns.
ensureTransition(from, to) == to \in transitionMap[from]

(***************************************************************************)
(* WebhooksService.webhookTransitionMap as the triples it contains.  It is *)
(* a partial map: a pair that occurs in no triple is the Conflict the      *)
(* service throws.                                                         *)
(***************************************************************************)
webhookTransitionMap ==
    {[from |-> "AWAITING_GATEWAY", event |-> "PAID",    to |-> "PAID"],
     [from |-> "AWAITING_GATEWAY", event |-> "FAILED",  to |-> "FAILED"],
     [from |-> "AWAITING_GATEWAY", event |-> "EXPIRED", to |-> "EXPIRED"],
     [from |-> "AWAITING_GATEWAY", event |-> "PENDING", to |-> "AWAITING_GATEWAY"],
     [from |-> "PAID",    event |-> "PAID",    to |-> "PAID"],
     [from |-> "FAILED",  event |-> "FAILED",  to |-> "FAILED"],
     [from |-> "EXPIRED", event |-> "EXPIRED", to |-> "EXPIRED"]}

==============================================================================
