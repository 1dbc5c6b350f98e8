---------------------------- MODULE PaymentSerial ----------------------------
(***************************************************************************)
(* PaymentRecords, with one handler at a time, against PaymentLifecycle.   *)
(***************************************************************************)
EXTENDS PaymentRecords

\* The columns of payment_records the lifecycle speaks of.
life ==
    [r \in Records |-> [status      |-> row[r].status,
                        confirmedBy |-> row[r].confirmedBy,
                        collected   |-> row[r].amountPaid # Null,
                        dated       |-> row[r].paidAt]]

Lifecycle == INSTANCE PaymentLifecycle WITH record <- life

\* No two handlers are in flight.
Serial == \A p, q \in Slots : p = q \/ At(p, "idle") \/ At(q, "idle")

\* Nor does a webhook write a record while one is.
SerialNext ==
    /\ Next
    /\ Serial'
    /\ UNCHANGED req /\ row' # row => \A q \in Slots : At(q, "idle")

SerialSpec == Init /\ [][SerialNext]_vars

(***************************************************************************)
(* While no two handlers overlap and no webhook arrives between the steps  *)
(* of one, a handler's database calls amount to the one atomic step of the *)
(* lifecycle, also when the handler dies half-way (BaseRepository.update): *)
(* what is proved of the lifecycle holds of the rows.                      *)
(***************************************************************************)
ImplementsLifecycle == Lifecycle!Spec

(***************************************************************************)
(* While no two handlers overlap and none fails, the period is COMPLETED   *)
(* once the host has settled all its records, in whatever order they were  *)
(* reported, approved, rejected, removed and revived (hostMarkPaid and     *)
(* reviewPayment end in updateCycleStatus).                                *)
(***************************************************************************)
SettledIsCompleted ==
    (/\ failures = 0
     /\ \A r \in Records : Paid(r) /\ row[r].confirmedBy = "HOST_MANUAL"
     /\ \A q \in Slots : At(q, "idle"))
        => period = "COMPLETED"
==============================================================================
