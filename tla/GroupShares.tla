------------------------------ MODULE GroupShares ------------------------------
(***************************************************************************)
(* What the members of a group owe: the share columns as addMember,        *)
(* updateMember, removeMember and updateGroup leave them, the amounts      *)
(* calculateShares bills for the four split methods, and the records of    *)
(* the next period, which membership changes keep in step.  Handlers are   *)
(* one step each; PaymentRecords takes the recalculation apart.            *)
(*                                                                         *)
(* Amounts are cents, percentages are hundredths of a percent.             *)
(***************************************************************************)
EXTENDS Integers, FiniteSetsExt

CONSTANTS
    N,              \* how many ever join
    Methods,        \* the split methods in use
    Totals,         \* what a subscription may cost
    Entered,        \* amounts a host may enter
    Percentages,    \* percentages a host may enter
    MAX_MEMBERS,
    Null,
    MaxEdits        \* bound: operations of the host

ASSUME SharesAssumption ==
    /\ N \in Nat \ {0}
    /\ Methods \subseteq {"EQUAL", "CUSTOM_PERCENTAGE", "CUSTOM_NOMINAL", "PRO_RATA"}
    /\ Totals \subseteq Nat \ {0} /\ Entered \subseteq Nat /\ Percentages \subseteq 0..10000
    /\ MAX_MEMBERS \in Nat /\ MaxEdits \in Nat /\ Null \notin Int

VARIABLES
    method, total,  \* groups.split_method, total_amount
    status,         \* group_members.status; a removed member is soft-deleted
    amount,         \* group_members.share_amount
    pct,            \* group_members.share_percentage
    period,         \* status of the current period, if there is one
    due,            \* amount_due of its records; Null is no record
    moved,          \* the members whose record in it is not PENDING
    edited,         \* history: shares or cost were edited since the last recalculation
    passed,         \* history: whose record the last recalculation left as it was
    edits

vars == <<method, total, status, amount, pct, period, due, moved, edited, passed, edits>>

\* The members are numbered in the order of joining.
Members == 1..N
Host == 1
Active == {m \in Members : status[m] = "ACTIVE"}
First(S) == Min(S)
Added(f, S) == MapThenSumSet(LAMBDA m : f[m], S)

------------------------------------------------------------------------------
(* SplitCalculationService, for the active members S in the order of joining. *)

\* Mutant: what the divisions leave over is given to nobody.
WithRemainder_Lost(raw, cost, S, m) == raw

\* Shares rounded down; what is left over, or too much, is member m's.
WithRemainder(raw, cost, S, m) == [raw EXCEPT ![m] = @ + cost - Added(raw, S)]

Largest(f, S) == First({m \in S : \A other \in S : f[other] <= f[m]})

calculateEqual(cost, S) ==
    WithRemainder([m \in S |-> cost \div Cardinality(S)], cost, S, First(S))

\* Called without a period: it begins now, so that nobody has joined after it, and
\* every member is active for all its days.
calculateProRata(cost, S, days) ==
    LET activeDays == [m \in S |-> days]
    IN  WithRemainder([m \in S |-> (cost * activeDays[m]) \div Added(activeDays, S)],
                      cost, S, Largest(activeDays, S))

Percentage(m) == IF pct[m] = Null THEN 0 ELSE pct[m]

\* One hundredth too much or too little is within the tolerance or not, as the
\* floating-point sum has it.
PercentAccepted(S, lenient) ==
    LET sum == Added([m \in S |-> Percentage(m)], S)
    IN  sum = 10000 \/ (lenient /\ sum \in 9999..10001)

\* A product that is a whole number of cents may come out just below it.
calculateCustomPercent(cost, S, below) ==
    LET percentages == [m \in S |-> Percentage(m)]
        Raw(m) == (cost * percentages[m]) \div 10000
                  - (IF m \in below /\ (cost * percentages[m]) % 10000 = 0
                        /\ percentages[m] > 0 THEN 1 ELSE 0)
    IN  WithRemainder([m \in S |-> Raw(m)], cost, S, Largest(percentages, S))

TOLERANCE == 1

NominalAccepted(cost, S) ==
    LET sum == Added(amount, S)
    IN  sum - cost \in -(TOLERANCE * 100)..(TOLERANCE * 100)

\* What the method of the group may come to; nothing when it refuses the columns.
Split ==
    CASE method = "EQUAL"             -> {calculateEqual(total, Active)}
      [] method = "PRO_RATA"          -> {calculateProRata(total, Active, d) : d \in 28..31}
      [] method = "CUSTOM_PERCENTAGE" ->
            {calculateCustomPercent(total, Active, below) :
                below \in IF \E lenient \in BOOLEAN : PercentAccepted(Active, lenient)
                          THEN SUBSET Active ELSE {}}
      [] method = "CUSTOM_NOMINAL"    ->
            IF NominalAccepted(total, Active) THEN {[m \in Active |-> amount[m]]} ELSE {}

\* assertInvariant
AddsUp(shares) == Added(shares, Active) = total

\* calculateShares, if it returns
calculateShares == {shares \in Split : AddsUp(shares)}

\* validateBeforeAdd
ValidBeforeAdd(share) == method = "CUSTOM_NOMINAL" => share <= total

------------------------------------------------------------------------------
(* MembersService, GroupsService, BillingCycleService. *)

Init ==
    /\ method \in Methods /\ total \in Totals
    /\ status = [m \in Members |-> IF m = Host THEN "ACTIVE" ELSE "NONE"]
    /\ amount = [m \in Members |-> IF m = Host /\ method = "EQUAL" THEN total ELSE 0]
    /\ pct = [m \in Members |-> Null]
    /\ period = "NONE"
    /\ due = [m \in Members |-> Null]
    /\ moved = {}
    /\ edited = FALSE /\ passed = {}
    /\ edits = 0

Edit == edits < MaxEdits /\ edits' = edits + 1

\* recalculateEqualShares of the columns c and the records d when S is active
Recalculated(c, S) == [m \in Members |-> IF m \in S THEN calculateEqual(total, S)[m] ELSE c[m]]

\* Mutant: the records of the period are forgotten.
Synced_Not(d, S) == d

\* Only records that are PENDING still follow.
Synced(d, S) ==
    [m \in Members |-> IF period = "UPCOMING" /\ m \in S /\ d[m] # Null /\ m \notin moved
                       THEN calculateEqual(total, S)[m] ELSE d[m]]

PassedOver(S) == IF period = "UPCOMING" THEN S \cap moved ELSE passed

CurrentCount == Cardinality(Active) + 1

\* A new member's own share, from totalCost * 100: a cost that is not in whole
\* rupiah may come out just below its cents, and an exact division a cent lower.
NewShares ==
    LET n == CurrentCount
        exact == total \div n
    IN  {exact} \cup (IF total % 100 # 0 /\ total % n = 0 THEN {exact - 1} ELSE {})

\* addMember, of a new email or of a member that was removed.  The record
\* of a revived member is PENDING again.
AddMember(m, share, percentage) ==
    LET S == Active \cup {m}
        Record(d) == [d EXCEPT ![m] = IF period = "UPCOMING" THEN share ELSE @]
    IN  /\ Edit
        /\ m \notin Active /\ Cardinality(Active) < MAX_MEMBERS
        /\ status[m] = "NONE" => \A other \in Members : other < m => status[other] # "NONE"
        /\ status' = [status EXCEPT ![m] = "ACTIVE"]
        /\ IF method = "EQUAL"
             THEN /\ share \in NewShares /\ percentage = Null
                  /\ amount' = Recalculated(amount, S)
                  /\ due' = Record(Synced(due, S))
                  /\ edited' = FALSE /\ passed' = PassedOver(S) \ {m}
             ELSE /\ share \in Entered \cup {0} /\ ValidBeforeAdd(share)
                  /\ amount' = [amount EXCEPT ![m] = share]
                  /\ due' = Record(due)
                  /\ edited' = TRUE /\ UNCHANGED passed
        /\ pct' = [pct EXCEPT ![m] = percentage]
        /\ moved' = IF period = "UPCOMING" THEN moved \ {m} ELSE moved
        /\ UNCHANGED <<method, total, period>>

\* updateMember by the host, of either share, whatever the method
UpdateMember(m) ==
    /\ Edit /\ m \in Active
    /\ \/ amount' \in {[amount EXCEPT ![m] = a] : a \in Entered} /\ UNCHANGED pct
       \/ pct' \in {[pct EXCEPT ![m] = p] : p \in Percentages} /\ UNCHANGED amount
    /\ edited' = TRUE
    /\ UNCHANGED <<method, total, status, period, due, moved, passed>>

\* Mutant: the shares of those who stay are left as they are.
RemoveMember_Kept(m) ==
    /\ Edit /\ m \in Active \ {Host}
    /\ status' = [status EXCEPT ![m] = "REMOVED"]
    /\ edited' = (edited /\ method # "EQUAL")
    /\ UNCHANGED <<method, total, amount, pct, period, due, moved, passed>>

\* removeMember; the member's own record stays
RemoveMember(m) ==
    LET S == Active \ {m}
    IN  /\ Edit /\ m \in Active \ {Host}
        /\ status' = [status EXCEPT ![m] = "REMOVED"]
        /\ IF method = "EQUAL"
             THEN /\ amount' = Recalculated(amount, S) /\ due' = Synced(due, S)
                  /\ edited' = FALSE /\ passed' = PassedOver(S)
             ELSE UNCHANGED <<amount, due, edited, passed>>
        /\ UNCHANGED <<method, total, pct, period, moved>>

\* updateGroup; the method only while there is no current period
UpdateGroup(to, cost) ==
    /\ Edit
    /\ <<to, cost>> # <<method, total>>
    /\ to # method => period = "NONE"
    /\ method' = to /\ total' = cost
    /\ edited' = TRUE
    /\ UNCHANGED <<status, amount, pct, period, due, moved, passed>>

\* generateNextCycle; the period stays without records when the split is refused
GenerateNextCycle ==
    /\ period = "NONE"
    /\ period' = "UPCOMING"
    /\ IF calculateShares = {} THEN UNCHANGED due
       ELSE \E shares \in calculateShares :
                due' = [m \in Members |-> IF m \in Active THEN shares[m] ELSE Null]
    /\ moved' = {} /\ passed' = {}
    /\ UNCHANGED <<method, total, status, amount, pct, edited, edits>>

\* A report, a link, a waiver, the end of the grace days, a webhook: the record leaves
\* PENDING, and no period is judged.
RecordMoves(m) ==
    /\ period = "UPCOMING" /\ due[m] # Null /\ m \notin moved
    /\ moved' = moved \cup {m}
    /\ UNCHANGED <<method, total, status, amount, pct, period, due, edited, passed, edits>>

\* reviewPayment: a report is rejected
RecordReopens(m) ==
    /\ period = "UPCOMING" /\ m \in moved \cap Active
    /\ moved' = moved \ {m}
    /\ UNCHANGED <<method, total, status, amount, pct, period, due, edited, passed, edits>>

\* hostMarkPaid or reviewPayment, and updateCycleStatus: the period is opened, or it is
\* over, COMPLETED or OVERDUE.
HostSettles(m) ==
    /\ m \in Active /\ due[m] # Null
    /\ \/ /\ \E other \in Members \ {m} : due[other] # Null
          /\ period' = "ACTIVE" /\ moved' = moved \cup {m} /\ UNCHANGED <<due, passed>>
       \/ /\ period' = "NONE" /\ due' = [other \in Members |-> Null]
          /\ moved' = {} /\ passed' = {}
    /\ UNCHANGED <<method, total, status, amount, pct, edited, edits>>

Next ==
    \/ \E m \in Members :
          \/ \E share \in NewShares \cup Entered \cup {0}, percentage \in Percentages \cup {Null} :
                AddMember(m, share, percentage)
          \/ UpdateMember(m) \/ RemoveMember(m)
          \/ RecordMoves(m) \/ RecordReopens(m) \/ HostSettles(m)
    \/ \E to \in Methods, cost \in Totals : UpdateGroup(to, cost)
    \/ GenerateNextCycle

Spec == Init /\ [][Next]_vars

------------------------------------------------------------------------------
(***************************************************************************)
(* "CRITICAL: Sum of all shares MUST equal totalCost."  Whatever columns   *)
(* the host leaves behind, a split that is not refused adds up to the      *)
(* cent, except for the nominal one, whose own tolerance lets a difference *)
(* of up to a rupiah through to assertInvariant; and nobody is charged a   *)
(* negative amount (calculateShares).                                      *)
(***************************************************************************)
SplitsAddUp ==
    \A shares \in Split :
        /\ method # "CUSTOM_NOMINAL" => AddsUp(shares)
        /\ \A m \in Active : shares[m] >= 0

(***************************************************************************)
(* The shares the members of an EQUAL group are shown are those the next   *)
(* generation bills, unless the host edited the cost or a share since the  *)
(* last change of membership (recalculateEqualShares, calculateEqual).     *)
(***************************************************************************)
ShownIsBilled ==
    method = "EQUAL" /\ ~edited =>
        calculateShares = {[m \in Active |-> amount[m]]}

\* What the records ask for, those passed over counted at what their members owe now.
Owed == [m \in Members |-> IF m \in passed THEN amount[m] ELSE due[m]]

(***************************************************************************)
(* In an upcoming period of an EQUAL group every active member has a       *)
(* record, and these add up to the cost however members join, leave and    *)
(* return, if the records a recalculation passed over, because they were   *)
(* no longer PENDING, are counted at what their members owe now; of a cost *)
(* that is not in whole rupiah at most one cent is missing.  With none     *)
(* passed over it is the amounts themselves that add up (addMember,        *)
(* removeMember, recalculateEqualShares).                                  *)
(***************************************************************************)
UpcomingAddsUp ==
    method = "EQUAL" /\ ~edited /\ period = "UPCOMING" =>
        /\ \A m \in Active : due[m] # Null
        /\ LET missing == total - Added(Owed, Active)
           IN  IF total % 100 = 0 THEN missing = 0 ELSE missing \in 0..1
==============================================================================
