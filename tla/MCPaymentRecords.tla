--------------------------- MODULE MCPaymentRecords ---------------------------
EXTENDS PaymentRecords, TLC

HostOperations == {"confirmPayment", "confirmManual", "hostMarkPaid", "waivePayment",
                   "approve", "reject", "markOverdue"}
GatewayOperations == {"createGatewayPaymentLink", "hostMarkPaid", "addMember",
                      "removeMember"}
AllOperations == HostOperations \cup GatewayOperations

Symmetry == Permutations(Slots)

VARIABLE family     \* which entry points a behaviour uses

\* Reports by hand with failures, or links and membership without, called by the host.
InFamily ==
    \A q \in Slots :
        IF family = "host" THEN req[q].op \in HostOperations \cup {Null}
        ELSE req[q].op \in GatewayOperations \cup {Null} /\ req[q].actor # "payer" /\ failures = 0

FamilyInit == Init /\ family \in {"host", "gateway"}

FamilyNext == UNCHANGED family /\ Next /\ InFamily'

FamilySpec == FamilyInit /\ [][FamilyNext]_<<vars, family>>
==============================================================================
