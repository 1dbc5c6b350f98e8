------------------------- MODULE PaymentRecordsProofs -------------------------
(***************************************************************************)
(* Proofs that the invariants of PaymentRecords hold for every set of      *)
(* records, slots, operations, callers, invoices and every bound, and that *)
(* PaymentSerial implements PaymentLifecycle.                              *)
(***************************************************************************)
EXTENDS PaymentSerial, FiniteSetTheorems, TLAPS

(***************************************************************************)
(* Part of a cost is an amount, and so are the shares of any number of     *)
(* members and what the gateway makes of them.                             *)
(***************************************************************************)
LEMMA PartIsAmount ==
    ASSUME NEW n \in Nat \ {0}
    PROVE  Part(n) \in Nat /\ \A r : EqualShare(r, n) \in Nat
  <1>1. TotalAmount \in Nat
    BY AmountAssumption
  <1>2. \A a \in Nat, b \in Nat \ {0} : a \div b \in Nat /\ a % b \in Nat
    BY SMT
  <1>. QED
    BY <1>1, <1>2 DEF Part, EqualShare

LEMMA RupiahIsAmount ==
    ASSUME NEW cents \in Nat
    PROVE  Rupiah(cents) \in Nat
  BY SMT DEF Rupiah

LEMMA OneMore ==
    ASSUME NEW n \in Nat
    PROVE  n + 1 \in Nat \ {0}
  OBVIOUS

LEMMA MembersCount ==
    ASSUME NEW S, S \subseteq Records
    PROVE  Cardinality(S) \in Nat /\ (HostRecord \in S => Cardinality(S) # 0)
  <1>1. IsFiniteSet(S)
    BY RecordsAssumption, FS_Subset
  <1>2. Cardinality(S) \in Nat
    BY <1>1, FS_CardinalityType
  <1>3. Cardinality(S) = 0 => S = {}
    BY <1>1, FS_EmptySet
  <1>. QED
    BY <1>2, <1>3

(***************************************************************************)
(* Assigning some columns of one row to another gives a row, each of whose *)
(* columns comes from one of the two (Object.assign, and the UPDATE).      *)
(***************************************************************************)
LEMMA AssignColumns ==
    ASSUME NEW old \in Row, NEW new \in Row, NEW fields
    PROVE  /\ Assign(old, new, fields) \in Row
           /\ \A f \in Fields :
                 Assign(old, new, fields)[f] = IF f \in fields THEN new[f] ELSE old[f]
  BY DEF Assign, Row, Fields

LEMMA PendingRowType ==
    ASSUME NEW due \in Nat
    PROVE  PendingRow(due) \in Row
  BY DEF PendingRow, Row, PaymentStatus

LEMMA IdleType == Idle \in Slot
  BY PendingRowType DEF Idle, Slot, PCs, NoJob, Job, PeriodStatus, Fields

(***************************************************************************)
(* What a step may do to the evidence: it only adds to it.                 *)
(***************************************************************************)
Grows ==
    /\ hostAsked \subseteq hostAsked'
    /\ reported \subseteq reported'
    /\ events \subseteq events'
    /\ \A r \in Records : dues[r] \subseteq dues'[r]
    /\ clock = "late" => clock' = "late"
    /\ clock # "open" => clock' # "open"

(***************************************************************************)
(* What was justified stays justified.                                     *)
(***************************************************************************)
LEMMA AuthorisedGrows ==
    ASSUME Grows, NEW r \in Records
    PROVE  /\ Settled(r) => Settled(r)'
           /\ Authorised(r) => Authorised(r)'
  BY DEF Grows, Settled, Authorised

LEMMA BackedGrows ==
    ASSUME Grows, NEW r \in Records, NEW v
    PROVE  /\ Backed(v, r) => Backed(v, r)'
           /\ Read(v, r) => Read(v, r)'
  BY AuthorisedGrows DEF Grows, Backed, Read

LEMMA CycleGrows ==
    ASSUME Grows, NEW p
    PROVE  CycleInv(p) => CycleInv(p)'
  BY AuthorisedGrows DEF Grows, CycleInv

LEMMA SlotGrows ==
    ASSUME Grows, NEW s
    PROVE  SlotInv(s) => SlotInv(s)'
  <1>. SUFFICES ASSUME SlotInv(s) PROVE SlotInv(s)'
    OBVIOUS
  <1>1. s.rec \in Records => Backed(s.data, s.rec)'
    BY BackedGrows DEF SlotInv
  <1>2. s.pc \in {"seen", "gateway", "linked"} => Read(s.data, s.rec)'
    BY BackedGrows DEF SlotInv, RecordPCs
  <1>3. BurnInv(s)'
    BY DEF SlotInv, BurnInv, Grows
  <1>4. CycleInv(s.cycle)'
    BY CycleGrows DEF SlotInv
  <1>. QED
    BY <1>1, <1>2, <1>3, <1>4 DEF SlotInv, Grows

(***************************************************************************)
(* A step of slot q: the other slots stay in order by themselves, so what  *)
(* is left to show is about q, the rows and the period.                    *)
(***************************************************************************)
LEMMA SlotStep ==
    ASSUME IInv, NEW q \in Slots, NEW s \in Slot,
           req' = [req EXCEPT ![q] = s], SlotInv(s)', Grows, TypeOK',
           \A r \in Records : RowInv(r)', CycleInv(period)', used' \subseteq reported',
           HostRecord \in Active'
    PROVE  IInv'
  <1>1. ASSUME NEW p \in Slots PROVE SlotInv(req[p])'
    <2>1. CASE p = q
      BY <2>1 DEF IInv, TypeOK
    <2>2. CASE p # q
      <3>1. req'[p] = req[p]
        BY <2>2 DEF IInv, TypeOK
      <3>2. SlotInv(req[p])
        BY DEF IInv
      <3>. QED
        BY <3>1, <3>2, SlotGrows
    <2>. QED
      BY <2>1, <2>2
  <1>. QED
    BY <1>1 DEF IInv

LEMMA RowsStay ==
    ASSUME IInv, Grows, UNCHANGED <<row, period>>
    PROVE  /\ \A r \in Records : RowInv(r)'
           /\ CycleInv(period)'
  BY BackedGrows, CycleGrows DEF IInv, RowInv

\* The host stays a member as long as nobody's membership changes.
LEMMA HostStays ==
    ASSUME IInv, UNCHANGED members
    PROVE  HostRecord \in Active'
  BY DEF IInv, Active, members

(***************************************************************************)
(* A free slot is in order.                                                *)
(***************************************************************************)
LEMMA IdleInv == SlotInv(Idle) /\ SlotInv(Idle)'
  BY NullAssumption
  DEF SlotInv, Idle, RecordPCs, MemberPCs, BurnInv, CycleInv, MemberOperations, RecordOperations

(***************************************************************************)
(* The initial states.                                                     *)
(***************************************************************************)
LEMMA InitIInv == Init => IInv
  <1>. SUFFICES ASSUME Init PROVE IInv
    OBVIOUS
  <1>. DEFINE share(r) == EqualShare(r, Cardinality(Records))
  <1>1. \A r \in Records : share(r) \in Nat
    BY RecordsAssumption, MembersCount, PartIsAmount
  <1>2. \A r \in Records : PendingRow(share(r)) \in Row
    BY <1>1, PendingRowType
  <1>3. TypeOK
    BY <1>1, <1>2, IdleType, BoundsAssumption DEF Init, TypeOK, PeriodStatus
  <1>. HIDE DEF share
  <1>4. ASSUME NEW r \in Records PROVE RowInv(r)
    <2>1. row[r] = PendingRow(share(r)) /\ dues[r] = {share(r)}
      BY DEF Init, share
    <2>. QED
      BY <2>1, NullAssumption DEF RowInv, Backed, Read, PendingRow, Confirmations
  <1>5. ASSUME NEW q \in Slots PROVE SlotInv(req[q])
    BY IdleInv DEF Init
  <1>. QED
    BY <1>3, <1>4, <1>5, RecordsAssumption DEF IInv, Init, CycleInv, Active

(***************************************************************************)
(* A handler's step that touches nothing but its own slot.                 *)
(***************************************************************************)
Quiet == UNCHANGED <<row, period, external, members, used, counters, history>>

LEMMA QuietStep ==
    ASSUME IInv, Quiet, NEW q \in Slots, NEW s \in Slot, SlotInv(s),
           req' = [req EXCEPT ![q] = s]
    PROVE  IInv'
  <1>1. Grows
    BY DEF Quiet, Grows, external, history
  <1>2. req' \in [Slots -> Slot]
    BY DEF IInv, TypeOK
  <1>3. TypeOK'
    BY <1>2 DEF IInv, TypeOK, Quiet, external, members, counters, history
  <1>4. used' \subseteq reported'
    BY DEF IInv, Quiet, history
  <1>. QED
    BY <1>1, <1>3, <1>4, SlotGrows, RowsStay, HostStays, SlotStep DEF Quiet

LEMMA ReplyStep ==
    ASSUME IInv, Quiet, NEW q \in Slots, Reply(q)
    PROVE  IInv'
  BY QuietStep, IdleType, IdleInv DEF Reply

(***************************************************************************)
(* Calling recordRepo.update with justified values.                        *)
(***************************************************************************)
LEMMA UpdateStep ==
    ASSUME IInv, Quiet, NEW q \in Slots, NEW data \in Row, NEW fields \in SUBSET Fields,
           NEW next \in {"idle", "burn", "cycle", "sync"},
           req[q].rec \in Records, Backed(data, req[q].rec),
           next = "burn" => data.status = "PENDING_HOST_REVIEW" /\ "status" \in fields,
           Update(q, data, fields, next)
    PROVE  IInv'
  <1>. DEFINE s == [req[q] EXCEPT !.pc = "update", !.data = data, !.fields = fields,
                                  !.next = next]
  <1>1. req[q] \in Slot /\ SlotInv(req[q])
    BY DEF IInv, TypeOK
  <1>2. s \in Slot
    BY <1>1 DEF Slot, PCs
  <1>3. /\ s.pc = "update" /\ s.data = data /\ s.fields = fields /\ s.next = next
        /\ s.rec = req[q].rec /\ s.op = req[q].op /\ s.job = req[q].job
        /\ s.cycle = req[q].cycle
    BY <1>1 DEF Slot
  <1>4. req' = [req EXCEPT ![q] = s]
    BY DEF Update
  <1>. HIDE DEF s
  <1>5. SlotInv(s)
    BY <1>1, <1>3 DEF SlotInv, BurnInv, MemberPCs
  <1>. QED
    BY <1>2, <1>4, <1>5, QuietStep

LEMMA GotoStep ==
    ASSUME IInv, Quiet, NEW q \in Slots, NEW pc \in PCs, Goto(q, pc),
           SlotInv([req[q] EXCEPT !.pc = pc])
    PROVE  IInv'
  <1>1. [req[q] EXCEPT !.pc = pc] \in Slot
    BY DEF IInv, TypeOK, Slot
  <1>2. req' = [req EXCEPT ![q] = [req[q] EXCEPT !.pc = pc]]
    BY DEF Goto
  <1>. QED
    BY <1>1, <1>2, QuietStep

(***************************************************************************)
(* What a handler knows of the record it has read.                         *)
(***************************************************************************)
LEMMA SeenIsBacked ==
    ASSUME IInv, NEW q \in Slots, req[q].pc \in {"seen", "gateway", "linked"}
    PROVE  /\ req[q] \in Slot /\ req[q].rec \in Records /\ req[q].data \in Row
           /\ Backed(req[q].data, req[q].rec) /\ Read(req[q].data, req[q].rec)
           /\ req[q].pc = "seen" /\ req[q].op \in PaidOperations /\ req[q].actor = "host"
                 => req[q].rec \in hostAsked
  <1>1. req[q] \in Slot /\ SlotInv(req[q])
    BY DEF IInv, TypeOK
  <1>. QED
    BY <1>1 DEF Slot, SlotInv, RecordPCs

LEMMA ReportBacked ==
    ASSUME NEW v \in Row, NEW r \in Records, Backed(v, r)
    PROVE  /\ SelfReported(v) \in Row /\ Backed(SelfReported(v), r)
           /\ SelfReported(v).status = "PENDING_HOST_REVIEW"
  <1>1. PICK w \in Row :
           /\ w = SelfReported(v)
           /\ w.status = "PENDING_HOST_REVIEW" /\ w.confirmedBy = "MEMBER_SELF_REPORT"
           /\ w.amountPaid = v.amountPaid
           /\ w.gatewayTransactionId = v.gatewayTransactionId
           /\ w.gatewayReferenceId = v.gatewayReferenceId
    <2>. DEFINE w == SelfReported(v)
    <2>1. w \in Row
      BY DEF SelfReported, Row, PaymentStatus, Confirmations
    <2>2. /\ w.status = "PENDING_HOST_REVIEW" /\ w.confirmedBy = "MEMBER_SELF_REPORT"
          /\ w.amountPaid = v.amountPaid
          /\ w.gatewayTransactionId = v.gatewayTransactionId
          /\ w.gatewayReferenceId = v.gatewayReferenceId
      BY DEF SelfReported, Row
    <2>. HIDE DEF w
    <2>. QED
      BY <2>1, <2>2 DEF w
  <1>2. Backed(w, r)
    BY <1>1 DEF Backed
  <1>. QED
    BY <1>1, <1>2

LEMMA PaidBacked ==
    ASSUME NEW v \in Row, NEW r \in Records, Backed(v, r), Read(v, r), r \in hostAsked
    PROVE  PaidByHost(v) \in Row /\ Backed(PaidByHost(v), r)
  BY DEF PaidByHost, Backed, Read, Row, PaymentStatus, Confirmations, Authorised

LEMMA ConfirmDecideStep ==
    ASSUME IInv, NEW q \in Slots, ConfirmDecide(q) \/ ConfirmManualDecide(q)
    PROVE  IInv'
  <1>. DEFINE seen == req[q].data
              w == SelfReported(seen)
  <1>1. Quiet /\ req[q].pc = "seen"
    BY DEF ConfirmDecide, ConfirmManualDecide, Decides, Quiet, At
  <1>2. w \in Row /\ Backed(w, req[q].rec) /\ w.status = "PENDING_HOST_REVIEW"
    BY <1>1, SeenIsBacked, ReportBacked
  <1>3. CASE Reply(q)
    BY <1>1, <1>3, ReplyStep
  <1>4. CASE \E next \in {"idle", "burn"} : Update(q, w, {"status", "confirmedBy"}, next)
    <2>1. {"status", "confirmedBy"} \in SUBSET Fields
      BY DEF Fields
    <2>. HIDE DEF w
    <2>. QED
      BY <1>1, <1>2, <1>4, <2>1, SeenIsBacked, UpdateStep
  <1>5. CASE seen.status = "PENDING_HOST_REVIEW" /\ Goto(q, "burn")
    <2>1. req[q] \in Slot /\ SlotInv(req[q]) /\ req[q].rec \in reported
      BY <1>1, <1>5, SeenIsBacked DEF IInv, Read
    <2>2. SlotInv([req[q] EXCEPT !.pc = "burn"])
      BY <1>1, <2>1 DEF SlotInv, Slot, RecordPCs, MemberPCs, BurnInv
    <2>. QED
      BY <1>1, <1>5, <2>2, GotoStep DEF PCs
  <1>. QED
    BY <1>3, <1>4, <1>5 DEF ConfirmDecide, ConfirmManualDecide

LEMMA HostPaidStep ==
    ASSUME IInv, NEW q \in Slots, HostMarkPaid(q) \/ Approve(q)
    PROVE  IInv'
  <1>. DEFINE seen == req[q].data
              w == PaidByHost(seen)
              fields == {"status", "amountPaid", "paidAt", "confirmedBy"}
  <1>1. Quiet /\ req[q].pc = "seen" /\ req[q].op \in PaidOperations
    BY DEF HostMarkPaid, Approve, Decides, Quiet, At, PaidOperations
  <1>2. CASE Reply(q)
    BY <1>1, <1>2, ReplyStep
  <1>3. CASE assertHostOwnership(q) /\ Update(q, w, fields, "cycle")
    <2>1. w \in Row /\ Backed(w, req[q].rec)
      BY <1>1, <1>3, SeenIsBacked, PaidBacked DEF assertHostOwnership
    <2>2. fields \in SUBSET Fields
      BY DEF Fields
    <2>. HIDE DEF w, fields
    <2>. QED
      BY <1>1, <1>3, <2>1, <2>2, SeenIsBacked, UpdateStep
  <1>. QED
    BY <1>2, <1>3 DEF HostMarkPaid, Approve

LEMMA WaiveStep ==
    ASSUME IInv, NEW q \in Slots, WaivePayment(q)
    PROVE  IInv'
  <1>. DEFINE seen == req[q].data
              target == IF seen.status = "PAID" THEN "REFUNDED" ELSE "FAILED"
              w == [seen EXCEPT !.status = target, !.confirmedBy = "HOST_MANUAL"]
  <1>1. Quiet /\ req[q].pc = "seen"
    BY DEF WaivePayment, Decides, Quiet, At
  <1>2. CASE Reply(q)
    BY <1>1, <1>2, ReplyStep
  <1>3. CASE Update(q, w, {"status", "confirmedBy"}, "idle")
    <2>1. w \in Row /\ Backed(w, req[q].rec)
      BY <1>1, SeenIsBacked DEF Backed, Row, PaymentStatus, Confirmations
    <2>2. {"status", "confirmedBy"} \in SUBSET Fields
      BY DEF Fields
    <2>. HIDE DEF w
    <2>. QED
      BY <1>1, <1>3, <2>1, <2>2, SeenIsBacked, UpdateStep
  <1>. QED
    BY <1>2, <1>3 DEF WaivePayment

LEMMA RejectStep ==
    ASSUME IInv, NEW q \in Slots, Reject(q)
    PROVE  IInv'
  <1>. DEFINE seen == req[q].data
              w == Rejected(seen)
              fields == {"status", "amountPaid", "paidAt", "confirmedBy"}
  <1>1. Quiet /\ req[q].pc = "seen"
    BY DEF Reject, Decides, Quiet, At
  <1>2. CASE Reply(q)
    BY <1>1, <1>2, ReplyStep
  <1>3. CASE Update(q, w, fields, "idle")
    <2>1. w \in Row /\ Backed(w, req[q].rec)
      BY <1>1, SeenIsBacked DEF Rejected, Backed, Row, PaymentStatus
    <2>2. fields \in SUBSET Fields
      BY DEF Fields
    <2>. HIDE DEF w, fields
    <2>. QED
      BY <1>1, <1>3, <2>1, <2>2, SeenIsBacked, UpdateStep
  <1>. QED
    BY <1>2, <1>3 DEF Reject

LEMMA MarkOverdueStep ==
    ASSUME IInv, NEW q \in Slots, MarkOverdue(q)
    PROVE  IInv'
  <1>. DEFINE seen == req[q].data
              w == [seen EXCEPT !.status = "EXPIRED"]
  <1>1. Quiet /\ req[q].pc = "seen"
    BY DEF MarkOverdue, Decides, Quiet, At
  <1>2. CASE Reply(q)
    BY <1>1, <1>2, ReplyStep
  <1>3. CASE clock = "late" /\ Update(q, w, {"status"}, "idle")
    <2>1. w \in Row /\ Backed(w, req[q].rec)
      BY <1>1, <1>3, SeenIsBacked DEF Backed, Row, PaymentStatus
    <2>2. {"status"} \in SUBSET Fields
      BY DEF Fields
    <2>. HIDE DEF w
    <2>. QED
      BY <1>1, <1>3, <2>1, <2>2, SeenIsBacked, UpdateStep
  <1>. QED
    BY <1>2, <1>3 DEF MarkOverdue, GraceIsOver

LEMMA LinkSteps ==
    ASSUME IInv, NEW q \in Slots, LinkCheckAccess(q) \/ LinkCreated(q)
    PROVE  IInv'
  <1>. DEFINE seen == req[q].data
              w == [seen EXCEPT !.status = "AWAITING_GATEWAY",
                                !.gatewayReferenceId = gatewayReference(req[q].rec)]
  <1>1. Quiet /\ req[q].pc \in {"seen", "linked"}
    BY DEF LinkCheckAccess, LinkCreated, Decides, Quiet, At
  <1>2. CASE Reply(q)
    BY <1>1, <1>2, ReplyStep
  <1>3. CASE req[q].pc = "seen" /\ Goto(q, "gateway")
    <2>1. req[q] \in Slot /\ SlotInv(req[q])
      BY DEF IInv, TypeOK
    <2>2. SlotInv([req[q] EXCEPT !.pc = "gateway"])
      BY <1>3, <2>1 DEF SlotInv, Slot, RecordPCs, MemberPCs, BurnInv
    <2>. QED
      BY <1>1, <1>3, <2>2, GotoStep DEF PCs
  <1>4. CASE Update(q, w, {"status", "gatewayReferenceId"}, "idle")
    <2>1. w \in Row /\ Backed(w, req[q].rec)
      BY <1>1, SeenIsBacked DEF Backed, Row, PaymentStatus, gatewayReference
    <2>2. {"status", "gatewayReferenceId"} \in SUBSET Fields
      BY DEF Fields
    <2>. HIDE DEF w
    <2>. QED
      BY <1>1, <1>4, <2>1, <2>2, SeenIsBacked, UpdateStep
  <1>. QED
    BY <1>1, <1>2, <1>3, <1>4 DEF LinkCheckAccess, LinkCreated, Decides, At

LEMMA ConfirmReadStep ==
    ASSUME IInv, NEW q \in Slots, ConfirmRead(q)
    PROVE  IInv'
  <1>. DEFINE s == [req[q] EXCEPT !.pc = "seen", !.data = row[req[q].rec]]
  <1>1. Quiet /\ req[q].pc = "read" /\ req' = [req EXCEPT ![q] = s]
    BY DEF ConfirmRead, Quiet, At
  <1>2. req[q] \in Slot /\ SlotInv(req[q]) /\ req[q].rec \in Records
    BY <1>1 DEF IInv, TypeOK, SlotInv, RecordPCs
  <1>3. row[req[q].rec] \in Row /\ RowInv(req[q].rec)
    BY <1>2 DEF IInv, TypeOK
  <1>4. s \in Slot
    BY <1>2, <1>3 DEF Slot, PCs
  <1>5. /\ s.pc = "seen" /\ s.data = row[req[q].rec] /\ s.rec = req[q].rec
        /\ s.op = req[q].op /\ s.cycle = req[q].cycle /\ s.job = req[q].job
    BY <1>2 DEF Slot
  <1>. HIDE DEF s
  <1>6. SlotInv(s)
    BY <1>1, <1>2, <1>3, <1>5 DEF SlotInv, RowInv, BurnInv, MemberPCs
  <1>. QED
    BY <1>1, <1>4, <1>6, QuietStep

LEMMA DecideStep ==
    ASSUME IInv, NEW q \in Slots, Decide(q)
    PROVE  IInv'
  BY ConfirmReadStep, ConfirmDecideStep, HostPaidStep, WaiveStep, RejectStep,
     MarkOverdueStep, LinkSteps DEF Decide

(***************************************************************************)
(* BaseRepository.update.                                                  *)
(***************************************************************************)
LEMMA UpdateFindStep ==
    ASSUME IInv, NEW q \in Slots, UpdateFind(q)
    PROVE  IInv'
  <1>. DEFINE r == req[q].rec
              w == Assign(row[r], req[q].data, req[q].fields)
              s == [req[q] EXCEPT !.pc = "found", !.data = w]
  <1>1. Quiet /\ req[q].pc = "update" /\ req' = [req EXCEPT ![q] = s]
    BY DEF UpdateFind, Quiet, At
  <1>2. /\ req[q] \in Slot /\ SlotInv(req[q]) /\ r \in Records
        /\ req[q].data \in Row /\ Backed(req[q].data, r)
    BY <1>1 DEF IInv, TypeOK, SlotInv, RecordPCs, Slot
  <1>3. row[r] \in Row /\ RowInv(r)
    BY <1>2 DEF IInv, TypeOK
  <1>4. w \in Row
    BY <1>2, <1>3, AssignColumns
  <1>5. \A f \in Fields : w[f] = IF f \in req[q].fields THEN req[q].data[f] ELSE row[r][f]
    BY <1>2, <1>3, AssignColumns
  <1>. HIDE DEF w
  <1>6. Backed(w, r)
    BY <1>2, <1>3, <1>5 DEF Backed, RowInv, Fields
  <1>7. s \in Slot
    BY <1>2, <1>4 DEF Slot, PCs
  <1>8. /\ s.pc = "found" /\ s.data = w /\ s.rec = r /\ s.op = req[q].op
        /\ s.cycle = req[q].cycle /\ s.next = req[q].next /\ s.job = req[q].job
    BY <1>2 DEF Slot
  <1>9. s.next = "burn" => w.status = "PENDING_HOST_REVIEW"
    BY <1>1, <1>2, <1>5, <1>8 DEF SlotInv, BurnInv, Fields
  <1>. HIDE DEF s
  <1>10. SlotInv(s)
    BY <1>2, <1>6, <1>8, <1>9 DEF SlotInv, BurnInv, MemberPCs
  <1>. QED
    BY <1>1, <1>7, <1>10, QuietStep

LEMMA SaveLoadStep ==
    ASSUME IInv, NEW q \in Slots, SaveLoad(q)
    PROVE  IInv'
  <1>. DEFINE r == req[q].rec
              changed == Changed(r, req[q].data, req[q].fields)
              s == [req[q] EXCEPT !.pc = "write", !.fields = changed]
  <1>1. Quiet /\ req[q].pc = "found" /\ req' = [req EXCEPT ![q] = s]
    BY DEF SaveLoad, Quiet, At
  <1>2. /\ req[q] \in Slot /\ SlotInv(req[q]) /\ r \in Records
        /\ req[q].data \in Row /\ Backed(req[q].data, r)
    BY <1>1 DEF IInv, TypeOK, SlotInv, RecordPCs, Slot
  <1>3. row[r] \in Row /\ RowInv(r)
    BY <1>2 DEF IInv, TypeOK
  <1>4. changed \in SUBSET Fields
    BY DEF Changed
  <1>5. "status" \notin changed => req[q].data.status = row[r].status
    BY DEF Changed, Fields
  <1>. HIDE DEF changed
  <1>6. s \in Slot
    BY <1>2, <1>4 DEF Slot, PCs
  <1>7. /\ s.pc = "write" /\ s.data = req[q].data /\ s.rec = r /\ s.op = req[q].op
        /\ s.cycle = req[q].cycle /\ s.next = req[q].next /\ s.job = req[q].job
        /\ s.fields = changed
    BY <1>2 DEF Slot
  <1>. HIDE DEF s
  <1>8. BurnInv(s)
    BY <1>1, <1>2, <1>3, <1>5, <1>7 DEF SlotInv, BurnInv, RowInv, Read
  <1>9. SlotInv(s)
    BY <1>2, <1>7, <1>8 DEF SlotInv, MemberPCs
  <1>. QED
    BY <1>1, <1>6, <1>9, QuietStep

(***************************************************************************)
(* The UPDATE: the new row mixes two justified versions column by column.  *)
(***************************************************************************)
LEMMA SaveWriteStep ==
    ASSUME IInv, NEW q \in Slots, SaveWrite(q)
    PROVE  IInv'
  <1>. SUFFICES ASSUME NEW r, r = req[q].rec,
                       NEW new, new = Assign(row[r], req[q].data, req[q].fields),
                       NEW t, t = [req[q] EXCEPT !.pc = req[q].next]
                PROVE  IInv'
    OBVIOUS
  <1>. DEFINE s == IF t.next = "idle" THEN Idle ELSE t
  <1>1. /\ req[q].pc = "write"
        /\ row' = [row EXCEPT ![r] = new]
        /\ dues' = [dues EXCEPT ![r] = @ \cup {new.amountDue}]
        /\ reported' = IF new.status = "PENDING_HOST_REVIEW"
                       THEN reported \cup {r} ELSE reported
        /\ UNCHANGED <<period, external, members, used, counters, hostAsked>>
    BY DEF SaveWrite, At
  <1>2. /\ req[q] \in Slot /\ SlotInv(req[q]) /\ r \in Records
        /\ req[q].data \in Row /\ Backed(req[q].data, r)
    BY <1>1 DEF IInv, TypeOK, SlotInv, RecordPCs, Slot
  <1>3. row[r] \in Row /\ RowInv(r)
    BY <1>2 DEF IInv, TypeOK
  <1>4. new \in Row
    BY <1>2, <1>3, AssignColumns
  <1>5. \A f \in Fields :
           new[f] = IF f \in req[q].fields THEN req[q].data[f] ELSE row[r][f]
    BY <1>2, <1>3, AssignColumns
  <1>6. new.amountDue \in Nat
    BY <1>4 DEF Row
  <1>7. Backed(new, r)
    BY <1>2, <1>3, <1>5 DEF Backed, RowInv, Fields
  <1>8. Grows
    BY <1>1, <1>2 DEF Grows, external, IInv, TypeOK
  <1>9. /\ t \in Slot /\ t.data = req[q].data /\ t.rec = r /\ t.pc = req[q].next
        /\ t.op = req[q].op /\ t.cycle = req[q].cycle /\ t.next = req[q].next
        /\ t.job = req[q].job
    BY <1>2 DEF Slot, PCs
  <1>10. s \in Slot /\ req' = [req EXCEPT ![q] = s]
    BY <1>9, IdleType DEF SaveWrite
  <1>11. req' \in [Slots -> Slot]
    BY <1>10 DEF IInv, TypeOK
  <1>12. TypeOK'
    BY <1>1, <1>2, <1>4, <1>6, <1>11 DEF IInv, TypeOK, external, members, counters
  <1>13. ASSUME NEW x \in Records PROVE RowInv(x)'
    <2>1. CASE x = r
      <3>1. row'[r] = new
        BY <1>1, <1>2 DEF IInv, TypeOK
      <3>2. Backed(new, r)'
        BY <1>2, <1>7, <1>8, BackedGrows
      <3>3. new.amountDue \in dues'[r]
        BY <1>1, <1>2 DEF IInv, TypeOK
      <3>. QED
        BY <1>1, <2>1, <3>1, <3>2, <3>3 DEF RowInv, Read
    <2>2. CASE x # r
      <3>1. row'[x] = row[x]
        BY <1>1, <2>2 DEF IInv, TypeOK
      <3>. QED
        BY <3>1, <1>8, BackedGrows DEF IInv, RowInv
    <2>. QED
      BY <2>1, <2>2
  <1>14. SlotInv(t)' \/ t.next = "idle"
    <2>. SUFFICES ASSUME t.next # "idle" PROVE SlotInv(t)'
      OBVIOUS
    <2>1. t.pc \in {"burn", "cycle", "sync"}
      BY <1>2, <1>9 DEF Slot
    <2>2. t.pc = "burn" => r \in reported'
      BY <1>1, <1>2, <1>5, <1>9 DEF SlotInv, BurnInv, Fields
    <2>3. Backed(t.data, r)' /\ CycleInv(t.cycle)'
      BY <1>2, <1>8, <1>9, BackedGrows, CycleGrows DEF SlotInv
    <2>. QED
      BY <1>2, <1>9, <2>1, <2>2, <2>3 DEF SlotInv, BurnInv, MemberPCs
  <1>15. SlotInv(s)'
    BY <1>14, IdleInv
  <1>16. CycleInv(period)' /\ used' \subseteq reported'
    BY <1>1, <1>8, CycleGrows DEF IInv, Grows
  <1>. HIDE DEF s
  <1>. QED
    BY <1>1, <1>8, <1>10, <1>12, <1>13, <1>15, <1>16, HostStays, SlotStep

LEMMA BurnTokenStep ==
    ASSUME IInv, NEW q \in Slots, BurnToken(q)
    PROVE  IInv'
  <1>1. /\ req[q].pc = "burn" /\ req' = [req EXCEPT ![q] = Idle]
        /\ used' = used \cup {req[q].rec}
        /\ UNCHANGED <<row, period, external, members, counters, history>>
    BY DEF BurnToken, At, Reply
  <1>2. req[q] \in Slot /\ SlotInv(req[q]) /\ req[q].rec \in Records
    BY <1>1 DEF IInv, TypeOK, SlotInv, RecordPCs
  <1>3. Grows
    BY <1>1 DEF Grows, external, history
  <1>4. req' \in [Slots -> Slot]
    BY <1>1, IdleType DEF IInv, TypeOK
  <1>5. TypeOK'
    BY <1>1, <1>2, <1>4 DEF IInv, TypeOK, external, members, counters, history
  <1>6. used' \subseteq reported'
    BY <1>1, <1>2 DEF IInv, history, SlotInv, BurnInv
  <1>. QED
    BY <1>1, <1>3, <1>5, <1>6, IdleType, IdleInv, RowsStay, HostStays, SlotStep

(***************************************************************************)
(* updateCycleStatus.                                                      *)
(***************************************************************************)
LEMMA CycleReadStep ==
    ASSUME IInv, NEW q \in Slots, CycleRead(q)
    PROVE  IInv'
  <1>. DEFINE s == [req[q] EXCEPT !.pc = "judge", !.cycle = period]
  <1>1. Quiet /\ req' = [req EXCEPT ![q] = s]
    BY DEF CycleRead, Quiet
  <1>2. req[q] \in Slot /\ SlotInv(req[q]) /\ period \in PeriodStatus /\ CycleInv(period)
    BY DEF IInv, TypeOK
  <1>3. s \in Slot
    BY <1>2 DEF Slot, PCs
  <1>4. /\ s.pc = "judge" /\ s.cycle = period /\ s.rec = req[q].rec /\ s.op = req[q].op
        /\ s.data = req[q].data /\ s.job = req[q].job
    BY <1>2 DEF Slot
  <1>. HIDE DEF s
  <1>5. SlotInv(s)
    BY <1>2, <1>4 DEF SlotInv, BurnInv, RecordPCs, MemberPCs
  <1>. QED
    BY <1>1, <1>3, <1>5, QuietStep

\* The judgement is justified by the records as they are read.
LEMMA JudgementIsBacked ==
    ASSUME IInv, NEW current \in PeriodStatus, newStatus(current) # current
    PROVE  /\ newStatus(current) \in PeriodStatus \ {"UPCOMING"}
           /\ CycleInv(newStatus(current))
  BY DEF IInv, newStatus, PeriodStatus, CycleInv, RowInv, Backed, Paid

LEMMA CycleJudgeStep ==
    ASSUME IInv, NEW q \in Slots, CycleJudge(q)
    PROVE  IInv'
  <1>. DEFINE new == newStatus(req[q].cycle)
              s == [req[q] EXCEPT !.pc = "cycleLoad", !.cycle = new]
  <1>1. Quiet
    BY DEF CycleJudge, Quiet
  <1>2. CASE Reply(q)
    BY <1>1, <1>2, ReplyStep
  <1>3. CASE new # req[q].cycle /\ req' = [req EXCEPT ![q] = s]
    <2>1. req[q] \in Slot /\ SlotInv(req[q]) /\ req[q].cycle \in PeriodStatus
      BY DEF IInv, TypeOK, Slot
    <2>2. new \in PeriodStatus \ {"UPCOMING"} /\ CycleInv(new)
      BY <1>3, <2>1, JudgementIsBacked
    <2>. HIDE DEF new
    <2>3. s \in Slot
      BY <2>1, <2>2 DEF Slot, PCs
    <2>4. /\ s.pc = "cycleLoad" /\ s.cycle = new /\ s.rec = req[q].rec
          /\ s.op = req[q].op /\ s.data = req[q].data /\ s.job = req[q].job
      BY <2>1 DEF Slot
    <2>. HIDE DEF s
    <2>5. SlotInv(s)
      BY <2>1, <2>2, <2>4 DEF SlotInv, BurnInv, RecordPCs, MemberPCs
    <2>. QED
      BY <1>1, <1>3, <2>3, <2>5, QuietStep
  <1>. QED
    BY <1>2, <1>3 DEF CycleJudge

LEMMA CycleLoadStep ==
    ASSUME IInv, NEW q \in Slots, CycleLoad(q)
    PROVE  IInv'
  <1>1. Quiet /\ req[q].pc = "cycleLoad"
    BY DEF CycleLoad, Quiet, At
  <1>2. CASE Reply(q)
    BY <1>1, <1>2, ReplyStep
  <1>3. CASE Goto(q, "cycleWrite")
    <2>1. req[q] \in Slot /\ SlotInv(req[q])
      BY DEF IInv, TypeOK
    <2>2. SlotInv([req[q] EXCEPT !.pc = "cycleWrite"])
      BY <1>1, <2>1 DEF SlotInv, Slot, RecordPCs, MemberPCs, BurnInv
    <2>. QED
      BY <1>1, <1>3, <2>2, GotoStep DEF PCs
  <1>. QED
    BY <1>2, <1>3 DEF CycleLoad

LEMMA CycleWriteStep ==
    ASSUME IInv, NEW q \in Slots, CycleWrite(q)
    PROVE  IInv'
  <1>1. /\ req[q].pc = "cycleWrite" /\ req' = [req EXCEPT ![q] = Idle]
        /\ period' = req[q].cycle
        /\ UNCHANGED <<row, external, members, used, counters, history>>
    BY DEF CycleWrite, At, Reply
  <1>2. req[q] \in Slot /\ CycleInv(req[q].cycle) /\ req[q].cycle \in PeriodStatus
    BY DEF IInv, TypeOK, SlotInv, Slot
  <1>3. Grows
    BY <1>1 DEF Grows, external, history
  <1>4. req' \in [Slots -> Slot]
    BY <1>1, IdleType DEF IInv, TypeOK
  <1>5. TypeOK'
    BY <1>1, <1>2, <1>4 DEF IInv, TypeOK, external, members, counters, history
  <1>6. \A r \in Records : RowInv(r)'
    BY <1>1, <1>3, BackedGrows DEF IInv, RowInv
  <1>7. CycleInv(period)'
    <2>1. PICK p : p = req[q].cycle
      OBVIOUS
    <2>2. CycleInv(p)'
      BY <1>2, <1>3, <2>1, CycleGrows
    <2>. QED
      BY <1>1, <2>1, <2>2
  <1>8. used' \subseteq reported'
    BY <1>1 DEF IInv, history
  <1>. QED
    BY <1>1, <1>3, <1>5, <1>6, <1>7, <1>8, IdleType, IdleInv, HostStays, SlotStep

LEMMA FinishStep ==
    ASSUME IInv, NEW q \in Slots, Finish(q)
    PROVE  IInv'
  BY UpdateFindStep, SaveLoadStep, SaveWriteStep, BurnTokenStep,
     CycleReadStep, CycleJudgeStep, CycleLoadStep, CycleWriteStep DEF Finish

(***************************************************************************)
(* Membership changes.                                                     *)
(***************************************************************************)
LEMMA PendingIsBacked ==
    ASSUME NEW due \in Nat, NEW r
    PROVE  PendingRow(due) \in Row /\ Backed(PendingRow(due), r)
  BY PendingRowType, NullAssumption DEF PendingRow, Backed, Confirmations

\* A step that changes the pc and the job of a membership change.
LEMMA JobStep ==
    ASSUME IInv, Quiet, NEW q \in Slots, NEW pc \in {"shares", "syncRead", "sync"},
           NEW job \in Job, job.member = req[q].job.member,
           req' = [req EXCEPT ![q] = [req[q] EXCEPT !.pc = pc, !.job = job]]
    PROVE  IInv'
  <1>. DEFINE s == [req[q] EXCEPT !.pc = pc, !.job = job]
  <1>1. req[q] \in Slot /\ SlotInv(req[q])
    BY DEF IInv, TypeOK
  <1>2. s \in Slot
    BY <1>1 DEF Slot, PCs
  <1>3. /\ s.pc = pc /\ s.job = job /\ s.rec = req[q].rec /\ s.op = req[q].op
        /\ s.data = req[q].data /\ s.cycle = req[q].cycle
    BY <1>1 DEF Slot
  <1>4. req' = [req EXCEPT ![q] = s]
    OBVIOUS
  <1>. HIDE DEF s
  <1>5. SlotInv(s)
    BY <1>1, <1>3 DEF SlotInv, BurnInv, RecordPCs, MemberPCs
  <1>. QED
    BY <1>2, <1>4, <1>5, QuietStep

\* A step that calls recordRepo.update on a record of the membership change.
LEMMA JobUpdateStep ==
    ASSUME IInv, Quiet, NEW q \in Slots, NEW r \in Records, NEW due \in Nat,
           NEW fields \in SUBSET Fields, NEW next \in {"idle", "sync"},
           NEW job \in Job, job.member = req[q].job.member,
           req' = [req EXCEPT ![q] = [req[q] EXCEPT !.pc = "update", !.rec = r,
                      !.data = PendingRow(due), !.fields = fields, !.next = next,
                      !.job = job]]
    PROVE  IInv'
  <1>. DEFINE s == [req[q] EXCEPT !.pc = "update", !.rec = r, !.data = PendingRow(due),
                                  !.fields = fields, !.next = next, !.job = job]
  <1>1. req[q] \in Slot /\ SlotInv(req[q])
    BY DEF IInv, TypeOK
  <1>2. PendingRow(due) \in Row /\ Backed(PendingRow(due), r)
    BY PendingIsBacked
  <1>3. s \in Slot
    BY <1>1, <1>2 DEF Slot, PCs
  <1>4. /\ s.pc = "update" /\ s.job = job /\ s.rec = r /\ s.op = req[q].op
        /\ s.data = PendingRow(due) /\ s.cycle = req[q].cycle /\ s.next = next
    BY <1>1 DEF Slot
  <1>5. req' = [req EXCEPT ![q] = s]
    OBVIOUS
  <1>. HIDE DEF s
  <1>6. SlotInv(s)
    BY <1>1, <1>2, <1>4 DEF SlotInv, BurnInv, MemberPCs
  <1>. QED
    BY <1>3, <1>5, <1>6, QuietStep

\* A step that changes the membership itself.
LEMMA MemberChangeStep ==
    ASSUME IInv, UNCHANGED <<row, period, external, used, counters, history>>,
           inactive' \subseteq Records, deleted' \subseteq Records, HostRecord \in Active',
           NEW q \in Slots, NEW pc \in {"activate", "recalculate"}, Goto(q, pc),
           pc = "activate" => req[q].op \in MemberOperations
    PROVE  IInv'
  <1>. SUFFICES ASSUME NEW s, s = [req[q] EXCEPT !.pc = pc] PROVE IInv'
    OBVIOUS
  <1>1. req[q] \in Slot /\ SlotInv(req[q]) /\ req' = [req EXCEPT ![q] = s]
    BY DEF IInv, TypeOK, Goto
  <1>2. s \in Slot
    BY <1>1 DEF Slot, PCs
  <1>3. /\ s.pc = pc /\ s.job = req[q].job /\ s.rec = req[q].rec /\ s.op = req[q].op
        /\ s.data = req[q].data /\ s.cycle = req[q].cycle
    BY <1>1 DEF Slot
  <1>4. SlotInv(s)
    BY <1>1, <1>3 DEF SlotInv, BurnInv, RecordPCs, MemberPCs
  <1>5. Grows
    BY DEF Grows, external, history
  <1>6. req' \in [Slots -> Slot]
    BY <1>1, <1>2 DEF IInv, TypeOK
  <1>7. TypeOK'
    BY <1>6 DEF IInv, TypeOK, external, counters, history
  <1>8. used' \subseteq reported'
    BY DEF IInv, history
  <1>. QED
    BY <1>1, <1>2, <1>4, <1>5, <1>7, <1>8, SlotGrows, RowsStay, SlotStep

LEMMA MemberChangeSteps ==
    ASSUME IInv, NEW q \in Slots, SoftDelete(q) \/ Restore(q) \/ Activate(q)
    PROVE  IInv'
  <1>. SUFFICES ASSUME NEW m, m = req[q].job.member PROVE IInv'
    OBVIOUS
  <1>1. SlotInv(req[q])
    BY DEF IInv
  <1>2. CASE SoftDelete(q)
    <2>1. m \in Records \ {HostRecord}
      BY <1>1, <1>2 DEF SoftDelete, At, SlotInv, MemberPCs
    <2>2. HostRecord \in Active' /\ inactive' \subseteq Records /\ deleted' \subseteq Records
      BY <1>2, <2>1 DEF SoftDelete, IInv, TypeOK, Active
    <2>. QED
      BY <1>2, <2>2, MemberChangeStep DEF SoftDelete
  <1>3. CASE Restore(q)
    <2>1. HostRecord \in Active' /\ inactive' \subseteq Records /\ deleted' \subseteq Records
      BY <1>3 DEF Restore, IInv, TypeOK, Active
    <2>2. req[q].op \in MemberOperations
      BY <1>1, <1>3 DEF Restore, At, SlotInv, MemberPCs
    <2>. QED
      BY <1>3, <2>1, <2>2, MemberChangeStep DEF Restore
  <1>4. CASE Activate(q) /\ m \in deleted
    <2>1. Quiet
      BY <1>4 DEF Activate, Quiet, members
    <2>. QED
      BY <1>4, <2>1, ReplyStep DEF Activate
  <1>5. CASE Activate(q) /\ m \notin deleted
    <2>1. HostRecord \in Active' /\ inactive' \subseteq Records /\ deleted' \subseteq Records
      BY <1>5 DEF Activate, IInv, TypeOK, Active
    <2>. QED
      BY <1>5, <2>1, MemberChangeStep DEF Activate
  <1>. QED
    BY <1>2, <1>3, <1>4, <1>5

LEMMA MembershipStep ==
    ASSUME IInv, NEW q \in Slots, Membership(q)
    PROVE  IInv'
  <1>. DEFINE job == req[q].job
  <1>1. req[q] \in Slot /\ SlotInv(req[q]) /\ job \in Job
    BY DEF IInv, TypeOK, Slot
  <1>2. CASE RecalculateShares(q)
    <2>. DEFINE shares == [r \in Records |-> EqualShare(r, Cardinality(Active))]
                new == [job EXCEPT !.todo = Active, !.shares = shares]
    <2>1. Active \subseteq Records /\ HostRecord \in Active
      BY DEF IInv, Active
    <2>2. Cardinality(Active) \in Nat \ {0}
      BY <2>1, MembersCount
    <2>3. shares \in [Records -> Nat]
      BY <2>2, PartIsAmount
    <2>. HIDE DEF shares
    <2>4. new \in Job /\ new.member = job.member
      BY <1>1, <2>1, <2>3 DEF Job
    <2>5. req' = [req EXCEPT ![q] = [req[q] EXCEPT !.pc = "shares", !.job = new]]
      BY <1>1, <1>2 DEF RecalculateShares, Slot, Job, shares
    <2>6. Quiet
      BY <1>2 DEF RecalculateShares, Quiet
    <2>. HIDE DEF new
    <2>. QED
      BY <2>4, <2>5, <2>6, JobStep
  <1>7. CASE SaveShares(q)
    <2>. DEFINE new == [job EXCEPT !.todo = IF period = "UPCOMING" THEN @ ELSE {}]
                pc == IF period = "UPCOMING" THEN "syncRead" ELSE "sync"
    <2>1. Quiet
      BY <1>7 DEF SaveShares, Quiet
    <2>2. CASE Reply(q)
      BY <2>1, <2>2, ReplyStep
    <2>3. CASE ~Reply(q)
      <3>1. new \in Job /\ new.member = job.member
        BY <1>1 DEF Job
      <3>2. req' = [req EXCEPT ![q] = [req[q] EXCEPT !.pc = pc, !.job = new]]
        BY <1>1, <1>7, <2>3 DEF SaveShares, Slot, Job
      <3>. HIDE DEF new
      <3>. QED
        BY <2>1, <3>1, <3>2, JobStep
    <2>. QED
      BY <2>2, <2>3
  <1>3. CASE SyncRead(q)
    <2>. DEFINE stale == {r \in job.todo : /\ row[r].status = "PENDING"
                                           /\ ~SameText(job.shares[r], row[r].amountDue)}
                new == [job EXCEPT !.todo = stale]
    <2>1. new \in Job /\ new.member = job.member
      BY <1>1 DEF Job
    <2>2. req' = [req EXCEPT ![q] = [req[q] EXCEPT !.pc = "sync", !.job = new]]
      BY <1>1, <1>3 DEF SyncRead, Slot, Job
    <2>3. Quiet /\ req[q].pc = "syncRead"
      BY <1>3 DEF SyncRead, Quiet, At
    <2>. HIDE DEF new
    <2>. QED
      BY <2>1, <2>2, <2>3, JobStep
  <1>4. CASE SyncDone(q)
    <2>1. Quiet
      BY <1>4 DEF SyncDone, Quiet
    <2>2. CASE Reply(q)
      BY <2>1, <2>2, ReplyStep
    <2>3. CASE req[q].op = "addMember" /\ Goto(q, "revive")
      <3>1. req[q].pc = "sync" /\ req[q].job.member \in Records
        BY <1>1, <1>4, <2>3 DEF SyncDone, At, SlotInv, MemberOperations
      <3>2. SlotInv([req[q] EXCEPT !.pc = "revive"])
        BY <1>1, <3>1, <2>3 DEF SlotInv, Slot, RecordPCs, MemberPCs, MemberOperations, BurnInv
      <3>. QED
        BY <2>1, <2>3, <3>2, GotoStep DEF PCs
    <2>. QED
      BY <1>4, <2>2, <2>3 DEF SyncDone
  <1>5. CASE ReviveRecord(q)
    <2>1. Quiet
      BY <1>5 DEF ReviveRecord, Quiet
    <2>2. CASE Reply(q)
      BY <2>1, <2>2, ReplyStep
    <2>3. CASE req[q].pc = "revive" /\ ~Reply(q)
      <3>. DEFINE r == job.member
                  due == job.newShare
                  fields == {"amountDue", "status"}
      <3>1. r \in Records
        BY <1>1, <2>3 DEF SlotInv, MemberPCs
      <3>2. due \in Nat /\ fields \in SUBSET Fields
        BY <1>1 DEF Job, Fields
      <3>3. req' = [req EXCEPT ![q] = [req[q] EXCEPT !.pc = "update", !.rec = r,
                       !.data = PendingRow(due), !.fields = fields, !.next = "idle"]]
        BY <1>5, <2>3 DEF ReviveRecord
      <3>4. ASSUME NEW rec, NEW data, NEW set, NEW next
            PROVE  [req[q] EXCEPT !.pc = "update", !.rec = rec, !.data = data,
                                  !.fields = set, !.next = next]
                     = [req[q] EXCEPT !.pc = "update", !.rec = rec, !.data = data,
                                      !.fields = set, !.next = next, !.job = req[q].job]
        <4>1. PICK t \in Slot : t = req[q]
          BY <1>1
        <4>2. [t EXCEPT !.pc = "update", !.rec = rec, !.data = data,
                        !.fields = set, !.next = next]
                = [t EXCEPT !.pc = "update", !.rec = rec, !.data = data,
                            !.fields = set, !.next = next, !.job = t.job]
          BY DEF Slot
        <4>. QED
          BY <4>1, <4>2
      <3>5. req' = [req EXCEPT ![q] = [req[q] EXCEPT !.pc = "update", !.rec = r,
                       !.data = PendingRow(due), !.fields = fields, !.next = "idle",
                       !.job = job]]
        BY <3>3, <3>4
      <3>. HIDE DEF r, due, fields
      <3>. QED
        BY <1>1, <2>1, <3>1, <3>2, <3>5, JobUpdateStep
    <2>. QED
      BY <1>5, <2>2, <2>3 DEF ReviveRecord, At
  <1>6. ASSUME NEW r \in Records, SyncAmount(q, r) PROVE IInv'
    <2>. DEFINE new == [job EXCEPT !.todo = @ \ {r}]
                due == job.shares[r]
    <2>1. Quiet
      BY <1>6 DEF SyncAmount, Quiet
    <2>2. new \in Job /\ new.member = job.member /\ due \in Nat
      BY <1>1 DEF Job
    <2>3. req' = [req EXCEPT ![q] = [req[q] EXCEPT !.pc = "update", !.rec = r,
                     !.data = PendingRow(due), !.fields = {"amountDue"}, !.next = "sync",
                     !.job = new]]
      BY <1>1, <1>6 DEF SyncAmount, Slot, Job
    <2>4. {"amountDue"} \in SUBSET Fields
      BY DEF Fields
    <2>. HIDE DEF new, due
    <2>. QED
      BY <2>1, <2>2, <2>3, <2>4, JobUpdateStep
  <1>. QED
    BY <1>2, <1>3, <1>4, <1>5, <1>6, <1>7, MemberChangeSteps DEF Membership

(***************************************************************************)
(* Accepting a call: a slot starts from Idle.                              *)
(***************************************************************************)
LEMMA AcceptStep ==
    ASSUME IInv, NEW q \in Slots, NEW s \in Slot, NEW op, Accept(q, op),
           req' = [req EXCEPT ![q] = s], SlotInv(s)', HostRecord \in Active',
           inactive' \subseteq Records, deleted' = deleted,
           hostAsked \subseteq hostAsked', hostAsked' \subseteq Records
    PROVE  IInv'
  <1>1. /\ UNCHANGED <<row, period, external, used, failures, reported, dues>>
        /\ requests < MaxRequests /\ requests' = requests + 1
    BY DEF Accept
  <1>2. Grows
    BY <1>1 DEF Grows, external
  <1>3. requests' \in 0..MaxRequests
    BY <1>1, BoundsAssumption DEF IInv, TypeOK
  <1>4. req' \in [Slots -> Slot]
    BY DEF IInv, TypeOK
  <1>5. TypeOK'
    BY <1>1, <1>3, <1>4 DEF IInv, TypeOK, external
  <1>6. used' \subseteq reported'
    BY <1>1 DEF IInv
  <1>. QED
    BY <1>1, <1>2, <1>5, <1>6, RowsStay, HostStays, SlotStep

LEMMA ReadRecordStep ==
    ASSUME IInv, NEW q \in Slots, NEW r \in Records, NEW op \in RecordOperations,
           NEW actor \in Actors \cup {Null}, ReadRecord(q, op, r, actor)
    PROVE  IInv'
  <1>. SUFFICES ASSUME NEW s, s = [Idle EXCEPT !.pc = "seen", !.op = op, !.rec = r,
                                               !.actor = actor, !.data = row[r]]
                PROVE  IInv'
    OBVIOUS
  <1>1. /\ Accept(q, op) /\ req' = [req EXCEPT ![q] = s] /\ UNCHANGED members
        /\ hostAsked' = IF op \in PaidOperations /\ actor = "host"
                        THEN hostAsked \cup {r} ELSE hostAsked
    BY DEF ReadRecord
  <1>2. row[r] \in Row /\ RowInv(r)
    BY DEF IInv, TypeOK
  <1>3. actor \in {"host", "payer", "other", Null}
    BY ActorsAssumption
  <1>4. s \in Slot
    BY <1>2, <1>3, IdleType DEF Slot, PCs
  <1>5. /\ s.pc = "seen" /\ s.op = op /\ s.rec = r /\ s.actor = actor
        /\ s.data = row[r] /\ s.cycle = "UPCOMING"
    BY DEF Idle
  <1>6. Grows
    BY <1>1 DEF Accept, Grows, external
  <1>7. Backed(s.data, r)' /\ Read(s.data, r)'
    BY <1>2, <1>5, <1>6, BackedGrows DEF RowInv
  <1>8. SlotInv(s)'
    BY <1>1, <1>5, <1>7 DEF SlotInv, BurnInv, CycleInv, MemberPCs, RecordOperations,
                           MemberOperations
  <1>. QED
    BY <1>1, <1>4, <1>8, HostStays, AcceptStep DEF IInv, TypeOK, members

LEMMA ReadLaterStep ==
    ASSUME IInv, NEW q \in Slots, NEW r \in Records,
           NEW op \in {"confirmPayment", "confirmManual"}, ReadLater(q, op, r)
    PROVE  IInv'
  <1>. SUFFICES ASSUME NEW s, s = [Idle EXCEPT !.pc = "read", !.op = op, !.rec = r]
                PROVE  IInv'
    OBVIOUS
  <1>1. /\ Accept(q, op) /\ req' = [req EXCEPT ![q] = s]
        /\ UNCHANGED members /\ hostAsked' = hostAsked
    BY DEF ReadLater
  <1>2. s \in Slot
    BY IdleType DEF Slot, PCs, RecordOperations
  <1>3. /\ s.pc = "read" /\ s.op = op /\ s.rec = r
        /\ s.data = PendingRow(0) /\ s.cycle = "UPCOMING"
    BY DEF Idle
  <1>4. Backed(PendingRow(0), r)'
    BY NullAssumption DEF PendingRow, Backed, Confirmations
  <1>5. SlotInv(s)'
    BY <1>3, <1>4 DEF SlotInv, BurnInv, CycleInv, MemberPCs, MemberOperations,
                      PaidOperations
  <1>. QED
    BY <1>1, <1>2, <1>5, HostStays, AcceptStep DEF IInv, TypeOK, members

LEMMA MemberStep ==
    ASSUME IInv, NEW q \in Slots, NEW r \in Records, RemoveMember(q, r) \/ AddMember(q, r)
    PROVE  IInv'
  <1>1. SUFFICES ASSUME NEW op \in MemberOperations, NEW pc \in {"softDelete", "restore"},
                        NEW job \in Job, job.member = r,
                        NEW s, s = [Idle EXCEPT !.pc = pc, !.op = op, !.job = job],
                        Accept(q, op), req' = [req EXCEPT ![q] = s],
                        pc = "softDelete" => r # HostRecord, HostRecord \in Active',
                        inactive' \subseteq Records, deleted' = deleted,
                        hostAsked' = hostAsked
                 PROVE  IInv'
    <2>1. CASE RemoveMember(q, r)
      <3>1. PICK job : job = [NoJob EXCEPT !.member = r]
        OBVIOUS
      <3>2. job \in Job /\ job.member = r
        BY <3>1 DEF NoJob, Job
      <3>3. HostRecord \in Active' /\ inactive' \subseteq Records
        BY <2>1 DEF RemoveMember, IInv, TypeOK, Active
      <3>. QED
        BY <2>1, <3>1, <3>2, <3>3 DEF RemoveMember, MemberOperations
    <2>2. CASE AddMember(q, r)
      <3>1. PICK share : share = Part(Cardinality(Active) + 1)
        OBVIOUS
      <3>2. PICK job : job = [NoJob EXCEPT !.member = r, !.newShare = share]
        OBVIOUS
      <3>3. Cardinality(Active) + 1 \in Nat \ {0}
        <4>1. Active \subseteq Records
          BY DEF Active
        <4>2. Cardinality(Active) \in Nat
          BY <4>1, MembersCount
        <4>. QED
          BY <4>2, OneMore
      <3>4. job \in Job /\ job.member = r
        BY <3>1, <3>2, <3>3, PartIsAmount DEF NoJob, Job
      <3>5. HostRecord \in Active' /\ inactive' \subseteq Records /\ deleted' = deleted
        BY <2>2, HostStays DEF AddMember, members, IInv, TypeOK
      <3>. QED
        BY <2>2, <3>1, <3>2, <3>4, <3>5 DEF AddMember, MemberOperations
    <2>. QED
      BY <2>1, <2>2
  <1>2. s \in Slot
    BY <1>1, IdleType DEF Slot, PCs
  <1>3. /\ s.pc = pc /\ s.op = op /\ s.rec = Null
        /\ s.job = job /\ s.cycle = "UPCOMING"
    BY <1>1 DEF Idle
  <1>4. SlotInv(s)'
    BY <1>1, <1>3, NullAssumption
    DEF SlotInv, BurnInv, CycleInv, RecordPCs, MemberPCs
  <1>. QED
    BY <1>1, <1>2, <1>4, AcceptStep DEF IInv, TypeOK

LEMMA BeginStep ==
    ASSUME IInv, NEW q \in Slots, Begin(q)
    PROVE  IInv'
  BY ReadRecordStep, ReadLaterStep, MemberStep DEF Begin, ConfirmPayment, ConfirmManual

(***************************************************************************)
(* The gateway and the failures of handlers.                               *)
(***************************************************************************)
LEMMA GatewayIssuesStep ==
    ASSUME IInv, NEW q \in Slots, NEW tx \in Txs, GatewayIssues(q, tx)
    PROVE  IInv'
  <1>. SUFFICES ASSUME NEW s, s = [req[q] EXCEPT !.pc = "linked"] PROVE IInv'
    OBVIOUS
  <1>1. /\ req[q].pc = "gateway" /\ req' = [req EXCEPT ![q] = s]
        /\ invoices' = invoices \cup
              {[rec |-> req[q].rec, amount |-> Rupiah(req[q].data.amountDue), tx |-> tx]}
        /\ UNCHANGED <<row, period, clock, members, used, events, counters, history>>
    BY DEF GatewayIssues, At, Goto
  <1>2. /\ req[q] \in Slot /\ SlotInv(req[q]) /\ req[q].rec \in Records
        /\ req[q].data \in Row
    BY <1>1, SeenIsBacked DEF IInv
  <1>3. Rupiah(req[q].data.amountDue) \in Nat
    BY <1>2, RupiahIsAmount DEF Row
  <1>4. invoices' \subseteq Invoice
    BY <1>1, <1>2, <1>3 DEF Invoice, IInv, TypeOK
  <1>5. s \in Slot
    BY <1>2 DEF Slot, PCs
  <1>6. req' \in [Slots -> Slot]
    BY <1>1, <1>5 DEF IInv, TypeOK
  <1>7. TypeOK'
    BY <1>1, <1>4, <1>6 DEF IInv, TypeOK, members, counters, history
  <1>8. /\ s.pc = "linked" /\ s.rec = req[q].rec /\ s.op = req[q].op
        /\ s.data = req[q].data /\ s.cycle = req[q].cycle /\ s.job = req[q].job
    BY <1>2 DEF Slot
  <1>9. SlotInv(s)
    BY <1>1, <1>2, <1>8 DEF SlotInv, BurnInv, MemberPCs
  <1>10. Grows
    BY <1>1 DEF Grows, history
  <1>11. used' \subseteq reported'
    BY <1>1 DEF IInv, history
  <1>. QED
    BY <1>1, <1>5, <1>7, <1>9, <1>10, <1>11, SlotGrows, RowsStay, HostStays, SlotStep

LEMMA FailStep ==
    ASSUME IInv, NEW q \in Slots, Fail(q)
    PROVE  IInv'
  <1>1. /\ failures < MaxFailures /\ failures' = failures + 1
        /\ req' = [req EXCEPT ![q] = Idle]
        /\ UNCHANGED <<row, period, external, members, used, requests, history>>
    BY DEF Fail, Reply
  <1>2. failures' \in 0..MaxFailures
    BY <1>1, BoundsAssumption DEF IInv, TypeOK
  <1>3. req' \in [Slots -> Slot]
    BY <1>1, IdleType DEF IInv, TypeOK
  <1>4. TypeOK'
    BY <1>1, <1>2, <1>3 DEF IInv, TypeOK, external, members, history
  <1>5. Grows
    BY <1>1 DEF Grows, external, history
  <1>6. used' \subseteq reported'
    BY <1>1 DEF IInv, history
  <1>. QED
    BY <1>1, <1>4, <1>5, <1>6, IdleType, IdleInv, RowsStay, HostStays, SlotStep

(***************************************************************************)
(* A step of nobody's slot: what is left to show is about the rows.        *)
(***************************************************************************)
LEMMA OutsideStep ==
    ASSUME IInv, UNCHANGED <<req, period, reported>>, Grows, TypeOK',
           used' \subseteq used, \A r \in Records : RowInv(r)', HostRecord \in Active'
    PROVE  IInv'
  <1>1. ASSUME NEW q \in Slots PROVE SlotInv(req[q])'
    BY SlotGrows DEF IInv
  <1>. QED
    BY <1>1, CycleGrows DEF IInv

LEMMA ReportsStep ==
    ASSUME IInv, NEW i \in invoices, NEW s \in EventStatuses, GatewayReports(i, s)
    PROVE  IInv'
  <1>1. /\ events' = events \cup
              {[rec |-> i.rec, amount |-> i.amount, tx |-> i.tx, status |-> s]}
        /\ UNCHANGED <<row, period, clock, members, used, invoices, req, counters, history>>
    BY DEF GatewayReports
  <1>2. i \in Invoice /\ s \in GatewayStatus
    BY GatewayAssumption DEF IInv, TypeOK
  <1>3. events' \subseteq Event
    BY <1>1, <1>2 DEF IInv, TypeOK, Invoice, Event
  <1>4. TypeOK'
    BY <1>1, <1>3 DEF IInv, TypeOK, members, counters, history
  <1>5. Grows
    BY <1>1 DEF Grows, history
  <1>. QED
    BY <1>1, <1>4, <1>5, RowsStay, HostStays, OutsideStep DEF history

(***************************************************************************)
(* processWebhook: the row it locks gets what the event justifies.         *)
(***************************************************************************)
LEMMA WebhookRowStep ==
    ASSUME IInv, NEW r \in Records, NEW new \in Row, row' = [row EXCEPT ![r] = new],
           UNCHANGED <<period, external, members, used, req, counters, history>>,
           Backed(new, r), Read(new, r)
    PROVE  IInv'
  <1>1. Grows
    BY DEF Grows, external, history
  <1>2. TypeOK'
    BY DEF IInv, TypeOK, external, members, counters, history
  <1>3. ASSUME NEW x \in Records PROVE RowInv(x)'
    <2>1. CASE x = r
      <3>1. row'[x] = new
        BY <2>1 DEF IInv, TypeOK
      <3>. QED
        BY <1>1, <2>1, <3>1, BackedGrows DEF RowInv
    <2>2. CASE x # r
      <3>1. row'[x] = row[x]
        BY <2>2 DEF IInv, TypeOK
      <3>. QED
        BY <1>1, <3>1, BackedGrows DEF IInv, RowInv
    <2>. QED
      BY <2>1, <2>2
  <1>. QED
    BY <1>1, <1>2, <1>3, HostStays, OutsideStep DEF history

LEMMA WebhookStep ==
    ASSUME IInv, NEW e \in events, Webhook(e)
    PROVE  IInv'
  <1>1. PICK r \in Records : \/ WebhookMismatch(e, r)
                             \/ \E to \in PaymentStatus : WebhookApply(e, r, to)
    BY DEF Webhook
  <1>2. /\ row[r] \in Row /\ Backed(row[r], r) /\ Read(row[r], r)
        /\ e \in Event /\ e.tx \in Txs
    BY DEF IInv, TypeOK, RowInv, Event
  <1>3. e.rec = r
    <2>1. e.rec \in Records /\ e.rec = row[r].gatewayReferenceId
      BY <1>1, <1>2 DEF WebhookMismatch, WebhookApply, FoundBy, Event
    <2>. QED
      BY <1>2, <2>1, GatewayAssumption, NullAssumption DEF Backed
  <1>4. CASE WebhookMismatch(e, r)
    <2>. DEFINE new == [row[r] EXCEPT !.status = "FAILED", !.gatewayTransactionId = e.tx]
    <2>1. new \in Row /\ Backed(new, r) /\ Read(new, r)
      BY <1>2, <1>3 DEF Row, PaymentStatus, Backed, Read
    <2>2. row' = [row EXCEPT ![r] = new]
      BY <1>4 DEF WebhookMismatch
    <2>. HIDE DEF new
    <2>. QED
      BY <1>4, <2>1, <2>2, WebhookRowStep DEF WebhookMismatch
  <1>5. ASSUME NEW to \in PaymentStatus, WebhookApply(e, r, to) PROVE IInv'
    <2>. DEFINE new == [row[r] EXCEPT
                           !.status = to,
                           !.paidAt = IF to = "PAID" THEN TRUE ELSE @,
                           !.confirmedBy = IF to = "PAID" THEN "SYSTEM_WEBHOOK" ELSE @,
                           !.gatewayTransactionId = e.tx]
    <2>1. /\ Rupiah(row[r].amountDue) = e.amount
          /\ [from |-> row[r].status, event |-> e.status, to |-> to] \in webhookTransitionMap
      BY <1>5 DEF WebhookApply
    <2>2. /\ to \notin {"PENDING_HOST_REVIEW"}
          /\ to = "PAID" => e.status = "PAID"
          /\ to = "EXPIRED" => e.status = "EXPIRED"
      BY <2>1 DEF webhookTransitionMap
    <2>3. to = "PAID" => Settled(r) /\ Authorised(r)
      BY <1>2, <1>3, <2>1, <2>2 DEF Settled, Authorised, Read
    <2>4. new \in Row
      BY <1>2 DEF Row, Confirmations
    <2>5. /\ new.status = to /\ new.gatewayTransactionId = e.tx
          /\ new.amountDue = row[r].amountDue /\ new.amountPaid = row[r].amountPaid
          /\ new.confirmedBy = IF to = "PAID" THEN "SYSTEM_WEBHOOK" ELSE row[r].confirmedBy
          /\ new.gatewayReferenceId = row[r].gatewayReferenceId
      BY <1>2 DEF Row
    <2>6. row' = [row EXCEPT ![r] = new]
      BY <1>5 DEF WebhookApply
    <2>. HIDE DEF new
    <2>7. Backed(new, r) /\ Read(new, r)
      BY <1>2, <1>3, <2>2, <2>3, <2>5 DEF Backed, Read
    <2>. QED
      BY <1>5, <2>4, <2>6, <2>7, WebhookRowStep DEF WebhookApply
  <1>. QED
    BY <1>1, <1>4, <1>5

LEMMA ClockStep ==
    ASSUME IInv, TimePasses \/ \E r \in Records : KeyExpires(r)
    PROVE  IInv'
  <1>1. /\ clock' = clock \/ clock' = CASE clock = "open" -> "due" [] OTHER -> "late"
        /\ used' \subseteq used
        /\ UNCHANGED <<row, period, members, invoices, events, req, counters, history>>
    BY DEF TimePasses, KeyExpires, external
  <1>2. clock' \in {"open", "due", "late"}
    BY <1>1 DEF IInv, TypeOK
  <1>3. TypeOK'
    BY <1>1, <1>2 DEF IInv, TypeOK, members, counters, history
  <1>4. Grows
    BY <1>1 DEF Grows, history
  <1>. QED
    BY <1>1, <1>3, <1>4, RowsStay, HostStays, OutsideStep DEF history

(***************************************************************************)
(* Every step preserves the inductive invariant.                           *)
(***************************************************************************)
LEMMA NextIInv == IInv /\ [Next]_vars => IInv'
  <1>. SUFFICES ASSUME IInv, [Next]_vars PROVE IInv'
    OBVIOUS
  <1>1. ASSUME NEW q \in Slots, Handler(q) PROVE IInv'
    BY <1>1, BeginStep, DecideStep, FinishStep, MembershipStep, GatewayIssuesStep, FailStep
    DEF Handler
  <1>2. CASE UNCHANGED vars
    <2>1. Grows /\ TypeOK'
      BY <1>2 DEF vars, Grows, IInv, TypeOK
    <2>. QED
      BY <1>2, <2>1, RowsStay, HostStays, OutsideStep DEF vars, members
  <1>. QED
    BY <1>1, <1>2, ReportsStep, WebhookStep, ClockStep DEF Next

(***************************************************************************)
(* In every reachable state the rows, and every snapshot, pending change   *)
(* and judgement a handler carries across its awaits, are justified.       *)
(***************************************************************************)
THEOREM Invariance == Spec => []IInv
  <1>. QED
    BY InitIInv, NextIInv, PTL DEF Spec

(***************************************************************************)
(* Every variable keeps its type: no interleaving writes a row that is not *)
(* a row.                                                                  *)
(***************************************************************************)
THEOREM TypeCorrect == Spec => []TypeOK
  <1>1. IInv => TypeOK
    BY DEF IInv
  <1>. QED
    BY <1>1, Invariance, PTL

(***************************************************************************)
(* A record is PAID only if its host asked for it or the gateway reported  *)
(* its payment.                                                            *)
(***************************************************************************)
THEOREM PaymentsAreAuthorised == Spec => []PaidIsAuthorised
  <1>1. IInv => PaidIsAuthorised
    BY DEF IInv, RowInv, Backed, Paid, PaidIsAuthorised
  <1>. QED
    BY <1>1, Invariance, PTL

(***************************************************************************)
(* What is attributed to the gateway was reported by it, in the amount due,*)
(* and a record's transaction was reported for that record.                *)
(***************************************************************************)
THEOREM GatewayIsQuoted == Spec => [](GatewayAttribution /\ BoundTransactionWasReported)
  <1>1. IInv => GatewayAttribution /\ BoundTransactionWasReported
    BY DEF IInv, RowInv, Backed, GatewayAttribution, BoundTransactionWasReported
  <1>. QED
    BY <1>1, Invariance, PTL

(***************************************************************************)
(* amount_paid was due on that record at some time.                        *)
(***************************************************************************)
THEOREM CollectedWasDue == Spec => []CollectedAmountWasDue
  <1>1. IInv => CollectedAmountWasDue
    BY DEF IInv, RowInv, Backed, CollectedAmountWasDue
  <1>. QED
    BY <1>1, Invariance, PTL

(***************************************************************************)
(* No record expires before the grace days are over, unless the gateway    *)
(* reported its invoice expired.                                           *)
(***************************************************************************)
THEOREM ExpiryIsJustified == Spec => []ExpiredIsJustified
  <1>1. IInv => ExpiredIsJustified
    BY DEF IInv, RowInv, Backed, ExpiredIsJustified
  <1>. QED
    BY <1>1, Invariance, PTL

(***************************************************************************)
(* A confirmation link is burnt only after its report reached the record.  *)
(***************************************************************************)
THEOREM NoLinkIsBurntEarly == Spec => []TokenBurntAfterReport
  <1>1. IInv => TokenBurntAfterReport
    BY DEF IInv, TokenBurntAfterReport
  <1>. QED
    BY <1>1, Invariance, PTL

(***************************************************************************)
(* A COMPLETED period stands for authorised payments of all its records.   *)
(***************************************************************************)
THEOREM CompletionIsBacked == Spec => []CompletedIsBacked
  <1>1. IInv => CompletedIsBacked
    BY DEF IInv, CycleInv, CompletedIsBacked
  <1>. QED
    BY <1>1, Invariance, PTL

(***************************************************************************)
(* Only updateCycleStatus writes the status of the period.                 *)
(***************************************************************************)
LEMMA OnlyCycleWrites ==
    ASSUME [Next]_vars, ~ \E q \in Slots : CycleWrite(q)
    PROVE  period' = period
  <1>1. ASSUME NEW q \in Slots, Begin(q) PROVE period' = period
    BY <1>1 DEF Begin, Accept, ReadRecord, ReadLater, ConfirmPayment, ConfirmManual,
                RemoveMember, AddMember
  <1>2. ASSUME NEW q \in Slots, Decide(q) PROVE period' = period
    <2>1. CASE ConfirmRead(q) \/ LinkCreated(q)
      BY <2>1 DEF ConfirmRead, LinkCreated
    <2>2. CASE \E op \in RecordOperations : Decides(q, op)
      BY <2>2 DEF Decides
    <2>. QED
      BY <1>2, <2>1, <2>2
      DEF Decide, ConfirmDecide, ConfirmManualDecide, HostMarkPaid, WaivePayment, Approve,
          Reject, MarkOverdue, LinkCheckAccess, RecordOperations
  <1>3. ASSUME NEW q \in Slots, Finish(q) PROVE period' = period
    BY <1>3 DEF Finish, UpdateFind, SaveLoad, SaveWrite, BurnToken, CycleRead, CycleJudge,
                CycleLoad
  <1>4. ASSUME NEW q \in Slots, Membership(q) PROVE period' = period
    BY <1>4 DEF Membership, SoftDelete, Restore, Activate, RecalculateShares, SaveShares,
                SyncRead, SyncAmount, SyncDone, ReviveRecord
  <1>5. ASSUME NEW q \in Slots, Handler(q) PROVE period' = period
    BY <1>1, <1>2, <1>3, <1>4, <1>5 DEF Handler, GatewayIssues, Fail
  <1>6. ASSUME NEW i \in invoices, NEW s \in EventStatuses, GatewayReports(i, s)
        PROVE  period' = period
    BY <1>6 DEF GatewayReports
  <1>7. ASSUME NEW e \in events, Webhook(e) PROVE period' = period
    BY <1>7 DEF Webhook, WebhookMismatch, WebhookApply
  <1>8. CASE TimePasses
    BY <1>8 DEF TimePasses
  <1>9. ASSUME NEW r \in Records, KeyExpires(r) PROVE period' = period
    BY <1>9 DEF KeyExpires
  <1>10. CASE UNCHANGED vars
    BY <1>10 DEF vars
  <1>. QED
    BY <1>5, <1>6, <1>7, <1>8, <1>9, <1>10 DEF Next

(***************************************************************************)
(* A period is OVERDUE only past its due date, and never UPCOMING again.   *)
(***************************************************************************)
THEOREM PeriodsMoveOn == Spec => PeriodMoves
  <1>. DEFINE Moves == /\ period # "UPCOMING" => period' # "UPCOMING"
                       /\ period' = "OVERDUE" => clock' # "open"
  <1>1. ASSUME IInv, IInv', [Next]_vars PROVE Moves \/ UNCHANGED <<period, clock>>
    <2>1. period' = "OVERDUE" => clock' # "open"
      BY <1>1 DEF IInv, CycleInv
    <2>2. CASE \E q \in Slots : CycleWrite(q)
      BY <1>1, <2>1, <2>2 DEF CycleWrite, At, IInv, SlotInv
    <2>3. CASE ~ \E q \in Slots : CycleWrite(q)
      <3>1. period' = period
        BY <1>1, <2>3, OnlyCycleWrites
      <3>. QED
        BY <2>1, <3>1
    <2>. QED
      BY <2>2, <2>3
  <1>. QED
    BY <1>1, Invariance, PTL DEF Spec, PeriodMoves

------------------------------------------------------------------------------
(***************************************************************************)
(* One handler at a time.  The life of a record, and the changes of it the *)
(* handlers of the lifecycle make.                                         *)
(***************************************************************************)
lifeOf(v) == [status      |-> v.status,
              confirmedBy |-> v.confirmedBy,
              collected   |-> v.amountPaid # Null,
              dated       |-> v.paidAt]

Handled(a, b) ==
    \/ /\ ensureTransition(a.status, "PENDING_HOST_REVIEW")
       /\ b = [a EXCEPT !.status = "PENDING_HOST_REVIEW", !.confirmedBy = "MEMBER_SELF_REPORT"]
    \/ /\ ensureTransition(a.status, "PAID")
       /\ b = [status |-> "PAID", confirmedBy |-> "HOST_MANUAL",
               collected |-> TRUE, dated |-> TRUE]
    \/ /\ ensureTransition(a.status, "PENDING")
       /\ b = [a EXCEPT !.status = "PENDING", !.dated = FALSE]
    \/ /\ a.status # "PAID" /\ ensureTransition(a.status, "FAILED")
       /\ b = [a EXCEPT !.status = "FAILED", !.confirmedBy = "HOST_MANUAL"]
    \/ /\ ensureTransition(a.status, "REFUNDED")
       /\ b = [a EXCEPT !.status = "REFUNDED", !.confirmedBy = "HOST_MANUAL"]
    \/ /\ ensureTransition(a.status, "AWAITING_GATEWAY")
       /\ b = [a EXCEPT !.status = "AWAITING_GATEWAY"]
    \/ a.status = "PENDING" /\ b = [a EXCEPT !.status = "EXPIRED"]
    \/ b = [a EXCEPT !.status = "PENDING"]

HostPaid(v) == v.status = "PAID" /\ v.confirmedBy = "HOST_MANUAL"
AllHostPaid == \A r \in Records : HostPaid(row[r])

\* What slot s is about to make of a version: nothing, or what one handler does.
\* Who makes a record paid by the host goes on to the period.
Intends(s, old, new) ==
    /\ lifeOf(new) = lifeOf(old) \/ Handled(lifeOf(old), lifeOf(new))
    /\ HostPaid(new) /\ s.next # "cycle" => HostPaid(old)

CyclePCs == {"cycle", "judge", "cycleLoad", "cycleWrite"}

\* What slot s has read is still so.
Fresh(s) ==
    /\ s.pc \in {"seen", "gateway", "linked"} => s.data = row[s.rec]
    /\ s.pc = "update" => Intends(s, row[s.rec], Assign(row[s.rec], s.data, s.fields))
    /\ s.pc \in {"found", "write"} => Intends(s, row[s.rec], s.data)
    /\ s.pc = "write" => \A f \in Fields \ s.fields : s.data[f] = row[s.rec][f]
    /\ s.pc = "judge" => s.cycle = period
    /\ s.pc \in {"cycleLoad", "cycleWrite"} /\ AllHostPaid => s.cycle = "COMPLETED"

\* A period whose records are all settled is completed, or about to be.
Completing ==
    failures = 0 /\ AllHostPaid =>
        period = "COMPLETED" \/ \E q \in Slots : req[q].pc \in CyclePCs

SerialInv == IInv /\ Serial /\ (\A q \in Slots : Fresh(req[q])) /\ Completing

LEMMA SameTransitions ==
    ASSUME NEW from, NEW to
    PROVE  Lifecycle!ensureTransition(from, to) <=> ensureTransition(from, to)
  BY DEF Lifecycle!ensureTransition, ensureTransition, Lifecycle!transitionMap, transitionMap

LEMMA LifeType ==
    ASSUME NEW v \in Row
    PROVE  lifeOf(v) \in Lifecycle!Life
  BY DEF lifeOf, Row, Lifecycle!Life, PaymentStatus, Lifecycle!PaymentStatus, Confirmations

(***************************************************************************)
(* Writing a row its handler intended is a step of the lifecycle.          *)
(***************************************************************************)
LEMMA LifeReplaced ==
    ASSUME IInv, NEW r \in Records, NEW new \in Row, row' = [row EXCEPT ![r] = new]
    PROVE  /\ life \in [Records -> Lifecycle!Life] /\ life[r] = lifeOf(row[r])
           /\ life' = [life EXCEPT ![r] = lifeOf(new)]
  <1>1. row \in [Records -> Row]
    BY DEF IInv, TypeOK
  <1>2. \A v \in Row : lifeOf(v) \in Lifecycle!Life
    BY LifeType
  <1>3. \A x \in Records : life[x] = lifeOf(row[x]) /\ life[x] \in Lifecycle!Life
    BY <1>1, <1>2 DEF life, lifeOf
  <1>4. \A x \in Records : life'[x] = lifeOf(row'[x])
    BY DEF life, lifeOf
  <1>5. \A x \in Records : row'[x] = IF x = r THEN new ELSE row[x]
    BY <1>1
  <1>6. DOMAIN life = Records /\ DOMAIN life' = Records /\ life \in [Records -> Lifecycle!Life]
    BY <1>3 DEF life
  <1>7. life' = [x \in Records |-> IF x = r THEN lifeOf(new) ELSE life[x]]
    <2>1. \A x \in Records : life'[x] = IF x = r THEN lifeOf(new) ELSE life[x]
      BY <1>3, <1>4, <1>5
    <2>. QED
      BY <2>1 DEF life
  <1>. QED
    BY <1>3, <1>6, <1>7

LEMMA HandledIsAStep ==
    ASSUME IInv, NEW r \in Records, NEW new \in Row, row' = [row EXCEPT ![r] = new],
           lifeOf(new) = lifeOf(row[r]) \/ Handled(lifeOf(row[r]), lifeOf(new))
    PROVE  [Lifecycle!Next]_life
  <1>1. /\ life \in [Records -> Lifecycle!Life] /\ life[r] = lifeOf(row[r])
        /\ life' = [life EXCEPT ![r] = lifeOf(new)]
    BY LifeReplaced
  <1>. DEFINE a == lifeOf(row[r])
              b == lifeOf(new)
              \* The life of r becomes b.
              Becomes == life[r] = a /\ life' = [life EXCEPT ![r] = b]
  <1>2. Becomes /\ (b = a \/ Handled(a, b)) /\ life[r] \in Lifecycle!Life
    BY <1>1
  <1>. HIDE DEF a, b
  <1>3. CASE b = a
    BY <1>1, <1>2, <1>3
  <1>4. CASE /\ ensureTransition(a.status, "PENDING_HOST_REVIEW")
             /\ b = [a EXCEPT !.status = "PENDING_HOST_REVIEW",
                              !.confirmedBy = "MEMBER_SELF_REPORT"]
    <2>1. Lifecycle!SelfReport(r)
      BY <1>2, <1>4, SameTransitions DEF Lifecycle!SelfReport, Lifecycle!Move, Lifecycle!Life
    <2>. QED
      BY <2>1 DEF Lifecycle!Next
  <1>5. CASE /\ ensureTransition(a.status, "PAID")
             /\ b = [status |-> "PAID", confirmedBy |-> "HOST_MANUAL",
                     collected |-> TRUE, dated |-> TRUE]
    <2>1. Lifecycle!HostPaid(r)
      BY <1>2, <1>5, SameTransitions DEF Lifecycle!HostPaid, Lifecycle!Move
    <2>. QED
      BY <2>1 DEF Lifecycle!Next
  <1>6. CASE /\ ensureTransition(a.status, "PENDING")
             /\ b = [a EXCEPT !.status = "PENDING", !.dated = FALSE]
    <2>1. Lifecycle!Reject(r)
      BY <1>2, <1>6, SameTransitions DEF Lifecycle!Reject, Lifecycle!Move, Lifecycle!Life
    <2>. QED
      BY <2>1 DEF Lifecycle!Next
  <1>7. CASE /\ a.status # "PAID" /\ ensureTransition(a.status, "FAILED")
             /\ b = [a EXCEPT !.status = "FAILED", !.confirmedBy = "HOST_MANUAL"]
    <2>1. Lifecycle!Waive(r)
      BY <1>2, <1>7, SameTransitions DEF Lifecycle!Waive, Lifecycle!Move, Lifecycle!Life
    <2>. QED
      BY <2>1 DEF Lifecycle!Next
  <1>8. CASE /\ ensureTransition(a.status, "REFUNDED")
             /\ b = [a EXCEPT !.status = "REFUNDED", !.confirmedBy = "HOST_MANUAL"]
    <2>1. Lifecycle!Refund(r)
      BY <1>2, <1>8, SameTransitions DEF Lifecycle!Refund, Lifecycle!Move, Lifecycle!Life
    <2>. QED
      BY <2>1 DEF Lifecycle!Next
  <1>9. CASE /\ ensureTransition(a.status, "AWAITING_GATEWAY")
             /\ b = [a EXCEPT !.status = "AWAITING_GATEWAY"]
    <2>1. Lifecycle!OpenLink(r)
      BY <1>2, <1>9, SameTransitions DEF Lifecycle!OpenLink, Lifecycle!Move, Lifecycle!Life
    <2>. QED
      BY <2>1 DEF Lifecycle!Next
  <1>10. CASE a.status = "PENDING" /\ b = [a EXCEPT !.status = "EXPIRED"]
    <2>1. Lifecycle!Expire(r)
      BY <1>2, <1>10 DEF Lifecycle!Expire, Lifecycle!Life
    <2>. QED
      BY <2>1 DEF Lifecycle!Next
  <1>11. CASE b = [a EXCEPT !.status = "PENDING"]
    <2>1. Lifecycle!Revive(r)
      BY <1>2, <1>11 DEF Lifecycle!Revive, Lifecycle!Life
    <2>. QED
      BY <2>1 DEF Lifecycle!Next
  <1>. QED
    BY <1>2, <1>3, <1>4, <1>5, <1>6, <1>7, <1>8, <1>9, <1>10, <1>11 DEF Handled

LEMMA LifeColumns ==
    ASSUME NEW e \in Lifecycle!Life
    PROVE  e = [status |-> e.status, confirmedBy |-> e.confirmedBy,
                collected |-> e.collected, dated |-> e.dated]
  BY DEF Lifecycle!Life

\* What becomes of a life when no amount is entered.
LEMMA LifeExcept ==
    ASSUME NEW v \in Row, NEW w \in Row, w.amountPaid = v.amountPaid
    PROVE  LET a == lifeOf(v)
           IN  /\ lifeOf(w) = [a EXCEPT !.status = w.status, !.dated = w.paidAt,
                                        !.confirmedBy = w.confirmedBy]
               /\ w.paidAt = v.paidAt =>
                     lifeOf(w) = [a EXCEPT !.status = w.status, !.confirmedBy = w.confirmedBy]
               /\ w.confirmedBy = v.confirmedBy =>
                     lifeOf(w) = [a EXCEPT !.status = w.status, !.dated = w.paidAt]
               /\ w.paidAt = v.paidAt /\ w.confirmedBy = v.confirmedBy =>
                     lifeOf(w) = [a EXCEPT !.status = w.status]
  <1>1. PICK a \in Lifecycle!Life, b \in Lifecycle!Life : a = lifeOf(v) /\ b = lifeOf(w)
    BY LifeType
  <1>2. PICK s \in Lifecycle!PaymentStatus, c \in Confirmations \cup {Null}, d \in BOOLEAN :
           s = w.status /\ c = w.confirmedBy /\ d = w.paidAt
    BY DEF Row, PaymentStatus, Lifecycle!PaymentStatus
  <1>3. /\ b.status = s /\ b.confirmedBy = c /\ b.dated = d
        /\ a.confirmedBy = v.confirmedBy /\ a.dated = v.paidAt
    BY <1>1, <1>2 DEF lifeOf
  <1>4. b.collected = a.collected
    BY <1>1 DEF lifeOf
  <1>. DEFINE e1 == [a EXCEPT !.status = s, !.dated = d, !.confirmedBy = c]
              e2 == [a EXCEPT !.status = s, !.confirmedBy = c]
              e3 == [a EXCEPT !.status = s, !.dated = d]
              e4 == [a EXCEPT !.status = s]
  <1>5. /\ e1 \in Lifecycle!Life /\ e1.status = s /\ e1.confirmedBy = c /\ e1.dated = d
        /\ e1.collected = a.collected
    BY DEF Lifecycle!Life, Confirmations
  <1>6. /\ e2 \in Lifecycle!Life /\ e2.status = s /\ e2.confirmedBy = c /\ e2.dated = a.dated
        /\ e2.collected = a.collected
    BY DEF Lifecycle!Life, Confirmations
  <1>7. /\ e3 \in Lifecycle!Life /\ e3.status = s /\ e3.confirmedBy = a.confirmedBy
        /\ e3.dated = d /\ e3.collected = a.collected
    BY DEF Lifecycle!Life, Confirmations
  <1>8. /\ e4 \in Lifecycle!Life /\ e4.status = s /\ e4.confirmedBy = a.confirmedBy
        /\ e4.dated = a.dated /\ e4.collected = a.collected
    BY DEF Lifecycle!Life, Confirmations
  <1>. HIDE DEF e1, e2, e3, e4
  <1>9. b = e1
    BY <1>3, <1>4, <1>5, LifeColumns
  <1>10. a.dated = d => b = e2
    BY <1>3, <1>4, <1>6, LifeColumns
  <1>11. a.confirmedBy = c => b = e3
    BY <1>3, <1>4, <1>7, LifeColumns
  <1>12. a.dated = d /\ a.confirmedBy = c => b = e4
    BY <1>3, <1>4, <1>8, LifeColumns
  <1>. QED
    BY <1>1, <1>2, <1>3, <1>9, <1>10, <1>11, <1>12 DEF e1, e2, e3, e4

(***************************************************************************)
(* A webhook is a step of the lifecycle, and leaves no record paid by the  *)
(* host.                                                                   *)
(***************************************************************************)
LEMMA WebhookIsAStep ==
    ASSUME IInv, NEW e \in events, Webhook(e)
    PROVE  [Lifecycle!Next]_life /\ ~AllHostPaid'
  <1>1. PICK r \in Records :
           WebhookMismatch(e, r) \/ \E to \in PaymentStatus : WebhookApply(e, r, to)
    BY DEF Webhook
  <1>2. row \in [Records -> Row] /\ row[r] \in Row /\ e \in Event
    BY DEF IInv, TypeOK
  <1>old. PICK old \in Row : old = row[r]
    BY <1>2
  <1>3. CASE WebhookMismatch(e, r)
    <2>. DEFINE new == [row[r] EXCEPT !.status = "FAILED", !.gatewayTransactionId = e.tx]
    <2>1. /\ new \in Row /\ new.status = "FAILED" /\ new.confirmedBy = row[r].confirmedBy
          /\ new.paidAt = row[r].paidAt /\ new.amountPaid = row[r].amountPaid
      BY <1>2 DEF Row, Event, PaymentStatus
    <2>2. row' = [row EXCEPT ![r] = new]
      BY <1>3 DEF WebhookMismatch
    <2>. HIDE DEF new
    <2>3. /\ life \in [Records -> Lifecycle!Life] /\ life[r] = lifeOf(row[r])
          /\ life' = [life EXCEPT ![r] = lifeOf(new)]
      BY <2>1, <2>2, LifeReplaced
    <2>4. Lifecycle!GatewayMismatch(r)
      <3>1. lifeOf(new) = [lifeOf(old) EXCEPT !.status = "FAILED"]
        <4>1. /\ new.amountPaid = old.amountPaid /\ new.paidAt = old.paidAt
              /\ new.confirmedBy = old.confirmedBy
          BY <1>old, <2>1
        <4>2. lifeOf(new) = [lifeOf(old) EXCEPT !.status = new.status]
          BY <2>1, <4>1, LifeExcept
        <4>. QED
          BY <2>1, <4>2
      <3>. QED
        BY <1>old, <2>3, <3>1 DEF Lifecycle!GatewayMismatch
    <2>5. row'[r].status = "FAILED"
      BY <1>2, <2>1, <2>2
    <2>. QED
      BY <2>4, <2>5 DEF Lifecycle!Next, AllHostPaid, HostPaid
  <1>4. ASSUME NEW to \in PaymentStatus, WebhookApply(e, r, to)
        PROVE  [Lifecycle!Next]_life /\ ~AllHostPaid'
    <2>. DEFINE new == [row[r] EXCEPT
                           !.status = to,
                           !.paidAt = IF to = "PAID" THEN TRUE ELSE @,
                           !.confirmedBy = IF to = "PAID" THEN "SYSTEM_WEBHOOK" ELSE @,
                           !.gatewayTransactionId = e.tx]
    <2>1. /\ new \in Row /\ new.status = to /\ new.amountPaid = row[r].amountPaid
          /\ new.paidAt = IF to = "PAID" THEN TRUE ELSE row[r].paidAt
          /\ new.confirmedBy = IF to = "PAID" THEN "SYSTEM_WEBHOOK" ELSE row[r].confirmedBy
      BY <1>2 DEF Row, Event, Confirmations
    <2>3. row' = [row EXCEPT ![r] = new]
      BY <1>4 DEF WebhookApply
    <2>4. [from |-> row[r].status, event |-> e.status, to |-> to] \in webhookTransitionMap
      BY <1>4 DEF WebhookApply
    <2>. HIDE DEF new
    <2>5. /\ life \in [Records -> Lifecycle!Life] /\ life[r] = lifeOf(row[r])
          /\ life' = [life EXCEPT ![r] = lifeOf(new)]
      BY <2>1, <2>3, LifeReplaced
    <2>6. life[r].status = row[r].status /\ life[r].confirmedBy = row[r].confirmedBy
          /\ life[r].dated = row[r].paidAt
      BY <2>5 DEF lifeOf
    <2>7. Lifecycle!GatewayEvent(r, e.status, to)
      <3>1. lifeOf(new) = [lifeOf(old) EXCEPT !.status = new.status, !.dated = new.paidAt,
                                              !.confirmedBy = new.confirmedBy]
        BY <1>old, <2>1, LifeExcept
      <3>2. lifeOf(new) = [life[r] EXCEPT
                              !.status = to,
                              !.dated = IF to = "PAID" THEN TRUE ELSE life[r].dated,
                              !.confirmedBy = IF to = "PAID" THEN "SYSTEM_WEBHOOK"
                                              ELSE life[r].confirmedBy]
        BY <1>old, <2>1, <2>5, <2>6, <3>1
      <3>3. [from |-> life[r].status, event |-> e.status, to |-> to]
               \in Lifecycle!webhookTransitionMap
        BY <2>4, <2>6 DEF Lifecycle!webhookTransitionMap, webhookTransitionMap
      <3>. QED
        BY <2>5, <3>2, <3>3 DEF Lifecycle!GatewayEvent
    <2>8. e.status \in Lifecycle!GatewayStatus /\ to \in Lifecycle!PaymentStatus
      BY <1>2, <1>4
      DEF Event, GatewayStatus, PaymentStatus, Lifecycle!GatewayStatus, Lifecycle!PaymentStatus
    <2>9. row'[r] = new
      BY <1>2, <2>3
    <2>10. ~HostPaid(new)
      BY <2>1 DEF HostPaid
    <2>. QED
      BY <2>7, <2>8, <2>9, <2>10 DEF Lifecycle!Next, AllHostPaid
  <1>. QED
    BY <1>1, <1>3, <1>4

(***************************************************************************)
(* What each handler intends, once it has seen the row as it is.           *)
(***************************************************************************)
LEMMA AssignAll ==
    ASSUME NEW old \in Row, NEW new \in Row, NEW fields,
           \A f \in Fields \ fields : new[f] = old[f]
    PROVE  Assign(old, new, fields) = new
  <1>1. PICK a \in Row : /\ a = Assign(old, new, fields)
                         /\ \A f \in Fields : a[f] = new[f]
    BY AssignColumns
  <1>2. DOMAIN a = Fields /\ DOMAIN new = Fields
    BY DEF Row, Fields
  <1>. QED
    BY <1>1, <1>2 DEF Row, Fields

LEMMA SelfReportIntended ==
    ASSUME NEW s, NEW old \in Row, ensureTransition(old.status, "PENDING_HOST_REVIEW")
    PROVE  Intends(s, old, Assign(old, SelfReported(old), {"status", "confirmedBy"}))
  <1>. DEFINE new == SelfReported(old)
  <1>1. /\ new \in Row /\ new.amountPaid = old.amountPaid /\ new.paidAt = old.paidAt
        /\ new.status = "PENDING_HOST_REVIEW" /\ new.confirmedBy = "MEMBER_SELF_REPORT"
        /\ \A f \in Fields \ {"status", "confirmedBy"} : new[f] = old[f]
    BY DEF SelfReported, Row, Fields, PaymentStatus, Confirmations
  <1>. HIDE DEF new
  <1>2. lifeOf(new) = [lifeOf(old) EXCEPT !.status = new.status,
                                          !.confirmedBy = new.confirmedBy]
    BY <1>1, LifeExcept
  <1>3. (lifeOf(old)).status = old.status
    BY DEF lifeOf
  <1>4. Handled(lifeOf(old), lifeOf(new)) /\ ~HostPaid(new)
    BY <1>1, <1>2, <1>3 DEF Handled, HostPaid
  <1>5. Assign(old, new, {"status", "confirmedBy"}) = new
    BY <1>1, AssignAll
  <1>. QED
    BY <1>4, <1>5 DEF Intends, new

LEMMA PaidIntended ==
    ASSUME NEW s, NEW old \in Row, ensureTransition(old.status, "PAID"), s.next = "cycle"
    PROVE  Intends(s, old, Assign(old, PaidByHost(old),
                                  {"status", "amountPaid", "paidAt", "confirmedBy"}))
  <1>. DEFINE new == PaidByHost(old)
              fields == {"status", "amountPaid", "paidAt", "confirmedBy"}
  <1>1. /\ new \in Row /\ new.amountPaid = old.amountDue /\ new.paidAt = TRUE
        /\ new.status = "PAID" /\ new.confirmedBy = "HOST_MANUAL"
        /\ \A f \in Fields \ fields : new[f] = old[f]
    BY DEF PaidByHost, Row, Fields, PaymentStatus, Confirmations
  <1>2. new.amountPaid # Null
    BY <1>1, NullAssumption DEF Row
  <1>. HIDE DEF new
  <1>3. lifeOf(new) = [status |-> "PAID", confirmedBy |-> "HOST_MANUAL",
                       collected |-> TRUE, dated |-> TRUE]
    BY <1>1, <1>2 DEF lifeOf
  <1>4. (lifeOf(old)).status = old.status
    BY DEF lifeOf
  <1>5. Handled(lifeOf(old), lifeOf(new))
    BY <1>3, <1>4 DEF Handled
  <1>6. Assign(old, new, fields) = new
    BY <1>1, AssignAll
  <1>. QED
    BY <1>5, <1>6 DEF Intends, new

LEMMA WaiveIntended ==
    ASSUME NEW s, NEW old \in Row, NEW target \in {"REFUNDED", "FAILED"},
           ensureTransition(old.status, target), target = "FAILED" => old.status # "PAID"
    PROVE  LET new == [old EXCEPT !.status = target, !.confirmedBy = "HOST_MANUAL"]
           IN  Intends(s, old, Assign(old, new, {"status", "confirmedBy"}))
  <1>. DEFINE new == [old EXCEPT !.status = target, !.confirmedBy = "HOST_MANUAL"]
  <1>1. /\ new \in Row /\ new.amountPaid = old.amountPaid /\ new.paidAt = old.paidAt
        /\ new.status = target /\ new.confirmedBy = "HOST_MANUAL"
        /\ \A f \in Fields \ {"status", "confirmedBy"} : new[f] = old[f]
    BY DEF Row, Fields, PaymentStatus, Confirmations
  <1>. HIDE DEF new
  <1>2. lifeOf(new) = [lifeOf(old) EXCEPT !.status = new.status,
                                          !.confirmedBy = new.confirmedBy]
    BY <1>1, LifeExcept
  <1>3. (lifeOf(old)).status = old.status
    BY DEF lifeOf
  <1>4. Handled(lifeOf(old), lifeOf(new)) /\ ~HostPaid(new)
    BY <1>1, <1>2, <1>3 DEF Handled, HostPaid
  <1>5. Assign(old, new, {"status", "confirmedBy"}) = new
    BY <1>1, AssignAll
  <1>. QED
    BY <1>4, <1>5 DEF Intends, new

LEMMA RejectIntended ==
    ASSUME NEW s, NEW old \in Row, ensureTransition(old.status, "PENDING")
    PROVE  Intends(s, old, Assign(old, Rejected(old),
                                  {"status", "amountPaid", "paidAt", "confirmedBy"}))
  <1>. DEFINE new == Rejected(old)
              fields == {"status", "amountPaid", "paidAt", "confirmedBy"}
  <1>1. /\ new \in Row /\ new.amountPaid = old.amountPaid /\ new.paidAt = FALSE
        /\ new.status = "PENDING" /\ new.confirmedBy = old.confirmedBy
        /\ \A f \in Fields \ fields : new[f] = old[f]
    BY DEF Rejected, Row, Fields, PaymentStatus, Confirmations
  <1>. HIDE DEF new
  <1>2. lifeOf(new) = [lifeOf(old) EXCEPT !.status = new.status, !.dated = new.paidAt]
    BY <1>1, LifeExcept
  <1>3. (lifeOf(old)).status = old.status
    BY DEF lifeOf
  <1>4. Handled(lifeOf(old), lifeOf(new)) /\ ~HostPaid(new)
    BY <1>1, <1>2, <1>3 DEF Handled, HostPaid
  <1>5. Assign(old, new, fields) = new
    BY <1>1, AssignAll
  <1>. QED
    BY <1>4, <1>5 DEF Intends, new

LEMMA ExpireIntended ==
    ASSUME NEW s, NEW old \in Row, old.status = "PENDING"
    PROVE  Intends(s, old, Assign(old, [old EXCEPT !.status = "EXPIRED"], {"status"}))
  <1>. DEFINE new == [old EXCEPT !.status = "EXPIRED"]
  <1>1. /\ new \in Row /\ new.amountPaid = old.amountPaid /\ new.paidAt = old.paidAt
        /\ new.status = "EXPIRED" /\ new.confirmedBy = old.confirmedBy
        /\ \A f \in Fields \ {"status"} : new[f] = old[f]
    BY DEF Row, Fields, PaymentStatus
  <1>. HIDE DEF new
  <1>2. lifeOf(new) = [lifeOf(old) EXCEPT !.status = new.status]
    BY <1>1, LifeExcept
  <1>3. (lifeOf(old)).status = old.status
    BY DEF lifeOf
  <1>4. Handled(lifeOf(old), lifeOf(new)) /\ ~HostPaid(new)
    BY <1>1, <1>2, <1>3 DEF Handled, HostPaid
  <1>5. Assign(old, new, {"status"}) = new
    BY <1>1, AssignAll
  <1>. QED
    BY <1>4, <1>5 DEF Intends, new

LEMMA LinkIntended ==
    ASSUME NEW s, NEW old \in Row, NEW reference \in Records \cup {SnapToken, Null},
           ensureTransition(old.status, "AWAITING_GATEWAY")
    PROVE  LET new == [old EXCEPT !.status = "AWAITING_GATEWAY",
                                  !.gatewayReferenceId = reference]
           IN  Intends(s, old, Assign(old, new, {"status", "gatewayReferenceId"}))
  <1>. DEFINE new == [old EXCEPT !.status = "AWAITING_GATEWAY",
                                 !.gatewayReferenceId = reference]
  <1>1. /\ new \in Row /\ new.amountPaid = old.amountPaid /\ new.paidAt = old.paidAt
        /\ new.status = "AWAITING_GATEWAY" /\ new.confirmedBy = old.confirmedBy
        /\ \A f \in Fields \ {"status", "gatewayReferenceId"} : new[f] = old[f]
    BY DEF Row, Fields, PaymentStatus
  <1>. HIDE DEF new
  <1>2. lifeOf(new) = [lifeOf(old) EXCEPT !.status = new.status]
    BY <1>1, LifeExcept
  <1>3. (lifeOf(old)).status = old.status
    BY DEF lifeOf
  <1>4. Handled(lifeOf(old), lifeOf(new)) /\ ~HostPaid(new)
    BY <1>1, <1>2, <1>3 DEF Handled, HostPaid
  <1>5. Assign(old, new, {"status", "gatewayReferenceId"}) = new
    BY <1>1, AssignAll
  <1>. QED
    BY <1>4, <1>5 DEF Intends, new

LEMMA SyncIntended ==
    ASSUME NEW s, NEW old \in Row, NEW due \in Nat
    PROVE  Intends(s, old, Assign(old, PendingRow(due), {"amountDue"}))
  <1>1. PICK a \in Row : /\ a = Assign(old, PendingRow(due), {"amountDue"})
                         /\ a.status = old.status /\ a.confirmedBy = old.confirmedBy
                         /\ a.amountPaid = old.amountPaid /\ a.paidAt = old.paidAt
    <2>1. Assign(old, PendingRow(due), {"amountDue"}) \in Row
      BY PendingRowType, AssignColumns
    <2>. QED
      BY <2>1 DEF Assign
  <1>2. lifeOf(a) = lifeOf(old)
    BY <1>1 DEF lifeOf
  <1>. QED
    BY <1>1, <1>2 DEF Intends, HostPaid

LEMMA ReviveIntended ==
    ASSUME NEW s, NEW old \in Row, NEW due \in Nat
    PROVE  Intends(s, old, Assign(old, PendingRow(due), {"amountDue", "status"}))
  <1>1. PICK a \in Row : /\ a = Assign(old, PendingRow(due), {"amountDue", "status"})
                         /\ a.status = "PENDING" /\ a.confirmedBy = old.confirmedBy
                         /\ a.amountPaid = old.amountPaid /\ a.paidAt = old.paidAt
    <2>1. Assign(old, PendingRow(due), {"amountDue", "status"}) \in Row
      BY PendingRowType, AssignColumns
    <2>. QED
      BY <2>1 DEF Assign, PendingRow
  <1>2. lifeOf(a) = [lifeOf(old) EXCEPT !.status = a.status]
    BY <1>1, LifeExcept
  <1>3. Handled(lifeOf(old), lifeOf(a)) /\ ~HostPaid(a)
    BY <1>1, <1>2 DEF Handled, HostPaid
  <1>. QED
    BY <1>1, <1>3 DEF Intends

\* What is to show of every step.
SerialStep ==
    (\A p \in Slots : Fresh(req[p]))' /\ Completing' /\ [Lifecycle!Next]_life

(***************************************************************************)
(* A step of slot q that writes neither a row nor the period: what the     *)
(* other slots have read stays so.                                         *)
(***************************************************************************)
LEMMA ReadingStep ==
    ASSUME SerialInv, NEW q \in Slots, NEW s, req' = [req EXCEPT ![q] = s],
           row' = row, period' = period, failures' = 0 => failures = 0, Fresh(s),
           (/\ failures' = 0 /\ AllHostPaid
            /\ req[q].pc \in CyclePCs) => s.pc \in CyclePCs \/ period = "COMPLETED"
    PROVE  SerialStep
  <1>1. req \in [Slots -> Slot]
    BY DEF SerialInv, IInv, TypeOK
  <1>2. ASSUME NEW t, Fresh(t) PROVE Fresh(t)'
    BY <1>2 DEF Fresh, AllHostPaid
  <1>3. \A p \in Slots : req'[p] = IF p = q THEN s ELSE req[p]
    BY <1>1
  <1>4. \A p \in Slots : Fresh(req[p])'
    <2>. TAKE p \in Slots
    <2>1. PICK t : t = req'[p] /\ (t = s \/ t = req[p])
      BY <1>3
    <2>2. Fresh(t)'
      BY <1>2, <2>1 DEF SerialInv
    <2>. QED
      BY <2>1, <2>2 DEF Fresh
  <1>5. Completing'
    BY <1>3 DEF SerialInv, Completing, AllHostPaid
  <1>6. life' = life
    BY DEF life
  <1>. QED
    BY <1>4, <1>5, <1>6 DEF SerialStep

Reads == row' = row /\ period' = period /\ failures' = failures

LEMMA ReplyKeeps ==
    ASSUME SerialInv, NEW q \in Slots, Reply(q), Reads, req[q].pc \notin CyclePCs
    PROVE  SerialStep
  <1>1. Fresh(Idle)
    BY DEF Fresh, Idle
  <1>. QED
    BY <1>1, ReadingStep DEF Reply, Reads

\* Where what was read is not needed any more, or is needed as it was.
LEMMA GotoKeeps ==
    ASSUME SerialInv, NEW q \in Slots, NEW pc, Goto(q, pc), Reads, req[q].pc \notin CyclePCs,
           \/ pc \in {"burn", "cycle", "recalculate", "activate", "revive"}
           \/ req[q].pc \in {"seen", "gateway"} /\ pc \in {"gateway", "linked"}
    PROVE  SerialStep
  <1>1. req[q] \in Slot /\ Fresh(req[q])
    BY DEF SerialInv, IInv, TypeOK
  <1>2. PICK s : s = [req[q] EXCEPT !.pc = pc]
    OBVIOUS
  <1>3. s.pc = pc /\ s.data = req[q].data /\ s.rec = req[q].rec
    BY <1>1, <1>2 DEF Slot
  <1>4. Fresh(s)
    BY <1>1, <1>3 DEF Fresh
  <1>5. req' = [req EXCEPT ![q] = s]
    BY <1>2 DEF Goto
  <1>. QED
    BY <1>4, <1>5, ReadingStep DEF Reads

LEMMA UpdateKeeps ==
    ASSUME SerialInv, NEW q \in Slots, NEW r \in Records, r = req[q].rec,
           NEW data, NEW fields, NEW next,
           Update(q, data, fields, next), Reads, req[q].pc \notin CyclePCs,
           \A s : s.next = next => Intends(s, row[r], Assign(row[r], data, fields))
    PROVE  SerialStep
  <1>1. req[q] \in Slot
    BY DEF SerialInv, IInv, TypeOK
  <1>2. PICK s : s = [req[q] EXCEPT !.pc = "update", !.data = data, !.fields = fields,
                                    !.next = next]
    OBVIOUS
  <1>3. /\ s.pc = "update" /\ s.data = data /\ s.rec = r /\ s.fields = fields
        /\ s.next = next
    BY <1>1, <1>2 DEF Slot
  <1>4. Fresh(s)
    BY <1>3 DEF Fresh
  <1>5. req' = [req EXCEPT ![q] = s]
    BY <1>2 DEF Update
  <1>. QED
    BY <1>4, <1>5, ReadingStep DEF Reads

(***************************************************************************)
(* The decisions.                                                          *)
(***************************************************************************)
LEMMA SeenIsSo ==
    ASSUME SerialInv, NEW q \in Slots, req[q].pc \in {"seen", "linked"}
    PROVE  /\ req[q].rec \in Records /\ req[q].data \in Row
           /\ req[q].data = row[req[q].rec] /\ req[q].pc \notin CyclePCs
  <1>1. req[q] \in Slot /\ SlotInv(req[q]) /\ Fresh(req[q])
    BY DEF SerialInv, IInv, TypeOK
  <1>. QED
    BY <1>1 DEF Slot, SlotInv, RecordPCs, Fresh, CyclePCs

\* A decision that writes nothing, and one that leads to an update.
LEMMA DecisionReplies ==
    ASSUME SerialInv, NEW q \in Slots, req[q].pc \in {"seen", "linked"}, Reads,
           \/ Reply(q)
           \/ req[q].pc = "seen" /\ (Goto(q, "burn") \/ Goto(q, "gateway"))
    PROVE  SerialStep
  <1>1. req[q].pc \notin CyclePCs
    BY SeenIsSo
  <1>2. CASE Reply(q)
    BY <1>1, <1>2, ReplyKeeps
  <1>3. CASE req[q].pc = "seen" /\ (Goto(q, "burn") \/ Goto(q, "gateway"))
    BY <1>1, <1>3, GotoKeeps
  <1>. QED
    BY <1>2, <1>3

LEMMA DecisionUpdates ==
    ASSUME SerialInv, NEW q \in Slots, req[q].pc \in {"seen", "linked"}, Reads,
           NEW old \in Row, old = req[q].data,
           \/ /\ ensureTransition(old.status, "PENDING_HOST_REVIEW")
              /\ \/ Update(q, SelfReported(old), {"status", "confirmedBy"}, "burn")
                 \/ Update(q, SelfReported(old), {"status", "confirmedBy"}, "idle")
           \/ /\ ensureTransition(old.status, "PAID")
              /\ Update(q, PaidByHost(old),
                        {"status", "amountPaid", "paidAt", "confirmedBy"}, "cycle")
           \/ /\ ensureTransition(old.status, "PENDING")
              /\ Update(q, Rejected(old),
                        {"status", "amountPaid", "paidAt", "confirmedBy"}, "idle")
           \/ /\ old.status = "PENDING"
              /\ Update(q, [old EXCEPT !.status = "EXPIRED"], {"status"}, "idle")
    PROVE  SerialStep
  <1>1. PICK r \in Records : r = req[q].rec /\ old = row[r] /\ req[q].pc \notin CyclePCs
    BY SeenIsSo
  <1>2. CASE /\ ensureTransition(old.status, "PENDING_HOST_REVIEW")
             /\ \/ Update(q, SelfReported(old), {"status", "confirmedBy"}, "burn")
                \/ Update(q, SelfReported(old), {"status", "confirmedBy"}, "idle")
    <2>1. \A s : Intends(s, row[r], Assign(row[r], SelfReported(old), {"status", "confirmedBy"}))
      BY <1>1, <1>2, SelfReportIntended
    <2>. QED
      BY <1>1, <1>2, <2>1, UpdateKeeps
  <1>3. CASE /\ ensureTransition(old.status, "PAID")
             /\ Update(q, PaidByHost(old),
                       {"status", "amountPaid", "paidAt", "confirmedBy"}, "cycle")
    <2>1. \A s : s.next = "cycle" =>
                    Intends(s, row[r], Assign(row[r], PaidByHost(old),
                                 {"status", "amountPaid", "paidAt", "confirmedBy"}))
      BY <1>1, <1>3, PaidIntended
    <2>. QED
      BY <1>1, <1>3, <2>1, UpdateKeeps
  <1>4. CASE /\ ensureTransition(old.status, "PENDING")
             /\ Update(q, Rejected(old),
                       {"status", "amountPaid", "paidAt", "confirmedBy"}, "idle")
    <2>1. \A s : Intends(s, row[r], Assign(row[r], Rejected(old),
                            {"status", "amountPaid", "paidAt", "confirmedBy"}))
      BY <1>1, <1>4, RejectIntended
    <2>. QED
      BY <1>1, <1>4, <2>1, UpdateKeeps
  <1>5. CASE /\ old.status = "PENDING"
             /\ Update(q, [old EXCEPT !.status = "EXPIRED"], {"status"}, "idle")
    <2>1. \A s : Intends(s, row[r], Assign(row[r], [old EXCEPT !.status = "EXPIRED"],
                                          {"status"}))
      BY <1>1, <1>5, ExpireIntended
    <2>. QED
      BY <1>1, <1>5, <2>1, UpdateKeeps
  <1>. QED
    BY <1>2, <1>3, <1>4, <1>5

LEMMA DecideKeeps ==
    ASSUME SerialInv, NEW q \in Slots, Decide(q)
    PROVE  SerialStep
  <1>1. CASE ConfirmRead(q)
    <2>1. req[q] \in Slot
      BY DEF SerialInv, IInv, TypeOK
    <2>2. PICK s : s = [req[q] EXCEPT !.pc = "seen", !.data = row[req[q].rec]]
      OBVIOUS
    <2>3. s.pc = "seen" /\ s.data = row[s.rec] /\ req' = [req EXCEPT ![q] = s]
      BY <1>1, <2>1, <2>2 DEF Slot, ConfirmRead
    <2>4. Fresh(s)
      BY <2>3 DEF Fresh
    <2>5. req[q].pc \notin CyclePCs /\ Reads
      BY <1>1 DEF ConfirmRead, At, CyclePCs, Reads, counters
    <2>. QED
      BY <2>3, <2>4, <2>5, ReadingStep DEF Reads
  <1>2. CASE WaivePayment(q)
    <2>1. Reads /\ req[q].pc = "seen"
      BY <1>2 DEF WaivePayment, Decides, At, Reads, counters
    <2>2. PICK r \in Records, old \in Row :
             r = req[q].rec /\ old = row[r] /\ old = req[q].data /\ req[q].pc \notin CyclePCs
      BY <2>1, SeenIsSo
    <2>3. CASE Reply(q)
      BY <2>1, <2>3, DecisionReplies
    <2>4. CASE ~Reply(q)
      <3>1. PICK target \in {"REFUNDED", "FAILED"} :
               /\ target = IF old.status = "PAID" THEN "REFUNDED" ELSE "FAILED"
               /\ ensureTransition(old.status, target)
               /\ Update(q, [old EXCEPT !.status = target, !.confirmedBy = "HOST_MANUAL"],
                         {"status", "confirmedBy"}, "idle")
        BY <1>2, <2>2, <2>4 DEF WaivePayment
      <3>2. PICK new : new = [old EXCEPT !.status = target, !.confirmedBy = "HOST_MANUAL"]
        OBVIOUS
      <3>3. \A s : Intends(s, row[r], Assign(row[r], new, {"status", "confirmedBy"}))
        BY <2>2, <3>1, <3>2, WaiveIntended
      <3>4. Update(q, new, {"status", "confirmedBy"}, "idle")
        BY <3>1, <3>2
      <3>. QED
        BY <2>1, <2>2, <3>3, <3>4, UpdateKeeps
    <2>. QED
      BY <2>3, <2>4
  <1>3. CASE LinkCreated(q)
    <2>1. Reads /\ req[q].pc = "linked"
      BY <1>3 DEF LinkCreated, At, Reads, counters
    <2>2. PICK r \in Records, old \in Row :
             r = req[q].rec /\ old = row[r] /\ old = req[q].data /\ req[q].pc \notin CyclePCs
      BY <2>1, SeenIsSo
    <2>3. CASE Reply(q)
      BY <2>1, <2>3, DecisionReplies
    <2>4. CASE ~Reply(q)
      <3>1. PICK reference \in Records \cup {SnapToken, Null} :
               reference = gatewayReference(r)
        BY DEF gatewayReference
      <3>2. PICK new : new = [old EXCEPT !.status = "AWAITING_GATEWAY",
                                         !.gatewayReferenceId = reference]
        OBVIOUS
      <3>3. /\ ensureTransition(old.status, "AWAITING_GATEWAY")
            /\ Update(q, new, {"status", "gatewayReferenceId"}, "idle")
        BY <1>3, <2>2, <2>4, <3>1, <3>2 DEF LinkCreated
      <3>4. \A s : Intends(s, row[r], Assign(row[r], new, {"status", "gatewayReferenceId"}))
        BY <2>2, <3>2, <3>3, LinkIntended
      <3>. QED
        BY <2>1, <2>2, <3>3, <3>4, UpdateKeeps
    <2>. QED
      BY <2>3, <2>4
  <1>4. CASE \/ ConfirmDecide(q) \/ ConfirmManualDecide(q) \/ HostMarkPaid(q) \/ Approve(q)
             \/ Reject(q) \/ MarkOverdue(q) \/ LinkCheckAccess(q)
    <2>1. Reads /\ req[q].pc = "seen"
      BY <1>4 DEF ConfirmDecide, ConfirmManualDecide, HostMarkPaid, Approve, Reject,
                  MarkOverdue, LinkCheckAccess, Decides, At, Reads, counters
    <2>2. PICK old \in Row : old = req[q].data
      BY <2>1, SeenIsSo
    <2>3. CASE ConfirmDecide(q)
      BY <2>1, <2>2, <2>3, DecisionReplies, DecisionUpdates DEF ConfirmDecide
    <2>4. CASE ConfirmManualDecide(q)
      BY <2>1, <2>2, <2>4, DecisionReplies, DecisionUpdates DEF ConfirmManualDecide
    <2>5. CASE HostMarkPaid(q)
      BY <2>1, <2>2, <2>5, DecisionReplies, DecisionUpdates DEF HostMarkPaid
    <2>6. CASE Approve(q)
      BY <2>1, <2>2, <2>6, DecisionReplies, DecisionUpdates DEF Approve
    <2>7. CASE Reject(q)
      BY <2>1, <2>2, <2>7, DecisionReplies, DecisionUpdates DEF Reject
    <2>8. CASE MarkOverdue(q)
      BY <2>1, <2>2, <2>8, DecisionReplies, DecisionUpdates DEF MarkOverdue
    <2>9. CASE LinkCheckAccess(q)
      BY <2>1, <2>9, DecisionReplies DEF LinkCheckAccess
    <2>. QED
      BY <1>4, <2>3, <2>4, <2>5, <2>6, <2>7, <2>8, <2>9
  <1>. QED
    BY <1>1, <1>2, <1>3, <1>4 DEF Decide

(***************************************************************************)
(* The database calls of BaseRepository.update and updateCycleStatus.  A   *)
(* handler that writes is alone.                                           *)
(***************************************************************************)
LEMMA WritingStep ==
    ASSUME SerialInv, NEW q \in Slots, ~At(q, "idle"), NEW s, req' = [req EXCEPT ![q] = s],
           s.pc \notin {"seen", "gateway", "linked", "update", "found", "write", "judge",
                        "cycleLoad", "cycleWrite"}
    PROVE  /\ (\A p \in Slots : Fresh(req[p]))'
           /\ \A p \in Slots : req[p].pc \in CyclePCs => p = q
           /\ s.pc \in CyclePCs => \E p \in Slots : req'[p].pc \in CyclePCs
  <1>1. req \in [Slots -> Slot]
    BY DEF SerialInv, IInv, TypeOK
  <1>2. \A p \in Slots : req'[p] = IF p = q THEN s ELSE req[p]
    BY <1>1
  <1>3. \A p \in Slots : p # q => req[p].pc = "idle"
    BY DEF SerialInv, Serial, At
  <1>4. \A p \in Slots : Fresh(req[p])'
    BY <1>2, <1>3 DEF Fresh
  <1>. QED
    BY <1>2, <1>3, <1>4 DEF CyclePCs

LEMMA SaveWriteKeeps ==
    ASSUME SerialInv, NEW q \in Slots, SaveWrite(q)
    PROVE  SerialStep
  <1>1. req[q] \in Slot /\ SlotInv(req[q]) /\ Fresh(req[q]) /\ req[q].pc = "write"
    BY DEF SerialInv, IInv, TypeOK, SaveWrite, At
  <1>2. PICK r \in Records, new \in Row : r = req[q].rec /\ new = req[q].data
    BY <1>1 DEF Slot, SlotInv, RecordPCs
  <1>3. PICK old \in Row : old = row[r] /\ row \in [Records -> Row]
    BY DEF SerialInv, IInv, TypeOK
  <1>4. Assign(old, new, req[q].fields) = new
    <2>1. \A f \in Fields \ req[q].fields : new[f] = old[f]
      BY <1>1, <1>2, <1>3 DEF Fresh
    <2>. QED
      BY <2>1, AssignAll
  <1>5. row' = [row EXCEPT ![r] = new]
    BY <1>2, <1>3, <1>4 DEF SaveWrite
  <1>6. Intends(req[q], old, new)
    BY <1>1, <1>2, <1>3 DEF Fresh
  <1>7. [Lifecycle!Next]_life
    BY <1>3, <1>5, <1>6, HandledIsAStep DEF Intends, SerialInv
  <1>8. PICK s : /\ s = IF req[q].next = "idle" THEN Idle ELSE [req[q] EXCEPT !.pc = req[q].next]
                 /\ req' = [req EXCEPT ![q] = s]
    BY DEF SaveWrite
  <1>9. s.pc = req[q].next /\ s.pc \in {"idle", "burn", "cycle", "sync"}
    BY <1>1, <1>8 DEF Slot, Idle
  <1>10. /\ (\A p \in Slots : Fresh(req[p]))'
         /\ \A p \in Slots : req[p].pc \in CyclePCs => p = q
         /\ s.pc \in CyclePCs => \E p \in Slots : req'[p].pc \in CyclePCs
    BY <1>1, <1>8, <1>9, WritingStep DEF At
  <1>11. Completing'
    <2>. SUFFICES ASSUME failures' = 0, AllHostPaid', s.pc # "cycle" PROVE period' = "COMPLETED"
      BY <1>10 DEF Completing, CyclePCs
    <2>1. HostPaid(new)
      BY <1>3, <1>5 DEF AllHostPaid
    <2>2. HostPaid(old)
      BY <1>6, <1>9, <2>1 DEF Intends
    <2>3. AllHostPaid
      BY <1>3, <1>5, <2>2 DEF AllHostPaid
    <2>4. failures' = failures /\ period' = period
      BY DEF SaveWrite, counters
    <2>5. req[q].pc \notin CyclePCs
      BY <1>1 DEF CyclePCs
    <2>. QED
      BY <1>10, <2>3, <2>4, <2>5 DEF SerialInv, Completing
  <1>. QED
    BY <1>7, <1>10, <1>11 DEF SerialStep

LEMMA CycleWriteKeeps ==
    ASSUME SerialInv, NEW q \in Slots, CycleWrite(q)
    PROVE  SerialStep
  <1>1. Fresh(req[q]) /\ req[q].pc = "cycleWrite"
    BY DEF SerialInv, CycleWrite, At
  <1>2. req' = [req EXCEPT ![q] = Idle] /\ row' = row /\ period' = req[q].cycle
    BY DEF CycleWrite, Reply
  <1>3. (\A p \in Slots : Fresh(req[p]))'
    BY <1>1, <1>2, WritingStep DEF At, Idle
  <1>4. Completing'
    BY <1>1, <1>2 DEF Completing, Fresh, AllHostPaid
  <1>5. life' = life
    BY <1>2 DEF life
  <1>. QED
    BY <1>3, <1>4, <1>5 DEF SerialStep

LEMMA SaveKeeps ==
    ASSUME SerialInv, NEW q \in Slots, UpdateFind(q) \/ SaveLoad(q) \/ BurnToken(q)
    PROVE  SerialStep
  <1>1. req[q] \in Slot /\ SlotInv(req[q]) /\ Fresh(req[q])
    BY DEF SerialInv, IInv, TypeOK
  <1>2. Reads /\ req[q].pc \in {"update", "found", "burn"} /\ req[q].pc \notin CyclePCs
    BY DEF UpdateFind, SaveLoad, BurnToken, At, Reads, counters, CyclePCs
  <1>3. CASE UpdateFind(q)
    <2>1. PICK new : new = Assign(row[req[q].rec], req[q].data, req[q].fields)
      OBVIOUS
    <2>2. PICK s : s = [req[q] EXCEPT !.pc = "found", !.data = new]
      OBVIOUS
    <2>3. s.pc = "found" /\ s.data = new /\ s.rec = req[q].rec /\ s.next = req[q].next
      BY <1>1, <2>2 DEF Slot
    <2>4. req' = [req EXCEPT ![q] = s] /\ req[q].pc = "update"
      BY <1>3, <2>1, <2>2 DEF UpdateFind, At
    <2>5. Fresh(s)
      BY <1>1, <2>1, <2>3, <2>4 DEF Fresh, Intends
    <2>. QED
      BY <1>2, <2>4, <2>5, ReadingStep DEF Reads
  <1>4. CASE SaveLoad(q)
    <2>1. PICK fields : fields = Changed(req[q].rec, req[q].data, req[q].fields)
      OBVIOUS
    <2>2. PICK s : s = [req[q] EXCEPT !.pc = "write", !.fields = fields]
      OBVIOUS
    <2>3. /\ s.pc = "write" /\ s.data = req[q].data /\ s.rec = req[q].rec
          /\ s.next = req[q].next /\ s.fields = fields
      BY <1>1, <2>2 DEF Slot
    <2>4. req' = [req EXCEPT ![q] = s] /\ req[q].pc = "found"
      BY <1>4, <2>1, <2>2 DEF SaveLoad, At
    <2>5. \A f \in Fields \ fields : s.data[f] = row[s.rec][f]
      BY <2>1, <2>3 DEF Changed
    <2>6. Fresh(s)
      BY <1>1, <2>3, <2>4, <2>5 DEF Fresh, Intends
    <2>. QED
      BY <1>2, <2>4, <2>6, ReadingStep DEF Reads
  <1>5. CASE BurnToken(q)
    BY <1>2, <1>5, ReplyKeeps DEF BurnToken
  <1>. QED
    BY <1>3, <1>4, <1>5

LEMMA CycleKeeps ==
    ASSUME SerialInv, NEW q \in Slots, CycleRead(q) \/ CycleJudge(q) \/ CycleLoad(q)
    PROVE  SerialStep
  <1>1. req[q] \in Slot /\ Fresh(req[q]) /\ Fresh(Idle)
    BY DEF SerialInv, IInv, TypeOK, Fresh, Idle
  <1>2. Reads
    BY DEF CycleRead, CycleJudge, CycleLoad, Reads, counters
  <1>3. CASE CycleRead(q)
    <2>1. PICK s : s = [req[q] EXCEPT !.pc = "judge", !.cycle = period]
      OBVIOUS
    <2>2. s.pc = "judge" /\ s.cycle = period /\ req' = [req EXCEPT ![q] = s]
      BY <1>1, <1>3, <2>1 DEF Slot, CycleRead
    <2>3. Fresh(s)
      BY <2>2 DEF Fresh
    <2>. QED
      BY <1>2, <2>2, <2>3, ReadingStep DEF Reads, CyclePCs
  <1>4. CASE CycleJudge(q)
    <2>1. req[q].cycle = period
      BY <1>1, <1>4 DEF CycleJudge, At, Fresh
    <2>2. PICK new : new = newStatus(period) /\ (AllHostPaid => new = "COMPLETED")
      BY DEF newStatus, AllHostPaid, HostPaid, Paid
    <2>3. CASE new = period
      <3>1. req' = [req EXCEPT ![q] = Idle]
        BY <1>4, <2>1, <2>2, <2>3 DEF CycleJudge, Reply
      <3>. QED
        BY <1>1, <1>2, <2>2, <2>3, <3>1, ReadingStep DEF Reads
    <2>4. CASE new # period
      <3>1. PICK s : s = [req[q] EXCEPT !.pc = "cycleLoad", !.cycle = new]
        OBVIOUS
      <3>2. s.pc = "cycleLoad" /\ s.cycle = new
        BY <1>1, <3>1 DEF Slot
      <3>3. req' = [req EXCEPT ![q] = s]
        BY <1>4, <2>1, <2>2, <2>4, <3>1 DEF CycleJudge
      <3>4. Fresh(s)
        BY <2>2, <3>2 DEF Fresh
      <3>. QED
        BY <1>2, <3>2, <3>3, <3>4, ReadingStep DEF Reads, CyclePCs
    <2>. QED
      BY <2>3, <2>4
  <1>5. CASE CycleLoad(q)
    <2>1. req[q].pc = "cycleLoad" /\ (AllHostPaid => req[q].cycle = "COMPLETED")
      BY <1>1, <1>5 DEF CycleLoad, At, Fresh
    <2>2. CASE period = req[q].cycle
      <3>1. req' = [req EXCEPT ![q] = Idle]
        BY <1>5, <2>2 DEF CycleLoad, Reply
      <3>. QED
        BY <1>1, <1>2, <2>1, <2>2, <3>1, ReadingStep DEF Reads
    <2>3. CASE period # req[q].cycle
      <3>1. PICK s : s = [req[q] EXCEPT !.pc = "cycleWrite"]
        OBVIOUS
      <3>2. s.pc = "cycleWrite" /\ s.cycle = req[q].cycle
        BY <1>1, <3>1 DEF Slot
      <3>3. req' = [req EXCEPT ![q] = s]
        BY <1>5, <2>3, <3>1 DEF CycleLoad, Goto
      <3>4. Fresh(s)
        BY <2>1, <3>2 DEF Fresh
      <3>. QED
        BY <1>2, <3>2, <3>3, <3>4, ReadingStep DEF Reads, CyclePCs
    <2>. QED
      BY <2>2, <2>3
  <1>. QED
    BY <1>3, <1>4, <1>5

(***************************************************************************)
(* Membership changes, and the beginnings.                                 *)
(***************************************************************************)
LEMMA QuietKeeps ==
    ASSUME SerialInv, NEW q \in Slots, NEW s, req' = [req EXCEPT ![q] = s], Reads,
           req[q].pc \notin CyclePCs,
           s.pc \notin {"seen", "gateway", "linked", "update", "found", "write", "judge",
                        "cycleLoad", "cycleWrite"}
    PROVE  SerialStep
  <1>1. Fresh(s)
    BY DEF Fresh
  <1>. QED
    BY <1>1, ReadingStep DEF Reads

LEMMA MembershipKeeps ==
    ASSUME SerialInv, NEW q \in Slots, Membership(q)
    PROVE  SerialStep
  <1>1. req[q] \in Slot /\ SlotInv(req[q])
    BY DEF SerialInv, IInv, TypeOK
  <1>2. Reads /\ req[q].pc \notin CyclePCs
    BY DEF Membership, SoftDelete, Restore, Activate, RecalculateShares, SaveShares, SyncRead,
           SyncDone, ReviveRecord, SyncAmount, At, Reads, counters, CyclePCs
  <1>3. CASE SoftDelete(q) \/ Restore(q) \/ Activate(q) \/ SyncDone(q)
    <2>1. Reply(q) \/ Goto(q, "recalculate") \/ Goto(q, "activate") \/ Goto(q, "revive")
      BY <1>3 DEF SoftDelete, Restore, Activate, SyncDone
    <2>. QED
      BY <1>2, <2>1, ReplyKeeps, GotoKeeps
  <1>4. CASE RecalculateShares(q) \/ SaveShares(q) \/ SyncRead(q)
    <2>1. PICK s : req' = [req EXCEPT ![q] = s] /\ s.pc \in {"idle", "shares", "syncRead", "sync"}
      <3>1. CASE RecalculateShares(q)
        <4>1. PICK s : s = [req[q] EXCEPT
                               !.pc = "shares", !.job.todo = Active,
                               !.job.shares =
                                  [r \in Records |-> EqualShare(r, Cardinality(Active))]]
          OBVIOUS
        <4>2. s.pc = "shares"
          BY <1>1, <4>1 DEF Slot
        <4>. QED
          BY <3>1, <4>1, <4>2 DEF RecalculateShares
      <3>2. CASE SaveShares(q)
        <4>1. CASE Reply(q)
          <5>1. PICK s : s = Idle
            OBVIOUS
          <5>2. s.pc = "idle"
            BY <5>1 DEF Idle
          <5>. QED
            BY <4>1, <5>1, <5>2 DEF Reply
        <4>2. CASE ~Reply(q)
          <5>1. PICK pc, todo :
                   /\ pc \in {"syncRead", "sync"}
                   /\ req' = [req EXCEPT ![q].pc = pc, ![q].job.todo = todo]
            BY <3>2, <4>2 DEF SaveShares
          <5>2. PICK s : s = [req[q] EXCEPT !.pc = pc, !.job.todo = todo]
            OBVIOUS
          <5>3. s.pc = pc
            BY <1>1, <5>2 DEF Slot
          <5>. QED
            BY <5>1, <5>2, <5>3
        <4>. QED
          BY <4>1, <4>2
      <3>3. CASE SyncRead(q)
        <4>1. PICK todo : req' = [req EXCEPT ![q].pc = "sync", ![q].job.todo = todo]
          BY <3>3 DEF SyncRead
        <4>2. PICK s : s = [req[q] EXCEPT !.pc = "sync", !.job.todo = todo]
          OBVIOUS
        <4>3. s.pc = "sync"
          BY <1>1, <4>2 DEF Slot
        <4>. QED
          BY <4>1, <4>2, <4>3
      <3>. QED
        BY <1>4, <3>1, <3>2, <3>3
    <2>. QED
      BY <1>2, <2>1, QuietKeeps
  <1>5. ASSUME NEW r \in Records, SyncAmount(q, r) PROVE SerialStep
    <2>. DEFINE job   == req[q].job
                new   == [job EXCEPT !.todo = @ \ {r}]
                share == job.shares[r]
    <2>1. PICK old \in Row, due \in Nat : old = row[r] /\ due = share
      BY <1>1 DEF SerialInv, IInv, TypeOK, Slot, Job
    <2>2. req' = [req EXCEPT ![q] = [req[q] EXCEPT !.pc = "update", !.rec = r,
                     !.data = PendingRow(share), !.fields = {"amountDue"}, !.next = "sync",
                     !.job = new]]
      BY <1>1, <1>5 DEF SyncAmount, Slot, Job
    <2>. HIDE DEF new, share
    <2>s. PICK s : s = [req[q] EXCEPT !.pc = "update", !.rec = r,
                           !.data = PendingRow(share), !.fields = {"amountDue"},
                           !.next = "sync", !.job = new]
      OBVIOUS
    <2>3. /\ s.pc = "update" /\ s.rec = r /\ s.data = PendingRow(due)
          /\ s.fields = {"amountDue"}
      BY <1>1, <2>1, <2>s DEF Slot
    <2>4. req' = [req EXCEPT ![q] = s]
      BY <2>2, <2>s
    <2>5. Intends(s, old, Assign(old, PendingRow(due), {"amountDue"}))
      BY SyncIntended
    <2>6. Fresh(s)
      BY <2>1, <2>3, <2>5 DEF Fresh
    <2>. QED
      BY <1>2, <2>4, <2>6, ReadingStep DEF Reads
  <1>6. CASE ReviveRecord(q)
    <2>1. CASE Reply(q)
      BY <1>2, <2>1, ReplyKeeps
    <2>2. CASE ~Reply(q)
      <3>1. PICK r \in Records, old \in Row, due \in Nat :
               r = req[q].job.member /\ old = row[r] /\ due = req[q].job.newShare
        <4>1. req[q].pc = "revive"
          BY <1>6 DEF ReviveRecord, At
        <4>2. req[q].job.member \in Records /\ req[q].job.newShare \in Nat
          BY <1>1, <4>1 DEF SlotInv, MemberPCs, Slot, Job
        <4>. QED
          BY <4>2 DEF SerialInv, IInv, TypeOK
      <3>2. PICK s : s = [req[q] EXCEPT !.pc = "update", !.rec = r, !.data = PendingRow(due),
                                        !.fields = {"amountDue", "status"}, !.next = "idle"]
        OBVIOUS
      <3>3. /\ s.pc = "update" /\ s.rec = r /\ s.data = PendingRow(due)
            /\ s.fields = {"amountDue", "status"}
        BY <1>1, <3>2 DEF Slot
      <3>4. req' = [req EXCEPT ![q] = s]
        BY <1>6, <2>2, <3>1, <3>2 DEF ReviveRecord
      <3>5. Intends(s, old, Assign(old, PendingRow(due), {"amountDue", "status"}))
        BY ReviveIntended
      <3>6. Fresh(s)
        BY <3>1, <3>3, <3>5 DEF Fresh
      <3>. QED
        BY <1>2, <3>4, <3>6, ReadingStep DEF Reads
    <2>. QED
      BY <2>1, <2>2
  <1>. QED
    BY <1>3, <1>4, <1>5, <1>6 DEF Membership

\* A call is accepted.
LEMMA BeginKeeps ==
    ASSUME SerialInv, NEW q \in Slots, Begin(q)
    PROVE  SerialStep
  <1>1. req[q].pc = "idle" /\ Reads
    BY DEF Begin, ReadRecord, ConfirmPayment, ConfirmManual, ReadLater, RemoveMember,
           AddMember, Accept, At, Reads
  <1>2. req[q].pc \notin CyclePCs
    BY <1>1 DEF CyclePCs
  <1>3. ASSUME NEW r \in Records, NEW op \in RecordOperations, NEW actor \in Actors \cup {Null},
               ReadRecord(q, op, r, actor)
        PROVE  SerialStep
    <2>1. PICK s : s = [Idle EXCEPT !.pc = "seen", !.op = op, !.rec = r,
                                    !.actor = actor, !.data = row[r]]
      OBVIOUS
    <2>2. s.pc = "seen" /\ s.rec = r /\ s.data = row[r]
      BY <2>1 DEF Idle
    <2>3. req' = [req EXCEPT ![q] = s]
      BY <1>3, <2>1 DEF ReadRecord
    <2>4. Fresh(s)
      BY <2>2 DEF Fresh
    <2>. QED
      BY <1>1, <1>2, <2>3, <2>4, ReadingStep DEF Reads
  <1>4. ASSUME NEW r \in Records, NEW op, ReadLater(q, op, r) PROVE SerialStep
    <2>1. PICK s : s = [Idle EXCEPT !.pc = "read", !.op = op, !.rec = r]
      OBVIOUS
    <2>2. s.pc = "read"
      BY <2>1 DEF Idle
    <2>3. req' = [req EXCEPT ![q] = s]
      BY <1>4, <2>1 DEF ReadLater
    <2>. QED
      BY <1>1, <1>2, <2>2, <2>3, QuietKeeps
  <1>5. ASSUME NEW r \in Records, RemoveMember(q, r) PROVE SerialStep
    <2>1. PICK s : s = [Idle EXCEPT !.pc = "softDelete", !.op = "removeMember",
                                    !.job = [NoJob EXCEPT !.member = r]]
      OBVIOUS
    <2>2. s.pc = "softDelete"
      BY <2>1 DEF Idle
    <2>3. req' = [req EXCEPT ![q] = s]
      BY <1>5, <2>1 DEF RemoveMember
    <2>. QED
      BY <1>1, <1>2, <2>2, <2>3, QuietKeeps
  <1>6. ASSUME NEW r \in Records, AddMember(q, r) PROVE SerialStep
    <2>1. PICK job : job = [NoJob EXCEPT !.member = r,
                                         !.newShare = Part(Cardinality(Active) + 1)]
      OBVIOUS
    <2>2. PICK s : s = [Idle EXCEPT !.pc = "restore", !.op = "addMember", !.job = job]
      OBVIOUS
    <2>3. s.pc = "restore"
      BY <2>2 DEF Idle
    <2>4. req' = [req EXCEPT ![q] = s]
      BY <1>6, <2>1, <2>2 DEF AddMember
    <2>. QED
      BY <1>1, <1>2, <2>3, <2>4, QuietKeeps
  <1>. QED
    BY <1>3, <1>4, <1>5, <1>6 DEF Begin, ConfirmPayment, ConfirmManual

\* A handler goes on after the gateway, or fails.
LEMMA GatewayKeeps ==
    ASSUME SerialInv, NEW q \in Slots, NEW tx, GatewayIssues(q, tx)
    PROVE  SerialStep
  <1>1. req[q].pc = "gateway" /\ Reads /\ Goto(q, "linked")
    BY DEF GatewayIssues, At, Reads, counters
  <1>. QED
    BY <1>1, GotoKeeps DEF CyclePCs

LEMMA FailKeeps ==
    ASSUME SerialInv, NEW q \in Slots, Fail(q)
    PROVE  SerialStep
  <1>1. failures \in Nat
    BY BoundsAssumption DEF SerialInv, IInv, TypeOK
  <1>2. /\ row' = row /\ period' = period /\ failures' = failures + 1
        /\ req' = [req EXCEPT ![q] = Idle]
    BY DEF Fail, Reply
  <1>3. failures' # 0
    BY <1>1, <1>2
  <1>4. Fresh(Idle)
    BY DEF Fresh, Idle
  <1>. QED
    BY <1>2, <1>3, <1>4, ReadingStep

\* What touches neither the slots, nor the rows, nor the period.
LEMMA StillKeeps ==
    ASSUME SerialInv, UNCHANGED <<row, period, req, failures>>
    PROVE  SerialStep
  <1>1. \A p \in Slots : Fresh(req[p])'
    BY DEF SerialInv, Fresh, AllHostPaid
  <1>2. Completing'
    BY DEF SerialInv, Completing, AllHostPaid
  <1>3. life' = life
    BY DEF life
  <1>. QED
    BY <1>1, <1>2, <1>3 DEF SerialStep

\* A webhook writes a row only while no handler is in flight.
LEMMA WebhookKeeps ==
    ASSUME SerialInv, NEW e \in events, Webhook(e),
           UNCHANGED req /\ row' # row => \A q \in Slots : At(q, "idle")
    PROVE  SerialStep
  <1>1. UNCHANGED <<period, req, failures>>
    BY DEF Webhook, WebhookMismatch, WebhookApply, counters
  <1>2. CASE row' = row
    BY <1>1, <1>2, StillKeeps
  <1>3. CASE row' # row
    <2>1. \A p \in Slots : Fresh(req[p])'
      BY <1>1, <1>3 DEF At, Fresh
    <2>2. [Lifecycle!Next]_life /\ ~AllHostPaid'
      BY WebhookIsAStep DEF SerialInv
    <2>. QED
      BY <2>1, <2>2 DEF SerialStep, Completing
  <1>. QED
    BY <1>2, <1>3

(***************************************************************************)
(* The invariant, and the refinement, of every step.                       *)
(***************************************************************************)
LEMMA SerialInit == Init => SerialInv /\ Lifecycle!Init
  <1>. SUFFICES ASSUME Init PROVE SerialInv /\ Lifecycle!Init
    OBVIOUS
  <1>1. IInv
    BY InitIInv
  <1>2. \A q \in Slots : req[q] = Idle
    BY DEF Init
  <1>3. Serial
    BY <1>2 DEF Serial, At, Idle
  <1>4. ASSUME NEW q \in Slots PROVE Fresh(req[q])
    BY <1>2 DEF Fresh, Idle
  <1>5. ASSUME NEW r \in Records
        PROVE  lifeOf(row[r]) = [status |-> "PENDING", confirmedBy |-> Null,
                                 collected |-> FALSE, dated |-> FALSE]
    BY DEF Init, PendingRow, lifeOf
  <1>6. ~AllHostPaid
    BY RecordsAssumption DEF Init, AllHostPaid, HostPaid, PendingRow
  <1>7. Lifecycle!Init
    BY <1>5 DEF Lifecycle!Init, life, lifeOf
  <1>. QED
    BY <1>1, <1>3, <1>4, <1>6, <1>7 DEF SerialInv, Completing

LEMMA SerialKeeps ==
    ASSUME SerialInv, [SerialNext]_vars
    PROVE  SerialInv' /\ [Lifecycle!Next]_life
  <1>1. IInv'
    BY NextIInv DEF SerialInv, SerialNext
  <1>2. Serial'
    BY DEF SerialInv, SerialNext, Serial, At, vars
  <1>3. SerialStep
    <2>1. ASSUME NEW q \in Slots, Handler(q) PROVE SerialStep
      <3>1. ASSUME Finish(q) PROVE SerialStep
        BY <3>1, SaveKeeps, SaveWriteKeeps, CycleKeeps, CycleWriteKeeps DEF Finish
      <3>. QED
        BY <2>1, <3>1, BeginKeeps, DecideKeeps, MembershipKeeps, GatewayKeeps, FailKeeps
        DEF Handler
    <2>2. ASSUME NEW e \in events, Webhook(e), SerialNext PROVE SerialStep
      BY <2>2, WebhookKeeps DEF SerialNext
    <2>3. CASE UNCHANGED <<row, period, req, failures>>
      BY <2>3, StillKeeps
    <2>4. CASE UNCHANGED vars
      BY <2>3, <2>4 DEF vars
    <2>5. CASE SerialNext
      <3>1. ASSUME NEW i \in invoices, NEW s \in EventStatuses, GatewayReports(i, s)
            PROVE  SerialStep
        BY <2>3, <3>1 DEF GatewayReports, counters
      <3>2. CASE TimePasses
        BY <2>3, <3>2 DEF TimePasses, counters
      <3>3. ASSUME NEW r \in Records, KeyExpires(r) PROVE SerialStep
        BY <2>3, <3>3 DEF KeyExpires, counters
      <3>. QED
        BY <2>1, <2>2, <2>5, <3>1, <3>2, <3>3 DEF SerialNext, Next
    <2>. QED
      BY <2>4, <2>5
  <1>. QED
    BY <1>1, <1>2, <1>3 DEF SerialInv, SerialStep

(***************************************************************************)
(* While no two handlers overlap and no webhook arrives between the steps  *)
(* of one, whatever the number of records and slots, and also when a       *)
(* handler dies half-way, the database calls of the handlers amount to     *)
(* the atomic steps of PaymentLifecycle.                                   *)
(***************************************************************************)
THEOREM HandlersAreAtomic == SerialSpec => ImplementsLifecycle
  <1>1. Init => SerialInv /\ Lifecycle!Init
    BY SerialInit
  <1>2. SerialInv /\ [SerialNext]_vars => SerialInv' /\ [Lifecycle!Next]_life
    BY SerialKeeps
  <1>. QED
    BY <1>1, <1>2, PTL DEF SerialSpec, ImplementsLifecycle, Lifecycle!Spec

(***************************************************************************)
(* The lifecycle with atomic handlers, of any rows that follow it.         *)
(***************************************************************************)
\* The record of r is in order: what the two invariants say of one record.
InOrder(r) ==
    /\ life[r].status \in {"PAID", "REFUNDED"} =>
          life[r].dated /\ life[r].confirmedBy \in {"SYSTEM_WEBHOOK", "HOST_MANUAL"}
    /\ life[r].status = "PAID" /\ life[r].confirmedBy = "HOST_MANUAL" =>
          life[r].collected

LifeInv == Lifecycle!TypeOK /\ \A r \in Records : InOrder(r)

(***************************************************************************)
(* A step that replaces the life of one record by one that is in order.    *)
(***************************************************************************)
LEMMA LifeStep ==
    ASSUME LifeInv, NEW r \in Records, NEW new \in Lifecycle!Life,
           life' = [life EXCEPT ![r] = new],
           new.status \in {"PAID", "REFUNDED"} =>
              new.dated /\ new.confirmedBy \in {"SYSTEM_WEBHOOK", "HOST_MANUAL"},
           new.status = "PAID" /\ new.confirmedBy = "HOST_MANUAL" => new.collected
    PROVE  LifeInv'
  <1>1. Lifecycle!TypeOK'
    BY DEF LifeInv, Lifecycle!TypeOK
  <1>2. ASSUME NEW x \in Records PROVE InOrder(x)'
    <2>1. life'[x] = IF x = r THEN new ELSE life[x]
      BY DEF LifeInv, Lifecycle!TypeOK
    <2>. QED
      BY <2>1 DEF LifeInv, InOrder
  <1>. QED
    BY <1>1, <1>2 DEF LifeInv

LEMMA MoveMeansMap ==
    ASSUME LifeInv, NEW r \in Records, NEW to, Lifecycle!Move(r, to)
    PROVE  /\ to \in Lifecycle!PaymentStatus
           /\ to = "REFUNDED" => life[r].status \in {"PAID", "REFUNDED"}
  BY DEF LifeInv, Lifecycle!TypeOK, Lifecycle!Life, Lifecycle!Move,
     Lifecycle!ensureTransition, Lifecycle!transitionMap, Lifecycle!PaymentStatus

(***************************************************************************)
(* The handlers of PaymentsService.                                        *)
(***************************************************************************)
LEMMA HandlerStep ==
    ASSUME LifeInv, NEW r \in Records,
           Lifecycle!SelfReport(r) \/ Lifecycle!HostPaid(r) \/ Lifecycle!Reject(r)
           \/ Lifecycle!Waive(r) \/ Lifecycle!Refund(r) \/ Lifecycle!OpenLink(r)
    PROVE  LifeInv'
  <1>1. life[r] \in Lifecycle!Life /\ InOrder(r)
    BY DEF LifeInv, Lifecycle!TypeOK
  <1>2. CASE Lifecycle!SelfReport(r)
    <2>. DEFINE new == [life[r] EXCEPT !.status = "PENDING_HOST_REVIEW",
                                       !.confirmedBy = "MEMBER_SELF_REPORT"]
    <2>1. new \in Lifecycle!Life /\ new.status = "PENDING_HOST_REVIEW"
      BY <1>1 DEF Lifecycle!Life, Lifecycle!PaymentStatus
    <2>2. life' = [life EXCEPT ![r] = new]
      BY <1>2 DEF Lifecycle!SelfReport
    <2>. HIDE DEF new
    <2>. QED
      BY <2>1, <2>2, LifeStep
  <1>3. CASE Lifecycle!HostPaid(r)
    <2>. DEFINE new == [status |-> "PAID", confirmedBy |-> "HOST_MANUAL",
                        collected |-> TRUE, dated |-> TRUE]
    <2>1. new \in Lifecycle!Life /\ new.confirmedBy = "HOST_MANUAL" /\ new.collected /\ new.dated
      BY DEF Lifecycle!Life, Lifecycle!PaymentStatus
    <2>2. life' = [life EXCEPT ![r] = new]
      BY <1>3 DEF Lifecycle!HostPaid
    <2>. HIDE DEF new
    <2>. QED
      BY <2>1, <2>2, LifeStep
  <1>4. CASE Lifecycle!Reject(r)
    <2>. DEFINE new == [life[r] EXCEPT !.status = "PENDING", !.dated = FALSE]
    <2>1. new \in Lifecycle!Life /\ new.status = "PENDING"
      BY <1>1 DEF Lifecycle!Life, Lifecycle!PaymentStatus
    <2>2. life' = [life EXCEPT ![r] = new]
      BY <1>4 DEF Lifecycle!Reject
    <2>. HIDE DEF new
    <2>. QED
      BY <2>1, <2>2, LifeStep
  <1>5. CASE Lifecycle!Waive(r)
    <2>. DEFINE new == [life[r] EXCEPT !.status = "FAILED", !.confirmedBy = "HOST_MANUAL"]
    <2>1. new \in Lifecycle!Life /\ new.status = "FAILED"
      BY <1>1 DEF Lifecycle!Life, Lifecycle!PaymentStatus
    <2>2. life' = [life EXCEPT ![r] = new]
      BY <1>5 DEF Lifecycle!Waive
    <2>. HIDE DEF new
    <2>. QED
      BY <2>1, <2>2, LifeStep
  <1>6. CASE Lifecycle!Refund(r)
    <2>. DEFINE new == [life[r] EXCEPT !.status = "REFUNDED", !.confirmedBy = "HOST_MANUAL"]
    <2>1. life[r].dated
      BY <1>1, <1>6, MoveMeansMap DEF Lifecycle!Refund, InOrder
    <2>2. /\ new \in Lifecycle!Life /\ new.status = "REFUNDED" /\ new.confirmedBy = "HOST_MANUAL"
          /\ new.dated = life[r].dated
      BY <1>1 DEF Lifecycle!Life, Lifecycle!PaymentStatus
    <2>3. life' = [life EXCEPT ![r] = new]
      BY <1>6 DEF Lifecycle!Refund
    <2>. HIDE DEF new
    <2>. QED
      BY <2>1, <2>2, <2>3, LifeStep
  <1>7. CASE Lifecycle!OpenLink(r)
    <2>. DEFINE new == [life[r] EXCEPT !.status = "AWAITING_GATEWAY"]
    <2>1. new \in Lifecycle!Life /\ new.status = "AWAITING_GATEWAY"
      BY <1>1 DEF Lifecycle!Life, Lifecycle!PaymentStatus
    <2>2. life' = [life EXCEPT ![r] = new]
      BY <1>7 DEF Lifecycle!OpenLink
    <2>. HIDE DEF new
    <2>. QED
      BY <2>1, <2>2, LifeStep
  <1>. QED
    BY <1>2, <1>3, <1>4, <1>5, <1>6, <1>7

(***************************************************************************)
(* The webhook, the overdue sweep and the revival of a membership.         *)
(***************************************************************************)
LEMMA GatewayEventStep ==
    ASSUME LifeInv, NEW r \in Records, NEW event, NEW to \in Lifecycle!PaymentStatus,
           Lifecycle!GatewayEvent(r, event, to)
    PROVE  LifeInv'
  <1>. DEFINE new == [life[r] EXCEPT
                         !.status = to,
                         !.dated = IF to = "PAID" THEN TRUE ELSE @,
                         !.confirmedBy = IF to = "PAID" THEN "SYSTEM_WEBHOOK" ELSE @]
  <1>1. life[r] \in Lifecycle!Life
    BY DEF LifeInv, Lifecycle!TypeOK
  <1>2. to # "REFUNDED"
    BY DEF Lifecycle!GatewayEvent, Lifecycle!webhookTransitionMap
  <1>3. /\ new \in Lifecycle!Life /\ new.status = to
        /\ to = "PAID" => new.dated /\ new.confirmedBy = "SYSTEM_WEBHOOK"
    BY <1>1 DEF Lifecycle!Life
  <1>4. life' = [life EXCEPT ![r] = new]
    BY DEF Lifecycle!GatewayEvent
  <1>. HIDE DEF new
  <1>. QED
    BY <1>2, <1>3, <1>4, LifeStep

LEMMA LifeOutsideStep ==
    ASSUME LifeInv, NEW r \in Records, NEW to \in {"FAILED", "EXPIRED", "PENDING"},
           life' = [life EXCEPT ![r].status = to]
    PROVE  LifeInv'
  <1>. DEFINE new == [life[r] EXCEPT !.status = to]
  <1>1. life[r] \in Lifecycle!Life
    BY DEF LifeInv, Lifecycle!TypeOK
  <1>2. new \in Lifecycle!Life /\ new.status = to
    BY <1>1 DEF Lifecycle!Life, Lifecycle!PaymentStatus
  <1>3. life' = [life EXCEPT ![r] = new]
    OBVIOUS
  <1>. HIDE DEF new
  <1>. QED
    BY <1>2, <1>3, LifeStep

LEMMA InitLifeInv == Lifecycle!Init => LifeInv
  BY DEF Lifecycle!Init, LifeInv, Lifecycle!TypeOK, InOrder, Lifecycle!Life,
     Lifecycle!PaymentStatus

LEMMA NextLifeInv == LifeInv /\ [Lifecycle!Next]_life => LifeInv'
  <1>. SUFFICES ASSUME LifeInv, [Lifecycle!Next]_life PROVE LifeInv'
    OBVIOUS
  <1>1. CASE UNCHANGED life
    BY <1>1 DEF LifeInv, Lifecycle!TypeOK, InOrder
  <1>2. ASSUME NEW r \in Records, Lifecycle!GatewayMismatch(r) \/ Lifecycle!Expire(r)
  \/ Lifecycle!Revive(r)
        PROVE  LifeInv'
    BY <1>2, LifeOutsideStep DEF Lifecycle!GatewayMismatch, Lifecycle!Expire, Lifecycle!Revive
  <1>. QED
    BY <1>1, <1>2, HandlerStep, GatewayEventStep DEF Lifecycle!Next

(***************************************************************************)
(* With atomic handlers every PAID or REFUNDED record is dated and         *)
(* confirmed by the host or the gateway.                                   *)
(***************************************************************************)
THEOREM SettledRecordsAreDated == Lifecycle!Spec => []Lifecycle!SettledIsDated
  <1>1. LifeInv => Lifecycle!SettledIsDated
    BY DEF LifeInv, InOrder, Lifecycle!SettledIsDated
  <1>. QED
    BY <1>1, InitLifeInv, NextLifeInv, PTL DEF Lifecycle!Spec

(***************************************************************************)
(* With atomic handlers a payment the host entered carries its amount.     *)
(***************************************************************************)
THEOREM HostPaymentsAreCollected == Lifecycle!Spec => []Lifecycle!HostPaidIsCollected
  <1>1. LifeInv => Lifecycle!HostPaidIsCollected
    BY DEF LifeInv, InOrder, Lifecycle!HostPaidIsCollected
  <1>. QED
    BY <1>1, InitLifeInv, NextLifeInv, PTL DEF Lifecycle!Spec

(***************************************************************************)
(* With atomic handlers a PAID record is never reported or expired again,  *)
(* and a closed one only fails or starts over.                             *)
(***************************************************************************)
THEOREM ClosedRecordsStayClosed == Lifecycle!Spec => Lifecycle!ClosedStaysClosed
  <1>. DEFINE Stays(r) == /\ life[r].status = "PAID" =>
                                life'[r].status \in {"PAID", "REFUNDED", "FAILED", "PENDING"}
                          /\ life[r].status \in {"FAILED", "EXPIRED", "REFUNDED"} =>
                                life'[r].status \in {life[r].status, "FAILED", "PENDING"}
  <1>1. ASSUME LifeInv, Lifecycle!Next PROVE \A r \in Records : Stays(r)
    <2>. TAKE x \in Records
    <2>1. PICK r \in Records :
             \/ Lifecycle!SelfReport(r) \/ Lifecycle!HostPaid(r) \/ Lifecycle!Reject(r)
             \/ Lifecycle!Waive(r) \/ Lifecycle!Refund(r) \/ Lifecycle!OpenLink(r)
             \/ Lifecycle!GatewayMismatch(r) \/ Lifecycle!Expire(r) \/ Lifecycle!Revive(r)
             \/ \E event \in Lifecycle!GatewayStatus, to \in Lifecycle!PaymentStatus :
                   Lifecycle!GatewayEvent(r, event, to)
      BY <1>1 DEF Lifecycle!Next
    <2>2. life \in [Records -> Lifecycle!Life] /\ life[r] \in Lifecycle!Life /\ life[x] \in Lifecycle!Life
      BY <1>1 DEF LifeInv, Lifecycle!TypeOK
    <2>3. CASE x # r
      <3>1. life'[x] = life[x]
        BY <2>1, <2>2, <2>3
        DEF Lifecycle!SelfReport, Lifecycle!HostPaid, Lifecycle!Reject, Lifecycle!Waive,
            Lifecycle!Refund, Lifecycle!OpenLink, Lifecycle!GatewayMismatch, Lifecycle!Expire,
            Lifecycle!Revive, Lifecycle!GatewayEvent
      <3>. QED
        BY <3>1
    <2>4. CASE x = r
      <3>1. CASE Lifecycle!SelfReport(r) \/ Lifecycle!HostPaid(r) \/ Lifecycle!Reject(r)
                 \/ Lifecycle!Waive(r) \/ Lifecycle!Refund(r)
                 \/ Lifecycle!OpenLink(r)
        <4>1. PICK to : Lifecycle!Move(r, to) /\ life'[r].status = to
          BY <2>2, <3>1 DEF Lifecycle!SelfReport, Lifecycle!HostPaid, Lifecycle!Reject,
             Lifecycle!Waive, Lifecycle!Refund, Lifecycle!OpenLink, Lifecycle!Life
        <4>. QED
          BY <2>2, <2>4, <4>1 DEF Lifecycle!Move, Lifecycle!ensureTransition,
             Lifecycle!transitionMap, Lifecycle!Life, Lifecycle!PaymentStatus
      <3>2. CASE Lifecycle!GatewayMismatch(r) \/ Lifecycle!Expire(r) \/ Lifecycle!Revive(r)
        BY <2>2, <2>4, <3>2 DEF Lifecycle!GatewayMismatch, Lifecycle!Expire,
           Lifecycle!Revive, Lifecycle!Life
      <3>3. ASSUME NEW event \in Lifecycle!GatewayStatus, NEW to \in Lifecycle!PaymentStatus,
                   Lifecycle!GatewayEvent(r, event, to)
            PROVE  Stays(x)
        <4>1. life'[r].status = to
          BY <2>2, <3>3 DEF Lifecycle!GatewayEvent, Lifecycle!Life
        <4>2. [from |-> life[r].status, event |-> event, to |-> to]
                 \in Lifecycle!webhookTransitionMap
          BY <3>3 DEF Lifecycle!GatewayEvent
        <4>3. life[r].status \in {"PAID", "FAILED", "EXPIRED", "REFUNDED"} =>
                 to = life[r].status
          BY <4>2 DEF Lifecycle!webhookTransitionMap
        <4>. QED
          BY <2>4, <4>1, <4>3
      <3>. QED
        BY <2>1, <3>1, <3>2, <3>3
    <2>. QED
      BY <2>3, <2>4
  <1>2. LifeInv /\ [Lifecycle!Next]_life => [\A r \in Records : Stays(r)]_life
    BY <1>1
  <1>. QED
    BY <1>2, InitLifeInv, NextLifeInv, PTL DEF Lifecycle!Spec, Lifecycle!ClosedStaysClosed

(***************************************************************************)
(* What is proved of atomic handlers holds of the rows that handlers write *)
(* one at a time: the columns of a row agree, and a settled record is not  *)
(* reopened.                                                               *)
(***************************************************************************)
THEOREM SerialRecordsAgree ==
    SerialSpec => /\ [](Lifecycle!SettledIsDated /\ Lifecycle!HostPaidIsCollected)
                  /\ Lifecycle!ClosedStaysClosed
  BY HandlersAreAtomic, SettledRecordsAreDated, HostPaymentsAreCollected,
     ClosedRecordsStayClosed, PTL DEF ImplementsLifecycle

(***************************************************************************)
(* While no two handlers overlap and none fails, the period is COMPLETED   *)
(* once the host has settled all its records (updateCycleStatus).          *)
(***************************************************************************)
THEOREM SettledPeriodsComplete == SerialSpec => []SettledIsCompleted
  <1>1. Init => SerialInv
    BY SerialInit
  <1>2. SerialInv /\ [SerialNext]_vars => SerialInv'
    BY SerialKeeps
  <1>3. SerialInv => SettledIsCompleted
    BY DEF SerialInv, Completing, SettledIsCompleted, AllHostPaid, HostPaid, Paid, At, CyclePCs
  <1>. QED
    BY <1>1, <1>2, <1>3, PTL DEF SerialSpec
==============================================================================
