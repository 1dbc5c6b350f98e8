-------------------------- MODULE WebhookQueueProofs --------------------------
(***************************************************************************)
(* Proofs that the safety properties of WebhookQueue hold for any records, *)
(* gateway, amounts, attempts and bounds.                                  *)
(***************************************************************************)
EXTENDS WebhookQueue, SequenceTheorems, TLAPS

\* The record a report is about, and the reports whose transaction is open.
RecordOf(l) == invoice[log[l].invoice].record
Busy(l) == log[l].at \in {"alerting", "committing"}

\* A reference is the one its own link has stored.
RefInv == \A r \in Records : row[r].ref \in {Null, r, SnapToken}

\* What an open transaction has found stays so: it holds the lock.
Found(l) ==
    Busy(l) => /\ row[RecordOf(l)].ref = RecordOf(l)
               /\ row[RecordOf(l)].tx \in {Null, log[l].invoice}
               /\ \/ AmountDiffers(l, RecordOf(l))
                  \/ log[l].at = "committing" /\ NextStatus(l, RecordOf(l)) # {}

LogInv(l) ==
    /\ log[l].invoice \in DOMAIN invoice
    /\ log[l].at # "failed" => log[l].left > 0
    /\ Found(l)
    /\ log[l].processed => l \in undone \/ row[RecordOf(l)].tx = log[l].invoice

\* One transaction at a time per record.
Alone ==
    \A l, k \in DOMAIN log : Busy(l) /\ Busy(k) /\ RecordOf(l) = RecordOf(k) => l = k

\* A report that has been alerted about and waits again has met a failure.
AlertInv ==
    /\ \A l \in 1..MaxReports : alerts[l] <= 1 + failures
    /\ \A l \in DOMAIN log : log[l].at \in {"waiting", "alerting"} => alerts[l] <= failures
    /\ \A l \in (1..MaxReports) \ DOMAIN log : alerts[l] = 0

\* What a handler c carries: an update() that no commit has overtaken has seen
\* the transaction of every report that still holds.
Sound(c) ==
    c.at # "idle" =>
        /\ c.record \in Records /\ c.entity \in Row
        /\ c.entity.ref \in {Null, c.record, SnapToken}
        /\ c.at = "update" => "tx" \notin c.cols
        /\ c.at \in {"found", "write"} /\ ~c.stale =>
               \A l \in DOMAIN log :
                  log[l].processed /\ l \notin undone /\ RecordOf(l) = c.record =>
                      c.entity.tx = log[l].invoice

CallInv == \A h \in Handlers : Sound(call[h])

Inv == TypeOK /\ RefInv /\ (\A l \in DOMAIN log : LogInv(l)) /\ Alone /\ AlertInv /\ CallInv

------------------------------------------------------------------------------
(* The operators of the model. *)

LEMMA Typed ==
    ASSUME TypeOK
    PROVE  /\ DOMAIN log = 1..Len(log) /\ Len(log) \in Nat /\ DOMAIN log \subseteq 1..MaxReports
           /\ DOMAIN invoice = 1..Len(invoice) /\ Len(invoice) \in Nat
           /\ DOMAIN invoice \subseteq Invoices
           /\ \A l \in DOMAIN log : log[l] \in Log
           /\ \A i \in DOMAIN invoice : invoice[i] \in Invoice
  <1>1. log \in Seq(Log) /\ invoice \in Seq(Invoice) /\ MaxReports \in Nat /\ MaxInvoices \in Nat
    BY WebhookAssumptions DEF TypeOK
  <1>2. Len(log) \in Nat /\ DOMAIN log = 1..Len(log) /\ \A l \in 1..Len(log) : log[l] \in Log
    BY <1>1, LenProperties, ElementOfSeq
  <1>3. /\ Len(invoice) \in Nat /\ DOMAIN invoice = 1..Len(invoice)
        /\ \A i \in 1..Len(invoice) : invoice[i] \in Invoice
    BY <1>1, LenProperties, ElementOfSeq
  <1>. QED
    BY <1>1, <1>2, <1>3 DEF TypeOK, Invoices

\* A report finds no record but its own: nobody else stores its reference.
LEMMA FoundIsItsOwn ==
    ASSUME Inv, NEW l \in DOMAIN log, NEW r \in Records,
           row[r].ref = ReportedReference(log[l].invoice)
    PROVE  r = RecordOf(l)
  <1>1. log[l].invoice \in DOMAIN invoice
    BY DEF Inv, LogInv
  <1>2. ReportedReference(log[l].invoice) = RecordOf(l) /\ RecordOf(l) \in Records
    BY <1>1, Typed DEF Inv, ReportedReference, RecordOf, Invoice
  <1>. QED
    BY <1>2, WebhookAssumptions DEF Inv, RefInv

\* An open transaction holds the lock of its record.
LEMMA BusyLocks ==
    ASSUME Inv, NEW l \in DOMAIN log, Busy(l)
    PROVE  Locked(RecordOf(l))
  BY DEF Inv, LogInv, Found, Busy, Locked, RecordOf, ReportedReference

LEMMA ThrownTyped ==
    ASSUME NEW j \in Log, j.left > 0
    PROVE  /\ Thrown(j) \in Log
           /\ Thrown(j).at \in {"waiting", "failed"}
           /\ Thrown(j).at # "failed" => Thrown(j).left > 0
           /\ Thrown(j).invoice = j.invoice /\ Thrown(j).outcome = j.outcome
           /\ Thrown(j).processed = j.processed
  <1>1. PICK left \in 0..Attempts, at \in {"waiting", "failed"} :
           /\ left = j.left - 1 /\ at = IF j.left = 1 THEN "failed" ELSE "waiting"
           /\ at # "failed" => left > 0
    BY WebhookAssumptions DEF Log
  <1>2. Thrown(j) = [j EXCEPT !.left = left, !.at = at]
    BY <1>1, Zenon DEF Thrown
  <1>. DEFINE new == [j EXCEPT !.left = left, !.at = at]
  <1>3. /\ new \in Log /\ new.left = left /\ new.at = at /\ new.invoice = j.invoice
        /\ new.outcome = j.outcome /\ new.processed = j.processed
    BY DEF Log
  <1>. HIDE DEF new
  <1>. QED
    BY <1>1, <1>2, <1>3 DEF new

------------------------------------------------------------------------------
(* Steps of the same kind. *)

\* A handler goes on; no row changes.
LEMMA CallStep ==
    ASSUME Inv, NEW h \in Handlers, NEW new \in Call, call' = [call EXCEPT ![h] = new],
           Sound(new), UNCHANGED <<row, invoice, log, undone, alerts>>,
           changes' \in 0..MaxChanges, failures' \in 0..MaxFailures, failures <= failures'
    PROVE  Inv'
  <1>1. call' \in [Handlers -> Call] /\ \A x \in Handlers : call'[x] = IF x = h THEN new ELSE call[x]
    BY DEF Inv, TypeOK
  <1>2. TypeOK' /\ RefInv'
    BY <1>1 DEF Inv, TypeOK, RefInv
  <1>3. (\A l \in DOMAIN log : LogInv(l))' /\ Alone'
    BY DEF Inv, LogInv, Found, Alone, Busy, RecordOf, AmountDiffers, NextStatus
  <1>4. AlertInv'
    <2>1. failures \in Nat /\ failures' \in Nat /\ \A l \in 1..MaxReports : alerts[l] \in Nat
      BY WebhookAssumptions DEF Inv, TypeOK
    <2>. QED
      BY <2>1, Typed DEF Inv, AlertInv
  <1>5. CallInv'
    <2>. SUFFICES ASSUME NEW x \in Handlers PROVE Sound(call[x])'
      BY DEF CallInv
    <2>1. Sound(call'[x])
      BY <1>1 DEF Inv, CallInv
    <2>. QED
      BY <2>1 DEF Sound, RecordOf
  <1>. QED
    BY <1>2, <1>3, <1>4, <1>5 DEF Inv

LEMMA AssignTyped ==
    ASSUME NEW old \in Row, NEW new \in Row, NEW cols
    PROVE  /\ Assign(old, new, cols) \in Row
           /\ Assign(old, new, cols).tx = IF "tx" \in cols THEN new.tx ELSE old.tx
           /\ Assign(old, new, cols).ref = IF "ref" \in cols THEN new.ref ELSE old.ref
           /\ cols = {} => Assign(old, new, cols) = old
  BY DEF Assign, Row

\* The columns that differ are written, the transaction among them: what a
\* commit has bound meanwhile is undone, and nothing else.
LEMMA WriteStep ==
    ASSUME Inv, NEW h \in Handlers, SaveWrite(h)
    PROVE  Inv'
  <1>. DEFINE c == call[h]
              r == c.record
              new == Assign(row[r], c.entity, c.cols)
  <1>1. /\ c \in Call /\ Sound(c) /\ c.at = "write" /\ r \in Records /\ c.entity \in Row
        /\ row \in [Records -> Row] /\ row[r] \in Row
        /\ c.entity.ref \in {Null, r, SnapToken} /\ row[r].ref \in {Null, r, SnapToken}
        /\ row' = [row EXCEPT ![r] = new] /\ (c.cols # {} => ~Locked(r))
        /\ call' = [call EXCEPT ![h] = NoCall]
        /\ UNCHANGED <<invoice, log, alerts, changes, failures>>
    BY DEF Inv, TypeOK, CallInv, RefInv, SaveWrite, Sound
  <1>2. /\ new \in Row /\ new.ref \in {Null, r, SnapToken}
        /\ new.tx = (IF "tx" \in c.cols THEN c.entity.tx ELSE row[r].tx)
        /\ c.cols = {} => new = row[r]
    BY <1>1, AssignTyped
  <1>3. /\ undone \subseteq undone' /\ undone' \subseteq DOMAIN log
        /\ c.stale /\ "tx" \in c.cols =>
              \A l \in DOMAIN log : log[l].processed /\ RecordOf(l) = r => l \in undone'
    BY DEF Inv, TypeOK, SaveWrite, RecordOf
  <1>4. /\ c.stale \in BOOLEAN
        /\ ~c.stale => \A l \in DOMAIN log :
                           log[l].processed /\ l \notin undone /\ RecordOf(l) = r =>
                               c.entity.tx = log[l].invoice
    BY <1>1 DEF Sound, Call
  <1>. HIDE DEF c, r, new
  <1>5. row' \in [Records -> Row] /\ \A x \in Records : row'[x] = IF x = r THEN new ELSE row[x]
    BY <1>1, <1>2
  <1>6. /\ call' \in [Handlers -> Call]
        /\ \A x \in Handlers : call'[x] = call[x] \/ call'[x] = NoCall
    BY <1>1 DEF Inv, TypeOK, Call, NoCall
  <1>7. TypeOK' /\ RefInv'
    BY <1>1, <1>2, <1>3, <1>5, <1>6 DEF Inv, TypeOK, RefInv
  <1>8. ASSUME NEW l \in DOMAIN log PROVE LogInv(l)'
    <2>1. /\ RecordOf(l) \in Records /\ RecordOf(l)' = RecordOf(l) /\ LogInv(l)
          /\ invoice' = invoice /\ log' = log
      BY <1>1, Typed DEF Inv, LogInv, RecordOf, Invoice
    <2>2. Busy(l) => row'[RecordOf(l)] = row[RecordOf(l)]
      BY <1>1, <1>2, <1>5, <2>1, BusyLocks
    <2>3. Found(l)'
      <3>1. CASE Busy(l)
        BY <2>1, <2>2, <3>1 DEF LogInv, Found, Busy, AmountDiffers, NextStatus
      <3>2. CASE ~Busy(l)
        BY <2>1, <3>2 DEF Found, Busy
      <3>. QED
        BY <3>1, <3>2
    <2>4. ASSUME log[l].processed, l \notin undone' PROVE row'[RecordOf(l)].tx = log[l].invoice
      <3>1. l \notin undone /\ row[RecordOf(l)].tx = log[l].invoice
        BY <1>3, <2>1, <2>4 DEF LogInv
      <3>2. CASE RecordOf(l) # r
        BY <1>5, <2>1, <3>1, <3>2
      <3>3. CASE RecordOf(l) = r
        <4>1. row'[r] = new
          BY <1>5, <2>1, <3>3
        <4>2. "tx" \in c.cols => c.entity.tx = log[l].invoice
          BY <1>3, <1>4, <2>4, <3>1, <3>3
        <4>. QED
          BY <1>2, <3>1, <3>3, <4>1, <4>2
      <3>. QED
        BY <3>2, <3>3
    <2>. QED
      BY <2>1, <2>3, <2>4 DEF LogInv
  <1>9. Alone' /\ AlertInv'
    BY <1>1 DEF Inv, Alone, AlertInv, Busy, RecordOf
  <1>10. CallInv'
    <2>. SUFFICES ASSUME NEW x \in Handlers PROVE Sound(call[x])'
      BY DEF CallInv
    <2>1. CASE call'[x] = NoCall
      BY <2>1 DEF Sound, NoCall
    <2>2. CASE call'[x] = call[x]
      <3>1. Sound(call[x])
        BY DEF Inv, CallInv
      <3>. QED
        BY <1>1, <1>3, <2>2, <3>1 DEF Sound, RecordOf
    <2>. QED
      BY <1>6, <2>1, <2>2
  <1>. QED
    BY <1>1, <1>7, <1>8, <1>9, <1>10 DEF Inv

\* The row of a report, or its job, changes; no record does.
LEMMA LogStep ==
    ASSUME Inv, NEW l \in DOMAIN log, NEW j \in Log, log' = [log EXCEPT ![l] = j],
           UNCHANGED <<row, call, invoice, undone, changes>>,
           failures' \in Nat, failures <= failures', failures' <= MaxFailures,
           alerts' \in [1..MaxReports -> Nat],
           \A k \in (1..MaxReports) \ {l} : alerts'[k] = alerts[k],
           alerts'[l] <= 1 + failures',
           j.at \in {"waiting", "alerting"} => alerts'[l] <= failures',
           j.invoice = log[l].invoice, j.outcome = log[l].outcome,
           j.processed = log[l].processed, j.at # "failed" => j.left > 0,
           Found(l)', Busy(l)' => Busy(l) \/ ~Locked(RecordOf(l))
    PROVE  Inv'
  <1>1. /\ log \in Seq(Log) /\ DOMAIN log = 1..Len(log)
        /\ log' \in Seq(Log) /\ Len(log') = Len(log) /\ DOMAIN log' = DOMAIN log
        /\ \A k \in DOMAIN log : log'[k] = IF k = l THEN j ELSE log[k]
        /\ DOMAIN log \subseteq 1..MaxReports
    BY ExceptSeq, LenProperties, Typed DEF Inv, TypeOK
  <1>2. TypeOK' /\ RefInv'
    <2>1. TypeOK /\ RefInv /\ failures' \in 0..MaxFailures
      BY WebhookAssumptions DEF Inv
    <2>. QED
      BY <1>1, <2>1 DEF TypeOK, RefInv
  <1>3. \A k \in DOMAIN log : RecordOf(k)' = RecordOf(k) /\ (k # l => (Busy(k)' <=> Busy(k)))
    BY <1>1 DEF RecordOf, Busy
  <1>4. ASSUME NEW k \in DOMAIN log PROVE LogInv(k)'
    <2>1. CASE k = l
      BY <1>1, <1>3, <2>1 DEF Inv, LogInv
    <2>2. CASE k # l
      <3>1. log'[k] = log[k]
        BY <1>1, <2>2
      <3>. QED
        BY <1>3, <2>2, <3>1 DEF Inv, LogInv, Found, AmountDiffers, NextStatus, Busy
    <2>. QED
      BY <2>1, <2>2
  <1>5. Alone'
    <2>. SUFFICES ASSUME NEW a \in DOMAIN log, NEW b \in DOMAIN log, Busy(a)', Busy(b)',
                         RecordOf(a) = RecordOf(b)
                  PROVE  a = b
      BY <1>1, <1>3 DEF Alone
    <2>1. CASE a # l /\ b # l
      BY <1>3, <2>1 DEF Inv, Alone
    <2>2. CASE a = l \/ b = l
      <3>1. CASE Busy(l)
        BY <1>3, <2>2, <3>1 DEF Inv, Alone
      <3>2. CASE ~Busy(l)
        BY <1>3, <2>2, <3>2, BusyLocks
      <3>. QED
        BY <3>1, <3>2
    <2>. QED
      BY <2>1, <2>2
  <1>6. AlertInv'
    <2>1. /\ \A k \in 1..MaxReports : alerts[k] \in Nat /\ alerts[k] <= 1 + failures
          /\ failures \in Nat
      BY WebhookAssumptions DEF Inv, AlertInv, TypeOK
    <2>2. \A k \in 1..MaxReports : alerts'[k] <= 1 + failures'
      BY <2>1
    <2>3. ASSUME NEW k \in DOMAIN log, log'[k].at \in {"waiting", "alerting"}
          PROVE  alerts'[k] <= failures'
      BY <1>1, <2>1, <2>3 DEF Inv, AlertInv
    <2>4. ASSUME NEW k \in (1..MaxReports) \ DOMAIN log PROVE alerts'[k] = 0
      BY <1>1 DEF Inv, AlertInv
    <2>. QED
      BY <1>1, <2>2, <2>3, <2>4 DEF AlertInv
  <1>7. CallInv'
    BY <1>1, <1>3 DEF Inv, CallInv, Sound
  <1>. QED
    BY <1>1, <1>2, <1>4, <1>5, <1>6, <1>7 DEF Inv

\* A report is logged.
LEMMA LoggedStep ==
    ASSUME Inv, NEW i \in DOMAIN invoice, NEW at \in {"refused", "waiting"}, Logged(i, at),
           failures' \in Nat, failures <= failures', failures' <= MaxFailures
    PROVE  Inv'
  <1>1. PICK n \in 1..MaxReports : n = Len(log) + 1
    BY Typed, WebhookAssumptions DEF Inv, TypeOK, Logged
  <1>2. /\ log \in Seq(Log) /\ DOMAIN log = 1..Len(log) /\ Len(log) \in Nat
        /\ n \notin DOMAIN log
    BY <1>1, Typed DEF Inv, TypeOK
  <1>3. PICK new \in Log :
           /\ log' = Append(log, new)
           /\ new.at = at /\ new.invoice = i /\ new.left = Attempts /\ ~new.processed
    <2>1. invoice[i].outcome \in Outcomes /\ i \in Invoices
      BY Typed DEF Inv, Logged, Invoice
    <2>. DEFINE e == [invoice |-> i, outcome |-> invoice[i].outcome, processed |-> FALSE,
                      at |-> at, left |-> Attempts, stalled |-> FALSE]
    <2>2. /\ e \in Log /\ e.at = at /\ e.invoice = i /\ e.left = Attempts /\ ~e.processed
      BY <2>1, WebhookAssumptions DEF Log
    <2>3. log' = Append(log, e)
      BY DEF Logged
    <2>. HIDE DEF e
    <2>. QED
      BY <2>2, <2>3
  <1>4. /\ log' \in Seq(Log) /\ Len(log') = n
        /\ \A k \in DOMAIN log : log'[k] = log[k]
        /\ log'[n] = new /\ DOMAIN log' = DOMAIN log \cup {n}
        /\ UNCHANGED <<row, call, invoice, undone, alerts, changes>>
    BY <1>1, <1>2, <1>3, AppendProperties, LenProperties DEF Logged
  <1>5. TypeOK' /\ RefInv'
    <2>1. n <= MaxReports /\ failures' \in 0..MaxFailures
      BY <1>1, WebhookAssumptions
    <2>. QED
      BY <1>4, <2>1 DEF Inv, TypeOK, RefInv
  <1>6. \A k \in DOMAIN log : RecordOf(k)' = RecordOf(k) /\ (Busy(k)' <=> Busy(k))
    BY <1>4 DEF RecordOf, Busy
  <1>7. ~Busy(n)'
    BY <1>3, <1>4 DEF Busy
  <1>8. ASSUME NEW k \in DOMAIN log' PROVE LogInv(k)'
    <2>1. CASE k = n
      BY <1>2, <1>3, <1>4, <1>7, <2>1, WebhookAssumptions DEF LogInv, Found
    <2>2. CASE k \in DOMAIN log
      BY <1>4, <1>6, <2>2 DEF Inv, LogInv, Found, AmountDiffers, NextStatus
    <2>. QED
      BY <1>4, <2>1, <2>2
  <1>9. Alone'
    BY <1>4, <1>6, <1>7 DEF Inv, Alone
  <1>10. AlertInv'
    <2>1. failures \in Nat /\ \A k \in 1..MaxReports : alerts[k] \in Nat
      BY WebhookAssumptions DEF Inv, TypeOK
    <2>2. alerts[n] = 0
      BY <1>2 DEF Inv, AlertInv
    <2>3. \A k \in 1..MaxReports : alerts[k] <= 1 + failures'
      BY <2>1 DEF Inv, AlertInv
    <2>4. ASSUME NEW k \in DOMAIN log', log'[k].at \in {"waiting", "alerting"}
          PROVE  alerts[k] <= failures'
      BY <1>2, <1>4, <2>1, <2>2, <2>4, Typed DEF Inv, AlertInv
    <2>. QED
      BY <1>4, <2>3, <2>4 DEF Inv, AlertInv
  <1>11. CallInv'
    BY <1>3, <1>4, <1>6 DEF Inv, CallInv, Sound
  <1>. QED
    BY <1>5, <1>8, <1>9, <1>10, <1>11 DEF Inv

\* What the gateway's invoices become leaves their records and amounts alone.
LEMMA InvoiceStep ==
    ASSUME Inv, invoice' \in Seq(Invoice), Len(invoice') <= MaxInvoices,
           \A i \in DOMAIN invoice : /\ i \in DOMAIN invoice'
                                     /\ invoice'[i].record = invoice[i].record
                                     /\ invoice'[i].amount = invoice[i].amount,
           UNCHANGED <<row, log, undone, alerts, changes, failures>>,
           call' \in [Handlers -> Call],
           \A h \in Handlers : Sound(call'[h])
    PROVE  Inv'
  <1>1. TypeOK' /\ RefInv' /\ AlertInv'
    BY DEF Inv, TypeOK, RefInv, AlertInv
  <1>2. \A l \in DOMAIN log : RecordOf(l)' = RecordOf(l) /\ (Busy(l)' <=> Busy(l))
    BY DEF Inv, LogInv, RecordOf, Busy
  <1>3. ASSUME NEW l \in DOMAIN log PROVE LogInv(l)'
    BY <1>2 DEF Inv, LogInv, Found, AmountDiffers, NextStatus, Busy
  <1>4. Alone'
    BY <1>2 DEF Inv, Alone
  <1>5. CallInv'
    BY <1>2 DEF CallInv, Sound
  <1>. QED
    BY <1>1, <1>3, <1>4, <1>5 DEF Inv

------------------------------------------------------------------------------
(* The actions. *)

LEMMA InitInv == Init => Inv
  <1>. SUFFICES ASSUME Init PROVE Inv
    OBVIOUS
  <1>1. TypeOK
    BY WebhookAssumptions, EmptySeq DEF Init, TypeOK, Row, PaymentStatus, Call, NoCall
  <1>2. DOMAIN log = {} /\ failures = 0
    BY EmptySeq, LenProperties DEF Init
  <1>. QED
    BY <1>1, <1>2 DEF Init, Inv, RefInv, Alone, AlertInv, CallInv, Sound, NoCall

\* The gateway's side of a link.
LEMMA GatewayStep ==
    ASSUME Inv, NEW h \in Handlers, OpenInvoice(h)
    PROVE  Inv'
  <1>. DEFINE new == [record |-> call[h].record, amount |-> call[h].entity.due, outcome |-> Null]
              c == [call[h] EXCEPT !.at = "answered"]
  <1>1. /\ call[h] \in Call /\ call[h].at = "asked" /\ call[h].record \in Records
        /\ call[h].entity \in Row /\ call[h].entity.ref \in {Null, call[h].record, SnapToken}
    BY DEF OpenInvoice, Inv, TypeOK, CallInv, Sound
  <1>2. invoice' = Append(invoice, new) /\ new \in Invoice /\ Len(invoice) + 1 <= MaxInvoices
    BY <1>1, Typed, WebhookAssumptions DEF OpenInvoice, Inv, Invoice, Row
  <1>3. c \in Call /\ Sound(c) /\ call' = [call EXCEPT ![h] = c]
    BY <1>1 DEF OpenInvoice, Call, Sound
  <1>. HIDE DEF new, c
  <1>4. invoice \in Seq(Invoice)
    BY DEF Inv, TypeOK
  <1>5. /\ invoice' \in Seq(Invoice) /\ Len(invoice') <= MaxInvoices
        /\ \A i \in DOMAIN invoice : i \in DOMAIN invoice' /\ invoice'[i] = invoice[i]
    BY <1>2, <1>4, AppendProperties, LenProperties
  <1>6. call' \in [Handlers -> Call] /\ \A x \in Handlers : Sound(call'[x])
    BY <1>3 DEF Inv, TypeOK, CallInv
  <1>. QED
    BY <1>5, <1>6, InvoiceStep DEF OpenInvoice

LEMMA InvoiceMovesStep ==
    ASSUME Inv, NEW i \in DOMAIN invoice, NEW outcome \in Outcomes, InvoiceMoves(i, outcome)
    PROVE  Inv'
  <1>. DEFINE new == [invoice[i] EXCEPT !.outcome = outcome]
  <1>1. /\ invoice' = [invoice EXCEPT ![i] = new] /\ new \in Invoice
        /\ new.record = invoice[i].record /\ new.amount = invoice[i].amount
    BY Typed DEF InvoiceMoves, Inv, Invoice
  <1>. HIDE DEF new
  <1>2. invoice \in Seq(Invoice) /\ i \in 1..Len(invoice) /\ Len(invoice) <= MaxInvoices
    BY Typed DEF Inv, TypeOK
  <1>3. /\ invoice' \in Seq(Invoice) /\ Len(invoice') = Len(invoice)
        /\ DOMAIN invoice' = DOMAIN invoice
        /\ \A k \in DOMAIN invoice : invoice'[k] = IF k = i THEN new ELSE invoice[k]
    BY <1>1, <1>2, ExceptSeq, LenProperties
  <1>. QED
    BY <1>1, <1>2, <1>3, InvoiceStep DEF InvoiceMoves, Inv, TypeOK, CallInv

\* A handler reads the record and begins.
LEMMA BeginStep ==
    ASSUME Inv, NEW h \in Handlers, NEW r \in Records, NEW at \in {"asked", "update"},
           NEW entity \in Row, entity.ref = row[r].ref,
           NEW cols \in SUBSET Columns, "tx" \notin cols,
           Begin(h, at, r, entity, cols), changes' \in 0..MaxChanges
    PROVE  Inv'
  <1>. DEFINE c == [at |-> at, record |-> r, entity |-> entity, cols |-> cols, stale |-> FALSE]
  <1>1. entity.ref \in {Null, r, SnapToken}
    BY DEF Inv, RefInv
  <1>2. c \in Call /\ Sound(c) /\ call' = [call EXCEPT ![h] = c]
    BY <1>1 DEF Call, Sound, Begin
  <1>3. /\ UNCHANGED <<row, invoice, log, undone, alerts>>
        /\ failures' \in 0..MaxFailures /\ failures <= failures'
    BY WebhookAssumptions DEF Begin, Inv, TypeOK
  <1>. HIDE DEF c
  <1>. QED
    BY <1>2, <1>3, CallStep

LEMMA HandlerBegins ==
    ASSUME Inv, NEW h \in Handlers, NEW r \in Records,
           \/ AskForLink(h, r)
           \/ \E to \in PaymentStatus : HostSettles(h, r, to)
           \/ \E a \in Amounts : ChangeShare(h, r, a) \/ ReviveRecord(h, r, a)
    PROVE  Inv'
  <1>1. row[r] \in Row /\ "PENDING" \in PaymentStatus /\ changes \in 0..MaxChanges
    BY DEF Inv, TypeOK, PaymentStatus
  <1>2. Changes => changes' \in 0..MaxChanges
    BY <1>1, WebhookAssumptions DEF Changes
  <1>3. CASE AskForLink(h, r)
    BY <1>1, <1>3, BeginStep DEF AskForLink, Columns
  <1>4. ASSUME NEW to \in PaymentStatus, HostSettles(h, r, to) PROVE Inv'
    <2>. DEFINE e == [row[r] EXCEPT !.status = to]
    <2>1. e \in Row /\ e.ref = row[r].ref /\ Begin(h, "update", r, e, {"status"}) /\ Changes
      BY <1>1, <1>4 DEF Row, HostSettles
    <2>. HIDE DEF e
    <2>. QED
      BY <1>2, <2>1, BeginStep DEF Columns
  <1>5. ASSUME NEW a \in Amounts, ChangeShare(h, r, a) PROVE Inv'
    <2>. DEFINE e == [row[r] EXCEPT !.due = a]
    <2>1. e \in Row /\ e.ref = row[r].ref /\ Begin(h, "update", r, e, {"due"}) /\ Changes
      BY <1>1, <1>5 DEF Row, ChangeShare
    <2>. HIDE DEF e
    <2>. QED
      BY <1>2, <2>1, BeginStep DEF Columns
  <1>6. ASSUME NEW a \in Amounts, ReviveRecord(h, r, a) PROVE Inv'
    <2>. DEFINE e == [row[r] EXCEPT !.status = "PENDING", !.due = a]
    <2>1. /\ e \in Row /\ e.ref = row[r].ref
          /\ Begin(h, "update", r, e, {"status", "due"}) /\ Changes
      BY <1>1, <1>6 DEF Row, ReviveRecord
    <2>. HIDE DEF e
    <2>. QED
      BY <1>2, <2>1, BeginStep DEF Columns
  <1>. QED
    BY <1>3, <1>4, <1>5, <1>6

\* A handler goes on or gives up.
LEMMA HandlerGoesOn ==
    ASSUME Inv, NEW h \in Handlers,
           StoreLink(h) \/ UpdateFind(h) \/ SaveLoad(h) \/ CallFails(h)
    PROVE  Inv'
  <1>. DEFINE c == call[h]
  <1>1. /\ c \in Call /\ Sound(c) /\ c.at # "idle" /\ c.record \in Records /\ c.entity \in Row
        /\ c.entity.ref \in {Null, c.record, SnapToken}
        /\ row[c.record] \in Row /\ row[c.record].ref \in {Null, c.record, SnapToken}
    <2>1. c \in Call /\ Sound(c) /\ c.at # "idle"
      BY DEF Inv, TypeOK, CallInv, StoreLink, UpdateFind, SaveLoad, CallFails
    <2>. QED
      BY <2>1 DEF Inv, TypeOK, RefInv, Sound
  <1>2. /\ UNCHANGED <<row, invoice, log, undone, alerts>> /\ changes' \in 0..MaxChanges
        /\ failures' \in 0..MaxFailures /\ failures <= failures'
    BY WebhookAssumptions
    DEF Inv, TypeOK, StoreLink, UpdateFind, SaveLoad, CallFails, CanFail
  <1>3. NoCall \in Call /\ Sound(NoCall)
    BY DEF NoCall, Call, Sound, Columns
  <1>4. CASE call' = [call EXCEPT ![h] = NoCall]
    BY <1>2, <1>3, <1>4, CallStep
  <1>5. CASE StoreLink(h) /\ ensureTransition(c.entity.status, "AWAITING_GATEWAY")
    <2>. DEFINE e == [c.entity EXCEPT !.status = "AWAITING_GATEWAY",
                                      !.ref = StoredReference(c.record)]
                new == [c EXCEPT !.at = "update", !.cols = {"status", "ref"}, !.entity = e]
    <2>1. e \in Row /\ e.ref \in {Null, c.record, SnapToken}
      BY <1>1 DEF Row, PaymentStatus, StoredReference
    <2>2. call' = [call EXCEPT ![h] = new]
      BY <1>5 DEF StoreLink
    <2>. HIDE DEF e
    <2>3. new \in Call /\ Sound(new)
      BY <1>1, <2>1 DEF Call, Sound, Columns
    <2>. HIDE DEF new
    <2>. QED
      BY <1>2, <2>2, <2>3, CallStep
  <1>6. CASE UpdateFind(h)
    <2>. DEFINE e == Assign(row[c.record], c.entity, c.cols)
                new == [c EXCEPT !.at = "found", !.entity = e]
    <2>1. c.at = "update" /\ "tx" \notin c.cols
      BY <1>1, <1>6 DEF UpdateFind, Sound
    <2>2. /\ e \in Row /\ e.tx = row[c.record].tx
          /\ e.ref \in {c.entity.ref, row[c.record].ref}
      BY <1>1, <2>1, AssignTyped
    <2>3. call' = [call EXCEPT ![h] = new]
      <3>1. call' = [call EXCEPT ![h].at = "found", ![h].entity = e]
        BY <1>6, Zenon DEF UpdateFind
      <3>2. DOMAIN call = Handlers
        BY DEF Inv, TypeOK
      <3>. QED
        BY <3>1, <3>2, Zenon
    <2>4. \A l \in DOMAIN log :
             log[l].processed /\ l \notin undone /\ RecordOf(l) = c.record =>
                 e.tx = log[l].invoice
      BY <2>2 DEF Inv, LogInv
    <2>. HIDE DEF e, c
    <2>5. /\ new \in Call /\ new.at = "found" /\ new.record = c.record /\ new.entity = e
      BY <1>1, <2>2 DEF Call
    <2>. HIDE DEF new
    <2>6. Sound(new)
      BY <1>1, <2>2, <2>4, <2>5 DEF Sound
    <2>. QED
      BY <1>2, <2>3, <2>5, <2>6, CallStep DEF c
  <1>7. CASE SaveLoad(h)
    <2>. DEFINE cols == {x \in Columns : \/ c.entity[x] # row[c.record][x]
                                         \/ x = "due" /\ x \in c.cols}
                new == [c EXCEPT !.at = "write", !.cols = cols]
    <2>1. cols \in SUBSET Columns /\ c.at = "found"
      BY <1>7 DEF SaveLoad
    <2>2. call' = [call EXCEPT ![h] = new]
      <3>1. call' = [call EXCEPT ![h].at = "write", ![h].cols = cols]
        BY <1>7, Zenon DEF SaveLoad
      <3>2. DOMAIN call = Handlers
        BY DEF Inv, TypeOK
      <3>. HIDE DEF cols
      <3>. QED
        BY <3>1, <3>2, Zenon
    <2>. HIDE DEF cols, c
    <2>3. /\ new \in Call /\ new.at = "write" /\ new.record = c.record
          /\ new.entity = c.entity /\ new.stale = c.stale
      BY <1>1, <2>1 DEF Call
    <2>. HIDE DEF new
    <2>4. Sound(new)
      BY <1>1, <2>1, <2>3 DEF Sound
    <2>. QED
      BY <1>2, <2>2, <2>3, <2>4, CallStep DEF c
  <1>. QED
    BY <1>4, <1>5, <1>6, <1>7 DEF StoreLink, CallFails

\* An attempt decides, alerts or ends; the row of the record is left alone.
LEMMA AttemptStep ==
    ASSUME Inv, NEW l \in DOMAIN log, Attempt(l)
    PROVE  Inv'
  <1>1. /\ log[l] \in Log /\ log[l].at = "waiting" /\ log[l].left > 0 /\ l \in 1..MaxReports
        /\ log \in Seq(Log) /\ l \in 1..Len(log)
    BY Typed DEF Inv, LogInv, Attempt, TypeOK
  <1>2. /\ failures \in Nat /\ failures <= MaxFailures /\ alerts \in [1..MaxReports -> Nat]
        /\ alerts[l] <= failures /\ alerts[l] <= 1 + failures /\ failures <= failures
    BY <1>1, WebhookAssumptions DEF Inv, TypeOK, AlertInv
  <1>3. UNCHANGED <<row, call, invoice, undone, alerts, changes, failures>>
    BY DEF Attempt
  <1>4. CASE log' = [log EXCEPT ![l] = Thrown(log[l])]
    <2>. DEFINE j == Thrown(log[l])
    <2>1. /\ j \in Log /\ j.at \in {"waiting", "failed"} /\ (j.at # "failed" => j.left > 0)
          /\ j.invoice = log[l].invoice /\ j.outcome = log[l].outcome
          /\ j.processed = log[l].processed
      BY <1>1, ThrownTyped
    <2>2. log' = [log EXCEPT ![l] = j]
      BY <1>4
    <2>. HIDE DEF j
    <2>3. log'[l] = j
      BY <1>1, <2>1, <2>2, ExceptSeq
    <2>4. ~Busy(l)'
      BY <2>1, <2>3 DEF Busy
    <2>5. Found(l)'
      BY <2>4 DEF Found
    <2>. QED
      BY <1>2, <1>3, <2>1, <2>2, <2>4, <2>5, LogStep
  <1>5. ASSUME NEW r \in Records, row[r].ref = ReportedReference(log[l].invoice), ~Locked(r),
               ~OtherTransaction(l, r), NEW at \in {"alerting", "committing"},
               log' = [log EXCEPT ![l] = [log[l] EXCEPT !.at = at]],
               AmountDiffers(l, r) \/ (at = "committing" /\ NextStatus(l, r) # {})
        PROVE  Inv'
    <2>. DEFINE j == [log[l] EXCEPT !.at = at]
    <2>1. /\ j \in Log /\ j.at = at /\ j.left > 0
          /\ j.invoice = log[l].invoice /\ j.outcome = log[l].outcome
          /\ j.processed = log[l].processed
      BY <1>1 DEF Log
    <2>2. log' = [log EXCEPT ![l] = j]
      BY <1>5
    <2>. HIDE DEF j
    <2>3. log'[l] = j
      BY <1>1, <2>1, <2>2, ExceptSeq
    <2>4. r = RecordOf(l) /\ RecordOf(l)' = RecordOf(l) /\ row[r].ref = r
      BY <1>3, <1>5, <2>1, <2>3, FoundIsItsOwn DEF RecordOf, ReportedReference
    <2>5. row[r].tx \in {Null, log[l].invoice}
      BY <1>5 DEF OtherTransaction
    <2>6. Found(l)'
      BY <1>3, <1>5, <2>1, <2>3, <2>4, <2>5 DEF Found, AmountDiffers, NextStatus
    <2>7. ~Locked(RecordOf(l))
      BY <1>5, <2>4
    <2>. QED
      BY <1>2, <1>3, <1>5, <2>1, <2>2, <2>6, <2>7, LogStep
  <1>6. CASE \E r \in Records : row[r].ref = ReportedReference(log[l].invoice) /\ ~Locked(r)
                                /\ log' = [log EXCEPT ![l] = Decide(l, r)]
    <2>1. PICK r \in Records : /\ row[r].ref = ReportedReference(log[l].invoice) /\ ~Locked(r)
                               /\ log' = [log EXCEPT ![l] = Decide(l, r)]
      BY <1>6
    <2>2. CASE Decide(l, r) = Thrown(log[l])
      BY <1>4, <2>1, <2>2
    <2>3. CASE ~OtherTransaction(l, r) /\ AmountDiffers(l, r)
      BY <1>5, <2>1, <2>3, Zenon DEF Decide
    <2>4. CASE ~OtherTransaction(l, r) /\ ~AmountDiffers(l, r) /\ NextStatus(l, r) # {}
      BY <1>5, <2>1, <2>4, Zenon DEF Decide
    <2>. QED
      BY <2>2, <2>3, <2>4 DEF Decide
  <1>. QED
    BY <1>4, <1>6 DEF Attempt

LEMMA AlertStep ==
    ASSUME Inv, NEW l \in DOMAIN log, Alert(l)
    PROVE  Inv'
  <1>. DEFINE j == [log[l] EXCEPT !.at = "committing"]
  <1>1. /\ log[l] \in Log /\ log[l].at = "alerting" /\ log[l].left > 0 /\ l \in 1..MaxReports
        /\ log \in Seq(Log) /\ l \in 1..Len(log) /\ Busy(l) /\ Found(l)
    BY Typed DEF Inv, LogInv, Alert, TypeOK, Busy
  <1>2. /\ failures \in Nat /\ failures <= MaxFailures /\ failures <= failures
        /\ alerts \in [1..MaxReports -> Nat] /\ alerts[l] <= failures /\ failures' = failures
    BY <1>1, WebhookAssumptions DEF Inv, TypeOK, AlertInv, Alert
  <1>3. /\ alerts' \in [1..MaxReports -> Nat] /\ alerts'[l] <= 1 + failures
        /\ \A k \in (1..MaxReports) \ {l} : alerts'[k] = alerts[k]
    <2>1. alerts' = alerts \/ alerts' = [alerts EXCEPT ![l] = @ + 1]
      BY DEF Alert
    <2>2. CASE alerts' = alerts
      BY <1>1, <1>2, <2>2
    <2>3. CASE alerts' = [alerts EXCEPT ![l] = @ + 1]
      BY <1>1, <1>2, <2>3
    <2>. QED
      BY <2>1, <2>2, <2>3
  <1>4. /\ j \in Log /\ j.at = "committing" /\ j.left > 0
        /\ j.invoice = log[l].invoice /\ j.outcome = log[l].outcome
        /\ j.processed = log[l].processed /\ log' = [log EXCEPT ![l] = j]
        /\ UNCHANGED <<row, call, invoice, undone, changes>>
    BY <1>1 DEF Log, Alert
  <1>. HIDE DEF j
  <1>5. log'[l] = j
    BY <1>1, <1>4, ExceptSeq
  <1>6. AmountDiffers(l, RecordOf(l)) /\ RecordOf(l)' = RecordOf(l)
    BY <1>1, <1>4, <1>5 DEF Found, RecordOf
  <1>7. Found(l)'
    BY <1>1, <1>4, <1>5, <1>6 DEF Found, AmountDiffers
  <1>. QED
    BY <1>1, <1>2, <1>3, <1>4, <1>7, LogStep

\* A transaction is rolled back, or its worker dies.
LEMMA FailureStep ==
    ASSUME Inv, NEW l \in DOMAIN log, AttemptFails(l) \/ JobStalls(l)
    PROVE  Inv'
  <1>1. /\ log[l] \in Log /\ log[l].left > 0 /\ l \in 1..MaxReports
        /\ log \in Seq(Log) /\ l \in 1..Len(log)
    BY Typed DEF Inv, LogInv, TypeOK, AttemptFails, JobStalls
  <1>2. /\ failures' = failures + 1 /\ failures \in Nat /\ failures < MaxFailures
        /\ MaxFailures \in Nat
        /\ alerts \in [1..MaxReports -> Nat] /\ alerts[l] <= 1 + failures
        /\ UNCHANGED <<row, call, invoice, undone, alerts, changes>>
    BY <1>1, WebhookAssumptions
    DEF Inv, TypeOK, AlertInv, AttemptFails, JobStalls, CanFail
  <1>3. PICK j \in Log :
           /\ log' = [log EXCEPT ![l] = j]
           /\ j.at \in {"waiting", "failed"} /\ (j.at # "failed" => j.left > 0)
           /\ j.invoice = log[l].invoice /\ j.outcome = log[l].outcome
           /\ j.processed = log[l].processed
    <2>1. CASE AttemptFails(l)
      BY <1>1, <2>1, ThrownTyped DEF AttemptFails
    <2>2. CASE JobStalls(l)
      <3>1. PICK at \in {"waiting", "failed"} : at = IF log[l].stalled THEN "failed" ELSE "waiting"
        OBVIOUS
      <3>. DEFINE j == [log[l] EXCEPT !.at = at, !.stalled = TRUE]
      <3>2. /\ j \in Log /\ j.at = at /\ j.left > 0
            /\ j.invoice = log[l].invoice /\ j.outcome = log[l].outcome
            /\ j.processed = log[l].processed
        BY <1>1 DEF Log
      <3>3. log' = [log EXCEPT ![l] = j]
        <4>1. log' = [log EXCEPT ![l].at = at, ![l].stalled = TRUE]
          BY <2>2, <3>1, Zenon DEF JobStalls
        <4>2. DOMAIN log = 1..Len(log)
          BY <1>1, LenProperties
        <4>. QED
          BY <1>1, <4>1, <4>2, Zenon
      <3>. HIDE DEF j
      <3>. QED
        BY <3>2, <3>3
    <2>. QED
      BY <2>1, <2>2
  <1>4. log'[l] = j
    BY <1>1, <1>3, ExceptSeq
  <1>5. ~Busy(l)' /\ Found(l)'
    BY <1>3, <1>4 DEF Busy, Found
  <1>6. /\ failures' \in Nat /\ failures <= failures' /\ failures' <= MaxFailures
        /\ alerts'[l] <= failures' /\ alerts'[l] <= 1 + failures'
    BY <1>1, <1>2
  <1>. QED
    BY <1>2, <1>3, <1>5, <1>6, LogStep

\* The transaction binds the record to its invoice.  Nobody else's is open.
LEMMA CommitStep ==
    ASSUME Inv, NEW l \in DOMAIN log, Commit(l)
    PROVE  Inv'
  <1>. DEFINE j == [log[l] EXCEPT !.at = "committed", !.processed = TRUE]
  <1>1. /\ log[l] \in Log /\ log[l].left > 0 /\ l \in 1..MaxReports
        /\ log \in Seq(Log) /\ l \in 1..Len(log) /\ Busy(l) /\ Found(l)
        /\ log[l].invoice \in DOMAIN invoice /\ log[l].invoice \in Invoices
        /\ undone' = undone \ {l} /\ UNCHANGED <<invoice, alerts, changes, failures>>
    BY Typed DEF Inv, LogInv, Commit, TypeOK, Busy, Log
  <1>. DEFINE to(r) == IF AmountDiffers(l, r) THEN "FAILED"
                       ELSE CHOOSE x \in NextStatus(l, r) : TRUE
  <1>2. PICK r \in Records :
           /\ row[r].ref = ReportedReference(log[l].invoice)
           /\ row' = [row EXCEPT ![r].tx = log[l].invoice, ![r].status = to(r)]
           /\ Overtaken(r)
    BY Zenon DEF Commit
  <1>3. r = RecordOf(l) /\ row[r].tx \in {Null, log[l].invoice}
    BY <1>1, <1>2, FoundIsItsOwn DEF Found
  <1>4. PICK status \in PaymentStatus : status = to(r)
    <2>1. AmountDiffers(l, r) \/ NextStatus(l, r) # {}
      BY <1>1, <1>3 DEF Found
    <2>2. ASSUME NextStatus(l, r) # {}
          PROVE  (CHOOSE x \in NextStatus(l, r) : TRUE) \in PaymentStatus
      BY <2>2 DEF NextStatus
    <2>3. "FAILED" \in PaymentStatus
      BY DEF PaymentStatus
    <2>. QED
      BY <2>1, <2>2, <2>3
  <1>. HIDE DEF to
  <1>. DEFINE new == [row[r] EXCEPT !.tx = log[l].invoice, !.status = status]
  <1>5. row \in [Records -> Row] /\ row[r] \in Row
    BY DEF Inv, TypeOK
  <1>6. row' = [row EXCEPT ![r] = new]
    <2>1. row' = [row EXCEPT ![r].tx = log[l].invoice, ![r].status = status]
      BY <1>2, <1>4, Zenon
    <2>2. DOMAIN row = Records
      BY <1>5
    <2>. QED
      BY <2>1, <2>2, Zenon
  <1>7. new \in Row /\ new.tx = log[l].invoice /\ new.ref = row[r].ref
    BY <1>1, <1>5 DEF Row
  <1>8. /\ j \in Log /\ j.at = "committed" /\ j.left > 0 /\ j.processed
        /\ j.invoice = log[l].invoice /\ j.outcome = log[l].outcome
    BY <1>1 DEF Log
  <1>9. log' = [log EXCEPT ![l] = j]
    <2>1. log' = [log EXCEPT ![l].at = "committed", ![l].processed = TRUE]
      BY DEF Commit
    <2>2. DOMAIN log = 1..Len(log)
      BY <1>1, LenProperties
    <2>. QED
      BY <1>1, <2>1, <2>2, Zenon
  <1>. HIDE DEF new, j
  <1>10. /\ log' \in Seq(Log) /\ Len(log') = Len(log) /\ DOMAIN log' = DOMAIN log
         /\ \A k \in DOMAIN log : log'[k] = IF k = l THEN j ELSE log[k]
    BY <1>1, <1>8, <1>9, ExceptSeq, LenProperties
  <1>11. row' \in [Records -> Row] /\ \A x \in Records : row'[x] = IF x = r THEN new ELSE row[x]
    BY <1>5, <1>6, <1>7
  <1>12. TypeOK' /\ RefInv' /\ CallInv'
    <2>1. \A h \in Handlers : /\ call[h] \in Call /\ call'[h] \in Call
                              /\ call'[h].at = call[h].at /\ call'[h].record = call[h].record
                              /\ call'[h].entity = call[h].entity /\ call'[h].cols = call[h].cols
                              /\ \/ call'[h].stale
                                 \/ /\ ~(call[h].record = r /\ call[h].at \in {"found", "write"})
                                    /\ call'[h] = call[h]
      BY <1>2 DEF Inv, TypeOK, Overtaken, Call
    <2>2. call' \in [Handlers -> Call]
      BY <1>2, <2>1 DEF Overtaken
    <2>3. TypeOK' /\ RefInv'
      BY <1>1, <1>7, <1>10, <1>11, <2>2 DEF Inv, TypeOK, RefInv
    <2>4. ASSUME NEW h \in Handlers PROVE Sound(call[h])'
      <3>1. Sound(call[h])
        BY DEF Inv, CallInv
      <3>2. CASE call'[h].stale
        BY <2>1, <3>1, <3>2 DEF Sound
      <3>3. CASE /\ ~(call[h].record = r /\ call[h].at \in {"found", "write"})
                 /\ call'[h] = call[h]
        <4>1. \A k \in DOMAIN log : /\ log'[k].invoice = log[k].invoice
                                    /\ RecordOf(k)' = RecordOf(k)
                                    /\ k # l => log'[k].processed = log[k].processed
          BY <1>1, <1>8, <1>10 DEF RecordOf
        <4>. QED
          BY <1>1, <1>3, <1>10, <3>1, <3>3, <4>1 DEF Sound
      <3>. QED
        BY <2>1, <3>2, <3>3
    <2>. QED
      BY <2>3, <2>4 DEF CallInv
  <1>13. /\ \A k \in DOMAIN log : RecordOf(k)' = RecordOf(k) /\ RecordOf(k) \in Records
                                  /\ (k # l => (Busy(k)' <=> Busy(k)))
         /\ ~Busy(l)'
    BY <1>1, <1>8, <1>10, Typed DEF Inv, LogInv, RecordOf, Busy, Invoice
  <1>14. ASSUME NEW k \in DOMAIN log PROVE LogInv(k)'
    <2>1. CASE k = l
      BY <1>1, <1>3, <1>7, <1>8, <1>10, <1>11, <1>13, <2>1 DEF LogInv, Found
    <2>2. CASE k # l /\ RecordOf(k) # r
      <3>1. log'[k] = log[k] /\ row'[RecordOf(k)] = row[RecordOf(k)]
        BY <1>10, <1>11, <1>13, <2>2
      <3>. QED
        <4>1. /\ AmountDiffers(k, RecordOf(k))' <=> AmountDiffers(k, RecordOf(k))
              /\ NextStatus(k, RecordOf(k))' = NextStatus(k, RecordOf(k))
          BY <1>1, <1>13, <3>1 DEF AmountDiffers, NextStatus
        <4>2. LogInv(k) /\ invoice' = invoice
          BY <1>1 DEF Inv
        <4>3. k \in undone => k \in undone'
          BY <1>1, <2>2
        <4>. QED
          BY <1>13, <2>2, <3>1, <4>1, <4>2, <4>3 DEF LogInv, Found
    <2>3. CASE k # l /\ RecordOf(k) = r
      <3>1. ~Busy(k)
        BY <1>1, <1>3, <2>3 DEF Inv, Alone
      <3>2. /\ log[k].invoice \in DOMAIN invoice /\ log[k].invoice \in Nat
            /\ log[k].at # "failed" => log[k].left > 0
            /\ log[k].processed /\ k \notin undone' => row[r].tx = log[k].invoice
        BY <1>1, <2>3, Typed DEF Inv, LogInv, Invoices
      <3>3. log[k].processed /\ k \notin undone' => log[k].invoice = log[l].invoice
        BY <1>3, <3>2, WebhookAssumptions
      <3>. QED
        BY <1>1, <1>7, <1>10, <1>11, <1>13, <2>3, <3>1, <3>2, <3>3 DEF LogInv, Found
    <2>. QED
      BY <2>1, <2>2, <2>3
  <1>15. Alone'
    BY <1>10, <1>13 DEF Inv, Alone
  <1>16. AlertInv'
    BY <1>1, <1>8, <1>10 DEF Inv, AlertInv
  <1>. QED
    BY <1>10, <1>12, <1>14, <1>15, <1>16 DEF Inv

LEMMA NextInv == Inv /\ [Next]_vars => Inv'
  <1>. SUFFICES ASSUME Inv, [Next]_vars PROVE Inv'
    OBVIOUS
  <1>1. CASE UNCHANGED vars
    <2>1. TypeOK' /\ RefInv' /\ AlertInv'
      BY <1>1 DEF vars, Inv, TypeOK, RefInv, AlertInv
    <2>2. (\A l \in DOMAIN log : LogInv(l))' /\ Alone'
      BY <1>1 DEF vars, Inv, LogInv, Found, Alone, Busy, RecordOf, AmountDiffers, NextStatus
    <2>3. CallInv'
      BY <1>1 DEF vars, Inv, CallInv, Sound, RecordOf
    <2>. QED
      BY <2>1, <2>2, <2>3 DEF Inv
  <1>2. ASSUME NEW i \in DOMAIN invoice,
               EnqueueFails(i) \/ \E signatureValid \in BOOLEAN : Receive(i, signatureValid)
        PROVE  Inv'
    <2>1. failures \in 0..MaxFailures
      BY DEF Inv, TypeOK
    <2>. QED
      BY <1>2, <2>1, LoggedStep, WebhookAssumptions DEF EnqueueFails, Receive, CanFail
  <1>. QED
    BY <1>1, <1>2, GatewayStep, InvoiceMovesStep, HandlerBegins, HandlerGoesOn, WriteStep,
       AttemptStep, AlertStep, CommitStep, FailureStep
    DEF Next, Work

------------------------------------------------------------------------------
THEOREM Invariance == Spec => []Inv
  BY InitInv, NextInv, PTL DEF Spec

(***************************************************************************)
(* Every variable keeps its type: in particular an open transaction always *)
(* has a status to move its record to (processWebhook).                    *)
(***************************************************************************)
THEOREM TypeCorrect == Spec => []TypeOK
  BY Invariance, PTL DEF Inv

(***************************************************************************)
(* A processed report stays the one its record is bound to, for any number *)
(* of records, handlers, invoices, reports, attempts and failures, unless  *)
(* an update() that had found the row before the commit writes its         *)
(* transaction back.                                                       *)
(***************************************************************************)
THEOREM ProcessedReportsHold == Spec => []ProcessedTookEffect
  <1>1. Inv => ProcessedTookEffect
    BY DEF Inv, LogInv, RecordOf, ProcessedTookEffect
  <1>. QED
    BY <1>1, Invariance, PTL

(***************************************************************************)
(* A mismatch is announced at most once more than calls fail.              *)
(***************************************************************************)
THEOREM AlertsAreBounded == Spec => []AlertedOncePerReport
  <1>1. Inv => AlertedOncePerReport
    BY Typed DEF Inv, AlertInv, AlertedOncePerReport
  <1>. QED
    BY <1>1, Invariance, PTL
==============================================================================
