------------------------ MODULE NotificationDeliveryProofs ------------------------
(***************************************************************************)
(* Proofs that the safety properties of NotificationDelivery hold for any  *)
(* processes, devices, due date, grace period and bounds.                  *)
(***************************************************************************)
EXTENDS NotificationDelivery, SequenceTheorems, FiniteSetTheorems, TLAPS

\* A job on which the message has gone out no more often than its worker was not told.
Unsent(job) ==
    \/ job.pc \in {"waiting", "devices", "send"}
    \/ job.pc \in {"prune", "log"} /\ ~job.ok

\* What holds of every job, however often it was tried.
Sound(job) ==
    /\ job.pc \notin {"done", "failed"} => job.left >= 1
    /\ job.ok => job.sent > 0
    /\ job.sent <= 1 + job.stalls + job.lost
    /\ Unsent(job) => job.sent <= job.stalls + job.lost
    /\ job.pc = "prune" => job.devices \cap alive = {}

\* An alert about a day after the grace period.
Alerts(job) == job.type = "OVERDUE_ALERT" /\ job.days <= -GraceDays

\* An expired record is being alerted, or has been.
Alerted ==
    (failures = 0 /\ status = "EXPIRED" /\ HasUser) =>
        \/ \E p \in Processes : sweep[p] = "alert"
        \/ \E j \in JobIds : Alerts(jobs[j])

\* A pass that has found something is about the day it began.
PassesAreDue ==
    /\ \A p \in Processes : remind[p] # "idle" => day \in RemindDays
    /\ \A p \in Processes : sweep[p] # "idle" => day <= -GraceDays

Inv ==
    /\ TypeOK
    /\ \A j \in JobIds : Sound(jobs[j])
    /\ PassesAreDue
    /\ SentLogsAreTrue
    /\ LiveDevicesAreKept
    /\ Alerted

------------------------------------------------------------------------------
(* Jobs. *)

LEMMA Typed ==
    ASSUME Inv
    PROVE  /\ jobs \in Seq(Job) /\ Len(jobs) \in Nat /\ DOMAIN jobs = JobIds
           /\ \A j \in JobIds : jobs[j] \in Job /\ Sound(jobs[j])
           /\ day \in Int /\ failures \in 0..MaxFailures /\ refusals \in 0..MaxRefusals
           /\ MaxFailures \in Nat /\ MaxRefusals \in Nat
  BY LenProperties, ElementOfSeq, BoundsAssumption DEF Inv, TypeOK, JobIds

LEMMA NewJobIs ==
    ASSUME NEW c \in Channels, NEW type \in JobTypes, NEW d \in Int, NEW tries \in Nat \ {0}
    PROVE  LET job == NewJob(c, type, d, tries)
           IN  job \in Job /\ Sound(job) /\ job.type = type /\ job.days = d
  BY DEF NewJob, Job, Sound, Unsent

\* A batch has a job for each channel, all of the same type about the same day.
LEMMA BatchIs ==
    ASSUME NEW channels \in SUBSET Channels, NEW type \in JobTypes, NEW d \in Int,
           NEW tries \in Nat \ {0}
    PROVE  \E b \in Seq(Job) :
               /\ b = Batch(channels, type, d, tries)
               /\ \A i \in 1..Len(b) : Sound(b[i]) /\ b[i].type = type /\ b[i].days = d
               /\ channels # {} => Len(b) > 0
  <1>. DEFINE Of(c) == IF c \in channels THEN <<NewJob(c, type, d, tries)>> ELSE <<>>
  <1>1. ASSUME NEW c \in Channels
        PROVE  /\ Of(c) \in Seq(Job)
               /\ Len(Of(c)) = IF c \in channels THEN 1 ELSE 0
               /\ \A i \in 1..Len(Of(c)) :
                     Sound(Of(c)[i]) /\ Of(c)[i].type = type /\ Of(c)[i].days = d
    <2>. DEFINE job == NewJob(c, type, d, tries)
    <2>1. job \in Job /\ Sound(job) /\ job.type = type /\ job.days = d
      BY NewJobIs
    <2>. HIDE DEF job
    <2>2. /\ <<job>> \in Seq(Job) /\ Len(<<job>>) = 1
          /\ \A i \in 1..1 : <<job>>[i] = job
      BY <2>1
    <2>. QED
      BY <2>1, <2>2 DEF job
  <1>2. "EMAIL" \in Channels /\ "PUSH" \in Channels
    BY DEF Channels
  <1>3. Batch(channels, type, d, tries) = Of("EMAIL") \o Of("PUSH")
    BY DEF Batch
  <1>4. PICK e \in Seq(Job), p \in Seq(Job) : e = Of("EMAIL") /\ p = Of("PUSH")
    BY <1>1, <1>2
  <1>5. /\ \A i \in 1..Len(e) : Sound(e[i]) /\ e[i].type = type /\ e[i].days = d
        /\ \A i \in 1..Len(p) : Sound(p[i]) /\ p[i].type = type /\ p[i].days = d
        /\ Len(e) = IF "EMAIL" \in channels THEN 1 ELSE 0
        /\ Len(p) = IF "PUSH" \in channels THEN 1 ELSE 0
    BY <1>1, <1>2, <1>4
  <1>6. /\ e \o p \in Seq(Job) /\ Len(e \o p) = Len(e) + Len(p)
        /\ \A i \in 1..Len(e) + Len(p) :
              (e \o p)[i] = IF i <= Len(e) THEN e[i] ELSE p[i - Len(e)]
    BY ConcatProperties
  <1>7. PICK b \in Seq(Job) :
           /\ b = Batch(channels, type, d, tries)
           /\ Len(b) = Len(e) + Len(p)
           /\ \A i \in 1..Len(e) + Len(p) : b[i] = IF i <= Len(e) THEN e[i] ELSE p[i - Len(e)]
    BY <1>3, <1>4, <1>6
  <1>8. channels # {} => Len(b) > 0
    <2>1. ASSUME NEW c \in channels PROVE Len(e) + Len(p) > 0
      <3>1. "EMAIL" \in channels \/ "PUSH" \in channels
        BY DEF Channels
      <3>. QED
        BY <1>5, <3>1
    <2>. QED
      BY <1>7, <2>1
  <1>9. ASSUME NEW i \in 1..Len(b)
        PROVE  Sound(b[i]) /\ b[i].type = type /\ b[i].days = d
    <2>1. \/ i \in 1..Len(e) /\ b[i] = e[i]
          \/ i - Len(e) \in 1..Len(p) /\ b[i] = p[i - Len(e)]
      BY <1>5, <1>7
    <2>. QED
      BY <1>5, <2>1
  <1>. QED
    BY <1>7, <1>8, <1>9

\* Enqueueing leaves the jobs there are as they are.
LEMMA Enqueued ==
    ASSUME Inv, NEW channels \in SUBSET Channels, NEW type \in JobTypes, NEW d \in Int,
           NEW tries \in Nat \ {0}, Enqueue(channels, type, d, tries)
    PROVE  /\ jobs' \in Seq(Job) /\ JobIds \subseteq JobIds'
           /\ \A j \in JobIds : jobs'[j] = jobs[j]
           /\ \A j \in JobIds' : Sound(jobs'[j])
           /\ \A j \in JobIds' \ JobIds : jobs'[j].type = type /\ jobs'[j].days = d
           /\ channels # {} => JobIds' # JobIds
  <1>1. PICK b \in Seq(Job) :
           /\ b = Batch(channels, type, d, tries)
           /\ \A i \in 1..Len(b) : Sound(b[i]) /\ b[i].type = type /\ b[i].days = d
           /\ channels # {} => Len(b) > 0
    BY BatchIs
  <1>2. PICK s \in Seq(Job) : s = jobs
    BY Typed
  <1>3. PICK n \in Nat, m \in Nat : n = Len(s) /\ m = Len(b)
    BY LenProperties
  <1>4. /\ s \o b \in Seq(Job) /\ Len(s \o b) = Len(s) + Len(b)
        /\ \A i \in 1..Len(s) + Len(b) :
              (s \o b)[i] = IF i <= Len(s) THEN s[i] ELSE b[i - Len(s)]
    BY ConcatProperties
  <1>5. jobs' = s \o b
    BY <1>1, <1>2 DEF Enqueue
  <1>6. PICK t \in Seq(Job) :
           /\ t = jobs' /\ Len(t) = n + m
           /\ \A i \in 1..n + m : t[i] = IF i <= n THEN s[i] ELSE b[i - n]
    BY <1>3, <1>4, <1>5
  <1>7. JobIds = 1..n /\ JobIds' = 1..n + m
    BY <1>2, <1>3, <1>6 DEF JobIds
  <1>8. ASSUME NEW j \in 1..n + m PROVE Sound(t[j])
    <2>1. \/ j \in 1..n /\ t[j] = s[j]
          \/ j - n \in 1..m /\ t[j] = b[j - n]
      BY <1>6
    <2>2. \A k \in 1..n : Sound(s[k])
      BY <1>2, <1>7, Typed
    <2>. QED
      BY <1>1, <1>3, <2>1, <2>2
  <1>9. ASSUME NEW j \in (1..n + m) \ (1..n) PROVE t[j].type = type /\ t[j].days = d
    <2>1. j - n \in 1..m /\ t[j] = b[j - n]
      BY <1>6
    <2>. QED
      BY <1>1, <1>3, <2>1
  <1>10. \A j \in 1..n : j \in 1..n + m /\ t[j] = s[j]
    BY <1>6
  <1>11. channels # {} => n + m \in 1..n + m /\ n + m \notin 1..n
    BY <1>1, <1>3
  <1>. QED
    <2>1. jobs' \in Seq(Job) /\ JobIds \subseteq JobIds'
      BY <1>6, <1>7
    <2>2. \A j \in JobIds : jobs'[j] = jobs[j]
      BY <1>2, <1>6, <1>7, <1>10
    <2>3. \A j \in JobIds' : Sound(jobs'[j])
      BY <1>6, <1>7, <1>8
    <2>4. \A j \in JobIds' \ JobIds : jobs'[j].type = type /\ jobs'[j].days = d
      BY <1>6, <1>7, <1>9
    <2>5. channels # {} => JobIds' # JobIds
      BY <1>7, <1>11
    <2>. QED
      BY <2>1, <2>2, <2>3, <2>4, <2>5

\* What is true of the jobs and their logs stays true when others are added.
LEMMA JobsGrow ==
    ASSUME Inv, jobs' \in Seq(Job), JobIds \subseteq JobIds',
           \A j \in JobIds : jobs'[j] = jobs[j],
           \A j \in JobIds' : Sound(jobs'[j]),
           logs' = logs, subs' = subs, alive' \subseteq alive
    PROVE  /\ (\A j \in JobIds : Sound(jobs[j]))'
           /\ SentLogsAreTrue' /\ LiveDevicesAreKept'
           /\ (\E j \in JobIds : Alerts(jobs[j])) => \E j \in JobIds' : Alerts(jobs'[j])
  <1>1. ASSUME NEW j \in JobIds' PROVE Sound(jobs[j])'
    BY DEF Sound, Unsent
  <1>2. \A j \in JobIds : LogOf(j)' = LogOf(j)
    BY DEF LogOf, NotificationType
  <1>3. SentLogsAreTrue'
    BY <1>2 DEF Inv, SentLogsAreTrue
  <1>4. LiveDevicesAreKept'
    BY DEF Inv, LiveDevicesAreKept
  <1>. QED
    BY <1>1, <1>3, <1>4

\* When no job is added, the above says that nothing changes.
LEMMA JobsStay ==
    ASSUME Inv, UNCHANGED jobs
    PROVE  /\ jobs' \in Seq(Job) /\ JobIds' = JobIds
           /\ \A j \in JobIds : jobs'[j] = jobs[j]
           /\ \A j \in JobIds' : Sound(jobs'[j])
  BY Typed DEF JobIds

(***************************************************************************)
(* A worker leaves its job as job: of the same type, about the same day,   *)
(* on the same channel, and with no message called back.                   *)
(***************************************************************************)
LEMMA WorkStep ==
    ASSUME Inv, NEW j \in JobIds, NEW job \in Job, SetJob(j, job),
           job.type = jobs[j].type, job.days = jobs[j].days, job.channel = jobs[j].channel,
           job.sent >= jobs[j].sent, Sound(job),
           WorkerFrame, alive' = alive, subs' \subseteq subs, alive \subseteq subs',
           logs' = logs \/ (logs' = logs \cup {LogOf(j)} /\ job.sent > 0),
           failures' \in 0..MaxFailures, failures' >= failures, refusals' \in 0..MaxRefusals
    PROVE  Inv'
  <1>1. PICK s \in Seq(Job) : s = jobs
    BY Typed
  <1>2. PICK n \in Nat : n = Len(s) /\ JobIds = 1..n
    BY <1>1, LenProperties DEF JobIds
  <1>3. /\ [s EXCEPT ![j] = job] \in Seq(Job) /\ Len([s EXCEPT ![j] = job]) = n
        /\ \A k \in 1..n : [s EXCEPT ![j] = job][k] = IF k = j THEN job ELSE s[k]
    BY <1>2, ExceptSeq
  <1>4. /\ jobs' \in Seq(Job) /\ JobIds' = JobIds
        /\ \A k \in JobIds : jobs'[k] = IF k = j THEN job ELSE jobs[k]
    BY <1>1, <1>2, <1>3 DEF SetJob, JobIds
  <1>5. TypeOK'
    BY <1>4 DEF Inv, TypeOK, WorkerFrame, record, passes
  <1>6. ASSUME NEW k \in JobIds' PROVE Sound(jobs[k])'
    <2>1. Sound(jobs'[k])
      BY <1>4, Typed
    <2>. QED
      BY <2>1 DEF Sound, Unsent
  <1>7. PassesAreDue'
    BY DEF Inv, PassesAreDue, WorkerFrame, record, passes
  <1>8. SentLogsAreTrue'
    <2>1. \A k \in JobIds : LogOf(k)' = LogOf(k)
      BY <1>4 DEF LogOf, NotificationType
    <2>2. \A k \in JobIds : jobs[k].sent > 0 => jobs'[k].sent > 0
      <3>1. job.sent \in Nat /\ jobs[j].sent \in Nat
        BY Typed DEF Job
      <3>. QED
        BY <1>4, <3>1
    <2>3. jobs'[j].sent > 0 \/ logs' = logs
      BY <1>4
    <2>. QED
      BY <1>4, <2>1, <2>2, <2>3 DEF Inv, SentLogsAreTrue
  <1>9. LiveDevicesAreKept'
    BY DEF LiveDevicesAreKept
  <1>10. Alerted'
    <2>1. \A k \in JobIds : Alerts(jobs[k]) => Alerts(jobs'[k])
      BY <1>4 DEF Alerts
    <2>2. failures' = 0 => failures = 0
      BY Typed
    <2>. QED
      BY <1>4, <2>1, <2>2 DEF Inv, Alerted, WorkerFrame, record, passes
  <1>. QED
    BY <1>5, <1>6, <1>7, <1>8, <1>9, <1>10 DEF Inv

------------------------------------------------------------------------------
(* The workers. *)

LEMMA TakeJobStep ==
    ASSUME Inv, NEW j \in JobIds, TakeJob(j)
    PROVE  Inv'
  <1>1. PICK old \in Job : old = jobs[j] /\ Sound(old)
    BY Typed
  <1>. DEFINE job == [old EXCEPT !.pc = IF old.channel = "PUSH" THEN "devices" ELSE "send"]
  <1>2. /\ job \in Job /\ job.type = old.type /\ job.days = old.days
        /\ job.channel = old.channel /\ job.sent = old.sent
    BY DEF Job
  <1>3. Sound(job)
    BY <1>1 DEF Sound, Unsent, Job, TakeJob
  <1>4. SetJob(j, job) /\ old.sent \in Nat
    BY <1>1 DEF TakeJob, Job
  <1>. HIDE DEF job
  <1>. QED
    BY <1>1, <1>2, <1>3, <1>4, WorkStep, Typed DEF TakeJob, push, Inv, LiveDevicesAreKept

LEMMA SendEmailStep ==
    ASSUME Inv, NEW j \in JobIds, SendEmail(j)
    PROVE  Inv'
  <1>1. PICK old \in Job : old = jobs[j] /\ Sound(old) /\ old.pc = "send"
    BY Typed DEF SendEmail
  <1>. DEFINE Fits(job) == /\ job \in Job /\ job.type = old.type /\ job.days = old.days
                           /\ job.channel = old.channel /\ job.sent >= old.sent
                           /\ Sound(job)
  <1>. PICK sent \in Nat, lost \in Nat : sent = old.sent + 1 /\ lost = old.lost + 1
    BY DEF Job
  <1>. DEFINE taken == [old EXCEPT !.pc = "log", !.ok = TRUE, !.sent = sent]
              refused == [old EXCEPT !.pc = "log", !.ok = FALSE]
              unknown == [old EXCEPT !.pc = "log", !.ok = FALSE, !.sent = sent, !.lost = lost]
  <1>2. Fits(taken)
    <2>1. taken \in Job /\ taken.sent = sent /\ taken.stalls = old.stalls
          /\ taken.lost = old.lost /\ taken.left = old.left /\ taken.ok /\ taken.pc = "log"
      BY DEF Job
    <2>2. Sound(taken)
      BY <1>1, <2>1 DEF Sound, Unsent, Job
    <2>. QED
      BY <2>1, <2>2 DEF Job
  <1>3. Fits(refused)
    <2>1. refused \in Job /\ refused.sent = old.sent /\ refused.stalls = old.stalls
          /\ refused.lost = old.lost /\ refused.left = old.left /\ ~refused.ok
          /\ refused.pc = "log"
      BY DEF Job
    <2>2. Sound(refused)
      BY <1>1, <2>1 DEF Sound, Unsent, Job
    <2>. QED
      BY <2>1, <2>2 DEF Job
  <1>4. Fits(unknown)
    <2>1. unknown \in Job /\ unknown.sent = sent /\ unknown.stalls = old.stalls
          /\ unknown.lost = lost /\ unknown.left = old.left /\ ~unknown.ok
          /\ unknown.pc = "log"
      BY DEF Job
    <2>2. Sound(unknown)
      BY <1>1, <2>1 DEF Sound, Unsent, Job
    <2>. QED
      BY <2>1, <2>2 DEF Job
  <1>5. /\ SetJob(j, taken) \/ SetJob(j, refused) \/ SetJob(j, unknown)
        /\ failures' \in 0..MaxFailures /\ failures' >= failures
        /\ refusals' \in 0..MaxRefusals
    BY <1>1, Typed DEF SendEmail
  <1>6. PICK job \in Job : Fits(job) /\ SetJob(j, job)
    BY <1>2, <1>3, <1>4, <1>5
  <1>. QED
    BY <1>1, <1>5, <1>6, WorkStep DEF SendEmail, push, Inv, LiveDevicesAreKept

LEMMA ReadDevicesStep ==
    ASSUME Inv, NEW j \in JobIds, ReadDevices(j)
    PROVE  Inv'
  <1>1. PICK old \in Job : old = jobs[j] /\ Sound(old) /\ old.pc = "devices"
    BY Typed DEF ReadDevices
  <1>2. PICK now \in SUBSET Devices : now = subs
    BY DEF Inv, TypeOK
  <1>3. PICK pc \in {"send", "done"} : pc = IF HasUser /\ subs # {} THEN "send" ELSE "done"
    OBVIOUS
  <1>. DEFINE job == [old EXCEPT !.devices = now, !.pc = pc]
  <1>4. /\ job \in Job /\ job.type = old.type /\ job.days = old.days
        /\ job.channel = old.channel /\ job.sent = old.sent
    BY DEF Job
  <1>5. Sound(job)
    BY <1>1 DEF Sound, Unsent, Job
  <1>6. SetJob(j, job) /\ old.sent \in Nat
    BY <1>1, <1>2, <1>3 DEF ReadDevices, Job
  <1>. HIDE DEF job
  <1>. QED
    BY <1>1, <1>4, <1>5, <1>6, WorkStep, Typed DEF ReadDevices, push, Inv, LiveDevicesAreKept

LEMMA SendPushStep ==
    ASSUME Inv, NEW j \in JobIds, SendPush(j)
    PROVE  Inv'
  <1>1. PICK old \in Job : old = jobs[j] /\ Sound(old) /\ old.pc = "send"
    BY Typed DEF SendPush
  <1>2. PICK reached \in SUBSET (jobs[j].devices \cap alive) :
           LET refused == (jobs[j].devices \cap alive) \ reached
           IN  /\ refusals + Cardinality(refused) <= MaxRefusals
               /\ refusals' = refusals + Cardinality(refused)
               /\ SetJob(j, [jobs[j] EXCEPT !.pc = "prune", !.ok = reached # {},
                                          !.devices = Gone(j, reached),
                                          !.sent = IF reached # {} THEN @ + 1 ELSE @])
    BY DEF SendPush
  <1>3. refusals' \in 0..MaxRefusals
    <2>1. PICK refused \in SUBSET Devices : refused = (jobs[j].devices \cap alive) \ reached
      BY DEF Inv, TypeOK
    <2>2. Cardinality(refused) \in Nat
      BY DevicesAssumption, FS_Subset, FS_CardinalityType
    <2>. QED
      BY <1>2, <2>1, <2>2, Typed
  <1>4. PICK some \in BOOLEAN : some = (reached # {})
    BY Zenon
  <1>5. PICK gone \in SUBSET Devices : gone = old.devices \ alive
    BY DEF Job
  <1>. PICK sent \in Nat : sent = IF reached # {} THEN old.sent + 1 ELSE old.sent
    BY DEF Job
  <1>. DEFINE job == [old EXCEPT !.pc = "prune", !.ok = some, !.devices = gone, !.sent = sent]
  <1>6. SetJob(j, job)
    BY <1>1, <1>2, <1>4, <1>5, Zenon DEF Gone
  <1>7. /\ job \in Job /\ job.type = old.type /\ job.days = old.days
        /\ job.channel = old.channel
    BY DEF Job
  <1>8. /\ job.pc = "prune" /\ job.devices = gone /\ job.left = old.left
        /\ job.stalls = old.stalls /\ job.lost = old.lost
        /\ job.sent = sent
    BY DEF Job
  <1>9. job.ok <=> reached # {}
    <2>1. job.ok = some
      BY DEF Job
    <2>. QED
      BY <1>4, <2>1, Zenon
  <1>10. Sound(job) /\ job.sent >= old.sent
    BY <1>1, <1>5, <1>8, <1>9 DEF Sound, Unsent, Job
  <1>11. /\ failures' \in 0..MaxFailures /\ failures' >= failures
         /\ alive' = alive /\ subs' = subs /\ logs' = logs /\ alive \subseteq subs
    BY Typed DEF SendPush, push, Inv, LiveDevicesAreKept
  <1>. HIDE DEF job
  <1>. QED
    BY <1>1, <1>3, <1>6, <1>7, <1>10, <1>11, WorkStep DEF SendPush

LEMMA PruneDevicesStep ==
    ASSUME Inv, NEW j \in JobIds, PruneDevices(j)
    PROVE  Inv'
  <1>1. PICK old \in Job : old = jobs[j] /\ Sound(old) /\ old.pc = "prune"
    BY Typed DEF PruneDevices
  <1>. DEFINE job == [old EXCEPT !.pc = "log"]
  <1>2. /\ job \in Job /\ job.type = old.type /\ job.days = old.days
        /\ job.channel = old.channel /\ job.sent = old.sent
    BY DEF Job
  <1>3. Sound(job)
    BY <1>1 DEF Sound, Unsent, Job
  <1>4. SetJob(j, job) /\ old.sent \in Nat
    BY <1>1 DEF PruneDevices, Job
  <1>5. subs' \subseteq subs /\ alive \subseteq subs'
    BY <1>1 DEF PruneDevices, Sound, Inv, LiveDevicesAreKept
  <1>. HIDE DEF job
  <1>. QED
    BY <1>1, <1>2, <1>3, <1>4, <1>5, WorkStep, Typed DEF PruneDevices

LEMMA LogNotificationStep ==
    ASSUME Inv, NEW j \in JobIds, LogNotification(j)
    PROVE  Inv'
  <1>1. PICK old \in Job : old = jobs[j] /\ Sound(old) /\ old.pc = "log"
    BY Typed DEF LogNotification
  <1>. DEFINE Fits(job) == /\ job \in Job /\ job.type = old.type /\ job.days = old.days
                           /\ job.channel = old.channel /\ job.sent = old.sent
                           /\ Sound(job)
  <1>. PICK left \in Int : left = old.left - 1
    BY DEF Job
  <1>. DEFINE again == [old EXCEPT !.left = left, !.devices = {},
                                 !.pc = IF old.left > 1 THEN "waiting" ELSE "failed"]
              over == [old EXCEPT !.pc = "done", !.devices = {}]
  <1>2. ~old.ok => Fits(again)
    <2>1. old.left >= 1 /\ old.left \in Nat /\ left \in Nat
      BY <1>1 DEF Sound, Job
    <2>2. again \in Job /\ again.sent = old.sent /\ again.stalls = old.stalls
          /\ again.lost = old.lost /\ again.left = left /\ again.ok = old.ok
          /\ again.pc = IF old.left > 1 THEN "waiting" ELSE "failed"
      BY <2>1 DEF Job
    <2>3. ~old.ok => Sound(again)
      BY <1>1, <2>1, <2>2 DEF Sound, Unsent, Job
    <2>. QED
      BY <2>2, <2>3 DEF Job
  <1>3. Fits(over)
    BY <1>1 DEF Sound, Unsent, Job
  <1>4. \/ ~old.ok /\ SetJob(j, again)
        \/ SetJob(j, over)
    BY <1>1 DEF LogNotification, AfterLog, Retried
  <1>5. PICK job \in Job : Fits(job) /\ SetJob(j, job)
    BY <1>2, <1>3, <1>4
  <1>6. /\ failures' \in 0..MaxFailures /\ failures' >= failures
        /\ logs' = logs \/ (logs' = logs \cup {LogOf(j)} /\ job.sent > 0)
    BY <1>1, <1>5, Typed DEF LogNotification, Logged, Sound
  <1>7. old.sent \in Nat
    BY DEF Job
  <1>. QED
    BY <1>1, <1>5, <1>6, <1>7, WorkStep, Typed DEF LogNotification, push, Inv, LiveDevicesAreKept

LEMMA JobStallsStep ==
    ASSUME Inv, NEW j \in JobIds, JobStalls(j)
    PROVE  Inv'
  <1>1. PICK old \in Job : old = jobs[j] /\ Sound(old) /\ old.pc \in Working
    BY Typed DEF JobStalls
  <1>. DEFINE Fits(job) == /\ job \in Job /\ job.type = old.type /\ job.days = old.days
                           /\ job.channel = old.channel /\ job.sent = old.sent
                           /\ Sound(job)
  <1>. PICK stalls \in 0..1 : stalls = 1
    OBVIOUS
  <1>. DEFINE again == [old EXCEPT !.pc = "waiting", !.stalls = stalls, !.devices = {}]
              over == [old EXCEPT !.pc = "failed", !.devices = {}]
  <1>2. old.stalls = 0 => Fits(again)
    <2>1. again \in Job /\ again.sent = old.sent /\ again.stalls = stalls
          /\ again.lost = old.lost /\ again.left = old.left /\ again.ok = old.ok
          /\ again.pc = "waiting"
      BY DEF Job
    <2>2. old.stalls = 0 => Sound(again)
      BY <1>1, <2>1 DEF Sound, Unsent, Job, Working
    <2>. QED
      BY <2>1, <2>2 DEF Job
  <1>3. Fits(over)
    BY <1>1 DEF Sound, Unsent, Job
  <1>4. \/ old.stalls = 0 /\ SetJob(j, again)
        \/ SetJob(j, over)
    BY <1>1 DEF JobStalls
  <1>5. PICK job \in Job : Fits(job) /\ SetJob(j, job)
    BY <1>2, <1>3, <1>4
  <1>6. failures' \in 0..MaxFailures /\ failures' >= failures
    BY Typed DEF JobStalls
  <1>7. old.sent \in Nat
    BY DEF Job
  <1>. QED
    BY <1>1, <1>5, <1>6, <1>7, WorkStep, Typed DEF JobStalls, push, Inv, LiveDevicesAreKept

------------------------------------------------------------------------------
(* The passes.  The jobs stay, or EnqueueByPreference adds some. *)

\* What a pass enqueues is about its day, and nothing is left out unless it fails.
LEMMA EnqueuedByPreference ==
    ASSUME Inv, NEW type \in JobTypes, EnqueueByPreference(type)
    PROVE  /\ jobs' \in Seq(Job) /\ JobIds \subseteq JobIds'
           /\ \A j \in JobIds : jobs'[j] = jobs[j]
           /\ \A j \in JobIds' : Sound(jobs'[j])
           /\ failures' \in 0..MaxFailures /\ failures' >= failures
           /\ failures' = failures =>
                 \E j \in JobIds' : jobs'[j].type = type /\ jobs'[j].days = day
  <1>1. PICK reached \in SUBSET CronChannels :
           /\ reached # CronChannels => failures < MaxFailures
           /\ failures' = IF reached = CronChannels THEN failures ELSE failures + 1
           /\ Enqueue(reached, type, day, 1)
    BY DEF EnqueueByPreference
  <1>2. CronChannels # {} /\ reached \in SUBSET Channels
    BY DEF CronChannels, Channels
  <1>3. PICK d \in Int : d = day
    BY Typed
  <1>4. PICK tries \in Nat \ {0} : tries = 1
    OBVIOUS
  <1>5. Enqueue(reached, type, d, tries)
    BY <1>1, <1>3, <1>4
  <1>6. /\ jobs' \in Seq(Job) /\ JobIds \subseteq JobIds'
        /\ \A j \in JobIds : jobs'[j] = jobs[j]
        /\ \A j \in JobIds' : Sound(jobs'[j])
        /\ reached # {} => \E j \in JobIds' : jobs'[j].type = type /\ jobs'[j].days = d
    <2>1. PICK channels \in SUBSET Channels : channels = reached
      BY <1>2
    <2>2. Enqueue(channels, type, d, tries)
      BY <1>5, <2>1
    <2>3. /\ jobs' \in Seq(Job) /\ JobIds \subseteq JobIds'
          /\ \A j \in JobIds : jobs'[j] = jobs[j]
      BY <2>2, Enqueued
    <2>4. \A j \in JobIds' : Sound(jobs'[j])
      BY <2>2, Enqueued
    <2>5. /\ \A j \in JobIds' \ JobIds : jobs'[j].type = type /\ jobs'[j].days = d
          /\ channels # {} => JobIds' # JobIds
      BY <2>2, Enqueued
    <2>. QED
      BY <2>1, <2>3, <2>4, <2>5
  <1>7. /\ failures' \in 0..MaxFailures /\ failures' >= failures
        /\ failures' = failures => reached = CronChannels
    BY <1>1, Typed
  <1>. QED
    BY <1>2, <1>3, <1>6, <1>7

LEMMA ReminderStep ==
    ASSUME Inv, NEW p \in Processes,
           ScanReminders(p) \/ ReadKey(p) \/ EnqueueReminder(p) \/ SetKey(p)
    PROVE  Inv'
  <1>1. /\ jobs' \in Seq(Job) /\ JobIds \subseteq JobIds'
        /\ \A j \in JobIds : jobs'[j] = jobs[j]
        /\ \A j \in JobIds' : Sound(jobs'[j])
        /\ failures' \in 0..MaxFailures /\ failures' >= failures
    <2>1. CASE UNCHANGED <<jobs, failures>>
      BY <2>1, JobsStay, Typed
    <2>2. CASE EnqueueByPreference("PAYMENT_REMINDER")
      BY <2>2, EnqueuedByPreference DEF JobTypes
    <2>. QED
      BY <2>1, <2>2 DEF ScanReminders, ReadKey, EnqueueReminder, SetKey, bounds
  <1>2. /\ day' = day /\ status' = status /\ sweep' = sweep /\ active' = active
        /\ logs' = logs /\ subs' = subs /\ alive' = alive /\ byHand' = byHand
        /\ refusals' = refusals
    BY DEF ScanReminders, ReadKey, EnqueueReminder, SetKey, record, push, bounds
  <1>3. PICK next \in {"idle", "dedup", "enqueue", "setKey"} :
           /\ remind' = [remind EXCEPT ![p] = next]
           /\ next # "idle" => day \in RemindDays
    BY DEF ScanReminders, ReadKey, EnqueueReminder, SetKey, Inv, PassesAreDue
  <1>4. tasks' \in [Processes -> SUBSET Tasks]
    BY DEF ScanReminders, ReadKey, EnqueueReminder, SetKey, Inv, TypeOK
  <1>5. keys' \subseteq RemindDays
    BY DEF ScanReminders, ReadKey, EnqueueReminder, SetKey, Inv, TypeOK, PassesAreDue
  <1>6. TypeOK'
    BY <1>1, <1>2, <1>3, <1>4, <1>5 DEF Inv, TypeOK
  <1>7. /\ (\A j \in JobIds : Sound(jobs[j]))'
        /\ SentLogsAreTrue' /\ LiveDevicesAreKept'
        /\ (\E j \in JobIds : Alerts(jobs[j])) => \E j \in JobIds' : Alerts(jobs'[j])
    BY <1>1, <1>2, JobsGrow
  <1>8. PassesAreDue'
    BY <1>2, <1>3 DEF Inv, TypeOK, PassesAreDue
  <1>9. Alerted'
    BY <1>1, <1>2, <1>7, Typed DEF Inv, Alerted
  <1>. QED
    BY <1>6, <1>7, <1>8, <1>9 DEF Inv

LEMMA OverdueStep ==
    ASSUME Inv, NEW p \in Processes, ScanOverdue(p) \/ MarkOverdue(p) \/ AlertOverdue(p)
    PROVE  Inv'
  <1>1. /\ jobs' \in Seq(Job) /\ JobIds \subseteq JobIds'
        /\ \A j \in JobIds : jobs'[j] = jobs[j]
        /\ \A j \in JobIds' : Sound(jobs'[j])
        /\ failures' \in 0..MaxFailures /\ failures' >= failures
    <2>1. CASE UNCHANGED <<jobs, failures>>
      BY <2>1, JobsStay, Typed
    <2>2. CASE EnqueueByPreference("OVERDUE_ALERT")
      BY <2>2, EnqueuedByPreference DEF JobTypes
    <2>. QED
      BY <2>1, <2>2 DEF ScanOverdue, MarkOverdue, AlertOverdue, bounds
  <1>2. /\ day' = day /\ remind' = remind /\ active' = active /\ keys' = keys
        /\ logs' = logs /\ subs' = subs /\ alive' = alive /\ byHand' = byHand
        /\ refusals' = refusals
    BY DEF ScanOverdue, MarkOverdue, AlertOverdue, record, push, bounds
  <1>3. PICK next \in {"idle", "expire", "alert"} :
           /\ sweep' = [sweep EXCEPT ![p] = next]
           /\ next # "idle" => day <= -GraceDays
    BY DEF ScanOverdue, MarkOverdue, AlertOverdue, Inv, PassesAreDue
  <1>4. tasks' \in [Processes -> SUBSET Tasks]
    BY DEF ScanOverdue, MarkOverdue, AlertOverdue, Inv, TypeOK
  <1>5. status' \in {"PENDING", "PAID", "FAILED", "EXPIRED"}
    BY DEF ScanOverdue, MarkOverdue, AlertOverdue, record, Inv, TypeOK
  <1>6. TypeOK'
    BY <1>1, <1>2, <1>3, <1>4, <1>5 DEF Inv, TypeOK
  <1>7. /\ (\A j \in JobIds : Sound(jobs[j]))'
        /\ SentLogsAreTrue' /\ LiveDevicesAreKept'
        /\ (\E j \in JobIds : Alerts(jobs[j])) => \E j \in JobIds' : Alerts(jobs'[j])
    BY <1>1, <1>2, JobsGrow
  <1>8. PassesAreDue'
    BY <1>2, <1>3 DEF Inv, TypeOK, PassesAreDue
  <1>9. Alerted'
    <2>. SUFFICES ASSUME failures' = 0, status' = "EXPIRED", HasUser
                  PROVE  \/ \E q \in Processes : sweep'[q] = "alert"
                         \/ \E j \in JobIds' : Alerts(jobs'[j])
      BY DEF Alerted
    <2>1. failures = 0 /\ failures' = failures
      BY <1>1, Typed
    <2>2. \A q \in Processes : sweep'[q] = IF q = p THEN next ELSE sweep[q]
      BY <1>3 DEF Inv, TypeOK
    <2>3. CASE ScanOverdue(p)
      <3>1. sweep[p] = "idle" /\ status = "EXPIRED"
        BY <2>3 DEF ScanOverdue, record
      <3>2. \A q \in Processes : sweep[q] = "alert" => sweep'[q] = "alert"
        BY <2>2, <3>1
      <3>. QED
        BY <1>7, <2>1, <3>1, <3>2 DEF Inv, Alerted
    <2>4. CASE MarkOverdue(p)
      <3>1. sweep'[p] = "alert"
        BY <2>4 DEF MarkOverdue, Inv, TypeOK
      <3>. QED
        BY <3>1
    <2>5. CASE AlertOverdue(p)
      <3>1. EnqueueByPreference("OVERDUE_ALERT") /\ sweep[p] = "alert"
        BY <2>5 DEF AlertOverdue
      <3>2. PICK j \in JobIds' : jobs'[j].type = "OVERDUE_ALERT" /\ jobs'[j].days = day
        BY <2>1, <3>1, EnqueuedByPreference DEF JobTypes
      <3>3. day <= -GraceDays
        BY <3>1 DEF Inv, PassesAreDue
      <3>. QED
        BY <3>2, <3>3 DEF Alerts
    <2>. QED
      BY <2>3, <2>4, <2>5
  <1>. QED
    BY <1>6, <1>7, <1>8, <1>9 DEF Inv

LEMMA PassFailsStep ==
    ASSUME Inv, NEW p \in Processes, PassFails(p)
    PROVE  Inv'
  <1>1. /\ UNCHANGED <<record, keys, tasks, jobs, logs, push, byHand, refusals>>
        /\ failures' \in 1..MaxFailures
        /\ remind' = [remind EXCEPT ![p] = "idle"] /\ sweep' = [sweep EXCEPT ![p] = "idle"]
    BY Typed DEF PassFails
  <1>2. TypeOK'
    BY <1>1 DEF Inv, TypeOK, record, push
  <1>3. (\A j \in JobIds : Sound(jobs[j]))' /\ SentLogsAreTrue' /\ LiveDevicesAreKept'
    BY <1>1, JobsStay, JobsGrow DEF push
  <1>4. PassesAreDue'
    BY <1>1 DEF Inv, TypeOK, PassesAreDue, record
  <1>5. Alerted'
    BY <1>1 DEF Alerted
  <1>. QED
    BY <1>2, <1>3, <1>4, <1>5 DEF Inv

------------------------------------------------------------------------------
(* The other producers, time and other handlers. *)

LEMMA SendManualRemindersStep ==
    ASSUME Inv, SendManualReminders
    PROVE  Inv'
  <1>1. PICK days \in {day, day + 1}, reached \in {ServiceChannels, ServiceChannels \ {"PUSH"}} :
           /\ reached # ServiceChannels => failures < MaxFailures
           /\ failures' = IF reached = ServiceChannels THEN failures ELSE failures + 1
           /\ Enqueue(reached, "PAYMENT_REMINDER", days, attempts("PAYMENT_REMINDER"))
    BY DEF SendManualReminders
  <1>2. PICK channels \in SUBSET Channels : channels = reached
    BY <1>1, MemberAssumption DEF ServiceChannels, Channels
  <1>3. PICK d \in Int : d = days
    BY <1>1, Typed
  <1>4. PICK tries \in Nat \ {0} : tries = attempts("PAYMENT_REMINDER")
    BY DEF attempts
  <1>5. Enqueue(channels, "PAYMENT_REMINDER", d, tries) /\ "PAYMENT_REMINDER" \in JobTypes
    BY <1>1, <1>2, <1>3, <1>4 DEF JobTypes
  <1>6. /\ jobs' \in Seq(Job) /\ JobIds \subseteq JobIds'
        /\ \A j \in JobIds : jobs'[j] = jobs[j]
        /\ \A j \in JobIds' : Sound(jobs'[j])
    BY <1>5, Enqueued
  <1>7. /\ UNCHANGED <<record, keys, passes, logs, push, refusals>>
        /\ byHand' = byHand + 1 /\ byHand < MaxByHand
        /\ failures' \in 0..MaxFailures /\ failures' >= failures
    BY <1>1, Typed DEF SendManualReminders
  <1>8. TypeOK'
    BY <1>6, <1>7, BoundsAssumption DEF Inv, TypeOK, record, passes, push
  <1>9. /\ (\A j \in JobIds : Sound(jobs[j]))'
        /\ SentLogsAreTrue' /\ LiveDevicesAreKept'
        /\ (\E j \in JobIds : Alerts(jobs[j])) => \E j \in JobIds' : Alerts(jobs'[j])
    BY <1>6, <1>7, JobsGrow DEF push
  <1>10. PassesAreDue'
    BY <1>7 DEF Inv, PassesAreDue, record, passes
  <1>11. Alerted'
    BY <1>7, <1>9, Typed DEF Inv, Alerted, record, passes
  <1>. QED
    BY <1>8, <1>9, <1>10, <1>11 DEF Inv

LEMMA NotifyAmountMismatchStep ==
    ASSUME Inv, NotifyAmountMismatch
    PROVE  Inv'
  <1>1. PICK channels \in SUBSET Channels : channels = {"EMAIL"}
    BY DEF Channels
  <1>2. PICK tries \in Nat \ {0} : tries = attempts("OVERDUE_ALERT")
    BY DEF attempts
  <1>3. PICK d \in Int : d = 0
    OBVIOUS
  <1>4. Enqueue(channels, "OVERDUE_ALERT", d, tries) /\ "OVERDUE_ALERT" \in JobTypes
    BY <1>1, <1>2, <1>3 DEF NotifyAmountMismatch, JobTypes
  <1>5. /\ jobs' \in Seq(Job) /\ JobIds \subseteq JobIds'
        /\ \A j \in JobIds : jobs'[j] = jobs[j]
        /\ \A j \in JobIds' : Sound(jobs'[j])
    BY <1>4, Enqueued
  <1>6. /\ UNCHANGED <<day, active, keys, passes, logs, push, bounds>>
        /\ status' = "FAILED"
    BY DEF NotifyAmountMismatch
  <1>7. TypeOK'
    BY <1>5, <1>6 DEF Inv, TypeOK, passes, push, bounds
  <1>8. /\ (\A j \in JobIds : Sound(jobs[j]))' /\ SentLogsAreTrue' /\ LiveDevicesAreKept'
    BY <1>5, <1>6, JobsGrow DEF push
  <1>9. PassesAreDue'
    BY <1>6 DEF Inv, PassesAreDue, passes
  <1>10. Alerted'
    BY <1>6 DEF Alerted
  <1>. QED
    BY <1>7, <1>8, <1>9, <1>10 DEF Inv

LEMMA NextDayStep ==
    ASSUME Inv, NextDay
    PROVE  Inv'
  <1>1. /\ day' = day - 1 /\ day > -GraceDays
        /\ tasks' = [p \in Processes |-> Tasks]
        /\ \A p \in Processes : remind[p] = "idle" /\ sweep[p] = "idle"
        /\ UNCHANGED <<status, active, keys, remind, sweep, jobs, logs, push, bounds>>
    BY DEF NextDay
  <1>2. TypeOK'
    BY <1>1, DaysAssumption DEF Inv, TypeOK, push, bounds
  <1>3. (\A j \in JobIds : Sound(jobs[j]))' /\ SentLogsAreTrue' /\ LiveDevicesAreKept'
    BY <1>1, JobsStay, JobsGrow DEF push
  <1>4. PassesAreDue'
    BY <1>1 DEF PassesAreDue
  <1>5. Alerted'
    BY <1>1 DEF Inv, Alerted, JobIds, bounds
  <1>. QED
    BY <1>2, <1>3, <1>4, <1>5 DEF Inv

LEMMA OtherStep ==
    ASSUME Inv, Settles \/ OthersPay \/ (\E d \in RemindDays : KeyExpires(d))
                        \/ (\E d \in Devices : DeviceExpires(d))
    PROVE  Inv'
  <1>1. /\ day' = day /\ status' \in {status, "PAID"} /\ active' \in {active, TRUE}
        /\ keys' \subseteq keys /\ UNCHANGED <<passes, jobs, logs, subs, bounds>>
        /\ alive' \subseteq alive
    BY DEF Settles, OthersPay, KeyExpires, DeviceExpires, record, push
  <1>2. active' \in BOOLEAN
    BY DEF Settles, OthersPay, KeyExpires, DeviceExpires, record, Inv, TypeOK
  <1>3. TypeOK'
    BY <1>1, <1>2 DEF Inv, TypeOK, passes, bounds
  <1>4. (\A j \in JobIds : Sound(jobs[j]))' /\ SentLogsAreTrue' /\ LiveDevicesAreKept'
    BY <1>1, JobsStay, JobsGrow
  <1>5. PassesAreDue'
    BY <1>1 DEF Inv, PassesAreDue, passes
  <1>6. Alerted'
    BY <1>1 DEF Inv, Alerted, JobIds, passes, bounds
  <1>. QED
    BY <1>3, <1>4, <1>5, <1>6 DEF Inv

------------------------------------------------------------------------------
LEMMA InitOK == Init => Inv
  <1>. SUFFICES ASSUME Init PROVE Inv
    OBVIOUS
  <1>1. jobs = <<>> /\ jobs \in Seq(Job) /\ JobIds = {}
    BY EmptySeq DEF Init, JobIds
  <1>2. TypeOK
    BY <1>1, DaysAssumption, BoundsAssumption DEF Init, TypeOK, Tasks
  <1>. QED
    BY <1>1, <1>2
    DEF Init, Inv, PassesAreDue, SentLogsAreTrue, LiveDevicesAreKept, Alerted

LEMMA NextOK == Inv /\ [Next]_vars => Inv'
  <1>. SUFFICES ASSUME Inv, [Next]_vars PROVE Inv'
    OBVIOUS
  <1>1. ASSUME NEW p \in Processes, Pass(p) \/ PassFails(p) PROVE Inv'
    BY <1>1, ReminderStep, OverdueStep, PassFailsStep DEF Pass
  <1>2. ASSUME NEW j \in JobIds, Work(j) \/ JobStalls(j) PROVE Inv'
    BY <1>2, TakeJobStep, SendEmailStep, ReadDevicesStep, SendPushStep, PruneDevicesStep,
       LogNotificationStep, JobStallsStep DEF Work
  <1>3. CASE UNCHANGED vars
    <2>1. TypeOK'
      BY <1>3 DEF vars, Inv, TypeOK
    <2>2. (\A j \in JobIds : Sound(jobs[j]))' /\ SentLogsAreTrue' /\ LiveDevicesAreKept'
      BY <1>3, JobsStay, JobsGrow DEF vars
    <2>. QED
      BY <1>3, <2>1, <2>2 DEF vars, Inv, PassesAreDue, Alerted, JobIds
  <1>. QED
    BY <1>1, <1>2, <1>3, SendManualRemindersStep, NotifyAmountMismatchStep, NextDayStep,
       OtherStep DEF Next

LEMMA Invariance == Spec => []Inv
  BY InitOK, NextOK, PTL DEF Spec

\* Every variable stays in its set, whatever is enqueued, sent, refused or lost.
THEOREM TypeCorrect == Spec => []TypeOK
  <1>1. Inv => TypeOK
    BY DEF Inv
  <1>. QED
    BY <1>1, Invariance, PTL

(***************************************************************************)
(* A log that says sent is true: some job with the log's type and channel  *)
(* had sent its message before (logNotification).                          *)
(***************************************************************************)
THEOREM LogsTellTheTruth == Spec => []SentLogsAreTrue
  <1>1. Inv => SentLogsAreTrue
    BY DEF Inv
  <1>. QED
    BY <1>1, Invariance, PTL

(***************************************************************************)
(* However many attempts a job has, its message goes out once, and once    *)
(* more for every stall and every answer that was lost (EmailWorker.       *)
(* process, PushWorker.process).                                           *)
(***************************************************************************)
THEOREM OneMessagePerJob == Spec => []SentOncePerJob
  <1>1. Inv => SentOncePerJob
    BY DEF Inv, Sound, SentOncePerJob
  <1>. QED
    BY <1>1, Invariance, PTL

(***************************************************************************)
(* Workers that prune what they read some time ago never remove a device   *)
(* the push service still reaches (PushWorker.process).                    *)
(***************************************************************************)
THEOREM PruningIsSafe == Spec => []LiveDevicesAreKept
  <1>1. Inv => LiveDevicesAreKept
    BY DEF Inv
  <1>. QED
    BY <1>1, Invariance, PTL

(***************************************************************************)
(* Without a failure, no record stays expired and unalerted after the      *)
(* sweeps, for any number of processes (markOverdueAndAlert).              *)
(***************************************************************************)
THEOREM SweepsAlert == Spec => []ExpiredAreAlerted
  <1>1. Inv => ExpiredAreAlerted
    BY DEF Inv, Alerted, Alerts, ExpiredAreAlerted
  <1>. QED
    BY <1>1, Invariance, PTL
=============================================================================
