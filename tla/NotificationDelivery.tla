------------------------- MODULE NotificationDelivery -------------------------
(***************************************************************************)
(* How the member behind one payment record is told about it: the daily    *)
(* reminders and overdue alerts, the reminders a host sends by hand, the   *)
(* alert about a mismatched amount, the BullMQ queues they all go through, *)
(* and the email and push workers that empty them.                         *)
(*                                                                         *)
(* Two processes run the cron (entrypoint.sh), each its reminder pass and  *)
(* its overdue pass side by side, one await at a time.  A job is worked on *)
(* one await at a time too; a worker that dies leaves it stalled, and      *)
(* BullMQ gives it out once more.  A message that was sent stays sent.     *)
(***************************************************************************)
EXTENDS Integers, FiniteSets, Sequences

CONSTANTS
    Processes,      \* that run the cron
    Devices,        \* browsers of the member subscribed to push
    Preference,     \* group_members.notification_preference
    HasUser,        \* the member has registered
    FirstDay,       \* days until the due date, at the start
    GraceDays,      \* groups.grace_period_days
    MaxByHand,      \* bound: requests for manual reminders
    MaxFailures,    \* bound: awaits that reject, or processes that die
    MaxRefusals,    \* bound: messages a provider refuses
    MaxJobs         \* bound: jobs enqueued

ASSUME MemberAssumption ==
    /\ Preference \in {"EMAIL", "PUSH", "BOTH", "NONE"}
    /\ HasUser \in BOOLEAN
ASSUME DevicesAssumption == IsFiniteSet(Devices)
ASSUME DaysAssumption == FirstDay \in Int /\ GraceDays \in Nat
ASSUME BoundsAssumption ==
    /\ MaxByHand \in Nat /\ MaxFailures \in Nat /\ MaxRefusals \in Nat /\ MaxJobs \in Nat

VARIABLES
    day,        \* days until the due date
    status,     \* payment_records.status, as far as the passes look at it
    active,     \* the period is ACTIVE
    keys,       \* Redis: the days for which notif:sent:{id}:T-{day} is set
    tasks,      \* passes each process still has to start today
    remind,     \* the reminder pass of each process
    sweep,      \* the overdue pass of each process
    jobs,       \* the jobs of both queues, as they were enqueued
    logs,       \* notification_logs with status sent: <<type, channel>>
    subs,       \* push_subscriptions of the member
    alive,      \* devices the push service still knows
    byHand,
    failures,
    refusals

passes == <<tasks, remind, sweep>>
record == <<day, status, active>>
push == <<subs, alive>>
bounds == <<byHand, failures, refusals>>
vars == <<day, status, active, keys, tasks, remind, sweep, jobs, logs, subs, alive,
          byHand, failures, refusals>>

RemindDays == {3, 1, 0}
Channels == {"EMAIL", "PUSH"}
JobTypes == {"PAYMENT_REMINDER", "OVERDUE_ALERT"}
Tasks == {"remind", "sweep"}

\* Redis and the jobs carry the days; the log knows four types.
NotificationType(type, days) ==
    CASE type = "OVERDUE_ALERT" -> "OVERDUE_ALERT"
      [] days = 1 -> "REMINDER_1D"
      [] days = 0 -> "REMINDER_0D"
      [] OTHER    -> "REMINDER_3D"

\* left: attempts left; ok: the last answer; history: sent, how often the message went
\* out, and lost, how often its worker did not learn of it.
Job == [channel : Channels, type : JobTypes, days : Int, left : Nat,
        stalls : 0..1, pc : {"waiting", "devices", "send", "prune", "log", "done", "failed"},
        devices : SUBSET Devices, ok : BOOLEAN, sent : Nat, lost : Nat]

NewJob(channel, type, days, attempts) ==
    [channel |-> channel, type |-> type, days |-> days, left |-> attempts,
     stalls |-> 0, pc |-> "waiting", devices |-> {}, ok |-> FALSE, sent |-> 0, lost |-> 0]

Init ==
    /\ day = FirstDay
    /\ status = "PENDING"
    /\ active \in BOOLEAN
    /\ keys = {}
    /\ tasks = [p \in Processes |-> Tasks]
    /\ remind = [p \in Processes |-> "idle"]
    /\ sweep = [p \in Processes |-> "idle"]
    /\ jobs = <<>>
    /\ logs = {}
    /\ subs = Devices
    /\ alive = Devices
    /\ byHand = 0
    /\ failures = 0
    /\ refusals = 0

------------------------------------------------------------------------------
(* Enqueueing. *)

\* enqueueByPreference of the cron, with email for a member who wants nothing, and
\* the service's own choice, which sends such a member nothing.
CronChannels ==
    CASE Preference = "PUSH" -> {"PUSH"}
      [] Preference = "BOTH" -> {"EMAIL", "PUSH"}
      [] OTHER -> {"EMAIL"}

ServiceChannels ==
    CASE Preference = "BOTH" -> {"EMAIL", "PUSH"}
      [] Preference = "NONE" -> {}
      [] OTHER -> {Preference}

\* DEFAULT_JOB_OPTIONS, which only the service passes on: BullMQ's default is one.
attempts(type) == IF type = "OVERDUE_ALERT" THEN 5 ELSE 3

\* The jobs for some channels, email first.
Batch(channels, type, days, tries) ==
    LET Of(c) == IF c \in channels THEN <<NewJob(c, type, days, tries)>> ELSE <<>>
    IN  Of("EMAIL") \o Of("PUSH")

Enqueue(channels, type, days, tries) ==
    /\ Len(jobs) + Cardinality(channels) <= MaxJobs
    /\ jobs' = jobs \o Batch(channels, type, days, tries)

\* Promise.allSettled: a queue that fails is logged, and nobody is told.
EnqueueByPreference(type) ==
    \E reached \in SUBSET CronChannels :
        /\ reached # CronChannels => failures < MaxFailures
        /\ failures' = IF reached = CronChannels THEN failures ELSE failures + 1
        /\ Enqueue(reached, type, day, 1)

------------------------------------------------------------------------------
(* checkPaymentReminders. *)

ScanReminders(p) ==
    /\ "remind" \in tasks[p]
    /\ remind[p] = "idle"
    /\ tasks' = [tasks EXCEPT ![p] = @ \ {"remind"}]
    /\ remind' = [remind EXCEPT ![p] =
           IF status = "PENDING" /\ active /\ day \in RemindDays THEN "dedup" ELSE "idle"]
    /\ UNCHANGED <<record, keys, sweep, jobs, logs, push, bounds>>

ReadKey(p) ==
    /\ remind[p] = "dedup"
    /\ remind' = [remind EXCEPT ![p] = IF day \in keys THEN "idle" ELSE "enqueue"]
    /\ UNCHANGED <<record, keys, tasks, sweep, jobs, logs, push, bounds>>

\* The pass goes by the record it loaded; the key is set next, whatever was enqueued.
EnqueueReminder(p) ==
    /\ remind[p] = "enqueue"
    /\ IF HasUser
       THEN EnqueueByPreference("PAYMENT_REMINDER") ELSE UNCHANGED <<jobs, failures>>
    /\ remind' = [remind EXCEPT ![p] = "setKey"]
    /\ UNCHANGED <<record, keys, tasks, sweep, logs, push, byHand, refusals>>

SetKey(p) ==
    /\ remind[p] = "setKey"
    /\ keys' = keys \cup {day}
    /\ remind' = [remind EXCEPT ![p] = "idle"]
    /\ UNCHANGED <<record, tasks, sweep, jobs, logs, push, bounds>>

------------------------------------------------------------------------------
(* markOverdueAndAlert. *)

ScanOverdue(p) ==
    /\ "sweep" \in tasks[p]
    /\ sweep[p] = "idle"
    /\ tasks' = [tasks EXCEPT ![p] = @ \ {"sweep"}]
    /\ sweep' = [sweep EXCEPT ![p] =
           IF status = "PENDING" /\ day <= -GraceDays THEN "expire" ELSE "idle"]
    /\ UNCHANGED <<record, keys, remind, jobs, logs, push, bounds>>

MarkOverdue(p) ==
    /\ sweep[p] = "expire"
    /\ status' = "EXPIRED"
    /\ sweep' = [sweep EXCEPT ![p] = "alert"]
    /\ UNCHANGED <<day, active, keys, tasks, remind, jobs, logs, push, bounds>>

\* Mutant: only a record that is still EXPIRED with its period ACTIVE is alerted.
AlertOverdue_Active(p) ==
    /\ sweep[p] = "alert"
    /\ IF HasUser /\ active THEN EnqueueByPreference("OVERDUE_ALERT")
       ELSE UNCHANGED <<jobs, failures>>
    /\ sweep' = [sweep EXCEPT ![p] = "idle"]
    /\ UNCHANGED <<record, keys, tasks, remind, logs, push, byHand, refusals>>

\* It loads the record again, for its relations only.
AlertOverdue(p) ==
    /\ sweep[p] = "alert"
    /\ IF HasUser THEN EnqueueByPreference("OVERDUE_ALERT")
       ELSE UNCHANGED <<jobs, failures>>
    /\ sweep' = [sweep EXCEPT ![p] = "idle"]
    /\ UNCHANGED <<record, keys, tasks, remind, logs, push, byHand, refusals>>

------------------------------------------------------------------------------
(* The other producers. *)

\* sendManualReminders: the due date is a midnight in UTC, so that the number of
\* days may come out one higher.  When the second add fails, the first one stands.
SendManualReminders ==
    /\ byHand < MaxByHand
    /\ status = "PENDING"
    /\ byHand' = byHand + 1
    /\ \E days \in {day, day + 1}, reached \in {ServiceChannels, ServiceChannels \ {"PUSH"}} :
          /\ reached # ServiceChannels => failures < MaxFailures
          /\ failures' = IF reached = ServiceChannels THEN failures ELSE failures + 1
          /\ Enqueue(reached, "PAYMENT_REMINDER", days, attempts("PAYMENT_REMINDER"))
    /\ UNCHANGED <<record, keys, passes, logs, push, refusals>>

\* notifyAmountMismatch: a webhook about an invoice of the record, whatever became of
\* the record, has another amount: it fails the record, and writes to the member by
\* email whatever they prefer.
NotifyAmountMismatch ==
    /\ status' = "FAILED"
    /\ Enqueue({"EMAIL"}, "OVERDUE_ALERT", 0, attempts("OVERDUE_ALERT"))
    /\ UNCHANGED <<day, active, keys, passes, logs, push, bounds>>

------------------------------------------------------------------------------
(* The workers. *)

SetJob(j, job) == jobs' = [jobs EXCEPT ![j] = job]

Working == {"devices", "send", "prune", "log"}

WorkerFrame == UNCHANGED <<record, keys, passes, byHand>>

TakeJob(j) ==
    /\ jobs[j].pc = "waiting"
    /\ SetJob(j, [jobs[j] EXCEPT !.pc = IF jobs[j].channel = "PUSH" THEN "devices"
                                                                         ELSE "send"])
    /\ WorkerFrame
    /\ UNCHANGED <<logs, push, failures, refusals>>

\* EmailWorker: the provider takes the message, refuses it, or takes it and its answer
\* does not arrive, which sendEmail cannot tell from a refusal.
SendEmail(j) ==
    /\ jobs[j].pc = "send" /\ jobs[j].channel = "EMAIL"
    /\ \/ SetJob(j, [jobs[j] EXCEPT !.pc = "log", !.ok = TRUE, !.sent = @ + 1])
          /\ UNCHANGED <<failures, refusals>>
       \/ /\ refusals < MaxRefusals
          /\ refusals' = refusals + 1
          /\ SetJob(j, [jobs[j] EXCEPT !.pc = "log", !.ok = FALSE])
          /\ UNCHANGED failures
       \/ /\ failures < MaxFailures
          /\ failures' = failures + 1
          /\ SetJob(j, [jobs[j] EXCEPT !.pc = "log", !.ok = FALSE, !.sent = @ + 1, !.lost = @ + 1])
          /\ UNCHANGED refusals
    /\ WorkerFrame
    /\ UNCHANGED <<logs, push>>

\* PushWorker: without devices there is nothing to send and nothing to log.
ReadDevices(j) ==
    /\ jobs[j].pc = "devices"
    /\ SetJob(j, [jobs[j] EXCEPT !.devices = subs,
                               !.pc = IF HasUser /\ subs # {} THEN "send" ELSE "done"])
    /\ WorkerFrame
    /\ UNCHANGED <<logs, push, failures, refusals>>

\* Mutant: every device that was not reached counts as gone.
Gone_NotReached(j, reached) == jobs[j].devices \ reached

\* Only an answer of 410 or 404 tells that a device is gone.
Gone(j, reached) == jobs[j].devices \ alive

\* All devices at once: some are reached, some are gone, the others fail for now.
SendPush(j) ==
    /\ jobs[j].pc = "send" /\ jobs[j].channel = "PUSH"
    /\ \E reached \in SUBSET (jobs[j].devices \cap alive) :
          LET refused == (jobs[j].devices \cap alive) \ reached
          IN  /\ refusals + Cardinality(refused) <= MaxRefusals
              /\ refusals' = refusals + Cardinality(refused)
              /\ SetJob(j, [jobs[j] EXCEPT !.pc = "prune", !.ok = reached # {},
                                         !.devices = Gone(j, reached),
                                         !.sent = IF reached # {} THEN @ + 1 ELSE @])
    /\ WorkerFrame
    /\ UNCHANGED <<logs, push, failures>>

\* Subscriptions answered with 410 or 404 are deleted.
PruneDevices(j) ==
    /\ jobs[j].pc = "prune"
    /\ subs' = subs \ jobs[j].devices
    /\ SetJob(j, [jobs[j] EXCEPT !.pc = "log"])
    /\ WorkerFrame
    /\ UNCHANGED <<logs, alive, failures, refusals>>

LogOf(j) == <<NotificationType(jobs[j].type, jobs[j].days), jobs[j].channel>>

\* Mutant: a refusal is logged, but not thrown for BullMQ to see.
Retried_Never(j) == FALSE

\* The email worker throws after a refusal, the push worker never does.
Retried(j) == jobs[j].channel = "EMAIL" /\ ~jobs[j].ok

\* Mutant: an error while logging is thrown as well, so that BullMQ retries the job.
AfterLog_Throws(j) ==
    IF Retried(j) \/ (jobs[j].ok /\ LogOf(j) \in logs)
    THEN [jobs[j] EXCEPT !.left = @ - 1, !.devices = {},
                         !.pc = IF jobs[j].left > 1 THEN "waiting" ELSE "failed"]
    ELSE [jobs[j] EXCEPT !.pc = "done", !.devices = {}]

\* What becomes of the job after its last await.
AfterLog(j) ==
    IF Retried(j)
    THEN [jobs[j] EXCEPT !.left = @ - 1, !.devices = {},
                         !.pc = IF jobs[j].left > 1 THEN "waiting" ELSE "failed"]
    ELSE [jobs[j] EXCEPT !.pc = "done", !.devices = {}]

\* Mutant: a refused message is logged as sent.
Logged_Always(j) == logs \cup {LogOf(j)}
Logged(j) == IF jobs[j].ok THEN logs \cup {LogOf(j)} ELSE logs

\* logNotification: an INSERT under a unique index on what was sent, whose failure
\* is only a warning.
LogNotification(j) ==
    /\ jobs[j].pc = "log"
    /\ \/ /\ logs' = Logged(j)
          /\ UNCHANGED failures
       \/ /\ failures < MaxFailures
          /\ failures' = failures + 1
          /\ UNCHANGED logs
    /\ SetJob(j, AfterLog(j))
    /\ WorkerFrame
    /\ UNCHANGED <<push, refusals>>

------------------------------------------------------------------------------
(* Time, other handlers and failures. *)

\* The passes end on the day they began.  A process that is down misses its cron.
NextDay ==
    /\ day > -GraceDays
    /\ \A p \in Processes : remind[p] = "idle" /\ sweep[p] = "idle"
    /\ day' = day - 1
    /\ tasks' = [p \in Processes |-> Tasks]
    /\ UNCHANGED <<status, active, keys, remind, sweep, jobs, logs, push, bounds>>

\* setex with 25 hours: the key outlives the next pass at most.
KeyExpires(d) ==
    /\ d \in keys
    /\ day < d
    /\ keys' = keys \ {d}
    /\ UNCHANGED <<record, passes, jobs, logs, push, bounds>>

\* The record is paid or reported; the period becomes ACTIVE.
Settles ==
    /\ status = "PENDING"
    /\ status' = "PAID"
    /\ active' = TRUE
    /\ UNCHANGED <<day, keys, passes, jobs, logs, push, bounds>>

OthersPay ==
    /\ ~active
    /\ active' = TRUE
    /\ UNCHANGED <<day, status, keys, passes, jobs, logs, push, bounds>>

DeviceExpires(d) ==
    /\ d \in alive
    /\ alive' = alive \ {d}
    /\ UNCHANGED <<record, keys, passes, jobs, logs, subs, bounds>>

\* The process dies, or the await a pass is at rejects and ends the pass.
PassFails(p) ==
    /\ failures < MaxFailures
    /\ remind[p] # "idle" \/ sweep[p] # "idle"
    /\ failures' = failures + 1
    /\ remind' = [remind EXCEPT ![p] = "idle"]
    /\ sweep' = [sweep EXCEPT ![p] = "idle"]
    /\ UNCHANGED <<record, keys, tasks, jobs, logs, push, byHand, refusals>>

\* The worker dies: BullMQ finds the job stalled, and gives up the second time.
JobStalls(j) ==
    /\ failures < MaxFailures
    /\ jobs[j].pc \in Working
    /\ failures' = failures + 1
    /\ SetJob(j, IF jobs[j].stalls = 0
               THEN [jobs[j] EXCEPT !.pc = "waiting", !.stalls = 1, !.devices = {}]
               ELSE [jobs[j] EXCEPT !.pc = "failed", !.devices = {}])
    /\ WorkerFrame
    /\ UNCHANGED <<logs, push, refusals>>

------------------------------------------------------------------------------
Pass(p) ==
    \/ ScanReminders(p) \/ ReadKey(p) \/ EnqueueReminder(p) \/ SetKey(p)
    \/ ScanOverdue(p) \/ MarkOverdue(p) \/ AlertOverdue(p)

Work(j) ==
    \/ TakeJob(j) \/ SendEmail(j) \/ ReadDevices(j) \/ SendPush(j) \/ PruneDevices(j)
    \/ LogNotification(j)

JobIds == 1..Len(jobs)

Next ==
    \/ \E p \in Processes : Pass(p) \/ PassFails(p)
    \/ \E j \in JobIds : Work(j) \/ JobStalls(j)
    \/ SendManualReminders \/ NotifyAmountMismatch
    \/ NextDay \/ Settles \/ OthersPay
    \/ \E d \in RemindDays : KeyExpires(d)
    \/ \E d \in Devices : DeviceExpires(d)

Spec == Init /\ [][Next]_vars

\* Workers get on with the jobs in the queues.
FairSpec == Spec /\ \A j \in 1..MaxJobs : WF_vars(\E k \in JobIds \cap {j} : Work(k))

------------------------------------------------------------------------------
(* Correctness. *)

TypeOK ==
    /\ day \in Int /\ day <= FirstDay
    /\ status \in {"PENDING", "PAID", "FAILED", "EXPIRED"}
    /\ active \in BOOLEAN
    /\ keys \subseteq RemindDays
    /\ tasks \in [Processes -> SUBSET Tasks]
    /\ remind \in [Processes -> {"idle", "dedup", "enqueue", "setKey"}]
    /\ sweep \in [Processes -> {"idle", "expire", "alert"}]
    /\ jobs \in Seq(Job)
    /\ subs \subseteq Devices
    /\ alive \subseteq Devices
    /\ byHand \in 0..MaxByHand
    /\ failures \in 0..MaxFailures
    /\ refusals \in 0..MaxRefusals

(***************************************************************************)
(* A log that says sent is true: a message of that type went out on that   *)
(* channel, though log and message are separate steps, jobs are retried    *)
(* and logging may fail (handlePaymentReminder, logNotification).          *)
(***************************************************************************)
SentLogsAreTrue ==
    \A l \in logs : \E j \in JobIds : LogOf(j) = l /\ jobs[j].sent > 0

(***************************************************************************)
(* A job sends its message once, however often it is refused, retried or   *)
(* fails to be logged; only a worker that died or an answer that was lost  *)
(* makes it go out again (EmailWorker.process, PushWorker.process).        *)
(***************************************************************************)
SentOncePerJob == \A j \in JobIds : jobs[j].sent <= 1 + jobs[j].stalls + jobs[j].lost

(***************************************************************************)
(* Pruning by workers that read the subscriptions some time ago removes    *)
(* no device the push service can still reach (PushWorker).                *)
(***************************************************************************)
LiveDevicesAreKept == alive \subseteq subs

(***************************************************************************)
(* When nothing fails, a record the sweeps have expired has an alert in    *)
(* the queues once they are over, whatever happened to the record and its  *)
(* period between its loading and the alert.  The alert is about a day     *)
(* after the grace period, one about a mismatched amount about the day 0   *)
(* (markOverdueAndAlert).                                                  *)
(***************************************************************************)
ExpiredAreAlerted ==
    (/\ failures = 0
     /\ status = "EXPIRED" /\ HasUser
     /\ \A p \in Processes : sweep[p] = "idle")
        => \E j \in JobIds : jobs[j].type = "OVERDUE_ALERT" /\ jobs[j].days <= -GraceDays

(***************************************************************************)
(* An email the service enqueued goes out in the end when the provider     *)
(* refuses it less often than the job has attempts and no worker dies      *)
(* (DEFAULT_JOB_OPTIONS, EmailWorker.process).                             *)
(***************************************************************************)
EmailsGoOut ==
    \A j \in 1..MaxJobs :
        (\E k \in JobIds \cap {j} : jobs[k].channel = "EMAIL" /\ jobs[k].left > MaxRefusals) ~>
            (failures > 0 \/ \E k \in JobIds \cap {j} : jobs[k].sent > 0)
==============================================================================
