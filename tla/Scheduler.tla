------------------------------ MODULE Scheduler -----------------------------
(***************************************************************************)
(* partywhen: a durable task table driven by the Durable Object's single   *)
(* alarm.  alarm() takes a snapshot of the due tasks, executes them one    *)
(* after the other, deletes or re-times each, and sets the alarm for the   *)
(* next task in the future; it also runs in the constructor, with all      *)
(* other events blocked.  The object may be evicted at any moment: the     *)
(* table and the alarm survive, a snapshot does not, and the platform      *)
(* delivers an alarm again whose handler did not finish.                   *)
(*                                                                         *)
(* Times are kept relative: `left' is the number of whole seconds (the     *)
(* table's unit) until a task or the alarm is due, 0 when it is.           *)
(***************************************************************************)
EXTENDS Integers

CONSTANTS
  Tasks,        \* task ids
  MinDelay,     \* 0: a task may be scheduled for a second already begun or past
  MaxDelay,     \* bound: the farthest a task is scheduled ahead
  MaxCrashes,   \* bound: runs of alarm() that are cut short
  None          \* no row, no alarm, no running task

ASSUME SchedulerAssumption ==
  /\ MinDelay \in {0, 1} /\ MaxDelay \in Nat \ {0} /\ MaxCrashes \in Nat
  /\ None \notin Tasks /\ None \notin Nat /\ None \notin {"once", "cron"}

VARIABLES
  SlowWebhooks, \* the clock runs and calls arrive while a webhook is awaited
  LateAlarms,   \* the clock runs and calls arrive before a due alarm does
                \* (neither ever changes)
  rows,     \* the table: id -> [type, left], None for no row
  alarm,    \* seconds until storage.setAlarm()'s time, None once delivered
  mode,     \* "down", "idle", or who runs alarm(): "constructor", "alarm"
  batch,    \* the snapshot: id -> the type of a row still to execute, or None
  current,  \* the task being executed
  started,  \* history: executions begun since the row got its time
  cut,      \* history: a run of alarm() was cut short, none has ended since
  crashes

platform == <<SlowWebhooks, LateAlarms>>
vars == <<platform, rows, alarm, mode, batch, current, started, cut, crashes>>

\* 'scheduled' and 'delayed' rows differ only in how their time was computed;
\* a no-schedule row's time is the last one there is.
Types == {"once", "cron", "no-schedule"}
Rows == {r \in [type : Types, left : 0..MaxDelay] :
           r.type = "no-schedule" => r.left > 0}

Running == mode \in {"constructor", "alarm"}
AlarmDue == alarm = 0

Has(table, t) == table[t] # None /\ table[t].type # "no-schedule"
Due(table, t) == table[t] # None /\ table[t].left = 0

\* SELECT * FROM tasks WHERE time <= now
Snapshot == [t \in Tasks |-> IF Due(rows, t) THEN rows[t].type ELSE None]

\* The times of the tasks in the future, and whether `a' is the first.
Upcoming(table) ==
  {table[t].left : t \in {u \in Tasks : Has(table, u) /\ table[u].left > 0}}
IsNext(a, table) ==
  a \in Upcoming(table) /\ \A b \in Upcoming(table) : a <= b

\* scheduleNextAlarm(): the alarm is only ever set, and only to the future.
ScheduleNextAlarm_KeepsOld(table) ==
  IF Upcoming(table) = {} \/ alarm # None THEN UNCHANGED alarm
  ELSE \E a \in Upcoming(table) : IsNext(a, table) /\ alarm' = a
ScheduleNextAlarm_NotAfterRun(table) ==
  IF Upcoming(table) = {} \/ Running THEN UNCHANGED alarm
  ELSE \E a \in Upcoming(table) : IsNext(a, table) /\ alarm' = a
ScheduleNextAlarm(table) ==
  IF Upcoming(table) = {} THEN UNCHANGED alarm
  ELSE \E a \in Upcoming(table) : IsNext(a, table) /\ alarm' = a

-----------------------------------------------------------------------------
(* The RPC methods.                                                         *)

\* A call is delivered when the object is up and no constructor blocks it.
Callable == \/ mode = "idle" /\ (AlarmDue => LateAlarms)
            \/ mode = "alarm" /\ current # None /\ SlowWebhooks

\* scheduleTask(): INSERT OR REPLACE, then scheduleNextAlarm() unless the
\* task has no schedule.
ScheduleTask(t, row) ==
  /\ Callable
  /\ rows' = [rows EXCEPT ![t] = row]
  /\ started' = [started EXCEPT ![t] = 0]
  /\ IF row.type = "no-schedule" THEN UNCHANGED alarm
                                 ELSE ScheduleNextAlarm(rows')
  /\ UNCHANGED <<mode, batch, current, cut, crashes>>

\* cancelTask(): for an id without a row too.
CancelTask(t) ==
  /\ Callable
  /\ rows' = [rows EXCEPT ![t] = None]
  /\ ScheduleNextAlarm(rows')
  /\ UNCHANGED <<mode, batch, current, started, cut, crashes>>

-----------------------------------------------------------------------------
(* alarm()                                                                  *)

\* An event reaches an object that is not in memory: the constructor runs
\* alarm() before the event.
Construct ==
  /\ mode = "down"
  /\ mode' = "constructor"
  /\ batch' = Snapshot
  /\ UNCHANGED <<rows, alarm, current, started, cut, crashes>>

AlarmFires ==
  /\ mode = "idle" /\ AlarmDue
  /\ alarm' = None
  /\ mode' = "alarm"
  /\ batch' = Snapshot
  /\ UNCHANGED <<rows, current, started, cut, crashes>>

\* executeTask() makes the call the task asks for.
Start(t) ==
  /\ Running /\ current = None
  /\ batch[t] # None
  /\ current' = t
  /\ started' = [started EXCEPT ![t] = @ + 1]
  /\ UNCHANGED <<rows, alarm, mode, batch, cut, crashes>>

\* A cron row gets its next time, if it is still there; any other is deleted,
\* by id alone.
Settle_Fault(t) ==
  IF batch[t] = "cron" /\ rows[t] # None
  THEN \E left \in 1..MaxDelay : rows' = [rows EXCEPT ![t].left = left]
  ELSE UNCHANGED rows
Settle(t) ==
  IF batch[t] = "cron" /\ rows[t] # None
  THEN \E left \in 1..MaxDelay : rows' = [rows EXCEPT ![t].left = left]
  ELSE rows' = [rows EXCEPT ![t] = None]

Finish(t) ==
  /\ current = t
  /\ Settle(t)
  /\ batch' = [batch EXCEPT ![t] = None]
  /\ current' = None
  /\ started' = IF batch[t] = "cron" THEN [started EXCEPT ![t] = 0]
                                     ELSE started
  /\ UNCHANGED <<alarm, mode, cut, crashes>>

AlarmReturns ==
  /\ Running /\ \A t \in Tasks : batch[t] = None
  /\ ScheduleNextAlarm(rows)
  /\ mode' = "idle"
  /\ cut' = FALSE
  /\ UNCHANGED <<rows, batch, current, started, crashes>>

-----------------------------------------------------------------------------
(* The platform.                                                            *)

\* An alarm whose handler did not finish is delivered again, unless the
\* handler's time saw a new one set.
Redeliver == IF mode = "alarm" /\ alarm = None THEN alarm' = 0
                                               ELSE UNCHANGED alarm

\* A webhook fails: its exception leaves alarm() before the row is settled and
\* the next alarm is set, and, from the constructor, makes the object unusable.
WebhookFails ==
  /\ current # None /\ crashes < MaxCrashes
  /\ crashes' = crashes + 1 /\ cut' = TRUE
  /\ Redeliver
  /\ mode' = IF mode = "alarm" THEN "idle" ELSE "down"
  /\ batch' = [t \in Tasks |-> None] /\ current' = None
  /\ UNCHANGED <<rows, started>>

\* The object leaves memory.
Crash ==
  /\ mode # "down"
  /\ Running => crashes < MaxCrashes
  /\ crashes' = IF Running THEN crashes + 1 ELSE crashes
  /\ cut' = (cut \/ Running)
  /\ Redeliver
  /\ mode' = "down"
  /\ batch' = [t \in Tasks |-> None] /\ current' = None
  /\ UNCHANGED <<rows, started>>

\* Date.now() stands still while alarm() awaits nothing.
Tick ==
  /\ Running => current # None /\ SlowWebhooks
  /\ ~Running /\ AlarmDue => LateAlarms
  /\ rows' = [t \in Tasks |-> IF Has(rows, t) /\ rows[t].left > 0
                              THEN [rows[t] EXCEPT !.left = @ - 1]
                              ELSE rows[t]]
  /\ alarm' = IF alarm # None /\ alarm > 0 THEN alarm - 1 ELSE alarm
  /\ UNCHANGED <<mode, batch, current, started, cut, crashes>>

-----------------------------------------------------------------------------

Init ==
  /\ SlowWebhooks \in BOOLEAN /\ LateAlarms \in BOOLEAN
  /\ rows = [t \in Tasks |-> None]
  /\ alarm = None
  /\ mode = "down"
  /\ batch = [t \in Tasks |-> None]
  /\ current = None
  /\ started = [t \in Tasks |-> 0]
  /\ cut = FALSE
  /\ crashes = 0

\* Only a 'scheduled' task names its time; a cron time and now plus a delay are
\* in a later second.
Schedules ==
  {r \in Rows : /\ r.left >= (IF r.type = "once" THEN MinDelay ELSE 1)
                /\ r.type = "no-schedule" => r.left = MaxDelay}

Next ==
  /\ UNCHANGED platform
  /\ \/ \E t \in Tasks :
          \/ \E row \in Schedules : ScheduleTask(t, row)
          \/ CancelTask(t) \/ Start(t) \/ Finish(t)
     \/ Construct \/ AlarmFires \/ AlarmReturns
     \/ WebhookFails \/ Crash \/ Tick

Spec == Init /\ [][Next]_vars

(* Time passes, the platform delivers a due alarm (waking the object for    *)
(* it), and an execution that was begun ends.                               *)
Fairness ==
  /\ WF_vars(UNCHANGED platform /\ Tick)
  /\ WF_vars(UNCHANGED platform /\ AlarmFires)
  /\ WF_vars(UNCHANGED platform /\ AlarmReturns)
  /\ WF_vars(UNCHANGED platform /\ Construct /\ AlarmDue)
  /\ WF_vars(UNCHANGED platform /\ \E t \in Tasks : Start(t) \/ Finish(t))

FairSpec == Spec /\ Fairness

-----------------------------------------------------------------------------

TypeOK ==
  /\ SlowWebhooks \in BOOLEAN /\ LateAlarms \in BOOLEAN /\ cut \in BOOLEAN
  /\ rows \in [Tasks -> Rows \cup {None}]
  /\ alarm \in 0..MaxDelay \cup {None}
  /\ mode \in {"down", "idle", "constructor", "alarm"}
  /\ batch \in [Tasks -> {"once", "cron", None}]
  /\ current \in Tasks \cup {None}
  /\ current # None => Running /\ batch[current] # None
  /\ started \in [Tasks -> Nat]
  /\ crashes \in 0..MaxCrashes

(* Between handlers, every task due in the future is covered by an alarm no *)
(* later than it: no call, cancellation, late alarm or slow webhook pushes  *)
(* the alarm past a task that is still to come.  With quick webhooks and    *)
(* punctual alarms that is true at once after a run that was cut short too; *)
(* otherwise only from the end of the next run on, since a run that re-timed*)
(* a cron task sets no alarm for it before it ends.                         *)
FutureTaskHasAlarm ==
  ~Running /\ (cut => ~SlowWebhooks /\ ~LateAlarms) =>
    \A left \in Upcoming(rows) : alarm # None /\ alarm <= left

(* With quick webhooks, a due task is about to be executed or some alarm is *)
(* still to come: a call made after its time, but before its alarm is       *)
(* delivered, may move that alarm, but never to nowhere.  (For tasks that   *)
(* name a later second: MinDelay = 1.)                                      *)
DueTaskHasAlarm ==
  ~SlowWebhooks => \A t \in Tasks : Due(rows, t) => alarm # None \/ batch[t] # None

(* Without a crash during it, an execution is the only one of its row.      *)
OnceUnlessCrashed == \A t \in Tasks : started[t] <= 1 + crashes

(* With quick webhooks and punctual alarms a due row does not stay,         *)
(* whatever fails or is evicted: it is executed, replaced or cancelled.     *)
QuickTasksRun ==
  \A t \in Tasks : ~SlowWebhooks /\ ~LateAlarms /\ Due(rows, t) ~> ~Due(rows, t)

(* The README: a task is run after its delay, at its date or on its cron    *)
(* schedule.  With punctual alarms, and however long webhooks take, a due   *)
(* row does not stay.                                                       *)
DueTaskRuns ==
  \A t \in Tasks : ~LateAlarms /\ Due(rows, t) ~> ~Due(rows, t)
=============================================================================
