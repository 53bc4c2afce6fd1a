-------------------------- MODULE Scheduler_proofs --------------------------
(***************************************************************************)
(* Proofs about Scheduler, for any task ids, delays and number of crashes. *)
(***************************************************************************)
EXTENDS Scheduler, TLAPS

-----------------------------------------------------------------------------
(* Type correctness.                                                        *)

\* A snapshot holds the types of due rows, and no 'no-schedule' row is due.
LEMMA SnapshotType ==
  ASSUME TypeOK
  PROVE  Snapshot \in [Tasks -> {"once", "cron", None}]
  BY DEF TypeOK, Snapshot, Due, Rows, Types

\* The next alarm is a time, or what it was.
LEMMA AlarmType ==
  ASSUME NEW table \in [Tasks -> Rows \cup {None}],
         alarm \in 0..MaxDelay \cup {None},
         ScheduleNextAlarm(table)
  PROVE  /\ alarm' \in 0..MaxDelay \cup {None}
         /\ Upcoming(table) = {} => alarm' = alarm
         /\ Upcoming(table) # {} => IsNext(alarm', table)
<1>1. Upcoming(table) \subseteq 0..MaxDelay
  BY SchedulerAssumption DEF Upcoming, Has, Rows
<1>2. CASE Upcoming(table) = {}
  BY <1>2 DEF ScheduleNextAlarm
<1>3. CASE Upcoming(table) # {}
  BY <1>1, <1>3 DEF ScheduleNextAlarm, IsNext
<1> QED BY <1>2, <1>3

\* Settling a row leaves rows behind.
LEMMA SettleType ==
  ASSUME TypeOK, NEW t \in Tasks, Settle(t)
  PROVE  rows' \in [Tasks -> Rows \cup {None}]
<1>1. CASE batch[t] = "cron" /\ rows[t] # None
  <2>1. PICK left \in 1..MaxDelay : rows' = [rows EXCEPT ![t].left = left]
    BY <1>1 DEF Settle
  <2>2. rows[t] \in Rows
    BY <1>1 DEF TypeOK
  <2>3. [rows[t] EXCEPT !.left = left] \in Rows
    BY <2>2, SchedulerAssumption DEF Rows
  <2> QED BY <2>1, <2>3 DEF TypeOK
<1>2. CASE ~(batch[t] = "cron" /\ rows[t] # None)
  BY <1>2 DEF Settle, TypeOK
<1> QED BY <1>1, <1>2

\* A second passes in every row that has one left.
LEMMA TickType ==
  ASSUME TypeOK, Tick
  PROVE  /\ rows' \in [Tasks -> Rows \cup {None}]
         /\ alarm' \in 0..MaxDelay \cup {None}
<1>1. \A t \in Tasks : Has(rows, t) /\ rows[t].left > 0
                         => [rows[t] EXCEPT !.left = @ - 1] \in Rows
  BY SchedulerAssumption DEF TypeOK, Has, Rows
<1>2. rows' \in [Tasks -> Rows \cup {None}]
  BY <1>1 DEF TypeOK, Tick
<1>3. alarm' \in 0..MaxDelay \cup {None}
  BY SchedulerAssumption DEF TypeOK, Tick
<1> QED BY <1>2, <1>3

\* What the platform does is chosen once.
LEMMA PlatformKept == [Next]_vars => UNCHANGED platform
BY DEF Next, vars

LEMMA TypeStep ==
  ASSUME TypeOK, [Next]_vars
  PROVE  TypeOK'
<1> USE SchedulerAssumption, PlatformKept DEF platform
<1>1. ASSUME NEW t \in Tasks, NEW row \in Schedules, ScheduleTask(t, row)
      PROVE  TypeOK'
  <2>1. rows' \in [Tasks -> Rows \cup {None}]
    BY <1>1 DEF TypeOK, ScheduleTask, Schedules
  <2>2. alarm' \in 0..MaxDelay \cup {None}
    BY <1>1, <2>1, AlarmType DEF TypeOK, ScheduleTask
  <2> QED BY <1>1, <2>1, <2>2 DEF TypeOK, ScheduleTask, Running
<1>2. ASSUME NEW t \in Tasks, CancelTask(t)
      PROVE  TypeOK'
  <2>1. rows' \in [Tasks -> Rows \cup {None}]
    BY <1>2 DEF TypeOK, CancelTask
  <2>2. alarm' \in 0..MaxDelay \cup {None}
    BY <1>2, <2>1, AlarmType DEF TypeOK, CancelTask
  <2> QED BY <1>2, <2>1, <2>2 DEF TypeOK, CancelTask, Running
<1>3. ASSUME NEW t \in Tasks, Start(t)
      PROVE  TypeOK'
  BY <1>3 DEF TypeOK, Start, Running
<1>4. ASSUME NEW t \in Tasks, Finish(t)
      PROVE  TypeOK'
  BY <1>4, SettleType DEF TypeOK, Finish
<1>5. ASSUME Construct PROVE TypeOK'
  BY <1>5, SnapshotType DEF TypeOK, Construct, Running
<1>6. ASSUME AlarmFires PROVE TypeOK'
  BY <1>6, SnapshotType DEF TypeOK, AlarmFires, Running
<1>7. ASSUME AlarmReturns PROVE TypeOK'
  <2>1. alarm' \in 0..MaxDelay \cup {None}
    BY <1>7, AlarmType DEF TypeOK, AlarmReturns
  <2>2. current = None
    BY <1>7 DEF TypeOK, AlarmReturns
  <2> QED BY <1>7, <2>1, <2>2 DEF TypeOK, AlarmReturns
<1>8. ASSUME WebhookFails PROVE TypeOK'
  BY <1>8 DEF TypeOK, WebhookFails, Redeliver
<1>9. ASSUME Crash PROVE TypeOK'
  BY <1>9 DEF TypeOK, Crash, Redeliver
<1>10. ASSUME Tick PROVE TypeOK'
  BY <1>10, TickType DEF TypeOK, Tick, Running
<1>11. ASSUME UNCHANGED vars PROVE TypeOK'
  BY <1>11 DEF TypeOK, vars, Running
<1> QED
  BY <1>1, <1>2, <1>3, <1>4, <1>5, <1>6, <1>7, <1>8, <1>9, <1>10, <1>11
  DEF Next

(* The type invariant holds in every behaviour of the task table.           *)
THEOREM TypeCorrect == Spec => []TypeOK
<1>a. Init => /\ SlowWebhooks \in BOOLEAN /\ LateAlarms \in BOOLEAN
              /\ cut \in BOOLEAN
  BY Zenon DEF Init
<1>1. Init => TypeOK
  <2> SUFFICES ASSUME Init PROVE TypeOK
    OBVIOUS
  <2>1. /\ rows \in [Tasks -> Rows \cup {None}] /\ alarm \in 0..MaxDelay \cup {None}
        /\ batch \in [Tasks -> {"once", "cron", None}] /\ current = None
        /\ started \in [Tasks -> Nat] /\ crashes \in 0..MaxCrashes
        /\ mode = "down"
    BY SchedulerAssumption DEF Init
  <2> QED BY <1>a, <2>1 DEF TypeOK
<1>2. TypeOK /\ [Next]_vars => TypeOK'
  BY TypeStep
<1> QED BY <1>1, <1>2, PTL DEF Spec

-----------------------------------------------------------------------------
(* Executions.  A row, or an entry of the snapshot, that is not being       *)
(* executed was begun at most once for every run that was cut short.        *)

Begun ==
  \A t \in Tasks :
    /\ started[t] <= 1 + crashes
    /\ (rows[t] # None \/ batch[t] # None) /\ current # t
         => started[t] <= crashes

LEMMA BegunStep ==
  ASSUME TypeOK, Begun, [Next]_vars
  PROVE  Begun'
<1> USE SchedulerAssumption
<1> SUFFICES ASSUME NEW u \in Tasks
             PROVE  /\ started'[u] <= 1 + crashes'
                    /\ (rows'[u] # None \/ batch'[u] # None) /\ current' # u
                         => started'[u] <= crashes'
  BY DEF Begun
<1>a. /\ started[u] \in Nat /\ crashes \in Nat
      /\ started[u] <= 1 + crashes
      /\ (rows[u] # None \/ batch[u] # None) /\ current # u
           => started[u] <= crashes
  BY DEF Begun, TypeOK
<1>1. ASSUME NEW t \in Tasks, NEW row \in Schedules, ScheduleTask(t, row)
      PROVE  /\ started'[u] <= 1 + crashes'
             /\ (rows'[u] # None \/ batch'[u] # None) /\ current' # u
                  => started'[u] <= crashes'
  BY <1>1, <1>a DEF TypeOK, ScheduleTask
<1>2. ASSUME NEW t \in Tasks, CancelTask(t)
      PROVE  /\ started'[u] <= 1 + crashes'
             /\ (rows'[u] # None \/ batch'[u] # None) /\ current' # u
                  => started'[u] <= crashes'
  BY <1>2, <1>a DEF TypeOK, CancelTask
<1>3. ASSUME NEW t \in Tasks, Start(t)
      PROVE  /\ started'[u] <= 1 + crashes'
             /\ (rows'[u] # None \/ batch'[u] # None) /\ current' # u
                  => started'[u] <= crashes'
  BY <1>3, <1>a DEF TypeOK, Start
<1>4. ASSUME NEW t \in Tasks, Finish(t)
      PROVE  /\ started'[u] <= 1 + crashes'
             /\ (rows'[u] # None \/ batch'[u] # None) /\ current' # u
                  => started'[u] <= crashes'
  <2>1. u # t => rows'[u] = rows[u]
    BY <1>4 DEF TypeOK, Finish, Settle
  <2>2. batch[t] # "cron" => rows'[t] = None
    BY <1>4 DEF TypeOK, Finish, Settle
  <2>3. batch[t] = "cron" => started'[t] = 0
    BY <1>4 DEF TypeOK, Finish
  <2>4. /\ u # t => started'[u] = started[u]
        /\ batch[t] # "cron" => started'[t] = started[t]
    BY <1>4 DEF TypeOK, Finish
  <2>5. /\ current = t /\ batch'[t] = None
        /\ u # t => batch'[u] = batch[u]
        /\ crashes' = crashes
    BY <1>4 DEF TypeOK, Finish
  <2> QED BY <1>a, <2>1, <2>2, <2>3, <2>4, <2>5
<1>5. ASSUME Construct \/ AlarmFires
      PROVE  /\ started'[u] <= 1 + crashes'
             /\ (rows'[u] # None \/ batch'[u] # None) /\ current' # u
                  => started'[u] <= crashes'
  <2>1. current = None
    BY <1>5 DEF TypeOK, Running, Construct, AlarmFires
  <2>2. batch'[u] # None => rows[u] # None
    BY <1>5 DEF Construct, AlarmFires, Snapshot, Due
  <2> QED BY <1>5, <1>a, <2>1, <2>2 DEF Construct, AlarmFires
<1>6. ASSUME WebhookFails \/ Crash
      PROVE  /\ started'[u] <= 1 + crashes'
             /\ (rows'[u] # None \/ batch'[u] # None) /\ current' # u
                  => started'[u] <= crashes'
  <2>1. UNCHANGED <<rows, started>> /\ batch'[u] = None
    BY <1>6 DEF WebhookFails, Crash
  <2>2. crashes' = crashes + 1 \/ (crashes' = crashes /\ current = None)
    BY <1>6 DEF WebhookFails, Crash, TypeOK
  <2>3. current = None => current # u
    OBVIOUS
  <2> QED BY <1>a, <2>1, <2>2, <2>3
<1>7. ASSUME AlarmReturns \/ UNCHANGED vars
      PROVE  /\ started'[u] <= 1 + crashes'
             /\ (rows'[u] # None \/ batch'[u] # None) /\ current' # u
                  => started'[u] <= crashes'
  BY <1>7, <1>a DEF AlarmReturns, vars
<1>8. ASSUME Tick
      PROVE  /\ started'[u] <= 1 + crashes'
             /\ (rows'[u] # None \/ batch'[u] # None) /\ current' # u
                  => started'[u] <= crashes'
  <2>1. rows'[u] # None => rows[u] # None
    BY <1>8 DEF Tick, Has
  <2> QED BY <1>8, <1>a, <2>1 DEF Tick
<1> QED BY <1>1, <1>2, <1>3, <1>4, <1>5, <1>6, <1>7, <1>8 DEF Next

(* Without a crash or a failed webhook, an execution is the only one of its *)
(* row: late alarms, slow webhooks and the constructor's own run included.  *)
THEOREM ExecutedOnce == Spec => []OnceUnlessCrashed
<1>1. Init => Begun
  <2> HAVE Init
  <2>1. crashes = 0 /\ \A t \in Tasks : started[t] = 0
    BY DEF Init
  <2>2. \A t \in Tasks : rows[t] = None /\ batch[t] = None
    BY DEF Init
  <2>3. 0 <= 1 + 0
    OBVIOUS
  <2>4. \A t \in Tasks : started[t] <= 1 + crashes
    BY <2>1, <2>3
  <2> QED BY <2>2, <2>4 DEF Begun
<1>2. TypeOK /\ Begun /\ [Next]_vars => Begun'
  BY BegunStep
<1>3. Begun => OnceUnlessCrashed
  BY DEF Begun, OnceUnlessCrashed
<1> QED BY <1>1, <1>2, <1>3, TypeCorrect, PTL DEF Spec

-----------------------------------------------------------------------------
(* Alarms, when the clock stands still and no call arrives during a run:    *)
(* what is due was in the snapshot, and outside alarm() something is set    *)
(* whenever something has a time.                                           *)

SnapshotComplete == Running => \A t \in Tasks : Due(rows, t) => batch[t] # None
Armed == mode # "alarm" /\ (\E t \in Tasks : Has(rows, t)) => alarm # None

LEMMA SnapshotStep ==
  ASSUME TypeOK, SnapshotComplete, ~SlowWebhooks, [Next]_vars
  PROVE  SnapshotComplete'
<1> USE SchedulerAssumption
<1>1. ASSUME NEW t \in Tasks,
             (\E row \in Schedules : ScheduleTask(t, row)) \/ CancelTask(t)
      PROVE  SnapshotComplete'
  BY <1>1 DEF ScheduleTask, CancelTask, Callable, SnapshotComplete, Running
<1>2. ASSUME NEW t \in Tasks, Start(t) PROVE SnapshotComplete'
  BY <1>2 DEF Start, SnapshotComplete, Running, Due
<1>3. ASSUME NEW t \in Tasks, Finish(t) PROVE SnapshotComplete'
  <2> SUFFICES ASSUME NEW u \in Tasks, Due(rows', u), Running
               PROVE  batch'[u] # None
    BY <1>3 DEF Finish, SnapshotComplete, Running
  <2>1. CASE u # t
    <3>1. rows'[u] = rows[u]
      BY <1>3, <2>1 DEF Finish, Settle, TypeOK
    <3>2. batch'[u] = batch[u]
      BY <1>3, <2>1 DEF Finish, TypeOK
    <3>3. Due(rows, u)
      BY <3>1 DEF Due
    <3> QED BY <3>2, <3>3 DEF SnapshotComplete
  <2>2. CASE u = t
    <3>1. ~(batch[t] = "cron" /\ rows[t] # None) => rows'[t] = None
      BY <1>3 DEF Finish, Settle, TypeOK
    <3>2. ASSUME batch[t] = "cron", rows[t] # None
          PROVE  rows'[t].left > 0
      <4>1. PICK left \in 1..MaxDelay : rows' = [rows EXCEPT ![t].left = left]
        BY <1>3, <3>2 DEF Finish, Settle
      <4>2. rows[t] \in Rows
        BY <3>2 DEF TypeOK
      <4>3. rows'[t].left = left
        BY <4>1, <4>2 DEF TypeOK, Rows
      <4> QED BY <4>3
    <3> QED BY <2>2, <3>1, <3>2 DEF Due
  <2> QED BY <2>1, <2>2
<1>4. ASSUME Construct \/ AlarmFires PROVE SnapshotComplete'
  <2> SUFFICES ASSUME NEW u \in Tasks, Due(rows', u)
               PROVE  batch'[u] # None
    BY DEF SnapshotComplete
  <2>1. rows' = rows /\ batch' = Snapshot
    BY <1>4 DEF Construct, AlarmFires
  <2>2. rows[u] \in Rows
    BY <2>1 DEF Due, TypeOK
  <2> QED BY <2>1, <2>2 DEF Snapshot, Due, Rows, Types
<1>5. ASSUME AlarmReturns \/ WebhookFails \/ Crash PROVE SnapshotComplete'
  BY <1>5 DEF AlarmReturns, WebhookFails, Crash, SnapshotComplete, Running
<1>6. ASSUME Tick PROVE SnapshotComplete'
  BY <1>6 DEF Tick, SnapshotComplete, Running
<1>7. ASSUME UNCHANGED vars PROVE SnapshotComplete'
  BY <1>7 DEF vars, SnapshotComplete, Running, Due
<1> QED BY <1>1, <1>2, <1>3, <1>4, <1>5, <1>6, <1>7 DEF Next

\* After a call or a run, what has a time in the future has an alarm.
LEMMA ArmedBySchedule ==
  ASSUME NEW table \in [Tasks -> Rows \cup {None}],
         TypeOK, ScheduleNextAlarm(table),
         NEW u \in Tasks, Has(table, u), table[u].left > 0
  PROVE  alarm' # None
<1>1. table[u].left \in Upcoming(table)
  BY DEF Upcoming
<1>2. Upcoming(table) \subseteq Nat
  BY SchedulerAssumption DEF Upcoming, Has, Rows
<1>3. IsNext(alarm', table)
  BY <1>1, AlarmType DEF TypeOK
<1> QED BY <1>2, <1>3, SchedulerAssumption DEF IsNext

LEMMA ArmedStep ==
  ASSUME TypeOK, TypeOK', SnapshotComplete, Armed,
         ~SlowWebhooks, MinDelay = 1, [Next]_vars
  PROVE  Armed'
<1> USE SchedulerAssumption
<1> SUFFICES ASSUME mode' # "alarm", NEW u \in Tasks, Has(rows', u)
             PROVE  alarm' # None
  BY DEF Armed
<1>a. rows'[u] \in Rows /\ rows' \in [Tasks -> Rows \cup {None}]
  BY DEF TypeOK, Has
<1>b. mode # "alarm" /\ Has(rows, u) => alarm # None
  BY DEF Armed
<1>1. ASSUME NEW t \in Tasks, NEW row \in Schedules, ScheduleTask(t, row)
      PROVE  alarm' # None
  <2>1. CASE u = t
    <3>1. rows'[u] = row /\ row.type # "no-schedule"
      BY <1>1, <2>1 DEF TypeOK, ScheduleTask, Has
    <3>2. row.left > 0
      BY <3>1 DEF Schedules, Rows
    <3>3. ScheduleNextAlarm(rows')
      BY <1>1, <3>1 DEF ScheduleTask
    <3> QED BY <1>a, <3>1, <3>2, <3>3, ArmedBySchedule
  <2>2. CASE u # t
    <3>1. Has(rows, u) /\ alarm # None
      BY <1>1, <2>2, <1>b DEF TypeOK, ScheduleTask, Has, Callable
    <3>2. alarm' = alarm \/ IsNext(alarm', rows')
      BY <1>1, <1>a, AlarmType DEF TypeOK, ScheduleTask
    <3>3. Upcoming(rows') \subseteq Nat
      BY <1>a DEF Upcoming, Has, Rows
    <3> QED BY <3>1, <3>2, <3>3 DEF IsNext
  <2> QED BY <2>1, <2>2
<1>2. ASSUME NEW t \in Tasks, CancelTask(t)
      PROVE  alarm' # None
  <2>1. Has(rows, u) /\ alarm # None
    BY <1>2, <1>b DEF TypeOK, CancelTask, Has, Callable
  <2>2. alarm' = alarm \/ IsNext(alarm', rows')
    BY <1>2, <1>a, AlarmType DEF TypeOK, CancelTask
  <2>3. Upcoming(rows') \subseteq Nat
    BY <1>a DEF Upcoming, Has, Rows
  <2> QED BY <2>1, <2>2, <2>3 DEF IsNext
<1>3. ASSUME NEW t \in Tasks, Start(t)
      PROVE  alarm' # None
  BY <1>3, <1>b DEF Start
<1>4. ASSUME NEW t \in Tasks, Finish(t)
      PROVE  alarm' # None
  <2>1. Has(rows, u)
    <3>1. CASE u # t
      BY <1>4, <3>1 DEF TypeOK, Finish, Settle, Has
    <3>2. CASE u = t
      <4>1. batch[t] = "cron" /\ rows[t] # None
        BY <1>4, <3>2 DEF TypeOK, Finish, Settle, Has
      <4>2. PICK left \in 1..MaxDelay : rows' = [rows EXCEPT ![t].left = left]
        BY <1>4, <4>1 DEF Finish, Settle
      <4>3. rows[t] \in Rows
        BY <4>1 DEF TypeOK
      <4>4. rows'[t].type = rows[t].type
        BY <4>2, <4>3 DEF TypeOK, Rows
      <4> QED BY <3>2, <4>1, <4>4 DEF Has
    <3> QED BY <3>1, <3>2
  <2> QED BY <1>4, <1>b, <2>1 DEF Finish
<1>5. ASSUME Construct \/ AlarmFires
      PROVE  alarm' # None
  BY <1>5, <1>b DEF Construct, AlarmFires
<1>6. ASSUME AlarmReturns
      PROVE  alarm' # None
  <2>1. ~Due(rows, u) /\ rows' = rows
    BY <1>6 DEF AlarmReturns, SnapshotComplete
  <2>2. rows'[u].left > 0
    BY <1>a, <2>1 DEF Due, Has, Rows
  <2> QED BY <1>a, <1>6, <2>1, <2>2, ArmedBySchedule DEF AlarmReturns
<1>7. ASSUME WebhookFails \/ Crash
      PROVE  alarm' # None
  BY <1>7, <1>b DEF WebhookFails, Crash, Redeliver
<1>8. ASSUME Tick
      PROVE  alarm' # None
  <2>1. mode' = mode /\ Has(rows, u)
    BY <1>8, <1>a DEF Tick, Has, TypeOK
  <2>2. alarm # None
    BY <1>b, <2>1
  <2>3. alarm' = alarm \/ (alarm \in Nat /\ alarm > 0 /\ alarm' = alarm - 1)
    BY <1>8, <2>2 DEF Tick, TypeOK
  <2> QED BY <2>2, <2>3
<1>9. ASSUME UNCHANGED vars
      PROVE  alarm' # None
  BY <1>9, <1>b DEF vars
<1> QED BY <1>1, <1>2, <1>3, <1>4, <1>5, <1>6, <1>7, <1>8, <1>9 DEF Next

(* A due task is about to be executed or some alarm is still to come,       *)
(* whenever tasks are scheduled for a later second and webhooks are quick,  *)
(* however late the platform delivers the alarms.                           *)
THEOREM DueTasksKeepAnAlarm == MinDelay = 1 => (Spec => []DueTaskHasAlarm)
<1> SUFFICES ASSUME MinDelay = 1
             PROVE  Spec => []DueTaskHasAlarm
  OBVIOUS
<1> DEFINE IInv == ~SlowWebhooks => SnapshotComplete /\ Armed
<1>1. Init => IInv
  BY DEF Init, SnapshotComplete, Armed, Running, Has
<1>2. ASSUME TypeOK, TypeOK', IInv, [Next]_vars PROVE IInv'
  <2> SUFFICES ASSUME ~SlowWebhooks' PROVE SnapshotComplete' /\ Armed'
    OBVIOUS
  <2>1. ~SlowWebhooks
    BY <1>2, PlatformKept DEF platform
  <2> QED BY <1>2, <2>1, SnapshotStep, ArmedStep
<1>3. TypeOK /\ IInv => DueTaskHasAlarm
  <2> SUFFICES ASSUME TypeOK, SnapshotComplete, Armed,
                      NEW t \in Tasks, Due(rows, t)
               PROVE  alarm # None \/ batch[t] # None
    BY DEF DueTaskHasAlarm
  <2>1. Has(rows, t)
    BY DEF Due, Has, TypeOK, Rows
  <2> QED BY <2>1 DEF SnapshotComplete, Armed, Running
<1> QED BY <1>1, <1>2, <1>3, TypeCorrect, PTL DEF Spec

-----------------------------------------------------------------------------
(* The alarm covers the future, when moreover nothing happens between an    *)
(* alarm's time and its delivery: a cron task that is due then has a due    *)
(* alarm, so that its next time, whatever it is, is not too early for it.   *)

Taken == mode = "alarm" => alarm = None
Covered ==
  mode # "alarm" => \A left \in Upcoming(rows) : alarm # None /\ alarm <= left
CronsDue ==
  mode # "alarm" =>
    \A t \in Tasks :
      (\/ Due(rows, t) /\ rows[t].type = "cron"
       \/ mode = "constructor" /\ batch[t] = "cron") => alarm = 0
Cover == Taken /\ Covered /\ CronsDue

\* A call finds the alarm not due, and leaves it covering the table.
LEMMA CallCovers ==
  ASSUME TypeOK, TypeOK', Cover, mode = "idle", mode' = mode, batch' = batch,
         alarm # 0,
         NEW t \in Tasks,
         \A u \in Tasks \ {t} : rows'[u] = rows[u],
         rows'[t] # None /\ rows'[t].type = "cron" => rows'[t].left > 0,
         \/ ScheduleNextAlarm(rows')
         \/ alarm' = alarm /\ ~Has(rows', t)
  PROVE  Cover'
<1> USE SchedulerAssumption
<1>1. ASSUME NEW u \in Tasks, Due(rows', u), rows'[u].type = "cron"
      PROVE  FALSE
  <2>1. u # t
    BY <1>1 DEF Due
  <2>2. Due(rows, u) /\ rows[u].type = "cron"
    BY <1>1, <2>1 DEF Due
  <2> QED BY <2>2 DEF Cover, CronsDue
<1>2. ASSUME NEW left \in Upcoming(rows')
      PROVE  alarm' # None /\ alarm' <= left
  <2>1. rows' \in [Tasks -> Rows \cup {None}] /\ Upcoming(rows') \subseteq Nat
    BY DEF TypeOK, Upcoming, Has, Rows
  <2>2. CASE ScheduleNextAlarm(rows')
    BY <1>2, <2>1, <2>2, AlarmType DEF TypeOK, IsNext
  <2>3. CASE alarm' = alarm /\ ~Has(rows', t)
    <3>1. left \in Upcoming(rows)
      BY <1>2, <2>3 DEF Upcoming, Has
    <3> QED BY <2>3, <3>1 DEF Cover, Covered
  <2> QED BY <2>2, <2>3
<1> QED BY <1>1, <1>2 DEF Cover, Taken, Covered, CronsDue

LEMMA CoverStep ==
  ASSUME TypeOK, TypeOK', SnapshotComplete, Cover,
         ~SlowWebhooks, ~LateAlarms, [Next]_vars
  PROVE  Cover'
<1> USE SchedulerAssumption
<1>1. ASSUME NEW t \in Tasks, NEW row \in Schedules, ScheduleTask(t, row)
      PROVE  Cover'
  <2>1. mode = "idle" /\ alarm # 0 /\ mode' = mode /\ batch' = batch
    BY <1>1 DEF ScheduleTask, Callable, AlarmDue
  <2>2. rows'[t] = row /\ \A u \in Tasks \ {t} : rows'[u] = rows[u]
    BY <1>1 DEF ScheduleTask, TypeOK
  <2>3. row.type = "cron" => row.left > 0
    BY DEF Schedules, Rows
  <2>4. ScheduleNextAlarm(rows') \/ (alarm' = alarm /\ ~Has(rows', t))
    BY <1>1, <2>2 DEF ScheduleTask, Has
  <2> QED BY <2>1, <2>2, <2>3, <2>4, CallCovers
<1>2. ASSUME NEW t \in Tasks, CancelTask(t)
      PROVE  Cover'
  <2>1. mode = "idle" /\ alarm # 0 /\ mode' = mode /\ batch' = batch
    BY <1>2 DEF CancelTask, Callable, AlarmDue
  <2>2. rows'[t] = None /\ \A u \in Tasks \ {t} : rows'[u] = rows[u]
    BY <1>2 DEF CancelTask, TypeOK
  <2>3. ScheduleNextAlarm(rows')
    BY <1>2 DEF CancelTask
  <2> QED BY <2>1, <2>2, <2>3, CallCovers
<1>3. ASSUME NEW t \in Tasks, Start(t)
      PROVE  Cover'
  BY <1>3 DEF Start, Cover, Taken, Covered, CronsDue, Upcoming, Has, Due
<1>4. ASSUME NEW t \in Tasks, Finish(t)
      PROVE  Cover'
  <2>1. UNCHANGED <<alarm, mode>>
    BY <1>4 DEF Finish
  <2>2. CASE mode = "alarm"
    BY <2>1, <2>2 DEF Cover, Taken, Covered, CronsDue
  <2>3. CASE mode = "constructor" /\ alarm = 0
    <3>1. Upcoming(rows') \subseteq Nat
      BY DEF TypeOK, Upcoming, Has, Rows
    <3> QED BY <2>1, <2>3, <3>1 DEF Cover, Taken, Covered, CronsDue
  <2>4. CASE mode = "constructor" /\ alarm # 0
    <3>1. batch[t] # "cron"
      BY <2>4 DEF Cover, CronsDue
    <3>2. rows'[t] = None /\ \A u \in Tasks \ {t} : rows'[u] = rows[u]
      BY <1>4, <3>1 DEF Finish, Settle, TypeOK
    <3>3. Upcoming(rows') \subseteq Upcoming(rows)
      BY <3>2 DEF Upcoming, Has
    <3>4. \A u \in Tasks : batch'[u] = "cron" => batch[u] = "cron"
      BY <1>4 DEF Finish, TypeOK
    <3>5. \A u \in Tasks : Due(rows', u) => Due(rows, u) /\ rows'[u] = rows[u]
      BY <3>2 DEF Due
    <3> QED BY <2>1, <2>4, <3>3, <3>4, <3>5
            DEF Cover, Taken, Covered, CronsDue
  <2> QED BY <1>4, <2>2, <2>3, <2>4 DEF TypeOK, Finish, Running
<1>5. ASSUME Construct
      PROVE  Cover'
  <2>1. \A u \in Tasks : batch'[u] = "cron" => Due(rows, u) /\ rows[u].type = "cron"
    BY <1>5 DEF Construct, Snapshot, Due
  <2>2. UNCHANGED <<rows, alarm>> /\ mode = "down" /\ mode' = "constructor"
    BY <1>5 DEF Construct
  <2>3. Upcoming(rows') = Upcoming(rows)
    BY <2>2
  <2>4. \A u \in Tasks : Due(rows', u) <=> Due(rows, u)
    BY <2>2
  <2> QED BY <2>1, <2>2, <2>3, <2>4 DEF Cover, Taken, Covered, CronsDue
<1>6. ASSUME AlarmFires
      PROVE  Cover'
  BY <1>6 DEF AlarmFires, Cover, Taken, Covered, CronsDue
<1>7. ASSUME AlarmReturns
      PROVE  Cover'
  <2>1. rows' = rows /\ mode' = "idle" /\ ScheduleNextAlarm(rows)
    BY <1>7 DEF AlarmReturns
  <2>2. \A u \in Tasks : ~Due(rows, u)
    BY <1>7 DEF AlarmReturns, SnapshotComplete
  <2>3. \A left \in Upcoming(rows) : alarm' # None /\ alarm' <= left
    <3>1. Upcoming(rows) \subseteq Nat
      BY DEF TypeOK, Upcoming, Has, Rows
    <3> QED BY <2>1, <3>1, AlarmType DEF TypeOK, IsNext
  <2>4. \A u \in Tasks : ~Due(rows', u)
    BY <2>1, <2>2
  <2>5. Upcoming(rows') = Upcoming(rows)
    BY <2>1
  <2> QED BY <2>1, <2>3, <2>4, <2>5 DEF Cover, Taken, Covered, CronsDue
<1>8. ASSUME WebhookFails \/ Crash
      PROVE  Cover'
  <2>1. rows' = rows /\ batch' = [u \in Tasks |-> None] /\ mode' \in {"idle", "down"}
    BY <1>8 DEF WebhookFails, Crash
  <2>2. IF mode = "alarm" THEN alarm' = 0 ELSE alarm' = alarm
    BY <1>8 DEF WebhookFails, Crash, Redeliver, Cover, Taken
  <2>3. Upcoming(rows') = Upcoming(rows) /\ Upcoming(rows) \subseteq Nat
    BY <2>1 DEF TypeOK, Upcoming, Has, Rows
  <2>4. \A u \in Tasks : Due(rows', u) <=> Due(rows, u)
    BY <2>1
  <2> QED BY <2>1, <2>2, <2>3, <2>4 DEF Cover, Taken, Covered, CronsDue
<1>9. ASSUME Tick
      PROVE  Cover'
  <2>1. ~Running /\ alarm # 0 /\ UNCHANGED <<mode, batch>>
    BY <1>9 DEF Tick, AlarmDue
  <2>2. mode \notin {"alarm", "constructor"}
    BY <2>1 DEF Running
  <2>3. alarm = None \/ (alarm \in Nat /\ alarm > 0)
    BY <2>1 DEF TypeOK
  <2>4. alarm' = IF alarm # None THEN alarm - 1 ELSE None
    BY <1>9, <2>3 DEF Tick
  <2>5. ASSUME NEW u \in Tasks, Has(rows', u)
        PROVE  /\ Has(rows, u) /\ rows'[u].type = rows[u].type
               /\ rows[u].left \in Nat /\ rows'[u].left \in Nat
               /\ rows[u].left = 0 => rows'[u].left = 0
               /\ rows[u].left > 0 => rows'[u].left = rows[u].left - 1
    <3>1. rows[u] # None /\ rows[u] \in Rows
      BY <1>9, <2>5 DEF Tick, Has, TypeOK
    <3>2. rows'[u] = IF Has(rows, u) /\ rows[u].left > 0
                     THEN [rows[u] EXCEPT !.left = @ - 1] ELSE rows[u]
      BY <1>9 DEF Tick
    <3> QED BY <2>5, <3>1, <3>2 DEF Has, Rows
  <2>6. ASSUME NEW u \in Tasks, Has(rows, u), rows[u].left > 0
        PROVE  alarm \in Nat /\ alarm <= rows[u].left
    <3>1. rows[u].left \in Upcoming(rows)
      BY <2>6 DEF Upcoming
    <3> QED BY <2>2, <2>3, <3>1 DEF Cover, Covered
  <2>7. ASSUME NEW left \in Upcoming(rows')
        PROVE  alarm' # None /\ alarm' <= left
    <3>1. PICK u \in Tasks : Has(rows', u) /\ left = rows'[u].left /\ left > 0
      BY DEF Upcoming
    <3>2. Has(rows, u) /\ rows[u].left > 0 /\ left = rows[u].left - 1
      BY <2>5, <3>1
    <3>3. alarm \in Nat /\ alarm <= rows[u].left /\ rows[u].left \in Nat
      BY <2>5, <2>6, <3>1, <3>2
    <3> QED BY <2>3, <2>4, <3>2, <3>3
  <2>8. ASSUME NEW u \in Tasks, Due(rows', u), rows'[u].type = "cron"
        PROVE  alarm' = 0
    <3>1. Has(rows', u) /\ rows'[u].left = 0
      BY <2>8 DEF Due, Has
    <3>2. CASE rows[u].left = 0
      <4>1. Due(rows, u) /\ rows[u].type = "cron"
        BY <2>5, <2>8, <3>1, <3>2 DEF Due, Has
      <4> QED BY <2>1, <2>2, <4>1 DEF Cover, CronsDue
    <3>3. CASE rows[u].left > 0
      <4>1. Has(rows, u) /\ rows[u].left \in Nat /\ rows[u].left = 1
        BY <2>5, <3>1, <3>3
      <4> QED BY <2>3, <2>4, <2>6, <3>3, <4>1
    <3> QED BY <2>5, <3>1, <3>2, <3>3
  <2> QED BY <2>1, <2>2, <2>7, <2>8 DEF Cover, Taken, Covered, CronsDue
<1>10. ASSUME UNCHANGED vars
       PROVE  Cover'
  BY <1>10 DEF vars, Cover, Taken, Covered, CronsDue, Upcoming, Has, Due
<1> QED BY <1>1, <1>2, <1>3, <1>4, <1>5, <1>6, <1>7, <1>8, <1>9, <1>10 DEF Next

-----------------------------------------------------------------------------
(* However slow webhooks and late alarms are, every run that ends leaves    *)
(* the alarm covering the future, and so does every call; time keeps it so  *)
(* until the next run starts.                                               *)

Settled == ~Running /\ ~cut =>
             \A left \in Upcoming(rows) : alarm # None /\ alarm <= left

\* scheduleNextAlarm() leaves the alarm at the first time to come.
LEMMA ScheduledCovers ==
  ASSUME TypeOK, NEW table \in [Tasks -> Rows \cup {None}],
         ScheduleNextAlarm(table), NEW left \in Upcoming(table)
  PROVE  alarm' # None /\ alarm' <= left
<1>1. Upcoming(table) \subseteq Nat
  BY SchedulerAssumption DEF Upcoming, Has, Rows
<1>2. IsNext(alarm', table)
  BY AlarmType DEF TypeOK
<1> QED BY <1>1, <1>2, SchedulerAssumption DEF IsNext

LEMMA SettledTick ==
  ASSUME TypeOK, Settled, Tick
  PROVE  Settled'
<1> USE SchedulerAssumption
<1> SUFFICES ASSUME ~Running, ~cut, NEW left \in Upcoming(rows')
             PROVE  alarm' # None /\ alarm' <= left
  BY DEF Settled, Tick, Running
<1>1. PICK u \in Tasks : Has(rows', u) /\ left = rows'[u].left /\ left > 0
  BY DEF Upcoming
<1>2. rows[u] # None /\ rows[u] \in Rows
  BY <1>1 DEF Tick, Has, TypeOK
<1>3. rows'[u] = IF Has(rows, u) /\ rows[u].left > 0
                 THEN [rows[u] EXCEPT !.left = @ - 1] ELSE rows[u]
  BY DEF Tick
<1>4. Has(rows, u) /\ rows[u].left \in Nat /\ left = rows[u].left - 1
  BY <1>1, <1>2, <1>3 DEF Has, Rows
<1>5. rows[u].left \in Upcoming(rows)
  BY <1>1, <1>4 DEF Upcoming
<1>6. alarm # None /\ alarm <= rows[u].left
  BY <1>5 DEF Settled
<1>7. alarm \in Nat
  BY <1>6 DEF TypeOK
<1>8. alarm' = IF alarm > 0 THEN alarm - 1 ELSE alarm
  BY <1>6 DEF Tick
<1> QED BY <1>1, <1>4, <1>6, <1>7, <1>8

LEMMA SettledStep ==
  ASSUME TypeOK, TypeOK', Settled, [Next]_vars
  PROVE  Settled'
<1> USE SchedulerAssumption
<1>a. rows' \in [Tasks -> Rows \cup {None}]
  BY DEF TypeOK
<1>1. ASSUME NEW t \in Tasks, NEW row \in Schedules, ScheduleTask(t, row)
      PROVE  Settled'
  <2>1. UNCHANGED <<mode, cut>>
    BY <1>1 DEF ScheduleTask
  <2>2. CASE row.type = "no-schedule"
    <3>1. alarm' = alarm
      BY <1>1, <2>2 DEF ScheduleTask
    <3>2. Upcoming(rows') \subseteq Upcoming(rows)
      <4>1. \A u \in Tasks : u # t => rows'[u] = rows[u]
        BY <1>1 DEF ScheduleTask, TypeOK
      <4>2. ~Has(rows', t)
        BY <1>1, <2>2 DEF ScheduleTask, TypeOK, Has
      <4> QED BY <4>1, <4>2 DEF Upcoming, Has
    <3> QED BY <2>1, <3>1, <3>2 DEF Settled, Running
  <2>3. CASE row.type # "no-schedule"
    <3>1. ScheduleNextAlarm(rows')
      BY <1>1, <2>3 DEF ScheduleTask
    <3> QED BY <1>a, <3>1, ScheduledCovers DEF Settled
  <2> QED BY <2>2, <2>3
<1>2. ASSUME NEW t \in Tasks, CancelTask(t) PROVE Settled'
  BY <1>2, <1>a, ScheduledCovers DEF CancelTask, Settled
<1>3. ASSUME NEW t \in Tasks, Start(t) \/ Finish(t) PROVE Settled'
  <2>1. Running /\ mode' = mode
    BY <1>3 DEF Start, Finish, TypeOK
  <2> QED BY <2>1 DEF Settled, Running
<1>4. ASSUME Construct \/ AlarmFires PROVE Settled'
  BY <1>4 DEF Construct, AlarmFires, Settled, Running
<1>5. ASSUME AlarmReturns PROVE Settled'
  <2>1. rows' = rows /\ ScheduleNextAlarm(rows')
    BY <1>5 DEF AlarmReturns
  <2> QED BY <1>a, <2>1, ScheduledCovers DEF Settled
<1>6. ASSUME WebhookFails PROVE Settled'
  BY <1>6 DEF WebhookFails, Settled
<1>7. ASSUME Crash PROVE Settled'
  <2>1. CASE Running
    BY <1>7, <2>1 DEF Crash, Settled
  <2>2. CASE ~Running
    <3>1. UNCHANGED <<rows, alarm>> /\ (~cut' => ~cut)
      BY <1>7, <2>2 DEF Crash, Redeliver, Running
    <3>2. Upcoming(rows') = Upcoming(rows)
      BY <3>1
    <3> QED BY <2>2, <3>1, <3>2 DEF Settled
  <2> QED BY <2>1, <2>2
<1>8. ASSUME Tick PROVE Settled'
  BY <1>8, SettledTick
<1>9. ASSUME UNCHANGED vars PROVE Settled'
  <2>1. UNCHANGED <<rows, alarm, mode, cut>>
    BY <1>9 DEF vars
  <2>2. Upcoming(rows') = Upcoming(rows)
    BY <2>1
  <2> QED BY <2>1, <2>2 DEF Settled, Running
<1> QED BY <1>1, <1>2, <1>3, <1>4, <1>5, <1>6, <1>7, <1>8, <1>9 DEF Next

(* Between handlers, the alarm is no later than any task still to come,     *)
(* whatever is late or slow, is evicted, or is scheduled in the past; only  *)
(* a run cut short while webhooks are slow or alarms late may leave a gap,  *)
(* until the next run ends.                                                 *)
THEOREM FutureIsCovered == Spec => []FutureTaskHasAlarm
<1> DEFINE Quick == ~SlowWebhooks /\ ~LateAlarms
           IInv == Settled /\ (Quick => SnapshotComplete /\ Cover)
<1>1. Init => IInv
  BY DEF Init, SnapshotComplete, Cover, Taken, Covered, CronsDue, Settled,
         Running, Upcoming, Has, Due
<1>2. ASSUME TypeOK, TypeOK', IInv, [Next]_vars PROVE IInv'
  <2>1. Settled'
    BY <1>2, SettledStep
  <2>2. ASSUME Quick' PROVE SnapshotComplete' /\ Cover'
    <3>1. Quick
      BY <1>2, <2>2, PlatformKept DEF platform
    <3> QED BY <1>2, <3>1, SnapshotStep, CoverStep
  <2> QED BY <2>1, <2>2
<1>3. IInv => FutureTaskHasAlarm
  BY DEF Cover, Covered, Settled, FutureTaskHasAlarm, Running
<1> QED BY <1>1, <1>2, <1>3, TypeCorrect, PTL DEF Spec
=============================================================================
