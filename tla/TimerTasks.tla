------------------------------ MODULE TimerTasks ------------------------------
(***************************************************************************)
(* The game's delayed actions (sys_timer.c): Timer_CreateTask takes one of *)
(* sTimerTasks and sets its timer, which fires once; Timer_ThreadEntry     *)
(* takes the task from gTimerTaskMesgQueue, runs its action and frees it.  *)
(* The timer service is the one Timers describes and TimerService          *)
(* implements; here its timers are the tasks, and so are its messages.     *)
(***************************************************************************)
EXTENDS TimerParameters

CONSTANTS
    Tasks,         (* 1..Cardinality(sTimerTasks)                            *)
    Capacity,      (* timers in use at a time                                *)
    MaxCreated     (* bound: tasks created                                   *)

(* Each task has a timer and is its message, and gTimerTaskMesgQueue has   *)
(* an entry for each of sTimerTasks.                                       *)
TasksFit ==
    /\ IsFiniteSet(Tasks) /\ Tasks = 1..Cardinality(Tasks)
    /\ Owners = Tasks /\ Messages = Tasks /\ 0 \in Intervals
    /\ Cardinality(Tasks) <= MailboxCap

VARIABLES
    armed,         (* for each timer its registration, or NONE               *)
    active,        (* tasks in use                                           *)
    completing,    (* the task whose action runs, or NONE                    *)
    created        (* tasks created so far                                   *)

Timer == INSTANCE Timers

taskVars == <<active, completing, created>>
taskAll == <<now, armed, mailbox, taskVars>>

TaskInit ==
    /\ Timer!Init
    /\ active = {} /\ completing = NONE
    /\ created = 0

(* Timer_AllocateTask: the first task not active.                          *)
Allocated == CHOOSE k \in Tasks \ active :
                \A j \in Tasks \ active : k <= j

(* Timer_CreateTask; the game creates tasks in one thread, and ignores     *)
(* the failure to set a timer.                                             *)
CreateTask ==
    /\ created < MaxCreated /\ active # Tasks
    /\ \/ /\ \E d \in Delays : Timer!Set(Allocated, d, 0, Allocated)
          /\ active' = active \union {Allocated}
          /\ created' = created + 1
       \/ /\ Timer!Refuse(Allocated)
          /\ UNCHANGED <<active, created>>
    /\ UNCHANGED completing

(* Variant: the task is freed before its action has run.                   *)
FreeThenTake ==
    /\ completing = NONE /\ Timer!Receive
    /\ completing' = Head(mailbox)
    /\ active' = active \ {Head(mailbox)}
    /\ UNCHANGED created

(* Timer_ThreadEntry and Timer_CompleteTask.                               *)
TakeTask ==
    /\ completing = NONE /\ Timer!Receive
    /\ completing' = Head(mailbox)
    /\ UNCHANGED <<active, created>>

(* Variant: the task is not freed.                                         *)
CompleteTaskOnly ==
    /\ completing # NONE
    /\ completing' = NONE
    /\ UNCHANGED <<now, armed, mailbox, active, created>>

CompleteTask ==
    /\ completing # NONE
    /\ active' = active \ {completing}
    /\ completing' = NONE
    /\ UNCHANGED <<now, armed, mailbox, created>>

Service == (Timer!Tick \/ \E k \in Tasks : Timer!Fire(k)) /\ UNCHANGED taskVars

TaskNext == CreateTask \/ TakeTask \/ CompleteTask \/ Service

TaskSpec == TaskInit /\ [][TaskNext]_taskAll

(* Time passes, due timers fire, and the timer thread runs.                *)
TaskFairSpec ==
    /\ TaskSpec
    /\ WF_taskAll(Service)
    /\ WF_taskAll(TakeTask \/ CompleteTask)
-----------------------------------------------------------------------------
(* A task in use is in one place: its timer is armed, or it is in the      *)
(* queue, or its action runs.  Were the queue full when a timer fires, or  *)
(* a task reused too early, it would be in none, or its action would run   *)
(* for another task.                                                       *)
TaskInOnePlace ==
    \A k \in Tasks :
        LET places == {p \in 1..3 :
                         \/ p = 1 /\ armed[k] # NONE
                         \/ p = 2 /\ Holds(mailbox, k)
                         \/ p = 3 /\ completing = k}
        IN  /\ Cardinality(places) = IF k \in active THEN 1 ELSE 0
            /\ AtMostOne(mailbox, k)

(* Every task created is completed, its slot free for another.             *)
EveryTaskCompletes == \A k \in Tasks : []<>(k \notin active)
=============================================================================
