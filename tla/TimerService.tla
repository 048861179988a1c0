----------------------------- MODULE TimerService -----------------------------
(***************************************************************************)
(* The timer service of the PSP port: the table of timer_core.c and the    *)
(* thread n64_timer_sched of ultra_reimpl.c, with osSetTimer and           *)
(* osStopTimer called by other threads.                                    *)
(*                                                                         *)
(* sTimerLock is not a variable: what a thread does while it holds it is   *)
(* one action.  The semaphore sTimerWake is signalled after the lock is    *)
(* released, so other threads run in between.  Between two calls a thread  *)
(* may do anything.  All timers post to one queue; a timer without a queue *)
(* (allowed, never used) would post nothing.                               *)
(***************************************************************************)
EXTENDS TimerParameters

CONSTANTS
    Threads,       (* the threads that call the service                      *)
    NSlots,        (* PSP_TIMER_CORE_CAPACITY                                *)
    TimeoutMax,    (* the longest timeout of a wait (2^32 - 1)               *)
    MaxCalls       (* bound: calls made                                      *)

ASSUME ServiceAssumption ==
    NSlots \in Nat \ {0} /\ TimeoutMax \in Nat \ {0} /\ MaxCalls \in Nat

VARIABLES
    slots,         (* sTimerCore                                             *)
    sTimerWake,    (* count of the semaphore, at most 1                      *)
    pc,            (* where the timer thread is                              *)
    dispatch,      (* its locals: the timer taken, the nearest deadline, and *)
    nearest,       (* the time its wait ends (NONE: when signalled)          *)
    wakeAt,
    calling,       (* threads that have yet to signal sTimerWake             *)
    calls

core == <<now, slots, mailbox>>
thread == <<pc, dispatch, nearest, wakeAt>>
vars == <<core, thread, sTimerWake, calling, calls>>

Slots == 1..NSlots
Used == {s \in Slots : slots[s].state # "free"}
Active == {s \in Slots : slots[s].state = "active"}

Init ==
    /\ now = 0 /\ mailbox = << >> /\ sTimerWake = 0
    /\ slots = [s \in Slots |->
                  [owner |-> NONE, deadline |-> 0, interval |-> 0,
                   message |-> NONE, generation |-> 0, state |-> "free"]]
    /\ pc = "scan" /\ dispatch = NONE /\ nearest = NONE /\ wakeAt = NONE
    /\ calling = {} /\ calls = 0
-----------------------------------------------------------------------------
(* timer_core.c                                                            *)

(* Both Register and Cancel free what the owner had.                       *)
Release(table, o) ==
    [s \in Slots |->
        IF table[s].owner = o /\ table[s].state # "free"
          THEN [table[s] EXCEPT !.state = "free", !.owner = NONE,
                                !.message = NONE, !.generation = @ + 1]
          ELSE table[s]]

FreeSlots(table) == {s \in Slots : table[s].state = "free"}
First(S) == CHOOSE s \in S : \A r \in S : s <= r

Register(table, o, deadline, i, m) ==
    IF FreeSlots(table) = {} THEN table
    ELSE [table EXCEPT ![First(FreeSlots(table))] =
            [owner |-> o, deadline |-> deadline, interval |-> i,
             message |-> m, generation |-> @.generation + 1,
             state |-> "active"]]

(* The earliest due timer, the first of them in the table.                 *)
Due == {s \in Active : slots[s].deadline <= now}
Taken ==
    First({s \in Due : \A r \in Due : slots[s].deadline <= slots[r].deadline})

(* Variant: only the state is compared.                                    *)
DispatchValidByState ==
    slots[dispatch.slot].state = IF dispatch.oneShot THEN "firing"
                                                     ELSE "active"
DispatchValid ==
    /\ slots[dispatch.slot].generation = dispatch.generation
    /\ slots[dispatch.slot].state = IF dispatch.oneShot THEN "firing"
                                                        ELSE "active"
-----------------------------------------------------------------------------
(* ultra_reimpl.c: calls by thread t.                                      *)

Call(t) ==
    /\ t \notin calling /\ calls < MaxCalls
    /\ calls' = calls + 1
    /\ UNCHANGED <<now, mailbox, thread, sTimerWake>>

osSetTimer(t, o, d, i, m) ==
    /\ Call(t)
    /\ slots' = Register(Release(slots, o), o, After(now, d), i, m)
    /\ calling' = IF FreeSlots(Release(slots, o)) = {} THEN calling
                  ELSE calling \union {t}

osStopTimer(t, o) ==
    /\ Call(t)
    /\ slots' = Release(slots, o)
    /\ calling' = calling \union {t}

(* The last step of either call; a full semaphore stays full.              *)
SignalWake(t) ==
    /\ t \in calling /\ calling' = calling \ {t}
    /\ sTimerWake' = 1
    /\ UNCHANGED <<core, thread, calls>>
-----------------------------------------------------------------------------
(* psp_timer_scheduler.                                                    *)

(* With the lock: take a due timer, or find the nearest deadline.  The     *)
(* deadline kept in dispatch is for the refinement, the code drops it.     *)
Scan ==
    /\ pc = "scan"
    /\ IF Due # {}
         THEN LET s == Taken
              IN  /\ dispatch' = [slot |-> s,
                                  generation |-> slots[s].generation,
                                  oneShot |-> slots[s].interval = 0,
                                  message |-> slots[s].message,
                                  deadline |-> slots[s].deadline]
                  /\ slots' = IF slots[s].interval = 0
                                THEN [slots EXCEPT ![s].state = "firing"]
                                ELSE [slots EXCEPT ![s].deadline =
                                        After(now, slots[s].interval)]
                  /\ pc' = "deliver"
                  /\ UNCHANGED nearest
         ELSE /\ nearest' = IF Active = {} THEN NONE
                            ELSE LET s == CHOOSE a \in Active :
                                            \A b \in Active :
                                              slots[a].deadline
                                                <= slots[b].deadline
                                 IN  slots[s].deadline
              /\ pc' = "sleep"
              /\ UNCHANGED <<slots, dispatch>>
    /\ UNCHANGED <<now, mailbox, wakeAt, sTimerWake, calling, calls>>

(* With the lock again: the timer may have been stopped or set anew.       *)
Deliver ==
    /\ pc = "deliver"
    /\ IF DispatchValid
         THEN /\ mailbox' = SendNoBlock(mailbox, MailboxCap,
                                        dispatch.message)
              /\ slots' = IF dispatch.oneShot
                            THEN [slots EXCEPT ![dispatch.slot].state = "free",
                                               ![dispatch.slot].owner = NONE,
                                               ![dispatch.slot].message = NONE]
                            ELSE slots
         ELSE UNCHANGED <<mailbox, slots>>
    /\ dispatch' = NONE /\ pc' = "scan"
    /\ UNCHANGED <<now, nearest, wakeAt, sTimerWake, calling, calls>>

(* Read the clock again, without the lock, and wait; past the end of the   *)
(* clock a wait ends at once.                                              *)
Timeout ==
    IF nearest <= now THEN 1
    ELSE IF nearest - now > TimeoutMax THEN TimeoutMax ELSE nearest - now

(* Variant: an old signal is forgotten before the wait.                    *)
SleepForgetful ==
    /\ pc = "sleep"
    /\ wakeAt' = IF nearest = NONE THEN NONE ELSE After(now, Timeout)
    /\ pc' = "asleep" /\ nearest' = NONE /\ sTimerWake' = 0
    /\ UNCHANGED <<core, dispatch, calling, calls>>

Sleep ==
    /\ pc = "sleep"
    /\ wakeAt' = IF nearest = NONE THEN NONE ELSE After(now, Timeout)
    /\ pc' = "asleep" /\ nearest' = NONE
    /\ UNCHANGED <<core, dispatch, sTimerWake, calling, calls>>

WakeUp ==
    /\ pc = "asleep"
    /\ \/ sTimerWake = 1
       \/ wakeAt # NONE /\ now >= wakeAt
    /\ sTimerWake' = 0
    /\ wakeAt' = NONE /\ pc' = "scan"
    /\ UNCHANGED <<core, dispatch, nearest, calling, calls>>

Scheduler == Scan \/ Deliver \/ Sleep \/ WakeUp
-----------------------------------------------------------------------------
Tick ==
    /\ now < TimeMax /\ now' = now + 1
    /\ UNCHANGED <<slots, mailbox, thread, sTimerWake, calling, calls>>

(* The thread that reads the queue.                                        *)
Receive ==
    /\ mailbox # << >> /\ mailbox' = Tail(mailbox)
    /\ UNCHANGED <<now, slots, thread, sTimerWake, calling, calls>>

Next ==
    \/ Scheduler \/ Tick \/ Receive
    \/ \E t \in Threads :
         \/ SignalWake(t)
         \/ \E o \in Owners :
              \/ osStopTimer(t, o)
              \/ \E d \in Delays, i \in Intervals, m \in Messages :
                   osSetTimer(t, o, d, i, m)

Spec == Init /\ [][Next]_vars

(* Priority 0x18 puts the timer thread above every game thread; a call     *)
(* that has begun ends; time passes.                                       *)
Fairness ==
    /\ WF_vars(Scheduler) /\ WF_vars(Tick)
    /\ \A t \in Threads : WF_vars(SignalWake(t))

FairSpec == Spec /\ Fairness
-----------------------------------------------------------------------------
TypeOK ==
    /\ now \in 0..TimeMax
    /\ slots \in [Slots -> [owner : Owners \union {NONE},
                            deadline : 0..TimeMax, interval : {0} \union Intervals,
                            message : Messages \union {NONE},
                            generation : Nat,
                            state : {"free", "active", "firing"}]]
    /\ mailbox \in Queue(Messages, MailboxCap)
    /\ sTimerWake \in {0, 1}
    /\ pc \in {"scan", "deliver", "sleep", "asleep"}
    /\ \/ dispatch = NONE /\ pc # "deliver"
       \/ /\ pc = "deliver"
          /\ dispatch \in [slot : Slots, generation : Nat, oneShot : BOOLEAN,
                           message : Messages, deadline : 0..TimeMax]
    /\ nearest \in {NONE} \union (0..TimeMax)
    /\ wakeAt \in {NONE} \union (0..TimeMax)
    /\ calling \subseteq Threads /\ calls \in 0..MaxCalls

(* Refinement: a timer's registration is its slot, a periodic one that is  *)
(* being delivered still counting from the deadline it was taken for.      *)
SlotOf(o) == CHOOSE s \in Used : slots[s].owner = o

Registration(s) ==
    [deadline |-> IF pc = "deliver" /\ dispatch.slot = s /\ DispatchValid
                    THEN dispatch.deadline ELSE slots[s].deadline,
     interval |-> slots[s].interval,
     message  |-> slots[s].message]

Abstract == INSTANCE Timers WITH
    Capacity <- NSlots,
    armed <- [o \in Owners |->
                IF \E s \in Used : slots[s].owner = o
                  THEN Registration(SlotOf(o)) ELSE NONE]

(* What callers see is the service of Timers: whatever thread stops or     *)
(* sets a timer while it is being delivered, no message of an old          *)
(* registration is posted, none is posted early or twice, and the table    *)
(* refuses a timer only when it is full of others.                         *)
ImplementsTimers == Abstract!Spec

(* A timer set to fire once does fire, unless it is stopped: the wait      *)
(* never misses a call made while it was being prepared, and timers that   *)
(* keep coming due do not hold it back.                                    *)
Waiting(o) ==
    \E s \in Used : /\ slots[s].owner = o /\ slots[s].interval = 0
                    /\ slots[s].deadline < TimeMax

EveryTimerFires == \A o \in Owners : []<>~Waiting(o)
=============================================================================
