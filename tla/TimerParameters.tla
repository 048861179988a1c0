---------------------------- MODULE TimerParameters ----------------------------
(***************************************************************************)
(* What the timers have in common with those who implement them            *)
(* (TimerService) and those who use them (TimerTasks): the timers, the     *)
(* clock and the queue they post to.                                       *)
(***************************************************************************)
EXTENDS MesgQueue, FiniteSets

CONSTANTS
    Owners,        (* the OSTimer objects                                    *)
    Messages,
    Delays,        (* countdowns, converted to microseconds                  *)
    Intervals,     (* intervals, likewise; 0 for a timer that fires once     *)
    TimeMax,       (* the last microsecond of the clock (2^64 - 1)           *)
    MailboxCap,    (* entries of the queue the timers post to                *)
    NONE           (* a NULL pointer, and a timer not in use                 *)

ASSUME TimerAssumption ==
    /\ TimeMax \in Nat /\ MailboxCap \in Nat
    /\ Delays \subseteq Nat /\ Intervals \subseteq Nat
    /\ NONE \notin Owners \union Messages
    /\ NONE \notin [deadline : Nat, interval : Nat, message : Messages]

VARIABLES
    now,           (* sceKernelGetSystemTimeWide                             *)
    mailbox        (* the message queue the timers post to                   *)

(* The clock saturates, and so do deadlines.                               *)
After(t, d) == IF TimeMax - t < d THEN TimeMax ELSE t + d
=============================================================================
