-------------------------------- MODULE Timers --------------------------------
(***************************************************************************)
(* What osSetTimer and osStopTimer promise: a timer in use posts its own   *)
(* current message, at its deadline or later, once or periodically, and    *)
(* never again after it is stopped or set anew.  No thread, lock or slot   *)
(* appears here; TimerService implements this.                             *)
(***************************************************************************)
EXTENDS TimerParameters

CONSTANT Capacity  (* timers in use at a time                                *)

VARIABLE armed     (* for each timer its registration, or NONE               *)

Init ==
    /\ now = 0
    /\ armed = [o \in Owners |-> NONE]
    /\ mailbox = << >>

Tick == now < TimeMax /\ now' = now + 1 /\ UNCHANGED <<armed, mailbox>>

InUse == {o \in Owners : armed[o] # NONE}

(* Setting a timer drops its registration, and fails when the others take  *)
(* all the room.                                                           *)
Set(o, d, i, m) ==
    /\ armed' = [armed EXCEPT ![o] =
                    [deadline |-> After(now, d), interval |-> i,
                     message |-> m]]
    /\ Cardinality(InUse \ {o}) < Capacity
    /\ UNCHANGED <<now, mailbox>>

Refuse(o) ==
    /\ Cardinality(InUse \ {o}) >= Capacity
    /\ armed' = [armed EXCEPT ![o] = NONE]
    /\ UNCHANGED <<now, mailbox>>

Stop(o) ==
    /\ armed' = [armed EXCEPT ![o] = NONE]
    /\ UNCHANGED <<now, mailbox>>

(* A periodic timer counts its next interval from when it was found due.   *)
Fire(o) ==
    /\ o \in InUse /\ armed[o].deadline <= now
    /\ IF armed[o].interval = 0
         THEN armed' = [armed EXCEPT ![o] = NONE]
         ELSE \E t \in armed[o].deadline..now :
                armed' = [armed EXCEPT
                            ![o].deadline = After(t, armed[o].interval)]
    /\ mailbox' = SendNoBlock(mailbox, MailboxCap, armed[o].message)
    /\ UNCHANGED now

Receive ==
    /\ mailbox # << >> /\ mailbox' = Tail(mailbox)
    /\ UNCHANGED <<now, armed>>

Next ==
    \/ Tick \/ Receive
    \/ \E o \in Owners :
         \/ \E d \in Delays, i \in Intervals, m \in Messages : Set(o, d, i, m)
         \/ Refuse(o) \/ Stop(o) \/ Fire(o)

Spec == Init /\ [][Next]_<<now, armed, mailbox>>
=============================================================================
