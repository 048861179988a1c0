------------------------------ MODULE TimerProofs ------------------------------
(* The table of os_timer.c implements the timers of Timers.tla, although a *)
(* timer is taken from the table in one critical section and delivered in  *)
(* another; and the delayed actions of sys_timer.c, which use those        *)
(* timers, are never in two places or in none.                             *)
EXTENDS TimerService, TimerTasks, FiniteSetTheorems, FunctionTheorems, TLAPS

(* No two slots have one owner.                                            *)
OwnerInv ==
    /\ \A s \in Used :
         slots[s].owner \in Owners /\ slots[s].message \in Messages
    /\ \A s, r \in Used : slots[s].owner = slots[r].owner => s = r

(* What the timer thread has taken is in its slot, as it was taken, until  *)
(* the slot's generation changes; it never changes back.                   *)
DispatchInv ==
    pc = "deliver" =>
        LET s == dispatch.slot
        IN  /\ slots[s].generation >= dispatch.generation
            /\ dispatch.deadline <= now
            /\ slots[s].generation = dispatch.generation =>
                 /\ slots[s].state =
                      IF dispatch.oneShot THEN "firing" ELSE "active"
                 /\ slots[s].message = dispatch.message
                 /\ dispatch.oneShot <=> slots[s].interval = 0
                 /\ IF dispatch.oneShot
                      THEN slots[s].deadline = dispatch.deadline
                      ELSE \E t \in dispatch.deadline..now :
                             slots[s].deadline = After(t, slots[s].interval)

(* The inductive invariant of the timer service.                           *)
IInv == TypeOK /\ OwnerInv /\ DispatchInv

(* A set of numbers has a least one: a slot, a deadline, a task is always  *)
(* found.                                                                  *)
LEMMA HasLeast ==
    ASSUME NEW S, S \subseteq Nat, S # {}
    PROVE  \E s \in S : \A r \in S : s <= r
  <1>1. PICK x \in S : \A y \in S : ~(<<y, x>> \in OpToRel(<, Nat))
    BY NatLessThanWellFounded, WFMin
  <1>2. \A y \in S : ~(y < x)
    BY <1>1 DEF OpToRel
  <1> QED
    BY <1>2

(* The first slot of some slots is one of them.                            *)
LEMMA FirstIsIn == ASSUME NEW S, S \subseteq Slots, S # {} PROVE First(S) \in S
  <1>1. \E s \in S : \A r \in S : s <= r
    BY HasLeast, TimerAssumption, ServiceAssumption DEF Slots
  <1> QED
    BY <1>1 DEF First

(* The slots have types of their own: what the steps use of TypeOK.        *)
Slot == [owner : Owners \union {NONE}, deadline : 0..TimeMax,
         interval : {0} \union Intervals, message : Messages \union {NONE},
         generation : Nat, state : {"free", "active", "firing"}]

(* A deadline that would overflow is the last moment there is.             *)
LEMMA AfterType ==
    ASSUME NEW t \in 0..TimeMax, NEW d \in Nat
    PROVE  After(t, d) \in 0..TimeMax
  BY TimerAssumption, ServiceAssumption DEF After

(* What the timer thread takes is due.                                     *)
LEMMA TakenIsDue == ASSUME TypeOK, Due # {} PROVE Taken \in Due
  <1> DEFINE S == {slots[s].deadline : s \in Due}
             M == {s \in Due :
                     \A r \in Due : slots[s].deadline <= slots[r].deadline}
  <1>1. \A s \in Due : slots[s].deadline \in Nat
    BY TimerAssumption, ServiceAssumption DEF TypeOK, Due, Active
  <1>2. PICK d \in S : \A e \in S : d <= e
    BY <1>1, HasLeast
  <1>3. M # {}
    BY <1>2
  <1>4. First(M) \in M
    BY <1>3, FirstIsIn DEF Due, Active
  <1> QED
    BY <1>4 DEF Taken

(* A table of free slots.                                                  *)
LEMMA Initially == Init => IInv
  <1> SUFFICES ASSUME Init PROVE IInv
    OBVIOUS
  <1> USE TimerAssumption, ServiceAssumption DEF Init
  <1>1. TypeOK
    BY DEF TypeOK, Queue
  <1>2. Used = {}
    BY DEF Used
  <1> QED
    BY <1>1, <1>2 DEF IInv, OwnerInv, DispatchInv

(* What a call leaves in the table.                                        *)
LEMMA Released ==
    ASSUME IInv, NEW o \in Owners
    PROVE  LET table == Release(slots, o)
           IN  /\ table \in [Slots -> Slot]
               /\ \A s \in Slots :
                    IF s \in Used /\ slots[s].owner = o
                      THEN /\ table[s].state = "free"
                           /\ table[s].generation = slots[s].generation + 1
                      ELSE table[s] = slots[s]
  <1> USE DEF IInv, TypeOK
  <1>1. ASSUME NEW s \in Slots, s \in Used, slots[s].owner = o
        PROVE  /\ Release(slots, o)[s] \in Slot
               /\ Release(slots, o)[s].state = "free"
               /\ Release(slots, o)[s].generation = slots[s].generation + 1
    <2>1. slots[s] \in Slot
      BY DEF Slot
    <2>2. Release(slots, o)[s] =
            [slots[s] EXCEPT !.state = "free", !.owner = NONE,
                             !.message = NONE, !.generation = @ + 1]
      BY <1>1 DEF Release, Used
    <2>3. slots[s].generation + 1 \in Nat
      BY <2>1 DEF Slot
    <2>4. Release(slots, o)[s] =
            [owner |-> NONE, deadline |-> slots[s].deadline,
             interval |-> slots[s].interval, message |-> NONE,
             generation |-> slots[s].generation + 1, state |-> "free"]
      BY <2>1, <2>2 DEF Slot
    <2> QED
      BY <2>1, <2>3, <2>4 DEF Slot
  <1>2. ASSUME NEW s \in Slots, ~(s \in Used /\ slots[s].owner = o)
        PROVE  Release(slots, o)[s] \in Slot /\ Release(slots, o)[s] = slots[s]
    BY <1>2 DEF Release, Slot, Used
  <1>3. Release(slots, o) = [s \in Slots |-> Release(slots, o)[s]]
    BY DEF Release
  <1>4. \A s \in Slots : Release(slots, o)[s] \in Slot
    BY <1>1, <1>2
  <1>5. Release(slots, o) \in [Slots -> Slot]
    BY <1>3, <1>4
  <1> QED
    BY <1>1, <1>2, <1>5

(* What a registration leaves in the table: the timer in a slot that was   *)
(* free, under a generation it did not have.                               *)
LEMMA Registered ==
    ASSUME IInv, NEW o \in Owners, NEW d \in 0..TimeMax,
           NEW i \in Intervals, NEW m \in Messages,
           FreeSlots(Release(slots, o)) # {}
    PROVE  LET table == Release(slots, o)
               new   == Register(table, o, d, i, m)
               f     == First(FreeSlots(table))
           IN  /\ new \in [Slots -> Slot] /\ f \in FreeSlots(table)
               /\ new[f] = [owner |-> o, deadline |-> d, interval |-> i,
                            message |-> m, state |-> "active",
                            generation |-> table[f].generation + 1]
               /\ \A s \in Slots \ {f} : new[s] = table[s]
  <1> DEFINE table == Release(slots, o)
             f == First(FreeSlots(table))
  <1>1. table \in [Slots -> Slot]
    BY Released
  <1>2. f \in FreeSlots(table) /\ f \in Slots
    BY FirstIsIn DEF FreeSlots
  <1>3. table[f].generation + 1 \in Nat
    BY <1>1, <1>2 DEF Slot
  <1> QED
    BY <1>1, <1>2, <1>3 DEF Register, Slot

(* osStopTimer changes the generation of the slot it frees.                *)
LEMMA StopKeeps ==
    ASSUME IInv, NEW t \in Threads, NEW o \in Owners, osStopTimer(t, o)
    PROVE  IInv'
  <1> USE TimerAssumption, ServiceAssumption DEF IInv, osStopTimer, Call,
     thread
  <1>1. TypeOK'
    BY Released DEF TypeOK, Slot
  <1>2. OwnerInv'
    BY Released DEF OwnerInv, Used
  <1>3. DispatchInv'
    BY Released DEF DispatchInv, TypeOK, Used
  <1> QED
    BY <1>1, <1>2, <1>3

(* osSetTimer frees the timer's old slot first, so it has one slot after.  *)
LEMMA SetKeeps ==
    ASSUME IInv, NEW t \in Threads, NEW o \in Owners, NEW d \in Delays,
           NEW i \in Intervals, NEW m \in Messages,
           osSetTimer(t, o, d, i, m)
    PROVE  IInv'
  <1> USE TimerAssumption, ServiceAssumption DEF IInv, osSetTimer, Call, thread
  <1> DEFINE table == Release(slots, o)
             f == First(FreeSlots(table))
  <1>1. CASE FreeSlots(table) = {}
    <2>1. slots' = table
      BY <1>1 DEF Register
    <2>2. TypeOK'
      BY <2>1, Released DEF TypeOK, Slot
    <2>3. OwnerInv'
      BY <2>1, Released DEF OwnerInv, Used
    <2>4. DispatchInv'
      BY <2>1, Released DEF DispatchInv, TypeOK, Used
    <2> QED
      BY <2>2, <2>3, <2>4
  <1>2. CASE FreeSlots(table) # {}
    <2>1. After(now, d) \in 0..TimeMax
      BY AfterType DEF TypeOK
    <2>2. /\ slots' \in [Slots -> Slot]
          /\ f \in Slots /\ table[f].state = "free"
          /\ slots'[f] = [owner |-> o, deadline |-> After(now, d),
                          interval |-> i, message |-> m, state |-> "active",
                          generation |-> table[f].generation + 1]
          /\ \A s \in Slots \ {f} : slots'[s] = table[s]
      <3>1. slots' = Register(table, o, After(now, d), i, m)
        OBVIOUS
      <3>2. f \in FreeSlots(table)
        BY <1>2, FirstIsIn DEF FreeSlots
      <3>3. /\ Register(table, o, After(now, d), i, m) \in [Slots -> Slot]
            /\ Register(table, o, After(now, d), i, m)[f] =
                 [owner |-> o, deadline |-> After(now, d), interval |-> i,
                  message |-> m, state |-> "active",
                  generation |-> table[f].generation + 1]
            /\ \A s \in Slots \ {f} :
                 Register(table, o, After(now, d), i, m)[s] = table[s]
        BY <1>2, <2>1, Registered
      <3> QED
        BY <3>1, <3>2, <3>3, Zenon DEF FreeSlots
    <2>3. /\ table \in [Slots -> Slot]
          /\ \A s \in Slots :
                    IF s \in Used /\ slots[s].owner = o
                      THEN /\ table[s].state = "free"
                           /\ table[s].generation = slots[s].generation + 1
                      ELSE table[s] = slots[s]
      BY Released
    <2> HIDE DEF table, f
    <2>4. TypeOK'
      <3>1. calling' \subseteq Threads
        BY DEF TypeOK
      <3> QED
        BY <2>2, <3>1 DEF TypeOK, Slot
    <2>5. OwnerInv'
      BY <2>2, <2>3 DEF OwnerInv, Used
    <2>6. DispatchInv'
      <3>1. pc = "deliver" =>
              dispatch.slot \in Slots /\ dispatch.generation \in Nat
        BY DEF TypeOK
      <3>2. \A s \in Slots :
              table[s].generation \in Nat /\ slots[s].generation \in Nat
        BY <2>3 DEF Slot, TypeOK
      <3> QED
        BY <2>2, <2>3, <3>1, <3>2 DEF DispatchInv
    <2> QED
      BY <2>4, <2>5, <2>6
  <1> QED
    BY <1>1, <1>2

(* The timer thread takes the slot as it is, and marks a one-shot as       *)
(* firing or moves a periodic timer's deadline.                            *)
LEMMA ScanKeeps == ASSUME IInv, Scan PROVE IInv'
  <1> USE TimerAssumption, ServiceAssumption DEF IInv, Scan
  <1>1. CASE Due # {}
    <2> DEFINE s == Taken
    <2>1. /\ s \in Due /\ s \in Slots /\ slots[s].state = "active"
          /\ slots[s].deadline <= now
      BY <1>1, TakenIsDue DEF Due, Active
    <2> HIDE DEF s
    <2>2. /\ dispatch' = [slot |-> s, generation |-> slots[s].generation,
                          oneShot |-> slots[s].interval = 0,
                          message |-> slots[s].message,
                          deadline |-> slots[s].deadline]
          /\ slots' = IF slots[s].interval = 0
                        THEN [slots EXCEPT ![s].state = "firing"]
                        ELSE [slots EXCEPT ![s].deadline =
                                After(now, slots[s].interval)]
          /\ pc' = "deliver"
          /\ UNCHANGED <<now, mailbox, wakeAt, nearest, sTimerWake, calling,
                         calls>>
      BY <1>1 DEF s
    <2>3. slots[s] \in Slot /\ slots[s].message \in Messages
      BY <2>1 DEF TypeOK, Slot, OwnerInv, Used
    <2>4. After(now, slots[s].interval) \in 0..TimeMax
      BY <2>3, AfterType DEF TypeOK, Slot
    <2>5. slots' \in [Slots -> Slot]
      BY <2>1, <2>2, <2>3, <2>4 DEF TypeOK, Slot
    <2>6. TypeOK'
      BY <2>1, <2>2, <2>3, <2>5 DEF TypeOK, Slot
    <2>7. /\ Used' = Used
          /\ \A r \in Slots : /\ slots'[r].owner = slots[r].owner
                             /\ slots'[r].message = slots[r].message
      BY <2>1, <2>2, <2>5 DEF Used, TypeOK
    <2>8. OwnerInv'
      BY <2>7 DEF OwnerInv, Used
    <2>9. DispatchInv'
      <3>0. /\ dispatch'.slot = s /\ dispatch'.generation = slots[s].generation
            /\ dispatch'.oneShot = (slots[s].interval = 0)
            /\ dispatch'.message = slots[s].message
            /\ dispatch'.deadline = slots[s].deadline
            /\ slots[s].generation \in Nat /\ slots[s].deadline \in Nat
            /\ now \in Nat
        BY <2>2, <2>3 DEF Slot, TypeOK
      <3>1. CASE slots[s].interval = 0
        <4>1. slots'[s] = [slots[s] EXCEPT !.state = "firing"]
          BY <2>1, <2>2, <3>1 DEF TypeOK
        <4>2. /\ slots'[s].generation = slots[s].generation
              /\ slots'[s].state = "firing"
              /\ slots'[s].message = slots[s].message
              /\ slots'[s].interval = slots[s].interval
              /\ slots'[s].deadline = slots[s].deadline
          BY <2>3, <4>1 DEF Slot
        <4>3. dispatch'.slot = s /\ now' = now
          BY <2>2
        <4>4. dispatch'.oneShot
          BY <3>0, <3>1, Zenon
        <4>5. slots[s].generation >= slots[s].generation
          BY <3>0
        <4> QED
          BY <2>1, <3>0, <3>1, <4>2, <4>3, <4>4, <4>5, Zenon DEF DispatchInv
      <3>2. CASE slots[s].interval # 0
        <4>1. slots'[s] = [slots[s] EXCEPT
                             !.deadline = After(now, slots[s].interval)]
          BY <2>1, <2>2, <3>2 DEF TypeOK
        <4>2. now \in slots[s].deadline..now'
          BY <2>1, <2>2, <3>0
        <4>3. slots'[s].deadline = After(now, slots'[s].interval)
          BY <2>3, <4>1 DEF Slot
        <4>4. /\ slots'[s].generation = slots[s].generation
              /\ slots'[s].state = "active"
              /\ slots'[s].message = slots[s].message
              /\ slots'[s].interval = slots[s].interval
          BY <2>1, <2>3, <4>1 DEF Slot
        <4>5. \E t \in dispatch'.deadline..now' :
                slots'[s].deadline = After(t, slots'[s].interval)
          BY <3>0, <4>2, <4>3
        <4>6. now' = now
          BY <2>2
        <4> QED
          <5>1. ~dispatch'.oneShot
            BY <3>0, <3>2, Zenon
          <5>2. slots[s].generation >= slots[s].generation
            BY <3>0
          <5> QED
            BY <2>1, <3>0, <3>2, <4>4, <4>5, <4>6, <5>1, <5>2, Zenon DEF
               DispatchInv, After
      <3> QED
        BY <3>1, <3>2
    <2> QED
      BY <2>6, <2>8, <2>9
  <1>2. CASE Due = {}
    <2>1. nearest' \in {NONE} \union (0..TimeMax)
      <3>1. CASE Active = {}
        BY <1>2, <3>1
      <3>2. CASE Active # {}
        <4> DEFINE S == {slots[b].deadline : b \in Active}
                   x == CHOOSE a \in Active : \A b \in Active :
                          slots[a].deadline <= slots[b].deadline
        <4>1. \A b \in Active : slots[b].deadline \in 0..TimeMax
          BY DEF Active, TypeOK
        <4>2. S \subseteq Nat /\ S # {}
          BY <3>2, <4>1
        <4>3. PICK d \in S : \A e \in S : d <= e
          BY <4>2, HasLeast
        <4>4. PICK a \in Active : d = slots[a].deadline
          OBVIOUS
        <4>5. \A b \in Active : slots[a].deadline <= slots[b].deadline
          BY <4>3, <4>4
        <4>6. x \in Active
          BY <4>5
        <4>7. nearest' = slots[x].deadline
          BY <1>2, <3>2
        <4> QED
          BY <4>1, <4>6, <4>7
      <3> QED
        BY <3>1, <3>2
    <2>2. /\ pc = "scan" /\ pc' = "sleep"
          /\ UNCHANGED <<slots, dispatch, now, mailbox, wakeAt, sTimerWake,
                         calling, calls>>
      BY <1>2
    <2> QED
      BY <2>1, <2>2 DEF TypeOK, OwnerInv, DispatchInv, Used
  <1> QED
    BY <1>1, <1>2

(* A delivery frees the slot only if its generation is still the one       *)
(* taken.                                                                  *)
LEMMA DeliverKeeps == ASSUME IInv, Deliver PROVE IInv'
  <1> USE TimerAssumption, ServiceAssumption DEF IInv, Deliver
  <1>1. SendNoBlock(mailbox, MailboxCap, dispatch.message)
          \in Queue(Messages, MailboxCap)
    BY DEF TypeOK, SendNoBlock, HasRoom, Queue
  <1>2. dispatch.slot \in Slots
    BY DEF TypeOK
  <1>3. slots' \in [Slots -> Slot]
    BY <1>2 DEF TypeOK, Slot
  <1>4. TypeOK'
    BY <1>1, <1>3 DEF TypeOK, Slot
  <1>5. \A s \in Used' : s \in Used /\ slots'[s] = slots[s]
    BY <1>2 DEF Used, TypeOK
  <1>6. OwnerInv'
    BY <1>5 DEF OwnerInv
  <1> QED
    BY <1>4, <1>6 DEF DispatchInv

(* Nothing else touches the table; the clock only goes forward.            *)
LEMMA RestKeeps ==
    ASSUME IInv,
           \/ Sleep \/ WakeUp \/ Tick \/ Receive
           \/ \E t \in Threads : SignalWake(t)
    PROVE  IInv'
  <1> USE TimerAssumption, ServiceAssumption DEF IInv, Sleep, WakeUp, Tick,
     Receive, SignalWake, core, thread
  <1>1. CASE Sleep
    <2>1. nearest # NONE => After(now, Timeout) \in 0..TimeMax
      <3>1. nearest # NONE => Timeout \in Nat
        BY DEF Timeout, TypeOK
      <3> QED
        BY <3>1, AfterType DEF TypeOK
    <2> QED
      BY <1>1, <2>1 DEF TypeOK, OwnerInv, DispatchInv, Used
  <1>2. CASE WakeUp \/ \E t \in Threads : SignalWake(t)
    BY <1>2 DEF TypeOK, OwnerInv, DispatchInv, Used
  <1>3. CASE Tick
    <2>1. TypeOK' /\ OwnerInv'
      BY <1>3 DEF TypeOK, OwnerInv, Used
    <2>2. DispatchInv'
      BY <1>3 DEF TypeOK, DispatchInv
    <2> QED
      BY <2>1, <2>2
  <1>4. CASE Receive
    <2>1. mailbox' \in Queue(Messages, MailboxCap)
      BY <1>4 DEF TypeOK, Queue
    <2> QED
      BY <1>4, <2>1 DEF TypeOK, OwnerInv, DispatchInv, Used
  <1> QED
    BY <1>1, <1>2, <1>3, <1>4

(* Each step, of the timer thread or a caller, keeps the table consistent  *)
(* with what the timer thread has taken.                                   *)
LEMMA Inductive == IInv /\ [Next]_vars => IInv'
  <1> SUFFICES ASSUME IInv, [Next]_vars PROVE IInv'
    OBVIOUS
  <1>1. CASE UNCHANGED vars
    BY <1>1 DEF vars, core, thread, IInv, TypeOK, OwnerInv, DispatchInv, Used,
       Slots
  <1>2. CASE Next
    BY <1>2, StopKeeps, SetKeeps, ScanKeeps, DeliverKeeps, RestKeeps DEF Next,
       Scheduler
  <1> QED
    BY <1>1, <1>2

(* A slot whose generation is the one the timer thread took is still the   *)
(* registration it took, whatever calls came between.                      *)
THEOREM TimerInvariance == Spec => []IInv
  BY Initially, Inductive, PTL DEF Spec

-----------------------------------------------------------------------------
(* What the refinement takes for the armed timers.                         *)
Arm == [o \in Owners |-> IF \E s \in Used : slots[s].owner = o
                           THEN Registration(SlotOf(o)) ELSE NONE]

(* A registration is one of the abstract timers.                           *)
LEMMA RegistrationType ==
    ASSUME IInv, NEW s \in Used
    PROVE  /\ Registration(s) \in
                [deadline : Nat, interval : Nat, message : Messages]
           /\ Registration(s) # NONE
  <1>1. slots[s] \in Slot /\ slots[s].message \in Messages
    BY DEF IInv, TypeOK, Slot, OwnerInv, Used
  <1>2. slots[s].deadline \in Nat /\ slots[s].interval \in Nat
    <2>1. /\ slots[s].deadline \in 0..TimeMax
          /\ slots[s].interval \in {0} \union Intervals
      BY <1>1 DEF Slot
    <2> QED
      BY <2>1, TimerAssumption, ServiceAssumption
  <1>3. pc = "deliver" => dispatch.deadline \in Nat
    BY TimerAssumption, ServiceAssumption DEF IInv, TypeOK
  <1>4. Registration(s) \in
          [deadline : Nat, interval : Nat, message : Messages]
    BY <1>1, <1>2, <1>3 DEF Registration
  <1> QED
    BY <1>4, TimerAssumption, ServiceAssumption

(* Each timer in the table is armed as its slot says, and no other is      *)
(* armed.                                                                  *)
ArmOfSlots ==
    /\ Arm = [o \in Owners |-> Arm[o]]
    /\ \A s \in Used : Arm[slots[s].owner] = Registration(s)
    /\ \A o \in Owners : (\A s \in Used : slots[s].owner # o) => Arm[o] = NONE

(* The table determines the armed timers, before a step and after it.      *)
LEMMA ArmIs == IInv => ArmOfSlots
  <1> SUFFICES ASSUME IInv PROVE ArmOfSlots
    OBVIOUS
  <1>1. ASSUME NEW s \in Used PROVE Arm[slots[s].owner] = Registration(s)
    <2>1. SlotOf(slots[s].owner) = s
      BY DEF SlotOf, IInv, OwnerInv
    <2>2. slots[s].owner \in Owners
      BY DEF IInv, OwnerInv
    <2> QED
      BY <2>1, <2>2 DEF Arm
  <1>2. ASSUME NEW o \in Owners, \A s \in Used : slots[s].owner # o
        PROVE  Arm[o] = NONE
    BY <1>2 DEF Arm
  <1>3. Arm = [o \in Owners |-> Arm[o]]
    BY DEF Arm
  <1> QED
    BY <1>1, <1>2, <1>3 DEF ArmOfSlots

(* The same of the state after a step.                                     *)
LEMMA ArmIsNext == IInv' => ArmOfSlots'
  BY ArmIs, PTL

(* A call frees the slot of its timer only, so it is refused exactly when  *)
(* the other timers fill the table.                                        *)
LEMMA Room ==
    ASSUME IInv, NEW o \in Owners
    PROVE  LET others == Cardinality({p \in Owners : Arm[p] # NONE} \ {o})
           IN  IF FreeSlots(Release(slots, o)) = {} THEN others >= NSlots
                                                   ELSE others < NSlots
  <1> DEFINE U == {s \in Used : slots[s].owner # o}
             V == {p \in Owners : Arm[p] # NONE} \ {o}
             g == [s \in U |-> slots[s].owner]
  <1>1. IsFiniteSet(Slots) /\ Cardinality(Slots) = NSlots
    <2>1. NSlots \in Int /\ ~(1 > NSlots) /\ NSlots - 1 + 1 = NSlots
      BY TimerAssumption, ServiceAssumption
    <2> QED
      BY <2>1, FS_Interval DEF Slots
  <1>2. U \in SUBSET Slots
    BY DEF Used
  <1>3. /\ IsFiniteSet(U) /\ Cardinality(U) <= NSlots
        /\ Cardinality(Slots) = Cardinality(U) => Slots = U
    BY <1>1, <1>2, FS_Subset
  <1>4. V = {slots[s].owner : s \in U}
    <2>1. ASSUME NEW p \in V PROVE \E s \in U : slots[s].owner = p
      BY ArmIs DEF ArmOfSlots
    <2>2. ASSUME NEW s \in U PROVE slots[s].owner \in V
      BY ArmIs, RegistrationType DEF ArmOfSlots, IInv, OwnerInv
    <2> QED
      BY <2>1, <2>2
  <1>5. g \in Bijection(U, V)
    <2>1. \A s, r \in U : g[s] = g[r] => s = r
      BY DEF IInv, OwnerInv
    <2>2. g \in [U -> V]
      BY <1>4
    <2>3. \A p \in V : \E s \in U : g[s] = p
      BY <1>4
    <2> QED
      BY <2>1, <2>2, <2>3 DEF Bijection, Injection, Surjection, IsInjective
  <1>6. ExistsBijection(U, V)
    BY <1>5 DEF ExistsBijection
  <1>7. Cardinality(V) = Cardinality(U)
    BY <1>3, <1>6, FS_Bijection
  <1>8. Cardinality(U) \in Nat
    BY <1>3, FS_CardinalityType
  <1>9. FreeSlots(Release(slots, o)) = Slots \ U
    BY Released DEF FreeSlots, Used
  <1>10. IF U = Slots THEN Cardinality(U) >= NSlots
                      ELSE Cardinality(U) < NSlots
    <2> HIDE DEF U
    <2>1. U = Slots <=> Cardinality(U) = NSlots
      BY <1>1, <1>3
    <2> QED
      BY <1>3, <1>8, <2>1, TimerAssumption, ServiceAssumption
  <1>11. Slots \ U = {} <=> U = Slots
    BY <1>2
  <1> QED
    BY <1>7, <1>9, <1>10, <1>11

(* When only the slot of one timer is freed, only that timer is dropped.   *)
LEMMA Dropped ==
    ASSUME IInv, IInv', NEW o \in Owners,
           \A s \in Used' :
             s \in Used /\ slots[s].owner # o /\ slots'[s] = slots[s],
           \A s \in Used : slots[s].owner # o => s \in Used',
           \A s \in Used' : Registration(s)' = Registration(s)
    PROVE  Arm' = [Arm EXCEPT ![o] = NONE]
  <1>1. ASSUME NEW p \in Owners PROVE Arm'[p] = [Arm EXCEPT ![o] = NONE][p]
    <2>1. CASE p = o
      BY <2>1, ArmIs, ArmIsNext DEF ArmOfSlots
    <2>2. CASE p # o
      <3>1. CASE \E s \in Used : slots[s].owner = p
        BY <2>2, <3>1, ArmIs, ArmIsNext DEF ArmOfSlots
      <3>2. CASE \A s \in Used : slots[s].owner # p
        BY <2>2, <3>2, ArmIs, ArmIsNext DEF ArmOfSlots
      <3> QED
        BY <3>1, <3>2
    <2> QED
      BY <2>1, <2>2
  <1> QED
    BY <1>1, ArmIs, ArmIsNext DEF ArmOfSlots

(* osStopTimer stops.                                                      *)
LEMMA StopRefines ==
    ASSUME IInv, IInv', NEW t \in Threads, NEW o \in Owners, osStopTimer(t, o)
    PROVE  Arm' = [Arm EXCEPT ![o] = NONE] /\ UNCHANGED <<now, mailbox>>
  <1>1. /\ slots' = Release(slots, o)
        /\ UNCHANGED <<now, mailbox, pc, dispatch>>
    BY DEF osStopTimer, Call, thread
  <1>2. \A s \in Used' :
          s \in Used /\ slots[s].owner # o /\ slots'[s] = slots[s]
    BY <1>1, Released DEF Used
  <1>3. \A s \in Used : slots[s].owner # o => s \in Used'
    BY <1>1, Released DEF Used
  <1>4. \A s \in Used' : Registration(s)' = Registration(s)
    BY <1>1, <1>2 DEF Registration, DispatchValid
  <1> QED
    BY <1>1, <1>2, <1>3, <1>4, Dropped

(* osSetTimer sets the timer, or is refused and stops it.                  *)
LEMMA SetRefines ==
    ASSUME IInv, IInv', NEW t \in Threads, NEW o \in Owners,
           NEW d \in Delays, NEW i \in Intervals, NEW m \in Messages,
           osSetTimer(t, o, d, i, m)
    PROVE  /\ UNCHANGED <<now, mailbox>>
           /\ IF FreeSlots(Release(slots, o)) = {}
                THEN Arm' = [Arm EXCEPT ![o] = NONE]
                ELSE Arm' = [Arm EXCEPT ![o] =
                               [deadline |-> After(now, d), interval |-> i,
                                message |-> m]]
  <1> DEFINE table == Release(slots, o)
             e == After(now, d)
             new == [deadline |-> e, interval |-> i, message |-> m]
  <1>1. /\ slots' = Register(table, o, e, i, m)
        /\ UNCHANGED <<now, mailbox, pc, dispatch>>
    BY DEF osSetTimer, Call, thread
  <1>2. /\ table \in [Slots -> Slot]
        /\ \A s \in Slots : IF s \in Used /\ slots[s].owner = o
                              THEN /\ table[s].state = "free"
                                   /\ table[s].generation =
                                        slots[s].generation + 1
                              ELSE table[s] = slots[s]
    BY Released
  <1>3. CASE FreeSlots(table) = {}
    <2>1. slots' = table
      BY <1>1, <1>3 DEF Register
    <2>2. \A s \in Used' :
            s \in Used /\ slots[s].owner # o /\ slots'[s] = slots[s]
      BY <1>2, <2>1 DEF Used
    <2>3. \A s \in Used : slots[s].owner # o => s \in Used'
      BY <1>2, <2>1 DEF Used
    <2>4. \A s \in Used' : Registration(s)' = Registration(s)
      BY <1>1, <2>2 DEF Registration, DispatchValid
    <2>5. Arm' = [Arm EXCEPT ![o] = NONE]
      BY <2>2, <2>3, <2>4, Dropped
    <2> QED
      BY <1>1, <1>3, <2>5
  <1>4. CASE FreeSlots(table) # {}
    <2>1. e \in 0..TimeMax
      BY AfterType, TimerAssumption, ServiceAssumption DEF IInv, TypeOK
    <2>2. PICK f \in Slots :
            /\ table[f].state = "free"
            /\ slots'[f] = [owner |-> o, deadline |-> e, interval |-> i,
                            message |-> m, state |-> "active",
                            generation |-> table[f].generation + 1]
            /\ \A s \in Slots \ {f} : slots'[s] = table[s]
      <3> DEFINE f == First(FreeSlots(table))
      <3>1. f \in FreeSlots(table)
        BY <1>4, FirstIsIn DEF FreeSlots
      <3>2. /\ Register(table, o, e, i, m)[f] =
                 [owner |-> o, deadline |-> e, interval |-> i, message |-> m,
                  generation |-> table[f].generation + 1, state |-> "active"]
            /\ \A s \in Slots \ {f} : Register(table, o, e, i, m)[s] = table[s]
        BY <1>4, <2>1, Registered
      <3> QED
        BY <1>1, <3>1, <3>2, Zenon DEF FreeSlots
    <2> HIDE DEF table, e
    <2>3. \A s \in Used' \ {f} :
            s \in Used /\ slots[s].owner # o /\ slots'[s] = slots[s]
      BY <1>2, <2>2 DEF Used
    <2>4. \A s \in Used : slots[s].owner # o => s \in Used' \ {f}
      BY <1>2, <2>2 DEF Used
    <2>5. \A s \in Used' \ {f} : Registration(s)' = Registration(s)
      BY <1>1, <2>3 DEF Registration, DispatchValid
    <2>6. Registration(f)' = new
      <3>1. pc = "deliver" /\ dispatch.slot = f =>
              slots'[f].generation # dispatch.generation
        <4>1. table[f].generation >= slots[f].generation
          BY <1>2, <2>2 DEF IInv, TypeOK
        <4>2. slots[f].generation \in Nat /\ table[f].generation \in Nat
          BY <1>2, <2>2 DEF IInv, TypeOK, Slot
        <4>3. slots'[f].generation = table[f].generation + 1
          BY <2>2
        <4>4. pc = "deliver" => dispatch.generation \in Nat
          BY DEF IInv, TypeOK
        <4>5. pc = "deliver" /\ dispatch.slot = f =>
                slots[f].generation >= dispatch.generation
          BY DEF IInv, DispatchInv
        <4> QED
          BY <4>1, <4>2, <4>3, <4>4, <4>5
      <3>2. /\ slots'[f].deadline = e /\ slots'[f].interval = i
            /\ slots'[f].message = m
        BY <2>2
      <3> QED
        BY <1>1, <3>1, <3>2 DEF Registration, DispatchValid
    <2>7. f \in Used' /\ slots'[f].owner = o
      BY <2>2 DEF Used
    <2>8. ASSUME NEW p \in Owners PROVE Arm'[p] = [Arm EXCEPT ![o] = new][p]
      <3>1. CASE p = o
        <4>1. Arm'[o] = new
          BY <2>6, <2>7, ArmIsNext DEF ArmOfSlots
        <4> QED
          BY <3>1, <4>1, ArmIs DEF ArmOfSlots
      <3>2. CASE p # o
        <4>1. CASE \E s \in Used : slots[s].owner = p
          BY <2>3, <2>4, <2>5, <3>2, <4>1, ArmIs, ArmIsNext DEF ArmOfSlots
        <4>2. CASE \A s \in Used : slots[s].owner # p
          BY <2>3, <2>7, <3>2, <4>2, ArmIs, ArmIsNext DEF ArmOfSlots
        <4> QED
          BY <4>1, <4>2
      <3> QED
        BY <3>1, <3>2
    <2>9. Arm' = [Arm EXCEPT ![o] = new]
      BY <2>8, ArmIs, ArmIsNext DEF ArmOfSlots
    <2> QED
      BY <1>1, <1>4, <2>9 DEF e, table
  <1> QED
    BY <1>3, <1>4

(* A step that leaves every registration alone leaves the armed timers     *)
(* alone.                                                                  *)
LEMMA Same ==
    ASSUME IInv, IInv', Used' = Used,
           \A s \in Used : slots'[s].owner = slots[s].owner,
           \A s \in Used : Registration(s)' = Registration(s)
    PROVE  Arm' = Arm
  <1>1. ASSUME NEW p \in Owners PROVE Arm'[p] = Arm[p]
    <2>1. CASE \E s \in Used : slots[s].owner = p
      BY <2>1, ArmIs, ArmIsNext DEF ArmOfSlots
    <2>2. CASE \A s \in Used : slots[s].owner # p
      BY <2>2, ArmIs, ArmIsNext DEF ArmOfSlots
    <2> QED
      BY <2>1, <2>2
  <1> QED
    BY <1>1, ArmIs, ArmIsNext DEF ArmOfSlots

(* Taking a timer that is due does not show.                               *)
LEMMA ScanRefines ==
    ASSUME IInv, IInv', Scan
    PROVE  UNCHANGED <<now, Arm, mailbox>>
  <1>0. UNCHANGED <<now, mailbox>> /\ pc = "scan"
    BY DEF Scan
  <1>1. CASE Due # {}
    <2>1. PICK s \in Slots :
            /\ slots[s].state = "active"
            /\ dispatch' = [slot |-> s, generation |-> slots[s].generation,
                            oneShot |-> slots[s].interval = 0,
                            message |-> slots[s].message,
                            deadline |-> slots[s].deadline]
            /\ slots' = IF slots[s].interval = 0
                          THEN [slots EXCEPT ![s].state = "firing"]
                          ELSE [slots EXCEPT ![s].deadline =
                                  After(now, slots[s].interval)]
            /\ pc' = "deliver"
      <3>1. Taken \in Slots /\ slots[Taken].state = "active"
        BY <1>1, TakenIsDue DEF Due, Active, IInv
      <3> QED
        BY <1>1, <3>1 DEF Scan
    <2>2. slots \in [Slots -> Slot] /\ slots[s] \in Slot
      BY <2>1 DEF IInv, TypeOK, Slot
    <2>3. \A r \in Slots \ {s} : slots'[r] = slots[r]
      BY <2>1, <2>2
    <2>4. /\ slots'[s].owner = slots[s].owner
          /\ slots'[s].interval = slots[s].interval
          /\ slots'[s].message = slots[s].message
          /\ slots'[s].generation = slots[s].generation
          /\ slots'[s].state =
               IF slots[s].interval = 0 THEN "firing" ELSE "active"
      <3>1. CASE slots[s].interval = 0
        <4>1. slots'[s] = [slots[s] EXCEPT !.state = "firing"]
          BY <2>1, <2>2, <3>1
        <4> QED
          BY <2>2, <3>1, <4>1 DEF Slot
      <3>2. CASE slots[s].interval # 0
        <4>1. slots'[s] = [slots[s] EXCEPT
                             !.deadline = After(now, slots[s].interval)]
          BY <2>1, <2>2, <3>2
        <4> QED
          BY <2>1, <2>2, <3>2, <4>1 DEF Slot
      <3> QED
        BY <3>1, <3>2
    <2>5. Used' = Used
      BY <2>1, <2>3, <2>4 DEF Used
    <2>6. \A r \in Used : slots'[r].owner = slots[r].owner
      BY <2>3, <2>4 DEF Used
    <2>7. ASSUME NEW r \in Used PROVE Registration(r)' = Registration(r)
      <3>1. dispatch'.slot = s /\ dispatch'.generation = slots[s].generation
            /\ dispatch'.deadline = slots[s].deadline
        BY <2>1
      <3>2. dispatch'.oneShot = (slots[s].interval = 0)
        BY <2>1, Zenon
      <3>3. CASE r = s
        <4>1. DispatchValid'
          BY <2>4, <3>1, <3>2, Zenon DEF DispatchValid
        <4> QED
          BY <1>0, <2>1, <2>4, <3>1, <3>3, <4>1 DEF Registration
      <3>4. CASE r # s
        BY <1>0, <2>3, <3>1, <3>4 DEF Registration, Used
      <3> QED
        BY <3>3, <3>4
    <2> QED
      BY <1>0, <2>5, <2>6, <2>7, Same
  <1>2. CASE Due = {}
    <2>1. pc' = "sleep" /\ UNCHANGED slots
      BY <1>2 DEF Scan
    <2>2. Used' = Used /\ \A s \in Used : slots'[s].owner = slots[s].owner
      BY <2>1 DEF Used
    <2>3. \A s \in Used : Registration(s)' = Registration(s)
      BY <1>0, <2>1 DEF Registration
    <2> QED
      BY <1>0, <2>2, <2>3, Same
  <1> QED
    BY <1>1, <1>2

(* Delivering a timer that is still what was taken fires it; what is no    *)
(* longer so is dropped.                                                   *)
LEMMA DeliverRefines ==
    ASSUME IInv, IInv', Deliver
    PROVE  \/ UNCHANGED <<now, Arm, mailbox>>
           \/ \E o \in Owners :
                /\ Arm[o] # NONE /\ Arm[o].deadline <= now
                /\ IF Arm[o].interval = 0
                     THEN Arm' = [Arm EXCEPT ![o] = NONE]
                     ELSE \E t \in Arm[o].deadline..now :
                            Arm' = [Arm EXCEPT ![o].deadline =
                                      After(t, Arm[o].interval)]
                /\ mailbox' = SendNoBlock(mailbox, MailboxCap, Arm[o].message)
                /\ UNCHANGED now
  <1> DEFINE k == dispatch.slot
  <1>1. pc = "deliver" /\ pc' = "scan" /\ UNCHANGED now
    BY DEF Deliver
  <1>2. k \in Slots /\ slots \in [Slots -> Slot] /\ slots[k] \in Slot
    BY <1>1 DEF IInv, TypeOK, Slot
  <1>3. CASE ~DispatchValid
    <2>1. UNCHANGED <<mailbox, slots>>
      BY <1>3 DEF Deliver
    <2>2. Used' = Used /\ \A s \in Used : slots'[s].owner = slots[s].owner
      BY <2>1 DEF Used
    <2>3. \A s \in Used : Registration(s)' = Registration(s)
      BY <1>1, <1>3, <2>1 DEF Registration
    <2> QED
      BY <1>1, <2>1, <2>2, <2>3, Same
  <1>4. CASE DispatchValid
    <2>1. /\ mailbox' = SendNoBlock(mailbox, MailboxCap, dispatch.message)
          /\ slots' = IF dispatch.oneShot
                        THEN [slots EXCEPT ![k].state = "free",
                                           ![k].owner = NONE,
                                           ![k].message = NONE]
                        ELSE slots
      BY <1>4 DEF Deliver
    <2>2. /\ slots[k].message = dispatch.message /\ dispatch.deadline <= now
          /\ slots[k].state = IF dispatch.oneShot THEN "firing" ELSE "active"
          /\ dispatch.oneShot <=> slots[k].interval = 0
          /\ ~dispatch.oneShot =>
               \E t \in dispatch.deadline..now :
                 slots[k].deadline = After(t, slots[k].interval)
      BY <1>1, <1>4, Zenon DEF IInv, DispatchInv, DispatchValid
    <2>3. k \in Used
      BY <1>2, <2>2 DEF Used
    <2>4. PICK o \in Owners : slots[k].owner = o
      BY <2>3 DEF IInv, OwnerInv
    <2>5. Arm[o] = [deadline |-> dispatch.deadline,
                    interval |-> slots[k].interval,
                    message |-> slots[k].message]
      <3>1. Arm[o] = Registration(k)
        BY <2>3, <2>4, ArmIs DEF ArmOfSlots
      <3> QED
        BY <1>1, <1>4, <3>1 DEF Registration
    <2>6. Arm[o] # NONE
      <3>1. Arm[o] = Registration(k)
        BY <2>3, <2>4, ArmIs DEF ArmOfSlots
      <3> QED
        BY <2>3, <3>1, RegistrationType
    <2>10. /\ Arm[o].deadline = dispatch.deadline /\ Arm[o].deadline <= now
           /\ Arm[o].interval = slots[k].interval
           /\ mailbox' = SendNoBlock(mailbox, MailboxCap, Arm[o].message)
      BY <2>1, <2>2, <2>5
    <2>7. \A s \in Used : s # k => slots[s].owner # o
      BY <2>3, <2>4 DEF IInv, OwnerInv
    <2>8. CASE dispatch.oneShot
      <3>1. slots[k].interval = 0
        BY <2>2, <2>8, Zenon
      <3>2. slots' = [slots EXCEPT ![k].state = "free", ![k].owner = NONE,
                                   ![k].message = NONE]
        BY <2>1, <2>8
      <3>3. /\ slots'[k].state = "free"
            /\ \A s \in Slots \ {k} : slots'[s] = slots[s]
        BY <1>2, <3>2 DEF Slot
      <3>4. \A s \in Used' :
              s \in Used /\ slots[s].owner # o /\ slots'[s] = slots[s]
        BY <2>7, <3>3 DEF Used
      <3>5. \A s \in Used : slots[s].owner # o => s \in Used'
        BY <2>4, <3>3 DEF Used
      <3>6. \A s \in Used' : Registration(s)' = Registration(s)
        BY <1>1, <2>4, <3>4 DEF Registration
      <3>7. Arm' = [Arm EXCEPT ![o] = NONE]
        BY <3>4, <3>5, <3>6, Dropped
      <3> QED
        BY <1>1, <2>6, <2>10, <3>1, <3>7, Zenon
    <2>9. CASE ~dispatch.oneShot
      <3>1. slots[k].interval # 0
        BY <2>2, <2>9, Zenon
      <3>2. PICK t \in dispatch.deadline..now :
              slots[k].deadline = After(t, slots[k].interval)
        BY <2>2, <2>9
      <3>3. slots' = slots
        BY <2>1, <2>9
      <3>4. Used' = Used
        BY <3>3 DEF Used
      <3>5. ASSUME NEW s \in Used, s # k
            PROVE  Registration(s)' = Registration(s)
        BY <1>1, <3>3, <3>5 DEF Registration
      <3>6. ASSUME NEW s \in Used, s = k
            PROVE  Registration(s)' =
                     [deadline |-> After(t, slots[k].interval),
                      interval |-> slots[k].interval,
                      message |-> slots[k].message]
        BY <1>1, <3>2, <3>3, <3>6 DEF Registration
      <3>7. ASSUME NEW p \in Owners
            PROVE  Arm'[p] = [Arm EXCEPT ![o].deadline =
                                After(t, slots[k].interval)][p]
        <4>1. CASE p = o
          <5>1. Arm'[p] = [deadline |-> After(t, slots[k].interval),
                           interval |-> slots[k].interval,
                           message |-> slots[k].message]
            BY <2>3, <2>4, <3>3, <3>4, <3>6, <4>1, ArmIsNext DEF ArmOfSlots
          <5> QED
            BY <2>5, <4>1, <5>1, ArmIs DEF ArmOfSlots
        <4>2. CASE p # o
          <5>1. Arm'[p] = Arm[p]
            <6>1. CASE \E s \in Used : slots[s].owner = p
              BY <2>4, <3>3, <3>4, <3>5, <4>2, <6>1, ArmIs, ArmIsNext DEF
                 ArmOfSlots
            <6>2. CASE \A s \in Used : slots[s].owner # p
              BY <3>3, <3>4, <6>2, ArmIs, ArmIsNext DEF ArmOfSlots
            <6> QED
              BY <6>1, <6>2
          <5> QED
            BY <4>2, <5>1, ArmIs DEF ArmOfSlots
        <4> QED
          BY <4>1, <4>2
      <3>8. Arm' = [Arm EXCEPT ![o].deadline = After(t, Arm[o].interval)]
        <4>1. Arm' = [Arm EXCEPT ![o].deadline = After(t, slots[k].interval)]
          BY <3>7, ArmIs, ArmIsNext DEF ArmOfSlots
        <4> QED
          BY <2>5, <4>1
      <3> QED
        <4>1. t \in Arm[o].deadline..now /\ Arm[o].interval # 0
          BY <2>10, <3>1, <3>2
        <4> QED
          BY <1>1, <2>6, <2>10, <3>8, <4>1, Zenon
    <2> QED
      BY <2>8, <2>9
  <1> QED
    BY <1>3, <1>4

(* Sleeping, waking up, the clock and the consumer leave the armed timers  *)
(* alone.                                                                  *)
LEMMA RestRefines ==
    ASSUME IInv, IInv',
           \/ Sleep \/ WakeUp \/ Tick \/ Receive
           \/ \E t \in Threads : SignalWake(t)
           \/ UNCHANGED vars
    PROVE  UNCHANGED Arm
  <1>1. /\ UNCHANGED <<slots, dispatch>>
        /\ pc' = "deliver" <=> pc = "deliver"
    BY DEF Sleep, WakeUp, Tick, Receive, SignalWake, core, thread, vars
  <1>2. Used' = Used /\ \A s \in Used : slots'[s].owner = slots[s].owner
    BY <1>1 DEF Used
  <1>3. \A s \in Used : Registration(s)' = Registration(s)
    BY <1>1 DEF Registration, DispatchValid
  <1> QED
    BY <1>2, <1>3, Same

(* The instance has a copy of the standard operator.                       *)
LEMMA SameCardinality ==
    ASSUME NEW S PROVE Abstract!Cardinality(S) = Cardinality(S)
  BY Zenon DEF Abstract!Cardinality, Cardinality

(* Each step of the service is one step of the timers it promises, or      *)
(* none.                                                                   *)
LEMMA Refines ==
    IInv /\ IInv' /\ [Next]_vars => [Abstract!Next]_<<now, Arm, mailbox>>
  <1> SUFFICES ASSUME IInv, IInv', [Next]_vars
               PROVE  [Abstract!Next]_<<now, Arm, mailbox>>
    OBVIOUS
  <1>1. ASSUME NEW t \in Threads, NEW o \in Owners, osStopTimer(t, o)
        PROVE  Abstract!Stop(o)
    BY <1>1, StopRefines DEF Abstract!Stop, Arm
  <1>2. ASSUME NEW t \in Threads, NEW o \in Owners, NEW d \in Delays,
               NEW i \in Intervals, NEW m \in Messages,
               osSetTimer(t, o, d, i, m)
        PROVE  Abstract!Set(o, d, i, m) \/ Abstract!Refuse(o)
    <2>1. CASE FreeSlots(Release(slots, o)) = {}
      <3>1. Abstract!Cardinality(Abstract!InUse \ {o}) >= NSlots
        BY <2>1, Room, SameCardinality DEF Abstract!InUse, Arm
      <3>2. UNCHANGED <<now, mailbox>> /\ Arm' = [Arm EXCEPT ![o] = NONE]
        BY <1>2, <2>1, SetRefines
      <3> QED
        BY <3>1, <3>2 DEF Abstract!Refuse, Arm
    <2>2. CASE FreeSlots(Release(slots, o)) # {}
      <3>1. Abstract!Cardinality(Abstract!InUse \ {o}) < NSlots
        BY <2>2, Room, SameCardinality DEF Abstract!InUse, Arm
      <3>2. /\ UNCHANGED <<now, mailbox>>
            /\ Arm' = [Arm EXCEPT ![o] =
                         [deadline |-> After(now, d), interval |-> i,
                          message |-> m]]
        BY <1>2, <2>2, SetRefines
      <3> QED
        BY <3>1, <3>2, Zenon DEF Abstract!Set, Abstract!After, After, Arm
    <2> QED
      BY <2>1, <2>2
  <1>3. ASSUME Deliver
        PROVE  \/ (\E o \in Owners : Abstract!Fire(o))
               \/ UNCHANGED <<now, Arm, mailbox>>
    BY <1>3, DeliverRefines DEF Abstract!Fire, Abstract!InUse, Abstract!After,
       After, Abstract!SendNoBlock, SendNoBlock, Abstract!HasRoom, HasRoom, Arm
  <1>4. ASSUME Tick PROVE Abstract!Tick
    BY <1>4, RestRefines DEF Tick, Abstract!Tick, Arm
  <1>5. ASSUME Receive PROVE Abstract!Receive
    BY <1>5, RestRefines DEF Receive, Abstract!Receive, Arm
  <1>6. CASE Scan
    BY <1>6, ScanRefines
  <1>7. CASE \/ Sleep \/ WakeUp \/ (\E t \in Threads : SignalWake(t))
             \/ UNCHANGED vars
    BY <1>7, RestRefines DEF Sleep, WakeUp, SignalWake, core, thread, vars
  <1> QED
    BY <1>1, <1>2, <1>3, <1>4, <1>5, <1>6, <1>7 DEF Next, Scheduler,
       Abstract!Next

(* The table of slots, its generations and the two halves of a firing,     *)
(* with the mutex released in between, do what Timers.tla promises: a      *)
(* stopped or replaced timer never fires, and one that is due fires once.  *)
THEOREM TimersImplemented == Spec => ImplementsTimers
  <1>1. Init => Abstract!Init
    <2>1. Init => Used = {}
      BY DEF Init, Used
    <2> QED
      BY <2>1 DEF Init, Abstract!Init
  <1> QED
    BY <1>1, Refines, TimerInvariance, PTL DEF Spec, Abstract!Spec,
       ImplementsTimers, Arm

(* Every variable stays in its range: no slot holds a deadline past the    *)
(* last moment and the mailbox never exceeds its capacity.                 *)
THEOREM TimerTypes == Spec => []TypeOK
  <1>1. IInv => TypeOK
    BY DEF IInv
  <1> QED
    BY <1>1, TimerInvariance, PTL

-----------------------------------------------------------------------------
(* What a delayed action's timer, the queue and the timer task's hands     *)
(* hold.                                                                   *)
TaskTypes ==
    /\ armed \in [Tasks -> [deadline : Nat, interval : {0}, message : Tasks]
                             \union {NONE}]
    /\ \A k \in Tasks : armed[k] # NONE => armed[k].message = k
    /\ mailbox \in Seq(Tasks) /\ Len(mailbox) <= MailboxCap
    /\ completing \in Tasks \union {NONE} /\ active \subseteq Tasks
    /\ now \in 0..TimeMax

(* The task waits in the queue.                                            *)
InMailbox(k) == \E i \in 1..Len(mailbox) : mailbox[i] = k

(* A task in use is armed, queued or being completed, and only one of      *)
(* these, once.                                                            *)
TaskPlaces ==
    /\ \A k \in Tasks :
         k \in active <=> armed[k] # NONE \/ InMailbox(k) \/ completing = k
    /\ \A k \in Tasks : ~(armed[k] # NONE /\ InMailbox(k))
    /\ \A k \in Tasks : completing = k => armed[k] = NONE /\ ~InMailbox(k)
    /\ \A i, j \in 1..Len(mailbox) : mailbox[i] = mailbox[j] => i = j

(* The inductive invariant of the delayed actions.                         *)
TaskInv == TaskTypes /\ TaskPlaces

(* The tasks are the numbers of sTimerTasks' entries.                      *)
LEMMA TasksAre ==
    ASSUME TasksFit
    PROVE  /\ IsFiniteSet(Tasks) /\ Cardinality(Tasks) \in Nat
           /\ Tasks = 1..Cardinality(Tasks) /\ Cardinality(Tasks) <= MailboxCap
           /\ NONE \notin Tasks
  <1>1. IsFiniteSet(Tasks)
    BY DEF TasksFit
  <1> QED
    BY <1>1, FS_CardinalityType, TimerAssumption DEF TasksFit

(* A timer that fires finds room: the tasks in the queue are distinct, and *)
(* its own is not among them.                                              *)
LEMMA RoomForTask ==
    ASSUME TasksFit, TaskInv, NEW k \in Tasks, armed[k] # NONE
    PROVE  Len(mailbox) < MailboxCap
  <1> DEFINE T == Tasks \ {k}
             D == 1..Len(mailbox)
  <1>1. Len(mailbox) \in Nat /\ \A i \in D : mailbox[i] \in T
    BY DEF TaskInv, TaskTypes, TaskPlaces, InMailbox
  <1>2. mailbox \in [D -> T]
    BY <1>1 DEF TaskInv, TaskTypes
  <1>3. mailbox \in Injection(D, T)
    BY <1>2 DEF TaskInv, TaskPlaces, Injection, IsInjective
  <1>4. IsFiniteSet(T) /\ Cardinality(T) = Cardinality(Tasks) - 1
    BY TasksAre, FS_RemoveElement
  <1>5. Cardinality(D) <= Cardinality(T)
    BY <1>3, <1>4, FS_Injection
  <1>6. Cardinality(D) = Len(mailbox)
    <2> DEFINE n == Len(mailbox)
    <2>1. 1 \in Int /\ n \in Int /\ (IF 1 > n THEN 0 ELSE n - 1 + 1) = n
      BY <1>1
    <2> HIDE DEF n
    <2>2. Cardinality(1..n) = n
      BY <2>1, FS_Interval
    <2> QED
      BY <2>2 DEF n
  <1> QED
    BY <1>1, <1>4, <1>5, <1>6, TasksAre, TimerAssumption

(* No task is in use.                                                      *)
LEMMA TaskInitially == TasksFit /\ TaskInit => TaskInv
  <1> SUFFICES ASSUME TasksFit, TaskInit PROVE TaskInv
    OBVIOUS
  <1>1. /\ now = 0 /\ armed = [o \in Tasks |-> NONE] /\ mailbox = << >>
        /\ active = {} /\ completing = NONE
    BY DEF TaskInit, Timer!Init, TasksFit
  <1> QED
    BY <1>1, TasksAre, TimerAssumption DEF TaskInv, TaskTypes, TaskPlaces,
       InMailbox

(* Timer_CreateTask takes an entry no other task is in, and starts its     *)
(* timer or loses it.                                                      *)
LEMMA CreateKeeps ==
    ASSUME TasksFit, TaskInv, CreateTask PROVE TaskInv'
  <1> DEFINE k == Allocated
  <1>1. k \in Tasks \ active
    <2>1. Tasks \ active # {} /\ Tasks \ active \subseteq Nat
      <3>1. active \subseteq Tasks /\ active # Tasks
        BY DEF CreateTask, TaskInv, TaskTypes
      <3>2. 1..Cardinality(Tasks) \subseteq Nat
        BY TasksAre
      <3>3. Tasks \subseteq Nat
        BY <3>2, TasksAre, Zenon
      <3> QED
        BY <3>1, <3>3
    <2>2. \E a \in Tasks \ active : \A b \in Tasks \ active : a <= b
      BY <2>1, HasLeast
    <2> QED
      BY <2>2 DEF Allocated
  <1>2. armed[k] = NONE /\ ~InMailbox(k) /\ completing # k
    BY <1>1 DEF TaskInv, TaskPlaces
  <1> HIDE DEF k
  <1>3. CASE \E d \in Delays : /\ Timer!Set(k, d, 0, k)
                             /\ active' = active \union {k}
                             /\ completing' = completing
    <2>1. PICK d \in Delays :
            /\ armed' = [armed EXCEPT ![k] =
                           [deadline |-> Timer!After(now, d),
                            interval |-> 0, message |-> k]]
            /\ UNCHANGED <<now, mailbox, completing>>
            /\ active' = active \union {k}
      BY <1>3 DEF Timer!Set
    <2>2. Timer!After(now, d) \in Nat
      BY TimerAssumption DEF Timer!After, TaskInv, TaskTypes
    <2>3. [deadline |-> Timer!After(now, d), interval |-> 0,
           message |-> k] # NONE
      <3>1. [deadline |-> Timer!After(now, d), interval |-> 0, message |-> k]
               \in [deadline : Nat, interval : Nat, message : Messages]
        BY <1>1, <2>2 DEF TasksFit
      <3> QED
        BY <3>1, TimerAssumption
    <2>4. TaskTypes'
      BY <1>1, <2>1, <2>2 DEF TaskInv, TaskTypes
    <2>5. TaskPlaces'
      BY <1>1, <1>2, <2>1, <2>3 DEF TaskInv, TaskTypes, TaskPlaces, InMailbox
    <2> QED
      BY <2>4, <2>5 DEF TaskInv
  <1>4. CASE Timer!Refuse(k) /\ UNCHANGED <<active, completing>>
    <2>1. armed' = [armed EXCEPT ![k] = NONE] /\ UNCHANGED <<now, mailbox>>
      BY <1>4 DEF Timer!Refuse
    <2>2. armed' = armed
      BY <1>1, <1>2, <2>1 DEF TaskInv, TaskTypes
    <2> QED
      BY <1>4, <2>1, <2>2 DEF TaskInv, TaskTypes, TaskPlaces, InMailbox
  <1> QED
    BY <1>3, <1>4 DEF CreateTask, k

(* A timer that fires moves its task to the queue.                         *)
LEMMA FireKeeps ==
    ASSUME TasksFit, TaskInv, NEW k \in Tasks, Timer!Fire(k),
           UNCHANGED <<active, completing>>
    PROVE  TaskInv'
  <1>1. armed[k] # NONE /\ armed[k].interval = 0 /\ armed[k].message = k
    BY DEF Timer!Fire, Timer!InUse, TaskInv, TaskTypes
  <1>2. armed' = [armed EXCEPT ![k] = NONE] /\ now' = now
    BY <1>1 DEF Timer!Fire
  <1>3. mailbox' = Append(mailbox, k)
    BY <1>1, RoomForTask DEF Timer!Fire, Timer!SendNoBlock, Timer!HasRoom
  <1>4. mailbox \in Seq(Tasks) /\ Len(mailbox) + 1 <= MailboxCap
    BY <1>1, RoomForTask, TimerAssumption DEF TaskInv, TaskTypes
  <1>5. /\ mailbox' \in Seq(Tasks) /\ Len(mailbox') = Len(mailbox) + 1
        /\ \A i \in 1..Len(mailbox) : mailbox'[i] = mailbox[i]
        /\ mailbox'[Len(mailbox) + 1] = k
    BY <1>3, <1>4
  <1>6. \A j \in Tasks : InMailbox(j)' <=> InMailbox(j) \/ j = k
    BY <1>4, <1>5 DEF InMailbox
  <1>7. TaskTypes'
    BY <1>2, <1>4, <1>5 DEF TaskInv, TaskTypes
  <1>8. ~InMailbox(k) /\ completing # k
    BY <1>1 DEF TaskInv, TaskPlaces
  <1>9. \A i, j \in 1..Len(mailbox') : mailbox'[i] = mailbox'[j] => i = j
    BY <1>4, <1>5, <1>8 DEF TaskInv, TaskPlaces, InMailbox
  <1>10. TaskPlaces'
    BY <1>1, <1>2, <1>6, <1>8, <1>9 DEF TaskInv, TaskTypes, TaskPlaces
  <1> QED
    BY <1>7, <1>10 DEF TaskInv

(* The timer task takes the first of the queue.                            *)
LEMMA TakeKeeps == ASSUME TasksFit, TaskInv, TakeTask PROVE TaskInv'
  <1>1. /\ completing = NONE /\ mailbox # << >> /\ mailbox' = Tail(mailbox)
        /\ completing' = Head(mailbox) /\ UNCHANGED <<now, armed, active>>
    BY DEF TakeTask, Timer!Receive
  <1>2. /\ mailbox \in Seq(Tasks) /\ Len(mailbox) \in Nat \ {0}
        /\ Head(mailbox) = mailbox[1] /\ mailbox[1] \in Tasks
        /\ mailbox' \in Seq(Tasks) /\ Len(mailbox') = Len(mailbox) - 1
        /\ \A i \in 1..Len(mailbox') : mailbox'[i] = mailbox[i + 1]
    BY <1>1 DEF TaskInv, TaskTypes
  <1>3. TaskTypes'
    BY <1>1, <1>2, TimerAssumption DEF TaskInv, TaskTypes
  <1>0. PICK h \in Tasks : h = mailbox[1]
    BY <1>2
  <1>4. \A i \in 1..Len(mailbox') : i + 1 \in 1..Len(mailbox) /\ i + 1 # 1
    BY <1>2
  <1>5. \A k \in Tasks : InMailbox(k) <=> InMailbox(k)' \/ k = h
    <2>1. ASSUME NEW k \in Tasks, InMailbox(k), k # h PROVE InMailbox(k)'
      <3>1. PICK i \in 1..Len(mailbox) : mailbox[i] = k
        BY <2>1 DEF InMailbox
      <3>2. i - 1 \in 1..Len(mailbox') /\ (i - 1) + 1 = i
        BY <1>0, <1>2, <2>1, <3>1
      <3>3. mailbox'[i - 1] = k
        BY <1>2, <3>1, <3>2
      <3> QED
        BY <3>2, <3>3 DEF InMailbox
    <2>2. ASSUME NEW k \in Tasks, InMailbox(k)' PROVE InMailbox(k)
      BY <1>2, <1>4, <2>2 DEF InMailbox
    <2>3. InMailbox(h)
      BY <1>0, <1>2 DEF InMailbox
    <2> QED
      BY <2>1, <2>2, <2>3
  <1>6. ~InMailbox(h)'
    BY <1>0, <1>2, <1>4 DEF TaskInv, TaskPlaces, InMailbox
  <1>7. \A i, j \in 1..Len(mailbox') : mailbox'[i] = mailbox'[j] => i = j
    BY <1>2, <1>4 DEF TaskInv, TaskPlaces
  <1>8. TaskPlaces'
    BY <1>0, <1>1, <1>2, <1>5, <1>6, <1>7, TasksAre DEF TaskInv, TaskPlaces
  <1> QED
    BY <1>3, <1>8 DEF TaskInv

(* A completed task's entry is free again.                                 *)
LEMMA CompleteKeeps == ASSUME TasksFit, TaskInv, CompleteTask PROVE TaskInv'
  <1>1. /\ completing # NONE /\ completing' = NONE
        /\ active' = active \ {completing}
        /\ UNCHANGED <<now, armed, mailbox>>
    BY DEF CompleteTask
  <1> QED
    BY <1>1, TasksAre DEF TaskInv, TaskTypes, TaskPlaces, InMailbox

(* Each step moves a task from one place to the next.                      *)
LEMMA TaskInductive ==
    TasksFit /\ TaskInv /\ [TaskNext]_(taskAll) =>
      TaskInv'
  <1> SUFFICES ASSUME TasksFit, TaskInv,
                      [TaskNext]_(taskAll)
               PROVE  TaskInv'
    OBVIOUS
  <1>1. CASE UNCHANGED taskAll
    BY <1>1 DEF taskAll, taskVars, TaskInv, TaskTypes, TaskPlaces, InMailbox
  <1>2. CASE Service
    <2>1. CASE Timer!Tick /\ UNCHANGED taskVars
      BY <2>1, TimerAssumption DEF Timer!Tick, taskVars, TaskInv, TaskTypes,
         TaskPlaces, InMailbox
    <2>2. CASE \E k \in Tasks : Timer!Fire(k) /\ UNCHANGED taskVars
      BY <2>2, FireKeeps DEF taskVars
    <2> QED
      BY <1>2, <2>1, <2>2 DEF Service
  <1> QED
    BY <1>1, <1>2, CreateKeeps, TakeKeeps, CompleteKeeps DEF TaskNext

(* One place is what the counts of TaskInOnePlace say.                     *)
LEMMA TaskInvShows ==
    ASSUME TasksFit, TaskInv PROVE TaskInOnePlace
  <1> SUFFICES
        ASSUME NEW k \in Tasks
        PROVE  /\ Cardinality({p \in 1..3 :
                     \/ p = 1 /\ armed[k] # NONE
                     \/ p = 2 /\ Holds(mailbox, k)
                     \/ p = 3 /\ completing = k})
                    = IF k \in active THEN 1 ELSE 0
               /\ AtMostOne(mailbox, k)
    BY DEF TaskInOnePlace
  <1> DEFINE S == {p \in 1..3 : \/ p = 1 /\ armed[k] # NONE
                                \/ p = 2 /\ Holds(mailbox, k)
                                \/ p = 3 /\ completing = k}
  <1>1. Holds(mailbox, k) <=> InMailbox(k)
    BY DEF Holds, InMailbox
  <1>2. CASE k \in active
    <2>1. S = {1} \/ S = {2} \/ S = {3}
      BY <1>1, <1>2 DEF TaskInv, TaskPlaces
    <2> QED
      BY <1>2, <2>1, FS_Singleton DEF TaskInv, TaskPlaces, AtMostOne
  <1>3. CASE k \notin active
    <2>1. S = {}
      BY <1>1, <1>3 DEF TaskInv, TaskPlaces
    <2> QED
      BY <1>3, <2>1, FS_EmptySet DEF TaskInv, TaskPlaces, AtMostOne
  <1> QED
    BY <1>2, <1>3

(* A delayed action that was created is waiting for its time, in the queue *)
(* or being completed, never two of these, never lost on the way, and its  *)
(* entry is reused only after it was completed: for every number of tasks  *)
(* the queue has room for.                                                 *)
THEOREM TaskAlwaysInOnePlace ==
    ASSUME TasksFit
    PROVE  TaskSpec => []TaskInOnePlace
  <1>1. TaskInit => TaskInv
    BY TaskInitially
  <1>2. TaskInv /\ [TaskNext]_(taskAll) => TaskInv'
    BY TaskInductive
  <1>3. TaskInv => TaskInOnePlace
    BY TaskInvShows
  <1> QED
    BY <1>1, <1>2, <1>3, PTL DEF TaskSpec
=============================================================================
