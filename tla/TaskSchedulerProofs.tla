------------------------- MODULE TaskSchedulerProofs -------------------------
(***************************************************************************)
(* Theorems about TaskScheduler for every set of tasks and every queue     *)
(* capacity its assumptions allow.                                         *)
(***************************************************************************)
EXTENDS TaskScheduler, TLAPS

(* At most one VI event is anywhere between the latch and its              *)
(* acknowledgement.                                                        *)
Handling(m) == mainPc = "handle" /\ mainMsg = m

ViInv ==
    /\ AtMostOne(mainQ, "VI")
    /\ Holds(mainQ, "VI") => viPending /\ viPc = "idle" /\ ~Handling("VI")
    /\ Handling("VI") => viPending /\ viPc = "idle"
    /\ viPc = "send" => viPending

(* One SP per current task: posted after the task starts, gone when the    *)
(* task stops being current.                                               *)
SpInv ==
    /\ AtMostOne(mainQ, "SP")
    /\ Holds(mainQ, "SP") => current # NULL /\ mainPc # "run" /\ ~Handling("SP")
    /\ Handling("SP") => current # NULL
    /\ mainPc = "run" => current # NULL
    /\ mainPc = "postDP" => current \in GfxTasks /\ Holds(mainQ, "SP")

(* A graphics task that is current is the head slot.  Its DP follows its   *)
(* SP in the queue, and once its SP is handled it stays FINISHED in its    *)
(* slot until the DP comes.                                                *)
DpComing == Holds(mainQ, "DP") \/ Handling("DP")

DpAfterSp(q) ==
    \A d \in 1..Len(q) : q[d] = "DP" => \E s \in 1..Len(q) : s < d /\ q[s] = "SP"

DpInv ==
    /\ AtMostOne(mainQ, "DP")
    /\ current \in GfxTasks => gfxSlots # << >> /\ current = Head(gfxSlots)
    /\ DpComing => /\ gfxSlots # << >>
                   /\ \/ current = Head(gfxSlots)
                      \/ state[Head(gfxSlots)] = "FINISHED"
                   /\ mainPc # "postDP"
                   /\ mainPc = "run" => current \notin GfxTasks
    /\ Handling("DP") => ~Holds(mainQ, "DP") /\ current \notin GfxTasks
    /\ current \in GfxTasks => Handling("SP") \/ DpAfterSp(mainQ)

(* The scheduler holds at most one graphics task, in one place.            *)
OneGfx(q) ==
    \A i, j \in 1..Len(q) : q[i] \in GfxTasks /\ q[j] \in GfxTasks => i = j

GfxInv ==
    /\ OneGfx(taskQ) /\ OneGfx(pending) /\ Len(gfxSlots) <= 1
    /\ HasGfx(taskQ) => ~HasGfx(pending) /\ gfxSlots = << >>
    /\ HasGfx(pending) => gfxSlots = << >>
    /\ gfxPc = "submit" => ~inFlight
    /\ gfxPc \in {"reply", "notify"} => inFlight

(* A graphics task waiting to start is NOT_STARTED.                        *)
FreshInv ==
    /\ \A i \in 1..Len(pending) :
         pending[i] \in GfxTasks => state[pending[i]] = "NOT_STARTED"
    /\ gfxSlots # << >> => \/ current = Head(gfxSlots)
                           \/ state[Head(gfxSlots)] \in {"NOT_STARTED", "FINISHED"}

(* At most two TASK_READY events wait: one for the task in flight and one  *)
(* left from its predecessor, which is ahead of any DP.                    *)
NoReadyAfterDp(q) ==
    \A d, i \in 1..Len(q) : q[d] = "DP" /\ d < i => q[i] # "TASK_READY"

OneReadyAfterDp(q) ==
    \A d, i, j \in 1..Len(q) :
        /\ q[d] = "DP" /\ d < i /\ d < j
        /\ q[i] = "TASK_READY" /\ q[j] = "TASK_READY"
        => i = j

ReadyInv ==
    /\ AtMostTwo(mainQ, "TASK_READY")
    /\ OneReadyAfterDp(mainQ)
    /\ gfxPc = "notify" => AtMostOne(mainQ, "TASK_READY") /\ NoReadyAfterDp(mainQ)
    /\ ~GfxHeld \/ Handling("DP") =>
         /\ AtMostOne(mainQ, "TASK_READY")
         /\ gfxPc = "notify" => ~Holds(mainQ, "TASK_READY")

IInv == TypeOK /\ ViInv /\ SpInv /\ DpInv /\ GfxInv /\ AnswerMatchesTask
        /\ FreshInv /\ ReadyInv
-----------------------------------------------------------------------------
(* Facts about bounded queues.                                             *)

LEMMA EmptyType ==
    ASSUME NEW S, NEW cap \in Nat
    PROVE  << >> \in Queue(S, cap)
  BY DEF Queue

LEMMA AppendType ==
    ASSUME NEW S, NEW cap \in Nat, NEW q \in Queue(S, cap), HasRoom(q, cap),
           NEW m \in S
    PROVE  Append(q, m) \in Queue(S, cap)
  BY DEF HasRoom, Queue

LEMMA SendType ==
    ASSUME NEW S, NEW cap \in Nat, NEW q \in Queue(S, cap), NEW m \in S
    PROVE  SendNoBlock(q, cap, m) \in Queue(S, cap)
  BY AppendType DEF SendNoBlock

LEMMA TailType ==
    ASSUME NEW S, NEW cap \in Nat, NEW q \in Queue(S, cap), q # << >>
    PROVE  Head(q) \in S /\ Tail(q) \in Queue(S, cap)
  BY DEF Queue

LEMMA DiscardType ==
    ASSUME NEW S, NEW cap \in Nat, NEW q \in Queue(S, cap)
    PROVE  Discard(q) \in Queue(S, cap)
  BY TailType DEF Discard
-----------------------------------------------------------------------------
LEMMA Capacities ==
    {MainCap, TaskCap, PendingCap, GfxSlots, AudioSlots, GfxReplyCap,
     AudioReplyCap, GfxViCap, AudioViCap} \subseteq Nat
  BY CapacityAssumption

LEMMA InitType == Init => TypeOK
  <1> SUFFICES ASSUME Init PROVE TypeOK
    OBVIOUS
  <1> USE DEF Init
  <1>1. /\ mainQ \in Queue(Events, MainCap)
        /\ taskQ \in Queue(Task, TaskCap)
        /\ gfxReplyQ \in Queue({"MESG_2"}, GfxReplyCap)
        /\ audioReplyQ \in Queue({"MESG_1"}, AudioReplyCap)
        /\ gfxViQ \in Queue({"VI"}, GfxViCap)
        /\ audioViQ \in Queue({"VI"}, AudioViCap)
        /\ pending \in Queue(Task, PendingCap)
        /\ gfxSlots \in Queue(GfxTasks, GfxSlots)
        /\ audioSlots \in Queue(AudioTasks, AudioSlots)
    BY Capacities, EmptyType
  <1>2. mainMsg \in Events /\ state \in [Task -> States]
    BY DEF Events, States
  <1> QED
    BY <1>1, <1>2 DEF TypeOK

LEMMA StepType == TypeOK /\ [Next]_vars => TypeOK'
  <1> SUFFICES ASSUME TypeOK, [Next]_vars
               PROVE  TypeOK'
    OBVIOUS
  <1> USE DEF queueVars, mainVars, viVars, gfxVars, audioVars
  <1>a. /\ "VI" \in Events /\ "SP" \in Events
        /\ "DP" \in Events /\ "TASK_READY" \in Events
    BY DEF Events
  <1>b. /\ "NOT_STARTED" \in States /\ "RUNNING" \in States
        /\ "INTERRUPTED" \in States /\ "FINISHED" \in States
        /\ "FINISHED_DP" \in States
    BY DEF States
  <1>c. /\ \A t \in GfxTasks : t \in Task
        /\ \A t \in AudioTasks : t \in Task
        /\ \A t \in Task : t \notin AudioTasks => t \in GfxTasks
        /\ NULL \notin Task
    BY TasksAssumption DEF Task
  <1> USE Capacities, <1>a, <1>b, <1>c
  <1>1. CASE ViLatch
    BY <1>1 DEF ViLatch, TypeOK
  <1>2. CASE ViSend
    BY <1>2, SendType DEF ViSend, TypeOK
  <1>3. CASE MainReceive
    BY <1>3, TailType DEF MainReceive, TypeOK
  <1>4. CASE HandleVI
    BY <1>4, SendType DEF HandleVI, TypeOK
  <1>5. CASE HandleTaskReady
    BY <1>5 DEF HandleTaskReady, TypeOK
  <1>6. CASE HandleRSP
    BY <1>6, SendType, DiscardType DEF HandleRSP, TypeOK
  <1>7. CASE HandleRDP
    <2>1. CASE gfxSlots = << >>
      BY <1>7, <2>1 DEF HandleRDP, TypeOK
    <2>2. CASE gfxSlots # << >>
      <3>1. /\ Head(gfxSlots) \in GfxTasks
            /\ Tail(gfxSlots) \in Queue(GfxTasks, GfxSlots)
        <4>1. gfxSlots \in Queue(GfxTasks, GfxSlots)
          BY DEF TypeOK
        <4> QED
          BY <2>2, <4>1, TailType
      <3>2. gfxReplyQ' \in Queue({"MESG_2"}, GfxReplyCap)
        BY <1>7, <2>2, SendType DEF HandleRDP, TypeOK
      <3> QED
        BY <1>7, <2>2, <3>1, <3>2 DEF HandleRDP, TypeOK
    <2> QED
      BY <2>1, <2>2
  <1>8. CASE AdmitHead
    <2>1. Head(pending) \in Task /\ Tail(pending) \in Queue(Task, PendingCap)
      BY <1>8, TailType DEF AdmitHead, HeadAdmissible, TypeOK
    <2>2. CASE Head(pending) \in AudioTasks
      <3>1. Append(audioSlots, Head(pending)) \in Queue(AudioTasks, AudioSlots)
        BY <1>8, <2>2, AppendType
        DEF AdmitHead, HeadAdmissible, CanAdmit, TypeOK
      <3> QED
        BY <1>8, <2>1, <2>2, <3>1 DEF AdmitHead, TypeOK
    <2>3. CASE Head(pending) \notin AudioTasks
      <3>1. Append(gfxSlots, Head(pending)) \in Queue(GfxTasks, GfxSlots)
        BY <1>8, <2>1, <2>3, AppendType
        DEF AdmitHead, HeadAdmissible, CanAdmit, TypeOK
      <3> QED
        BY <1>8, <2>1, <2>3, <3>1 DEF AdmitHead, TypeOK
    <2> QED
      BY <2>2, <2>3
  <1>9. CASE DrainOne
    BY <1>9, AppendType, TailType DEF DrainOne, TypeOK
  <1>10. CASE DrainDone
    BY <1>10 DEF DrainDone, TypeOK
  <1>11. CASE StartAudio
    BY <1>11, TailType DEF StartAudio, TypeOK
  <1>12. CASE InterruptGfx
    BY <1>12 DEF InterruptGfx, TypeOK
  <1>13. CASE StartGfx
    BY <1>13, TailType DEF StartGfx, MayStartGfx, TypeOK
  <1>14. CASE StartNothing
    BY <1>14 DEF StartNothing, TypeOK
  <1>15. CASE PostSP
    BY <1>15, SendType DEF PostSP, TypeOK
  <1>16. CASE PostDP
    BY <1>16, SendType DEF PostDP, TypeOK
  <1>17. CASE GfxWake
    BY <1>17, TailType DEF GfxWake, TypeOK
  <1>18. CASE GfxWaitForTask
    BY <1>18, TailType DEF GfxWaitForTask, TypeOK
  <1>19. CASE GfxSubmit
    BY <1>19, AppendType DEF GfxSubmit, TypeOK
  <1>20. CASE GfxNotify
    BY <1>20, SendType DEF GfxNotify, TypeOK
  <1>21. CASE AudioBuild
    BY <1>21, DiscardType DEF AudioBuild, TypeOK
  <1>22. CASE AudioSend
    BY <1>22, AppendType DEF AudioSend, TypeOK
  <1>23. CASE AudioWaitVI
    BY <1>23, TailType DEF AudioWaitVI, TypeOK
  <1>24. CASE UNCHANGED vars
    BY <1>24 DEF vars, TypeOK
  <1> QED
    BY <1>1, <1>2, <1>3, <1>4, <1>5, <1>6, <1>7, <1>8, <1>9, <1>10, <1>11,
       <1>12, <1>13, <1>14, <1>15, <1>16, <1>17, <1>18, <1>19, <1>20, <1>21,
       <1>22, <1>23, <1>24
    DEF Next, ViThread, MainThread, GraphicsThread, AudioThread

(* Every variable keeps its type and every queue and slot array its        *)
(* capacity.                                                               *)
THEOREM TypeCorrect == Spec => []TypeOK
  BY InitType, StepType, PTL DEF Spec
-----------------------------------------------------------------------------
(* Counting messages by position.                                          *)

LEMMA AppendCount ==
    ASSUME NEW S, NEW q \in Seq(S), NEW m \in S, NEW e
    PROVE  /\ Holds(Append(q, m), e) <=> Holds(q, e) \/ m = e
           /\ AtMostOne(q, e) /\ m # e => AtMostOne(Append(q, m), e)
           /\ ~Holds(q, m) => AtMostOne(Append(q, m), m)
           /\ AtMostTwo(q, e) /\ m # e => AtMostTwo(Append(q, m), e)
           /\ AtMostOne(q, m) => AtMostTwo(Append(q, m), m)
  <1> DEFINE r == Append(q, m)
  <1>1. /\ r \in Seq(S) /\ Len(r) = Len(q) + 1 /\ r[Len(q) + 1] = m
        /\ Len(q) \in Nat
        /\ \A i \in 1..Len(q) : r[i] = q[i] /\ i \in 1..Len(r)
        /\ \A i \in 1..Len(r) : i \in 1..Len(q) \/ i = Len(q) + 1
    OBVIOUS
  <1> HIDE DEF r
  <1>2. Holds(r, e) <=> Holds(q, e) \/ m = e
    BY <1>1 DEF Holds
  <1>3. AtMostOne(q, e) /\ m # e => AtMostOne(r, e)
    BY <1>1 DEF AtMostOne
  <1>4. ~Holds(q, m) => AtMostOne(r, m)
    BY <1>1 DEF AtMostOne, Holds
  <1>5. AtMostTwo(q, e) /\ m # e => AtMostTwo(r, e)
    BY <1>1 DEF AtMostTwo
  <1>6. AtMostOne(q, m) => AtMostTwo(r, m)
    BY <1>1 DEF AtMostTwo, AtMostOne
  <1> QED
    BY <1>2, <1>3, <1>4, <1>5, <1>6 DEF r

LEMMA TailCount ==
    ASSUME NEW S, NEW q \in Seq(S), q # << >>, NEW e
    PROVE  /\ Holds(Tail(q), e) => Holds(q, e)
           /\ Holds(q, Head(q))
           /\ AtMostOne(q, e) => AtMostOne(Tail(q), e)
           /\ AtMostOne(q, e) /\ Head(q) = e => ~Holds(Tail(q), e)
           /\ AtMostTwo(q, e) => AtMostTwo(Tail(q), e)
  <1> DEFINE r == Tail(q)
  <1>1. /\ Len(r) = Len(q) - 1 /\ Len(q) \in Nat /\ Len(q) >= 1
        /\ \A i \in 1..Len(r) : r[i] = q[i + 1] /\ i + 1 \in 1..Len(q)
        /\ Head(q) = q[1] /\ 1 \in 1..Len(q)
    OBVIOUS
  <1> HIDE DEF r
  <1>2. (Holds(r, e) => Holds(q, e)) /\ Holds(q, Head(q))
    BY <1>1 DEF Holds
  <1>3. AtMostOne(q, e) => AtMostOne(r, e)
    BY <1>1 DEF AtMostOne
  <1>4. AtMostOne(q, e) /\ Head(q) = e => ~Holds(r, e)
    BY <1>1 DEF AtMostOne, Holds
  <1>5. AtMostTwo(q, e) => AtMostTwo(r, e)
    <2> SUFFICES ASSUME AtMostTwo(q, e),
                        NEW i \in 1..Len(r), NEW j \in 1..Len(r),
                        NEW k \in 1..Len(r), r[i] = e, r[j] = e, r[k] = e
                 PROVE  i = j \/ j = k \/ i = k
      BY DEF AtMostTwo
    <2>1. /\ {i + 1, j + 1, k + 1} \subseteq 1..Len(q)
          /\ q[i + 1] = e /\ q[j + 1] = e /\ q[k + 1] = e
      BY <1>1
    <2>2. i + 1 = j + 1 \/ j + 1 = k + 1 \/ i + 1 = k + 1
      BY <2>1 DEF AtMostTwo
    <2> QED
      BY <2>2
  <1> QED
    BY <1>2, <1>3, <1>4, <1>5 DEF r

(* The order of SP, DP and TASK_READY.                                     *)
LEMMA AppendOrder ==
    ASSUME NEW S, NEW q \in Seq(S), NEW m \in S
    PROVE  /\ DpAfterSp(q) /\ m # "DP" => DpAfterSp(Append(q, m))
           /\ DpAfterSp(q) /\ Holds(q, "SP") => DpAfterSp(Append(q, m))
           /\ NoReadyAfterDp(q) /\ m # "TASK_READY"
                => NoReadyAfterDp(Append(q, m))
           /\ OneReadyAfterDp(q) /\ m # "TASK_READY"
                => OneReadyAfterDp(Append(q, m))
           /\ NoReadyAfterDp(q) => OneReadyAfterDp(Append(q, m))
  <1> DEFINE r == Append(q, m)
  <1>1. /\ r \in Seq(S) /\ Len(r) = Len(q) + 1 /\ r[Len(q) + 1] = m
        /\ Len(q) \in Nat
        /\ \A i \in 1..Len(q) : r[i] = q[i] /\ i \in 1..Len(r)
        /\ \A i \in 1..Len(r) : i \in 1..Len(q) \/ i = Len(q) + 1
    OBVIOUS
  <1> HIDE DEF r
  <1>2. DpAfterSp(q) /\ m # "DP" => DpAfterSp(r)
    BY <1>1 DEF DpAfterSp
  <1>3. DpAfterSp(q) /\ Holds(q, "SP") => DpAfterSp(r)
    BY <1>1 DEF DpAfterSp, Holds
  <1>4. NoReadyAfterDp(q) /\ m # "TASK_READY" => NoReadyAfterDp(r)
    BY <1>1 DEF NoReadyAfterDp
  <1>5. OneReadyAfterDp(q) /\ m # "TASK_READY" => OneReadyAfterDp(r)
    BY <1>1 DEF OneReadyAfterDp
  <1>6. NoReadyAfterDp(q) => OneReadyAfterDp(r)
    BY <1>1 DEF OneReadyAfterDp, NoReadyAfterDp
  <1> QED
    BY <1>2, <1>3, <1>4, <1>5, <1>6 DEF r

LEMMA TailOrder ==
    ASSUME NEW S, NEW q \in Seq(S), q # << >>
    PROVE  /\ DpAfterSp(q) /\ Head(q) # "SP" => DpAfterSp(Tail(q))
           /\ DpAfterSp(q) => Head(q) # "DP"
           /\ NoReadyAfterDp(q) => NoReadyAfterDp(Tail(q))
           /\ OneReadyAfterDp(q) => OneReadyAfterDp(Tail(q))
           /\ NoReadyAfterDp(q) /\ Head(q) = "DP"
                => ~Holds(Tail(q), "TASK_READY")
           /\ OneReadyAfterDp(q) /\ Head(q) = "DP"
                => AtMostOne(Tail(q), "TASK_READY")
  <1> DEFINE r == Tail(q)
  <1>1. /\ Len(r) = Len(q) - 1 /\ Len(q) \in Nat /\ Len(q) >= 1
        /\ \A i \in 1..Len(r) : r[i] = q[i + 1] /\ i + 1 \in 1..Len(q)
        /\ Head(q) = q[1] /\ 1 \in 1..Len(q)
    OBVIOUS
  <1> HIDE DEF r
  <1>2. DpAfterSp(q) => Head(q) # "DP"
    BY <1>1 DEF DpAfterSp
  <1>3. DpAfterSp(q) /\ Head(q) # "SP" => DpAfterSp(r)
    <2> SUFFICES ASSUME DpAfterSp(q), Head(q) # "SP",
                        NEW d \in 1..Len(r), r[d] = "DP"
                 PROVE  \E s \in 1..Len(r) : s < d /\ r[s] = "SP"
      BY DEF DpAfterSp
    <2>1. PICK s \in 1..Len(q) : s < d + 1 /\ q[s] = "SP"
      BY <1>1 DEF DpAfterSp
    <2>2. s # 1 /\ s - 1 \in 1..Len(r) /\ r[s - 1] = q[s] /\ s - 1 < d
      BY <1>1, <2>1
    <2> QED
      BY <2>1, <2>2
  <1>4. NoReadyAfterDp(q) => NoReadyAfterDp(r)
    BY <1>1 DEF NoReadyAfterDp
  <1>5. OneReadyAfterDp(q) => OneReadyAfterDp(r)
    <2> SUFFICES ASSUME OneReadyAfterDp(q),
                        NEW d \in 1..Len(r), NEW i \in 1..Len(r),
                        NEW j \in 1..Len(r), r[d] = "DP", d < i, d < j,
                        r[i] = "TASK_READY", r[j] = "TASK_READY"
                 PROVE  i = j
      BY DEF OneReadyAfterDp
    <2>1. /\ {d + 1, i + 1, j + 1} \subseteq 1..Len(q)
          /\ q[d + 1] = "DP" /\ d + 1 < i + 1 /\ d + 1 < j + 1
          /\ q[i + 1] = "TASK_READY" /\ q[j + 1] = "TASK_READY"
      BY <1>1
    <2>2. i + 1 = j + 1
      BY <2>1 DEF OneReadyAfterDp
    <2> QED
      BY <2>2
  <1>6. NoReadyAfterDp(q) /\ Head(q) = "DP" => ~Holds(r, "TASK_READY")
    BY <1>1 DEF NoReadyAfterDp, Holds
  <1>7. OneReadyAfterDp(q) /\ Head(q) = "DP" => AtMostOne(r, "TASK_READY")
    BY <1>1 DEF OneReadyAfterDp, AtMostOne
  <1> QED
    BY <1>2, <1>3, <1>4, <1>5, <1>6, <1>7 DEF r

(* Five messages need all four kinds, with two TASK_READY.                 *)
LEMMA FiveMessages ==
    ASSUME NEW q \in Seq(Events), AtMostOne(q, "VI"), AtMostOne(q, "SP"),
           AtMostOne(q, "DP"), AtMostTwo(q, "TASK_READY"), Len(q) >= 5
    PROVE  /\ Holds(q, "VI") /\ Holds(q, "SP") /\ Holds(q, "DP")
           /\ ~AtMostOne(q, "TASK_READY")
  <1>1. {1, 2, 3, 4, 5} \subseteq 1..Len(q)
    OBVIOUS
  <1>2. \A i \in {1, 2, 3, 4, 5} : q[i] \in {"VI", "SP", "DP", "TASK_READY"}
    BY <1>1 DEF Events
  <1>3. \A i, j \in {1, 2, 3, 4, 5} :
          q[i] = q[j] /\ q[i] # "TASK_READY" => i = j
    BY <1>1, <1>2 DEF AtMostOne
  <1>4. \A i, j, k \in {1, 2, 3, 4, 5} :
          q[i] = "TASK_READY" /\ q[j] = "TASK_READY" /\ q[k] = "TASK_READY"
          => i = j \/ j = k \/ i = k
    BY <1>1 DEF AtMostTwo
  <1>5. /\ \E i \in {1, 2, 3, 4, 5} : q[i] = "VI"
        /\ \E i \in {1, 2, 3, 4, 5} : q[i] = "SP"
        /\ \E i \in {1, 2, 3, 4, 5} : q[i] = "DP"
        /\ \E i, j \in {1, 2, 3, 4, 5} :
             i # j /\ q[i] = "TASK_READY" /\ q[j] = "TASK_READY"
    BY <1>2, <1>3, <1>4
  <1> QED
    BY <1>1, <1>5 DEF Holds, AtMostOne

LEMMA RoomForEvents == IInv => NoEventDropped
  <1> SUFFICES ASSUME IInv, ~HasRoom(mainQ, MainCap)
               PROVE  /\ mainPc \notin {"run", "postDP"}
                      /\ viPc # "send" /\ gfxPc # "notify"
    BY DEF NoEventDropped
  <1>1. mainQ \in Seq(Events) /\ Len(mainQ) >= 5
    BY CapacityAssumption DEF IInv, TypeOK, Queue, HasRoom
  <1>2. /\ Holds(mainQ, "VI") /\ Holds(mainQ, "SP") /\ Holds(mainQ, "DP")
        /\ ~AtMostOne(mainQ, "TASK_READY")
    BY <1>1, FiveMessages DEF IInv, ViInv, SpInv, DpInv, ReadyInv
  <1> QED
    BY <1>2 DEF IInv, ViInv, SpInv, DpInv, ReadyInv, DpComing

(* A post in a state of the invariant appends its event.                   *)
LEMMA Posted ==
    ASSUME IInv, NEW m,
           mainPc \in {"run", "postDP"} \/ viPc = "send" \/ gfxPc = "notify"
    PROVE  HasRoom(mainQ, MainCap) /\ SendNoBlock(mainQ, MainCap, m) = Append(mainQ, m)
  BY RoomForEvents DEF NoEventDropped, SendNoBlock

LEMMA MainQueueType ==
    IInv => /\ mainQ \in Seq(Events)
            /\ "VI" \in Events /\ "SP" \in Events /\ "DP" \in Events
            /\ "TASK_READY" \in Events
            /\ mainPc \in {"recv", "handle", "admit", "start", "run", "postDP"}
  BY DEF IInv, TypeOK, Queue, Events

LEMMA MainAppend ==
    ASSUME mainQ \in Seq(Events), NEW m \in Events, mainQ' = Append(mainQ, m)
    PROVE  /\ \A e \in Events :
                /\ Holds(mainQ', e) <=> Holds(mainQ, e) \/ m = e
                /\ AtMostOne(mainQ, e) /\ m # e => AtMostOne(mainQ', e)
                /\ AtMostTwo(mainQ, e) /\ m # e => AtMostTwo(mainQ', e)
           /\ ~Holds(mainQ, m) => AtMostOne(mainQ', m)
           /\ AtMostOne(mainQ, m) => AtMostTwo(mainQ', m)
           /\ DpAfterSp(mainQ) /\ (m # "DP" \/ Holds(mainQ, "SP"))
                => DpAfterSp(mainQ')
           /\ NoReadyAfterDp(mainQ) /\ m # "TASK_READY" => NoReadyAfterDp(mainQ')
           /\ OneReadyAfterDp(mainQ) /\ m # "TASK_READY"
                => OneReadyAfterDp(mainQ')
           /\ NoReadyAfterDp(mainQ) => OneReadyAfterDp(mainQ')
  BY AppendCount, AppendOrder

LEMMA MainTail ==
    ASSUME mainQ \in Seq(Events), mainQ # << >>, mainQ' = Tail(mainQ)
    PROVE  /\ Holds(mainQ, Head(mainQ)) /\ Head(mainQ) \in Events
           /\ \A e \in Events :
                /\ Holds(mainQ', e) => Holds(mainQ, e)
                /\ AtMostOne(mainQ, e) => AtMostOne(mainQ', e)
                /\ AtMostOne(mainQ, e) /\ Head(mainQ) = e => ~Holds(mainQ', e)
                /\ AtMostTwo(mainQ, e) => AtMostTwo(mainQ', e)
           /\ DpAfterSp(mainQ) /\ Head(mainQ) # "SP" => DpAfterSp(mainQ')
           /\ DpAfterSp(mainQ) => Head(mainQ) # "DP"
           /\ NoReadyAfterDp(mainQ) => NoReadyAfterDp(mainQ')
           /\ OneReadyAfterDp(mainQ) => OneReadyAfterDp(mainQ')
           /\ NoReadyAfterDp(mainQ) /\ Head(mainQ) = "DP"
                => ~Holds(mainQ', "TASK_READY")
           /\ OneReadyAfterDp(mainQ) /\ Head(mainQ) = "DP"
                => AtMostOne(mainQ', "TASK_READY")
  BY TailCount, TailOrder
-----------------------------------------------------------------------------
(* The actions that leave gMainThreadMesgQueue alone and do not receive.   *)
Quiet ==
    \/ HandleTaskReady \/ AdmitHead \/ DrainOne \/ DrainDone \/ StartAudio
    \/ InterruptGfx \/ StartGfx \/ StartNothing \/ GfxWake \/ GfxWaitForTask
    \/ GfxSubmit \/ AudioBuild \/ AudioSend \/ AudioWaitVI

LEMMA QuietFrame ==
    Quiet => /\ mainQ' = mainQ /\ viPc' = viPc /\ viPending' = viPending
             /\ mainPc' # "handle"  \/ (mainPc' = mainPc /\ mainMsg' = mainMsg)
  BY DEF Quiet, HandleTaskReady, AdmitHead, DrainOne, DrainDone, StartAudio,
         InterruptGfx, StartGfx, StartNothing, GfxWake, GfxWaitForTask,
         GfxSubmit, AudioBuild, AudioSend, AudioWaitVI, queueVars, viVars,
         mainVars

LEMMA StepVi == IInv /\ [Next]_vars => ViInv'
  <1> SUFFICES ASSUME IInv, [Next]_vars
               PROVE  ViInv'
    OBVIOUS
  <1>i. ViInv
    BY DEF IInv
  <1> USE DEF queueVars, mainVars, viVars, gfxVars, audioVars
  <1>1. CASE ViLatch
    BY <1>1, <1>i DEF ViLatch, ViInv, Handling
  <1>2. CASE ViSend
    <2>1. HasRoom(mainQ, MainCap) /\ mainQ' = Append(mainQ, "VI")
      BY <1>2, Posted DEF ViSend
    <2> QED
      BY <1>2, <1>i, <2>1, MainQueueType, MainAppend DEF ViSend, ViInv, Handling
  <1>3. CASE MainReceive
    BY <1>3, <1>i, MainQueueType, MainTail DEF MainReceive, ViInv, Handling
  <1>4. CASE HandleVI
    BY <1>4, <1>i DEF HandleVI, ViInv, Handling
  <1>5. CASE HandleRSP \/ HandleRDP
    BY <1>5, <1>i DEF HandleRSP, HandleRDP, ViInv, Handling
  <1>6. CASE PostSP \/ PostDP
    <2>1. mainQ' = Append(mainQ, "SP") \/ mainQ' = Append(mainQ, "DP")
      BY <1>6, Posted DEF PostSP, PostDP
    <2>2. mainPc' # "handle" /\ viPc' = viPc /\ viPending' = viPending
      BY <1>6 DEF PostSP, PostDP
    <2> QED
      BY <1>i, <2>1, <2>2, MainQueueType, MainAppend DEF ViInv, Handling
  <1>7. CASE GfxNotify
    <2>1. mainQ' = Append(mainQ, "TASK_READY")
      BY <1>7, Posted DEF GfxNotify
    <2> QED
      BY <1>7, <1>i, <2>1, MainQueueType, MainAppend DEF GfxNotify, ViInv, Handling
  <1>8. CASE Quiet
    BY <1>8, <1>i, QuietFrame DEF ViInv, Handling
  <1>9. CASE UNCHANGED vars
    BY <1>9, <1>i DEF vars, ViInv, Handling
  <1> QED
    BY <1>1, <1>2, <1>3, <1>4, <1>5, <1>6, <1>7, <1>8, <1>9
    DEF Next, ViThread, MainThread, GraphicsThread, AudioThread, Quiet

LEMMA StepSp == IInv /\ [Next]_vars => SpInv'
  <1> SUFFICES ASSUME IInv, [Next]_vars
               PROVE  SpInv'
    OBVIOUS
  <1>i. SpInv
    BY DEF IInv
  <1>n. NULL \notin GfxTasks /\ NULL \notin AudioTasks
    BY TasksAssumption DEF Task
  <1> USE DEF queueVars, mainVars, viVars, gfxVars, audioVars
  <1>1. CASE ViSend \/ GfxNotify
    <2>1. mainQ' = Append(mainQ, "VI") \/ mainQ' = Append(mainQ, "TASK_READY")
      BY <1>1, Posted DEF ViSend, GfxNotify
    <2>2. UNCHANGED mainVars
      BY <1>1 DEF ViSend, GfxNotify
    <2> QED
      BY <1>i, <2>1, <2>2, MainQueueType, MainAppend DEF SpInv, Handling
  <1>2. CASE MainReceive
    BY <1>2, <1>i, MainQueueType, MainTail DEF MainReceive, SpInv, Handling
  <1>3. CASE HandleVI \/ HandleRDP \/ ViLatch
    BY <1>3, <1>i DEF HandleVI, HandleRDP, ViLatch, SpInv, Handling
  <1>4. CASE HandleRSP
    BY <1>4, <1>i DEF HandleRSP, SpInv, Handling
  <1>5. CASE PostSP
    <2>1. mainQ' = Append(mainQ, "SP")
      BY <1>5, Posted DEF PostSP
    <2> QED
      BY <1>5, <1>i, <2>1, MainQueueType, MainAppend DEF PostSP, SpInv, Handling
  <1>6. CASE PostDP
    <2>1. mainQ' = Append(mainQ, "DP")
      BY <1>6, Posted DEF PostDP
    <2> QED
      BY <1>6, <1>i, <1>n, <2>1, MainQueueType, MainAppend
      DEF PostDP, SpInv, Handling
  <1>7. CASE StartAudio \/ StartGfx
    <2>1. current' # NULL
      <3>1. audioSlots # << >> => Head(audioSlots) \in AudioTasks
        BY TailType, Capacities DEF IInv, TypeOK
      <3>2. gfxSlots # << >> => Head(gfxSlots) \in GfxTasks
        BY TailType, Capacities DEF IInv, TypeOK
      <3> QED
        BY <1>7, <1>n, <3>1, <3>2 DEF StartAudio, StartGfx, MayStartGfx
    <2> QED
      BY <1>7, <1>i, <2>1 DEF StartAudio, StartGfx, MayStartGfx, SpInv, Handling
  <1>8. CASE Quiet /\ ~StartAudio /\ ~StartGfx
    <2>1. /\ current' = current /\ mainQ' = mainQ
          /\ mainPc' \notin {"run", "postDP"} \/ mainPc' = mainPc
          /\ mainPc' # "handle"  \/ (mainPc' = mainPc /\ mainMsg' = mainMsg)
          /\ mainPc = "run" => mainPc' = "run"
      BY <1>8 DEF Quiet, HandleTaskReady, AdmitHead, DrainOne, DrainDone,
         InterruptGfx, StartNothing, GfxWake, GfxWaitForTask,
         GfxSubmit, AudioBuild, AudioSend, AudioWaitVI
    <2> QED
      BY <1>i, <2>1 DEF SpInv, Handling
  <1>9. CASE UNCHANGED vars
    BY <1>9, <1>i DEF vars, SpInv, Handling
  <1> QED
    BY <1>1, <1>2, <1>3, <1>4, <1>5, <1>6, <1>7, <1>8, <1>9
    DEF Next, ViThread, MainThread, GraphicsThread, AudioThread, Quiet
-----------------------------------------------------------------------------
LEMMA SlotHeads ==
    IInv => /\ gfxSlots # << >> => Head(gfxSlots) \in GfxTasks
            /\ audioSlots # << >> => Head(audioSlots) \in AudioTasks
            /\ state \in [Task -> States] /\ current \in Task \union {NULL}
            /\ NULL \notin Task /\ NULL \notin GfxTasks
            /\ \A t \in GfxTasks : t \in Task /\ t \notin AudioTasks
            /\ \A t \in AudioTasks : t \in Task /\ t \notin GfxTasks
            /\ \A t \in Task : t \in GfxTasks \/ t \in AudioTasks
  <1> SUFFICES ASSUME IInv PROVE
            /\ gfxSlots # << >> => Head(gfxSlots) \in GfxTasks
            /\ audioSlots # << >> => Head(audioSlots) \in AudioTasks
            /\ state \in [Task -> States] /\ current \in Task \union {NULL}
            /\ NULL \notin Task /\ NULL \notin GfxTasks
            /\ \A t \in GfxTasks : t \in Task /\ t \notin AudioTasks
            /\ \A t \in AudioTasks : t \in Task /\ t \notin GfxTasks
            /\ \A t \in Task : t \in GfxTasks \/ t \in AudioTasks
    OBVIOUS
  <1>1. gfxSlots # << >> => Head(gfxSlots) \in GfxTasks
    BY TailType, Capacities DEF IInv, TypeOK
  <1>2. audioSlots # << >> => Head(audioSlots) \in AudioTasks
    BY TailType, Capacities DEF IInv, TypeOK
  <1> QED
    BY <1>1, <1>2, TasksAssumption DEF IInv, TypeOK, Task

LEMMA NoDp ==
    ASSUME NEW q, ~Holds(q, "DP")
    PROVE  DpAfterSp(q)
  BY DEF Holds, DpAfterSp

LEMMA StepDp == IInv /\ [Next]_vars => DpInv'
  <1> SUFFICES ASSUME IInv, [Next]_vars
               PROVE  DpInv'
    OBVIOUS
  <1>i. DpInv /\ SpInv /\ GfxInv
    BY DEF IInv
  <1> USE DEF queueVars, mainVars, viVars, gfxVars, audioVars
  <1>1. CASE ViSend \/ GfxNotify
    <2>1. mainQ' = Append(mainQ, "VI") \/ mainQ' = Append(mainQ, "TASK_READY")
      BY <1>1, Posted DEF ViSend, GfxNotify
    <2>2. UNCHANGED mainVars
      BY <1>1 DEF ViSend, GfxNotify
    <2> QED
      BY <1>i, <2>1, <2>2, MainQueueType, MainAppend DEF DpInv, DpComing, Handling
  <1>2. CASE MainReceive
    <2>1. Head(mainQ) = "DP" => current \notin GfxTasks
      BY <1>2, <1>i, MainQueueType, MainTail DEF MainReceive, DpInv, Handling
    <2> QED
      BY <1>2, <1>i, <2>1, MainQueueType, MainTail
      DEF MainReceive, DpInv, DpComing, Handling
  <1>3. CASE HandleVI \/ ViLatch \/ HandleTaskReady \/ DrainDone \/ StartNothing
    BY <1>3, <1>i DEF HandleVI, ViLatch, HandleTaskReady, DrainDone,
                      StartNothing, DpInv, DpComing, Handling
  <1>4. CASE HandleRSP
    <2>1. current # NULL /\ current' = NULL /\ mainQ' = mainQ
          /\ state' = [state EXCEPT ![current] = "FINISHED"]
          /\ gfxSlots' = gfxSlots /\ mainPc' = "admit"
      BY <1>4, <1>i DEF HandleRSP, SpInv, Handling
    <2>2. DpComing' => DpComing
      BY <1>4, <2>1 DEF HandleRSP, DpComing, Handling
    <2> QED
      BY <1>i, <2>1, <2>2, SlotHeads DEF DpInv, Handling
  <1>5. CASE HandleRDP
    BY <1>5, <1>i DEF HandleRDP, DpInv, DpComing, Handling
  <1>6. CASE AdmitHead
    <2>1. mainPc = "admit" /\ mainPc' = "admit"
          /\ UNCHANGED <<mainQ, current, state>>
      BY <1>6 DEF AdmitHead
    <2>2. gfxSlots # << >> => gfxSlots' # << >> /\ Head(gfxSlots') = Head(gfxSlots)
      <3>1. gfxSlots \in Seq(GfxTasks)
        BY DEF IInv, TypeOK, Queue
      <3>2. gfxSlots' = gfxSlots \/ gfxSlots' = Append(gfxSlots, Head(pending))
        BY <1>6 DEF AdmitHead
      <3> QED
        BY <3>1, <3>2
    <2> QED
      BY <1>i, <2>1, <2>2 DEF DpInv, DpComing, Handling
  <1>7. CASE DrainOne
    <2>1. mainPc = "admit" /\ mainPc' = "admit" /\ taskQ # << >>
          /\ UNCHANGED <<mainQ, current, gfxSlots>>
          /\ state' = [state EXCEPT ![Head(taskQ)] = "NOT_STARTED"]
      BY <1>7 DEF DrainOne
    <2>2. gfxSlots # << >> => Head(taskQ) # Head(gfxSlots)
      <3>1. taskQ \in Seq(Task)
        BY DEF IInv, TypeOK, Queue
      <3>2. Head(taskQ) \in GfxTasks => HasGfx(taskQ)
        BY <2>1, <3>1 DEF HasGfx
      <3> QED
        BY <1>i, <3>2, SlotHeads DEF GfxInv
    <2> QED
      BY <1>i, <2>1, <2>2, SlotHeads DEF DpInv, DpComing, Handling
  <1>8. CASE StartAudio
    BY <1>8, <1>i, SlotHeads DEF StartAudio, DpInv, DpComing, Handling
  <1>9. CASE StartGfx
    <2>1. ~DpComing
      BY <1>9, <1>i, SlotHeads DEF StartGfx, MayStartGfx, DpInv
    <2> QED
      BY <1>9, <1>i, <2>1, NoDp, SlotHeads
      DEF StartGfx, MayStartGfx, DpInv, DpComing, Handling
  <1>10. CASE InterruptGfx
    BY <1>10, <1>i, SlotHeads DEF InterruptGfx, DpInv, DpComing, Handling
  <1>11. CASE PostSP
    <2>1. mainQ' = Append(mainQ, "SP")
      BY <1>11, Posted DEF PostSP
    <2>2. /\ Holds(mainQ', "DP") <=> Holds(mainQ, "DP")
          /\ AtMostOne(mainQ', "DP")
          /\ DpAfterSp(mainQ) => DpAfterSp(mainQ')
      BY <1>i, <2>1, MainQueueType, MainAppend DEF DpInv
    <2> QED
      BY <1>11, <1>i, <2>2, SlotHeads DEF PostSP, DpInv, DpComing, Handling
  <1>12. CASE PostDP
    <2>1. mainQ' = Append(mainQ, "DP")
      BY <1>12, Posted DEF PostDP
    <2>2. current \in GfxTasks /\ Holds(mainQ, "SP") /\ ~Holds(mainQ, "DP")
          /\ DpAfterSp(mainQ)
      BY <1>12, <1>i DEF PostDP, DpInv, DpComing, SpInv, Handling
    <2>3. AtMostOne(mainQ', "DP") /\ DpAfterSp(mainQ')
      BY <2>1, <2>2, MainQueueType, MainAppend
    <2> QED
      BY <1>12, <1>i, <2>2, <2>3, SlotHeads DEF PostDP, DpInv, DpComing, Handling
  <1>13. CASE \/ GfxWake \/ GfxWaitForTask \/ GfxSubmit
              \/ AudioBuild \/ AudioSend \/ AudioWaitVI
    <2>1. UNCHANGED mainVars /\ mainQ' = mainQ
      BY <1>13 DEF GfxWake, GfxWaitForTask, GfxSubmit, AudioBuild, AudioSend,
                   AudioWaitVI
    <2> QED
      BY <1>i, <2>1 DEF DpInv, DpComing, Handling
  <1>14. CASE UNCHANGED vars
    BY <1>14, <1>i DEF vars, DpInv, DpComing, Handling
  <1> QED
    BY <1>1, <1>2, <1>3, <1>4, <1>5, <1>6, <1>7, <1>8, <1>9, <1>10, <1>11,
       <1>12, <1>13, <1>14
    DEF Next, ViThread, MainThread, GraphicsThread, AudioThread
-----------------------------------------------------------------------------
LEMMA AppendGfx ==
    ASSUME NEW q \in Seq(Task), NEW t \in Task
    PROVE  /\ HasGfx(Append(q, t)) <=> HasGfx(q) \/ t \in GfxTasks
           /\ OneGfx(q) /\ t \notin GfxTasks => OneGfx(Append(q, t))
           /\ ~HasGfx(q) => OneGfx(Append(q, t))
  <1> DEFINE r == Append(q, t)
  <1>1. /\ r \in Seq(Task) /\ Len(r) = Len(q) + 1 /\ r[Len(q) + 1] = t
        /\ Len(q) \in Nat
        /\ \A i \in 1..Len(q) : r[i] = q[i] /\ i \in 1..Len(r)
        /\ \A i \in 1..Len(r) : i \in 1..Len(q) \/ i = Len(q) + 1
    OBVIOUS
  <1> HIDE DEF r
  <1>2. HasGfx(r) <=> HasGfx(q) \/ t \in GfxTasks
    BY <1>1 DEF HasGfx
  <1>3. OneGfx(q) /\ t \notin GfxTasks => OneGfx(r)
    BY <1>1 DEF OneGfx
  <1>4. ~HasGfx(q) => OneGfx(r)
    BY <1>1 DEF OneGfx, HasGfx
  <1> QED
    BY <1>2, <1>3, <1>4 DEF r

LEMMA TailGfx ==
    ASSUME NEW q \in Seq(Task), q # << >>
    PROVE  /\ Head(q) \in Task /\ Tail(q) \in Seq(Task)
           /\ HasGfx(q) <=> Head(q) \in GfxTasks \/ HasGfx(Tail(q))
           /\ OneGfx(q) => OneGfx(Tail(q))
           /\ OneGfx(q) /\ Head(q) \in GfxTasks => ~HasGfx(Tail(q))
  <1> DEFINE r == Tail(q)
  <1>1. /\ Len(r) = Len(q) - 1 /\ Len(q) \in Nat /\ Len(q) >= 1
        /\ \A i \in 1..Len(r) : r[i] = q[i + 1] /\ i + 1 \in 1..Len(q)
        /\ \A i \in 1..Len(q) : i # 1 => i - 1 \in 1..Len(r) /\ r[i - 1] = q[i]
        /\ Head(q) = q[1] /\ 1 \in 1..Len(q)
        /\ Head(q) \in Task /\ r \in Seq(Task)
    OBVIOUS
  <1> HIDE DEF r
  <1>2. HasGfx(q) <=> Head(q) \in GfxTasks \/ HasGfx(r)
    BY <1>1 DEF HasGfx
  <1>3. OneGfx(q) => OneGfx(r)
    BY <1>1 DEF OneGfx
  <1>4. OneGfx(q) /\ Head(q) \in GfxTasks => ~HasGfx(r)
    BY <1>1 DEF OneGfx, HasGfx
  <1> QED
    BY <1>1, <1>2, <1>3, <1>4 DEF r

LEMMA NoGfxInEmpty == ~HasGfx(<< >>) /\ OneGfx(<< >>)
  BY DEF HasGfx, OneGfx

LEMMA TaskQueueTypes ==
    IInv => /\ taskQ \in Seq(Task) /\ pending \in Seq(Task)
            /\ gfxSlots \in Seq(GfxTasks) /\ gfxReplyQ \in Seq({"MESG_2"})
            /\ inFlight \in BOOLEAN
  BY DEF IInv, TypeOK, Queue

(* What each action does to the graphics tasks the scheduler holds.        *)
LEMMA GfxMoves ==
    ASSUME IInv, [Next]_vars
    PROVE  GfxInv' /\ AnswerMatchesTask'
  <1>i. GfxInv /\ AnswerMatchesTask /\ DpInv
    BY DEF IInv
  <1> USE DEF queueVars, mainVars, viVars, gfxVars, audioVars
  <1>1. CASE HandleRDP
    <2>1. gfxSlots # << >> /\ gfxSlots' = Tail(gfxSlots)
          /\ gfxReplyQ' = SendNoBlock(gfxReplyQ, GfxReplyCap, "MESG_2")
          /\ UNCHANGED <<taskQ, pending, inFlight, gfxPc>>
      BY <1>1, <1>i DEF HandleRDP, DpInv, DpComing, Handling
    <2>2. gfxSlots' = << >>
      BY <2>1, <1>i, TaskQueueTypes DEF GfxInv
    <2>3. ~HasGfx(taskQ) /\ ~HasGfx(pending) /\ inFlight /\ gfxReplyQ = << >>
      BY <2>1, <1>i DEF GfxInv, AnswerMatchesTask, GfxHeld
    <2>4. gfxReplyQ' # << >> /\ Len(gfxReplyQ') <= 1 /\ Len(gfxSlots') <= 1
      <3>1. HasRoom(gfxReplyQ, GfxReplyCap)
        BY <2>3, CapacityAssumption DEF HasRoom
      <3>2. gfxReplyQ' = Append(gfxReplyQ, "MESG_2")
        BY <2>1, <3>1 DEF SendNoBlock
      <3>3. Len(Append(gfxReplyQ, "MESG_2")) = 1 /\ Len(<< >>) = 0
        BY <2>3, TaskQueueTypes
      <3> QED
        BY <2>2, <3>2, <3>3
    <2> QED
      BY <1>i, <2>1, <2>2, <2>3, <2>4 DEF GfxInv, AnswerMatchesTask, GfxHeld
  <1>2. CASE AdmitHead
    <2>1. pending # << >> /\ pending' = Tail(pending) /\ Head(pending) \in Task
          /\ UNCHANGED <<taskQ, gfxReplyQ, inFlight, gfxPc>>
      BY <1>2, TaskQueueTypes, TailGfx DEF AdmitHead, HeadAdmissible
    <2>2. CASE Head(pending) \in GfxTasks
      <3>1. gfxSlots' = Append(gfxSlots, Head(pending))
        BY <1>2, <2>2, SlotHeads DEF AdmitHead
      <3>2. HasGfx(pending) /\ ~HasGfx(pending') /\ OneGfx(pending')
        BY <1>i, <2>1, <2>2, TaskQueueTypes, TailGfx DEF GfxInv
      <3>3. gfxSlots = << >> /\ ~HasGfx(taskQ)
        BY <1>i, <3>2 DEF GfxInv
      <3>4. gfxSlots' # << >> /\ Len(gfxSlots') <= 1
        BY <3>1, <3>3
      <3> QED
        BY <1>i, <2>1, <3>2, <3>3, <3>4 DEF GfxInv, AnswerMatchesTask, GfxHeld
    <2>3. CASE Head(pending) \notin GfxTasks
      <3>1. gfxSlots' = gfxSlots
        BY <1>2, <2>1, <2>3, SlotHeads DEF AdmitHead
      <3>2. (HasGfx(pending') <=> HasGfx(pending)) /\ OneGfx(pending')
        BY <1>i, <2>1, <2>3, TaskQueueTypes, TailGfx DEF GfxInv
      <3> QED
        BY <1>i, <2>1, <3>1, <3>2 DEF GfxInv, AnswerMatchesTask, GfxHeld
    <2> QED
      BY <2>2, <2>3
  <1>3. CASE DrainOne
    <2>1. taskQ # << >> /\ taskQ' = Tail(taskQ)
          /\ pending' = Append(pending, Head(taskQ))
          /\ UNCHANGED <<gfxSlots, gfxReplyQ, inFlight, gfxPc>>
      BY <1>3 DEF DrainOne
    <2>2. /\ Head(taskQ) \in Task
          /\ HasGfx(taskQ) <=> Head(taskQ) \in GfxTasks \/ HasGfx(taskQ')
          /\ OneGfx(taskQ')
          /\ Head(taskQ) \in GfxTasks => ~HasGfx(taskQ')
      BY <1>i, <2>1, TaskQueueTypes, TailGfx DEF GfxInv
    <2>3. /\ HasGfx(pending') <=> HasGfx(pending) \/ Head(taskQ) \in GfxTasks
          /\ OneGfx(pending) /\ Head(taskQ) \notin GfxTasks => OneGfx(pending')
          /\ ~HasGfx(pending) => OneGfx(pending')
      BY <2>1, <2>2, TaskQueueTypes, AppendGfx
    <2>4. GfxInv'
      BY <1>i, <2>1, <2>2, <2>3 DEF GfxInv
    <2>5. GfxHeld' <=> GfxHeld
      BY <2>1, <2>2, <2>3 DEF GfxHeld
    <2> QED
      BY <1>i, <2>1, <2>4, <2>5 DEF AnswerMatchesTask
  <1>4. CASE GfxWake
    <2>1. /\ UNCHANGED <<taskQ, pending, gfxSlots, gfxReplyQ, inFlight>>
          /\ gfxPc' # "notify"
          /\ gfxPc' = "submit" => ~inFlight
          /\ gfxPc' = "reply" => inFlight
      BY <1>4, TaskQueueTypes DEF GfxWake
    <2> QED
      BY <1>i, <2>1 DEF GfxInv, AnswerMatchesTask, GfxHeld
  <1>5. CASE GfxWaitForTask
    <2>1. gfxReplyQ # << >> /\ gfxReplyQ' = Tail(gfxReplyQ) /\ inFlight' = FALSE
          /\ gfxPc = "reply" /\ gfxPc' \in {"submit", "vblank"}
          /\ UNCHANGED <<taskQ, pending, gfxSlots>>
      BY <1>5 DEF GfxWaitForTask
    <2>2. inFlight /\ ~GfxHeld
      BY <1>i, <2>1 DEF GfxInv, AnswerMatchesTask
    <2>3. gfxReplyQ' = << >>
      BY <1>i, <2>1, TaskQueueTypes DEF AnswerMatchesTask
    <2> QED
      BY <1>i, <2>1, <2>2, <2>3 DEF GfxInv, AnswerMatchesTask, GfxHeld
  <1>6. CASE GfxSubmit
    <2>1. gfxPc = "submit" /\ inFlight' = TRUE /\ gfxPc' \in {"notify", "vblank"}
          /\ UNCHANGED <<pending, gfxSlots, gfxReplyQ>>
      BY <1>6 DEF GfxSubmit
    <2>2. PICK t \in GfxTasks : taskQ' = Append(taskQ, t)
      BY <1>6 DEF GfxSubmit
    <2>3. ~GfxHeld /\ gfxReplyQ = << >>
      BY <1>i, <2>1 DEF GfxInv, AnswerMatchesTask
    <2>4. HasGfx(taskQ') /\ OneGfx(taskQ')
      BY <2>2, <2>3, TaskQueueTypes, SlotHeads, AppendGfx DEF GfxHeld
    <2> QED
      BY <1>i, <2>1, <2>3, <2>4 DEF GfxInv, AnswerMatchesTask, GfxHeld
  <1>7. CASE GfxNotify
    BY <1>7, <1>i DEF GfxNotify, GfxInv, AnswerMatchesTask, GfxHeld
  <1>8. CASE AudioSend
    <2>1. taskQ' = Append(taskQ, audioTask) /\ audioTask \in AudioTasks
          /\ UNCHANGED <<pending, gfxSlots, gfxReplyQ, inFlight, gfxPc>>
      BY <1>8 DEF AudioSend, IInv, TypeOK
    <2>2. (HasGfx(taskQ') <=> HasGfx(taskQ)) /\ OneGfx(taskQ')
      BY <1>i, <2>1, TaskQueueTypes, SlotHeads, AppendGfx DEF GfxInv
    <2> QED
      BY <1>i, <2>1, <2>2 DEF GfxInv, AnswerMatchesTask, GfxHeld
  <1>9. CASE \/ ViLatch \/ ViSend \/ MainReceive \/ HandleVI \/ HandleTaskReady
             \/ HandleRSP \/ DrainDone \/ StartAudio \/ InterruptGfx
             \/ StartGfx \/ StartNothing \/ PostSP \/ PostDP
             \/ AudioBuild \/ AudioWaitVI \/ UNCHANGED vars
    <2>1. UNCHANGED <<taskQ, pending, gfxSlots, gfxReplyQ, inFlight, gfxPc>>
      BY <1>9 DEF ViLatch, ViSend, MainReceive, HandleVI, HandleTaskReady,
         HandleRSP, DrainDone, StartAudio, InterruptGfx, StartGfx,
         StartNothing, PostSP, PostDP, AudioBuild, AudioWaitVI, vars
    <2> QED
      BY <1>i, <2>1 DEF GfxInv, AnswerMatchesTask, GfxHeld
  <1> QED
    BY <1>1, <1>2, <1>3, <1>4, <1>5, <1>6, <1>7, <1>8, <1>9
    DEF Next, ViThread, MainThread, GraphicsThread, AudioThread
-----------------------------------------------------------------------------
LEMMA StepFresh ==
    ASSUME IInv, [Next]_vars
    PROVE  FreshInv'
  <1>i. FreshInv /\ GfxInv /\ DpInv
    BY DEF IInv
  <1> USE DEF queueVars, mainVars, viVars, gfxVars, audioVars
  <1>1. CASE HandleRSP
    <2>1. UNCHANGED <<pending, gfxSlots>>
      BY <1>1 DEF HandleRSP
    <2>2. CASE current = NULL
      BY <1>1, <1>i, <2>1, <2>2 DEF HandleRSP, FreshInv
    <2>3. CASE current # NULL
      <3>1. current' = NULL /\ state' = [state EXCEPT ![current] = "FINISHED"]
        BY <1>1, <2>3 DEF HandleRSP
      <3>2. current \in GfxTasks => ~HasGfx(pending)
        BY <1>i DEF GfxInv, DpInv
      <3>3. ASSUME NEW i \in 1..Len(pending), pending[i] \in GfxTasks
            PROVE  state'[pending[i]] = "NOT_STARTED"
        BY <1>i, <3>1, <3>2, <3>3, SlotHeads DEF FreshInv, HasGfx
      <3>4. gfxSlots # << >> =>
              state'[Head(gfxSlots)] \in {"NOT_STARTED", "FINISHED"}
        BY <1>i, <3>1, SlotHeads DEF FreshInv
      <3> QED
        BY <2>1, <3>3, <3>4 DEF FreshInv
    <2> QED
      BY <2>2, <2>3
  <1>2. CASE HandleRDP
    <2>1. /\ gfxSlots # << >> /\ gfxSlots' = Tail(gfxSlots)
          /\ UNCHANGED <<pending, current>>
          /\ state' = [state EXCEPT ![Head(gfxSlots)] = "FINISHED_DP"]
      BY <1>2, <1>i DEF HandleRDP, DpInv, DpComing, Handling
    <2>2. gfxSlots' = << >> /\ ~HasGfx(pending)
      BY <1>i, <2>1, TaskQueueTypes DEF GfxInv
    <2> QED
      BY <2>1, <2>2 DEF FreshInv, HasGfx
  <1>3. CASE AdmitHead
    <2>1. /\ pending # << >> /\ pending' = Tail(pending)
          /\ UNCHANGED <<state, current>>
      BY <1>3 DEF AdmitHead, HeadAdmissible
    <2>2. ASSUME NEW i \in 1..Len(pending'), pending'[i] \in GfxTasks
          PROVE  state'[pending'[i]] = "NOT_STARTED"
      <3>1. i + 1 \in 1..Len(pending) /\ pending'[i] = pending[i + 1]
        BY <2>1, <2>2, TaskQueueTypes
      <3> QED
        BY <1>i, <2>1, <2>2, <3>1 DEF FreshInv
    <2>3. CASE gfxSlots' = gfxSlots
      BY <1>i, <2>1, <2>2, <2>3 DEF FreshInv
    <2>4. CASE gfxSlots' # gfxSlots
      <3>1. gfxSlots' = Append(gfxSlots, Head(pending))
        BY <1>3, <2>4 DEF AdmitHead
      <3>2. /\ Head(pending) \in GfxTasks /\ Head(pending) = pending[1]
            /\ 1 \in 1..Len(pending)
        BY <1>3, <2>1, <2>4, TaskQueueTypes, SlotHeads DEF AdmitHead
      <3>3. gfxSlots = << >>
        BY <1>i, <3>2 DEF GfxInv, HasGfx
      <3>4. Head(gfxSlots') = Head(pending)
        BY <3>1, <3>3
      <3> QED
        BY <1>i, <2>1, <2>2, <3>2, <3>4 DEF FreshInv
    <2> QED
      BY <2>3, <2>4
  <1>4. CASE DrainOne
    <2>1. /\ taskQ # << >> /\ pending' = Append(pending, Head(taskQ))
          /\ UNCHANGED <<gfxSlots, current>>
          /\ state' = [state EXCEPT ![Head(taskQ)] = "NOT_STARTED"]
      BY <1>4 DEF DrainOne
    <2>2. Head(taskQ) \in Task
      BY <2>1, TaskQueueTypes
    <2>3. ASSUME NEW i \in 1..Len(pending'), pending'[i] \in GfxTasks
          PROVE  state'[pending'[i]] = "NOT_STARTED"
      <3>1. \/ pending'[i] = Head(taskQ)
            \/ i \in 1..Len(pending) /\ pending'[i] = pending[i]
        BY <2>1, <2>2, <2>3, TaskQueueTypes
      <3> QED
        BY <1>i, <2>1, <2>2, <2>3, <3>1, SlotHeads DEF FreshInv
    <2>4. gfxSlots # << >> => \/ current = Head(gfxSlots)
                 \/ state'[Head(gfxSlots)] \in {"NOT_STARTED", "FINISHED"}
      BY <1>i, <2>1, <2>2, SlotHeads DEF FreshInv
    <2> QED
      BY <2>1, <2>3, <2>4 DEF FreshInv
  <1>5. CASE InterruptGfx \/ PostSP \/ PostDP
    <2>1. UNCHANGED <<pending, gfxSlots, current>>
      BY <1>5 DEF InterruptGfx, PostSP, PostDP
    <2>2. current \in GfxTasks => ~HasGfx(pending) /\ current = Head(gfxSlots)
      BY <1>i DEF GfxInv, DpInv
    <2>3. \A t \in GfxTasks : t # current => state'[t] = state[t]
      BY <1>5, SlotHeads DEF InterruptGfx, PostSP, PostDP
    <2>4. ASSUME NEW i \in 1..Len(pending), pending[i] \in GfxTasks
          PROVE  state'[pending[i]] = "NOT_STARTED"
      BY <1>i, <2>2, <2>3, <2>4 DEF FreshInv, HasGfx
    <2> QED
      BY <1>i, <2>1, <2>2, <2>3, <2>4, SlotHeads DEF FreshInv
  <1>6. CASE StartAudio \/ StartGfx
    <2>1. UNCHANGED <<pending, gfxSlots, state>> /\ current = NULL
      BY <1>6 DEF StartAudio, StartGfx, MayStartGfx
    <2> QED
      BY <1>i, <2>1, SlotHeads DEF FreshInv
  <1>7. CASE \/ ViLatch \/ ViSend \/ MainReceive \/ HandleVI \/ HandleTaskReady
             \/ DrainDone \/ StartNothing \/ GfxWake \/ GfxWaitForTask
             \/ GfxSubmit \/ GfxNotify
             \/ AudioBuild \/ AudioSend \/ AudioWaitVI \/ UNCHANGED vars
    <2>1. UNCHANGED <<pending, gfxSlots, state, current>>
      BY <1>7 DEF ViLatch, ViSend, MainReceive, HandleVI, HandleTaskReady,
         DrainDone, StartNothing, GfxWake, GfxWaitForTask, GfxSubmit,
         GfxNotify, AudioBuild, AudioSend, AudioWaitVI, vars
    <2> QED
      BY <1>i, <2>1 DEF FreshInv
  <1> QED
    BY <1>1, <1>2, <1>3, <1>4, <1>5, <1>6, <1>7
    DEF Next, ViThread, MainThread, GraphicsThread, AudioThread
-----------------------------------------------------------------------------
LEMMA StepReady ==
    ASSUME IInv, [Next]_vars
    PROVE  ReadyInv'
  <1>i. ReadyInv /\ DpInv /\ GfxInv /\ AnswerMatchesTask
    BY DEF IInv
  <1>a. AnswerMatchesTask' /\ GfxInv'
    BY GfxMoves
  <1> USE DEF queueVars, mainVars, viVars, gfxVars, audioVars
  <1>1. CASE GfxNotify
    <2>1. mainQ' = Append(mainQ, "TASK_READY")
      BY <1>1, Posted DEF GfxNotify
    <2>2. gfxPc = "notify" /\ gfxPc' = "vblank" /\ UNCHANGED <<mainPc, mainMsg>>
          /\ (GfxHeld' <=> GfxHeld)
      BY <1>1 DEF GfxNotify, GfxHeld
    <2>3. /\ AtMostTwo(mainQ', "TASK_READY") /\ OneReadyAfterDp(mainQ')
          /\ ~Holds(mainQ, "TASK_READY") => AtMostOne(mainQ', "TASK_READY")
      BY <1>i, <2>1, <2>2, MainQueueType, MainAppend DEF ReadyInv
    <2> QED
      BY <1>i, <2>2, <2>3 DEF ReadyInv, Handling
  <1>2. CASE ViSend \/ PostSP \/ PostDP
    <2>1. \E m \in {"VI", "SP", "DP"} : mainQ' = Append(mainQ, m)
      BY <1>2, Posted DEF ViSend, PostSP, PostDP
    <2>2. /\ UNCHANGED gfxPc
          /\ Handling("DP")' => Handling("DP")
      BY <1>2 DEF ViSend, PostSP, PostDP, Handling
    <2>3. UNCHANGED <<taskQ, pending, gfxSlots, gfxPc>>
      BY <1>2 DEF ViSend, PostSP, PostDP
    <2>4. /\ AtMostTwo(mainQ', "TASK_READY") /\ OneReadyAfterDp(mainQ')
          /\ NoReadyAfterDp(mainQ) => NoReadyAfterDp(mainQ')
          /\ AtMostOne(mainQ, "TASK_READY") => AtMostOne(mainQ', "TASK_READY")
          /\ Holds(mainQ', "TASK_READY") <=> Holds(mainQ, "TASK_READY")
      BY <1>i, <2>1, MainQueueType, MainAppend DEF ReadyInv
    <2> QED
      BY <1>i, <2>2, <2>3, <2>4 DEF ReadyInv, GfxHeld
  <1>3. CASE MainReceive
    <2>1. /\ mainQ # << >> /\ mainQ' = Tail(mainQ) /\ mainMsg' = Head(mainQ)
          /\ UNCHANGED <<taskQ, pending, gfxSlots, gfxPc>>
      BY <1>3 DEF MainReceive
    <2>2. /\ AtMostTwo(mainQ', "TASK_READY") /\ OneReadyAfterDp(mainQ')
          /\ NoReadyAfterDp(mainQ) => NoReadyAfterDp(mainQ')
          /\ AtMostOne(mainQ, "TASK_READY") => AtMostOne(mainQ', "TASK_READY")
          /\ Holds(mainQ', "TASK_READY") => Holds(mainQ, "TASK_READY")
          /\ Head(mainQ) = "DP" => AtMostOne(mainQ', "TASK_READY")
          /\ Head(mainQ) = "DP" /\ NoReadyAfterDp(mainQ)
               => ~Holds(mainQ', "TASK_READY")
      BY <1>i, <2>1, MainQueueType, MainTail DEF ReadyInv
    <2> QED
      BY <1>i, <2>1, <2>2 DEF ReadyInv, GfxHeld, Handling
  <1>4. CASE GfxSubmit
    <2>1. gfxPc = "submit" /\ UNCHANGED <<mainQ, mainPc, mainMsg>>
      BY <1>4 DEF GfxSubmit
    <2>2. ~GfxHeld /\ GfxHeld' /\ ~Handling("DP") /\ ~Holds(mainQ, "DP")
      <3>1. ~GfxHeld
        BY <1>i, <2>1 DEF GfxInv, AnswerMatchesTask
      <3>2. GfxHeld'
        BY <1>4, <1>i, <1>a, <2>1 DEF GfxSubmit, AnswerMatchesTask, GfxInv
      <3> QED
        BY <1>i, <3>1, <3>2 DEF DpInv, DpComing, GfxHeld
    <2>3. NoReadyAfterDp(mainQ) /\ AtMostOne(mainQ, "TASK_READY")
      BY <1>i, <2>2 DEF ReadyInv, NoReadyAfterDp, Holds
    <2> QED
      BY <1>i, <2>1, <2>2, <2>3 DEF ReadyInv, Handling
  <1>5. CASE HandleRDP
    <2>1. /\ Handling("DP") /\ ~Handling("DP")' /\ UNCHANGED <<mainQ, gfxPc>>
      BY <1>5 DEF HandleRDP, Handling
    <2> QED
      BY <1>i, <2>1 DEF ReadyInv
  <1>6. CASE AdmitHead \/ DrainOne \/ AudioSend \/ GfxWake \/ GfxWaitForTask
    <2>1. /\ mainQ' = mainQ /\ gfxPc' = "notify" => gfxPc = "notify"
      BY <1>6 DEF AdmitHead, DrainOne, AudioSend, GfxWake, GfxWaitForTask
    <2>2. UNCHANGED <<mainQ, mainPc, mainMsg>>
      BY <1>6 DEF AdmitHead, DrainOne, AudioSend, GfxWake, GfxWaitForTask
    <2>3. UNCHANGED <<inFlight, gfxReplyQ>> \/ ~GfxHeld
      <3>1. CASE GfxWaitForTask
        BY <1>i, <3>1 DEF GfxWaitForTask, GfxInv, AnswerMatchesTask
      <3> QED
        BY <1>6, <3>1 DEF AdmitHead, DrainOne, AudioSend, GfxWake
    <2>4. ~GfxHeld' => ~GfxHeld
      BY <1>i, <1>a, <2>3 DEF AnswerMatchesTask
    <2> QED
      BY <1>i, <2>1, <2>2, <2>4 DEF ReadyInv, Handling
  <1>7. CASE \/ ViLatch \/ HandleVI \/ HandleTaskReady \/ HandleRSP
             \/ DrainDone \/ StartAudio \/ InterruptGfx \/ StartGfx
             \/ StartNothing \/ AudioBuild \/ AudioWaitVI \/ UNCHANGED vars
    <2>1. UNCHANGED <<mainQ, taskQ, pending, gfxSlots, gfxPc>>
      BY <1>7 DEF ViLatch, HandleVI, HandleTaskReady,
         HandleRSP, DrainDone, StartAudio, InterruptGfx, StartGfx,
         StartNothing, AudioBuild, AudioWaitVI, vars
    <2>2. mainPc' # "handle" \/ UNCHANGED <<mainPc, mainMsg>>
      BY <1>7 DEF ViLatch, HandleVI, HandleTaskReady,
         HandleRSP, DrainDone, StartAudio, InterruptGfx, StartGfx,
         StartNothing, AudioBuild, AudioWaitVI, vars
    <2> QED
      BY <1>i, <2>1, <2>2 DEF ReadyInv, GfxHeld, Handling
  <1> QED
    BY <1>1, <1>2, <1>3, <1>4, <1>5, <1>6, <1>7
    DEF Next, ViThread, MainThread, GraphicsThread, AudioThread
-----------------------------------------------------------------------------
LEMMA InitInv == Init => IInv
  <1> SUFFICES ASSUME Init PROVE IInv
    OBVIOUS
  <1>1. TypeOK
    BY InitType
  <1>2. ~Holds(<< >>, "VI") /\ ~Holds(<< >>, "SP") /\ ~Holds(<< >>, "DP")
        /\ ~Holds(<< >>, "TASK_READY")
    BY DEF Holds
  <1>3. /\ AtMostOne(<< >>, "VI") /\ AtMostOne(<< >>, "SP")
        /\ AtMostOne(<< >>, "DP") /\ AtMostOne(<< >>, "TASK_READY")
        /\ AtMostTwo(<< >>, "TASK_READY")
    BY DEF AtMostOne, AtMostTwo
  <1>4. DpAfterSp(<< >>) /\ NoReadyAfterDp(<< >>) /\ OneReadyAfterDp(<< >>)
    BY DEF DpAfterSp, NoReadyAfterDp, OneReadyAfterDp
  <1>5. Len(<< >>) = 0
    OBVIOUS
  <1>6. NULL \notin GfxTasks
    BY TasksAssumption DEF Task
  <1>7. ViInv /\ SpInv /\ DpInv /\ ReadyInv
    BY <1>2, <1>3, <1>4, <1>6
    DEF Init, ViInv, SpInv, DpInv, ReadyInv, DpComing, Handling
  <1>8. GfxInv /\ AnswerMatchesTask /\ FreshInv
    BY <1>5, NoGfxInEmpty DEF Init, GfxInv, AnswerMatchesTask, FreshInv, GfxHeld
  <1> QED
    BY <1>1, <1>7, <1>8 DEF IInv

LEMMA StepInv == IInv /\ [Next]_vars => IInv'
  <1> SUFFICES ASSUME IInv, [Next]_vars PROVE IInv'
    OBVIOUS
  <1>1. TypeOK'
    BY StepType DEF IInv
  <1> QED
    BY <1>1, StepVi, StepSp, StepDp, GfxMoves, StepFresh, StepReady DEF IInv

LEMMA Inductive == Spec => []IInv
  BY InitInv, StepInv, PTL DEF Spec

(* No event posted to the main queue is ever dropped: five slots suffice   *)
(* whatever the interleaving, and the code has thirty-two.                 *)
THEOREM EventsNeverDropped == Spec => []NoEventDropped
  BY Inductive, RoomForEvents, PTL

(* The graphics tasks of the whole scheduler, counted by position.         *)
LEMMA ConcatGfx ==
    ASSUME NEW p \in Seq(Task), NEW q \in Seq(Task),
           OneGfx(p), OneGfx(q), HasGfx(p) => ~HasGfx(q)
    PROVE  /\ p \o q \in Seq(Task) /\ OneGfx(p \o q)
           /\ HasGfx(p \o q) <=> HasGfx(p) \/ HasGfx(q)
  <1> DEFINE r == p \o q
  <1>0. /\ r \in Seq(Task)
        /\ Len(r) = Len(p) + Len(q) /\ Len(p) \in Nat /\ Len(q) \in Nat
        /\ \A i \in 1..Len(r) : r[i] = IF i <= Len(p) THEN p[i] ELSE q[i - Len(p)]
    OBVIOUS
  <1> HIDE DEF r
  <1>4. \A i \in 1..Len(p) : i \in 1..Len(r) /\ r[i] = p[i]
    BY <1>0
  <1>5. ASSUME NEW i \in 1..Len(q)
        PROVE  i + Len(p) \in 1..Len(r) /\ r[i + Len(p)] = q[i]
    <2>1. i + Len(p) \in 1..Len(r) /\ ~(i + Len(p) <= Len(p)) /\ (i + Len(p)) - Len(p) = i
      BY <1>0
    <2> QED
      BY <1>0, <2>1
  <1>6. ASSUME NEW i \in 1..Len(r)
        PROVE  \/ i \in 1..Len(p) /\ r[i] = p[i]
               \/ i - Len(p) \in 1..Len(q) /\ r[i] = q[i - Len(p)]
    <2>1. CASE i <= Len(p)
      BY <1>0, <2>1
    <2>2. CASE ~(i <= Len(p))
      BY <1>0, <2>2
    <2> QED
      BY <2>1, <2>2
  <1>2. HasGfx(r) <=> HasGfx(p) \/ HasGfx(q)
    BY <1>4, <1>5, <1>6 DEF HasGfx
  <1>3. ASSUME NEW i \in 1..Len(r), NEW j \in 1..Len(r),
               r[i] \in GfxTasks, r[j] \in GfxTasks
        PROVE  i = j
    <2>1. CASE i \in 1..Len(p) /\ r[i] = p[i]
      BY <1>4, <1>5, <1>6, <1>3, <2>1 DEF OneGfx, HasGfx
    <2>2. CASE i - Len(p) \in 1..Len(q) /\ r[i] = q[i - Len(p)]
      <3>1. HasGfx(q) /\ ~HasGfx(p)
        BY <1>3, <2>2 DEF HasGfx
      <3>2. j - Len(p) \in 1..Len(q) /\ r[j] = q[j - Len(p)]
        BY <1>4, <1>5, <1>6, <1>3, <3>1 DEF HasGfx
      <3>3. i - Len(p) = j - Len(p)
        BY <1>3, <2>2, <3>2 DEF OneGfx
      <3> QED
        BY <1>0, <3>3
    <2> QED
      BY <1>4, <1>5, <1>6, <2>1, <2>2
  <1> QED
    BY <1>0, <1>2, <1>3 DEF OneGfx, r

LEMMA OneHeld == IInv => OneGfx(Held)
  <1> SUFFICES ASSUME IInv PROVE OneGfx(Held)
    OBVIOUS
  <1>1. /\ taskQ \in Seq(Task) /\ pending \in Seq(Task)
        /\ gfxSlots \in Seq(GfxTasks) /\ gfxSlots \in Seq(Task)
        /\ audioSlots \in Seq(AudioTasks) /\ audioSlots \in Seq(Task)
    BY DEF IInv, TypeOK, Queue, Task
  <1>2. OneGfx(gfxSlots) /\ (gfxSlots = << >> => ~HasGfx(gfxSlots))
    BY <1>1 DEF IInv, GfxInv, OneGfx, HasGfx
  <1>3. OneGfx(audioSlots) /\ ~HasGfx(audioSlots)
    BY <1>1, TasksAssumption DEF OneGfx, HasGfx
  <1>4. /\ taskQ \o pending \in Seq(Task) /\ OneGfx(taskQ \o pending)
        /\ HasGfx(taskQ \o pending) => gfxSlots = << >>
    BY <1>1, ConcatGfx DEF IInv, GfxInv
  <1>5. /\ (taskQ \o pending) \o gfxSlots \in Seq(Task)
        /\ OneGfx((taskQ \o pending) \o gfxSlots)
    BY <1>1, <1>2, <1>4, ConcatGfx
  <1> QED
    BY <1>1, <1>3, <1>5, ConcatGfx DEF Held

(* A graphics task is never in two places of the scheduler, nor twice in   *)
(* one.                                                                    *)
THEOREM HeldOnce == Spec => []TaskHeldOnce
  <1>1. IInv => TaskHeldOnce
    BY OneHeld DEF TaskHeldOnce, OneGfx
  <1> QED
    BY <1>1, Inductive, PTL

(* The graphics thread's in-flight flag, the scheduler's slots and the     *)
(* answer queue always agree.                                              *)
THEOREM AnswersMatch == Spec => []AnswerMatchesTask
  <1>1. IInv => AnswerMatchesTask
    BY DEF IInv
  <1> QED
    BY <1>1, Inductive, PTL

(* A graphics task is only ever started from NOT_STARTED.                  *)
THEOREM NeverStartedTwice == Spec => StartedOncePerSubmission
  <1>1. ASSUME IInv, [Next]_vars, current' # current, current' \in GfxTasks
        PROVE  state[current'] = "NOT_STARTED"
    <2>1. StartGfx
      <3>1. current' # NULL /\ ~StartAudio /\ ~HandleRSP
        BY <1>1, SlotHeads DEF StartAudio, HandleRSP, queueVars
      <3> QED
        BY <1>1, <3>1
        DEF Next, ViThread, MainThread, GraphicsThread, AudioThread,
            ViLatch, ViSend, MainReceive, HandleVI, HandleTaskReady, HandleRDP,
            AdmitHead, DrainOne, DrainDone, InterruptGfx, StartNothing, PostSP,
            PostDP, GfxWake, GfxWaitForTask, GfxSubmit, GfxNotify, AudioBuild,
            AudioSend, AudioWaitVI, vars, queueVars, mainVars
    <2> QED
      BY <1>1, <2>1, SlotHeads DEF StartGfx, MayStartGfx, IInv, FreshInv
  <1>2. IInv /\ [Next]_vars
        => [current' # current /\ current' \in GfxTasks
              => state[current'] = "NOT_STARTED"]_vars
    BY <1>1
  <1> QED
    BY <1>2, Inductive, PTL DEF Spec, StartedOncePerSubmission
=============================================================================
