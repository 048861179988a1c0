-------------------------- MODULE GraphicsLoopProofs --------------------------
(***************************************************************************)
(* For every VI counter, rate and bound: the renderer never sees a pool    *)
(* change under it, and what is submitted is the frame simulated last.     *)
(* Then, placing every VI by its distance from the newest sample (At): the *)
(* types, that the motion shown never goes back, and that a frame built in *)
(* steady conditions is always interpolated.                               *)
(***************************************************************************)
EXTENDS GraphicsLoop, TLAPS

(* What the loop's locals know about the renderer: a task being drawn is   *)
(* the one in flight, its answer is still to come, and the pool it is      *)
(* interpolated from is remembered.                                        *)
FlightInv ==
    drawing # NONE =>
        /\ taskInFlight /\ ~answered
        /\ inFlightTask = drawing
        /\ presentation.interpolated => inFlightDependency = Other(drawing)

(* The pool being built is not being read.                                 *)
BuildInv == pc = "building" => frame \notin Reading

(* Between two builds the frame to present is the one simulated last.      *)
NewestInv == pc # "building" => TaskToPresent = frame

TasksInv ==
    /\ frame \in Pool
    /\ drawing \in Pool \union {NONE}
    /\ sPools = [p \in Pool |-> sPools[p]]

IInv == TasksInv /\ FlightInv /\ BuildInv /\ NewestInv

LEMMA OtherPool == \A p \in Pool : Other(p) \in Pool /\ Other(p) # p
  BY LoopAssumption DEF Pool, Other

LEMMA InitInv == Init => IInv
  <1> SUFFICES ASSUME Init PROVE IInv
    OBVIOUS
  <1>1. TasksInv
    BY DEF Init, TasksInv
  <1>2. FlightInv
    BY DEF Init, FlightInv, Plain
  <1>3. BuildInv /\ NewestInv
    BY DEF Init, BuildInv, NewestInv, TaskToPresent
  <1> QED
    BY <1>1, <1>2, <1>3 DEF IInv

(* A wait that has succeeded leaves no task with the renderer.             *)
LEMMA WaitDrains == FlightInv /\ TaskAnswered => drawing = NONE
  BY DEF FlightInv, TaskAnswered

(* A pool that need not be waited for is not being read.                   *)
LEMMA FreePool ==
  ASSUME TasksInv, FlightInv, ~MustWaitFor(Other(frame))
  PROVE  Other(frame) \notin Reading
  BY OtherPool DEF TasksInv, FlightInv, MustWaitFor, Reading

LEMMA StepTasks == IInv /\ [Next]_vars => TasksInv'
  <1> SUFFICES ASSUME IInv, [Next]_vars PROVE TasksInv'
    OBVIOUS
  <1> USE DEF IInv, TasksInv
  <1>1. CASE Wake \/ RequestExit \/ ExitFromLoop \/ ExitFromBoot
    BY <1>1 DEF Wake, RequestExit, ExitFromLoop, ExitFromBoot, poolVars,
       serviceVars
  <1>2. CASE Boundary
    BY <1>2 DEF Boundary
  <1>3. CASE BuildBegin
    BY <1>3, OtherPool DEF BuildBegin
  <1>4. CASE BuildEnd
    BY <1>4 DEF BuildEnd, serviceVars
  <1>5. CASE Present
    <2>1. TaskToPresent = frame
      BY <1>5 DEF Present, NewestInv
    <2> QED
      BY <1>5, <2>1 DEF Present, poolVars
  <1>6. CASE RenderDone
    BY <1>6 DEF RenderDone, poolVars
  <1>7. CASE UNCHANGED vars
    BY <1>7 DEF vars, poolVars, serviceVars
  <1> QED
    BY <1>1, <1>2, <1>3, <1>4, <1>5, <1>6, <1>7 DEF Next, Loop

LEMMA StepFlight == IInv /\ [Next]_vars => FlightInv'
  <1> SUFFICES ASSUME IInv, [Next]_vars PROVE FlightInv'
    OBVIOUS
  <1> USE DEF IInv, FlightInv
  <1>1. CASE Wake \/ RequestExit \/ ExitFromBoot
    BY <1>1 DEF Wake, RequestExit, ExitFromBoot, serviceVars, flightVars
  <1>2. CASE Boundary \/ ExitFromLoop
    BY <1>2, WaitDrains DEF Boundary, ExitFromLoop, WaitForTask
  <1>3. CASE BuildBegin
    BY <1>3, WaitDrains DEF BuildBegin, WaitForTask, flightVars
  <1>4. CASE BuildEnd
    BY <1>4 DEF BuildEnd, serviceVars, flightVars
  <1>5. CASE Present
    BY <1>5 DEF Present
  <1>6. CASE RenderDone
    BY <1>6 DEF RenderDone
  <1>7. CASE UNCHANGED vars
    BY <1>7 DEF vars, serviceVars, flightVars
  <1> QED
    BY <1>1, <1>2, <1>3, <1>4, <1>5, <1>6, <1>7 DEF Next, Loop

LEMMA StepBuild == IInv /\ [Next]_vars => BuildInv'
  <1> SUFFICES ASSUME IInv, [Next]_vars PROVE BuildInv'
    OBVIOUS
  <1> USE DEF IInv, BuildInv
  <1>1. CASE Wake \/ Boundary \/ BuildEnd \/ Present
    BY <1>1 DEF Wake, Boundary, BuildEnd, Present
  <1>2. CASE BuildBegin
    <2>1. Other(frame) \notin Reading
      BY <1>2, FreePool, WaitDrains DEF BuildBegin, WaitForTask, Reading
    <2> QED
      BY <1>2, <2>1 DEF BuildBegin, Reading
  <1>3. CASE RequestExit \/ ExitFromLoop \/ ExitFromBoot
    BY <1>3 DEF RequestExit, ExitFromLoop, ExitFromBoot, serviceVars, poolVars,
       Reading
  <1>4. CASE RenderDone
    BY <1>4 DEF RenderDone, Reading
  <1>5. CASE UNCHANGED vars
    BY <1>5 DEF vars, serviceVars, poolVars, Reading
  <1> QED
    BY <1>1, <1>2, <1>3, <1>4, <1>5 DEF Next, Loop

LEMMA StepNewest == IInv /\ [Next]_vars => NewestInv'
  <1> SUFFICES ASSUME IInv, [Next]_vars PROVE NewestInv'
    OBVIOUS
  <1> USE DEF IInv, NewestInv, TaskToPresent
  <1>1. CASE Wake \/ RequestExit \/ ExitFromLoop \/ ExitFromBoot \/ RenderDone
    BY <1>1 DEF Wake, RequestExit, ExitFromLoop, ExitFromBoot, RenderDone,
       poolVars, taskVars
  <1>2. CASE Boundary
    BY <1>2 DEF Boundary, taskVars
  <1>3. CASE BuildBegin
    BY <1>3 DEF BuildBegin
  <1>4. CASE BuildEnd
    BY <1>4, LoopAssumption DEF BuildEnd, TasksInv
  <1>5. CASE Present
    BY <1>5 DEF Present, poolVars
  <1>6. CASE UNCHANGED vars
    BY <1>6 DEF vars, poolVars, taskVars
  <1> QED
    BY <1>1, <1>2, <1>3, <1>4, <1>5, <1>6 DEF Next, Loop

LEMMA Inductive == Spec => []IInv
  <1>1. IInv /\ [Next]_vars => IInv'
    BY StepTasks, StepFlight, StepBuild, StepNewest DEF IInv
  <1> QED
    BY InitInv, <1>1, PTL DEF Spec

(* Nothing the renderer reads changes while it draws.                      *)
THEOREM DrawnDataIsStable == Spec => DrawnDataStable
  <1> DEFINE Stable ==
        drawing # NONE /\ drawing' # NONE
        => /\ UNCHANGED presentation
           /\ \A p \in Reading : sPools'[p] = sPools[p]
  <1>1. ASSUME IInv, Next PROVE Stable
    <2> SUFFICES ASSUME drawing # NONE, drawing' # NONE
                 PROVE  /\ UNCHANGED presentation
                        /\ \A p \in Reading : sPools'[p] = sPools[p]
      OBVIOUS
    <2> USE <1>1 DEF IInv
    <2>1. CASE Wake \/ RequestExit \/ ExitFromLoop \/ ExitFromBoot
      BY <2>1 DEF Wake, RequestExit, ExitFromLoop, ExitFromBoot, serviceVars,
         poolVars
    <2>2. CASE Boundary \/ Present
      BY <2>2, WaitDrains DEF Boundary, Present, WaitForTask
    <2>3. CASE BuildBegin
      <3>1. Other(frame) \notin Reading
        BY <2>3, FreePool, WaitDrains DEF BuildBegin, WaitForTask
      <3>2. Reading \subseteq Pool
        BY OtherPool DEF Reading, TasksInv
      <3> QED
        BY <2>3, <3>1, <3>2 DEF BuildBegin, TasksInv
    <2>4. CASE BuildEnd
      <3>1. frame \notin Reading
        BY <2>4 DEF BuildEnd, BuildInv
      <3>2. Reading \subseteq Pool
        BY OtherPool DEF Reading, TasksInv
      <3> QED
        BY <2>4, <3>1, <3>2 DEF BuildEnd, TasksInv, serviceVars
    <2>5. CASE RenderDone
      BY <2>5 DEF RenderDone
    <2> QED
      BY <2>1, <2>2, <2>3, <2>4, <2>5 DEF Next, Loop
  <1>2. IInv /\ [Next]_vars => [Stable]_vars
    BY <1>1
  <1> QED
    BY Inductive, <1>2, PTL DEF Spec, DrawnDataStable

(* The frame submitted is the one simulated last.                          *)
THEOREM NewestIsSubmitted == Spec => SubmitsNewest
  <1> DEFINE Newest ==
        drawing = NONE /\ drawing' # NONE
        => drawing' = frame /\ UNCHANGED sPools
  <1>1. ASSUME IInv, Next PROVE Newest
    <2> SUFFICES ASSUME drawing = NONE, drawing' # NONE
                 PROVE  drawing' = frame /\ UNCHANGED sPools
      OBVIOUS
    <2> USE <1>1 DEF IInv
    <2>1. CASE Wake \/ RequestExit \/ ExitFromLoop \/ ExitFromBoot
                \/ RenderDone \/ Boundary \/ BuildBegin \/ BuildEnd
      BY <2>1 DEF Wake, RequestExit, ExitFromLoop, ExitFromBoot, RenderDone,
         Boundary, BuildBegin, BuildEnd, serviceVars
    <2>2. CASE Present
      BY <2>2 DEF Present, NewestInv, poolVars
    <2> QED
      BY <2>1, <2>2 DEF Next, Loop
  <1>2. IInv /\ [Next]_vars => [Newest]_vars
    BY <1>1
  <1> QED
    BY Inductive, <1>2, PTL DEF Spec, SubmitsNewest
-----------------------------------------------------------------------------
(* How far a is after b, on the nearer side of the wrapping counter.       *)
Gap(a, b) ==
    LET ahead == Minus(a, b)
    IN  IF ahead < VIMod \div 2 THEN ahead ELSE ahead - VIMod

Half == VIMod \div 2

LEMMA ModType == Half \in Nat /\ Half > 4 /\ VIMod = 2 * Half
  BY VIModAssumption DEF Half

LEMMA Wraps ==
  ASSUME NEW n \in Nat, NEW x \in Int, n > 0
  PROVE  /\ x % n \in 0..(n - 1)
         /\ 0 <= x /\ x < n => x % n = x
         /\ n <= x /\ x < 2 * n => x % n = x - n
         /\ -n <= x /\ x < 0 => x % n = x + n
  OBVIOUS

LEMMA PlusMinusType ==
  /\ \A a, n \in Int : Plus(a, n) \in VIs /\ Minus(a, n) \in VIs
  /\ VIs \subseteq Int /\ 0 \in VIs
  BY ModType, Wraps DEF Plus, Minus, VIs

(* The gap, without the wrap.                                              *)
LEMMA GapIs ==
  ASSUME NEW a \in VIs, NEW b \in VIs
  PROVE  /\ Gap(a, b) \in Int /\ -Half <= Gap(a, b) /\ Gap(a, b) < Half
         /\ Minus(a, b) = IF Gap(a, b) >= 0 THEN Gap(a, b)
                                            ELSE Gap(a, b) + VIMod
         /\ \/ a - b = Gap(a, b)
            \/ a - b = Gap(a, b) + VIMod
            \/ a - b = Gap(a, b) - VIMod
         /\ Gap(a, b) = 0 <=> a = b
  <1>1. a - b \in Int /\ -VIMod <= a - b /\ a - b < VIMod
    BY ModType DEF VIs
  <1>2. Minus(a, b) = IF a >= b THEN a - b ELSE a - b + VIMod
    BY <1>1, ModType, Wraps DEF Minus, VIs
  <1> QED
    BY <1>1, <1>2, ModType DEF Gap, Half, VIs

LEMMA NearerSide ==
  ASSUME NEW h \in Nat, NEW x \in Int, NEW g \in Int, NEW f \in Int, h > 4,
         -h <= g, g < h, -h <= f, f < h,
         x = g \/ x = g + 2 * h \/ x = g - 2 * h,
         x = f \/ x = f + 2 * h \/ x = f - 2 * h
  PROVE  g = f
  OBVIOUS

LEMMA NearerSum ==
  ASSUME NEW h \in Nat, NEW a \in 0..(2 * h - 1), NEW b \in 0..(2 * h - 1),
         NEW p \in 0..(2 * h - 1), NEW g \in Int, NEW n \in Int,
         h > 4, -h <= g + n, g + n < h,
         a - b = g \/ a - b = g + 2 * h \/ a - b = g - 2 * h,
         p - a = n \/ p - a = n + 2 * h \/ p - a = n - 2 * h
  PROVE  p - b = g + n \/ p - b = g + n + 2 * h \/ p - b = g + n - 2 * h
  OBVIOUS

(* What is n after a is n more after b, while it stays on the nearer side. *)
LEMMA GapShift ==
  ASSUME NEW a \in VIs, NEW b \in VIs, NEW p \in VIs, NEW n \in Int,
         -Half <= Gap(a, b) + n, Gap(a, b) + n < Half,
         p - a = n \/ p - a = n + VIMod \/ p - a = n - VIMod
  PROVE  Gap(p, b) = Gap(a, b) + n
  <1> DEFINE g == Gap(a, b)
             f == Gap(p, b)
  <1>1. /\ Half \in Nat /\ Half > 4 /\ VIMod = 2 * Half
        /\ VIs = 0..(2 * Half - 1)
    BY ModType DEF VIs
  <1>2. g \in Int /\ f \in Int /\ -Half <= f /\ f < Half
    BY GapIs
  <1>3. a - b = g \/ a - b = g + 2 * Half \/ a - b = g - 2 * Half
    BY GapIs, <1>1
  <1>4. p - b = f \/ p - b = f + 2 * Half \/ p - b = f - 2 * Half
    BY GapIs, <1>1
  <1>5. p - a = n \/ p - a = n + 2 * Half \/ p - a = n - 2 * Half
    BY <1>1
  <1>6. -Half <= g + n /\ g + n < Half
    OBVIOUS
  <1> HIDE DEF g, f
  <1>7. \/ p - b = g + n \/ p - b = g + n + 2 * Half
        \/ p - b = g + n - 2 * Half
    BY <1>1, <1>2, <1>3, <1>5, <1>6, NearerSum
  <1>8. p - b \in Int /\ g + n \in Int
    BY <1>1, <1>2
  <1>9. f = g + n
    BY <1>1, <1>2, <1>4, <1>6, <1>7, <1>8, NearerSide
  <1> QED
    BY <1>9 DEF f, g

(* Gaps add up while they stay on the nearer side.                         *)
LEMMA GapChain ==
  ASSUME NEW a \in VIs, NEW b \in VIs, NEW c \in VIs,
         -Half <= Gap(a, b) + Gap(b, c), Gap(a, b) + Gap(b, c) < Half
  PROVE  Gap(a, c) = Gap(a, b) + Gap(b, c)
  <1>1. Gap(a, b) \in Int /\ Gap(b, c) \in Int
    BY GapIs
  <1>2. \/ a - b = Gap(a, b) \/ a - b = Gap(a, b) + VIMod
        \/ a - b = Gap(a, b) - VIMod
    BY GapIs
  <1>3. -Half <= Gap(b, c) + Gap(a, b) /\ Gap(b, c) + Gap(a, b) < Half
    BY <1>1
  <1>4. Gap(a, c) = Gap(b, c) + Gap(a, b)
    BY <1>1, <1>2, <1>3, GapShift
  <1> QED
    BY <1>1, <1>4

LEMMA GapBack ==
  ASSUME NEW a \in VIs, NEW b \in VIs, Gap(a, b) > -Half
  PROVE  Gap(b, a) = -Gap(a, b)
  <1>1. Gap(b, b) = 0 /\ Gap(a, b) \in Int /\ Gap(a, b) < Half
    BY GapIs
  <1>2. Gap(a, a) = 0
    BY GapIs
  <1>3. /\ -Gap(a, b) \in Int /\ -Half <= Gap(a, a) + -Gap(a, b)
        /\ Gap(a, a) + -Gap(a, b) < Half
    BY <1>1, <1>2, ModType
  <1>4. \/ b - a = -Gap(a, b) \/ b - a = -Gap(a, b) + VIMod
        \/ b - a = -Gap(a, b) - VIMod
    <2>1. \/ a - b = Gap(a, b) \/ a - b = Gap(a, b) + VIMod
          \/ a - b = Gap(a, b) - VIMod
      BY GapIs
    <2>2. a \in Int /\ b \in Int /\ VIMod \in Int
      BY ModType DEF VIs
    <2> QED
      BY <2>1, <2>2, <1>1
  <1>5. Gap(b, a) = Gap(a, a) + -Gap(a, b)
    BY <1>3, <1>4, GapShift
  <1> QED
    BY <1>1, <1>2, <1>5

LEMMA GapPlus ==
  ASSUME NEW a \in VIs, NEW b \in VIs, NEW n \in 0..Half,
         Gap(a, b) + n < Half
  PROVE  Gap(Plus(a, n), b) = Gap(a, b) + n /\ Plus(a, n) \in VIs
  <1>1. Plus(a, n) = IF a + n < VIMod THEN a + n ELSE a + n - VIMod
    BY ModType, Wraps DEF Plus, VIs
  <1>2. /\ Plus(a, n) \in VIs /\ n \in Int /\ n >= 0 /\ Gap(a, b) \in Int
        /\ -Half <= Gap(a, b)
    BY PlusMinusType, GapIs, ModType
  <1>3. -Half <= Gap(a, b) + n
    BY <1>2, ModType
  <1>4. \/ Plus(a, n) - a = n \/ Plus(a, n) - a = n + VIMod
        \/ Plus(a, n) - a = n - VIMod
    BY <1>1, ModType DEF VIs
  <1> QED
    BY <1>2, <1>3, <1>4, GapShift

LEMMA GapMinus ==
  ASSUME NEW a \in VIs, NEW b \in VIs, NEW n \in 0..Half,
         -Half <= Gap(a, b) - n
  PROVE  Gap(Minus(a, n), b) = Gap(a, b) - n /\ Minus(a, n) \in VIs
  <1>1. Minus(a, n) = IF a >= n THEN a - n ELSE a - n + VIMod
    BY ModType, Wraps DEF Minus, VIs
  <1>2. /\ Minus(a, n) \in VIs /\ -n \in Int /\ n >= 0 /\ Gap(a, b) \in Int
        /\ Gap(a, b) < Half
    BY PlusMinusType, GapIs, ModType
  <1>3. -Half <= Gap(a, b) + -n /\ Gap(a, b) + -n < Half
    BY <1>2, ModType
  <1>4. \/ Minus(a, n) - a = -n \/ Minus(a, n) - a = -n + VIMod
        \/ Minus(a, n) - a = -n - VIMod
    BY <1>1, ModType DEF VIs
  <1>5. Gap(Minus(a, n), b) = Gap(a, b) + -n
    BY <1>2, <1>3, <1>4, GapShift
  <1> QED
    BY <1>2, <1>5

(* Dividing by an interval the scheduler may use.                          *)
LEMMA Divides ==
  ASSUME NEW m \in Nat, NEW c \in 1..4
  PROVE  /\ m \div c \in Nat
         /\ (m \div c) * c <= m /\ m < (m \div c) * c + c
         /\ m \div c = 0 <=> m < c
         /\ m \div c = 1 <=> c <= m /\ m < 2 * c
  <1>1. CASE c = 1
    BY <1>1
  <1>2. CASE c = 2
    BY <1>2
  <1>3. CASE c = 3
    BY <1>3
  <1>4. CASE c = 4
    BY <1>4
  <1> QED
    BY <1>1, <1>2, <1>3, <1>4

LEMMA ClampType ==
  \A n \in Nat : ClampVIs(n) \in 1..4 /\ (n \in 1..4 => ClampVIs(n) = n)
  BY DEF ClampVIs

(* The deadline that follows: the first one after vi.                      *)
LEMMA NextDeadlineIs ==
  ASSUME NEW d \in VIs, NEW v \in VIs, NEW c \in 1..4, NEW b \in VIs,
         0 <= Gap(v, d), Gap(v, b) + c < Half, Gap(v, b) >= 0,
         Gap(d, b) >= 0
  PROVE  LET missed == Missed(d, v, c)
             after  == NextDeadline(d, v, c)
         IN  /\ missed \in Nat /\ after \in VIs
             /\ Gap(after, b) = Gap(d, b) + missed * c + c
             /\ Gap(v, b) < Gap(after, b) /\ Gap(after, b) <= Gap(v, b) + c
  <1> DEFINE m == Minus(v, d)
             q == m \div c
  <1>0. /\ Gap(v, b) \in Int /\ Gap(d, b) \in Int /\ Gap(v, d) \in Int
        /\ Gap(v, d) >= 0 /\ Gap(v, d) < Half /\ Gap(d, b) < Half
        /\ Half \in Nat /\ VIMod = 2 * Half
    BY GapIs, ModType
  <1>1. Gap(v, d) = Gap(v, b) - Gap(d, b)
    <2>1. Gap(b, d) = -Gap(d, b)
      BY <1>0, GapBack
    <2>2. /\ -Half <= Gap(v, b) + Gap(b, d) /\ Gap(v, b) + Gap(b, d) < Half
      BY <1>0, <2>1
    <2> QED
      BY <2>1, <2>2, <1>0, GapChain
  <1>2. m = Gap(v, d) /\ m \in Nat
    BY GapIs
  <1>3. q \in Nat /\ q * c <= m /\ m < q * c + c
    BY <1>2, Divides
  <1>4. q * c + c \in 0..Half /\ (q + 1) * c = q * c + c
    <2>1. q * c \in Nat
      BY <1>3
    <2>2. (q + 1) * c = q * c + c
      <3>1. CASE c = 1 BY <3>1, <1>3
      <3>2. CASE c = 2 BY <3>2, <1>3
      <3>3. CASE c = 3 BY <3>3, <1>3
      <3>4. CASE c = 4 BY <3>4, <1>3
      <3> QED BY <3>1, <3>2, <3>3, <3>4
    <2>3. q * c + c <= m + c
      BY <1>2, <1>3, <2>1
    <2>4. m + c < Half
      BY <1>0, <1>1, <1>2
    <2> QED
      BY <2>1, <2>2, <2>3, <2>4, <1>2, ModType
  <1> DEFINE n == q * c + c
  <1>5. Gap(d, b) + n < Half
    <2>1. q * c \in Int
      BY <1>3
    <2> QED
      BY <1>0, <1>1, <1>2, <1>3, <2>1
  <1>6. Gap(Plus(d, n), b) = Gap(d, b) + n /\ Plus(d, n) \in VIs
    <2> HIDE DEF n
    <2> QED
      BY <1>4, <1>5, GapPlus DEF n
  <1>7. NextDeadline(d, v, c) = Plus(d, n) /\ Missed(d, v, c) = q
    BY <1>4 DEF NextDeadline, Missed
  <1> QED
    BY <1>1, <1>2, <1>3, <1>4, <1>6, <1>7, GapIs
-----------------------------------------------------------------------------
(* Types.                                                                  *)
SchedulerType == [nextSimulationVi : VIs, nextPresentationVi : VIs,
                  simulationVIs : 1..4, presentationVIs : 1..4]
SampleType == [simulationVi : VIs, generation : 0..(Generations - 1),
               simulationVIs : VIRates \union {0},
               valid : BOOLEAN, eligible : BOOLEAN, scene : Scenes]
PresentationType == [interpolated : BOOLEAN, sample : VIs,
                     fallback : BOOLEAN, repeated : BOOLEAN]

ClockTypes ==
    /\ vi \in VIs /\ deadline \in VIs /\ shown \in VIs
    /\ gVIsPerFrame \in VIRates \union {0} /\ scene \in Scenes
    /\ sPresentationVIs \in {1, 2}
    /\ settings \in [presentationVIs : 0..2, restart : BOOLEAN]
    /\ scheduler \in SchedulerType

PoolTypes ==
    /\ frame \in Pool /\ sGeneration \in 0..(Generations - 1)
    /\ sPools \in [Pool -> SampleType]

LoopTypes ==
    /\ pc \in {"vblank", "boundary", "simulate", "building", "present"}
    /\ presentationDue \in BOOLEAN /\ ticks \in 0..2 /\ record \in BOOLEAN
    /\ steady \in 0..3 /\ exit \in {"no", "requested", "left"}

TaskTypes ==
    /\ \/ presentation = NONE /\ drawing = NONE
       \/ drawing # NONE /\ presentation \in PresentationType
    /\ taskInFlight \in BOOLEAN
    /\ inFlightTask \in Pool \union {NONE}
    /\ inFlightDependency \in Pool \union {NONE}
    /\ pendingTask \in Pool \union {NONE} /\ reusableTask \in Pool
    /\ drawing \in Pool \union {NONE} /\ answered \in BOOLEAN

LEMMA TypeParts ==
  TypeOK <=> ClockTypes /\ PoolTypes /\ LoopTypes /\ TaskTypes
  BY DEF TypeOK, ClockTypes, PoolTypes, LoopTypes, TaskTypes, SchedulerType,
     SampleType, PresentationType

TicksInv == pc \in {"boundary", "simulate", "building"} => ticks \in 1..2

TypeInv == TypeOK /\ TicksInv

LEMMA RatesType ==
  /\ VIRates \union {0} \subseteq Nat
  /\ \A r \in VIRates \union {0} : ClampVIs(r) \in 1..4
  BY LoopAssumption, ClampType

LEMMA SchedulerKeepsType ==
  ASSUME NEW s \in SchedulerType, NEW v \in VIs, NEW n \in Nat
  PROVE  /\ Advance(s, v) \in SchedulerType
         /\ WithSimulationVIs(s, v, n) \in SchedulerType
         /\ WithPresentationVIs(s, v, n) \in SchedulerType
         /\ SimulationDue(s, v) \in BOOLEAN /\ PresentationDue(s, v) \in BOOLEAN
  <1>1. ClampVIs(n) \in 1..4 /\ Plus(v, ClampVIs(n)) \in VIs
    BY ClampType, PlusMinusType
  <1>2. \A d \in VIs, c \in 1..4 : NextDeadline(d, v, c) \in VIs
    <2> SUFFICES ASSUME NEW d \in VIs, NEW c \in 1..4
                 PROVE  NextDeadline(d, v, c) \in VIs
      OBVIOUS
    <2>1. Minus(v, d) \in Nat
      BY PlusMinusType DEF VIs
    <2>2. Missed(d, v, c) \in Nat
      BY <2>1, Divides DEF Missed
    <2>3. (Missed(d, v, c) + 1) * c \in Int
      BY <2>2
    <2> QED
      BY <2>3, PlusMinusType DEF NextDeadline
  <1>3. Advance(s, v) \in SchedulerType
    BY <1>2 DEF Advance, SchedulerType
  <1>4. /\ WithSimulationVIs(s, v, n) \in SchedulerType
        /\ WithPresentationVIs(s, v, n) \in SchedulerType
    BY <1>1 DEF WithSimulationVIs, WithPresentationVIs, SchedulerType
  <1> QED
    BY <1>3, <1>4 DEF SimulationDue, PresentationDue, AtOrAfter

LEMMA SchedulerIs == TypeOK => scheduler \in SchedulerType
  BY DEF TypeOK, SchedulerType

LEMMA PoolsAre == TypeOK => sPools \in [Pool -> SampleType]
  BY DEF TypeOK, SampleType

LEMMA PreparedType ==
  ASSUME TypeOK, NEW p \in Pool
  PROVE  Prepared(p) \in PresentationType /\ Plain(p) \in PresentationType
  <1>1. sPools[p] \in SampleType
    BY PoolsAre
  <1>2. /\ sPools[p].simulationVi \in VIs
        /\ sPools[p].simulationVIs \in Nat
    BY <1>1, RatesType DEF SampleType
  <1>3. TargetVi(sPools[p]) \in VIs
    BY <1>2, PlusMinusType DEF TargetVi, TypeOK
  <1>4. Plain(p) \in PresentationType
    BY <1>2 DEF Plain, PresentationType
  <1>5. HasHistory(sPools[p], sPools[Other(p)]) \in BOOLEAN
    BY DEF HasHistory
  <1>6. Prepared(p) \in PresentationType
    BY <1>2, <1>3, <1>4, <1>5 DEF Prepared, PresentationType
  <1> QED
    BY <1>4, <1>6

LEMMA GenerationType ==
  /\ \A g \in 0..(Generations - 1) : (g + 1) % Generations \in 0..(Generations - 1)
  /\ 0 \in 0..(Generations - 1) /\ 1 \in 0..(Generations - 1)
  BY LoopAssumption, Wraps

LEMMA SampleHasType ==
  ASSUME NEW v \in VIs, NEW g \in 0..(Generations - 1),
         NEW r \in VIRates \union {0}
  PROVE  Sample(v, g, r) \in SampleType
  <1>1. (CHOOSE s \in Scenes : TRUE) \in Scenes
    BY LoopAssumption
  <1> QED
    BY <1>1 DEF Sample, SampleType

LEMMA InitTypes == Init => TypeInv
  <1> SUFFICES ASSUME Init PROVE TypeInv
    OBVIOUS
  <1>1. /\ vi \in VIs /\ deadline \in VIs /\ shown \in VIs
        /\ frame \in Pool /\ sGeneration \in 0..(Generations - 1)
    BY PlusMinusType, GenerationType DEF Init
  <1>2. scheduler \in SchedulerType
    <2>1. /\ ClampVIs(gVIsPerFrame) \in 1..4 /\ ClampVIs(1) \in 1..4
      BY RatesType, ClampType DEF Init
    <2>2. \A n \in 1..4 : Plus(0, n) \in VIs
      BY PlusMinusType
    <2> QED
      BY <2>1, <2>2 DEF Init, NewScheduler, SchedulerType
  <1>3. sPools \in [Pool -> SampleType]
    <2>1. \A p \in Pool : Sample(0, IF p = frame THEN 1 ELSE 0, 0) \in SampleType
      BY SampleHasType, GenerationType, PlusMinusType
    <2> QED
      BY <2>1 DEF Init
  <1>4. presentation \in PresentationType /\ drawing # NONE
    BY <1>1, <1>3, LoopAssumption DEF Init, Plain, PresentationType, SampleType
  <1>5. /\ inFlightTask \in Pool /\ inFlightDependency = NONE
        /\ pendingTask = NONE /\ reusableTask \in Pool /\ drawing \in Pool
    BY DEF Init
  <1>6. \/ presentation = NONE /\ drawing = NONE
        \/ /\ drawing # NONE
           /\ presentation \in [interpolated : BOOLEAN, sample : VIs,
                                fallback : BOOLEAN, repeated : BOOLEAN]
    BY <1>4 DEF PresentationType
  <1>7. sPools \in [Pool -> [simulationVi : VIs,
                            generation : 0..(Generations - 1),
                            simulationVIs : VIRates \union {0},
                            valid : BOOLEAN, eligible : BOOLEAN,
                            scene : Scenes]]
    BY <1>3 DEF SampleType
  <1>8. scheduler \in [nextSimulationVi : VIs, nextPresentationVi : VIs,
                       simulationVIs : 1..4, presentationVIs : 1..4]
    BY <1>2 DEF SchedulerType
  <1>9. /\ gVIsPerFrame \in VIRates \union {0} /\ scene \in Scenes
        /\ sPresentationVIs \in {1, 2} /\ pc = "vblank"
        /\ ticks \in 0..2 /\ steady \in 0..3
        /\ exit \in {"no", "requested", "left"}
    BY DEF Init
  <1>10. settings \in [presentationVIs : 0..2, restart : BOOLEAN]
    BY DEF Init
  <1>11. /\ presentationDue \in BOOLEAN /\ record \in BOOLEAN
         /\ taskInFlight \in BOOLEAN /\ answered \in BOOLEAN
    BY DEF Init
  <1> QED
    BY <1>1, <1>5, <1>6, <1>7, <1>8, <1>9, <1>10, <1>11 DEF TypeInv, TypeOK,
       TicksInv

LEMMA WakeTypes == TypeInv /\ Wake => TypeInv'
  <1> SUFFICES ASSUME TypeInv, Wake PROVE TypeInv'
    OBVIOUS
  <1> USE DEF TypeInv
  <1>1. vi' \in VIs
    <2> PICK e \in 0..MaxElapsed : vi' = Plus(vi, e)
      BY DEF Wake
    <2> QED
      BY PlusMinusType DEF TypeOK
  <1>2. scheduler' \in SchedulerType /\ presentationDue' \in BOOLEAN
    BY <1>1, SchedulerIs, SchedulerKeepsType DEF Wake
  <1> DEFINE due == SimulationDue(scheduler, vi')
             missed == Missed(scheduler.nextSimulationVi, vi',
                              scheduler.simulationVIs)
  <1>3. ticks' = IF due THEN TicksDue(missed) ELSE 0
    BY DEF Wake
  <1>4. ticks' \in 0..2 /\ (due => ticks' \in 1..2)
    BY <1>3 DEF TicksDue
  <1>5. deadline' \in VIs
    <2>1. deadline' = IF due THEN FirstDeadline(scheduler', ticks') ELSE 0
      BY DEF Wake
    <2>2. FirstDeadline(scheduler', ticks') \in VIs
      <3>1. /\ scheduler'.nextSimulationVi \in VIs
            /\ scheduler'.simulationVIs \in 1..4
        BY <1>2 DEF SchedulerType
      <3>2. ticks' * scheduler'.simulationVIs \in Int
        BY <1>3, <3>1 DEF TicksDue
      <3> QED
        BY <3>1, <3>2, PlusMinusType DEF FirstDeadline
    <2> QED
      BY <2>1, <2>2, PlusMinusType
  <1>6. settings' \in [presentationVIs : 0..2, restart : BOOLEAN]
    <2>1. CASE due
      <3> PICK rate \in {0, 3 - sPresentationVIs}, r \in BOOLEAN :
               settings' = [presentationVIs |-> rate, restart |-> r]
        BY <2>1 DEF Wake
      <3>1. rate \in 0..2
        BY DEF TypeOK
      <3> QED
        BY <3>1
    <2>2. CASE ~due
      BY <2>2 DEF Wake, TypeOK
    <2> QED
      BY <2>1, <2>2
  <1>7. /\ steady' \in 0..3
        /\ pc' \in {"vblank", "boundary", "simulate", "present"}
        /\ pc' \in {"boundary", "simulate"} => due
    BY DEF Wake, TypeOK
  <1>8. UNCHANGED <<gVIsPerFrame, scene, sPresentationVIs, frame, sGeneration,
                    sPools, record, flightVars, taskVars, serviceVars, exit>>
    BY DEF Wake, poolVars
  <1> QED
    BY <1>1, <1>2, <1>4, <1>5, <1>6, <1>7, <1>8 DEF TypeOK, TicksInv,
       SchedulerType, flightVars, taskVars, serviceVars

LEMMA BoundaryTypes == TypeInv /\ IInv /\ Boundary => TypeInv'
  <1> SUFFICES ASSUME TypeInv, IInv, Boundary PROVE TypeInv'
    OBVIOUS
  <1> USE DEF TypeInv
  <1>1. vi' \in VIs
    <2> PICK e \in 0..MaxElapsed : vi' = Plus(vi, e)
      BY DEF Boundary
    <2> QED
      BY PlusMinusType DEF TypeOK
  <1>2. sPresentationVIs' \in {1, 2}
    <2>1. sPresentationVIs' = IF settings.presentationVIs # 0
                                THEN settings.presentationVIs
                                ELSE sPresentationVIs
      BY DEF Boundary
    <2> QED
      BY <2>1 DEF TypeOK
  <1>0. settings' \in [presentationVIs : 0..2, restart : BOOLEAN]
    <2>1. settings' = [presentationVIs |-> 0, restart |-> FALSE]
      BY DEF Boundary
    <2> QED
      BY <2>1
  <1>3. scheduler' \in SchedulerType
    BY <1>1, <1>2, SchedulerIs, SchedulerKeepsType DEF Boundary
  <1>4. /\ sPools' \in [Pool -> SampleType]
        /\ sGeneration' \in 0..(Generations - 1)
    <2>1. CASE UNCHANGED <<sPools, sGeneration, presentation>>
      BY <2>1, PoolsAre DEF TypeOK
    <2>2. CASE /\ sPools' = [p \in Pool |-> [sPools[p] EXCEPT
                                !.valid = FALSE, !.eligible = FALSE]]
               /\ sGeneration' = 0
      BY <2>2, PoolsAre, GenerationType DEF SampleType
    <2> QED
      BY <2>1, <2>2 DEF Boundary
  <1>5. \/ presentation' = NONE /\ drawing' = NONE
        \/ /\ drawing' # NONE /\ presentation' \in PresentationType
    <2>1. drawing' = drawing
      BY DEF Boundary
    <2>2. presentation' \in {presentation, NONE}
      BY DEF Boundary
    <2>3. drawing = NONE => presentation = NONE
      BY DEF TypeOK
    <2>4. drawing # NONE => presentation \in PresentationType
      BY DEF TypeOK, PresentationType
    <2>5. drawing = NONE
      BY WaitDrains DEF Boundary, WaitForTask, IInv
    <2> QED
      BY <2>1, <2>2, <2>3, <2>4, <2>5
  <1>6. /\ taskInFlight' = FALSE /\ answered' \in BOOLEAN
        /\ inFlightTask' = NONE /\ inFlightDependency' = NONE
    BY DEF Boundary, WaitForTask, ForgetFlight, TypeOK
  <1>7. /\ UNCHANGED <<gVIsPerFrame, scene, frame, localVars, taskVars, drawing,
                       shown, exit>>
        /\ steady' = 0 /\ pc' = "simulate" /\ pc = "boundary"
    BY DEF Boundary
  <1>8. TicksInv'
    BY <1>7 DEF TicksInv, localVars
  <1>9. ClockTypes' /\ LoopTypes'
    BY <1>0, <1>1, <1>2, <1>3, <1>7, TypeParts DEF ClockTypes, LoopTypes,
       localVars
  <1>10. PoolTypes' /\ TaskTypes'
    BY <1>4, <1>5, <1>6, <1>7, TypeParts DEF PoolTypes, TaskTypes, taskVars
  <1> QED
    BY <1>8, <1>9, <1>10, TypeParts, PTL

LEMMA BuildBeginTypes == TypeInv /\ IInv /\ BuildBegin => TypeInv'
  <1> SUFFICES ASSUME TypeInv, IInv, BuildBegin PROVE TypeInv'
    OBVIOUS
  <1> USE DEF TypeInv
  <1>1. frame' \in Pool /\ frame' = Other(frame)
    BY OtherPool DEF BuildBegin, TypeOK
  <1>2. sGeneration' \in 0..(Generations - 1)
    BY GenerationType DEF BuildBegin, TypeOK
  <1>3. sPools' \in [Pool -> SampleType]
    <2>1. Sample(deadline, sGeneration', gVIsPerFrame) \in SampleType
      BY <1>2, SampleHasType DEF TypeOK
    <2> QED
      BY <2>1, PoolsAre DEF BuildBegin
  <1>4. shown' \in VIs
    <2>1. sPools[frame].simulationVi \in VIs
      BY PoolsAre DEF TypeOK, SampleType
    <2> QED
      BY <2>1 DEF BuildBegin, Later, TypeOK
  <1>5. record' \in BOOLEAN
    BY DEF BuildBegin
  <1>6. /\ taskInFlight' \in BOOLEAN /\ answered' \in BOOLEAN
        /\ inFlightTask' \in Pool \union {NONE}
        /\ inFlightDependency' \in Pool \union {NONE}
    BY DEF BuildBegin, WaitForTask, ForgetFlight, flightVars, TypeOK
  <1>7. /\ UNCHANGED <<clockVars, gameVars, presentationDue, ticks, deadline,
                       taskVars, drawing, presentation, steady, exit>>
        /\ pc' = "building" /\ pc = "simulate"
    BY DEF BuildBegin
  <1>8. TicksInv'
    BY <1>7 DEF TicksInv
  <1> QED
    BY <1>1, <1>2, <1>3, <1>4, <1>5, <1>6, <1>7, <1>8 DEF TypeOK, SampleType,
       clockVars, gameVars, taskVars

LEMMA BuildEndTypes == TypeInv /\ IInv /\ BuildEnd => TypeInv'
  <1> SUFFICES ASSUME TypeInv, IInv, BuildEnd PROVE TypeInv'
    OBVIOUS
  <1> USE DEF TypeInv
  <1>1. PICK rate \in VIRates \union {gVIsPerFrame}, s \in Scenes,
             world \in BOOLEAN :
          /\ gVIsPerFrame' = rate /\ scene' = s
          /\ sPools' = [sPools EXCEPT
                          ![frame].valid = record,
                          ![frame].scene = s,
                          ![frame].eligible =
                              record /\ world /\ rate > sPresentationVIs]
          /\ steady' = IF world /\ rate = gVIsPerFrame /\ s = scene
                         THEN IF steady < 3 THEN steady + 1 ELSE 3
                         ELSE 0
    BY DEF BuildEnd
  <1>2. gVIsPerFrame' \in VIRates \union {0} /\ scene' \in Scenes
    BY <1>1 DEF TypeOK
  <1>3. steady' \in 0..3
    BY <1>1 DEF TypeOK
  <1>4. sPools' \in [Pool -> SampleType]
    <2>1. /\ record \in BOOLEAN
          /\ (record /\ world /\ rate > sPresentationVIs) \in BOOLEAN
      BY DEF TypeOK
    <2> DEFINE kept == sPools[frame]
               e == record /\ world /\ rate > sPresentationVIs
               built == [kept EXCEPT !.valid = record, !.scene = s,
                                     !.eligible = e]
    <2>2. kept \in SampleType /\ frame \in Pool
      BY PoolsAre DEF TypeOK
    <2>3. built \in SampleType
      <3> HIDE DEF e, kept
      <3> QED
        BY <2>1, <2>2 DEF SampleType, e
    <2>4. sPools' = [sPools EXCEPT ![frame] = built]
      BY <1>1, <2>2, PoolsAre
    <2> QED
      <3> HIDE DEF built
      <3> QED
        BY <2>2, <2>3, <2>4, PoolsAre
  <1>5. pc = "building" /\ ticks \in 1..2 /\ ticks' = ticks - 1
    BY DEF BuildEnd, TicksInv
  <1>6. /\ ticks' \in 0..2
        /\ pc' \in {"vblank", "boundary", "simulate", "building", "present"}
        /\ TicksInv'
    BY <1>5 DEF BuildEnd, TicksInv
  <1>7. deadline' \in VIs
    <2>1. scheduler.simulationVIs \in Int /\ deadline \in Int
      BY SchedulerIs, PlusMinusType DEF SchedulerType, TypeOK
    <2>2. Plus(deadline, scheduler.simulationVIs) \in VIs
      BY <2>1, PlusMinusType
    <2> QED
      BY <2>2, PlusMinusType DEF BuildEnd
  <1>8. scheduler' \in SchedulerType
    <2>1. /\ vi \in VIs /\ gVIsPerFrame' \in Nat /\ sPresentationVIs \in Nat
      BY <1>2, RatesType DEF TypeOK
    <2> DEFINE s1 == WithSimulationVIs(scheduler, vi, gVIsPerFrame')
               s2 == WithPresentationVIs(s1, vi, sPresentationVIs)
    <2>2. s1 \in SchedulerType
      BY <2>1, SchedulerIs, SchedulerKeepsType
    <2>3. s2 \in SchedulerType
      <3> HIDE DEF s1
      <3> QED
        BY <2>1, <2>2, SchedulerKeepsType
    <2>4. scheduler' \in {scheduler, s2}
      BY DEF BuildEnd
    <2> QED
      BY <2>3, <2>4, SchedulerIs
  <1>9. /\ pendingTask' = frame /\ record' = FALSE
        /\ UNCHANGED <<vi, sPresentationVIs, settings, frame, sGeneration,
                       presentationDue, flightVars, reusableTask, serviceVars,
                       exit>>
    BY DEF BuildEnd
  <1>10. ClockTypes' /\ LoopTypes'
    BY <1>2, <1>3, <1>6, <1>7, <1>8, <1>9, TypeParts DEF ClockTypes, LoopTypes,
       serviceVars
  <1>11. PoolTypes' /\ TaskTypes'
    BY <1>4, <1>9, TypeParts DEF PoolTypes, TaskTypes, flightVars, serviceVars
  <1> QED
    BY <1>6, <1>10, <1>11, TypeParts, PTL

LEMMA PresentTypes == TypeInv /\ IInv /\ Present => TypeInv'
  <1> SUFFICES ASSUME TypeInv, IInv, Present PROVE TypeInv'
    OBVIOUS
  <1> USE DEF TypeInv
  <1>1. TaskToPresent \in Pool
    BY DEF TaskToPresent, TypeOK
  <1>2. presentation' \in PresentationType
    BY <1>1, PreparedType DEF Present
  <1>3. /\ taskInFlight' \in BOOLEAN /\ answered' \in BOOLEAN
        /\ inFlightTask' \in Pool
        /\ inFlightDependency' \in Pool \union {NONE}
        /\ drawing' \in Pool /\ drawing' # NONE
        /\ reusableTask' \in Pool /\ pendingTask' = NONE
        /\ presentationDue' \in BOOLEAN /\ pc' = "vblank"
    BY <1>1, OtherPool, LoopAssumption DEF Present
  <1>4. UNCHANGED <<clockVars, gameVars, poolVars, ticks, deadline, record,
                    shown, steady, exit>>
    BY DEF Present
  <1>5. TicksInv'
    BY <1>3 DEF TicksInv
  <1> QED
    BY <1>2, <1>3, <1>4, <1>5 DEF TypeOK, PresentationType, clockVars,
       gameVars, poolVars

LEMMA OtherTypes ==
  ASSUME TypeInv, IInv,
         RenderDone \/ RequestExit \/ ExitFromLoop \/ ExitFromBoot
         \/ UNCHANGED vars
  PROVE  TypeInv'
  <1> USE DEF TypeInv
  <1>1. /\ UNCHANGED <<clockVars, gameVars, poolVars, localVars, taskVars,
                       inFlightTask, inFlightDependency, pc, steady>>
        /\ exit' \in {"no", "requested", "left"}
    BY DEF RenderDone, RequestExit, ExitFromLoop, ExitFromBoot, vars,
       flightVars, TypeOK
  <1>2. taskInFlight' \in BOOLEAN /\ answered' \in BOOLEAN
    BY DEF RenderDone, RequestExit, ExitFromLoop, ExitFromBoot, vars,
       flightVars, serviceVars, WaitForTask, TypeOK
  <1>3. /\ shown' \in VIs
        /\ \/ presentation' = NONE /\ drawing' = NONE
           \/ drawing' # NONE /\ presentation' \in PresentationType
        /\ drawing' \in Pool \union {NONE}
    <2>1. CASE RenderDone
      BY <2>1 DEF RenderDone, TypeOK
    <2>2. CASE ~RenderDone
      <3>1. UNCHANGED <<drawing, presentation, shown>>
        BY <2>2 DEF RequestExit, ExitFromLoop, ExitFromBoot, vars, serviceVars
      <3> QED
        BY <3>1 DEF TypeOK, PresentationType
    <2> QED
      BY <2>1, <2>2
  <1>4. TicksInv'
    BY <1>1 DEF TicksInv, localVars
  <1> QED
    BY <1>1, <1>2, <1>3, <1>4 DEF TypeOK, PresentationType, clockVars,
       gameVars, poolVars, localVars, taskVars

LEMMA TypesInductive == Spec => []TypeInv
  <1>1. TypeInv /\ IInv /\ [Next]_vars => TypeInv'
    BY WakeTypes, BoundaryTypes, BuildBeginTypes, BuildEndTypes, PresentTypes,
       OtherTypes DEF Next, Loop
  <1> QED
    BY InitTypes, <1>1, Inductive, PTL DEF Spec

(* Every variable keeps its type: no VI, rate or tick count leaves its     *)
(* range, whatever is simulated, dropped or changed in the settings.       *)
THEOREM TypeCorrect == Spec => []TypeOK
  <1>1. TypeInv => TypeOK
    BY DEF TypeInv
  <1> QED
    BY <1>1, TypesInductive, PTL
-----------------------------------------------------------------------------
(* Motion.                                                                 *)
Newest == sPools[frame]
Previous == sPools[Other(frame)]

(* Where a VI lies, seen from the sample of the newest frame.              *)
At(v) == Gap(v, Newest.simulationVi)
AtPrevious == At(Previous.simulationVi)
NextFrame == At(scheduler.nextSimulationVi)
SimVIs == scheduler.simulationVIs

(* No two VIs the loop compares are further apart.                         *)
Reach == 4 * MaxElapsed + 10
WideCounter == 2 * Reach < VIMod

Resting == pc \in {"vblank", "present"}
Deciding == pc \in {"boundary", "simulate"}

(* The newest frame has come due and the next one is ahead of it; the      *)
(* frames still to simulate lead up to that one.  Only a boundary, which   *)
(* reads the counter again, puts it at or past the next frame.             *)
ClockInv ==
    /\ 0 <= At(vi) /\ NextFrame <= Reach - MaxElapsed
    /\ At(vi) < NextFrame + MaxElapsed
    /\ pc = "boundary" => At(vi) < NextFrame
    /\ Resting => 1 <= NextFrame /\ NextFrame <= MaxElapsed + 7
    /\ Deciding => /\ ticks \in 1..2
                   /\ 1 <= At(deadline)
                   /\ NextFrame = At(deadline) + ticks * SimVIs
                   /\ NextFrame - SimVIs <= At(vi)
    /\ pc = "building" => /\ ticks \in 1..2
                          /\ At(deadline) = 0
                          /\ NextFrame = ticks * SimVIs
                          /\ NextFrame - SimVIs <= At(vi)

(* The frame before can be drawn into the newest.                          *)
Interpolable ==
    /\ Newest.valid /\ Newest.eligible
    /\ scheduler.presentationVIs < Newest.simulationVIs
    /\ Previous.valid /\ Previous.eligible
    /\ Newest.generation = (Previous.generation + 1) % Generations
    /\ Newest.scene = Previous.scene
    /\ Minus(Newest.simulationVi, Previous.simulationVi) = Newest.simulationVIs

(* The point between the two that is to be shown now.                      *)
Target == At(vi) - (Newest.simulationVIs - 1)

(* What is shown lies between the two samples, and not past the target.    *)
ShownInv ==
    /\ -Reach <= AtPrevious /\ AtPrevious <= At(shown) /\ At(shown) <= 0
    /\ pc = "building" => shown = Previous.simulationVi
    /\ Resting /\ Interpolable =>
          shown = Previous.simulationVi \/ At(shown) <= Target

(* So does what is being drawn, after what is shown.                       *)
DrawnInv ==
    /\ drawing = frame =>
          /\ At(shown) <= At(presentation.sample)
          /\ At(presentation.sample) <= 0
          /\ ~presentation.interpolated =>
                presentation.sample = Newest.simulationVi
          /\ Resting /\ Interpolable => At(presentation.sample) <= Target
    /\ drawing = Other(frame) =>
          /\ shown = Previous.simulationVi
          /\ presentation.sample = Previous.simulationVi
          /\ ~presentation.interpolated

MotionInv == ClockInv /\ ShownInv /\ DrawnInv

LEMMA GapDiff ==
  ASSUME NEW a \in VIs, NEW b \in VIs, NEW c \in VIs, Gap(b, c) > -Half,
         -Half <= Gap(a, c) - Gap(b, c), Gap(a, c) - Gap(b, c) < Half
  PROVE  Gap(a, b) = Gap(a, c) - Gap(b, c)
  <1>1. /\ Gap(c, b) = -Gap(b, c)
        /\ Gap(a, c) \in Int /\ Gap(b, c) \in Int
    BY GapBack, GapIs
  <1>2. /\ -Half <= Gap(a, c) + Gap(c, b) /\ Gap(a, c) + Gap(c, b) < Half
    BY <1>1
  <1>3. Gap(a, b) = Gap(a, c) + Gap(c, b)
    BY <1>2, GapChain
  <1> QED
    BY <1>1, <1>3

(* A comparison through the signed difference, and Before, as gaps.        *)
LEMMA Compares ==
  ASSUME NEW a \in VIs, NEW b \in VIs
  PROVE  /\ AtOrAfter(a, b) <=> 0 <= Gap(a, b)
         /\ Half > 4 => (Before(b, a) <=> Gap(a, b) \in 1..4 )
  <1>1. /\ Minus(a, b) = IF Gap(a, b) >= 0 THEN Gap(a, b)
                                           ELSE Gap(a, b) + VIMod
        /\ Gap(a, b) \in Int /\ -Half <= Gap(a, b) /\ Gap(a, b) < Half
    BY GapIs
  <1>2. AtOrAfter(a, b) <=> 0 <= Gap(a, b)
    BY <1>1, ModType DEF AtOrAfter, Half
  <1>3. Half > 4 => (Before(b, a) <=> Gap(a, b) \in 1..4)
    BY <1>1, ModType DEF Before
  <1> QED
    BY <1>2, <1>3

LEMMA ReachIs ==
  ASSUME WideCounter
  PROVE  /\ MaxElapsed \in Nat /\ MaxElapsed >= 1 /\ Half \in Nat
         /\ Reach = 4 * MaxElapsed + 10 /\ Reach \in Nat /\ Reach < Half
         /\ VIMod = 2 * Half
  BY LoopAssumption, ModType DEF WideCounter, Reach

LEMMA PlacesType ==
  ASSUME TypeOK
  PROVE  /\ Newest \in SampleType /\ Previous \in SampleType
         /\ Newest.simulationVi \in VIs /\ Previous.simulationVi \in VIs
         /\ Newest.simulationVIs \in Nat
         /\ vi \in VIs /\ deadline \in VIs /\ shown \in VIs
         /\ scheduler.nextSimulationVi \in VIs /\ SimVIs \in 1..4
         /\ scheduler.presentationVIs \in 1..4
         /\ \A x \in VIs : At(x) \in Int /\ -Half <= At(x) /\ At(x) < Half
         /\ At(Newest.simulationVi) = 0
  <1>1. Newest \in SampleType /\ Previous \in SampleType
    BY PoolsAre, OtherPool DEF TypeOK, Newest, Previous
  <1>2. /\ Newest.simulationVi \in VIs /\ Previous.simulationVi \in VIs
        /\ Newest.simulationVIs \in Nat
    BY <1>1, RatesType DEF SampleType
  <1>3. /\ scheduler.nextSimulationVi \in VIs /\ SimVIs \in 1..4
        /\ scheduler.presentationVIs \in 1..4
    BY SchedulerIs DEF SchedulerType, SimVIs
  <1>4. /\ \A x \in VIs : At(x) \in Int /\ -Half <= At(x) /\ At(x) < Half
        /\ At(Newest.simulationVi) = 0
    BY <1>2, GapIs DEF At
  <1> QED
    BY <1>1, <1>2, <1>3, <1>4 DEF TypeOK

(* A wake: what is due, and where the counter and the deadlines then are.  *)
LEMMA WakeFacts ==
  ASSUME WideCounter, TypeInv, ClockInv, Wake
  PROVE  LET b       == Newest.simulationVi
             due     == SimulationDue(scheduler, vi')
             missed  == Missed(scheduler.nextSimulationVi, vi', SimVIs)
             c       == SimVIs
         IN  /\ vi' \in VIs
             /\ Gap(vi', b) \in At(vi)..(At(vi) + MaxElapsed)
             /\ SimVIs' = c
             /\ ~due => /\ scheduler'.nextSimulationVi
                             = scheduler.nextSimulationVi
                        /\ Gap(vi', b) < NextFrame
                        /\ pc' \in {"vblank", "present"}
             /\ due => /\ missed \in Nat
                       /\ ticks' = IF missed = 0 THEN 1 ELSE 2
                       /\ pc' \in {"boundary", "simulate"}
                       /\ Gap(scheduler'.nextSimulationVi, b)
                            \in (NextFrame + c)..(Gap(vi', b) + c)
                       /\ Gap(vi', b) < Gap(scheduler'.nextSimulationVi, b)
                       /\ deadline' \in VIs
                       /\ Gap(deadline', b) = Gap(scheduler'.nextSimulationVi, b)
                                              - ticks' * c
                       /\ Gap(deadline', b) >= NextFrame
                       /\ missed <= 1 => Gap(deadline', b) = NextFrame
  <1> DEFINE b == Newest.simulationVi
             next == scheduler.nextSimulationVi
             c == SimVIs
             due == SimulationDue(scheduler, vi')
             missed == Missed(next, vi', c)
  <1>1. /\ b \in VIs /\ next \in VIs /\ c \in 1..4 /\ vi \in VIs
        /\ At(vi) \in Int /\ NextFrame \in Int
        /\ At(vi) = Gap(vi, b) /\ NextFrame = Gap(next, b)
    BY PlacesType DEF TypeInv, At, NextFrame
  <1>2. pc = "vblank"
    BY DEF Wake
  <1>3. /\ 0 <= At(vi) /\ At(vi) < NextFrame + MaxElapsed
        /\ 1 <= NextFrame /\ NextFrame <= MaxElapsed + 7
    BY <1>2 DEF ClockInv, Resting
  <1>4. PICK e \in 0..MaxElapsed : vi' = Plus(vi, e)
    BY DEF Wake
  <1>5. vi' \in VIs /\ Gap(vi', b) = At(vi) + e
    <2>1. /\ e \in 0..Half /\ Gap(vi, b) + e < Half
      BY <1>1, <1>3, ReachIs
    <2> QED
      BY <1>1, <1>4, <2>1, GapPlus
  <1>6. /\ Gap(vi', b) \in Int /\ 0 <= Gap(vi', b)
        /\ Gap(vi', b) <= 3 * MaxElapsed + 6
    BY <1>1, <1>3, <1>5, ReachIs
  <1>7. Gap(vi', next) = Gap(vi', b) - Gap(next, b)
    <2>1. /\ Gap(next, b) > -Half /\ -Half <= Gap(vi', b) - Gap(next, b)
          /\ Gap(vi', b) - Gap(next, b) < Half
      BY <1>1, <1>3, <1>6, ReachIs
    <2> QED
      BY <2>1, <1>1, <1>5, GapDiff
  <1>8. due <=> NextFrame <= Gap(vi', b)
    <2>1. due <=> 0 <= Gap(vi', next)
      BY <1>1, <1>5, Compares DEF SimulationDue
    <2> QED
      BY <2>1, <1>1, <1>6, <1>7
  <1>9. /\ scheduler' = Advance(scheduler, vi') /\ SimVIs' = c
        /\ scheduler'.nextSimulationVi
              = IF due THEN NextDeadline(next, vi', c) ELSE next
    BY SchedulerIs DEF Wake, Advance, SimVIs, TypeInv, SchedulerType
  <1>10. CASE ~due
    <2>1. pc' \in {"vblank", "present"}
      BY <1>10 DEF Wake
    <2>2. Gap(vi', b) < NextFrame /\ scheduler'.nextSimulationVi = next
      BY <1>10, <1>1, <1>6, <1>8, <1>9
    <2>3. Gap(vi', b) \in At(vi)..(At(vi) + MaxElapsed)
      BY <1>1, <1>5, ReachIs
    <2> QED
      BY <1>10, <1>5, <1>9, <2>1, <2>2, <2>3
  <1>11. CASE due
    <2> DEFINE after == NextDeadline(next, vi', c)
    <2>1. /\ 0 <= Gap(vi', next) /\ Gap(vi', b) + c < Half
          /\ Gap(next, b) >= 0
      BY <1>11, <1>1, <1>3, <1>6, <1>7, <1>8, ReachIs
    <2>2. /\ missed \in Nat /\ after \in VIs
          /\ Gap(after, b) = Gap(next, b) + missed * c + c
          /\ Gap(vi', b) < Gap(after, b) /\ Gap(after, b) <= Gap(vi', b) + c
      BY <2>1, <1>1, <1>5, <1>6, NextDeadlineIs
    <2>3. /\ ticks' = IF missed = 0 THEN 1 ELSE 2
          /\ deadline' = Minus(after, ticks' * c)
          /\ pc' \in {"boundary", "simulate"}
      BY <1>11, <1>9 DEF Wake, TicksDue, FirstDeadline, SimVIs
    <2>4. /\ missed * c \in Nat /\ (missed >= 1 => missed * c >= c)
          /\ missed = 1 => missed * c = c
          /\ missed = 0 => missed * c = 0
      <3>1. CASE c = 1 BY <3>1, <2>2
      <3>2. CASE c = 2 BY <3>2, <2>2
      <3>3. CASE c = 3 BY <3>3, <2>2
      <3>4. CASE c = 4 BY <3>4, <2>2
      <3> QED BY <3>1, <3>2, <3>3, <3>4, <1>1
    <2>5. ticks' * c \in 0..Half /\ -Half <= Gap(after, b) - ticks' * c
      <3>1. Gap(after, b) \in Int /\ Gap(after, b) >= 0
        BY <2>2, <1>1, <1>6, GapIs
      <3>2. ticks' * c \in 0..8
        BY <2>3, <1>1
      <3> QED
        BY <3>1, <3>2, ReachIs
    <2>6. /\ Gap(deadline', b) = Gap(after, b) - ticks' * c
          /\ deadline' \in VIs
      BY <2>2, <2>3, <2>5, <1>1, GapMinus
    <2>7. scheduler'.nextSimulationVi = after
      BY <1>9, <1>11
    <2> HIDE DEF after, missed, b, next, c
    <2>8. Gap(after, b) \in (NextFrame + c)..(Gap(vi', b) + c)
      BY <2>2, <2>4, <1>1, <1>6, GapIs
    <2>9. /\ Gap(deadline', b) >= NextFrame
          /\ missed <= 1 => Gap(deadline', b) = NextFrame
      <3>1. CASE missed = 0
        BY <3>1, <2>2, <2>3, <2>4, <2>6, <1>1
      <3>2. CASE missed # 0
        BY <3>2, <2>2, <2>3, <2>4, <2>6, <1>1
      <3> QED
        BY <3>1, <3>2
    <2> QED
      <3>1. Gap(vi', b) \in At(vi)..(At(vi) + MaxElapsed)
        BY <1>1, <1>5, ReachIs
      <3>2. /\ Gap(scheduler'.nextSimulationVi, b)
                 \in (NextFrame + c)..(Gap(vi', b) + c)
            /\ Gap(vi', b) < Gap(scheduler'.nextSimulationVi, b)
            /\ Gap(deadline', b)
                 = Gap(scheduler'.nextSimulationVi, b) - ticks' * c
        BY <2>2, <2>6, <2>7, <2>8
      <3> HIDE DEF due
      <3>3. /\ missed \in Nat /\ ticks' = IF missed = 0 THEN 1 ELSE 2
            /\ pc' \in {"boundary", "simulate"} /\ deadline' \in VIs
        BY <2>2, <2>3, <2>6
      <3> QED
        BY <1>5, <1>9, <1>11, <2>9, <3>1, <3>2, <3>3, Zenon DEF missed, b,
           next, c, due
  <1> QED
    BY <1>10, <1>11

(* A step that simulates nothing leaves every VI where it was seen.        *)
KeepsFrames ==
    /\ frame' = frame
    /\ Newest'.simulationVi = Newest.simulationVi
    /\ Newest'.simulationVIs = Newest.simulationVIs
    /\ Previous'.simulationVi = Previous.simulationVi

LEMMA AllKeepFrames ==
  ASSUME TypeInv, Next, ~BuildBegin
  PROVE  KeepsFrames
  <1>1. CASE Boundary
    <2>1. frame' = frame /\ frame \in Pool /\ Other(frame) \in Pool
      BY <1>1, OtherPool DEF Boundary, TypeInv, TypeOK
    <2>2. CASE sPools' = sPools
      BY <2>1, <2>2 DEF KeepsFrames, Newest, Previous
    <2>3. CASE sPools' = [p \in Pool |-> [sPools[p] EXCEPT
                             !.valid = FALSE, !.eligible = FALSE]]
      <3>1. /\ sPools[frame] \in SampleType /\ sPools[Other(frame)] \in SampleType
        BY <2>1, PoolsAre DEF TypeInv
      <3> QED
        BY <2>1, <2>3, <3>1 DEF KeepsFrames, Newest, Previous, SampleType
    <2> QED
      BY <1>1, <2>2, <2>3 DEF Boundary
  <1>2. CASE BuildEnd
    <2>1. /\ frame' = frame /\ frame \in Pool /\ Other(frame) \in Pool
          /\ Other(frame) # frame
      BY <1>2, OtherPool DEF BuildEnd, TypeInv, TypeOK
    <2>2. sPools \in [Pool -> SampleType]
      BY PoolsAre DEF TypeInv
    <2>3. PICK rate \in VIRates \union {gVIsPerFrame}, s \in Scenes,
               world \in BOOLEAN :
            sPools' = [sPools EXCEPT
                         ![frame].valid = record,
                         ![frame].scene = s,
                         ![frame].eligible =
                             record /\ world /\ rate > sPresentationVIs]
      BY <1>2 DEF BuildEnd
    <2>4. sPools'[Other(frame)] = sPools[Other(frame)]
      BY <2>1, <2>2, <2>3
    <2>5. /\ sPools'[frame].simulationVi = sPools[frame].simulationVi
          /\ sPools'[frame].simulationVIs = sPools[frame].simulationVIs
      BY <2>1, <2>2, <2>3 DEF SampleType
    <2> QED
      BY <2>1, <2>4, <2>5 DEF KeepsFrames, Newest, Previous
  <1>3. CASE Wake \/ Present \/ ExitFromLoop \/ RenderDone \/ RequestExit
             \/ ExitFromBoot
    <2>1. frame' = frame /\ sPools' = sPools
      BY <1>3 DEF Wake, Present, ExitFromLoop, RenderDone, RequestExit,
         ExitFromBoot, poolVars
    <2> QED
      BY <2>1 DEF KeepsFrames, Newest, Previous
  <1> QED
    BY <1>1, <1>2, <1>3 DEF Next, Loop

LEMMA StepsApart ==
  ASSUME Wake \/ Boundary \/ BuildEnd \/ Present
  PROVE  Next /\ ~BuildBegin
  BY DEF Wake, Boundary, BuildEnd, Present, BuildBegin, Next, Loop

(* A frame begun: the deadline is the newest sample, what was the newest   *)
(* is the one before.                                                      *)
LEMMA BuildBeginFrames ==
  ASSUME TypeInv, BuildBegin
  PROVE  /\ frame' = Other(frame) /\ Other(frame') = frame
         /\ Newest' = Sample(deadline, sGeneration', gVIsPerFrame)
         /\ Newest'.simulationVi = deadline
         /\ Previous' = Newest
  <1>1. /\ frame \in Pool /\ Other(frame) \in Pool /\ Other(frame) # frame
        /\ Other(Other(frame)) = frame
    BY LoopAssumption DEF TypeInv, TypeOK, Pool, Other
  <1>2. /\ frame' = Other(frame)
        /\ sPools' = [sPools EXCEPT ![Other(frame)] =
                        Sample(deadline, sGeneration', gVIsPerFrame)]
    BY DEF BuildBegin
  <1>3. sPools \in [Pool -> SampleType]
    BY PoolsAre DEF TypeInv
  <1>4. /\ sPools'[Other(frame)] = Sample(deadline, sGeneration', gVIsPerFrame)
        /\ sPools'[frame] = sPools[frame]
    BY <1>1, <1>2, <1>3
  <1> QED
    BY <1>1, <1>2, <1>4 DEF Newest, Previous, Sample

LEMMA BoundaryFacts ==
  ASSUME WideCounter, TypeInv, ClockInv, Boundary
  PROVE  /\ vi' \in VIs
         /\ Gap(vi', Newest.simulationVi) \in At(vi)..(At(vi) + MaxElapsed)
         /\ scheduler'.nextSimulationVi = scheduler.nextSimulationVi
         /\ SimVIs' = SimVIs
         /\ scheduler'.presentationVIs = ClampVIs(sPresentationVIs')
  <1> DEFINE b == Newest.simulationVi
  <1>1. /\ b \in VIs /\ vi \in VIs /\ At(vi) \in Int
        /\ At(vi) = Gap(vi, b) /\ NextFrame \in Int
    BY PlacesType DEF TypeInv, At, NextFrame
  <1>2. 0 <= At(vi) /\ At(vi) < NextFrame /\ NextFrame <= Reach - MaxElapsed
    BY DEF ClockInv, Boundary
  <1>3. PICK e \in 0..MaxElapsed : vi' = Plus(vi, e)
    BY DEF Boundary
  <1>4. e \in 0..Half /\ Gap(vi, b) + e < Half
    BY <1>1, <1>2, ReachIs
  <1>5. vi' \in VIs /\ Gap(vi', b) = At(vi) + e
    BY <1>1, <1>3, <1>4, GapPlus
  <1>6. /\ scheduler'.nextSimulationVi = scheduler.nextSimulationVi
        /\ SimVIs' = SimVIs
        /\ scheduler'.presentationVIs = ClampVIs(sPresentationVIs')
    <2>1. scheduler' = WithPresentationVIs(scheduler, vi', sPresentationVIs')
      BY DEF Boundary
    <2>2. scheduler \in SchedulerType
      BY SchedulerIs DEF TypeInv
    <2> QED
      BY <2>1, <2>2 DEF WithPresentationVIs, SimVIs, SchedulerType
  <1> QED
    BY <1>1, <1>5, <1>6, ReachIs

(* The rates once the frames of a wake are simulated.                      *)
LEMMA RatesSet ==
  ASSUME NEW s \in SchedulerType, NEW v \in VIs, NEW n \in Nat, NEW m \in Nat
  PROVE  LET t == WithPresentationVIs(WithSimulationVIs(s, v, n), v, m)
         IN  /\ t.simulationVIs = ClampVIs(n)
             /\ t.presentationVIs = ClampVIs(m)
             /\ t.nextSimulationVi = IF s.simulationVIs = ClampVIs(n)
                                       THEN s.nextSimulationVi
                                       ELSE Plus(v, ClampVIs(n))
  <1> DEFINE t1 == WithSimulationVIs(s, v, n)
  <1>1. /\ t1 \in SchedulerType
        /\ t1.simulationVIs = ClampVIs(n)
        /\ t1.nextSimulationVi = IF s.simulationVIs = ClampVIs(n)
                                   THEN s.nextSimulationVi
                                   ELSE Plus(v, ClampVIs(n))
    BY SchedulerKeepsType DEF WithSimulationVIs, SchedulerType
  <1> HIDE DEF t1
  <1>2. LET t == WithPresentationVIs(t1, v, m)
        IN  /\ t.simulationVIs = t1.simulationVIs
            /\ t.nextSimulationVi = t1.nextSimulationVi
            /\ t.presentationVIs = ClampVIs(m)
    BY <1>1 DEF WithPresentationVIs, SchedulerType
  <1> QED
    BY <1>1, <1>2 DEF t1

LEMMA WakeClock ==
  ASSUME WideCounter, TypeInv, ClockInv, Wake
  PROVE  ClockInv'
  <1> DEFINE b == Newest.simulationVi
  <1>1. Newest'.simulationVi = b
    BY AllKeepFrames, StepsApart DEF KeepsFrames
  <1>2. /\ At(vi)' = Gap(vi', b) /\ At(deadline)' = Gap(deadline', b)
        /\ NextFrame' = Gap(scheduler'.nextSimulationVi, b)
    BY <1>1 DEF At, NextFrame
  <1>3. /\ At(vi) \in Int /\ NextFrame \in Int /\ SimVIs \in 1..4
        /\ 0 <= At(vi) /\ At(vi) < NextFrame + MaxElapsed
        /\ 1 <= NextFrame /\ NextFrame <= MaxElapsed + 7
    BY PlacesType DEF TypeInv, NextFrame, ClockInv, Resting, Wake
  <1>4. /\ At(vi)' \in At(vi)..(At(vi) + MaxElapsed) /\ SimVIs' = SimVIs
    BY <1>2, WakeFacts
  <1>5. CASE ~SimulationDue(scheduler, vi')
    <2>1. /\ NextFrame' = NextFrame /\ At(vi)' < NextFrame
          /\ pc' \in {"vblank", "present"}
      BY <1>2, <1>5, WakeFacts DEF NextFrame, At
    <2> QED
      BY <1>3, <1>4, <2>1, ReachIs DEF ClockInv, Resting, Deciding
  <1>6. CASE SimulationDue(scheduler, vi')
    <2>1. /\ NextFrame' \in (NextFrame + SimVIs)..(At(vi)' + SimVIs)
          /\ At(vi)' < NextFrame' /\ pc' \in {"boundary", "simulate"}
          /\ At(deadline)' = NextFrame' - ticks' * SimVIs
          /\ At(deadline)' >= NextFrame /\ ticks' \in 1..2
      BY <1>2, <1>6, WakeFacts
    <2>2. /\ NextFrame' = At(deadline)' + ticks' * SimVIs
          /\ 1 <= At(deadline)'
      <3> DEFINE ahead == ticks' * SimVIs
                 n == NextFrame'
                 d == At(deadline)'
      <3>1. ahead \in Int
        BY <1>3, <2>1
      <3>0. n \in Int
        BY <1>3, <1>4, <2>1
      <3>3. d = n - ahead /\ d >= NextFrame
        BY <2>1, <1>4
      <3> HIDE DEF ahead, n, d
      <3>2. n = d + ahead /\ 1 <= d
        BY <3>0, <3>1, <3>3, <1>3
      <3> QED
        BY <3>2, <1>4 DEF ahead, n, d
    <2>3. /\ 0 <= At(vi)' /\ NextFrame' <= Reach - MaxElapsed
          /\ NextFrame' - SimVIs <= At(vi)' /\ NextFrame' \in Int
          /\ At(vi)' < NextFrame' + MaxElapsed
      BY <1>3, <1>4, <2>1, ReachIs
    <2> QED
      BY <1>4, <2>1, <2>2, <2>3 DEF ClockInv, Resting, Deciding
  <1> QED
    BY <1>5, <1>6

LEMMA BoundaryClock ==
  ASSUME WideCounter, TypeInv, ClockInv, Boundary
  PROVE  ClockInv'
  <1> DEFINE b == Newest.simulationVi
  <1>1. Newest'.simulationVi = b
    BY AllKeepFrames, StepsApart DEF KeepsFrames
  <1>2. /\ At(vi)' = Gap(vi', b) /\ At(deadline)' = At(deadline)
        /\ NextFrame' = NextFrame /\ ticks' = ticks /\ SimVIs' = SimVIs
        /\ pc = "boundary" /\ pc' = "simulate"
    BY <1>1, BoundaryFacts DEF At, NextFrame, Boundary, localVars
  <1>3. At(vi)' \in At(vi)..(At(vi) + MaxElapsed)
    BY <1>2, BoundaryFacts
  <1>4. At(vi) \in Int /\ NextFrame \in Int /\ SimVIs \in 1..4
    BY PlacesType DEF TypeInv, NextFrame
  <1> QED
    BY <1>2, <1>3, <1>4, ReachIs DEF ClockInv, Deciding, Resting

LEMMA BuildBeginPlaces ==
  ASSUME WideCounter, TypeInv, ClockInv, BuildBegin
  PROVE  /\ At(vi)' = At(vi) - At(deadline)
         /\ NextFrame' = NextFrame - At(deadline)
         /\ At(deadline)' = 0
         /\ AtPrevious' = -At(deadline)
         /\ At(deadline) \in 1..Reach
  <1> DEFINE b == Newest.simulationVi
             next == scheduler.nextSimulationVi
  <1>1. /\ b \in VIs /\ vi \in VIs /\ deadline \in VIs /\ next \in VIs
        /\ At(vi) \in Int /\ NextFrame \in Int /\ At(deadline) \in Int
        /\ SimVIs \in 1..4
        /\ At(vi) = Gap(vi, b) /\ NextFrame = Gap(next, b)
        /\ At(deadline) = Gap(deadline, b)
    BY PlacesType DEF TypeInv, At, NextFrame
  <1>2. /\ 0 <= At(vi) /\ NextFrame <= Reach - MaxElapsed
        /\ At(vi) < NextFrame + MaxElapsed
        /\ ticks \in 1..2 /\ 1 <= At(deadline)
        /\ NextFrame = At(deadline) + ticks * SimVIs
        /\ NextFrame - SimVIs <= At(vi)
    BY DEF ClockInv, Deciding, BuildBegin
  <1>3. ticks * SimVIs \in 1..8
    BY <1>1, <1>2
  <1>4. Newest'.simulationVi = deadline /\ Previous'.simulationVi = b
    BY BuildBeginFrames
  <1>5. vi' = vi /\ deadline' = deadline /\ scheduler' = scheduler
    BY DEF BuildBegin, clockVars
  <1>6. /\ At(vi)' = Gap(vi, deadline) /\ NextFrame' = Gap(next, deadline)
        /\ At(deadline)' = Gap(deadline, deadline)
        /\ AtPrevious' = Gap(b, deadline)
    BY <1>4, <1>5 DEF At, NextFrame, AtPrevious
  <1>7. At(deadline) \in 1..Reach
    BY <1>1, <1>2, <1>3, ReachIs
  <1>8. Gap(vi, deadline) = At(vi) - At(deadline)
    <2>1. /\ Gap(deadline, b) > -Half
          /\ -Half <= Gap(vi, b) - Gap(deadline, b)
          /\ Gap(vi, b) - Gap(deadline, b) < Half
      BY <1>1, <1>2, <1>3, <1>7, ReachIs
    <2> QED
      BY <1>1, <2>1, GapDiff
  <1>9. Gap(next, deadline) = NextFrame - At(deadline)
    <2>1. /\ Gap(deadline, b) > -Half
          /\ -Half <= Gap(next, b) - Gap(deadline, b)
          /\ Gap(next, b) - Gap(deadline, b) < Half
      BY <1>1, <1>2, <1>3, <1>7, ReachIs
    <2> QED
      BY <1>1, <2>1, GapDiff
  <1>10. Gap(b, deadline) = -At(deadline)
    BY <1>1, <1>7, GapBack, ReachIs
  <1>11. Gap(deadline, deadline) = 0
    BY <1>1, GapIs
  <1> QED
    BY <1>6, <1>7, <1>8, <1>9, <1>10, <1>11

LEMMA BuildBeginClock ==
  ASSUME WideCounter, TypeInv, ClockInv, BuildBegin
  PROVE  ClockInv'
  <1>1. /\ At(vi) \in Int /\ NextFrame \in Int /\ SimVIs \in 1..4
        /\ At(deadline) \in 1..Reach
    BY PlacesType, BuildBeginPlaces DEF TypeInv, NextFrame
  <1>2. /\ 0 <= At(vi) /\ NextFrame <= Reach - MaxElapsed
        /\ At(vi) < NextFrame + MaxElapsed
        /\ ticks \in 1..2 /\ 1 <= At(deadline)
        /\ NextFrame = At(deadline) + ticks * SimVIs
        /\ NextFrame - SimVIs <= At(vi)
    BY DEF ClockInv, Deciding, BuildBegin
  <1>3. /\ ticks' = ticks /\ SimVIs' = SimVIs /\ pc' = "building"
    BY DEF BuildBegin, SimVIs, clockVars
  <1>4. /\ At(vi)' = At(vi) - At(deadline) /\ At(deadline)' = 0
        /\ NextFrame' = NextFrame - At(deadline)
    BY BuildBeginPlaces
  <1>5. ticks * SimVIs \in 1..8 /\ ticks * SimVIs >= SimVIs
    BY <1>1, <1>2
  <1>6. /\ NextFrame' = ticks * SimVIs /\ 0 <= At(vi)'
        /\ NextFrame' - SimVIs <= At(vi)'
        /\ NextFrame' <= Reach - MaxElapsed /\ At(vi)' < NextFrame' + MaxElapsed
    BY <1>1, <1>2, <1>4, <1>5, ReachIs
  <1> QED
    BY <1>2, <1>3, <1>4, <1>6 DEF ClockInv, Resting, Deciding

LEMMA BuildEndFacts ==
  ASSUME WideCounter, TypeInv, ClockInv, BuildEnd
  PROVE  /\ At(vi)' = At(vi) /\ ticks \in 1..2 /\ ticks' = ticks - 1
         /\ ticks = 2 => /\ pc' = "simulate" /\ scheduler' = scheduler
                         /\ At(deadline)' = SimVIs /\ NextFrame' = NextFrame
                         /\ NextFrame = 2 * SimVIs
         /\ ticks = 1 =>
              /\ pc' \in {"vblank", "present"} /\ NextFrame = SimVIs
              /\ SimVIs' = ClampVIs(gVIsPerFrame')
              /\ scheduler'.presentationVIs = ClampVIs(sPresentationVIs)
              /\ NextFrame' = IF SimVIs = SimVIs' THEN NextFrame
                                                  ELSE At(vi) + SimVIs'
              /\ SimVIs' \in 1..4
  <1> DEFINE b == Newest.simulationVi
             next == scheduler.nextSimulationVi
  <1>1. /\ b \in VIs /\ vi \in VIs /\ deadline \in VIs /\ next \in VIs
        /\ At(vi) \in Int /\ NextFrame \in Int /\ At(deadline) \in Int
        /\ SimVIs \in 1..4
        /\ At(vi) = Gap(vi, b) /\ NextFrame = Gap(next, b)
        /\ At(deadline) = Gap(deadline, b)
    BY PlacesType DEF TypeInv, At, NextFrame
  <1>2. /\ 0 <= At(vi) /\ At(vi) < NextFrame + MaxElapsed
        /\ ticks \in 1..2 /\ At(deadline) = 0
        /\ NextFrame = ticks * SimVIs
    BY DEF ClockInv, BuildEnd
  <1>3. Newest'.simulationVi = b /\ vi' = vi
    BY AllKeepFrames, StepsApart DEF KeepsFrames, BuildEnd
  <1>4. /\ At(vi)' = At(vi) /\ At(deadline)' = Gap(deadline', b)
        /\ NextFrame' = Gap(scheduler'.nextSimulationVi, b)
    BY <1>3 DEF At, NextFrame
  <1>5. CASE ticks = 2
    <2>1. /\ pc' = "simulate" /\ scheduler' = scheduler /\ ticks' = ticks - 1
          /\ deadline' = Plus(deadline, SimVIs)
      BY <1>5 DEF BuildEnd, SimVIs
    <2>2. SimVIs \in 0..Half /\ Gap(deadline, b) + SimVIs < Half
      BY <1>1, <1>2, ReachIs
    <2>3. Gap(deadline', b) = SimVIs
      <3>1. Gap(Plus(deadline, SimVIs), b) = Gap(deadline, b) + SimVIs
        BY <1>1, <2>2, GapPlus
      <3> QED
        <4>1. Gap(deadline, b) = 0
          BY <1>1, <1>2
        <4>2. deadline' = Plus(deadline, SimVIs)
          BY <2>1
        <4> HIDE DEF b
        <4> QED
          BY <1>1, <3>1, <4>1, <4>2
    <2>4. /\ NextFrame' = NextFrame /\ NextFrame = 2 * SimVIs
          /\ At(deadline)' = SimVIs
      BY <1>1, <1>2, <1>4, <1>5, <2>1, <2>3
    <2> QED
      BY <1>4, <1>5, <2>1, <2>4
  <1>6. CASE ticks = 1
    <2> DEFINE t == WithPresentationVIs(
                      WithSimulationVIs(scheduler, vi, gVIsPerFrame'),
                      vi, sPresentationVIs)
               c == ClampVIs(gVIsPerFrame')
    <2>1. /\ pc' \in {"vblank", "present"} /\ ticks' = ticks - 1
          /\ scheduler' = t
      BY <1>6 DEF BuildEnd
    <2>2. gVIsPerFrame' \in Nat /\ sPresentationVIs \in Nat
      BY RatesType DEF BuildEnd, TypeInv, TypeOK
    <2>3. scheduler \in SchedulerType
      BY SchedulerIs DEF TypeInv
    <2>4. /\ t.simulationVIs = c
          /\ t.presentationVIs = ClampVIs(sPresentationVIs)
          /\ t.nextSimulationVi = IF SimVIs = c THEN next ELSE Plus(vi, c)
      BY <1>1, <2>2, <2>3, RatesSet DEF SimVIs
    <2>5. c \in 1..4
      BY <2>2, ClampType
    <2>6. c \in 0..Half /\ Gap(vi, b) + c < Half
      BY <1>1, <1>2, <1>6, <2>5, ReachIs
    <2>7. Gap(Plus(vi, c), b) = At(vi) + c
      BY <1>1, <2>6, GapPlus
    <2>8. SimVIs' = c
      BY <2>1, <2>4 DEF SimVIs
    <2>9. NextFrame' = IF SimVIs = c THEN NextFrame ELSE At(vi) + c
      BY <1>1, <1>4, <2>1, <2>4, <2>7
    <2> HIDE DEF t, c
    <2> QED
      BY <1>1, <1>2, <1>4, <1>6, <2>1, <2>4, <2>5, <2>8, <2>9 DEF c
  <1> QED
    BY <1>2, <1>5, <1>6

LEMMA BuildEndClock ==
  ASSUME WideCounter, TypeInv, ClockInv, BuildEnd
  PROVE  ClockInv'
  <1>1. /\ At(vi) \in Int /\ NextFrame \in Int /\ SimVIs \in 1..4
        /\ 0 <= At(vi) /\ NextFrame <= Reach - MaxElapsed
        /\ At(vi) < NextFrame + MaxElapsed
        /\ NextFrame = ticks * SimVIs /\ NextFrame - SimVIs <= At(vi)
    BY PlacesType DEF TypeInv, NextFrame, ClockInv, BuildEnd
  <1>2. /\ At(vi)' = At(vi) /\ ticks \in 1..2 /\ ticks' = ticks - 1
    BY BuildEndFacts
  <1>3. CASE ticks = 2
    <2>1. /\ pc' = "simulate" /\ SimVIs' = SimVIs /\ ticks' = 1
          /\ At(deadline)' = SimVIs /\ NextFrame' = NextFrame
          /\ NextFrame = 2 * SimVIs
      BY <1>2, <1>3, BuildEndFacts DEF SimVIs
    <2> QED
      BY <1>1, <1>2, <2>1 DEF ClockInv, Resting, Deciding
  <1>4. CASE ticks = 1
    <2>1. /\ pc' \in {"vblank", "present"} /\ NextFrame = SimVIs
          /\ NextFrame' \in {NextFrame, At(vi) + SimVIs'}
          /\ SimVIs' \in 1..4
      BY <1>2, <1>4, BuildEndFacts
    <2>2. /\ 1 <= NextFrame' /\ NextFrame' <= MaxElapsed + 7
          /\ At(vi) < NextFrame' + MaxElapsed
          /\ NextFrame' <= Reach - MaxElapsed
      BY <1>1, <2>1, ReachIs
    <2> QED
      BY <1>1, <1>2, <2>1, <2>2 DEF ClockInv, Resting, Deciding
  <1> QED
    BY <1>2, <1>3, <1>4

(* The other steps leave the clock alone.                                  *)
LEMMA OtherClock ==
  ASSUME WideCounter, TypeInv, ClockInv,
         Present \/ RenderDone \/ RequestExit \/ ExitFromLoop \/ ExitFromBoot
         \/ UNCHANGED vars
  PROVE  ClockInv'
  <1>1. /\ UNCHANGED <<vi, scheduler, frame, sPools, ticks, deadline>>
        /\ pc' = pc \/ (pc = "present" /\ pc' = "vblank")
    BY DEF Present, RenderDone, RequestExit, ExitFromLoop, ExitFromBoot, vars,
       clockVars, poolVars, localVars
  <1>2. /\ At(vi)' = At(vi) /\ At(deadline)' = At(deadline)
        /\ NextFrame' = NextFrame /\ SimVIs' = SimVIs
    BY <1>1 DEF At, NextFrame, SimVIs, Newest
  <1> QED
    BY <1>1, <1>2 DEF ClockInv, Resting, Deciding

LEMMA ClockKept ==
  WideCounter /\ TypeInv /\ ClockInv /\ [Next]_vars => ClockInv'
  BY WakeClock, BoundaryClock, BuildBeginClock, BuildEndClock, OtherClock DEF
     Next, Loop

(* When the newest frame can be interpolated, its target lies where Target *)
(* says, and the history suffices until the newest sample is reached.      *)
LEMMA TargetIs ==
  ASSUME WideCounter, TypeInv, ClockInv, ShownInv, Resting,
         Minus(Newest.simulationVi, Previous.simulationVi)
            = Newest.simulationVIs,
         Newest.simulationVIs >= 1
  PROVE  /\ AtPrevious = -Newest.simulationVIs
         /\ TargetVi(Newest) \in VIs
         /\ At(TargetVi(Newest)) = Target
         /\ Minus(TargetVi(Newest), Previous.simulationVi) = At(vi) + 1
         /\ At(vi) + 1 < Half
  <1> DEFINE b == Newest.simulationVi
             p == Previous.simulationVi
             r == Newest.simulationVIs
             t == TargetVi(Newest)
  <1>1. /\ b \in VIs /\ p \in VIs /\ vi \in VIs /\ r \in Nat
        /\ At(vi) \in Int /\ NextFrame \in Int /\ AtPrevious \in Int
        /\ At(vi) = Gap(vi, b) /\ AtPrevious = Gap(p, b)
    BY PlacesType DEF TypeInv, At, NextFrame, AtPrevious
  <1>2. /\ 0 <= At(vi) /\ At(vi) <= 2 * MaxElapsed + 6
        /\ -Reach <= AtPrevious /\ AtPrevious <= 0
    <2>1. /\ 0 <= At(vi) /\ At(vi) < NextFrame + MaxElapsed
          /\ NextFrame <= MaxElapsed + 7
      BY DEF ClockInv
    <2>2. /\ -Reach <= AtPrevious /\ AtPrevious <= At(shown) /\ At(shown) <= 0
          /\ At(shown) \in Int
      BY PlacesType DEF ShownInv, TypeInv
    <2> QED
      BY <1>1, <2>1, <2>2, ReachIs
  <1>3. r = -AtPrevious /\ r <= Reach
    <2>1. Gap(b, p) = -AtPrevious
      BY <1>1, <1>2, ReachIs, GapBack
    <2>2. Minus(b, p) = Gap(b, p)
      BY <1>1, <1>2, <2>1, GapIs
    <2>3. r = -AtPrevious
      BY <2>1, <2>2
    <2> QED
      BY <1>1, <1>2, <2>3, ReachIs
  <1>4. t \in VIs /\ Gap(t, b) = At(vi) - (r - 1)
    <2>1. t = Minus(vi, r - 1)
      BY DEF TargetVi
    <2>2. r - 1 \in 0..Half /\ -Half <= Gap(vi, b) - (r - 1)
      BY <1>1, <1>2, <1>3, ReachIs
    <2> HIDE DEF r, t, b
    <2> QED
      BY <1>1, <2>1, <2>2, GapMinus
  <1>5. Gap(t, p) = At(vi) + 1
    <2>1. /\ Gap(p, b) > -Half /\ Gap(t, b) - Gap(p, b) = At(vi) + 1
          /\ -Half <= At(vi) + 1 /\ At(vi) + 1 < Half
      BY <1>1, <1>2, <1>3, <1>4, ReachIs
    <2> HIDE DEF t, b, p
    <2> QED
      BY <1>1, <1>4, <2>1, GapDiff
  <1>6. Minus(t, p) = At(vi) + 1 /\ At(vi) + 1 < Half
    BY <1>1, <1>2, <1>4, <1>5, GapIs, ReachIs
  <1>7. AtPrevious = -r
    BY <1>1, <1>3
  <1> QED
    BY <1>4, <1>6, <1>7 DEF Target, At

LEMMA HistoryIs ==
  ASSUME WideCounter, TypeInv, ClockInv, ShownInv, Resting, Interpolable
  PROVE  HasHistory(Newest, Previous) <=> At(vi) + 1 <= Newest.simulationVIs
  <1>1. Newest.simulationVIs >= 1 /\ Newest.simulationVIs \in Nat
    BY PlacesType DEF Interpolable, TypeInv
  <1>2. /\ Minus(TargetVi(Newest), Previous.simulationVi) = At(vi) + 1
        /\ At(vi) + 1 < Half
    BY <1>1, TargetIs DEF Interpolable
  <1> QED
    BY <1>2 DEF HasHistory, Interpolable, Half

(* What is prepared lies between what is shown and the newest sample.      *)
LEMMA PreparedFacts ==
  ASSUME WideCounter, TypeInv, ClockInv, ShownInv, Resting
  PROVE  LET q == Prepared(frame)
         IN  /\ At(shown) <= At(q.sample) /\ At(q.sample) <= 0
             /\ ~q.interpolated => q.sample = Newest.simulationVi
             /\ Interpolable => At(q.sample) <= Target
  <1> DEFINE q == Prepared(frame)
             b == Newest.simulationVi
             r == Newest.simulationVIs
             requested == /\ Newest.valid /\ Newest.eligible
                          /\ scheduler.presentationVIs < r
                          /\ TargetVi(Newest) # b
             history == HasHistory(Newest, Previous)
  <1>1. /\ b \in VIs /\ vi \in VIs /\ r \in Nat /\ At(vi) \in Int
        /\ At(shown) \in Int /\ AtPrevious \in Int /\ At(b) = 0
        /\ scheduler.presentationVIs \in 1..4
    BY PlacesType DEF TypeInv, AtPrevious
  <1>2. /\ AtPrevious <= At(shown) /\ At(shown) <= 0 /\ 0 <= At(vi)
        /\ Interpolable => \/ shown = Previous.simulationVi
                           \/ At(shown) <= Target
    BY DEF ShownInv, ClockInv
  <1>3. q = IF ~requested THEN Plain(frame)
            ELSE [interpolated |-> history,
                  sample |-> IF history THEN TargetVi(Newest) ELSE b,
                  fallback |-> ~history,
                  repeated |-> ~history /\ scheduler.presentationVIs = 1]
    BY DEF Prepared, Newest, Previous
  <1>4. Interpolable => /\ At(TargetVi(Newest)) = Target /\ r >= 1
                        /\ AtPrevious = -r
                        /\ TargetVi(Newest) \in VIs
    BY <1>1, TargetIs DEF Interpolable
  <1>5. CASE requested /\ history
    <2>1. Interpolable
      BY <1>5 DEF Interpolable, HasHistory
    <2>2. At(vi) + 1 <= r
      BY <2>1, <1>5, HistoryIs
    <2>3. q.sample = TargetVi(Newest) /\ q.interpolated
      BY <1>3, <1>5
    <2>4. At(q.sample) = Target
      BY <1>4, <2>1, <2>3
    <2>5. Target <= 0 /\ At(shown) <= Target
      <3>1. Target = At(vi) - (r - 1)
        BY DEF Target
      <3>2. CASE shown = Previous.simulationVi
        <4>1. At(shown) = -r
          BY <3>2, <1>4, <2>1 DEF AtPrevious
        <4> QED
          BY <4>1, <3>1, <2>2, <1>1, <1>2
      <3>3. CASE At(shown) <= Target
        BY <3>3, <3>1, <2>2, <1>1
      <3> QED
        BY <3>2, <3>3, <1>2, <2>1
    <2>6. Target \in Int
      BY <1>1 DEF Target
    <2> HIDE DEF q
    <2> QED
      BY <2>3, <2>4, <2>5, <2>6 DEF q
  <1>6. CASE ~(requested /\ history)
    <2>1. q.sample = b
      BY <1>3, <1>6 DEF Plain, Newest
    <2>2. Interpolable => 0 <= Target
      <3> SUFFICES ASSUME Interpolable PROVE 0 <= Target
        OBVIOUS
      <3>1. Target = At(vi) - (r - 1)
        BY DEF Target
      <3>2. CASE requested
        <4>1. ~(At(vi) + 1 <= r)
          BY <3>2, <1>6, HistoryIs
        <4> QED
          BY <4>1, <3>1, <1>1
      <3>3. CASE ~requested
        <4>1. TargetVi(Newest) = b
          BY <3>3 DEF Interpolable
        <4> QED
          BY <4>1, <1>1, <1>4
      <3> QED
        BY <3>2, <3>3
    <2> HIDE DEF q
    <2> QED
      BY <1>1, <1>2, <2>1, <2>2 DEF q
  <1> QED
    BY <1>5, <1>6

LEMMA InitMotion == WideCounter /\ Init => MotionInv
  <1> SUFFICES ASSUME WideCounter, Init PROVE MotionInv
    OBVIOUS
  <1>1. TypeInv /\ IInv
    BY InitTypes, InitInv
  <1>2. /\ frame \in Pool /\ Other(frame) \in Pool /\ Other(frame) # frame
    BY <1>1, OtherPool DEF IInv, TasksInv
  <1>3. /\ Newest.simulationVi = 0 /\ Previous.simulationVi = 0
        /\ Newest.valid = FALSE
    BY <1>2 DEF Init, Newest, Previous, Sample
  <1>4. Gap(0, 0) = 0 /\ 0 \in VIs
    BY PlusMinusType, GapIs
  <1>5. /\ At(vi) = 0 /\ At(shown) = 0 /\ AtPrevious = 0
    BY <1>3, <1>4 DEF Init, At, AtPrevious
  <1> DEFINE c == ClampVIs(gVIsPerFrame)
  <1>6. NextFrame = c /\ c \in 1..4
    <2>1. c \in 1..4
      BY RatesType DEF Init
    <2>2. scheduler.nextSimulationVi = Plus(0, c)
      BY DEF Init, NewScheduler
    <2>3. c \in 0..Half /\ Gap(0, 0) + c < Half
      BY <1>4, <2>1, ReachIs
    <2>4. Gap(Plus(0, c), 0) = Gap(0, 0) + c
      BY <1>4, <2>3, GapPlus
    <2> HIDE DEF c
    <2> QED
      BY <1>3, <1>4, <2>1, <2>2, <2>4 DEF NextFrame, At
  <1>7. pc = "vblank"
    BY DEF Init
  <1>8. ClockInv
    BY <1>5, <1>6, <1>7, ReachIs DEF ClockInv, Resting, Deciding
  <1>9. ShownInv
    BY <1>3, <1>5, <1>7, ReachIs DEF ShownInv, Interpolable
  <1>10. DrawnInv
    <2>1. /\ drawing = frame /\ presentation.sample = 0
      BY <1>2 DEF Init, Plain, Sample
    <2>2. At(presentation.sample) = 0
      BY <2>1, <1>3, <1>4 DEF At
    <2> QED
      BY <1>2, <1>3, <1>5, <2>1, <2>2 DEF DrawnInv, Interpolable
  <1> QED
    BY <1>8, <1>9, <1>10 DEF MotionInv

(* Steps that change neither the frames nor what is shown or drawn.        *)
LEMMA QuietMotion ==
  ASSUME WideCounter, TypeInv, IInv, ClockInv, ClockInv', ShownInv, DrawnInv,
         Wake \/ Boundary \/ BuildEnd \/ RequestExit \/ ExitFromLoop
         \/ ExitFromBoot \/ UNCHANGED vars
  PROVE  ShownInv' /\ DrawnInv'
  <1>1. /\ frame' = frame /\ Newest'.simulationVi = Newest.simulationVi
        /\ Newest'.simulationVIs = Newest.simulationVIs
        /\ Previous'.simulationVi = Previous.simulationVi
    <2>1. CASE UNCHANGED vars
      BY <2>1 DEF vars, poolVars, Newest, Previous
    <2>2. CASE ~UNCHANGED vars
      <3>1. Next /\ ~BuildBegin
        BY <2>2, StepsApart DEF Next, Loop, RequestExit, ExitFromLoop,
           ExitFromBoot, BuildBegin
      <3> QED
        BY <3>1, AllKeepFrames DEF KeepsFrames
    <2> QED
      BY <2>1, <2>2
  <1>2. /\ shown' = shown /\ drawing' = drawing
        /\ drawing # NONE => presentation' = presentation
    <2>1. CASE Boundary
      <3>1. drawing = NONE
        BY <2>1, WaitDrains DEF Boundary, WaitForTask, IInv
      <3> QED
        BY <2>1, <3>1 DEF Boundary
    <2>2. CASE ~Boundary
      BY <2>2 DEF Wake, BuildEnd, RequestExit, ExitFromLoop, ExitFromBoot,
         vars, serviceVars
    <2> QED
      BY <2>1, <2>2
  <1>3. /\ AtPrevious' = AtPrevious /\ At(shown)' = At(shown)
        /\ drawing # NONE =>
              At(presentation.sample)' = At(presentation.sample)
    BY <1>1, <1>2 DEF At, AtPrevious
  <1>4. /\ frame \in Pool /\ Other(frame) \in Pool /\ NONE \notin Pool
        /\ Other(frame) # frame
    BY OtherPool, LoopAssumption DEF IInv, TasksInv
  <1>5. pc' = "building" => pc = "building"
    BY DEF Wake, Boundary, BuildEnd, RequestExit, ExitFromLoop, ExitFromBoot,
       vars
  <1>6. ASSUME Resting', Interpolable'
        PROVE  /\ shown = Previous.simulationVi \/ At(shown) <= Target'
               /\ drawing = frame => At(presentation.sample) <= Target'
    <2>1. CASE BuildEnd
      <3>1. shown = Previous.simulationVi
        BY <2>1 DEF ShownInv, BuildEnd
      <3>2. drawing # frame
        BY <2>1, <1>4 DEF BuildEnd, IInv, BuildInv, Reading
      <3> QED
        BY <3>1, <3>2
    <2>2. CASE Boundary
      BY <1>6, <2>2 DEF Boundary, Resting
    <2>3. CASE ~BuildEnd /\ ~Boundary
      <3>1. /\ Resting /\ sPools' = sPools
            /\ scheduler'.presentationVIs = scheduler.presentationVIs
        <4>1. CASE Wake
          <5>1. scheduler \in SchedulerType
            BY SchedulerIs DEF TypeInv
          <5> QED
            BY <4>1, <5>1 DEF Wake, Resting, Advance, SchedulerType, poolVars
        <4>2. CASE ~Wake
          BY <1>6, <2>3, <4>2 DEF RequestExit, ExitFromLoop, ExitFromBoot,
             vars, clockVars, poolVars, Resting
        <4> QED
          BY <4>1, <4>2
      <3>2. Interpolable
        BY <1>1, <1>6, <3>1 DEF Interpolable, Newest, Previous
      <3>3. At(vi) \in Int /\ At(vi)' \in Int /\ At(vi) <= At(vi)'
        <4>1. At(vi) \in Int
          BY PlacesType DEF TypeInv
        <4>2. CASE Wake
          <5>1. At(vi)' = Gap(vi', Newest.simulationVi)
            BY <1>1 DEF At
          <5>2. Gap(vi', Newest.simulationVi)
                   \in At(vi)..(At(vi) + MaxElapsed)
            BY <4>2, WakeFacts
          <5> QED
            BY <4>1, <5>1, <5>2, ReachIs
        <4>3. CASE ~Wake
          <5>1. vi' = vi
            BY <2>3, <4>3 DEF RequestExit, ExitFromLoop, ExitFromBoot, vars,
               clockVars
          <5> QED
            BY <4>1, <5>1, <1>1 DEF At
        <4> QED
          BY <4>2, <4>3
      <3>4. /\ Newest.simulationVIs \in Nat /\ At(shown) \in Int
            /\ Target \in Int /\ Target' \in Int /\ Target <= Target'
        BY <1>1, <3>3, PlacesType DEF TypeInv, Target
      <3>5. shown = Previous.simulationVi \/ At(shown) <= Target'
        BY <3>1, <3>2, <3>4 DEF ShownInv
      <3>6. drawing = frame => At(presentation.sample) <= Target'
        <4>1. drawing = frame => At(presentation.sample) \in Int
          BY <1>4, PlacesType DEF TypeInv, TypeOK
        <4> QED
          BY <3>1, <3>2, <3>4, <4>1 DEF DrawnInv
      <3> QED
        BY <3>5, <3>6
    <2> QED
      BY <2>1, <2>2, <2>3
  <1>7. ShownInv'
    BY <1>1, <1>2, <1>3, <1>5, <1>6 DEF ShownInv
  <1>8. DrawnInv'
    BY <1>1, <1>2, <1>3, <1>4, <1>6 DEF DrawnInv
  <1> QED
    BY <1>7, <1>8

LEMMA BuildBeginMotion ==
  ASSUME WideCounter, TypeInv, IInv, ClockInv, ShownInv, DrawnInv, BuildBegin
  PROVE  /\ ShownInv' /\ DrawnInv' /\ shown' = Newest.simulationVi
  <1> DEFINE b == Newest.simulationVi
  <1>1. /\ b \in VIs /\ shown \in VIs /\ At(shown) \in Int
        /\ At(shown) = Gap(shown, b) /\ AtPrevious \in Int
    BY PlacesType DEF TypeInv, At, AtPrevious
  <1>2. shown' = b
    <2>1. ~Before(b, shown)
      BY <1>1, Compares, ModType DEF ShownInv
    <2>2. shown' = Later(b, shown)
      BY DEF BuildBegin, Newest
    <2> QED
      BY <2>1, <2>2 DEF Later
  <1>3. /\ frame' = Other(frame) /\ Other(frame') = frame
        /\ Previous'.simulationVi = b /\ Newest'.simulationVi = deadline
    BY BuildBeginFrames
  <1>4. /\ AtPrevious' = -At(deadline) /\ At(deadline) \in 1..Reach
    BY BuildBeginPlaces
  <1>5. At(shown)' = AtPrevious'
    BY <1>2, <1>3 DEF At, AtPrevious
  <1>6. pc' = "building"
    BY DEF BuildBegin
  <1>7. ShownInv'
    BY <1>2, <1>3, <1>4, <1>5, <1>6, ReachIs DEF ShownInv, Resting
  <1>8. DrawnInv'
    <2>1. /\ frame \in Pool /\ Other(frame) \in Pool /\ NONE \notin Pool
          /\ Other(frame) # frame
      BY OtherPool, LoopAssumption DEF IInv, TasksInv
    <2>2. /\ Other(frame) \notin Reading
          /\ drawing' = drawing /\ presentation' = presentation
      BY FreePool, WaitDrains DEF BuildBegin, WaitForTask, IInv, Reading
    <2>3. drawing' # frame'
      BY <1>3, <2>1, <2>2 DEF Reading
    <2>4. drawing = frame => ~presentation.interpolated
      BY <2>1, <2>2 DEF Reading
    <2>5. drawing = frame => presentation.sample = b
      BY <2>4 DEF DrawnInv
    <2> QED
      BY <1>2, <1>3, <2>2, <2>3, <2>4, <2>5 DEF DrawnInv
  <1> QED
    BY <1>2, <1>7, <1>8

LEMMA PresentMotion ==
  ASSUME WideCounter, TypeInv, IInv, ClockInv, ShownInv, DrawnInv, Present
  PROVE  ShownInv' /\ DrawnInv'
  <1>1. Resting /\ TaskToPresent = frame
    BY DEF Present, Resting, IInv, NewestInv
  <1>2. /\ UNCHANGED <<vi, scheduler, frame, sPools, shown>>
        /\ pc' = "vblank" /\ drawing' = frame /\ presentation' = Prepared(frame)
    BY <1>1 DEF Present, clockVars, poolVars
  <1>3. /\ Newest' = Newest /\ Previous' = Previous
    BY <1>2 DEF Newest, Previous
  <1>4. /\ AtPrevious' = AtPrevious /\ At(shown)' = At(shown)
        /\ Interpolable' = Interpolable /\ Target' = Target
        /\ At(presentation.sample)' = At(Prepared(frame).sample)
    BY <1>2, <1>3 DEF At, AtPrevious, Interpolable, Target
  <1>5. ShownInv'
    BY <1>1, <1>2, <1>3, <1>4 DEF ShownInv, Resting
  <1>6. frame' # Other(frame')
    BY <1>2, OtherPool DEF IInv, TasksInv
  <1>7. DrawnInv'
    BY <1>1, <1>2, <1>3, <1>4, <1>6, PreparedFacts DEF DrawnInv
  <1> QED
    BY <1>5, <1>7

LEMMA RenderDoneMotion ==
  ASSUME WideCounter, TypeInv, IInv, ClockInv, ShownInv, DrawnInv, RenderDone
  PROVE  /\ ShownInv' /\ DrawnInv'
         /\ At(shown') \in Int /\ At(shown) <= At(shown') /\ At(shown') <= 0
  <1>1. /\ frame \in Pool /\ Other(frame) \in Pool /\ NONE \notin Pool
        /\ drawing \in {frame, Other(frame)}
    BY OtherPool, LoopAssumption DEF RenderDone, IInv, TasksInv, Pool, Other
  <1>2. /\ UNCHANGED <<vi, scheduler, frame, sPools, pc>> /\ drawing' = NONE
        /\ shown' \in {shown, presentation.sample}
    BY DEF RenderDone, clockVars, poolVars
  <1>3. Newest' = Newest /\ Previous' = Previous
    BY <1>2 DEF Newest, Previous
  <1>4. /\ AtPrevious' = AtPrevious /\ At(shown)' = At(shown')
        /\ Interpolable' = Interpolable /\ Target' = Target
        /\ Resting' = Resting
    BY <1>2, <1>3 DEF At, AtPrevious, Interpolable, Target, Resting
  <1>5. /\ At(shown) \in Int /\ shown' \in VIs /\ At(shown') \in Int
        /\ AtPrevious \in Int
    <2>1. presentation.sample \in VIs
      BY <1>1 DEF RenderDone, TypeInv, TypeOK
    <2> QED
      BY <1>2, <2>1, PlacesType DEF TypeInv, AtPrevious
  <1>6. CASE drawing = frame
    <2>1. pc # "building"
      BY <1>1, <1>6 DEF IInv, BuildInv, Reading
    <2>2. At(shown) <= At(shown') /\ At(shown') <= 0
      BY <1>2, <1>5, <1>6 DEF DrawnInv, ShownInv
    <2>3. Resting /\ Interpolable =>
             shown' = Previous.simulationVi \/ At(shown') <= Target
      BY <1>2, <1>6 DEF DrawnInv, ShownInv
    <2>4. ShownInv'
      BY <1>2, <1>3, <1>4, <1>5, <2>1, <2>2, <2>3 DEF ShownInv
    <2>5. DrawnInv'
      BY <1>1, <1>2 DEF DrawnInv
    <2> QED
      BY <1>5, <2>2, <2>4, <2>5
  <1>7. CASE drawing = Other(frame)
    <2>1. shown' = shown
      BY <1>2, <1>7 DEF DrawnInv
    <2>2. ShownInv'
      BY <1>2, <1>3, <1>4, <2>1 DEF ShownInv
    <2>3. DrawnInv'
      BY <1>1, <1>2 DEF DrawnInv
    <2> QED
      BY <1>5, <2>1, <2>2, <2>3 DEF ShownInv
  <1> QED
    BY <1>1, <1>6, <1>7

LEMMA MotionKept ==
  WideCounter /\ TypeInv /\ IInv /\ MotionInv /\ [Next]_vars => MotionInv'
  <1> SUFFICES ASSUME WideCounter, TypeInv, IInv, MotionInv, [Next]_vars
               PROVE  MotionInv'
    OBVIOUS
  <1>1. ClockInv'
    BY ClockKept DEF MotionInv
  <1>2. ShownInv' /\ DrawnInv'
    BY <1>1, QuietMotion, BuildBeginMotion, PresentMotion, RenderDoneMotion DEF
       Next, Loop, MotionInv
  <1> QED
    BY <1>1, <1>2 DEF MotionInv

LEMMA MotionInductive ==
  ASSUME WideCounter
  PROVE  Spec => []MotionInv
  <1>1. Init => MotionInv
    BY InitMotion
  <1>2. TypeInv /\ IInv /\ MotionInv /\ [Next]_vars => MotionInv'
    BY MotionKept
  <1> QED
    BY <1>1, <1>2, TypesInductive, Inductive, PTL DEF Spec

(* What is displayed is never older than what was displayed before, nor    *)
(* than a sample the loop has replaced, whatever deadlines are missed and  *)
(* rates or settings changed: on a counter that does not come round while  *)
(* a frame is on its way (WideCounter; 2^32 intervals last two years).     *)
THEOREM MotionGoesForward ==
  ASSUME WideCounter
  PROVE  Spec => MotionNeverGoesBack
  <1> DEFINE Forward == ~Before(shown', shown)
  <1>1. ASSUME TypeInv, IInv, MotionInv, Next PROVE Forward
    <2>1. /\ shown \in VIs /\ At(shown) \in Int /\ -Reach <= At(shown)
          /\ At(shown) <= 0 /\ Newest.simulationVi \in VIs
      <3>1. AtPrevious \in Int /\ At(shown) \in Int
        BY <1>1, PlacesType DEF TypeInv, AtPrevious
      <3> QED
        BY <1>1, <3>1, PlacesType, ReachIs DEF TypeInv, MotionInv, ShownInv
    <2>2. ASSUME NEW n \in VIs, At(shown) <= At(n), At(n) <= 0
          PROVE  ~Before(n, shown)
      <3>1. At(n) \in Int /\ -Reach <= At(n)
        BY <1>1, <2>1, <2>2, PlacesType, ReachIs DEF TypeInv
      <3>2. Gap(shown, n) = At(shown) - At(n)
        <4>1. /\ Gap(n, Newest.simulationVi) > -Half
              /\ -Half <= At(shown) - At(n) /\ At(shown) - At(n) < Half
          BY <2>1, <2>2, <3>1, ReachIs DEF At
        <4> QED
          BY <2>1, <4>1, GapDiff DEF At
      <3>3. Gap(shown, n) <= 0
        BY <2>1, <2>2, <3>1, <3>2
      <3> QED
        BY <2>1, <3>3, Compares, ModType
    <2>3. CASE BuildBegin
      <3>1. shown' = Newest.simulationVi
        BY <1>1, <2>3, BuildBeginMotion DEF MotionInv
      <3> QED
        BY <1>1, <2>1, <2>2, <3>1, PlacesType DEF TypeInv
    <2>4. CASE RenderDone
      <3>1. /\ At(shown) <= At(shown') /\ At(shown') <= 0
        BY <1>1, <2>4, RenderDoneMotion DEF MotionInv
      <3>2. shown' \in VIs
        BY <1>1, OtherTypes, <2>4 DEF TypeInv, TypeOK
      <3> QED
        BY <2>2, <3>1, <3>2
    <2>5. CASE ~BuildBegin /\ ~RenderDone
      <3>1. shown' = shown
        BY <1>1, <2>5 DEF Next, Loop, Wake, Boundary, BuildEnd, Present,
           RequestExit, ExitFromLoop, ExitFromBoot, serviceVars
      <3> QED
        BY <2>1, <2>2, <3>1
    <2> QED
      BY <2>3, <2>4, <2>5
  <1>2. TypeInv /\ IInv /\ MotionInv /\ [Next]_vars => [Forward]_vars
    BY <1>1
  <1> QED
    BY <1>2, MotionInductive, TypesInductive, Inductive, PTL DEF Spec,
       MotionNeverGoesBack
-----------------------------------------------------------------------------
(* Steady frames.                                                          *)
(* A pool holds a frame recorded at the present rate, in the present scene.*)
Recorded(p) ==
    /\ sPools[p].simulationVIs = gVIsPerFrame /\ sPools[p].scene = scene
    /\ sPools[p].valid = (gVIsPerFrame > sPresentationVIs)
    /\ sPools[p].eligible = (gVIsPerFrame > sPresentationVIs)

Consecutive ==
    Newest.generation = (Previous.generation + 1) % Generations

(* The scheduler follows the game's rate but for the rest of a wake in     *)
(* which it changed.                                                       *)
RateInv ==
    /\ scheduler.presentationVIs = sPresentationVIs
    /\ SimVIs # ClampVIs(gVIsPerFrame) =>
          ~Resting /\ ticks = 1 /\ steady = 0

BuildingInv ==
    pc = "building" =>
       /\ Newest.simulationVIs = gVIsPerFrame
       /\ record = (gVIsPerFrame > sPresentationVIs)
       /\ Newest.generation = sGeneration
       /\ steady >= 1 => Recorded(Other(frame)) /\ Consecutive
       /\ steady >= 2 => AtPrevious = -SimVIs

SteadyInv ==
    pc # "building" =>
       /\ steady >= 1 => Recorded(frame) /\ Newest.generation = sGeneration
       /\ steady >= 2 => Recorded(Other(frame)) /\ Consecutive
       /\ steady = 3 => AtPrevious = -ClampVIs(gVIsPerFrame)
       /\ steady >= 2 /\ Resting => NextFrame = SimVIs
       /\ steady >= 2 /\ Deciding => At(deadline) = SimVIs

(* A boundary that let the counter pass the next frame is less than three  *)
(* frames ago.                                                             *)
LateInv ==
    At(vi) >= NextFrame =>
       /\ Resting => steady <= 2
       /\ ~Resting => steady + ticks <= 2

PaceInv == RateInv /\ BuildingInv /\ SteadyInv /\ LateInv

LEMMA InitPace == WideCounter /\ Init => PaceInv
  <1> SUFFICES ASSUME WideCounter, Init PROVE PaceInv
    OBVIOUS
  <1>1. RateInv
    <2>1. /\ scheduler.presentationVIs = ClampVIs(1)
          /\ SimVIs = ClampVIs(gVIsPerFrame)
      BY DEF Init, NewScheduler, SimVIs
    <2> QED
      BY <2>1 DEF Init, RateInv, ClampVIs
  <1>2. steady = 0 /\ pc = "vblank"
    BY DEF Init
  <1> QED
    BY <1>1, <1>2 DEF PaceInv, BuildingInv, SteadyInv, LateInv, Resting

LEMMA Numbers ==
  ASSUME TypeInv
  PROVE  /\ At(vi) \in Int /\ NextFrame \in Int /\ SimVIs \in 1..4
         /\ At(deadline) \in Int /\ AtPrevious \in Int
         /\ steady \in 0..3 /\ ticks \in 0..2
         /\ gVIsPerFrame \in Nat /\ sPresentationVIs \in {1, 2}
         /\ ClampVIs(gVIsPerFrame) \in 1..4
         /\ ClampVIs(sPresentationVIs) = sPresentationVIs
  BY PlacesType, RatesType, ClampType DEF TypeInv, NextFrame, AtPrevious,
     TypeOK

(* What PaceInv says of the frames depends on these.                       *)
KeepsPace ==
    /\ frame' = frame /\ sPools' = sPools /\ sGeneration' = sGeneration
    /\ gVIsPerFrame' = gVIsPerFrame /\ scene' = scene
    /\ sPresentationVIs' = sPresentationVIs /\ record' = record

LEMMA PaceKeeps ==
  ASSUME KeepsPace
  PROVE  /\ Newest' = Newest /\ Previous' = Previous
         /\ AtPrevious' = AtPrevious
         /\ \A p : Recorded(p)' = Recorded(p)
         /\ Consecutive' = Consecutive
  BY DEF KeepsPace, Newest, Previous, AtPrevious, At, Recorded, Consecutive

LEMMA WakePace ==
  ASSUME WideCounter, TypeInv, TypeInv', ClockInv, PaceInv, Wake
  PROVE  PaceInv'
  <1>1. /\ KeepsPace /\ pc = "vblank"
        /\ pc' \in {"vblank", "present", "boundary", "simulate"}
    BY DEF Wake, KeepsPace, poolVars
  <1>2. /\ SimVIs' = SimVIs
        /\ scheduler'.presentationVIs = scheduler.presentationVIs
    <2>1. scheduler \in SchedulerType
      BY SchedulerIs DEF TypeInv
    <2> QED
      BY <2>1 DEF Wake, Advance, SchedulerType, SimVIs
  <1>3. RateInv'
    BY <1>1, <1>2 DEF PaceInv, RateInv, Resting, KeepsPace
  <1>4. BuildingInv'
    BY <1>1 DEF BuildingInv
  <1>5. steady' \in 0..3 /\ steady' <= steady
    BY Numbers DEF Wake
  <1>6. /\ At(vi)' = Gap(vi', Newest.simulationVi)
        /\ At(deadline)' = Gap(deadline', Newest.simulationVi)
        /\ NextFrame' = Gap(scheduler'.nextSimulationVi, Newest.simulationVi)
    BY <1>1, PaceKeeps DEF At, NextFrame
  <1>7. /\ steady >= 1 => Recorded(frame) /\ Newest.generation = sGeneration
        /\ steady >= 2 => Recorded(Other(frame)) /\ Consecutive
        /\ steady = 3 => AtPrevious = -ClampVIs(gVIsPerFrame)
        /\ steady >= 2 => NextFrame = SimVIs
    BY <1>1 DEF PaceInv, SteadyInv, Resting
  <1>8. /\ steady' >= 1 => Recorded(frame) /\ Newest.generation = sGeneration
        /\ steady' >= 2 => Recorded(Other(frame)) /\ Consecutive
        /\ steady' = 3 => AtPrevious = -ClampVIs(gVIsPerFrame)
    BY <1>5, <1>7, Numbers
  <1>9. CASE ~SimulationDue(scheduler, vi')
    <2>1. /\ NextFrame' = NextFrame /\ At(vi)' < NextFrame
          /\ pc' \in {"vblank", "present"}
      BY <1>6, <1>9, WakeFacts DEF NextFrame, At
    <2>2. LateInv'
      <3>1. At(vi)' \in At(vi)..(At(vi) + MaxElapsed)
        BY <1>6, WakeFacts
      <3> QED
        BY <2>1, <3>1, Numbers, ReachIs DEF LateInv
    <2>3. SteadyInv'
      BY <1>1, <1>2, <1>5, <1>7, <1>8, <2>1, PaceKeeps, Numbers DEF SteadyInv,
         Resting, Deciding, KeepsPace
    <2> QED
      BY <1>3, <1>4, <2>2, <2>3 DEF PaceInv
  <1>10. CASE SimulationDue(scheduler, vi')
    <2> DEFINE missed == Missed(scheduler.nextSimulationVi, vi', SimVIs)
    <2>1. /\ At(vi)' < NextFrame' /\ pc' \in {"boundary", "simulate"}
          /\ missed <= 1 => At(deadline)' = NextFrame
      BY <1>6, <1>10, WakeFacts
    <2>2. steady' # 0 => ~(missed > 1)
      BY <1>10 DEF Wake, SimVIs
    <2>3. missed \in Nat
      BY <1>10, WakeFacts
    <2>4. steady' >= 2 => At(deadline)' = SimVIs
      <3> HIDE DEF missed
      <3> QED
        BY <1>5, <1>7, <2>1, <2>2, <2>3, Numbers
    <2>5. LateInv'
      <3>1. At(vi)' \in At(vi)..(At(vi) + MaxElapsed)
        BY <1>6, WakeFacts
      <3>2. NextFrame' \in (NextFrame + SimVIs)..(At(vi)' + SimVIs)
        BY <1>6, <1>10, WakeFacts
      <3> QED
        BY <2>1, <3>1, <3>2, Numbers, ReachIs DEF LateInv
    <2>6. SteadyInv'
      BY <1>1, <1>2, <1>8, <2>1, <2>4, PaceKeeps DEF SteadyInv, Resting,
         Deciding, KeepsPace
    <2> QED
      BY <1>3, <1>4, <2>5, <2>6 DEF PaceInv
  <1> QED
    BY <1>9, <1>10

LEMMA BoundaryPace ==
  ASSUME WideCounter, TypeInv, TypeInv', ClockInv, PaceInv, Boundary
  PROVE  PaceInv'
  <1>1. /\ steady' = 0 /\ pc = "boundary" /\ pc' = "simulate"
        /\ ticks' = ticks /\ gVIsPerFrame' = gVIsPerFrame
    BY DEF Boundary, localVars
  <1>2. ticks \in 1..2
    BY <1>1 DEF ClockInv, Deciding
  <1>3. RateInv'
    <2>1. /\ SimVIs' = SimVIs
          /\ scheduler'.presentationVIs = ClampVIs(sPresentationVIs')
      BY BoundaryFacts
    <2>2. ClampVIs(sPresentationVIs') = sPresentationVIs'
      BY ClampType DEF TypeInv, TypeOK
    <2> QED
      BY <1>1, <2>1, <2>2 DEF PaceInv, RateInv, Resting
  <1>4. BuildingInv' /\ SteadyInv' /\ LateInv'
    BY <1>1, <1>2 DEF BuildingInv, SteadyInv, LateInv, Resting
  <1> QED
    BY <1>3, <1>4 DEF PaceInv

LEMMA BuildBeginPace ==
  ASSUME WideCounter, TypeInv, TypeInv', ClockInv, PaceInv, BuildBegin
  PROVE  PaceInv'
  <1>1. /\ pc = "simulate" /\ pc' = "building"
        /\ sGeneration' = (sGeneration + 1) % Generations
        /\ record' = (gVIsPerFrame > sPresentationVIs)
        /\ UNCHANGED <<vi, scheduler, gVIsPerFrame, scene, sPresentationVIs,
                       steady, ticks>>
    BY DEF BuildBegin, clockVars, gameVars
  <1>2. /\ frame' = Other(frame) /\ Other(frame') = frame
        /\ Newest' = Sample(deadline, sGeneration', gVIsPerFrame)
        /\ Previous' = Newest
    BY BuildBeginFrames
  <1>3. /\ At(vi)' = At(vi) - At(deadline)
        /\ NextFrame' = NextFrame - At(deadline)
        /\ AtPrevious' = -At(deadline)
    BY BuildBeginPlaces
  <1>4. RateInv'
    BY <1>1 DEF PaceInv, RateInv, Resting, SimVIs
  <1>5. SteadyInv'
    BY <1>1 DEF SteadyInv
  <1>6. LateInv'
    <2>1. At(vi)' >= NextFrame' => At(vi) >= NextFrame
      BY <1>3, Numbers
    <2> QED
      BY <1>1, <2>1 DEF PaceInv, LateInv, Resting
  <1>7. BuildingInv'
    <2>1. /\ Newest'.simulationVIs = gVIsPerFrame
          /\ Newest'.generation = sGeneration'
      BY <1>2 DEF Sample
    <2>2. /\ steady >= 1 => Recorded(frame) /\ Newest.generation = sGeneration
          /\ steady >= 2 => At(deadline) = SimVIs
      BY <1>1 DEF PaceInv, SteadyInv, Deciding
    <2>3. sPools'[Other(frame')] = sPools[frame]
      BY <1>2 DEF Previous, Newest
    <2>4. steady >= 1 => Recorded(Other(frame))' /\ Consecutive'
      BY <1>1, <1>2, <2>1, <2>2, <2>3 DEF Recorded, Consecutive
    <2>5. steady >= 2 => AtPrevious' = -SimVIs
      BY <1>3, <2>2
    <2> QED
      BY <1>1, <2>1, <2>4, <2>5 DEF BuildingInv, SimVIs
  <1> QED
    BY <1>4, <1>5, <1>6, <1>7 DEF PaceInv

LEMMA TwoAtMost == \A n, t \in 0..3 : n \in 0..1 /\ t = 1 => n + t <= 2
  OBVIOUS

LEMMA BuildEndPace ==
  ASSUME WideCounter, TypeInv, TypeInv', ClockInv, PaceInv, BuildEnd
  PROVE  PaceInv'
  <1>1. PICK rate \in VIRates \union {gVIsPerFrame}, s \in Scenes,
             world \in BOOLEAN :
          /\ gVIsPerFrame' = rate /\ scene' = s
          /\ sPools' = [sPools EXCEPT
                          ![frame].valid = record,
                          ![frame].scene = s,
                          ![frame].eligible =
                              record /\ world /\ rate > sPresentationVIs]
          /\ steady' = IF world /\ rate = gVIsPerFrame /\ s = scene
                         THEN IF steady < 3 THEN steady + 1 ELSE 3
                         ELSE 0
    BY DEF BuildEnd
  <1> DEFINE still == world /\ rate = gVIsPerFrame /\ s = scene
  <1>2. /\ pc = "building" /\ frame' = frame /\ sGeneration' = sGeneration
        /\ sPresentationVIs' = sPresentationVIs
    BY DEF BuildEnd
  <1>3. /\ frame \in Pool /\ Other(frame) \in Pool /\ Other(frame) # frame
        /\ sPools \in [Pool -> SampleType]
    BY OtherPool, PoolsAre DEF TypeInv, TypeOK
  <1>4. /\ sPools'[Other(frame)] = sPools[Other(frame)]
        /\ sPools'[frame].simulationVi = sPools[frame].simulationVi
        /\ sPools'[frame].simulationVIs = sPools[frame].simulationVIs
        /\ sPools'[frame].generation = sPools[frame].generation
        /\ sPools'[frame].scene = s
    BY <1>1, <1>3 DEF SampleType
  <1>5. /\ sPools'[frame].valid = record
        /\ sPools'[frame].eligible
             = (record /\ world /\ rate > sPresentationVIs)
    BY <1>1, <1>3 DEF SampleType
  <1>6. /\ Newest.simulationVIs = gVIsPerFrame
        /\ record = (gVIsPerFrame > sPresentationVIs)
        /\ Newest.generation = sGeneration
        /\ steady >= 1 => Recorded(Other(frame)) /\ Consecutive
        /\ steady >= 2 => AtPrevious = -SimVIs
    BY <1>2 DEF PaceInv, BuildingInv
  <1>7. /\ steady' >= 1 => still
        /\ steady' >= 2 => steady >= 1
        /\ steady' = 3 => steady >= 2
        /\ steady' <= steady + 1 /\ steady' \in 0..3
    BY <1>1, Numbers
  <1>8. /\ Newest'.generation = Newest.generation
        /\ Previous' = Previous /\ AtPrevious' = AtPrevious
        /\ Consecutive' = Consecutive
    BY <1>2, <1>4 DEF Newest, Previous, AtPrevious, At, Consecutive
  <1>9. still => Recorded(frame)'
    <2>1. ASSUME still
          PROVE  /\ sPools'[frame].valid
                       = (gVIsPerFrame > sPresentationVIs)
                 /\ sPools'[frame].eligible
                       = (gVIsPerFrame > sPresentationVIs)
      <3> DEFINE slow == gVIsPerFrame > sPresentationVIs
      <3>1. slow \in BOOLEAN /\ record = slow
        BY <1>6
      <3>2. world = TRUE /\ (rate > sPresentationVIs) = slow
        BY <2>1
      <3> HIDE DEF slow
      <3>3. (record /\ world /\ rate > sPresentationVIs) = slow
        BY <3>1, <3>2, Zenon
      <3> QED
        BY <1>5, <3>1, <3>3, Zenon DEF slow
    <2>2. ASSUME still
          PROVE  /\ gVIsPerFrame' = gVIsPerFrame /\ scene' = scene
                 /\ sPools'[frame].simulationVIs = gVIsPerFrame
                 /\ sPools'[frame].scene = scene
      BY <1>1, <1>4, <1>6, <2>2 DEF Newest
    <2> QED
      BY <1>2, <2>1, <2>2 DEF Recorded
  <1>10. still /\ Recorded(Other(frame)) => Recorded(Other(frame))'
    BY <1>1, <1>2, <1>4 DEF Recorded
  <1>11. /\ steady' >= 1 => Recorded(frame)' /\ Newest'.generation = sGeneration'
         /\ steady' >= 2 => Recorded(Other(frame))' /\ Consecutive'
    <2>1. steady' >= 2 => steady' >= 1
      BY <1>7
    <2> HIDE DEF still
    <2> QED
      BY <2>1, <1>2, <1>6, <1>7, <1>8, <1>9, <1>10, Zenon
  <1>12. /\ SimVIs # ClampVIs(gVIsPerFrame) => ticks = 1 /\ steady = 0
         /\ scheduler.presentationVIs = sPresentationVIs
    BY <1>2 DEF PaceInv, RateInv
  <1>13. steady' = 3 => AtPrevious' = -ClampVIs(gVIsPerFrame')
    <2>1. ASSUME steady' = 3
          PROVE  AtPrevious' = -ClampVIs(gVIsPerFrame')
      <3>1. steady >= 2 /\ gVIsPerFrame' = gVIsPerFrame
        BY <2>1, <1>1, <1>7
      <3>2. SimVIs = ClampVIs(gVIsPerFrame)
        BY <3>1, <1>12
      <3> QED
        BY <3>1, <3>2, <1>6, <1>8
    <2> QED
      BY <2>1
  <1>14. /\ At(vi)' = At(vi) /\ ticks \in 1..2 /\ ticks' = ticks - 1
    BY BuildEndFacts
  <1>15. At(vi) >= NextFrame => steady + ticks <= 2
    BY <1>2 DEF PaceInv, LateInv, Resting
  <1>16. BuildingInv'
    BY DEF BuildEnd, BuildingInv
  <1>17. CASE ticks = 2
    <2>1. /\ pc' = "simulate" /\ scheduler' = scheduler
          /\ At(deadline)' = SimVIs /\ NextFrame' = NextFrame /\ ticks' = 1
          /\ SimVIs' = SimVIs
      BY <1>14, <1>17, BuildEndFacts DEF SimVIs
    <2>2. SimVIs # ClampVIs(gVIsPerFrame') => steady' = 0
      <3>1. SimVIs = ClampVIs(gVIsPerFrame)
        BY <1>12, <1>17
      <3> QED
        BY <3>1, <1>1
    <2>3. RateInv'
      BY <1>2, <1>12, <2>1, <2>2 DEF RateInv, Resting
    <2>4. LateInv'
      <3>1. At(vi)' >= NextFrame' => steady + 2 <= 2
        BY <1>14, <1>15, <1>17, <2>1
      <3>2. steady + 2 <= 2 => steady' + ticks' <= 2
        <4>1. steady \in 0..3 /\ ticks' = 1
          BY <2>1, Numbers
        <4>2. steady' <= steady + 1 /\ steady' \in 0..3
          BY <1>7
        <4>3. steady + 2 <= 2 => steady' \in 0..1
          BY <4>1, <4>2
        <4>4. steady' \in 0..1 => steady' + ticks' <= 2
          <5>1. ticks' = 1 /\ ticks' \in 0..3
            BY <4>1
          <5>2. steady' \in 0..1 => steady' \in 0..3
            OBVIOUS
          <5> QED
            BY <5>1, <5>2, TwoAtMost, Zenon
        <4> QED
          BY <4>3, <4>4
      <3> QED
        BY <2>1, <3>1, <3>2 DEF LateInv, Resting
    <2>5. SteadyInv'
      BY <1>2, <1>11, <1>13, <2>1 DEF SteadyInv, Resting, Deciding
    <2> QED
      BY <1>16, <2>3, <2>4, <2>5 DEF PaceInv
  <1>18. CASE ticks = 1
    <2>1. /\ pc' \in {"vblank", "present"} /\ NextFrame = SimVIs
          /\ SimVIs' = ClampVIs(gVIsPerFrame')
          /\ scheduler'.presentationVIs = ClampVIs(sPresentationVIs)
          /\ NextFrame' = IF SimVIs = SimVIs' THEN NextFrame
                                              ELSE At(vi) + SimVIs'
          /\ SimVIs' \in 1..4
      BY <1>18, BuildEndFacts
    <2>2. RateInv'
      BY <1>2, <2>1, Numbers DEF RateInv
    <2>3. steady' >= 2 => SimVIs = SimVIs'
      BY <1>1, <1>7, <1>12, <2>1, Numbers
    <2>4. LateInv'
      <3>1. CASE SimVIs = SimVIs'
        <4>1. At(vi)' >= NextFrame' => steady + 1 <= 2
          BY <3>1, <1>14, <1>15, <1>18, <2>1
        <4>2. steady + 1 <= 2 => steady' <= 2
          BY <1>7, Numbers
        <4> QED
          BY <2>1, <4>1, <4>2 DEF LateInv, Resting
      <3>2. CASE SimVIs # SimVIs'
        BY <3>2, <1>14, <2>1, Numbers DEF LateInv
      <3> QED
        BY <3>1, <3>2
    <2>5. SteadyInv'
      BY <1>2, <1>11, <1>13, <2>1, <2>3 DEF SteadyInv, Resting, Deciding
    <2> QED
      BY <1>16, <2>2, <2>4, <2>5 DEF PaceInv
  <1> QED
    BY <1>14, <1>17, <1>18

LEMMA OtherPace ==
  ASSUME WideCounter, TypeInv, TypeInv', ClockInv, PaceInv,
         Present \/ RenderDone \/ RequestExit \/ ExitFromLoop \/ ExitFromBoot
         \/ UNCHANGED vars
  PROVE  PaceInv'
  <1>1. /\ UNCHANGED <<vi, scheduler, frame, sPools, sGeneration, gVIsPerFrame,
                       scene, sPresentationVIs, record, ticks, deadline,
                       steady>>
        /\ pc' = pc \/ (pc = "present" /\ pc' = "vblank")
    BY DEF Present, RenderDone, RequestExit, ExitFromLoop, ExitFromBoot, vars,
       clockVars, poolVars, localVars, gameVars
  <1>2. /\ At(vi)' = At(vi) /\ At(deadline)' = At(deadline)
        /\ NextFrame' = NextFrame /\ SimVIs' = SimVIs
    BY <1>1 DEF At, NextFrame, SimVIs, Newest
  <1>3. KeepsPace
    BY <1>1 DEF KeepsPace
  <1>4. RateInv' /\ LateInv'
    BY <1>1, <1>2 DEF PaceInv, RateInv, LateInv, Resting
  <1>5. BuildingInv' /\ SteadyInv'
    BY <1>1, <1>2, <1>3, PaceKeeps DEF PaceInv, BuildingInv, SteadyInv,
       Resting, Deciding
  <1> QED
    BY <1>4, <1>5 DEF PaceInv

LEMMA PaceInductive ==
  ASSUME WideCounter
  PROVE  Spec => []PaceInv
  <1>1. Init => PaceInv
    BY InitPace
  <1>2. TypeInv /\ TypeInv' /\ MotionInv /\ PaceInv /\ [Next]_vars => PaceInv'
    BY WakePace, BoundaryPace, BuildBeginPace, BuildEndPace, OtherPace DEF
       Next, Loop, MotionInv
  <1> QED
    BY <1>1, <1>2, TypesInductive, MotionInductive, PTL DEF Spec

(* Once three frames have been simulated undisturbed, at one of the rates  *)
(* the game uses, what is presented never falls back on the newest sample  *)
(* for want of a history, however late the wakes are.                      *)
THEOREM SteadyInterpolation ==
  ASSUME WideCounter, VIRates \subseteq 1..4
  PROVE  Spec => SteadyFramesInterpolate
  <1> DEFINE Steadily == pc = "present" /\ pc' = "vblank" /\ steady = 3
                         => ~presentation'.fallback
  <1>1. ASSUME TypeInv, IInv, MotionInv, PaceInv, Next PROVE Steadily
    <2> SUFFICES ASSUME pc = "present", pc' = "vblank", steady = 3
                 PROVE  ~presentation'.fallback
      OBVIOUS
    <2> USE <1>1
    <2>1. Present
      BY DEF Next, Loop, Wake, Boundary, BuildBegin, BuildEnd, ExitFromLoop,
         RenderDone, RequestExit, ExitFromBoot
    <2>2. TaskToPresent = frame /\ Resting
      BY DEF IInv, NewestInv, Resting
    <2> DEFINE requested == /\ Newest.valid /\ Newest.eligible
                            /\ scheduler.presentationVIs < Newest.simulationVIs
                            /\ TargetVi(Newest) # Newest.simulationVi
               history == HasHistory(Newest, Previous)
    <2>3. presentation' =
            IF ~requested THEN Plain(frame)
            ELSE [interpolated |-> history,
                  sample |-> IF history THEN TargetVi(Newest)
                                        ELSE Newest.simulationVi,
                  fallback |-> ~history,
                  repeated |-> ~history /\ scheduler.presentationVIs = 1]
      BY <2>1, <2>2 DEF Present, Prepared, Newest, Previous
    <2>4. requested => history
      <3> SUFFICES ASSUME requested PROVE history
        OBVIOUS
      <3>1. /\ Recorded(frame) /\ Recorded(Other(frame)) /\ Consecutive
            /\ AtPrevious = -ClampVIs(gVIsPerFrame) /\ NextFrame = SimVIs
        BY <2>2 DEF PaceInv, SteadyInv
      <3>2. SimVIs = ClampVIs(gVIsPerFrame)
        BY <2>2 DEF PaceInv, RateInv
      <3>3. At(vi) < NextFrame
        BY <2>2, Numbers DEF PaceInv, LateInv
      <3>4. Newest.simulationVIs = gVIsPerFrame
        BY <3>1 DEF Recorded, Newest
      <3>5. gVIsPerFrame \in 1..4 /\ ClampVIs(gVIsPerFrame) = gVIsPerFrame
        <4>1. scheduler.presentationVIs >= 1 /\ gVIsPerFrame # 0
          BY <3>4, PlacesType DEF TypeInv
        <4>2. gVIsPerFrame \in 1..4
          BY <4>1 DEF TypeInv, TypeOK
        <4> QED
          BY <4>2, ClampType
      <3>6. Minus(Newest.simulationVi, Previous.simulationVi)
               = Newest.simulationVIs
        <4> DEFINE b == Newest.simulationVi
                   p == Previous.simulationVi
        <4>1. b \in VIs /\ p \in VIs /\ Gap(p, b) = -gVIsPerFrame
          BY <3>1, <3>5, PlacesType DEF TypeInv, AtPrevious, At
        <4>2. Gap(b, p) = gVIsPerFrame
          BY <4>1, <3>5, GapBack, ReachIs
        <4>3. Minus(b, p) = gVIsPerFrame
          BY <4>1, <4>2, <3>5, GapIs
        <4> QED
          BY <4>3, <3>4
      <3>7. Interpolable
        <4>1. Previous.valid /\ Previous.eligible
          BY <3>1 DEF Recorded, Newest, Previous
        <4>2. Newest.scene = Previous.scene
          BY <3>1 DEF Recorded, Newest, Previous
        <4> QED
          BY <3>1, <3>6, <4>1, <4>2 DEF Interpolable, Consecutive
      <3>8. At(vi) + 1 <= Newest.simulationVIs
        BY <3>1, <3>2, <3>3, <3>4, <3>5, Numbers
      <3> QED
        BY <2>2, <3>7, <3>8, HistoryIs DEF MotionInv
    <2> HIDE DEF requested, history
    <2> QED
      BY <2>3, <2>4 DEF Plain
  <1>2. TypeInv /\ IInv /\ MotionInv /\ PaceInv /\ [Next]_vars
           => [Steadily]_vars
    BY <1>1
  <1> QED
    BY <1>2, PaceInductive, MotionInductive, TypesInductive, Inductive, PTL DEF
       Spec, SteadyFramesInterpolate
=============================================================================
