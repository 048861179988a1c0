---------------------------- MODULE FrameScheduler ----------------------------
(***************************************************************************)
(* The deadline arithmetic of frame_scheduler.c.  Vertical intervals are   *)
(* counted in an unsigned integer that wraps (VIMod stands for 2^32) and   *)
(* compared through a signed difference.                                   *)
(***************************************************************************)
EXTENDS Integers

CONSTANT VIMod

ASSUME VIModAssumption == VIMod \in Nat /\ VIMod > 8 /\ VIMod % 2 = 0

VIs == 0..(VIMod - 1)

Plus(a, n) == (a + n) % VIMod
Minus(a, b) == (a - b) % VIMod

(* (s32) (a - b) >= 0                                                      *)
AtOrAfter(a, b) == Minus(a, b) < VIMod \div 2

(* psp_frame_scheduler_clamp_vis                                           *)
ClampVIs(vis) == IF vis = 0 THEN 1 ELSE IF vis > 4 THEN 4 ELSE vis

(* psp_frame_scheduler_advance_deadline: how many deadlines passed beyond  *)
(* the first, and the first deadline still ahead.                          *)
Missed(deadline, vi, interval) == Minus(vi, deadline) \div interval

(* Variant: deadlines restart from the time of the wake.                   *)
NextDeadlineFromNow(deadline, vi, interval) == Plus(vi, interval)

NextDeadline(deadline, vi, interval) ==
    Plus(deadline, (Missed(deadline, vi, interval) + 1) * interval)

(* PspFrameScheduler_Init                                                  *)
NewScheduler(vi, simVIs, presVIs) ==
    [nextSimulationVi   |-> Plus(vi, ClampVIs(simVIs)),
     nextPresentationVi |-> Plus(vi, ClampVIs(presVIs)),
     simulationVIs      |-> ClampVIs(simVIs),
     presentationVIs    |-> ClampVIs(presVIs)]

(* PspFrameScheduler_Advance: what is due at vi, and the scheduler after.  *)
SimulationDue(s, vi) == AtOrAfter(vi, s.nextSimulationVi)
PresentationDue(s, vi) == AtOrAfter(vi, s.nextPresentationVi)

Advance(s, vi) ==
    [s EXCEPT
        !.nextSimulationVi =
            IF SimulationDue(s, vi)
              THEN NextDeadline(@, vi, s.simulationVIs) ELSE @,
        !.nextPresentationVi =
            IF PresentationDue(s, vi)
              THEN NextDeadline(@, vi, s.presentationVIs) ELSE @]

(* PspFrameScheduler_SetSimulationVIs and SetPresentationVIs: a changed    *)
(* rate restarts its deadlines from vi.                                    *)
WithSimulationVIs(s, vi, vis) ==
    IF s.simulationVIs = ClampVIs(vis) THEN s
    ELSE [s EXCEPT !.simulationVIs = ClampVIs(vis),
                   !.nextSimulationVi = Plus(vi, ClampVIs(vis))]

WithPresentationVIs(s, vi, vis) ==
    IF s.presentationVIs = ClampVIs(vis) THEN s
    ELSE [s EXCEPT !.presentationVIs = ClampVIs(vis),
                   !.nextPresentationVi = Plus(vi, ClampVIs(vis))]
=============================================================================
