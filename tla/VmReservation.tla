---------------------------- MODULE VmReservation ----------------------------
(***************************************************************************)
(* What the master promises its operators about tasks: a task reserves its *)
(* VM from the moment it is queued until it ends, a reserved VM accepts no *)
(* other task, host work is begun at most once, only work that was begun   *)
(* can succeed, and a task that ended is never touched again.  This is     *)
(* DESIGN.md's view; Master implements it when admissions do not overlap.  *)
(***************************************************************************)
CONSTANTS Jobs, Vms, NoVm

VARIABLES
  stage,  \* how far each job is
  holds   \* the VM a job was queued for; NoVm for an unused job

reservationVars == <<stage, holds>>

Stages == {"unused", "queued", "working", "succeeded", "ended"}

Reserved(v) == \E j \in Jobs : holds[j] = v /\ stage[j] \in {"queued", "working"}

Queue(j, v) ==
  /\ stage[j] = "unused"
  /\ ~Reserved(v)
  /\ stage' = [stage EXCEPT ![j] = "queued"]
  /\ holds' = [holds EXCEPT ![j] = v]

Move(j, from, to) ==
  /\ stage[j] = from
  /\ stage' = [stage EXCEPT ![j] = to]
  /\ UNCHANGED holds

BeginWork(j) == Move(j, "queued", "working")
Succeed(j)   == Move(j, "working", "succeeded")
GiveUp(j)    == Move(j, "queued", "ended") \/ Move(j, "working", "ended")

Init ==
  /\ stage = [j \in Jobs |-> "unused"]
  /\ holds = [j \in Jobs |-> NoVm]

Next ==
  \E j \in Jobs :
    \/ \E v \in Vms : Queue(j, v)
    \/ BeginWork(j)
    \/ Succeed(j)
    \/ GiveUp(j)

Spec == Init /\ [][Next]_reservationVars
=============================================================================
