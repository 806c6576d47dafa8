----------------------------- MODULE Lifecycle -----------------------------
(***************************************************************************)
(* The rules of the master that need no state: which task a VM in a given  *)
(* status accepts, what the status of a task makes of its VM and of its    *)
(* address, and how an agent may move a task (master/src/vms, tasks).      *)
(* Master applies them to the database, VmHost to what one VM sees of it.  *)
(***************************************************************************)
ActionKinds == {"start", "stop", "reboot", "reinstall", "delete"}
Kinds       == ActionKinds \union {"create"}

Active       == {"pending", "assigned", "running"}
Unsuccessful == {"failed", "canceled"}
Terminal     == Unsuccessful \union {"succeeded"}
TaskStatuses == Active \union Terminal

Committed  == {"provisioning", "running", "stopped", "deleting"}
VmStatuses == Committed \union {"deleted", "error"}

-----------------------------------------------------------------------------
(* What a VM accepts.                                                      *)

ActionAllowed(kind, status) ==
  \/ status = "running" /\ kind \in {"stop", "reboot", "reinstall", "delete"}
  \/ status \in {"stopped", "error"} /\ kind \in {"start", "reinstall", "delete"}

(* Mutant: a failed creation can be retried after its VM was deleted.      *)
RetryAllowedAfterDelete(kind, status) ==
  IF kind = "create" THEN status \in {"error", "deleted"} ELSE ActionAllowed(kind, status)

RetryAllowed(kind, status) ==
  IF kind = "create" THEN status = "error" ELSE ActionAllowed(kind, status)

(* Mutant: next_vm_status without its Canceled patterns.                   *)
NextVmStatusWithoutCanceled(kind, status) ==
  CASE kind = "create" /\ status = "running"            -> "provisioning"
    [] kind = "reinstall" /\ status \in Active          -> "provisioning"
    [] kind = "delete" /\ status \in Active             -> "deleting"
    [] kind \in {"create", "start", "reboot", "reinstall"}
         /\ status = "succeeded"                        -> "running"
    [] kind = "stop" /\ status = "succeeded"            -> "stopped"
    [] kind = "delete" /\ status = "succeeded"          -> "deleted"
    [] kind \in {"create", "reinstall", "delete"}
         /\ status = "failed"                           -> "error"
    [] OTHER                                            -> "no change"

(* next_vm_status: the VM status a task status implies, or NoChange.       *)
NoChange == "no change"
NextVmStatus(kind, status) ==
  CASE kind = "create" /\ status = "running"            -> "provisioning"
    [] kind = "reinstall" /\ status \in Active          -> "provisioning"
    [] kind = "delete" /\ status \in Active             -> "deleting"
    [] kind \in {"create", "start", "reboot", "reinstall"}
         /\ status = "succeeded"                        -> "running"
    [] kind = "stop" /\ status = "succeeded"            -> "stopped"
    [] kind = "delete" /\ status = "succeeded"          -> "deleted"
    [] kind \in {"create", "reinstall", "delete"}
         /\ status \in Unsuccessful                     -> "error"
    [] OTHER                                            -> NoChange

(* Mutant: a canceled creation keeps its address.                          *)
ReleasesAddressUnlessCanceled(kind, status) ==
  \/ kind = "create" /\ status = "failed"
  \/ kind = "delete" /\ status = "succeeded"

ReleasesAddress(kind, status) ==
  \/ kind = "create" /\ status \in Unsuccessful
  \/ kind = "delete" /\ status = "succeeded"

(* The status a VM takes when a task of this kind is queued for it.        *)
QueuedStatus(kind, status) ==
  CASE kind \in {"create", "reinstall"} -> "provisioning"
    [] kind = "delete"                  -> "deleting"
    [] OTHER                            -> status

-----------------------------------------------------------------------------
(* How an agent may move a task.                                           *)

(* Mutant: an agent may skip the Running report.                           *)
TransitionSkippingRunning(current, next) ==
  /\ current \in {"assigned", "running"}
  /\ next \in {"running", "succeeded", "failed", "canceled"}
  /\ next # current

ValidAgentTransition(current, next) ==
  \/ current = "assigned" /\ next \in {"running", "failed", "canceled"}
  \/ current = "running"  /\ next \in {"succeeded", "failed", "canceled"}
=============================================================================
