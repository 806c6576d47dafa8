------------------------------- MODULE VmHost -------------------------------
(***************************************************************************)
(* One VM on its host: the libvirt executor of the agent                   *)
(* (agent/src/libvirt/mod.rs), the artifacts it keeps under the VM's       *)
(* directory, the libvirt domain, and what the master's inventory makes of *)
(* the outcomes it reports.  Tasks come one after the other, which is what *)
(* Master (a VM has one active task) and Fleet (host work begins at most   *)
(* once) show.                                                             *)
(*                                                                         *)
(* Every host command and every file operation may fault.  A command that  *)
(* faults may have had its effect nevertheless (it timed out), a write     *)
(* that faults leaves no file, a torn one or a whole one.  The agent may   *)
(* be killed between any two of them; its task then stays running for ever *)
(* (Fleet), so nothing else happens to the VM and a file the kill left     *)
(* torn is never read.  The guest powers itself off, and pauses, when it   *)
(* pleases.  The create request names an IP pool: the VM has an address.   *)
(***************************************************************************)
EXTENDS Lifecycle, Naturals, Sequences

CONSTANTS
  Absent,     \* null value of a file
  Torn,       \* a file that was not written to its end
  MaxTasks,   \* bound: tasks ever queued for the VM
  MaxFaults   \* bound: commands and file operations that fault

ASSUME HostAssumption ==
  /\ {Absent, Torn} \intersect Nat = {} /\ Absent # Torn
  /\ MaxTasks \in Nat
  /\ MaxFaults \in Nat

VARIABLES
  status,     \* the VM's status in the inventory
  held,       \* the create task whose address is allocated to the VM, or 0
  retriable,  \* whether a create task of the VM failed or was canceled
  tasks,      \* tasks queued so far; the last one is the current one
  op,         \* how far the executor is with the current task
  dir,        \* whether the VM's directory exists
  file,       \* its artifacts: absent, torn, or the task that wrote them
  temp,       \* their .reinstalling replacements
  domain,     \* the libvirt domain
  faults      \* faults so far

inventory == <<status, held, retriable, tasks>>
disks     == <<dir, file, temp>>
hostVars  == <<inventory, op, disks, domain, faults>>

-----------------------------------------------------------------------------
(* "cloud" is user-data and meta-data, "net" is network-config.            *)
CreateOrder == <<"disk", "cloud", "net", "seed", "xml">>
RemoveOrder == <<"disk", "seed", "net", "xml", "cloud">>
StageOrder  == <<"disk", "cloud", "seed">>
CommitOrder == <<"disk", "seed", "cloud">>
Artifacts    == {CreateOrder[i] : i \in 1 .. Len(CreateOrder)}
Replacements == {CommitOrder[i] : i \in 1 .. Len(CommitOrder)}

TaskNumbers == 1 .. MaxTasks
Content     == {Absent, Torn} \union TaskNumbers
Live        == {"running", "paused"}  \* domains with a process on the host
Ended       == {"none", "succeeded", "failed", "canceled"}
Steps       == {"write", "define", "check_absent", "start", "await_running",
                "shutdown", "await_shut_off", "reboot", "destroy", "check_stopped",
                "undefine", "remove", "stage", "unstage", "commit"}

HostTypeOK ==
  /\ status \in VmStatuses \union {"absent"}
  /\ held \in 0 .. MaxTasks
  /\ retriable \in BOOLEAN
  /\ tasks \in 0 .. MaxTasks
  /\ op \in [kind: Kinds, step: Steps \union Ended \union {"queued", "killed"}, at: 0 .. 6]
  /\ dir \in BOOLEAN
  /\ ~dir => \A a \in Artifacts : file[a] = Absent
  /\ file \in [Artifacts -> Content]
  /\ temp \in [Replacements -> Content]
  /\ domain \in Live \union {"undefined", "shut_off"}
  /\ faults \in 0 .. MaxFaults

-----------------------------------------------------------------------------
(* The task of the VM, as the master keeps it.                             *)

(* A task is queued: a creation, a retry of one, or an action.             *)
Queue(kind) ==
  /\ op.step \in Ended
  /\ tasks < MaxTasks
  /\ \/ kind = "create" /\ status = "absent"
     \/ kind = "create" /\ retriable /\ RetryAllowed(kind, status)
     \/ kind # "create" /\ ActionAllowed(kind, status)
  /\ tasks' = tasks + 1
  /\ status' = QueuedStatus(kind, status)
  /\ held' = IF kind = "create" THEN tasks + 1 ELSE held
  /\ op' = [kind |-> kind, step |-> "queued", at |-> 0]
  /\ UNCHANGED <<retriable, disks, domain, faults>>

(* Mutant: a task status that implies no VM status is written all the same. *)
EndAlways(outcome) ==
  /\ op' = [op EXCEPT !.step = outcome]
  /\ status' = NextVmStatus(op.kind, outcome)
  /\ held' = IF ReleasesAddress(op.kind, outcome) THEN 0 ELSE held
  /\ retriable' = (retriable \/ (op.kind = "create" /\ outcome \in Unsuccessful))
  /\ UNCHANGED tasks

(* Mutant: a deletion releases the address however it ends.                *)
EndReleasingOnDelete(outcome) ==
  LET new == NextVmStatus(op.kind, outcome)
  IN  /\ op' = [op EXCEPT !.step = outcome]
      /\ status' = IF new = NoChange THEN status ELSE new
      /\ held' = IF ReleasesAddress(op.kind, outcome) \/ op.kind = "delete" THEN 0 ELSE held
      /\ retriable' = (retriable \/ (op.kind = "create" /\ outcome \in Unsuccessful))
      /\ UNCHANGED tasks

(* The task ends: apply_task_status_in_tx.                                 *)
End(outcome) ==
  LET new == NextVmStatus(op.kind, outcome)
  IN  /\ op' = [op EXCEPT !.step = outcome]
      /\ status' = IF new = NoChange THEN status ELSE new
      /\ held' = IF ReleasesAddress(op.kind, outcome) THEN 0 ELSE held
      /\ retriable' = (retriable \/ (op.kind = "create" /\ outcome \in Unsuccessful))
      /\ UNCHANGED tasks

Cancel ==
  /\ op.step = "queued"
  /\ End("canceled")
  /\ UNCHANGED <<disks, domain, faults>>

-----------------------------------------------------------------------------
(* Steps of the executor.                                                  *)

At(step) == op.step = step
Goto(step) == op' = [op EXCEPT !.step = step, !.at = 1] /\ UNCHANGED inventory
Advance == op' = [op EXCEPT !.at = @ + 1] /\ UNCHANGED inventory

NoFault == UNCHANGED faults
Fault == faults < MaxFaults /\ faults' = faults + 1

TempsAbsent == \A a \in Replacements : temp[a] = Absent

(* ensure_managed_vm_dir, ensure_vm_domain_metadata, and what reinstall and *)
(* delete require of the directory before they touch the domain.           *)
Verified(kind) ==
  /\ dir
  /\ \A a \in {"disk", "seed", "xml"} : file[a] # Absent
  /\ file["xml"] # Torn
  /\ kind \in {"reinstall", "delete"} => TempsAbsent

FirstStep(kind) ==
  CASE kind = "start"                 -> "start"
    [] kind = "stop"                  -> "shutdown"
    [] kind = "reboot"                -> "reboot"
    [] kind \in {"reinstall", "delete"} -> "destroy"

(* check_host, then all a task verifies before its first command that      *)
(* changes something.  create_vm makes the directory on the way.           *)
BeginCreate ==
  /\ At("queued") /\ op.kind = "create"
  /\ \/ /\ NoFault /\ dir' = TRUE
        /\ IF \A a \in Artifacts : file[a] = Absent THEN Goto("write") ELSE End("failed")
     \/ Fault /\ dir' \in {dir, TRUE} /\ End("failed")
  /\ UNCHANGED <<file, temp, domain>>

BeginAction ==
  /\ At("queued") /\ op.kind # "create"
  /\ \/ NoFault /\ Verified(op.kind) /\ Goto(FirstStep(op.kind))
     \/ NoFault /\ ~Verified(op.kind) /\ End("failed")
     \/ Fault /\ End("failed")
  /\ UNCHANGED <<disks, domain>>

(* Mutant: what a failed preparation wrote is not cleaned up.              *)
WriteArtifactWithoutCleanup ==
  LET a == CreateOrder[op.at]
  IN  /\ At("write")
      /\ \/ /\ NoFault
            /\ file' = [file EXCEPT ![a] = tasks]
            /\ IF op.at < Len(CreateOrder) THEN Advance ELSE Goto("define")
         \/ /\ Fault
            /\ \E left \in {Absent, Torn, tasks} : file' = [file EXCEPT ![a] = left]
            /\ End("failed")
      /\ UNCHANGED <<dir, temp, domain>>

(* create_vm_artifacts: qemu-img, cloud-init files, network-config, seed   *)
(* ISO (by either tool), domain.xml.                                       *)
WriteArtifact ==
  LET a == CreateOrder[op.at]
  IN  /\ At("write")
      /\ \/ /\ NoFault
            /\ file' = [file EXCEPT ![a] = tasks]
            /\ IF op.at < Len(CreateOrder) THEN Advance ELSE Goto("define")
         \/ /\ Fault
            /\ \E left \in {Absent, Torn, tasks} : file' = [file EXCEPT ![a] = left]
            /\ Goto("remove")
      /\ UNCHANGED <<dir, temp, domain>>

DefineDomain ==
  /\ At("define")
  /\ \/ NoFault /\ domain' = "shut_off" /\ Goto("start")
     \/ Fault /\ domain' \in {domain, "shut_off"} /\ Goto("check_absent")
  /\ UNCHANGED disks

(* Mutant: any failure of domstate is taken for a missing domain.          *)
CheckAbsentTrustingFailure ==
  /\ At("check_absent")
  /\ \/ NoFault /\ domain = "undefined" /\ Goto("remove")
     \/ NoFault /\ domain # "undefined" /\ End("failed")
     \/ Fault /\ Goto("remove")
  /\ UNCHANGED <<disks, domain>>

(* cleanup_failed_define: only domstate's own "not found" lets the cleanup *)
(* go on; a domain, or another failure of domstate, preserves the files.   *)
CheckAbsent ==
  /\ At("check_absent")
  /\ \/ NoFault /\ domain = "undefined" /\ Goto("remove")
     \/ NoFault /\ domain # "undefined" /\ End("failed")
     \/ Fault /\ End("failed")
  /\ UNCHANGED <<disks, domain>>

(* virsh start, which needs a domain that is shut off.  Only create cleans *)
(* up after it.                                                            *)
StartDomain ==
  LET Failing == IF op.kind = "create" THEN Goto("check_stopped") ELSE End("failed")
  IN  /\ At("start")
      /\ \/ /\ NoFault /\ domain = "shut_off"
            /\ domain' = "running" /\ Goto("await_running")
         \/ /\ NoFault /\ domain # "shut_off"
            /\ UNCHANGED domain /\ Failing
         \/ /\ Fault
            /\ domain' \in IF domain = "shut_off" THEN {"shut_off", "running"} ELSE {domain}
            /\ Failing
      /\ UNCHANGED disks

(* The last read of domstate: the one that sees the state waited for, or   *)
(* the one that fails, or the last of DOMAIN_STATE_POLL_ATTEMPTS.  Nothing *)
(* is cleaned up when it is not what was hoped for.                        *)
Await(step, state) ==
  /\ At(step)
  /\ \/ NoFault /\ End(IF domain = state THEN "succeeded" ELSE "failed")
     \/ Fault /\ End("failed")
  /\ UNCHANGED <<disks, domain>>

(* virsh shutdown and reboot ask the guest; the answer is awaited.         *)
RequestPower(step, next) ==
  /\ At(step)
  /\ \/ NoFault /\ domain \in Live /\ Goto(next)
     \/ NoFault /\ domain \notin Live /\ End("failed")
     \/ Fault /\ End("failed")
  /\ UNCHANGED <<disks, domain>>

(* virsh destroy, whose result is ignored.                                 *)
DestroyDomain ==
  /\ At("destroy")
  /\ \/ NoFault /\ domain' = IF domain \in Live THEN "shut_off" ELSE domain
     \/ Fault /\ domain' \in {domain, IF domain \in Live THEN "shut_off" ELSE domain}
  /\ Goto("check_stopped")
  /\ UNCHANGED disks

AfterStopped == IF op.kind = "reinstall" THEN "stage" ELSE "undefine"

(* Mutant: destroy is trusted, domstate is not asked.                      *)
TrustDestroy ==
  /\ At("check_stopped")
  /\ NoFault
  /\ Goto(AfterStopped)
  /\ UNCHANGED <<disks, domain>>

(* ensure_domain_stopped_before_delete_cleanup                             *)
CheckStopped ==
  /\ At("check_stopped")
  /\ \/ NoFault /\ domain = "shut_off" /\ Goto(AfterStopped)
     \/ NoFault /\ domain # "shut_off" /\ End("failed")
     \/ Fault /\ End("failed")
  /\ UNCHANGED <<disks, domain>>

(* Mutant: the result of undefine is ignored like the one of destroy.      *)
UndefineIgnoringResult ==
  /\ At("undefine")
  /\ \/ NoFault /\ domain' = "undefined"
     \/ Fault /\ domain' \in {domain, "undefined"}
  /\ Goto("remove")
  /\ UNCHANGED disks

UndefineDomain ==
  /\ At("undefine")
  /\ \/ NoFault /\ domain' = "undefined" /\ Goto("remove")
     \/ Fault /\ domain' \in {domain, "undefined"} /\ End("failed")
  /\ UNCHANGED disks

(* remove_managed_vm_directory: the known artifacts one by one, then the   *)
(* directory; an entry that is not known stops it.                         *)
RemoveArtifact ==
  /\ At("remove") /\ TempsAbsent /\ op.at <= Len(RemoveOrder)
  /\ \/ /\ NoFault
        /\ file' = [file EXCEPT ![RemoveOrder[op.at]] = Absent]
        /\ Advance
     \/ Fault /\ UNCHANGED file /\ End("failed")
  /\ UNCHANGED <<dir, temp, domain>>

RemoveDirectory ==
  /\ At("remove")
  /\ ~TempsAbsent \/ op.at > Len(RemoveOrder)
  /\ \/ /\ NoFault /\ TempsAbsent
        /\ dir' = FALSE
        /\ End(IF op.kind = "delete" THEN "succeeded" ELSE "failed")
     \/ NoFault /\ ~TempsAbsent /\ UNCHANGED dir /\ End("failed")
     \/ Fault /\ UNCHANGED dir /\ End("failed")
  /\ UNCHANGED <<file, temp, domain>>

(* Mutant: a replacement that could not be built is installed all the same. *)
StageUnchecked ==
  LET a == StageOrder[op.at]
  IN  /\ At("stage")
      /\ \/ NoFault /\ temp' = [temp EXCEPT ![a] = tasks]
         \/ Fault /\ \E left \in {Absent, Torn, tasks} : temp' = [temp EXCEPT ![a] = left]
      /\ IF op.at < Len(StageOrder) THEN Advance ELSE Goto("commit")
      /\ UNCHANGED <<dir, file, domain>>

(* create_reinstall_artifacts                                              *)
StageReplacement ==
  LET a == StageOrder[op.at]
  IN  /\ At("stage")
      /\ \/ /\ NoFault
            /\ temp' = [temp EXCEPT ![a] = tasks]
            /\ IF op.at < Len(StageOrder) THEN Advance ELSE Goto("commit")
         \/ /\ Fault
            /\ \E left \in {Absent, Torn, tasks} : temp' = [temp EXCEPT ![a] = left]
            /\ Goto("unstage")
      /\ UNCHANGED <<dir, file, domain>>

(* remove_reinstall_temp_artifacts                                         *)
Unstage ==
  /\ At("unstage")
  /\ \/ /\ NoFault
        /\ temp' = [temp EXCEPT ![CommitOrder[op.at]] = Absent]
        /\ IF op.at < Len(CommitOrder) THEN Advance ELSE End("failed")
     \/ Fault /\ UNCHANGED temp /\ End("failed")
  /\ UNCHANGED <<dir, file, domain>>

(* replace_with_prepared_reinstall_artifact: the live file is removed, then *)
(* the replacement renamed to it.  An error leaves things as they are.     *)
CommitReplacement ==
  LET a == CommitOrder[op.at]
  IN  /\ At("commit")
      /\ \/ /\ NoFault /\ file[a] # Absent
            /\ file' = [file EXCEPT ![a] = Absent]
            /\ UNCHANGED <<temp, op, inventory>>
         \/ /\ NoFault /\ file[a] = Absent
            /\ file' = [file EXCEPT ![a] = temp[a]]
            /\ temp' = [temp EXCEPT ![a] = Absent]
            /\ IF op.at < Len(CommitOrder) THEN Advance ELSE Goto("start")
         \/ Fault /\ UNCHANGED <<file, temp>> /\ End("failed")
      /\ UNCHANGED <<dir, domain>>

-----------------------------------------------------------------------------
(* The agent is killed, or the guest acts.                                 *)

Killed ==
  /\ op.step \in Steps
  /\ op' = [op EXCEPT !.step = "killed"]
  /\ UNCHANGED <<inventory, disks, domain, faults>>

GuestPowersOff ==
  /\ domain = "running"
  /\ domain' = "shut_off"
  /\ UNCHANGED <<inventory, op, disks, faults>>

GuestPauses ==
  /\ domain = "running"
  /\ domain' = "paused"
  /\ UNCHANGED <<inventory, op, disks, faults>>

-----------------------------------------------------------------------------
HostInit ==
  /\ status = "absent" /\ held = 0 /\ retriable = FALSE /\ tasks = 0
  /\ op = [kind |-> "create", step |-> "none", at |-> 0]
  /\ dir = FALSE
  /\ file = [a \in Artifacts |-> Absent]
  /\ temp = [a \in Replacements |-> Absent]
  /\ domain = "undefined"
  /\ faults = 0

ExecutorStep ==
  \/ BeginCreate \/ BeginAction
  \/ WriteArtifact \/ DefineDomain \/ CheckAbsent
  \/ StartDomain \/ Await("await_running", "running")
  \/ RequestPower("shutdown", "await_shut_off") \/ Await("await_shut_off", "shut_off")
  \/ RequestPower("reboot", "await_running")
  \/ DestroyDomain \/ CheckStopped \/ UndefineDomain \/ RemoveArtifact \/ RemoveDirectory
  \/ StageReplacement \/ Unstage \/ CommitReplacement

HostNext ==
  \/ \E kind \in Kinds : Queue(kind)
  \/ Cancel \/ ExecutorStep
  \/ Killed \/ GuestPowersOff \/ GuestPauses

HostSpec == HostInit /\ [][HostNext]_hostVars

-----------------------------------------------------------------------------
(* Properties.                                                             *)

Written(content) == content \in TaskNumbers

(* A VM that runs has a whole disk and the seed ISO that was made with it, *)
(* or a reinstall failed between the two and its replacement seed still    *)
(* lies beside the old one, where reinstall and delete will find it        *)
(* (commit_reinstall_artifacts).                                           *)
RunningVmIsWhole ==
  domain \in Live =>
    /\ Written(file["disk"]) /\ Written(file["seed"])
    /\ file["disk"] \in {file["seed"], temp["seed"]}

(* As long as libvirt knows the domain, its domain.xml is there and whole, *)
(* and so are its disk and its seed ISO, or what replaces them: wherever   *)
(* an operation stops, the agent has deleted nothing libvirt still owns    *)
(* (create and delete clean up after undefine only, reinstall stages all   *)
(* replacements before it touches a live file).                            *)
DefinedDomainKeepsArtifacts ==
  domain # "undefined" =>
    /\ Written(file["xml"])
    /\ \A a \in {"disk", "seed"} : Written(file[a]) \/ Written(temp[a])

(* Nothing is left on the host of a VM the inventory calls deleted: its    *)
(* address may be given away and its capacity used again.                  *)
DeletedLeavesNothing ==
  status = "deleted" => ~dir /\ domain = "undefined" /\ held = 0

(* After a single fault, a creation that wrote artifacts and failed leaves *)
(* either none of them, so that it can be retried, or all of them and the  *)
(* domain, so that the VM can be started, reinstalled or deleted.          *)
FailedCreateIsRecoverable ==
  (faults <= 1 /\ op.kind = "create" /\ op.step = "failed" /\ op.at > 0) =>
    \/ domain = "undefined" /\ \A a \in Artifacts : file[a] = Absent
    \/ domain # "undefined" /\ Verified("delete")

(* No step of the executor touches the files of a VM that runs: reinstall  *)
(* and delete do not believe destroy, they ask domstate.                   *)
RunningDiskUntouched == [][(domain \in Live) => UNCHANGED file]_hostVars

(* A VM that libvirt knows holds the address that its cloud-init data      *)
(* gives the guest, so that no other VM is given it, unless a creation of  *)
(* it was reported failed or was canceled: that alone releases the address *)
(* whatever it has left on the host (apply_task_status_in_tx).  No action  *)
(* does, one that fails, times out or is killed in the middle included;    *)
(* the end of a deletion does when libvirt has forgotten the domain.       *)
DefinedVmHoldsAddress ==
  domain # "undefined" /\ ~retriable => held = file["net"]

-----------------------------------------------------------------------------
(* Strengthenings: how far the executor is, and what it has done so far.   *)

KindsAt(step) ==
  CASE step \in {"write", "define", "check_absent"}    -> {"create"}
    [] step = "start"                                  -> {"create", "start", "reinstall"}
    [] step = "await_running"                -> {"create", "start", "reboot", "reinstall"}
    [] step \in {"shutdown", "await_shut_off"}         -> {"stop"}
    [] step = "reboot"                                 -> {"reboot"}
    [] step = "destroy"                                -> {"reinstall", "delete"}
    [] step = "check_stopped"                          -> {"create", "reinstall", "delete"}
    [] step \in {"undefine", "remove"}                 -> {"create", "delete"}
    [] step \in {"stage", "unstage", "commit"}         -> {"reinstall"}

(* Every step belongs to a task, and to one of a kind that has it.         *)
StepsFit ==
  /\ op.step # "none" => tasks > 0
  /\ op.step = "queued" => op.at = 0
  /\ op.step \in Steps => op.kind \in KindsAt(op.step)
  /\ status = "deleted" => op.step = "succeeded"

(* Between any two steps, and wherever a task stops: a disk and a seed ISO *)
(* that are both there are whole and belong together; a VM that runs has   *)
(* both; replacements exist only of a VM that libvirt knows.               *)
ArtifactsMatch ==
  /\ domain # "undefined" /\ file["disk"] # Absent /\ file["seed"] # Absent =>
       /\ Written(file["disk"]) /\ Written(file["seed"])
       /\ file["disk"] \in {file["seed"], temp["seed"]}
  /\ domain \in Live => file["disk"] # Absent /\ file["seed"] # Absent
  /\ domain = "undefined" => TempsAbsent

(* A creation that has written all artifacts defines the domain, and one   *)
(* that is on its way back has met a fault.                                *)
CreateUnderWay ==
  op.kind = "create" /\ op.step \in Steps =>
    /\ dir /\ TempsAbsent
    /\ op.step = "write" =>
         /\ op.at \in 1 .. 5 /\ domain = "undefined"
         /\ \A i \in 1 .. 5 : file[CreateOrder[i]] = IF i < op.at THEN tasks ELSE Absent
    /\ op.step \notin {"write", "remove"} => \A a \in Artifacts : file[a] = tasks
    /\ op.step = "define" => domain = "undefined"
    /\ op.step = "start" => domain = "shut_off"
    /\ op.step \in {"await_running", "check_stopped"} => domain # "undefined"
    /\ op.step \in {"check_absent", "check_stopped", "undefine", "remove"} => faults > 0

(* Files are removed when libvirt no longer knows the domain.              *)
RemovalUnderWay ==
  /\ op.step = "undefine" => domain = "shut_off" /\ TempsAbsent
  /\ op.step = "remove" =>
       /\ op.at \in 1 .. 6 /\ domain = "undefined"
       /\ \A i \in 1 .. 5 : i < op.at => file[RemoveOrder[i]] = Absent

(* A reinstallation replaces files of a domain that is shut off, the disk  *)
(* before the seed ISO, when it has made all replacements.                 *)
ReplacementUnderWay ==
  /\ op.step \in {"start", "destroy", "check_stopped", "stage", "unstage"} =>
       file["disk"] # Absent /\ file["seed"] # Absent
  /\ op.step \in {"destroy", "check_stopped"} => TempsAbsent
  /\ op.step \in {"stage", "unstage", "commit"} => domain = "shut_off" /\ op.at \in 1 .. 3
  /\ op.step \in {"stage", "unstage"} => file["disk"] = file["seed"]
  /\ op.step = "stage" =>
       \A i \in 1 .. 3 : temp[StageOrder[i]] = IF i < op.at THEN tasks ELSE Absent
  /\ op.step = "commit" =>
       \/ /\ op.at = 1
          /\ \A a \in Replacements : temp[a] = tasks
          /\ Written(file["seed"]) /\ file["disk"] \in {file["seed"], Absent}
       \/ /\ op.at = 2
          /\ file["disk"] = tasks /\ temp["seed"] = tasks
          /\ Written(file["seed"]) \/ file["seed"] = Absent
       \/ /\ op.at = 3
          /\ file["disk"] = tasks /\ file["seed"] = tasks

(* The address of a creation under way is its own; a VM the inventory does *)
(* not have has nothing on the host.                                       *)
AddressKept ==
  /\ status = "absent" => op.step = "none" /\ domain = "undefined"
  /\ op.kind = "create" /\ op.step \in Steps \union {"queued"} => held = tasks
  /\ DefinedVmHoldsAddress

HostInv ==
  /\ HostTypeOK
  /\ StepsFit
  /\ ArtifactsMatch
  /\ CreateUnderWay
  /\ RemovalUnderWay
  /\ ReplacementUnderWay
  /\ DefinedDomainKeepsArtifacts
  /\ DeletedLeavesNothing
  /\ FailedCreateIsRecoverable
=============================================================================
