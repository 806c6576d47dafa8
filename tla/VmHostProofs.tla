---------------------------- MODULE VmHostProofs ----------------------------
(***************************************************************************)
(* What holds of one VM on its host, however many tasks it has, however    *)
(* many commands fault, and wherever the agent is killed.  HostInv says at *)
(* each step of the executor what its task has done so far; the properties *)
(* of VmHost are parts of it or follow from it.                            *)
(***************************************************************************)
EXTENDS VmHost, TLAPS

-----------------------------------------------------------------------------
(* The rules of Lifecycle, and the names of the artifacts.                 *)

LEMMA StatusRules ==
  ASSUME NEW kind \in Kinds, NEW s \in VmStatuses \union {"absent"},
         NEW outcome \in {"succeeded", "failed", "canceled"}
  PROVE  /\ NextVmStatus(kind, outcome) \in VmStatuses \union {NoChange}
         /\ NextVmStatus(kind, outcome) = "deleted" <=> kind = "delete" /\ outcome = "succeeded"
         /\ kind = "delete" /\ outcome = "succeeded" => ReleasesAddress(kind, outcome)
         /\ QueuedStatus(kind, s) \in VmStatuses \union {"absent"}
         /\ QueuedStatus(kind, s) = "deleted" => s = "deleted"
  BY DEF NextVmStatus, ReleasesAddress, QueuedStatus, NoChange, Kinds, ActionKinds,
         Active, Unsuccessful, VmStatuses, Committed

LEMMA Orders ==
  /\ Len(CreateOrder) = 5 /\ Len(RemoveOrder) = 5
  /\ Len(StageOrder) = 3 /\ Len(CommitOrder) = 3
  /\ Artifacts = {"disk", "cloud", "net", "seed", "xml"}
  /\ Replacements = {"disk", "seed", "cloud"}
  /\ CreateOrder[1] = "disk" /\ CreateOrder[2] = "cloud" /\ CreateOrder[3] = "net"
  /\ CreateOrder[4] = "seed" /\ CreateOrder[5] = "xml"
  /\ RemoveOrder[1] = "disk" /\ RemoveOrder[2] = "seed" /\ RemoveOrder[3] = "net"
  /\ RemoveOrder[4] = "xml" /\ RemoveOrder[5] = "cloud"
  /\ StageOrder[1] = "disk" /\ StageOrder[2] = "cloud" /\ StageOrder[3] = "seed"
  /\ CommitOrder[1] = "disk" /\ CommitOrder[2] = "seed" /\ CommitOrder[3] = "cloud"
  <1>1. /\ Len(CreateOrder) = 5 /\ Len(RemoveOrder) = 5
        /\ Len(StageOrder) = 3 /\ Len(CommitOrder) = 3
    BY DEF CreateOrder, RemoveOrder, StageOrder, CommitOrder
  <1>2. /\ CreateOrder[1] = "disk" /\ CreateOrder[2] = "cloud" /\ CreateOrder[3] = "net"
        /\ CreateOrder[4] = "seed" /\ CreateOrder[5] = "xml"
    BY DEF CreateOrder
  <1>3. /\ RemoveOrder[1] = "disk" /\ RemoveOrder[2] = "seed" /\ RemoveOrder[3] = "net"
        /\ RemoveOrder[4] = "xml" /\ RemoveOrder[5] = "cloud"
    BY DEF RemoveOrder
  <1>4. /\ StageOrder[1] = "disk" /\ StageOrder[2] = "cloud" /\ StageOrder[3] = "seed"
        /\ CommitOrder[1] = "disk" /\ CommitOrder[2] = "seed" /\ CommitOrder[3] = "cloud"
    BY DEF StageOrder, CommitOrder
  <1>5. 1 .. 5 = {1, 2, 3, 4, 5} /\ 1 .. 3 = {1, 2, 3}
    OBVIOUS
  <1>6. Artifacts = {"disk", "cloud", "net", "seed", "xml"}
    BY <1>1, <1>2, <1>5 DEF Artifacts
  <1>7. Replacements = {"disk", "seed", "cloud"}
    BY <1>1, <1>4, <1>5 DEF Replacements
  <1>8. QED BY <1>1, <1>2, <1>3, <1>4, <1>6, <1>7

(* Each order names every artifact it is about, once.                      *)
LEMMA OrdersCover ==
  /\ \A i \in 1 .. 5 : CreateOrder[i] \in Artifacts /\ RemoveOrder[i] \in Artifacts
  /\ \A i \in 1 .. 3 : StageOrder[i] \in Replacements /\ CommitOrder[i] \in Replacements
  /\ \A i, j \in 1 .. 5 : CreateOrder[i] = CreateOrder[j] => i = j
  /\ \A i, j \in 1 .. 5 : RemoveOrder[i] = RemoveOrder[j] => i = j
  /\ \A i, j \in 1 .. 3 : StageOrder[i] = StageOrder[j] => i = j
  /\ \A a \in Artifacts : \E i \in 1 .. 5 : a = CreateOrder[i]
  /\ \A a \in Artifacts : \E i \in 1 .. 5 : a = RemoveOrder[i]
  /\ \A a \in Replacements : \E i \in 1 .. 3 : a = StageOrder[i]
  <1>1. 1 .. 5 = {1, 2, 3, 4, 5} /\ 1 .. 3 = {1, 2, 3}
    OBVIOUS
  <1>2. /\ \A i \in 1 .. 5 : CreateOrder[i] \in Artifacts /\ RemoveOrder[i] \in Artifacts
        /\ \A i \in 1 .. 3 : StageOrder[i] \in Replacements /\ CommitOrder[i] \in Replacements
    BY <1>1, Orders
  <1>3. \A i, j \in 1 .. 5 : CreateOrder[i] = CreateOrder[j] => i = j
    BY <1>1, Orders
  <1>4. \A i, j \in 1 .. 5 : RemoveOrder[i] = RemoveOrder[j] => i = j
    BY <1>1, Orders
  <1>5. \A i, j \in 1 .. 3 : StageOrder[i] = StageOrder[j] => i = j
    BY <1>1, Orders
  <1>6. \A a \in Artifacts : \E i \in 1 .. 5 : a = CreateOrder[i]
    BY <1>1, Orders
  <1>7. \A a \in Artifacts : \E i \in 1 .. 5 : a = RemoveOrder[i]
    BY <1>1, Orders
  <1>8. \A a \in Replacements : \E i \in 1 .. 3 : a = StageOrder[i]
    BY <1>1, Orders
  <1>9. QED BY <1>2, <1>3, <1>4, <1>5, <1>6, <1>7, <1>8

-----------------------------------------------------------------------------
(* How a step ends: what remains to be shown of it.                        *)

DiskTypes ==
  /\ dir \in BOOLEAN
  /\ ~dir => \A a \in Artifacts : file[a] = Absent
  /\ file \in [Artifacts -> Content]
  /\ temp \in [Replacements -> Content]
  /\ domain \in Live \union {"undefined", "shut_off"}
  /\ faults \in 0 .. MaxFaults

UnderWay == CreateUnderWay /\ RemovalUnderWay /\ ReplacementUnderWay
ArtifactsKept == DiskTypes /\ ArtifactsMatch /\ DefinedDomainKeepsArtifacts

-----------------------------------------------------------------------------
(* What a step may rely on.  Contents are distinct; the current task has   *)
(* written nothing but its own number.                                     *)
LEMMA HostFacts ==
  ASSUME HostInv
  PROVE  /\ op = [kind |-> op.kind, step |-> op.step, at |-> op.at]
         /\ op.kind \in Kinds /\ op.at \in 0 .. 6
         /\ op.step \in Steps \union Ended \union {"queued", "killed"}
         /\ status \in VmStatuses \union {"absent"}
         /\ held \in 0 .. MaxTasks /\ tasks \in 0 .. MaxTasks /\ retriable \in BOOLEAN
         /\ MaxTasks \in Nat /\ MaxFaults \in Nat /\ faults \in 0 .. MaxFaults
         /\ op.step \in Steps \union {"queued"} => Written(tasks)
         /\ ~Written(Absent) /\ ~Written(Torn) /\ Absent # Torn
         /\ DiskTypes /\ ArtifactsKept
  <1>1. /\ op = [kind |-> op.kind, step |-> op.step, at |-> op.at]
        /\ op.kind \in Kinds /\ op.at \in 0 .. 6
        /\ op.step \in Steps \union Ended \union {"queued", "killed"}
        /\ status \in VmStatuses \union {"absent"}
        /\ held \in 0 .. MaxTasks /\ tasks \in 0 .. MaxTasks /\ retriable \in BOOLEAN
        /\ faults \in 0 .. MaxFaults
    BY DEF HostInv, HostTypeOK
  <1>2. DiskTypes
    BY DEF HostInv, HostTypeOK, DiskTypes
  <1>3. ArtifactsKept
    BY <1>2 DEF HostInv, ArtifactsKept
  <1>4. ~Written(Absent) /\ ~Written(Torn) /\ Absent # Torn
    BY HostAssumption DEF Written, TaskNumbers
  <1>5. op.step # "none" => tasks > 0
    BY DEF HostInv, StepsFit
  <1>6. op.step \in Steps \union {"queued"} => Written(tasks)
    BY <1>1, <1>5, HostAssumption DEF Written, TaskNumbers, Steps
  <1>7. QED BY <1>1, <1>2, <1>3, <1>4, <1>6, HostAssumption

(* The task goes on.                                                       *)
LEMMA TaskGoesOn ==
  ASSUME HostInv, op.step \in Steps \union {"queued"}, NEW step \in Steps, NEW at \in 0 .. 6,
         op' = [op EXCEPT !.step = step, !.at = at], UNCHANGED inventory,
         op.kind \in KindsAt(step),
         ArtifactsKept', UnderWay'
  PROVE  HostInv'
  <1>1. op'.kind = op.kind /\ op'.step = step /\ op'.at = at
    BY DEF HostInv, HostTypeOK
  <1>2. HostTypeOK'
    BY DEF HostInv, HostTypeOK, ArtifactsKept, DiskTypes, inventory
  <1>3. StepsFit' /\ DeletedLeavesNothing' /\ FailedCreateIsRecoverable'
    BY <1>1 DEF HostInv, StepsFit, DeletedLeavesNothing, FailedCreateIsRecoverable,
                inventory, Steps
  <1>4. QED BY <1>2, <1>3 DEF HostInv, ArtifactsKept, UnderWay

(* The task ends.                                                          *)
LEMMA TaskEnds ==
  ASSUME HostInv, op.step \in Steps \union {"queued"},
         NEW outcome \in {"succeeded", "failed", "canceled"}, End(outcome),
         outcome = "succeeded" /\ op.kind = "delete" => ~dir' /\ domain' = "undefined",
         op.kind = "create" /\ outcome = "failed" /\ op.at > 0 => FailedCreateIsRecoverable',
         ArtifactsKept'
  PROVE  HostInv'
  <1>1. op'.kind = op.kind /\ op'.step = outcome /\ op'.at = op.at
    BY DEF HostInv, HostTypeOK, End
  <1>2. /\ op.kind \in Kinds /\ op.at \in 0 .. 6
        /\ status \in VmStatuses \union {"absent"} /\ status # "deleted"
    BY DEF HostInv, HostTypeOK, StepsFit, Steps
  <1>3. /\ NextVmStatus(op.kind, outcome) \in VmStatuses \union {NoChange}
        /\ NextVmStatus(op.kind, outcome) = "deleted"
             <=> op.kind = "delete" /\ outcome = "succeeded"
        /\ op.kind = "delete" /\ outcome = "succeeded" => ReleasesAddress(op.kind, outcome)
    BY <1>2, StatusRules
  <1>4. HostTypeOK'
    <2>1. status' \in VmStatuses \union {"absent"}
      BY <1>2, <1>3 DEF End
    <2>2. op' \in [kind: Kinds, step: Steps \union Ended \union {"queued", "killed"}, at: 0 .. 6]
      BY <1>2 DEF HostInv, HostTypeOK, End, Ended
    <2>3. held' \in 0 .. MaxTasks /\ tasks' \in 0 .. MaxTasks
      BY HostFacts DEF End
    <2>4. retriable' \in BOOLEAN
      BY Zenon DEF End
    <2>5. QED BY <2>1, <2>2, <2>3, <2>4 DEF HostTypeOK, ArtifactsKept, DiskTypes
  <1>5. status' = "deleted" => op.kind = "delete" /\ outcome = "succeeded" /\ held' = 0
    BY <1>2, <1>3 DEF End, NoChange
  <1>6. StepsFit' /\ DeletedLeavesNothing'
    BY <1>1, <1>5 DEF HostInv, StepsFit, DeletedLeavesNothing, End, Steps
  <1>7. FailedCreateIsRecoverable'
    BY <1>1 DEF FailedCreateIsRecoverable
  <1>8. UnderWay'
    BY <1>1 DEF UnderWay, CreateUnderWay, RemovalUnderWay, ReplacementUnderWay, Steps
  <1>9. QED BY <1>4, <1>6, <1>7, <1>8 DEF HostInv, ArtifactsKept, UnderWay

LEMMA FaultCount ==
  ASSUME HostInv, NoFault \/ Fault
  PROVE  /\ faults' \in Nat /\ faults' \in 0 .. MaxFaults
         /\ Fault => faults' > 0
         /\ Fault /\ faults > 0 => faults' > 1
  <1>1. faults \in 0 .. MaxFaults /\ MaxFaults \in Nat
    BY HostFacts
  <1>2. QED BY <1>1 DEF NoFault, Fault

LEMMA DisksKept ==
  ASSUME HostInv, UNCHANGED <<disks, domain>>, NoFault \/ Fault
  PROVE  ArtifactsKept'
  <1>1. faults' \in 0 .. MaxFaults
    BY FaultCount
  <1>2. QED
    BY <1>1 DEF HostInv, HostTypeOK, ArtifactsKept, DiskTypes, ArtifactsMatch, TempsAbsent,
                DefinedDomainKeepsArtifacts, disks

(* What a creation that is past its last artifact leaves to the next task. *)
LEMMA WholeIsVerified ==
  ASSUME HostInv, op.kind = "create",
         op.step \in {"define", "start", "check_absent", "await_running", "check_stopped",
                      "undefine"}
  PROVE  Verified("delete")
  <1>1. dir /\ TempsAbsent /\ \A a \in Artifacts : file[a] = tasks
    BY DEF HostInv, CreateUnderWay, Steps
  <1>2. tasks # Absent /\ tasks # Torn
    BY HostFacts DEF Steps
  <1>3. QED BY <1>1, <1>2, Orders DEF Verified

-----------------------------------------------------------------------------
(* The master's part.                                                      *)

LEMMA QueueKeepsInv ==
  ASSUME HostInv, NEW kind \in Kinds, Queue(kind)
  PROVE  HostInv'
  <1>1. /\ op' = [kind |-> kind, step |-> "queued", at |-> 0]
        /\ op'.kind = kind /\ op'.step = "queued" /\ op'.at = 0
        /\ op.step \notin Steps
        /\ tasks' = tasks + 1 /\ tasks' \in 1 .. MaxTasks
        /\ UNCHANGED <<retriable, dir, file, temp, domain, faults>>
    BY HostFacts DEF Queue, disks, Ended, Steps
  <1>2. status \in VmStatuses \union {"absent"} /\ status # "deleted"
    BY DEF Queue, HostInv, HostTypeOK, ActionAllowed, RetryAllowed
  <1>3. status' \in VmStatuses \union {"absent"} /\ status' # "deleted"
    BY <1>2, StatusRules DEF Queue
  <1>4. held' \in 0 .. MaxTasks
    BY <1>1, HostFacts DEF Queue
  <1>5. HostTypeOK'
    <2>1. op' \in [kind: Kinds, step: Steps \union Ended \union {"queued", "killed"}, at: 0 .. 6]
      BY <1>1
    <2>2. DiskTypes'
      BY <1>1, HostFacts DEF DiskTypes
    <2>3. retriable' \in BOOLEAN /\ tasks' \in 0 .. MaxTasks
      BY <1>1, HostFacts
    <2>4. QED BY <2>1, <2>2, <2>3, <1>3, <1>4 DEF HostTypeOK, DiskTypes
  <1>6. StepsFit' /\ DeletedLeavesNothing' /\ FailedCreateIsRecoverable'
    BY <1>1, <1>3 DEF StepsFit, DeletedLeavesNothing, FailedCreateIsRecoverable, Steps
  <1>7. UnderWay'
    BY <1>1 DEF UnderWay, CreateUnderWay, RemovalUnderWay, ReplacementUnderWay, Steps
  <1>8. ArtifactsMatch' /\ DefinedDomainKeepsArtifacts'
    BY <1>1 DEF HostInv, ArtifactsMatch, TempsAbsent, DefinedDomainKeepsArtifacts
  <1>9. QED BY <1>5, <1>6, <1>7, <1>8 DEF HostInv, UnderWay

LEMMA CancelKeepsInv ==
  ASSUME HostInv, Cancel
  PROVE  HostInv'
  <1>1. ArtifactsKept'
    BY DisksKept DEF Cancel, NoFault
  <1>2. QED BY <1>1, TaskEnds DEF Cancel

-----------------------------------------------------------------------------
(* The agent and the guest.                                                *)

LEMMA KilledKeepsInv ==
  ASSUME HostInv, Killed
  PROVE  HostInv'
  <1>1. /\ op'.kind = op.kind /\ op'.step = "killed" /\ op'.at = op.at
        /\ op' \in [kind: Kinds, step: Steps \union Ended \union {"queued", "killed"}, at: 0 .. 6]
        /\ op.step \in Steps
        /\ UNCHANGED <<status, held, retriable, tasks, dir, file, temp, domain, faults>>
    BY DEF Killed, HostInv, HostTypeOK, inventory, disks
  <1>2. HostTypeOK'
    BY <1>1 DEF HostInv, HostTypeOK
  <1>3. StepsFit' /\ DeletedLeavesNothing' /\ FailedCreateIsRecoverable'
    BY <1>1 DEF HostInv, StepsFit, DeletedLeavesNothing, FailedCreateIsRecoverable, Steps
  <1>4. UnderWay'
    BY <1>1 DEF UnderWay, CreateUnderWay, RemovalUnderWay, ReplacementUnderWay, Steps
  <1>5. ArtifactsMatch' /\ DefinedDomainKeepsArtifacts'
    BY <1>1 DEF HostInv, ArtifactsMatch, TempsAbsent, DefinedDomainKeepsArtifacts
  <1>6. QED BY <1>2, <1>3, <1>4, <1>5 DEF HostInv, UnderWay

LEMMA GuestKeepsInv ==
  ASSUME HostInv, GuestPowersOff \/ GuestPauses
  PROVE  HostInv'
  <1>1. /\ domain = "running" /\ domain' \in {"shut_off", "paused"}
        /\ UNCHANGED <<status, held, retriable, tasks, op, dir, file, temp, faults>>
    BY DEF GuestPowersOff, GuestPauses, inventory, disks
  <1>2. HostTypeOK'
    BY <1>1 DEF HostInv, HostTypeOK, Live
  <1>3. StepsFit' /\ DeletedLeavesNothing'
    BY <1>1 DEF HostInv, StepsFit, DeletedLeavesNothing
  <1>4. FailedCreateIsRecoverable'
    BY <1>1 DEF HostInv, FailedCreateIsRecoverable, Verified, TempsAbsent
  <1>5. ArtifactsMatch' /\ DefinedDomainKeepsArtifacts'
    BY <1>1 DEF HostInv, ArtifactsMatch, TempsAbsent, DefinedDomainKeepsArtifacts, Live
  <1>6. CreateUnderWay'
    BY <1>1 DEF HostInv, CreateUnderWay, TempsAbsent
  <1>7. RemovalUnderWay' /\ ReplacementUnderWay'
    BY <1>1 DEF HostInv, RemovalUnderWay, ReplacementUnderWay, TempsAbsent
  <1>8. QED BY <1>2, <1>3, <1>4, <1>5, <1>6, <1>7 DEF HostInv

-----------------------------------------------------------------------------
(* The steps of the executor.                                              *)

LEMMA Moves ==
  ASSUME HostInv
  PROVE  /\ \A step \in Steps : Goto(step) =>
              op'.kind = op.kind /\ op'.step = step /\ op'.at = 1 /\ tasks' = tasks
         /\ Advance =>
              op'.kind = op.kind /\ op'.step = op.step /\ op'.at = op.at + 1 /\ tasks' = tasks
         /\ \A outcome : End(outcome) =>
              op'.kind = op.kind /\ op'.step = outcome /\ op'.at = op.at /\ tasks' = tasks
  BY HostFacts DEF Goto, Advance, End, inventory

LEMMA GotoGoesOn ==
  ASSUME HostInv, op.step \in Steps \union {"queued"}, NEW step \in Steps, Goto(step),
         op.kind \in KindsAt(step), ArtifactsKept', UnderWay'
  PROVE  HostInv'
  <1>1. 1 \in 0 .. 6
    OBVIOUS
  <1>2. op' = [op EXCEPT !.step = step, !.at = 1] /\ UNCHANGED inventory
    BY DEF Goto
  <1>3. QED BY <1>1, <1>2, TaskGoesOn

LEMMA AdvanceGoesOn ==
  ASSUME HostInv, op.step \in Steps, op.at < 6, Advance, ArtifactsKept', UnderWay'
  PROVE  HostInv'
  <1>1. op' = [op EXCEPT !.step = op.step, !.at = op.at + 1] /\ UNCHANGED inventory
    BY HostFacts DEF Advance
  <1>2. op.at + 1 \in 0 .. 6
    BY HostFacts
  <1>3. op.kind \in KindsAt(op.step)
    BY DEF HostInv, StepsFit
  <1>4. QED BY <1>1, <1>2, <1>3, TaskGoesOn

LEMMA BeginCreateKeepsInv ==
  ASSUME HostInv, BeginCreate
  PROVE  HostInv'
  <1> dir \in BOOLEAN
    BY HostFacts DEF DiskTypes
  <1>1. /\ op.step = "queued" /\ op.kind = "create" /\ op.at = 0
        /\ UNCHANGED <<file, temp, domain>>
        /\ dir' = dir \/ dir' = TRUE
        /\ NoFault \/ Fault
    BY DEF BeginCreate, At, HostInv, StepsFit
  <1>2. ArtifactsKept'
    <2>1. faults' \in 0 .. MaxFaults
      BY <1>1, FaultCount
    <2>2. DiskTypes'
      <3>1. DiskTypes
        BY HostFacts
      <3>2. CASE dir' = dir
        BY <1>1, <2>1, <3>1, <3>2 DEF DiskTypes
      <3>3. CASE dir' = TRUE
        BY <1>1, <2>1, <3>1, <3>3 DEF DiskTypes
      <3>4. QED BY <1>1, <3>2, <3>3
    <2>3. ArtifactsMatch' /\ DefinedDomainKeepsArtifacts'
      BY <1>1 DEF HostInv, ArtifactsMatch, TempsAbsent, DefinedDomainKeepsArtifacts
    <2>4. QED BY <2>2, <2>3 DEF ArtifactsKept
  <1>3. CASE End("failed")
    BY <1>1, <1>2, <1>3, TaskEnds
  <1>4. CASE Goto("write") /\ dir' = TRUE /\ \A a \in Artifacts : file[a] = Absent
    <2>1. /\ op'.kind = "create" /\ op'.step = "write" /\ op'.at = 1 /\ tasks' = tasks
      BY <1>1, <1>4, Moves DEF Steps
    <2>2. domain = "undefined"
      BY <1>4, Orders, HostFacts DEF ArtifactsKept, DefinedDomainKeepsArtifacts
    <2>3. TempsAbsent' /\ domain' = "undefined"
      BY <2>2, <1>1 DEF HostInv, ArtifactsMatch, TempsAbsent
    <2>4. \A i \in 1 .. 5 : file'[CreateOrder[i]] = IF i < 1 THEN tasks' ELSE Absent
      BY <1>1, <1>4, Orders DEF Artifacts
    <2>5. CreateUnderWay'
      BY <1>4, <2>1, <2>3, <2>4 DEF CreateUnderWay
    <2>6. RemovalUnderWay' /\ ReplacementUnderWay'
      BY <2>1 DEF RemovalUnderWay, ReplacementUnderWay
    <2>7. QED BY <1>1, <1>2, <1>4, <2>5, <2>6, GotoGoesOn DEF UnderWay, KindsAt, Steps
  <1>5. QED BY <1>3, <1>4 DEF BeginCreate

LEMMA BeginActionKeepsInv ==
  ASSUME HostInv, BeginAction
  PROVE  HostInv'
  <1>1. /\ op.step = "queued" /\ op.kind # "create"
        /\ UNCHANGED <<dir, file, temp, domain>> /\ ArtifactsKept'
    BY DisksKept DEF BeginAction, At, disks
  <1>2. CASE End("failed")
    BY <1>1, <1>2, TaskEnds
  <1>3. CASE Verified(op.kind) /\ Goto(FirstStep(op.kind))
    <2>1. FirstStep(op.kind) \in {"start", "shutdown", "reboot", "destroy"}
            /\ op.kind \in KindsAt(FirstStep(op.kind))
            /\ (FirstStep(op.kind) = "destroy" => op.kind \in {"reinstall", "delete"})
      BY <1>1, HostFacts DEF FirstStep, KindsAt, Kinds, ActionKinds
    <2>2. /\ op'.kind = op.kind /\ op'.step = FirstStep(op.kind) /\ op'.at = 1
      BY <1>3, <2>1, Moves DEF Steps
    <2>3. CreateUnderWay' /\ RemovalUnderWay'
      BY <1>1, <2>1, <2>2 DEF CreateUnderWay, RemovalUnderWay
    <2>4. ReplacementUnderWay'
      BY <1>1, <1>3, <2>1, <2>2 DEF ReplacementUnderWay, Verified, TempsAbsent
    <2>5. QED BY <1>1, <1>3, <2>1, <2>3, <2>4, GotoGoesOn DEF UnderWay, Steps
  <1>4. QED BY <1>2, <1>3 DEF BeginAction

LEMMA WriteArtifactKeepsInv ==
  ASSUME HostInv, WriteArtifact
  PROVE  HostInv'
  <1> DEFINE a == CreateOrder[op.at]
  <1>1. op.step = "write" /\ op.kind = "create"
    BY DEF WriteArtifact, At, HostInv, StepsFit, KindsAt, Steps
  <1>2. /\ dir /\ TempsAbsent /\ domain = "undefined"
        /\ op.at \in 1 .. 5 /\ a \in Artifacts
        /\ \A i \in 1 .. 5 : file[CreateOrder[i]] = IF i < op.at THEN tasks ELSE Absent
    BY <1>1, OrdersCover DEF HostInv, CreateUnderWay, Steps
  <1>3. UNCHANGED <<dir, temp, domain>> /\ TempsAbsent'
    BY <1>2 DEF WriteArtifact, TempsAbsent
  <1>4. PICK left \in {Absent, Torn, tasks} : file' = [file EXCEPT ![a] = left]
    BY DEF WriteArtifact
  <1>5. ArtifactsKept'
    <2>1. left \in Content
      BY <1>1, HostFacts DEF Content, Written, Steps
    <2>2. file' \in [Artifacts -> Content]
      BY <1>4, <2>1, HostFacts DEF DiskTypes
    <2>3. faults' \in 0 .. MaxFaults
      BY FaultCount DEF WriteArtifact
    <2>4. DiskTypes'
      BY <1>2, <1>3, <2>2, <2>3, HostFacts DEF DiskTypes
    <2>5. QED
      BY <1>2, <1>3, <2>4 DEF ArtifactsKept, ArtifactsMatch, DefinedDomainKeepsArtifacts, Live
  <1>6. file \in [Artifacts -> Content]
    BY HostFacts DEF DiskTypes
  <1>7. CASE file' = [file EXCEPT ![a] = tasks] /\ op.at < 5 /\ Advance
    <2>1. op'.kind = "create" /\ op'.step = "write" /\ op'.at = op.at + 1 /\ tasks' = tasks
      BY <1>1, <1>7, Moves
    <2>2. \A i \in 1 .. 5 : file'[CreateOrder[i]] = IF i < op'.at THEN tasks' ELSE Absent
      BY <1>2, <1>6, <1>7, <2>1, OrdersCover
    <2>3. CreateUnderWay'
      BY <1>2, <1>3, <1>7, <2>1, <2>2 DEF CreateUnderWay
    <2>4. RemovalUnderWay' /\ ReplacementUnderWay'
      BY <2>1 DEF RemovalUnderWay, ReplacementUnderWay
    <2>5. QED BY <1>1, <1>2, <1>5, <1>7, <2>3, <2>4, AdvanceGoesOn DEF UnderWay, Steps
  <1>8. CASE file' = [file EXCEPT ![a] = tasks] /\ ~(op.at < 5) /\ Goto("define")
    <2>1. op'.kind = "create" /\ op'.step = "define" /\ op'.at = 1 /\ tasks' = tasks
      BY <1>1, <1>8, Moves DEF Steps
    <2>2. op.at = 5
      BY <1>2, <1>8
    <2>3. \A b \in Artifacts : file'[b] = tasks'
      BY <1>2, <1>6, <1>8, <2>1, <2>2, OrdersCover
    <2>4. CreateUnderWay'
      BY <1>2, <1>3, <2>1, <2>3 DEF CreateUnderWay
    <2>5. RemovalUnderWay' /\ ReplacementUnderWay'
      BY <2>1 DEF RemovalUnderWay, ReplacementUnderWay
    <2>6. QED BY <1>1, <1>5, <1>8, <2>4, <2>5, GotoGoesOn DEF UnderWay, KindsAt, Steps
  <1>9. CASE Fault /\ Goto("remove")
    <2>1. op'.kind = "create" /\ op'.step = "remove" /\ op'.at = 1 /\ tasks' = tasks
      BY <1>1, <1>9, Moves DEF Steps
    <2>2. faults' > 0
      BY <1>9, FaultCount
    <2>3. CreateUnderWay'
      BY <1>2, <1>3, <2>1, <2>2 DEF CreateUnderWay
    <2>4. RemovalUnderWay' /\ ReplacementUnderWay'
      BY <1>2, <1>3, <2>1 DEF RemovalUnderWay, ReplacementUnderWay
    <2>5. QED BY <1>1, <1>5, <1>9, <2>3, <2>4, GotoGoesOn DEF UnderWay, KindsAt, Steps
  <1>10. QED BY <1>7, <1>8, <1>9, Orders DEF WriteArtifact

LEMMA DefineDomainKeepsInv ==
  ASSUME HostInv, DefineDomain
  PROVE  HostInv'
  <1>1. op.step = "define" /\ op.kind = "create"
    BY DEF DefineDomain, At, HostInv, StepsFit, KindsAt, Steps
  <1>2. /\ dir /\ TempsAbsent /\ domain = "undefined"
        /\ \A a \in Artifacts : file[a] = tasks
    BY <1>1 DEF HostInv, CreateUnderWay, Steps
  <1>3. /\ UNCHANGED <<dir, file, temp>> /\ domain' \in {"undefined", "shut_off"}
        /\ TempsAbsent'
    BY <1>2 DEF DefineDomain, disks, TempsAbsent
  <1>4. Written(tasks) /\ tasks # Absent
    BY <1>1, HostFacts DEF Steps
  <1>5. ArtifactsKept'
    <2>1. faults' \in 0 .. MaxFaults
      BY FaultCount DEF DefineDomain
    <2>2. DiskTypes'
      BY <1>2, <1>3, <2>1, HostFacts DEF DiskTypes
    <2>3. ArtifactsMatch' /\ DefinedDomainKeepsArtifacts'
      BY <1>2, <1>3, <1>4, Orders DEF ArtifactsMatch, DefinedDomainKeepsArtifacts, Live
    <2>4. QED BY <2>2, <2>3 DEF ArtifactsKept
  <1>6. CASE domain' = "shut_off" /\ Goto("start")
    <2>1. op'.kind = "create" /\ op'.step = "start" /\ op'.at = 1 /\ tasks' = tasks
      BY <1>1, <1>6, Moves DEF Steps
    <2>2. CreateUnderWay'
      BY <1>2, <1>3, <1>6, <2>1 DEF CreateUnderWay
    <2>3. RemovalUnderWay' /\ ReplacementUnderWay'
      BY <1>2, <1>3, <1>4, <2>1, Orders DEF RemovalUnderWay, ReplacementUnderWay
    <2>4. QED BY <1>1, <1>5, <1>6, <2>2, <2>3, GotoGoesOn DEF UnderWay, KindsAt, Steps
  <1>7. CASE Fault /\ Goto("check_absent")
    <2>1. op'.kind = "create" /\ op'.step = "check_absent" /\ op'.at = 1 /\ tasks' = tasks
      BY <1>1, <1>7, Moves DEF Steps
    <2>2. faults' > 0
      BY <1>7, FaultCount
    <2>3. CreateUnderWay'
      BY <1>2, <1>3, <2>1, <2>2 DEF CreateUnderWay
    <2>4. RemovalUnderWay' /\ ReplacementUnderWay'
      BY <2>1 DEF RemovalUnderWay, ReplacementUnderWay
    <2>5. QED BY <1>1, <1>5, <1>7, <2>3, <2>4, GotoGoesOn DEF UnderWay, KindsAt, Steps
  <1>8. QED BY <1>6, <1>7 DEF DefineDomain

LEMMA CheckAbsentKeepsInv ==
  ASSUME HostInv, CheckAbsent
  PROVE  HostInv'
  <1>1. op.step = "check_absent" /\ op.kind = "create"
    BY DEF CheckAbsent, At, HostInv, StepsFit, KindsAt, Steps
  <1>2. dir /\ TempsAbsent /\ faults > 0
    BY <1>1 DEF HostInv, CreateUnderWay, Steps
  <1>3. UNCHANGED <<dir, file, temp, domain>> /\ ArtifactsKept'
    BY DisksKept DEF CheckAbsent, disks
  <1>4. CASE NoFault /\ domain = "undefined" /\ Goto("remove")
    <2>1. /\ op'.kind = "create" /\ op'.step = "remove" /\ op'.at = 1 /\ tasks' = tasks
      BY <1>1, <1>4, Moves DEF Steps
    <2>2. CreateUnderWay'
      BY <1>2, <1>3, <1>4, <2>1 DEF CreateUnderWay, NoFault, TempsAbsent
    <2>3. RemovalUnderWay' /\ ReplacementUnderWay'
      BY <1>2, <1>3, <1>4, <2>1 DEF RemovalUnderWay, ReplacementUnderWay
    <2>4. QED BY <1>1, <1>3, <1>4, <2>2, <2>3, GotoGoesOn DEF UnderWay, KindsAt, Steps
  <1>5. CASE End("failed") /\ (domain # "undefined" \/ Fault)
    <2>1. FailedCreateIsRecoverable'
      <3>1. Verified("delete")'
        BY <1>1, <1>3, WholeIsVerified DEF Verified, TempsAbsent
      <3>2. faults' \in Nat /\ (Fault => faults' > 1)
        BY <1>2, <1>3, FaultCount DEF CheckAbsent
      <3>3. QED BY <1>3, <1>5, <3>1, <3>2 DEF FailedCreateIsRecoverable
    <2>2. QED BY <1>1, <1>3, <1>5, <2>1, TaskEnds DEF Steps
  <1>6. QED BY <1>4, <1>5 DEF CheckAbsent

(* What is left when a creation that is past its last artifact fails.      *)
LEMMA LateFailure ==
  ASSUME HostInv, op.kind = "create", UNCHANGED disks, NoFault \/ Fault,
         op.step \in {"check_absent", "await_running", "check_stopped"},
         domain' # "undefined" \/ (Fault /\ faults > 0)
  PROVE  FailedCreateIsRecoverable'
  <1>1. UNCHANGED <<dir, file, temp>>
    BY DEF disks
  <1>2. Verified("delete")'
    BY <1>1, WholeIsVerified DEF Verified, TempsAbsent
  <1>3. faults' \in Nat /\ (Fault /\ faults > 0 => faults' > 1)
    BY FaultCount
  <1>4. QED BY <1>2, <1>3 DEF FailedCreateIsRecoverable

LEMMA StartDomainKeepsInv ==
  ASSUME HostInv, StartDomain
  PROVE  HostInv'
  <1>1. op.step = "start" /\ op.kind \in {"create", "start", "reinstall"}
    BY DEF StartDomain, At, HostInv, StepsFit, KindsAt, Steps
  <1>2. file["disk"] # Absent /\ file["seed"] # Absent
    BY <1>1 DEF HostInv, ReplacementUnderWay
  <1>3. /\ UNCHANGED <<dir, file, temp>>
        /\ domain' = domain \/ (domain = "shut_off" /\ domain' = "running")
        /\ NoFault \/ Fault
    BY DEF StartDomain, disks
  <1>4. ArtifactsKept'
    <2>1. faults' \in 0 .. MaxFaults
      BY <1>3, FaultCount
    <2>2. domain' \in Live \union {"undefined", "shut_off"}
      BY <1>3, HostFacts DEF DiskTypes, Live
    <2>3. DiskTypes'
      BY <1>3, <2>1, <2>2, HostFacts DEF DiskTypes
    <2>4. ArtifactsMatch' /\ DefinedDomainKeepsArtifacts'
      BY <1>2, <1>3 DEF HostInv, ArtifactsMatch, TempsAbsent, DefinedDomainKeepsArtifacts, Live
    <2>5. QED BY <2>3, <2>4 DEF ArtifactsKept
  <1>5. op.kind = "create" =>
          /\ dir /\ TempsAbsent /\ domain = "shut_off"
          /\ \A a \in Artifacts : file[a] = tasks
    BY <1>1 DEF HostInv, CreateUnderWay, Steps
  <1>6. CASE domain' = "running" /\ Goto("await_running")
    <2>1. /\ op'.kind = op.kind /\ op'.step = "await_running" /\ op'.at = 1 /\ tasks' = tasks
      BY <1>6, Moves DEF Steps
    <2>2. CreateUnderWay'
      BY <1>3, <1>5, <1>6, <2>1 DEF CreateUnderWay, TempsAbsent
    <2>3. RemovalUnderWay' /\ ReplacementUnderWay'
      BY <2>1 DEF RemovalUnderWay, ReplacementUnderWay
    <2>4. QED BY <1>1, <1>4, <1>6, <2>2, <2>3, GotoGoesOn DEF UnderWay, KindsAt, Steps
  <1>7. CASE op.kind = "create" /\ Fault /\ Goto("check_stopped")
    <2>1. /\ op'.kind = "create" /\ op'.step = "check_stopped" /\ op'.at = 1 /\ tasks' = tasks
      BY <1>7, Moves DEF Steps
    <2>2. faults' > 0
      BY <1>7, FaultCount
    <2>3. TempsAbsent' /\ domain' # "undefined"
      BY <1>3, <1>5, <1>7 DEF TempsAbsent
    <2>4. CreateUnderWay'
      BY <1>3, <1>5, <1>7, <2>1, <2>2, <2>3 DEF CreateUnderWay
    <2>5. RemovalUnderWay' /\ ReplacementUnderWay'
      BY <1>2, <1>3, <2>1, <2>3 DEF RemovalUnderWay, ReplacementUnderWay
    <2>6. QED BY <1>1, <1>4, <1>7, <2>4, <2>5, GotoGoesOn DEF UnderWay, KindsAt, Steps
  <1>8. CASE op.kind # "create" /\ End("failed")
    BY <1>1, <1>4, <1>8, TaskEnds DEF Steps
  <1>9. QED BY <1>5, <1>6, <1>7, <1>8 DEF StartDomain

LEMMA AwaitKeepsInv ==
  ASSUME HostInv,
         \/ Await("await_running", "running")
         \/ Await("await_shut_off", "shut_off")
  PROVE  HostInv'
  <1>1. /\ op.step \in {"await_running", "await_shut_off"} /\ op.kind # "delete"
        /\ op.kind = "create" => op.step = "await_running"
    BY DEF Await, At, HostInv, StepsFit, KindsAt, Steps
  <1>2. op.kind = "create" => domain # "undefined"
    BY <1>1 DEF HostInv, CreateUnderWay, Steps
  <1>3. UNCHANGED <<disks, domain>> /\ ArtifactsKept' /\ (NoFault \/ Fault)
    BY DisksKept DEF Await
  <1>4. op.kind = "create" => FailedCreateIsRecoverable'
    BY <1>1, <1>2, <1>3, LateFailure DEF disks
  <1>5. PICK outcome \in {"succeeded", "failed"} : End(outcome)
    BY DEF Await
  <1>6. QED BY <1>1, <1>3, <1>4, <1>5, TaskEnds DEF Steps

LEMMA RequestPowerKeepsInv ==
  ASSUME HostInv,
         \/ RequestPower("shutdown", "await_shut_off")
         \/ RequestPower("reboot", "await_running")
  PROVE  HostInv'
  <1>1. op.step \in {"shutdown", "reboot"} /\ op.kind \in {"stop", "reboot"}
    BY DEF RequestPower, At, HostInv, StepsFit, KindsAt, Steps
  <1>2. ArtifactsKept'
    BY DisksKept DEF RequestPower
  <1>3. CASE End("failed")
    BY <1>1, <1>2, <1>3, TaskEnds DEF Steps
  <1>4. ASSUME NEW next \in {"await_shut_off", "await_running"}, Goto(next),
               op.kind \in KindsAt(next)
        PROVE  HostInv'
    <2>1. op'.kind = op.kind /\ op'.step = next
      BY <1>4, Moves DEF Steps
    <2>2. UnderWay'
      BY <1>1, <2>1 DEF UnderWay, CreateUnderWay, RemovalUnderWay, ReplacementUnderWay
    <2>3. QED BY <1>1, <1>2, <1>4, <2>2, GotoGoesOn DEF Steps
  <1>5. CASE RequestPower("shutdown", "await_shut_off")
    <2>1. op.kind \in KindsAt("await_shut_off")
      BY <1>5 DEF RequestPower, At, HostInv, StepsFit, KindsAt, Steps
    <2>2. QED BY <1>3, <1>4, <1>5, <2>1 DEF RequestPower
  <1>6. CASE RequestPower("reboot", "await_running")
    <2>1. op.kind \in KindsAt("await_running")
      BY <1>6 DEF RequestPower, At, HostInv, StepsFit, KindsAt, Steps
    <2>2. QED BY <1>3, <1>4, <1>6, <2>1 DEF RequestPower
  <1>7. QED BY <1>5, <1>6

LEMMA DestroyDomainKeepsInv ==
  ASSUME HostInv, DestroyDomain
  PROVE  HostInv'
  <1>1. op.step = "destroy" /\ op.kind \in {"reinstall", "delete"}
    BY DEF DestroyDomain, At, HostInv, StepsFit, KindsAt, Steps
  <1>2. file["disk"] # Absent /\ file["seed"] # Absent /\ TempsAbsent
    BY <1>1 DEF HostInv, ReplacementUnderWay
  <1>3. /\ UNCHANGED <<dir, file, temp>> /\ TempsAbsent'
        /\ domain' = domain \/ (domain \in Live /\ domain' = "shut_off")
        /\ NoFault \/ Fault
    BY <1>2 DEF DestroyDomain, disks, TempsAbsent
  <1>4. ArtifactsKept'
    <2>1. faults' \in 0 .. MaxFaults
      BY <1>3, FaultCount
    <2>2. domain' \in Live \union {"undefined", "shut_off"}
      BY <1>3, HostFacts DEF DiskTypes, Live
    <2>3. DiskTypes'
      BY <1>3, <2>1, <2>2, HostFacts DEF DiskTypes
    <2>4. ArtifactsMatch' /\ DefinedDomainKeepsArtifacts'
      BY <1>2, <1>3 DEF HostInv, ArtifactsMatch, TempsAbsent, DefinedDomainKeepsArtifacts, Live
    <2>5. QED BY <2>3, <2>4 DEF ArtifactsKept
  <1>5. op'.kind = op.kind /\ op'.step = "check_stopped"
    BY Moves DEF DestroyDomain, Steps
  <1>6. UnderWay'
    BY <1>1, <1>2, <1>3, <1>5 DEF UnderWay, CreateUnderWay, RemovalUnderWay, ReplacementUnderWay
  <1>7. QED BY <1>1, <1>4, <1>6, GotoGoesOn DEF DestroyDomain, KindsAt, Steps

LEMMA CheckStoppedKeepsInv ==
  ASSUME HostInv, CheckStopped
  PROVE  HostInv'
  <1>1. op.step = "check_stopped" /\ op.kind \in {"create", "reinstall", "delete"}
    BY DEF CheckStopped, At, HostInv, StepsFit, KindsAt, Steps
  <1>2. file["disk"] # Absent /\ file["seed"] # Absent /\ TempsAbsent
    BY <1>1 DEF HostInv, ReplacementUnderWay
  <1>3. /\ UNCHANGED <<disks, dir, file, temp, domain>> /\ TempsAbsent' /\ ArtifactsKept'
        /\ NoFault \/ Fault
    BY <1>2, DisksKept DEF CheckStopped, disks, TempsAbsent
  <1>4. op.kind = "create" =>
          dir /\ domain # "undefined" /\ faults > 0 /\ \A a \in Artifacts : file[a] = tasks
    BY <1>1 DEF HostInv, CreateUnderWay, Steps
  <1>5. CASE NoFault /\ domain = "shut_off" /\ Goto(AfterStopped)
    <2>1. /\ op.kind = "reinstall" => AfterStopped = "stage"
          /\ op.kind # "reinstall" => AfterStopped = "undefine"
      BY DEF AfterStopped
    <2>2. op'.kind = op.kind /\ op'.step = AfterStopped /\ op'.at = 1 /\ tasks' = tasks
      BY <1>5, <2>1, Moves DEF Steps
    <2>3. CreateUnderWay'
      BY <1>1, <1>3, <1>4, <1>5, <2>1, <2>2 DEF CreateUnderWay, NoFault
    <2>4. RemovalUnderWay'
      BY <1>3, <1>5, <2>1, <2>2 DEF RemovalUnderWay
    <2>5. ReplacementUnderWay'
      <3>1. file["disk"] = file["seed"]
        <4>1. file["disk"] \in {file["seed"], temp["seed"]}
          BY <1>2, <1>5 DEF HostInv, ArtifactsMatch
        <4>2. temp["seed"] = Absent
          BY <1>2, Orders DEF TempsAbsent
        <4>3. QED BY <1>2, <4>1, <4>2
      <3>2. \A i \in 1 .. 3 : temp'[StageOrder[i]] = IF i < 1 THEN tasks' ELSE Absent
        BY <1>3, OrdersCover DEF TempsAbsent
      <3>3. CASE op.kind = "reinstall"
        <4>1. op'.step = "stage" /\ op'.at = 1
          BY <2>1, <2>2, <3>3
        <4>2. /\ file'["disk"] # Absent /\ file'["seed"] # Absent
              /\ file'["disk"] = file'["seed"] /\ domain' = "shut_off"
          BY <1>2, <1>3, <1>5, <3>1
        <4>3. op'.at \in 1 .. 3
          BY <4>1
        <4>4. QED BY <4>1, <4>2, <4>3, <3>2 DEF ReplacementUnderWay
      <3>4. CASE op.kind # "reinstall"
        BY <2>1, <2>2, <3>4 DEF ReplacementUnderWay
      <3>5. QED BY <3>3, <3>4
    <2>6. QED
      BY <1>1, <1>3, <1>5, <2>1, <2>3, <2>4, <2>5, GotoGoesOn DEF UnderWay, KindsAt, Steps
  <1>6. CASE End("failed")
    <2>1. op.kind = "create" => FailedCreateIsRecoverable'
      BY <1>1, <1>3, <1>4, LateFailure
    <2>2. QED BY <1>1, <1>3, <1>6, <2>1, TaskEnds DEF Steps
  <1>7. QED BY <1>5, <1>6 DEF CheckStopped

LEMMA UndefineDomainKeepsInv ==
  ASSUME HostInv, UndefineDomain
  PROVE  HostInv'
  <1>1. op.step = "undefine" /\ op.kind \in {"create", "delete"}
    BY DEF UndefineDomain, At, HostInv, StepsFit, KindsAt, Steps
  <1>2. domain = "shut_off" /\ TempsAbsent
    BY <1>1 DEF HostInv, RemovalUnderWay
  <1>3. /\ UNCHANGED <<dir, file, temp>> /\ TempsAbsent'
        /\ domain' \in {"undefined", "shut_off"}
        /\ NoFault \/ Fault
    BY <1>2 DEF UndefineDomain, disks, TempsAbsent
  <1>4. op.kind = "create" => dir /\ faults > 0
    BY <1>1 DEF HostInv, CreateUnderWay, Steps
  <1>5. ArtifactsKept'
    <2>1. faults' \in 0 .. MaxFaults
      BY <1>3, FaultCount
    <2>2. DiskTypes'
      BY <1>3, <2>1, HostFacts DEF DiskTypes
    <2>3. ArtifactsMatch' /\ DefinedDomainKeepsArtifacts'
      BY <1>2, <1>3 DEF HostInv, ArtifactsMatch, TempsAbsent, DefinedDomainKeepsArtifacts, Live
    <2>4. QED BY <2>2, <2>3 DEF ArtifactsKept
  <1>6. CASE NoFault /\ domain' = "undefined" /\ Goto("remove")
    <2>1. op'.kind = op.kind /\ op'.step = "remove" /\ op'.at = 1 /\ tasks' = tasks
      BY <1>6, Moves DEF Steps
    <2>2. CreateUnderWay'
      BY <1>3, <1>4, <1>6, <2>1 DEF CreateUnderWay, NoFault
    <2>3. RemovalUnderWay' /\ ReplacementUnderWay'
      BY <1>6, <2>1 DEF RemovalUnderWay, ReplacementUnderWay
    <2>4. QED BY <1>1, <1>5, <1>6, <2>2, <2>3, GotoGoesOn DEF UnderWay, KindsAt, Steps
  <1>7. CASE Fault /\ End("failed")
    <2>1. op.kind = "create" => FailedCreateIsRecoverable'
      BY <1>4, <1>7, FaultCount DEF FailedCreateIsRecoverable
    <2>2. QED BY <1>1, <1>5, <1>7, <2>1, TaskEnds DEF Steps
  <1>8. QED BY <1>6, <1>7 DEF UndefineDomain

LEMMA RemoveArtifactKeepsInv ==
  ASSUME HostInv, RemoveArtifact
  PROVE  HostInv'
  <1>1. op.step = "remove" /\ op.kind \in {"create", "delete"} /\ TempsAbsent
    BY DEF RemoveArtifact, At, HostInv, StepsFit, KindsAt, Steps
  <1>2. /\ op.at \in 1 .. 5 /\ domain = "undefined"
        /\ \A i \in 1 .. 5 : i < op.at => file[RemoveOrder[i]] = Absent
    BY <1>1, Orders DEF RemoveArtifact, HostInv, RemovalUnderWay
  <1>3. UNCHANGED <<dir, temp, domain>> /\ TempsAbsent' /\ (NoFault \/ Fault)
    BY <1>1 DEF RemoveArtifact, TempsAbsent
  <1>4. op.kind = "create" => dir /\ faults > 0
    BY <1>1 DEF HostInv, CreateUnderWay, Steps
  <1>5. file \in [Artifacts -> Content] /\ DiskTypes
    BY HostFacts DEF DiskTypes
  <1>6. /\ file' \in [Artifacts -> Content]
        /\ \A a \in Artifacts : file'[a] = file[a] \/ file'[a] = Absent
    BY <1>5 DEF RemoveArtifact, Content
  <1>7. ArtifactsKept'
    <2>1. faults' \in 0 .. MaxFaults
      BY <1>3, FaultCount
    <2>2. DiskTypes'
      BY <1>3, <1>5, <1>6, <2>1 DEF DiskTypes
    <2>3. ArtifactsMatch' /\ DefinedDomainKeepsArtifacts'
      BY <1>2, <1>3 DEF ArtifactsMatch, DefinedDomainKeepsArtifacts, Live
    <2>4. QED BY <2>2, <2>3 DEF ArtifactsKept
  <1>8. CASE NoFault /\ file' = [file EXCEPT ![RemoveOrder[op.at]] = Absent] /\ Advance
    <2>1. op'.kind = op.kind /\ op'.step = "remove" /\ op'.at = op.at + 1 /\ tasks' = tasks
      BY <1>1, <1>8, Moves
    <2>2. CreateUnderWay'
      BY <1>3, <1>4, <1>8, <2>1 DEF CreateUnderWay, NoFault
    <2>3. \A i \in 1 .. 5 : i < op'.at => file'[RemoveOrder[i]] = Absent
      BY <1>2, <1>5, <1>8, <2>1, OrdersCover
    <2>4. RemovalUnderWay' /\ ReplacementUnderWay'
      BY <1>2, <1>3, <2>1, <2>3 DEF RemovalUnderWay, ReplacementUnderWay
    <2>5. QED BY <1>1, <1>2, <1>7, <1>8, <2>2, <2>4, AdvanceGoesOn DEF UnderWay, Steps
  <1>9. CASE Fault /\ End("failed")
    <2>1. op.kind = "create" => FailedCreateIsRecoverable'
      BY <1>4, <1>9, FaultCount DEF FailedCreateIsRecoverable
    <2>2. QED BY <1>1, <1>7, <1>9, <2>1, TaskEnds DEF Steps
  <1>10. QED BY <1>8, <1>9 DEF RemoveArtifact

LEMMA RemoveDirectoryKeepsInv ==
  ASSUME HostInv, RemoveDirectory
  PROVE  HostInv'
  <1>1. op.step = "remove" /\ op.kind \in {"create", "delete"}
    BY DEF RemoveDirectory, At, HostInv, StepsFit, KindsAt, Steps
  <1>2. domain = "undefined" /\ TempsAbsent
    BY <1>1 DEF HostInv, RemovalUnderWay, ArtifactsMatch
  <1>3. op.at = 6 /\ \A i \in 1 .. 5 : i < op.at => file[RemoveOrder[i]] = Absent
    BY <1>1, <1>2, Orders DEF RemoveDirectory, HostInv, RemovalUnderWay
  <1>4. \A a \in Artifacts : file[a] = Absent
    BY <1>3, OrdersCover
  <1>5. UNCHANGED <<file, temp, domain>> /\ TempsAbsent' /\ (NoFault \/ Fault)
    BY <1>2 DEF RemoveDirectory, TempsAbsent
  <1>6. op.kind = "create" => faults > 0
    BY <1>1 DEF HostInv, CreateUnderWay, Steps
  <1>7. ArtifactsKept'
    <2>1. faults' \in 0 .. MaxFaults
      BY <1>5, FaultCount
    <2>2. dir' = dir \/ dir' = FALSE
      BY DEF RemoveDirectory
    <2>3. DiskTypes
      BY HostFacts
    <2>4. DiskTypes'
      <3>1. CASE dir' = dir
        BY <1>4, <1>5, <2>1, <2>3, <3>1 DEF DiskTypes
      <3>2. CASE dir' = FALSE
        BY <1>4, <1>5, <2>1, <2>3, <3>2 DEF DiskTypes
      <3>3. QED BY <2>2, <3>1, <3>2
    <2>5. ArtifactsMatch' /\ DefinedDomainKeepsArtifacts'
      BY <1>2, <1>5 DEF ArtifactsMatch, DefinedDomainKeepsArtifacts, Live
    <2>6. QED BY <2>4, <2>5 DEF ArtifactsKept
  <1>8. FailedCreateIsRecoverable'
    BY <1>2, <1>4, <1>5 DEF FailedCreateIsRecoverable
  <1>9. PICK outcome \in {"succeeded", "failed"} :
          End(outcome) /\ (outcome = "succeeded" => dir' = FALSE)
    BY DEF RemoveDirectory
  <1>10. outcome = "succeeded" => ~dir' /\ domain' = "undefined"
    BY <1>2, <1>5, <1>9
  <1>11. QED BY <1>1, <1>7, <1>8, <1>9, <1>10, TaskEnds DEF Steps

LEMMA StageReplacementKeepsInv ==
  ASSUME HostInv, StageReplacement
  PROVE  HostInv'
  <1> DEFINE a == StageOrder[op.at]
  <1> op.at \in Nat
    BY HostFacts
  <1>1. op.step = "stage" /\ op.kind = "reinstall"
    BY DEF StageReplacement, At, HostInv, StepsFit, KindsAt, Steps
  <1>2. /\ domain = "shut_off" /\ op.at \in 1 .. 3 /\ a \in Replacements
        /\ file["disk"] # Absent /\ file["seed"] # Absent /\ file["disk"] = file["seed"]
        /\ \A i \in 1 .. 3 : temp[StageOrder[i]] = IF i < op.at THEN tasks ELSE Absent
    BY <1>1, OrdersCover DEF HostInv, ReplacementUnderWay
  <1>3. Written(file["disk"]) /\ Written(file["seed"]) /\ Written(file["xml"])
    BY <1>2 DEF HostInv, ArtifactsMatch, DefinedDomainKeepsArtifacts
  <1>4. PICK left \in {Absent, Torn, tasks} : temp' = [temp EXCEPT ![a] = left]
    BY DEF StageReplacement
  <1>5. UNCHANGED <<dir, file, domain>> /\ (NoFault \/ Fault)
    BY DEF StageReplacement
  <1>6. temp \in [Replacements -> Content] /\ DiskTypes
    BY HostFacts DEF DiskTypes
  <1>7. ArtifactsKept'
    <2>1. left \in Content
      BY <1>1, HostFacts DEF Content, Written, Steps
    <2>2. temp' \in [Replacements -> Content]
      BY <1>4, <1>6, <2>1
    <2>3. faults' \in 0 .. MaxFaults
      BY <1>5, FaultCount
    <2>4. DiskTypes'
      BY <1>5, <1>6, <2>2, <2>3 DEF DiskTypes
    <2>5. ArtifactsMatch' /\ DefinedDomainKeepsArtifacts'
      BY <1>2, <1>3, <1>5 DEF ArtifactsMatch, DefinedDomainKeepsArtifacts, Live
    <2>6. QED BY <2>4, <2>5 DEF ArtifactsKept
  <1>8. CASE temp' = [temp EXCEPT ![a] = tasks] /\ op.at < 3 /\ Advance
    <2>1. op'.kind = "reinstall" /\ op'.step = "stage" /\ op'.at = op.at + 1 /\ tasks' = tasks
      BY <1>1, <1>8, Moves
    <2>2. \A i \in 1 .. 3 : temp'[StageOrder[i]] = IF i < op'.at THEN tasks' ELSE Absent
      BY <1>2, <1>6, <1>8, <2>1, OrdersCover
    <2>3. op'.at \in 1 .. 3
      BY <1>2, <1>8, <2>1
    <2>4. ReplacementUnderWay'
      BY <1>2, <1>5, <2>1, <2>2, <2>3 DEF ReplacementUnderWay
    <2>5. CreateUnderWay' /\ RemovalUnderWay'
      BY <2>1 DEF CreateUnderWay, RemovalUnderWay
    <2>6. QED BY <1>1, <1>2, <1>7, <1>8, <2>4, <2>5, AdvanceGoesOn DEF UnderWay, Steps
  <1>9. CASE temp' = [temp EXCEPT ![a] = tasks] /\ ~(op.at < 3) /\ Goto("commit")
    <2>1. op'.kind = "reinstall" /\ op'.step = "commit" /\ op'.at = 1 /\ tasks' = tasks
      BY <1>1, <1>9, Moves DEF Steps
    <2>2. op.at = 3
      BY <1>2, <1>9
    <2>3. \A b \in Replacements : temp'[b] = tasks'
      BY <1>2, <1>6, <1>9, <2>1, <2>2, OrdersCover
    <2>4. ReplacementUnderWay'
      BY <1>2, <1>3, <1>5, <2>1, <2>3 DEF ReplacementUnderWay
    <2>5. CreateUnderWay' /\ RemovalUnderWay'
      BY <2>1 DEF CreateUnderWay, RemovalUnderWay
    <2>6. QED BY <1>1, <1>7, <1>9, <2>4, <2>5, GotoGoesOn DEF UnderWay, KindsAt, Steps
  <1>10. CASE Fault /\ Goto("unstage")
    <2>1. op'.kind = "reinstall" /\ op'.step = "unstage" /\ op'.at = 1
      BY <1>1, <1>10, Moves DEF Steps
    <2>2. ReplacementUnderWay'
      BY <1>2, <1>5, <2>1 DEF ReplacementUnderWay
    <2>3. CreateUnderWay' /\ RemovalUnderWay'
      BY <2>1 DEF CreateUnderWay, RemovalUnderWay
    <2>4. QED BY <1>1, <1>7, <1>10, <2>2, <2>3, GotoGoesOn DEF UnderWay, KindsAt, Steps
  <1>11. QED BY <1>8, <1>9, <1>10, Orders DEF StageReplacement

LEMMA UnstageKeepsInv ==
  ASSUME HostInv, Unstage
  PROVE  HostInv'
  <1> op.at \in Nat
    BY HostFacts
  <1>1. op.step = "unstage" /\ op.kind = "reinstall"
    BY DEF Unstage, At, HostInv, StepsFit, KindsAt, Steps
  <1>2. /\ domain = "shut_off" /\ op.at \in 1 .. 3
        /\ file["disk"] # Absent /\ file["seed"] # Absent /\ file["disk"] = file["seed"]
    BY <1>1 DEF HostInv, ReplacementUnderWay
  <1>3. Written(file["disk"]) /\ Written(file["seed"]) /\ Written(file["xml"])
    BY <1>2 DEF HostInv, ArtifactsMatch, DefinedDomainKeepsArtifacts
  <1>4. UNCHANGED <<dir, file, domain>> /\ (NoFault \/ Fault)
    BY DEF Unstage
  <1>5. ArtifactsKept'
    <2>1. temp' \in [Replacements -> Content]
      BY HostFacts DEF Unstage, DiskTypes, Content
    <2>2. faults' \in 0 .. MaxFaults
      BY <1>4, FaultCount
    <2>3. DiskTypes'
      BY <1>4, <2>1, <2>2, HostFacts DEF DiskTypes
    <2>4. ArtifactsMatch' /\ DefinedDomainKeepsArtifacts'
      BY <1>2, <1>3, <1>4 DEF ArtifactsMatch, DefinedDomainKeepsArtifacts, Live
    <2>5. QED BY <2>3, <2>4 DEF ArtifactsKept
  <1>6. CASE op.at < 3 /\ Advance
    <2>1. op'.kind = "reinstall" /\ op'.step = "unstage" /\ op'.at = op.at + 1
      BY <1>1, <1>6, Moves
    <2>2. op'.at \in 1 .. 3
      BY <1>2, <1>6, <2>1
    <2>3. ReplacementUnderWay'
      BY <1>2, <1>4, <2>1, <2>2 DEF ReplacementUnderWay
    <2>4. CreateUnderWay' /\ RemovalUnderWay'
      BY <2>1 DEF CreateUnderWay, RemovalUnderWay
    <2>5. QED BY <1>1, <1>2, <1>5, <1>6, <2>3, <2>4, AdvanceGoesOn DEF UnderWay, Steps
  <1>7. CASE End("failed")
    BY <1>1, <1>5, <1>7, TaskEnds DEF Steps
  <1>8. QED BY <1>6, <1>7, Orders DEF Unstage

LEMMA CommitReplacementKeepsInv ==
  ASSUME HostInv, CommitReplacement
  PROVE  HostInv'
  <1> DEFINE a == CommitOrder[op.at]
  <1> op.at \in Nat
    BY HostFacts
  <1>1. op.step = "commit" /\ op.kind = "reinstall"
    BY DEF CommitReplacement, At, HostInv, StepsFit, KindsAt, Steps
  <1>2. /\ domain = "shut_off" /\ op.at \in {1, 2, 3}
        /\ \/ /\ op.at = 1
              /\ \A b \in Replacements : temp[b] = tasks
              /\ Written(file["seed"]) /\ file["disk"] \in {file["seed"], Absent}
           \/ /\ op.at = 2
              /\ file["disk"] = tasks /\ temp["seed"] = tasks
              /\ Written(file["seed"]) \/ file["seed"] = Absent
           \/ /\ op.at = 3
              /\ file["disk"] = tasks /\ file["seed"] = tasks
    BY <1>1 DEF HostInv, ReplacementUnderWay
  <1>3. Written(file["xml"]) /\ Written(tasks) /\ ~Written(Absent)
    BY <1>1, <1>2, HostFacts DEF HostInv, DefinedDomainKeepsArtifacts, Steps
  <1>4. UNCHANGED <<dir, domain>> /\ dir /\ (NoFault \/ Fault)
    <2>1. dir
      BY <1>3, Orders, HostFacts DEF DiskTypes
    <2>2. QED BY <2>1 DEF CommitReplacement
  <1>5. /\ file \in [Artifacts -> Content] /\ temp \in [Replacements -> Content]
        /\ domain \in Live \union {"undefined", "shut_off"}
    BY HostFacts DEF DiskTypes
  <1>6. faults' \in 0 .. MaxFaults
    BY <1>4, FaultCount
  <1>7. CASE NoFault /\ file[a] # Absent /\ file' = [file EXCEPT ![a] = Absent]
               /\ UNCHANGED <<temp, op, inventory>>
    <2>1. DiskTypes'
      BY <1>4, <1>5, <1>6, <1>7 DEF DiskTypes, Content
    <2>2. /\ file'["xml"] = file["xml"]
          /\ \/ op.at = 1 /\ file'["disk"] = Absent /\ file'["seed"] = file["seed"]
             \/ op.at = 2 /\ file'["disk"] = file["disk"] /\ file'["seed"] = Absent
             \/ op.at = 3 /\ file'["disk"] = file["disk"] /\ file'["seed"] = file["seed"]
      BY <1>2, <1>5, <1>7, Orders
    <2>3. temp' = temp /\ tasks' = tasks /\ op' = op
      BY <1>7 DEF inventory
    <2>4. ReplacementUnderWay'
      BY <1>1, <1>2, <1>4, <2>2, <2>3 DEF ReplacementUnderWay
    <2>5. ArtifactsMatch' /\ DefinedDomainKeepsArtifacts'
      BY <1>2, <1>3, <1>4, <2>2, <2>3, Orders
         DEF ArtifactsMatch, DefinedDomainKeepsArtifacts, Live
    <2>6. CreateUnderWay' /\ RemovalUnderWay'
      BY <1>1, <2>3 DEF CreateUnderWay, RemovalUnderWay
    <2>7. op' = [op EXCEPT !.step = op.step, !.at = op.at] /\ UNCHANGED inventory
      BY <1>7, HostFacts
    <2>8. op.kind \in KindsAt(op.step) /\ op.at \in 0 .. 6
      BY <1>1, HostFacts DEF HostInv, StepsFit, Steps
    <2>9. QED
      BY <1>1, <2>1, <2>4, <2>5, <2>6, <2>7, <2>8, TaskGoesOn DEF UnderWay, ArtifactsKept, Steps
  <1>8. CASE NoFault /\ file[a] = Absent /\ file' = [file EXCEPT ![a] = temp[a]]
               /\ temp' = [temp EXCEPT ![a] = Absent]
               /\ IF op.at < 3 THEN Advance ELSE Goto("start")
    <2>1. DiskTypes'
      <3>1. a \in Replacements /\ a \in Artifacts
        BY <1>2, Orders
      <3>2. temp[a] \in Content /\ Absent \in Content
        BY <1>5, <3>1 DEF Content
      <3>3. QED BY <1>4, <1>5, <1>6, <1>8, <3>1, <3>2 DEF DiskTypes
    <2>2. /\ file'["xml"] = file["xml"]
          /\ \/ /\ op.at = 1
                /\ file'["disk"] = tasks /\ file'["seed"] = file["seed"] /\ temp'["seed"] = tasks
             \/ op.at = 2 /\ file'["disk"] = tasks /\ file'["seed"] = tasks
             \/ op.at = 3 /\ file'["disk"] = tasks /\ file'["seed"] = tasks
      BY <1>2, <1>5, <1>8, Orders
    <2>3. ArtifactsMatch' /\ DefinedDomainKeepsArtifacts'
      BY <1>2, <1>3, <1>4, <2>2 DEF ArtifactsMatch, DefinedDomainKeepsArtifacts, Live
    <2>4. CASE op.at < 3
      <3>1. op'.kind = "reinstall" /\ op'.step = "commit" /\ op'.at = op.at + 1 /\ tasks' = tasks
        BY <1>1, <1>8, <2>4, Moves
      <3>2. op'.at \in 1 .. 3
        BY <1>2, <2>4, <3>1
      <3>3. Written(file["seed"]) \/ op.at # 1
        BY <1>2
      <3>4. ReplacementUnderWay'
        BY <1>2, <1>4, <2>2, <2>4, <3>1, <3>2, <3>3 DEF ReplacementUnderWay
      <3>5. CreateUnderWay' /\ RemovalUnderWay'
        BY <3>1 DEF CreateUnderWay, RemovalUnderWay
      <3>6. QED
        BY <1>1, <1>8, <2>1, <2>3, <2>4, <3>4, <3>5, AdvanceGoesOn
           DEF UnderWay, ArtifactsKept, Steps
    <2>5. CASE ~(op.at < 3)
      <3>1. op'.kind = "reinstall" /\ op'.step = "start" /\ op'.at = 1
        BY <1>1, <1>8, <2>5, Moves DEF Steps
      <3>2. file'["disk"] # Absent /\ file'["seed"] # Absent
        BY <1>3, <2>2, <2>5
      <3>3. UnderWay'
        BY <3>1, <3>2 DEF UnderWay, CreateUnderWay, RemovalUnderWay, ReplacementUnderWay
      <3>4. QED
        BY <1>1, <1>8, <2>1, <2>3, <2>5, <3>3, GotoGoesOn DEF ArtifactsKept, KindsAt, Steps
    <2>6. QED BY <2>4, <2>5
  <1>9. CASE Fault /\ UNCHANGED <<file, temp>> /\ End("failed")
    <2>1. ArtifactsKept'
      BY <1>4, <1>9, DisksKept DEF disks
    <2>2. QED BY <1>1, <1>9, <2>1, TaskEnds DEF Steps
  <1>10. QED BY <1>7, <1>8, <1>9, Orders DEF CommitReplacement

-----------------------------------------------------------------------------
(* The invariant, and what follows from it.                                *)

(* HostInv is inductive: it holds of a host the master has never asked for *)
(* anything, and no step of the master, the executor, the guest, and no    *)
(* kill of the agent (agent/src/libvirt/mod.rs) breaks it.                 *)
THEOREM HostInvAlways == HostSpec => []HostInv
  <1>1. HostInit => HostInv
    <2> SUFFICES ASSUME HostInit PROVE HostInv
      OBVIOUS
    <2>1. HostTypeOK
      <3>1. op \in [kind: Kinds, step: Steps \union Ended \union {"queued", "killed"}, at: 0 .. 6]
        BY DEF HostInit, Kinds, Ended
      <3>2. /\ file \in [Artifacts -> Content] /\ \A a \in Artifacts : file[a] = Absent
            /\ temp \in [Replacements -> Content]
        BY DEF HostInit, Content
      <3>3. held \in 0 .. MaxTasks /\ tasks \in 0 .. MaxTasks /\ faults \in 0 .. MaxFaults
        BY HostAssumption DEF HostInit
      <3>4. retriable \in BOOLEAN /\ dir \in BOOLEAN
        BY DEF HostInit
      <3>5. QED BY <3>1, <3>2, <3>3, <3>4 DEF HostInit, HostTypeOK, Live
    <2>2. StepsFit /\ DeletedLeavesNothing /\ FailedCreateIsRecoverable
      BY DEF HostInit, StepsFit, DeletedLeavesNothing, FailedCreateIsRecoverable, Steps
    <2>3. UnderWay
      BY DEF HostInit, UnderWay, CreateUnderWay, RemovalUnderWay, ReplacementUnderWay, Steps
    <2>4. ArtifactsMatch /\ DefinedDomainKeepsArtifacts
      BY DEF HostInit, ArtifactsMatch, TempsAbsent, DefinedDomainKeepsArtifacts, Live
    <2>5. QED BY <2>1, <2>2, <2>3, <2>4 DEF HostInv, UnderWay
  <1>2. HostInv /\ [HostNext]_hostVars => HostInv'
    <2> SUFFICES ASSUME HostInv, [HostNext]_hostVars PROVE HostInv'
      OBVIOUS
    <2>1. CASE \E kind \in Kinds : Queue(kind)
      BY <2>1, QueueKeepsInv
    <2>2. CASE Cancel
      BY <2>2, CancelKeepsInv
    <2>3. CASE BeginCreate \/ BeginAction
      BY <2>3, BeginCreateKeepsInv, BeginActionKeepsInv
    <2>4. CASE WriteArtifact \/ DefineDomain \/ CheckAbsent
      BY <2>4, WriteArtifactKeepsInv, DefineDomainKeepsInv, CheckAbsentKeepsInv
    <2>5. CASE \/ StartDomain \/ Await("await_running", "running")
               \/ RequestPower("shutdown", "await_shut_off") \/ Await("await_shut_off", "shut_off")
               \/ RequestPower("reboot", "await_running")
      BY <2>5, StartDomainKeepsInv, AwaitKeepsInv, RequestPowerKeepsInv
    <2>6. CASE DestroyDomain \/ CheckStopped \/ UndefineDomain
      BY <2>6, DestroyDomainKeepsInv, CheckStoppedKeepsInv, UndefineDomainKeepsInv
    <2>7. CASE RemoveArtifact \/ RemoveDirectory
      BY <2>7, RemoveArtifactKeepsInv, RemoveDirectoryKeepsInv
    <2>8. CASE StageReplacement \/ Unstage \/ CommitReplacement
      BY <2>8, StageReplacementKeepsInv, UnstageKeepsInv, CommitReplacementKeepsInv
    <2>9. CASE Killed \/ GuestPowersOff \/ GuestPauses
      BY <2>9, KilledKeepsInv, GuestKeepsInv
    <2>10. CASE UNCHANGED hostVars
      <3>1. UNCHANGED <<status, held, retriable, tasks, op, dir, file, temp, domain, faults>>
        BY <2>10 DEF hostVars, inventory, disks
      <3>2. HostTypeOK' /\ StepsFit' /\ ArtifactsMatch' /\ DefinedDomainKeepsArtifacts'
        BY <3>1 DEF HostInv, HostTypeOK, StepsFit, ArtifactsMatch, TempsAbsent,
                    DefinedDomainKeepsArtifacts
      <3>3. CreateUnderWay' /\ RemovalUnderWay' /\ ReplacementUnderWay'
        BY <3>1 DEF HostInv, CreateUnderWay, RemovalUnderWay, ReplacementUnderWay, TempsAbsent
      <3>4. DeletedLeavesNothing' /\ FailedCreateIsRecoverable'
        BY <3>1 DEF HostInv, DeletedLeavesNothing, FailedCreateIsRecoverable, Verified,
                    TempsAbsent
      <3>5. QED BY <3>2, <3>3, <3>4 DEF HostInv
    <2>11. QED
      BY <2>1, <2>2, <2>3, <2>4, <2>5, <2>6, <2>7, <2>8, <2>9, <2>10 DEF HostNext, ExecutorStep
  <1>3. QED BY <1>1, <1>2, PTL DEF HostSpec

(* The executor, the inventory and the files keep their types.             *)
THEOREM HostTypesAlways == HostSpec => []HostTypeOK
  <1>1. HostInv => HostTypeOK
    BY DEF HostInv
  <1>2. QED BY <1>1, HostInvAlways, PTL

(* A VM that runs has a whole disk and the seed ISO that was made with it, *)
(* or the replacement of that seed ISO at hand                             *)
(* (commit_reinstall_artifacts).                                           *)
THEOREM RunningVmIsWholeAlways == HostSpec => []RunningVmIsWhole
  <1>1. HostInv => RunningVmIsWhole
    BY DEF HostInv, ArtifactsMatch, RunningVmIsWhole, Live
  <1>2. QED BY <1>1, HostInvAlways, PTL

(* Nothing is deleted that libvirt still owns: create and delete clean up  *)
(* after undefine only, reinstall stages all replacements first.           *)
THEOREM DefinedDomainKeepsArtifactsAlways == HostSpec => []DefinedDomainKeepsArtifacts
  <1>1. HostInv => DefinedDomainKeepsArtifacts
    BY DEF HostInv
  <1>2. QED BY <1>1, HostInvAlways, PTL

(* A VM the inventory calls deleted has neither a directory nor a domain   *)
(* nor an address (delete_vm, apply_task_status_in_tx).                    *)
THEOREM DeletedLeavesNothingAlways == HostSpec => []DeletedLeavesNothing
  <1>1. HostInv => DeletedLeavesNothing
    BY DEF HostInv
  <1>2. QED BY <1>1, HostInvAlways, PTL

(* One fault does not make a failed creation a host an operator has to     *)
(* clean up by hand (create_vm and its cleanup).                           *)
THEOREM FailedCreateIsRecoverableAlways == HostSpec => []FailedCreateIsRecoverable
  <1>1. HostInv => FailedCreateIsRecoverable
    BY DEF HostInv
  <1>2. QED BY <1>1, HostInvAlways, PTL

(* The executor does not touch the files of a VM that runs: every step     *)
(* that writes or removes one comes when domstate has said shut off, or    *)
(* before the domain is defined.                                           *)
THEOREM RunningDiskUntouchedAlways == HostSpec => RunningDiskUntouched
  <1>1. HostInv /\ [HostNext]_hostVars => [(domain \in Live) => UNCHANGED file]_hostVars
    <2> SUFFICES ASSUME HostInv, HostNext, domain \in Live PROVE UNCHANGED file
      OBVIOUS
    <2>1. domain # "undefined" /\ domain # "shut_off"
      BY DEF Live
    <2>2. /\ op.step \notin {"remove", "commit"}
          /\ ~(op.step = "write" /\ op.kind = "create")
      BY <2>1 DEF HostInv, RemovalUnderWay, ReplacementUnderWay, CreateUnderWay, Steps
    <2>3. op.step # "write"
      BY <2>2 DEF HostInv, StepsFit, KindsAt, Steps
    <2>4. ~WriteArtifact /\ ~RemoveArtifact /\ ~RemoveDirectory /\ ~CommitReplacement
      BY <2>2, <2>3 DEF WriteArtifact, RemoveArtifact, RemoveDirectory, CommitReplacement, At
    <2>5. CASE ExecutorStep
      BY <2>4, <2>5 DEF ExecutorStep, BeginCreate, BeginAction, DefineDomain, CheckAbsent,
        StartDomain, Await, RequestPower, DestroyDomain, CheckStopped, UndefineDomain,
        StageReplacement, Unstage, disks
    <2>6. CASE (\E kind \in Kinds : Queue(kind)) \/ Cancel \/ Killed \/ GuestPowersOff \/ GuestPauses
      BY <2>6 DEF Queue, Cancel, Killed, GuestPowersOff, GuestPauses, disks
    <2>7. QED BY <2>5, <2>6 DEF HostNext
  <1>2. QED BY <1>1, HostInvAlways, PTL DEF HostSpec, RunningDiskUntouched

-----------------------------------------------------------------------------
(* The address.                                                            *)

LEMMA EndsKeepAddress ==
  ASSUME HostInv, AddressKept, op.step \in Steps \union {"queued"},
         NEW outcome \in {"succeeded", "failed", "canceled"}, End(outcome),
         domain' # "undefined" => domain # "undefined" /\ file'["net"] = file["net"],
         outcome = "succeeded" /\ op.kind = "delete" => domain' = "undefined"
  PROVE  AddressKept'
  <1>1. op.kind \in Kinds /\ status \in VmStatuses /\ op.step # "none"
    BY DEF HostInv, HostTypeOK, AddressKept, Steps
  <1>2. status' \in VmStatuses
    <2>1. NextVmStatus(op.kind, outcome) \in VmStatuses \union {NoChange}
      BY <1>1, StatusRules
    <2>2. QED BY <1>1, <2>1 DEF End
  <1>3. status' # "absent"
    BY <1>2 DEF VmStatuses, Committed
  <1>4. op'.step = outcome
    BY DEF End, HostInv, HostTypeOK
  <1>5. DefinedVmHoldsAddress'
    <2> SUFFICES ASSUME domain' # "undefined", ~retriable' PROVE held' = file'["net"]
      BY DEF DefinedVmHoldsAddress
    <2>1. ~(op.kind = "create" /\ outcome \in Unsuccessful)
      BY DEF End
    <2>2. ~ReleasesAddress(op.kind, outcome)
      BY <2>1 DEF ReleasesAddress
    <2>3. held' = held /\ ~retriable
      BY <2>2 DEF End
    <2>4. QED BY <2>3 DEF AddressKept, DefinedVmHoldsAddress
  <1>6. QED BY <1>3, <1>4, <1>5 DEF AddressKept, Steps

(* A step that ends no task and queues none.                               *)
LEMMA AddressUntouched ==
  ASSUME HostInv, AddressKept, UNCHANGED inventory, op.step # "none",
         op'.kind = op.kind, op'.step # "none",
         op'.step \in Steps \union {"queued"} => op.step \in Steps \union {"queued"},
         domain' # "undefined" => domain # "undefined" /\ file'["net"] = file["net"]
  PROVE  AddressKept'
  BY DEF AddressKept, DefinedVmHoldsAddress, inventory

LEMMA AddressStep ==
  ASSUME HostInv, AddressKept, [HostNext]_hostVars
  PROVE  AddressKept'
  <1> DEFINE Same == domain' # "undefined" => domain # "undefined" /\ file'["net"] = file["net"]
  <1>1. op = [kind |-> op.kind, step |-> op.step, at |-> op.at] /\ "net" \in Artifacts
    BY Orders DEF HostInv, HostTypeOK
  <1>2. ASSUME op.step \in Steps \union {"queued"}, Same, NEW step \in Steps, Goto(step) \/ Advance
        PROVE  AddressKept'
    <2>1. op'.kind = op.kind /\ op'.step \in Steps \union {"queued"} /\ UNCHANGED inventory
      BY <1>1, <1>2 DEF Goto, Advance
    <2>2. QED BY <1>2, <2>1, AddressUntouched DEF Steps
  <1>3. ASSUME op.step \in Steps \union {"queued"}, Same, End("failed")
        PROVE  AddressKept'
    BY <1>3, EndsKeepAddress
  <1>4. CASE UNCHANGED hostVars
    BY <1>4 DEF hostVars, inventory, disks, AddressKept, DefinedVmHoldsAddress
  <1>5. ASSUME NEW kind \in Kinds, Queue(kind) PROVE AddressKept'
    <2>1. /\ op' = [kind |-> kind, step |-> "queued", at |-> 0] /\ UNCHANGED <<retriable, file, domain>>
          /\ held' = (IF kind = "create" THEN tasks + 1 ELSE held) /\ tasks' = tasks + 1
          /\ status' = QueuedStatus(kind, status)
      BY <1>5 DEF Queue, disks
    <2>2. kind # "create" => status # "absent"
      BY <1>5 DEF Queue, ActionAllowed
    <2>3. status' # "absent"
      BY <2>1, <2>2 DEF QueuedStatus
    <2>4. kind = "create" => domain = "undefined" \/ retriable
      BY <1>5 DEF Queue, AddressKept
    <2>5. DefinedVmHoldsAddress'
      BY <2>1, <2>4 DEF DefinedVmHoldsAddress, AddressKept
    <2>6. QED BY <2>1, <2>3, <2>5 DEF AddressKept
  <1>6. CASE Cancel
    BY <1>6, EndsKeepAddress DEF Cancel, disks
  <1>7. CASE BeginCreate \/ BeginAction
    <2>1. Same /\ op.step = "queued"
      BY <1>7 DEF BeginCreate, BeginAction, disks, At
    <2>2. FirstStep(op.kind) \in Steps \/ ~BeginAction
      BY DEF BeginAction, HostInv, HostTypeOK, FirstStep, Steps, Kinds, ActionKinds
    <2>3. QED BY <1>2, <1>3, <1>7, <2>1, <2>2 DEF BeginCreate, BeginAction, Steps
  <1>8. CASE WriteArtifact
    <2>1. op.step = "write" /\ op.kind = "create"
      BY <1>8 DEF WriteArtifact, At, HostInv, StepsFit, KindsAt, Steps
    <2>2. Same
      BY <1>8, <2>1 DEF WriteArtifact, HostInv, CreateUnderWay, Steps
    <2>3. QED BY <1>2, <1>3, <1>8, <2>1, <2>2 DEF WriteArtifact, Steps
  <1>9. CASE DefineDomain
    <2>1. op.step = "define" /\ op.kind = "create"
      BY <1>9 DEF DefineDomain, At, HostInv, StepsFit, KindsAt, Steps
    <2>2. file["net"] = tasks /\ held = tasks
      BY <1>1, <2>1 DEF HostInv, CreateUnderWay, AddressKept, Steps
    <2>3. op'.step \in Steps /\ UNCHANGED <<inventory, file>>
      BY <1>1, <1>9 DEF DefineDomain, Goto, disks, Steps
    <2>4. op'.kind = op.kind /\ status # "absent"
      BY <1>1, <1>9, <2>1 DEF DefineDomain, Goto, AddressKept
    <2>5. status' = status /\ held' = tasks' /\ held' = file'["net"]
      BY <2>2, <2>3 DEF inventory
    <2>6. DefinedVmHoldsAddress'
      BY <2>5 DEF DefinedVmHoldsAddress
    <2>7. status' # "absent"
      BY <2>4, <2>5
    <2>8. QED BY <2>5, <2>6, <2>7 DEF AddressKept
  <1>10. CASE CheckAbsent \/ CheckStopped \/ UndefineDomain \/ DestroyDomain
    <2>1. op.step \in Steps /\ Same
      BY <1>10 DEF CheckAbsent, CheckStopped, UndefineDomain, DestroyDomain, At, disks, Live, Steps
    <2>2. AfterStopped \in Steps
      BY DEF AfterStopped, Steps
    <2>3. QED BY <1>2, <1>3, <1>10, <2>1, <2>2
      DEF CheckAbsent, CheckStopped, UndefineDomain, DestroyDomain, Steps
  <1>11. CASE StartDomain
    <2>1. op.step = "start" /\ op.step \in Steps /\ Same
      BY <1>11 DEF StartDomain, At, disks, Steps
    <2>2. QED BY <1>2, <1>3, <1>11, <2>1 DEF StartDomain, Steps
  <1>12. ASSUME NEW step \in {"await_running", "await_shut_off"}, NEW state, Await(step, state)
         PROVE  AddressKept'
    <2>1. op.step = step /\ op.step \in Steps /\ Same /\ op.kind # "delete"
      BY <1>12 DEF Await, At, disks, Steps, HostInv, StepsFit, KindsAt
    <2>2. End("succeeded") \/ End("failed")
      BY <1>12 DEF Await
    <2>3. QED BY <2>1, <2>2, EndsKeepAddress
  <1>13. ASSUME NEW step \in {"shutdown", "reboot"}, NEW next \in {"await_running", "await_shut_off"},
                RequestPower(step, next)
         PROVE  AddressKept'
    <2>1. op.step \in Steps /\ Same /\ next \in Steps
      BY <1>13 DEF RequestPower, At, disks, Steps
    <2>2. QED BY <1>2, <1>3, <1>13, <2>1 DEF RequestPower
  <1>14. CASE RemoveArtifact \/ RemoveDirectory
    <2>1. op.step = "remove" /\ domain = "undefined" /\ domain' = "undefined"
      BY <1>14 DEF RemoveArtifact, RemoveDirectory, At, HostInv, RemovalUnderWay
    <2>2. op.step \in Steps /\ Same
      BY <2>1 DEF Steps
    <2>3. CASE Advance
      BY <1>2, <2>2, <2>3
    <2>4. CASE End("succeeded") \/ End("failed")
      BY <2>1, <2>2, <2>4, EndsKeepAddress
    <2>5. QED BY <1>14, <2>3, <2>4 DEF RemoveArtifact, RemoveDirectory
  <1>15. CASE StageReplacement \/ Unstage
    <2>1. op.step \in Steps /\ Same
      BY <1>15 DEF StageReplacement, Unstage, At, Steps
    <2>2. QED BY <1>2, <1>3, <1>15, <2>1 DEF StageReplacement, Unstage, Steps
  <1>16. CASE CommitReplacement
    <2>1. op.step = "commit" /\ op.step \in Steps
      BY <1>16 DEF CommitReplacement, At, Steps
    <2>2. op.at \in 1 .. 3 /\ CommitOrder[op.at] # "net"
      <3>1. op.at \in 1 .. 3
        BY <2>1 DEF HostInv, ReplacementUnderWay
      <3>2. CommitOrder[op.at] \in Replacements
        BY <3>1, OrdersCover
      <3>3. QED BY <3>1, <3>2, Orders
    <2>3. Same
      BY <1>1, <1>16, <2>2 DEF CommitReplacement, HostInv, HostTypeOK
    <2>4. CASE UNCHANGED <<op, inventory>>
      BY <2>1, <2>3, <2>4, AddressUntouched DEF Steps
    <2>5. QED BY <1>2, <1>3, <1>16, <2>1, <2>3, <2>4 DEF CommitReplacement, Steps
  <1>17. CASE Killed
    <2>1. op'.kind = op.kind /\ op'.step = "killed" /\ op.step \in Steps
      BY <1>1, <1>17 DEF Killed
    <2>2. QED BY <1>17, <2>1, AddressUntouched DEF Killed, disks, Steps
  <1>18. CASE GuestPowersOff \/ GuestPauses
    BY <1>18 DEF GuestPowersOff, GuestPauses, AddressKept, DefinedVmHoldsAddress, disks, inventory
  <1>19. QED
    BY <1>4, <1>5, <1>6, <1>7, <1>8, <1>9, <1>10, <1>11, <1>12, <1>13, <1>14, <1>15, <1>16,
       <1>17, <1>18
    DEF HostNext, ExecutorStep

(* Only a creation that is reported failed, or canceled, takes its address *)
(* from a VM that libvirt knows (apply_task_status_in_tx, release_ip): no  *)
(* other task does, wherever it fails or the agent is killed.              *)
THEOREM DefinedVmHoldsAddressAlways == HostSpec => []DefinedVmHoldsAddress
  <1>1. HostInit => AddressKept
    BY DEF HostInit, AddressKept, DefinedVmHoldsAddress, Steps
  <1>2. AddressKept => DefinedVmHoldsAddress
    BY DEF AddressKept
  <1>3. QED BY <1>1, <1>2, AddressStep, HostInvAlways, PTL DEF HostSpec
=============================================================================
