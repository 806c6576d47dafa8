---------------------------- MODULE MasterProofs ----------------------------
(***************************************************************************)
(* What TLAPS proves of Master, for every value of its constants.          *)
(*                                                                         *)
(* Linked is the inductive invariant behind everything: without it a       *)
(* handler could write through a dangling last_task_id or insert over a    *)
(* finished task.  The theorems of the second part are about masters whose *)
(* admissions do not overlap (OneOperator); SerialInv is their inductive   *)
(* invariant.                                                              *)
(***************************************************************************)
EXTENDS Master, TLAPS

-----------------------------------------------------------------------------
(* The operators of the model.                                             *)

(* next_vm_status yields a VM status whenever it yields anything, and      *)
(* always does so when the address is released.                            *)
LEMMA NextVmStatusType ==
  ASSUME NEW kind \in Kinds, NEW status \in TaskStatuses
  PROVE  /\ NextVmStatus(kind, status) \in VmStatuses \union {NoChange}
         /\ ReleasesAddress(kind, status) => NextVmStatus(kind, status) # NoChange
  BY DEF NextVmStatus, ReleasesAddress, NoChange, Kinds, ActionKinds, TaskStatuses,
         Active, Terminal, Unsuccessful, VmStatuses, Committed

(* A row that exists is a full row.                                        *)
LEMMA ExistingTask ==
  ASSUME TypeOK, NEW t \in TaskIds
  PROVE  Exists(t) <=> task[t] \in Task
  BY DEF TypeOK, Exists, Task, AbsentTask, TaskStatuses, Active, Terminal, Unsuccessful

LEMMA ExistingVm ==
  ASSUME TypeOK, NEW v \in Vms
  PROVE  VmExists(v) <=> vm[v] \in Vm
  BY DEF TypeOK, VmExists, Vm, AbsentVm, VmStatuses, Committed

LEMMA OpenTxType ==
  ASSUME TypeOK, NEW op \in Operators
  PROVE  /\ Open(op) => tx[op] \in OpenTx
         /\ ~Open(op) => tx[op] = NoTx
  BY NullAssumption DEF TypeOK, Open, OpenTx, NoTx

-----------------------------------------------------------------------------
(* The two effects that write tasks and VMs.                               *)

(* Inserting a task keeps the rows typed and linked.                       *)
LEMMA InsertTaskLinks ==
  ASSUME Linked,
         NEW t \in TaskIds, ~Exists(t), NEW kind \in Kinds, NEW v \in Vms, NEW n \in Nodes,
         VmExists(v) \/ kind = "create",
         InsertTask(t, kind, v, n)
  PROVE  /\ task' \in [TaskIds -> Task \union {AbsentTask}]
         /\ vm' \in [Vms -> Vm \union {AbsentVm}]
         /\ alloc' \in [Addrs -> Allocation \union {Free}]
         /\ RowsLinked'
         /\ \A u \in TaskIds : Exists(u)' <=> Exists(u) \/ u = t
         /\ \A u \in TaskIds : u # t => task'[u] = task[u]
         /\ \A w \in Vms : VmExists(w) => VmExists(w)'
  <1>1. PICK ip \in Addrs \union {NoAddr} :
          /\ task' = [task EXCEPT ![t] = [kind |-> kind, vm |-> v, node |-> n,
                                          status |-> "pending", ip |-> ip]]
          /\ alloc' = IF ip = NoAddr THEN alloc
                      ELSE [alloc EXCEPT ![ip] = [vm |-> v, task |-> t]]
          /\ vm' = [vm EXCEPT ![v] =
                      [status   |-> QueuedStatus(kind, vm[v].status),
                       node     |-> n,
                       lastTask |-> t,
                       ip       |-> IF ip # NoAddr \/ ~VmExists(v) THEN ip
                                    ELSE vm[v].ip]]
    BY DEF InsertTask, Enqueue
  <1> DEFINE newTask == [kind |-> kind, vm |-> v, node |-> n, status |-> "pending", ip |-> ip]
             newVm == [status   |-> QueuedStatus(kind, vm[v].status),
                       node     |-> n,
                       lastTask |-> t,
                       ip       |-> IF ip # NoAddr \/ ~VmExists(v) THEN ip ELSE vm[v].ip]
  <1>2. newTask \in Task
    BY DEF Task, TaskStatuses, Active
  <1>3. QueuedStatus(kind, vm[v].status) \in VmStatuses
    <2>1. CASE kind \in {"create", "reinstall", "delete"}
      BY <2>1 DEF QueuedStatus, VmStatuses, Committed
    <2>2. CASE kind \notin {"create", "reinstall", "delete"}
      <3>1. vm[v] \in Vm
        BY <2>2, ExistingVm DEF Linked
      <3>2. QED
        BY <2>2, <3>1 DEF QueuedStatus, Vm
    <2>3. QED BY <2>1, <2>2
  <1>4. newVm \in Vm
    <2>1. VmExists(v) => vm[v].ip \in Addrs \union {NoAddr}
      BY ExistingVm DEF Linked, Vm
    <2>2. QED BY <1>3, <2>1 DEF Vm
  <1>5. /\ task' \in [TaskIds -> Task \union {AbsentTask}]
        /\ \A u \in TaskIds : task'[u] = IF u = t THEN newTask ELSE task[u]
    BY <1>1, <1>2 DEF Linked, TypeOK
  <1>6. /\ vm' \in [Vms -> Vm \union {AbsentVm}]
        /\ \A w \in Vms : vm'[w] = IF w = v THEN newVm ELSE vm[w]
    BY <1>1, <1>4 DEF Linked, TypeOK
  <1>7. alloc' \in [Addrs -> Allocation \union {Free}]
    BY <1>1 DEF Linked, TypeOK, Allocation
  <1>8. \A u \in TaskIds : Exists(u)' <=> Exists(u) \/ u = t
    BY <1>5 DEF Exists
  <1>9. \A w \in Vms : VmExists(w)' <=> VmExists(w) \/ w = v
    <2>1. newVm.status # "absent"
      BY <1>3 DEF VmStatuses, Committed
    <2>2. QED BY <1>6, <2>1 DEF VmExists
  <1>10. RowsLinked'
    <2>1. ASSUME NEW w \in Vms, VmExists(w)'
          PROVE  Exists(vm[w].lastTask)' /\ (task[vm[w].lastTask].vm)' = w
      <3>1. CASE w = v
        BY <3>1, <1>5, <1>6 DEF Exists
      <3>2. CASE w # v
        <4>1. VmExists(w) /\ vm'[w] = vm[w]
          BY <3>2, <2>1, <1>6, <1>9
        <4>2. vm[w].lastTask \in TaskIds
          BY <4>1, ExistingVm DEF Linked, Vm
        <4>3. Exists(vm[w].lastTask) /\ task[vm[w].lastTask].vm = w
          BY <4>1 DEF Linked, RowsLinked
        <4>4. vm[w].lastTask # t
          BY <4>3
        <4>5. QED BY <4>1, <4>2, <4>3, <4>4, <1>5 DEF Exists
      <3>3. QED BY <3>1, <3>2
    <2>2. ASSUME NEW u \in TaskIds, Exists(u)'
          PROVE  VmExists(task[u].vm)'
      <3>1. CASE u = t
        BY <3>1, <1>5, <1>9
      <3>2. CASE u # t
        <4>1. Exists(u) /\ task'[u] = task[u]
          BY <3>2, <2>2, <1>5, <1>8
        <4>2. task[u].vm \in Vms
          BY <4>1, ExistingTask DEF Linked, Task
        <4>3. VmExists(task[u].vm)
          BY <4>1 DEF Linked, RowsLinked
        <4>4. QED BY <4>1, <4>2, <4>3, <1>9
      <3>3. QED BY <3>1, <3>2
    <2>3. QED BY <2>1, <2>2 DEF RowsLinked
  <1>11. QED BY <1>5, <1>6, <1>7, <1>8, <1>9, <1>10

(* Moving a task to a status, with all that apply_task_status_in_tx does,  *)
(* keeps the rows typed and linked.                                        *)
LEMMA ApplyTaskStatusLinks ==
  ASSUME Linked,
         NEW t \in TaskIds, Exists(t), NEW status \in TaskStatuses,
         task' = [task EXCEPT ![t].status = status],
         ApplyTaskStatus(t, status)
  PROVE  /\ task' \in [TaskIds -> Task \union {AbsentTask}]
         /\ vm' \in [Vms -> Vm \union {AbsentVm}]
         /\ alloc' \in [Addrs -> Allocation \union {Free}]
         /\ RowsLinked'
         /\ \A u \in TaskIds : Exists(u)' <=> Exists(u)
         /\ \A u \in TaskIds : u # t => task'[u] = task[u]
         /\ \A w \in Vms : VmExists(w)' <=> VmExists(w)
  <1> DEFINE v == task[t].vm
             next == NextVmStatus(task[t].kind, status)
             released == ReleasesAddress(task[t].kind, status)
  <1>1. task[t] \in Task
    BY ExistingTask DEF Linked
  <1>2. v \in Vms /\ VmExists(v) /\ vm[v] \in Vm
    BY <1>1, ExistingVm DEF Linked, RowsLinked, Task
  <1>3. next \in VmStatuses \union {NoChange}
    BY <1>1, NextVmStatusType DEF Task
  <1>4. /\ task' \in [TaskIds -> Task \union {AbsentTask}]
        /\ task'[t] \in Task /\ task'[t].vm = v
        /\ \A u \in TaskIds : u # t => task'[u] = task[u]
    BY <1>1 DEF Linked, TypeOK, Task
  <1>5. \A u \in TaskIds : Exists(u)' <=> Exists(u)
    BY <1>4 DEF Exists, Task, TaskStatuses, Active, Terminal, Unsuccessful
  <1>6. /\ vm' \in [Vms -> Vm \union {AbsentVm}]
        /\ vm'[v] \in Vm
        /\ vm'[v].lastTask \in {t, vm[v].lastTask}
        /\ \A w \in Vms : w # v => vm'[w] = vm[w]
    <2>1. CASE next = NoChange
      <3>1. vm' = vm
        BY <2>1 DEF ApplyTaskStatus
      <3>2. QED BY <3>1, <1>2 DEF Linked, TypeOK
    <2>2. CASE next # NoChange
      <3>1. vm' = [vm EXCEPT ![v].status = next, ![v].lastTask = t,
                             ![v].ip = IF released THEN NoAddr ELSE @]
        BY <2>2 DEF ApplyTaskStatus
      <3>2. next \in VmStatuses
        BY <2>2, <1>3
      <3>3. QED BY <3>1, <3>2, <1>2 DEF Linked, TypeOK, Vm
    <2>3. QED BY <2>1, <2>2
  <1>7. alloc' \in [Addrs -> Allocation \union {Free}]
    BY DEF ApplyTaskStatus, Linked, TypeOK
  <1>8. \A w \in Vms : VmExists(w)' <=> VmExists(w)
    BY <1>2, <1>6 DEF VmExists, Vm, VmStatuses, Committed
  <1>9. RowsLinked'
    <2>1. ASSUME NEW w \in Vms, VmExists(w)'
          PROVE  Exists(vm[w].lastTask)' /\ (task[vm[w].lastTask].vm)' = w
      <3>1. /\ vm[w].lastTask \in TaskIds
            /\ Exists(vm[w].lastTask) /\ task[vm[w].lastTask].vm = w
        BY <2>1, <1>8, ExistingVm DEF Linked, RowsLinked, Vm
      <3>2. CASE vm'[w].lastTask = vm[w].lastTask
        BY <3>1, <3>2, <1>4, <1>5 DEF Exists
      <3>3. CASE vm'[w].lastTask # vm[w].lastTask
        <4>1. w = v /\ vm'[w].lastTask = t
          BY <3>3, <1>6
        <4>2. QED BY <4>1, <1>4, <1>5 DEF Exists
      <3>4. QED BY <3>2, <3>3
    <2>2. ASSUME NEW u \in TaskIds, Exists(u)'
          PROVE  VmExists(task[u].vm)'
      <3>1. Exists(u) /\ task'[u].vm = task[u].vm
        BY <2>2, <1>4, <1>5
      <3>2. task[u].vm \in Vms /\ VmExists(task[u].vm)
        BY <3>1, ExistingTask DEF Linked, RowsLinked, Task
      <3>3. QED BY <3>1, <3>2, <1>8
    <2>3. QED BY <2>1, <2>2 DEF RowsLinked
  <1>10. QED BY <1>4, <1>5, <1>6, <1>7, <1>8, <1>9

-----------------------------------------------------------------------------
(* Linked is an inductive invariant.                                       *)

(* The steps that write rows of tasks: what they do to them.               *)
CreateSteps ==
  \E op \in Operators, t \in TaskIds, v \in Vms, n \in Nodes : CreateVm(op, t, v, n)
BeginSteps ==
  \E op \in Operators, t \in TaskIds :
    \/ \E v \in Vms, kind \in ActionKinds : BeginAction(op, t, v, kind)
    \/ \E s \in TaskIds : BeginRetry(op, t, s)
StatusSteps ==
  \E t \in TaskIds :
    \/ CancelTask(t)
    \/ \E n \in Nodes, status \in TaskStatuses : UpdateStatus(n, t, status)
ClaimSteps == \E n \in Nodes, t \in TaskIds : ClaimNext(n, t)
NodeSteps ==
  \E n \in Nodes :
    \/ \E b \in BOOLEAN : SetScheduling(n, b) \/ RecordHeartbeat(n, b)
    \/ HeartbeatGoesStale(n)

(* Next, grouped by effect.                                                *)
LEMMA NextCases ==
  ASSUME [Next]_vars
  PROVE  \/ CreateSteps \/ BeginSteps \/ StatusSteps \/ ClaimSteps \/ NodeSteps
         \/ \E op \in Operators : Admit(op) \/ Reject(op)
         \/ UNCHANGED vars
  BY DEF Next, OperatorStep, AdminStep, AgentStep,
         CreateSteps, BeginSteps, StatusSteps, ClaimSteps, NodeSteps

(* A status step moves one task that is active, to a status of the         *)
(* transition tables, and runs apply_task_status_in_tx for it.             *)
LEMMA StatusStepEffect ==
  ASSUME StatusSteps
  PROVE  \E t \in TaskIds, status \in TaskStatuses :
           /\ task[t].status \in Active
           /\ \/ status = "canceled" /\ task[t].status \in {"pending", "assigned"}
              \/ ValidAgentTransition(task[t].status, status)
           /\ task' = [task EXCEPT ![t].status = status]
           /\ ApplyTaskStatus(t, status)
           /\ UNCHANGED <<node, tx>>
  <1>1. CASE \E t \in TaskIds : CancelTask(t)
    BY <1>1 DEF CancelTask, TaskStatuses, Active, Terminal, Unsuccessful
  <1>2. CASE \E t \in TaskIds, n \in Nodes, status \in TaskStatuses : UpdateStatus(n, t, status)
    BY <1>2 DEF UpdateStatus, ValidAgentTransition, Active
  <1>3. QED BY <1>1, <1>2 DEF StatusSteps

(* What an open admission holds in its hands when it is admitted.          *)
LEMMA AdmitUse ==
  ASSUME Linked, NEW op \in Operators, Admit(op)
  PROVE  /\ tx[op] \in OpenTx /\ tx[op].id # NoTask
         /\ ~Exists(tx[op].id) /\ VmExists(tx[op].vm)
         /\ vm[tx[op].vm] \in Vm
         /\ vm[tx[op].vm].status \in {"running", "stopped", "error"}
         /\ InsertTask(tx[op].id, tx[op].kind, tx[op].vm, vm[tx[op].vm].node)
         /\ tx' = [tx EXCEPT ![op] = NoTx]
  <1>1. Open(op) /\ tx[op] \in OpenTx
    BY OpenTxType DEF Admit, Linked
  <1>2. ~Exists(tx[op].id) /\ VmExists(tx[op].vm) /\ vm[tx[op].vm] \in Vm
    BY <1>1, ExistingVm DEF Linked, OpenTxsApart, OpenTx
  <1>3. vm[tx[op].vm].status \in {"running", "stopped", "error"}
    BY DEF Admit, AdmissionAllowed, RetryAllowed, ActionAllowed
  <1>4. QED BY <1>1, <1>2, <1>3 DEF Admit, Open

LEMMA LinkedInit == Init => Linked
  BY NullAssumption
  DEF Init, Linked, TypeOK, RowsLinked, OpenTxsApart, Exists, VmExists, Open,
      AbsentTask, AbsentVm, Free, NodeRow, NoTx

LEMMA LinkedStep == Linked /\ [Next]_vars => Linked'
  <1> SUFFICES ASSUME Linked, [Next]_vars PROVE Linked'
    OBVIOUS
  <1>1. CASE CreateSteps
    <2>1. PICK op \in Operators, t \in TaskIds, v \in Vms, n \in Nodes : CreateVm(op, t, v, n)
      BY <1>1 DEF CreateSteps
    <2>2. Unused(t) /\ InsertTask(t, "create", v, n) /\ UNCHANGED <<node, tx>>
      BY <2>1 DEF CreateVm, IsNextId, TaskIds
    <2>3. ~Exists(t) /\ \A o \in Operators : tx[o].id # t
      BY <2>2 DEF Unused
    <2>4. /\ task' \in [TaskIds -> Task \union {AbsentTask}]
          /\ vm' \in [Vms -> Vm \union {AbsentVm}]
          /\ alloc' \in [Addrs -> Allocation \union {Free}]
          /\ RowsLinked'
          /\ \A u \in TaskIds : Exists(u)' <=> Exists(u) \/ u = t
          /\ \A w \in Vms : VmExists(w) => VmExists(w)'
      BY <2>2, <2>3, InsertTaskLinks DEF Kinds
    <2>5. TypeOK'
      BY <2>2, <2>4 DEF Linked, TypeOK
    <2>6. OpenTxsApart'
      <3>1. \A o \in Operators : Open(o) => tx[o].id \in TaskIds /\ tx[o].vm \in Vms
        BY OpenTxType DEF Linked, OpenTx
      <3>2. QED BY <3>1, <2>2, <2>3, <2>4 DEF Linked, OpenTxsApart, Open
    <2>7. QED BY <2>4, <2>5, <2>6 DEF Linked
  <1>2. CASE BeginSteps
    <2>1. PICK op \in Operators, t \in TaskIds, v \in Vms, kind \in Kinds, retry \in BOOLEAN :
            OpenAdmission(op, t, v, kind, retry)
      <3>1. \A s \in TaskIds : task[s].status \in Unsuccessful => task[s] \in Task
        BY ExistingTask DEF Linked, Exists, Unsuccessful
      <3>2. QED BY <1>2, <3>1 DEF BeginSteps, BeginAction, BeginRetry, Kinds, Task
    <2>2. Unused(t) /\ VmExists(v) /\ UNCHANGED <<task, vm, alloc, node>>
      BY <2>1 DEF OpenAdmission, IsNextId, TaskIds
    <2>3. vm[v].lastTask \in TaskIds /\ task[vm[v].lastTask].status \in TaskStatuses
      BY <2>2, ExistingVm, ExistingTask DEF Linked, RowsLinked, Vm, Task
    <2>4. /\ tx' \in [Operators -> OpenTx \union {NoTx}]
          /\ tx'[op].id = t /\ tx'[op].vm = v
          /\ \A o \in Operators : o # op => tx'[o] = tx[o]
      BY <2>1, <2>3 DEF OpenAdmission, Linked, TypeOK, OpenTx
    <2>5. TypeOK'
      BY <2>2, <2>4 DEF Linked, TypeOK
    <2>6. RowsLinked'
      BY <2>2 DEF Linked, RowsLinked, Exists, VmExists
    <2>7. ~Exists(t) /\ \A o \in Operators : tx[o].id # t
      BY <2>2 DEF Unused
    <2>8. OpenTxsApart'
      <3> SUFFICES ASSUME NEW o \in Operators, Open(o)'
                   PROVE  /\ ~Exists(tx[o].id)'
                          /\ VmExists(tx[o].vm)'
                          /\ \A other \in Operators : tx'[other].id = tx'[o].id => other = o
        BY DEF OpenTxsApart
      <3>1. CASE o = op
        BY <3>1, <2>2, <2>4, <2>7 DEF Exists, VmExists
      <3>2. CASE o # op
        <4>1. tx'[o] = tx[o] /\ Open(o)
          BY <3>2, <2>4 DEF Open
        <4>2. QED BY <3>2, <4>1, <2>2, <2>4, <2>7 DEF Linked, OpenTxsApart, Exists, VmExists
      <3>3. QED BY <3>1, <3>2
    <2>9. QED BY <2>5, <2>6, <2>8 DEF Linked
  <1>3. CASE StatusSteps
    <2>1. PICK t \in TaskIds, status \in TaskStatuses :
            /\ task[t].status \in Active
            /\ task' = [task EXCEPT ![t].status = status]
            /\ ApplyTaskStatus(t, status)
            /\ UNCHANGED <<node, tx>>
      BY <1>3, StatusStepEffect
    <2>2. Exists(t)
      BY <2>1 DEF Exists, Active
    <2>3. /\ task' \in [TaskIds -> Task \union {AbsentTask}]
          /\ vm' \in [Vms -> Vm \union {AbsentVm}]
          /\ alloc' \in [Addrs -> Allocation \union {Free}]
          /\ RowsLinked'
          /\ \A u \in TaskIds : Exists(u)' <=> Exists(u)
          /\ \A w \in Vms : VmExists(w)' <=> VmExists(w)
      BY <2>1, <2>2, ApplyTaskStatusLinks
    <2>4. TypeOK'
      BY <2>1, <2>3 DEF Linked, TypeOK
    <2>5. OpenTxsApart'
      <3>1. \A o \in Operators : Open(o) => tx[o].id \in TaskIds /\ tx[o].vm \in Vms
        BY OpenTxType DEF Linked, OpenTx
      <3>2. QED BY <3>1, <2>1, <2>3 DEF Linked, OpenTxsApart, Open
    <2>6. QED BY <2>3, <2>4, <2>5 DEF Linked
  <1>4. CASE ClaimSteps
    <2>1. PICK n \in Nodes, t \in TaskIds : ClaimNext(n, t)
      BY <1>4 DEF ClaimSteps
    <2>2. task[t] \in Task
      BY <2>1, ExistingTask DEF ClaimNext, Linked, Exists
    <2>3. /\ task' \in [TaskIds -> Task \union {AbsentTask}]
          /\ \A u \in TaskIds : Exists(u)' <=> Exists(u)
          /\ \A u \in TaskIds : Exists(u) => task'[u].vm = task[u].vm
      BY <2>1, <2>2 DEF ClaimNext, Linked, TypeOK, Task, Exists, TaskStatuses, Active
    <2>4. UNCHANGED <<vm, alloc, node, tx>>
      BY <2>1 DEF ClaimNext
    <2>5. TypeOK'
      BY <2>3, <2>4 DEF Linked, TypeOK
    <2>6. RowsLinked'
      <3>1. \A v \in Vms : VmExists(v) => vm[v].lastTask \in TaskIds
        BY ExistingVm DEF Linked, Vm
      <3>2. QED BY <3>1, <2>3, <2>4 DEF Linked, RowsLinked, VmExists
    <2>7. OpenTxsApart'
      <3>1. \A o \in Operators : Open(o) => tx[o].id \in TaskIds
        BY OpenTxType DEF Linked, OpenTx
      <3>2. QED BY <3>1, <2>3, <2>4 DEF Linked, OpenTxsApart, Open, VmExists
    <2>8. QED BY <2>5, <2>6, <2>7 DEF Linked
  <1>5. CASE NodeSteps
    <2>1. UNCHANGED <<task, vm, alloc, tx>>
      BY <1>5 DEF NodeSteps, SetScheduling, RecordHeartbeat, HeartbeatGoesStale
    <2>2. node' \in [Nodes -> NodeRow]
      <3>1. \E n \in Nodes, b \in BOOLEAN :
              \/ node' = [node EXCEPT ![n].scheduling = b]
              \/ node' = [node EXCEPT ![n].ready = b]
        BY <1>5 DEF NodeSteps, SetScheduling, RecordHeartbeat, HeartbeatGoesStale
      <3>2. QED BY <3>1 DEF Linked, TypeOK, NodeRow
    <2>3. QED
      BY <2>1, <2>2 DEF Linked, TypeOK, RowsLinked, OpenTxsApart, Exists, VmExists, Open
  <1>6. ASSUME NEW op \in Operators, Admit(op)
        PROVE  Linked'
    <2> DEFINE t == tx[op].id
               v == tx[op].vm
    <2>1. /\ tx[op] \in OpenTx /\ t # NoTask
          /\ ~Exists(t) /\ VmExists(v) /\ vm[v] \in Vm
          /\ InsertTask(t, tx[op].kind, v, vm[v].node)
          /\ tx' = [tx EXCEPT ![op] = NoTx]
          /\ node' = node
      BY <1>6, AdmitUse DEF Admit
    <2>2. t \in TaskIds /\ tx[op].kind \in Kinds /\ v \in Vms /\ vm[v].node \in Nodes
      BY <2>1 DEF OpenTx, Vm
    <2>3. /\ task' \in [TaskIds -> Task \union {AbsentTask}]
          /\ vm' \in [Vms -> Vm \union {AbsentVm}]
          /\ alloc' \in [Addrs -> Allocation \union {Free}]
          /\ RowsLinked'
          /\ \A u \in TaskIds : Exists(u)' <=> Exists(u) \/ u = t
          /\ \A w \in Vms : VmExists(w) => VmExists(w)'
      BY <2>1, <2>2, InsertTaskLinks
    <2>4. TypeOK'
      BY <2>1, <2>3 DEF Linked, TypeOK
    <2>5. OpenTxsApart'
      <3>1. /\ ~Open(op)'
            /\ \A o \in Operators : o # op => tx'[o] = tx[o]
            /\ tx'[op].id = NoTask
        BY <2>1 DEF Linked, TypeOK, Open, NoTx
      <3>2. \A o \in Operators : Open(o) => tx[o].id \in TaskIds /\ tx[o].vm \in Vms
        BY OpenTxType DEF Linked, OpenTx
      <3>3. Open(op)
        BY <1>6 DEF Admit
      <3>4. \A o \in Operators : Open(o)' => o # op /\ Open(o) /\ tx[o].id # t
        BY <3>1, <3>3 DEF Linked, OpenTxsApart, Open
      <3>5. QED BY <3>1, <3>2, <3>4, <2>3 DEF Linked, OpenTxsApart, Open
    <2>6. QED BY <2>3, <2>4, <2>5 DEF Linked
  <1>7. ASSUME NEW op \in Operators, Reject(op)
        PROVE  Linked'
    <2>1. UNCHANGED <<task, vm, alloc, node>> /\ tx' = [tx EXCEPT ![op] = NoTx]
      BY <1>7 DEF Reject
    <2>2. TypeOK' /\ RowsLinked'
      BY <2>1 DEF Linked, TypeOK, RowsLinked, Exists, VmExists
    <2>3. OpenTxsApart'
      <3>1. /\ tx'[op].id = NoTask
            /\ \A o \in Operators : o # op => tx'[o] = tx[o]
        BY <2>1 DEF Linked, TypeOK, NoTx
      <3>2. QED BY <3>1, <2>1 DEF Linked, OpenTxsApart, Open, Exists, VmExists
    <2>4. QED BY <2>2, <2>3 DEF Linked
  <1>8. CASE UNCHANGED vars
    BY <1>8 DEF vars, Linked, TypeOK, RowsLinked, OpenTxsApart, Exists, VmExists, Open
  <1>9. QED BY NextCases, <1>1, <1>2, <1>3, <1>4, <1>5, <1>6, <1>7, <1>8

LEMMA LinkedAlways == Spec => []Linked
  BY LinkedInit, LinkedStep, PTL DEF Spec

(* Every row has its type in every reachable state, with any number of     *)
(* operators, agents, VMs and addresses: no handler writes into an absent  *)
(* row or through a dangling last_task_id.                                 *)
THEOREM TypeCorrect == Spec => []TypeOK
  <1>1. Linked => TypeOK
    BY DEF Linked
  <1>2. QED BY LinkedAlways, <1>1, PTL

-----------------------------------------------------------------------------
(* Task history, with overlapping admissions.                              *)

(* No handler touches the row of a finished task: cancels and reports only *)
(* move active ones, and a new task never takes an id that is in use.      *)
LEMMA FinishedTaskStep ==
  ASSUME Linked, [Next]_vars, NEW t \in TaskIds, task[t].status \in Terminal
  PROVE  task'[t] = task[t]
  <1>1. Exists(t) /\ task[t].status \notin Active
    BY DEF Exists, Terminal, Unsuccessful, Active
  <1>2. CASE CreateSteps
    <2>1. PICK u \in TaskIds, v \in Vms, n \in Nodes :
            Unused(u) /\ InsertTask(u, "create", v, n)
      BY <1>2 DEF CreateSteps, CreateVm, IsNextId, TaskIds
    <2>2. u # t
      BY <2>1, <1>1 DEF Unused
    <2>3. QED BY <2>1, <2>2 DEF InsertTask, Enqueue, Linked, TypeOK
  <1>3. CASE BeginSteps
    BY <1>3 DEF BeginSteps, BeginAction, BeginRetry, OpenAdmission
  <1>4. CASE StatusSteps
    <2>1. PICK u \in TaskIds, status \in TaskStatuses :
            /\ task[u].status \in Active
            /\ task' = [task EXCEPT ![u].status = status]
      BY <1>4, StatusStepEffect
    <2>2. QED BY <2>1, <1>1 DEF Linked, TypeOK
  <1>5. CASE ClaimSteps
    <2>1. PICK n \in Nodes, u \in TaskIds : ClaimNext(n, u)
      BY <1>5 DEF ClaimSteps
    <2>2. u # t
      BY <2>1, <1>1 DEF ClaimNext, Active
    <2>3. QED BY <2>1, <2>2 DEF ClaimNext, Linked, TypeOK
  <1>6. CASE NodeSteps
    BY <1>6 DEF NodeSteps, SetScheduling, RecordHeartbeat, HeartbeatGoesStale
  <1>7. ASSUME NEW op \in Operators, Admit(op)
        PROVE  task'[t] = task[t]
    <2>1. /\ tx[op].id # t
          /\ InsertTask(tx[op].id, tx[op].kind, tx[op].vm, vm[tx[op].vm].node)
      BY <1>7, <1>1, AdmitUse
    <2>2. QED BY <2>1 DEF InsertTask, Enqueue, Linked, TypeOK
  <1>8. CASE \E op \in Operators : Reject(op)
    BY <1>8 DEF Reject
  <1>9. CASE UNCHANGED vars
    BY <1>9 DEF vars
  <1>10. QED BY NextCases, <1>2, <1>3, <1>4, <1>5, <1>6, <1>7, <1>8, <1>9

(* The history of finished tasks is immutable, however many operators and  *)
(* agents race: what retry_task read before its transaction still holds.   *)
THEOREM HistoryImmutable == Spec => FinishedTaskIsImmutable
  <1>1. Linked /\ [Next]_vars =>
          [\A t \in TaskIds : task[t].status \in Terminal => task'[t] = task[t]]_vars
    BY FinishedTaskStep
  <1>2. QED BY <1>1, LinkedAlways, PTL DEF Spec, FinishedTaskIsImmutable

-----------------------------------------------------------------------------
(* Addresses, with overlapping admissions.                                 *)

AddressInv == Linked /\ AddressRecordsAgree

(* An active allocation names an existing VM and task, a free one no VM.   *)
LEMMA AllocationOwner ==
  ASSUME AddressInv, NEW a \in Addrs
  PROVE  /\ alloc[a] # Free =>
              /\ alloc[a] \in Allocation
              /\ VmExists(alloc[a].vm) /\ Exists(alloc[a].task)
         /\ alloc[a] = Free => alloc[a].vm \notin Vms
  BY NullAssumption
  DEF AddressInv, AddressRecordsAgree, Linked, TypeOK, Allocation, Free, Exists

LEMMA InsertTaskAddresses ==
  ASSUME AddressInv,
         NEW t \in TaskIds, ~Exists(t), NEW kind \in Kinds, NEW v \in Vms, NEW n \in Nodes,
         VmExists(v) \/ kind = "create",
         InsertTask(t, kind, v, n)
  PROVE  AddressRecordsAgree'
  <1>1. PICK ip \in Addrs \union {NoAddr} :
          /\ IF kind = "create" /\ v \in Pooled
             THEN ip # NoAddr /\ NextAddress(v, ip)
             ELSE ip = NoAddr
          /\ task' = [task EXCEPT ![t] = [kind |-> kind, vm |-> v, node |-> n,
                                          status |-> "pending", ip |-> ip]]
          /\ alloc' = IF ip = NoAddr THEN alloc
                      ELSE [alloc EXCEPT ![ip] = [vm |-> v, task |-> t]]
          /\ vm' = [vm EXCEPT ![v] =
                      [status   |-> QueuedStatus(kind, vm[v].status),
                       node     |-> n,
                       lastTask |-> t,
                       ip       |-> IF ip # NoAddr \/ ~VmExists(v) THEN ip
                                    ELSE vm[v].ip]]
    BY DEF InsertTask, Enqueue
  <1>2. /\ \A u \in TaskIds : u # t => task'[u] = task[u]
        /\ task'[t].kind = kind /\ task'[t].vm = v
        /\ task'[t].status = "pending" /\ task'[t].ip = ip
        /\ \A w \in Vms : w # v => vm'[w] = vm[w]
        /\ vm'[v].ip = IF ip # NoAddr \/ ~VmExists(v) THEN ip ELSE vm[v].ip
    BY <1>1 DEF AddressInv, Linked, TypeOK
  <1>3. \A w \in Vms : VmExists(w) => VmExists(w)'
    BY InsertTaskLinks DEF AddressInv
  <1>4. VmExists(v)'
    <2>1. Exists(t)' /\ RowsLinked'
      BY InsertTaskLinks DEF AddressInv
    <2>2. QED BY <2>1, <1>2 DEF RowsLinked
  <1>5. \A a \in Addrs : alloc[a] # Free => alloc[a].task # t
    BY AllocationOwner
  <1>6. CASE ip = NoAddr
    <2>1. alloc' = alloc
      BY <1>1, <1>6
    <2>2. ASSUME NEW w \in Vms, NEW a \in Addrs, VmExists(w)'
          PROVE  vm'[w].ip = a <=> alloc'[a].vm = w
      <3>1. CASE VmExists(w)
        BY <3>1, <1>6, <1>2, <2>1 DEF AddressInv, AddressRecordsAgree
      <3>2. CASE ~VmExists(w)
        <4>1. w = v
          BY <3>2, <2>2, <1>2 DEF VmExists
        <4>2. alloc[a].vm # w
          BY <3>2, AllocationOwner
        <4>3. a # NoAddr
          BY NullAssumption
        <4>4. QED BY <3>2, <4>1, <4>2, <4>3, <1>6, <1>2, <2>1
      <3>3. QED BY <3>1, <3>2
    <2>3. ASSUME NEW a \in Addrs, alloc'[a] # Free
          PROVE  LET u == alloc'[a].task
                 IN  /\ VmExists(alloc[a].vm)'
                     /\ task'[u].status \in {"pending", "assigned", "running", "succeeded"}
                     /\ task'[u].kind = "create" /\ task'[u].vm = alloc'[a].vm
                     /\ task'[u].ip = a
      <3>1. alloc[a] # Free /\ alloc[a] \in Allocation
        BY <2>1, <2>3, AllocationOwner
      <3>2. alloc[a].task \in TaskIds /\ alloc[a].vm \in Vms /\ alloc[a].task # t
        BY <3>1, <1>5 DEF Allocation
      <3>3. QED BY <3>1, <3>2, <2>1, <1>2, <1>3 DEF AddressInv, AddressRecordsAgree
    <2>4. QED BY <2>2, <2>3 DEF AddressRecordsAgree
  <1>7. CASE ip # NoAddr
    <2>1. NextAddress(v, ip) /\ kind = "create" /\ ip \in Addrs
      BY <1>1, <1>7
    <2>2. /\ alloc'[ip] = [vm |-> v, task |-> t]
          /\ \A a \in Addrs : a # ip => alloc'[a] = alloc[a]
      BY <1>1, <1>7, <2>1 DEF AddressInv, Linked, TypeOK
    <2>3. alloc[ip] = Free /\ \A a \in Addrs : alloc[a].vm # v
      BY <2>1 DEF NextAddress
    <2>4. ASSUME NEW w \in Vms, NEW a \in Addrs, VmExists(w)'
          PROVE  vm'[w].ip = a <=> alloc'[a].vm = w
      <3>1. CASE w = v
        BY <3>1, <1>7, <1>2, <2>2, <2>3
      <3>2. CASE w # v
        <4>1. VmExists(w) /\ vm'[w] = vm[w]
          BY <3>2, <2>4, <1>2 DEF VmExists
        <4>2. vm[w].ip = a <=> alloc[a].vm = w
          BY <4>1 DEF AddressInv, AddressRecordsAgree
        <4>3. alloc[ip].vm # w
          BY <2>1, <2>3, AllocationOwner
        <4>4. QED BY <3>2, <4>1, <4>2, <4>3, <2>2
      <3>3. QED BY <3>1, <3>2
    <2>5. ASSUME NEW a \in Addrs, alloc'[a] # Free
          PROVE  LET u == alloc'[a].task
                 IN  /\ VmExists(alloc[a].vm)'
                     /\ task'[u].status \in {"pending", "assigned", "running", "succeeded"}
                     /\ task'[u].kind = "create" /\ task'[u].vm = alloc'[a].vm
                     /\ task'[u].ip = a
      <3>1. CASE a = ip
        BY <3>1, <2>1, <2>2, <1>2, <1>4
      <3>2. CASE a # ip
        <4>1. alloc[a] # Free /\ alloc[a] \in Allocation /\ alloc'[a] = alloc[a]
          BY <3>2, <2>2, <2>5, AllocationOwner
        <4>2. alloc[a].task \in TaskIds /\ alloc[a].vm \in Vms /\ alloc[a].task # t
          BY <4>1, <1>5 DEF Allocation
        <4>3. QED BY <4>1, <4>2, <1>2, <1>3 DEF AddressInv, AddressRecordsAgree
      <3>3. QED BY <3>1, <3>2
    <2>6. QED BY <2>4, <2>5 DEF AddressRecordsAgree
  <1>8. QED BY <1>6, <1>7

LEMMA ApplyTaskStatusAddresses ==
  ASSUME AddressInv,
         NEW t \in TaskIds, Exists(t), NEW status \in TaskStatuses,
         status # "pending",
         task' = [task EXCEPT ![t].status = status],
         ApplyTaskStatus(t, status)
  PROVE  AddressRecordsAgree'
  <1> DEFINE v == task[t].vm
             next == NextVmStatus(task[t].kind, status)
             released == ReleasesAddress(task[t].kind, status)
  <1>1. task[t] \in Task
    BY ExistingTask DEF AddressInv, Linked
  <1>2. v \in Vms
    BY <1>1 DEF Task
  <1>3. /\ task'[t] = [task[t] EXCEPT !.status = status]
        /\ \A u \in TaskIds : u # t => task'[u] = task[u]
    BY DEF AddressInv, Linked, TypeOK
  <1>4. /\ task'[t].kind = task[t].kind /\ task'[t].vm = v
        /\ task'[t].ip = task[t].ip /\ task'[t].status = status
    BY <1>1, <1>3 DEF Task
  <1>5. \A w \in Vms : VmExists(w)' <=> VmExists(w)
    BY ApplyTaskStatusLinks DEF AddressInv
  <1>6. ASSUME NEW a \in Addrs, alloc[a] # Free, alloc'[a] = alloc[a]
        PROVE  LET u == alloc'[a].task
               IN  /\ VmExists(alloc[a].vm)'
                   /\ task'[u].status \in {"pending", "assigned", "running", "succeeded"}
                   /\ task'[u].kind = "create" /\ task'[u].vm = alloc'[a].vm
                   /\ task'[u].ip = a
    <2>1. /\ alloc[a].task \in TaskIds /\ alloc[a].vm \in Vms
          /\ VmExists(alloc[a].vm)
      BY <1>6, AllocationOwner DEF Allocation
    <2>2. /\ task[alloc[a].task].kind = "create" /\ task[alloc[a].task].vm = alloc[a].vm
          /\ task[alloc[a].task].ip = a
          /\ task[alloc[a].task].status \in {"pending", "assigned", "running", "succeeded"}
      BY <1>6 DEF AddressInv, AddressRecordsAgree
    <2>3. CASE alloc[a].task # t
      BY <2>1, <2>2, <2>3, <1>3, <1>5, <1>6
    <2>4. CASE alloc[a].task = t
      <3>1. ~released
        <4>1. SUFFICES ASSUME released PROVE FALSE
          OBVIOUS
        <4>2. alloc' = [b \in Addrs |-> IF alloc[b].vm = v THEN Free ELSE alloc[b]]
          BY <4>1 DEF ApplyTaskStatus
        <4>3. alloc'[a] = Free
          BY <4>2, <2>2, <2>4
        <4>4. QED BY <4>3, <1>6
      <3>2. status \notin Unsuccessful
        BY <3>1, <2>2, <2>4 DEF ReleasesAddress
      <3>3. status \in {"pending", "assigned", "running", "succeeded"}
        BY <3>2 DEF TaskStatuses, Active, Terminal
      <3>4. QED BY <3>3, <2>1, <2>2, <2>4, <1>4, <1>5, <1>6
    <2>5. QED BY <2>3, <2>4
  <1>7. CASE released
    <2>1. next # NoChange
      BY <1>1, <1>7, NextVmStatusType DEF Task
    <2>2. vm' = [vm EXCEPT ![v].status = next, ![v].lastTask = t, ![v].ip = NoAddr]
      BY <2>1, <1>7 DEF ApplyTaskStatus
    <2>3. vm[v] \in Vm
      BY <1>2, ExistingVm DEF AddressInv, Linked, RowsLinked
    <2>4. /\ vm'[v].ip = NoAddr
          /\ \A w \in Vms : w # v => vm'[w] = vm[w]
      BY <2>2, <2>3, <1>2 DEF AddressInv, Linked, TypeOK, Vm
    <2>5. alloc' = [a \in Addrs |-> IF alloc[a].vm = v THEN Free ELSE alloc[a]]
      BY <1>7 DEF ApplyTaskStatus
    <2>6. Free.vm = NoVm /\ NoVm \notin Vms /\ NoAddr \notin Addrs
      BY NullAssumption DEF Free
    <2>7. ASSUME NEW w \in Vms, NEW a \in Addrs, VmExists(w)'
          PROVE  vm'[w].ip = a <=> alloc'[a].vm = w
      <3>1. vm[w].ip = a <=> alloc[a].vm = w
        BY <2>7, <1>5 DEF AddressInv, AddressRecordsAgree
      <3>2. CASE w = v
        BY <3>2, <2>4, <2>5, <2>6
      <3>3. CASE w # v
        BY <3>1, <3>3, <2>4, <2>5, <2>6
      <3>4. QED BY <3>2, <3>3
    <2>8. \A a \in Addrs : alloc'[a] # Free => alloc[a] # Free /\ alloc'[a] = alloc[a]
      BY <2>5
    <2>9. QED BY <2>7, <2>8, <1>6 DEF AddressRecordsAgree
  <1>8. CASE ~released
    <2>1. alloc' = alloc
      BY <1>8 DEF ApplyTaskStatus
    <2>2. \A w \in Vms : VmExists(w) => vm'[w].ip = vm[w].ip
      <3>1. CASE next = NoChange
        BY <3>1 DEF ApplyTaskStatus
      <3>2. CASE next # NoChange
        <4>1. vm' = [vm EXCEPT ![v].status = next, ![v].lastTask = t, ![v].ip = vm[v].ip]
          BY <3>2, <1>8 DEF ApplyTaskStatus, AddressInv, Linked, TypeOK
        <4>2. vm[v] \in Vm
          BY <1>2, ExistingVm DEF AddressInv, Linked, RowsLinked
        <4>3. QED BY <4>1, <4>2, <1>2 DEF AddressInv, Linked, TypeOK, Vm
      <3>3. QED BY <3>1, <3>2
    <2>3. \A w \in Vms, a \in Addrs : VmExists(w)' => (vm'[w].ip = a <=> alloc'[a].vm = w)
      BY <2>1, <2>2, <1>5 DEF AddressInv, AddressRecordsAgree
    <2>4. QED BY <2>1, <2>3, <1>6 DEF AddressRecordsAgree
  <1>9. QED BY <1>7, <1>8

LEMMA AddressStep == AddressInv /\ [Next]_vars => AddressRecordsAgree'
  <1> SUFFICES ASSUME AddressInv, [Next]_vars PROVE AddressRecordsAgree'
    OBVIOUS
  <1>1. CASE CreateSteps
    <2>1. PICK t \in TaskIds, v \in Vms, n \in Nodes :
            Unused(t) /\ InsertTask(t, "create", v, n)
      BY <1>1 DEF CreateSteps, CreateVm, IsNextId, TaskIds
    <2>2. QED BY <2>1, InsertTaskAddresses DEF Unused, Kinds
  <1>2. CASE StatusSteps
    <2>1. PICK t \in TaskIds, status \in TaskStatuses :
            /\ task[t].status \in Active /\ status # "pending"
            /\ task' = [task EXCEPT ![t].status = status]
            /\ ApplyTaskStatus(t, status)
      BY <1>2, StatusStepEffect DEF ValidAgentTransition
    <2>2. Exists(t)
      BY <2>1 DEF Exists, Active
    <2>3. QED BY <2>1, <2>2, ApplyTaskStatusAddresses
  <1>3. CASE ClaimSteps
    <2>1. PICK n \in Nodes, t \in TaskIds : ClaimNext(n, t)
      BY <1>3 DEF ClaimSteps
    <2>2. task[t] \in Task /\ task[t].status = "pending"
      BY <2>1, ExistingTask DEF ClaimNext, AddressInv, Linked, Exists
    <2>3. /\ \A u \in TaskIds : u # t => task'[u] = task[u]
          /\ task'[t].status = "assigned" /\ task'[t].kind = task[t].kind
          /\ task'[t].vm = task[t].vm /\ task'[t].ip = task[t].ip
          /\ UNCHANGED <<vm, alloc>>
      BY <2>1, <2>2 DEF ClaimNext, AddressInv, Linked, TypeOK, Task
    <2>4. \A a \in Addrs : alloc[a] # Free => alloc[a].task \in TaskIds
      BY AllocationOwner DEF Allocation
    <2>5. QED BY <2>2, <2>3, <2>4 DEF AddressInv, AddressRecordsAgree, VmExists
  <1>4. ASSUME NEW op \in Operators, Admit(op)
        PROVE  AddressRecordsAgree'
    <2>1. /\ tx[op] \in OpenTx
          /\ ~Exists(tx[op].id) /\ VmExists(tx[op].vm) /\ vm[tx[op].vm] \in Vm
          /\ InsertTask(tx[op].id, tx[op].kind, tx[op].vm, vm[tx[op].vm].node)
      BY <1>4, AdmitUse DEF AddressInv
    <2>2. QED BY <2>1, InsertTaskAddresses DEF OpenTx, Vm
  <1>5. CASE UNCHANGED <<task, vm, alloc>>
    BY <1>5 DEF AddressInv, AddressRecordsAgree, VmExists
  <1>6. BeginSteps \/ NodeSteps \/ (\E op \in Operators : Reject(op)) \/ UNCHANGED vars
          => UNCHANGED <<task, vm, alloc>>
    BY DEF BeginSteps, BeginAction, BeginRetry, OpenAdmission, NodeSteps, SetScheduling,
           RecordHeartbeat, HeartbeatGoesStale, Reject, vars
  <1>7. QED BY NextCases, <1>1, <1>2, <1>3, <1>4, <1>5, <1>6

(* The three records of an address agree in every reachable state, even    *)
(* when admissions of the same VM overlap and both go through.             *)
THEOREM AddressesAgree == Spec => []AddressRecordsAgree
  <1>1. Init => AddressRecordsAgree
    BY NullAssumption DEF Init, AddressRecordsAgree, VmExists, AbsentVm, Free
  <1>2. AddressRecordsAgree /\ Linked /\ [Next]_vars => AddressRecordsAgree'
    BY AddressStep DEF AddressInv
  <1>3. QED BY <1>1, <1>2, LinkedAlways, PTL DEF Spec

-----------------------------------------------------------------------------
(* The reservation of VMs, when admissions do not overlap.                 *)

LEMMA ActiveTask ==
  ASSUME NEW t, NEW v
  PROVE  t \in ActiveTasksOf(v) <=>
           t \in TaskIds /\ task[t].status \in Active /\ task[t].vm = v
  BY DEF ActiveTasksOf, TasksOf, Exists, Active

LEMMA ActiveTaskNext ==
  ASSUME NEW t, NEW v
  PROVE  t \in ActiveTasksOf(v)' <=>
           t \in TaskIds /\ task'[t].status \in Active /\ task'[t].vm = v
  BY DEF ActiveTasksOf, TasksOf, Exists, Active

(* TransientWhileTaskActive without its set of kinds.                      *)
Provisions(t) == task[t].kind \in {"create", "reinstall"}
Deletes(t)    == task[t].kind = "delete"
LEMMA TransientExpanded ==
  TransientWhileTaskActive <=>
    \A v \in Vms :
      /\ vm[v].status = "provisioning" <=> \E t \in ActiveTasksOf(v) : Provisions(t)
      /\ vm[v].status = "deleting" <=> \E t \in ActiveTasksOf(v) : Deletes(t)
  BY DEF TransientWhileTaskActive, Provisions, Deletes

LEMMA TransientExpandedNext ==
  TransientWhileTaskActive' <=>
    \A v \in Vms :
      /\ vm'[v].status = "provisioning" <=> \E t \in ActiveTasksOf(v)' : Provisions(t)'
      /\ vm'[v].status = "deleting" <=> \E t \in ActiveTasksOf(v)' : Deletes(t)'
  BY DEF TransientWhileTaskActive, Provisions, Deletes

(* The lifecycle query does its work: when it still finds the last task of *)
(* its snapshot, an admitted VM has no active task.                        *)
LEMMA AdmittedVmIsFree ==
  ASSUME SerialInv, NEW op \in Operators, Admit(op)
  PROVE  ActiveTasksOf(tx[op].vm) = {}
  <1> SUFFICES ASSUME NEW t \in ActiveTasksOf(tx[op].vm) PROVE FALSE
    OBVIOUS
  <1>1. tx[op] \in OpenTx /\ Open(op)
    BY AdmitUse DEF SerialInv, Open
  <1>2. t \in TaskIds /\ task[t].status \in Active
    BY ActiveTask
  <1>3. vm[tx[op].vm].lastTask = t
    BY <1>1 DEF SerialInv, ActiveTaskHoldsVm, OpenTx
  <1>4. tx[op].lastTask = t
    BY <1>1, <1>3 DEF SerialInv, SnapshotHolds
  <1>5. tx[op].lastStatus \notin Active
    BY <1>3, <1>4 DEF Admit, AdmissionAllowed, LastStatusSeen
  <1>6. tx[op].lastStatus \in Terminal
    BY <1>1, <1>5 DEF OpenTx, TaskStatuses
  <1>7. task[t].status = tx[op].lastStatus
    BY <1>1, <1>4, <1>6 DEF SerialInv, SnapshotHolds
  <1>8. QED BY <1>2, <1>5, <1>7

(* A task queued for a free VM is its only active one, and the VM shows it.*)
LEMMA InsertTaskReserves ==
  ASSUME SerialInv,
         NEW t \in TaskIds, ~Exists(t), NEW kind \in Kinds, NEW v \in Vms, NEW n \in Nodes,
         VmExists(v) \/ kind = "create",
         ActiveTasksOf(v) = {},
         VmExists(v) => vm[v].status \in {"running", "stopped", "error"},
         InsertTask(t, kind, v, n)
  PROVE  ActiveTaskHoldsVm' /\ TransientWhileTaskActive' /\ DeletedIsIdle'
  <1>1. PICK ip \in Addrs \union {NoAddr} :
          /\ task' = [task EXCEPT ![t] = [kind |-> kind, vm |-> v, node |-> n,
                                          status |-> "pending", ip |-> ip]]
          /\ vm' = [vm EXCEPT ![v] =
                      [status   |-> QueuedStatus(kind, vm[v].status),
                       node     |-> n,
                       lastTask |-> t,
                       ip       |-> IF ip # NoAddr \/ ~VmExists(v) THEN ip
                                    ELSE vm[v].ip]]
    BY DEF InsertTask, Enqueue
  <1>2. /\ \A u \in TaskIds : u # t => task'[u] = task[u]
        /\ task'[t].kind = kind /\ task'[t].vm = v /\ task'[t].status = "pending"
        /\ \A w \in Vms : w # v => vm'[w] = vm[w]
        /\ vm'[v].status = QueuedStatus(kind, vm[v].status) /\ vm'[v].lastTask = t
    BY <1>1 DEF SerialInv, Linked, TypeOK
  <1>3. task[t].status \notin Active
    BY DEF Exists, Active
  <1>4. ASSUME NEW w \in Vms, w # v
        PROVE  /\ ActiveTasksOf(w)' = ActiveTasksOf(w)
               /\ \A u \in ActiveTasksOf(w) : task'[u] = task[u]
    <2>1. \A u : u \in ActiveTasksOf(w)' <=> u \in ActiveTasksOf(w)
      BY <1>2, <1>3, <1>4, ActiveTask, ActiveTaskNext
    <2>2. \A u \in ActiveTasksOf(w) : u \in TaskIds /\ u # t
      BY <1>3, ActiveTask
    <2>3. QED BY <2>1, <2>2, <1>2
  <1>5. ActiveTasksOf(v)' = {t}
    <2>1. t \in ActiveTasksOf(v)'
      BY <1>2, ActiveTaskNext DEF Active
    <2>2. \A u \in ActiveTasksOf(v)' : u = t
      BY <1>2, ActiveTask, ActiveTaskNext
    <2>3. QED BY <2>1, <2>2
  <1>6. ActiveTaskHoldsVm'
    BY <1>2, <1>4, <1>5 DEF SerialInv, ActiveTaskHoldsVm
  <1>7. TransientWhileTaskActive'
    <2>1. ASSUME NEW w \in Vms, w # v
          PROVE  /\ vm'[w].status = "provisioning" <=> \E u \in ActiveTasksOf(w)' : Provisions(u)'
                 /\ vm'[w].status = "deleting" <=> \E u \in ActiveTasksOf(w)' : Deletes(u)'
      BY <2>1, <1>2, <1>4, TransientExpanded DEF SerialInv, Provisions, Deletes
    <2>2. /\ vm'[v].status = "provisioning" <=> kind \in {"create", "reinstall"}
          /\ vm'[v].status = "deleting" <=> kind = "delete"
      BY <1>2 DEF QueuedStatus
    <2>3. /\ vm'[v].status = "provisioning" <=> \E u \in ActiveTasksOf(v)' : Provisions(u)'
          /\ vm'[v].status = "deleting" <=> \E u \in ActiveTasksOf(v)' : Deletes(u)'
      BY <2>2, <1>2, <1>5 DEF Provisions, Deletes
    <2>4. QED BY <2>1, <2>3, TransientExpandedNext
  <1>8. DeletedIsIdle'
    <2>1. vm'[v].status # "deleted"
      BY <1>2 DEF QueuedStatus
    <2>2. QED BY <2>1, <1>2, <1>4 DEF SerialInv, DeletedIsIdle
  <1>9. QED BY <1>6, <1>7, <1>8

(* A status report moves the only active task of its VM and leaves the VM  *)
(* in the status that goes with it.                                        *)
LEMMA ApplyTaskStatusReserves ==
  ASSUME SerialInv,
         NEW t \in TaskIds, task[t].status \in Active, NEW status \in TaskStatuses,
         status # "pending",
         task' = [task EXCEPT ![t].status = status],
         ApplyTaskStatus(t, status)
  PROVE  /\ ActiveTaskHoldsVm' /\ TransientWhileTaskActive' /\ DeletedIsIdle'
         /\ \A w \in Vms : VmExists(w) => vm'[w].lastTask = vm[w].lastTask
  <1> DEFINE v == task[t].vm
             kind == task[t].kind
             next == NextVmStatus(kind, status)
  <1>1. task[t] \in Task /\ v \in Vms /\ kind \in Kinds
    BY ExistingTask DEF SerialInv, Linked, Exists, Active, Task
  <1>2. VmExists(v) /\ vm[v] \in Vm
    BY <1>1, ExistingVm DEF SerialInv, Linked, RowsLinked, Exists, Active
  <1>3. /\ \A u \in TaskIds : u # t => task'[u] = task[u]
        /\ task'[t].kind = kind /\ task'[t].vm = v /\ task'[t].status = status
    BY <1>1 DEF SerialInv, Linked, TypeOK, Task
  <1>4. ActiveTasksOf(v) = {t}
    <2>1. t \in ActiveTasksOf(v)
      BY ActiveTask
    <2>2. \A u \in ActiveTasksOf(v) : vm[v].lastTask = u
      BY <1>1 DEF SerialInv, ActiveTaskHoldsVm
    <2>3. QED BY <2>1, <2>2
  <1>5. vm[v].lastTask = t
    BY <1>1, <1>4 DEF SerialInv, ActiveTaskHoldsVm
  <1>6. /\ \A w \in Vms : w # v => vm'[w] = vm[w]
        /\ vm'[v].lastTask = t
        /\ vm'[v].status = IF next = NoChange THEN vm[v].status ELSE next
    <2>1. CASE next = NoChange
      BY <2>1, <1>5 DEF ApplyTaskStatus
    <2>2. CASE next # NoChange
      <3>1. vm' = [vm EXCEPT ![v].status = next, ![v].lastTask = t,
                     ![v].ip = IF ReleasesAddress(kind, status) THEN NoAddr ELSE @]
        BY <2>2 DEF ApplyTaskStatus
      <3>2. QED BY <3>1, <2>2, <1>1, <1>2 DEF SerialInv, Linked, TypeOK, Vm
    <2>3. QED BY <2>1, <2>2
  <1>7. ASSUME NEW w \in Vms, w # v
        PROVE  /\ ActiveTasksOf(w)' = ActiveTasksOf(w)
               /\ \A u \in ActiveTasksOf(w) : task'[u] = task[u]
    <2>1. \A u : u \in ActiveTasksOf(w)' <=> u \in ActiveTasksOf(w)
      BY <1>3, <1>7, ActiveTask, ActiveTaskNext
    <2>2. \A u \in ActiveTasksOf(w) : u \in TaskIds /\ u # t
      BY <1>7, ActiveTask
    <2>3. QED BY <2>1, <2>2, <1>3
  <1>8. ActiveTasksOf(v)' = IF status \in Active THEN {t} ELSE {}
    <2>1. t \in ActiveTasksOf(v)' <=> status \in Active
      BY <1>3, ActiveTaskNext
    <2>2. \A u \in ActiveTasksOf(v)' : u = t
      BY <1>3, <1>4, ActiveTask, ActiveTaskNext
    <2>3. QED BY <2>1, <2>2
  <1>9. ActiveTaskHoldsVm'
    BY <1>6, <1>7, <1>8 DEF SerialInv, ActiveTaskHoldsVm
  <1>10. /\ vm[v].status = "provisioning" <=> kind \in {"create", "reinstall"}
         /\ vm[v].status = "deleting" <=> kind = "delete"
    BY <1>1, <1>4, TransientExpanded DEF SerialInv, Provisions, Deletes
  <1>11. /\ vm'[v].status = "provisioning" <=> status \in Active /\ kind \in {"create", "reinstall"}
         /\ vm'[v].status = "deleting" <=> status \in Active /\ kind = "delete"
    <2>1. CASE status \in Active
      BY <2>1, <1>1, <1>6, <1>10
      DEF NextVmStatus, NoChange, Kinds, ActionKinds, Active, Unsuccessful
    <2>2. CASE status \in Terminal
      BY <2>2, <1>1, <1>6, <1>10
      DEF NextVmStatus, NoChange, Kinds, ActionKinds, Active, Terminal, Unsuccessful
    <2>3. QED BY <2>1, <2>2 DEF TaskStatuses
  <1>12. TransientWhileTaskActive'
    <2>1. ASSUME NEW w \in Vms, w # v
          PROVE  /\ vm'[w].status = "provisioning" <=> \E u \in ActiveTasksOf(w)' : Provisions(u)'
                 /\ vm'[w].status = "deleting" <=> \E u \in ActiveTasksOf(w)' : Deletes(u)'
      BY <2>1, <1>6, <1>7, TransientExpanded DEF SerialInv, Provisions, Deletes
    <2>2. /\ vm'[v].status = "provisioning" <=> \E u \in ActiveTasksOf(v)' : Provisions(u)'
          /\ vm'[v].status = "deleting" <=> \E u \in ActiveTasksOf(v)' : Deletes(u)'
      BY <1>3, <1>8, <1>11 DEF Provisions, Deletes
    <2>3. QED BY <2>1, <2>2, TransientExpandedNext
  <1>13. DeletedIsIdle'
    <2>1. ASSUME vm'[v].status = "deleted" PROVE ActiveTasksOf(v)' = {}
      <3>1. vm[v].status # "deleted"
        BY <1>1, <1>4 DEF SerialInv, DeletedIsIdle
      <3>2. next = "deleted"
        BY <2>1, <3>1, <1>6
      <3>3. status = "succeeded"
        BY <3>2 DEF NextVmStatus, NoChange
      <3>4. QED BY <3>3, <1>8 DEF Active
    <2>2. QED BY <2>1, <1>6, <1>7 DEF SerialInv, DeletedIsIdle
  <1>14. QED BY <1>5, <1>6, <1>9, <1>12, <1>13

LEMMA SerialInit == Init => SerialInv
  <1> SUFFICES ASSUME Init PROVE SerialInv
    OBVIOUS
  <1>1. Linked
    BY LinkedInit
  <1>2. \A v \in Vms : ActiveTasksOf(v) = {} /\ vm[v].status = "absent"
    <2>1. \A t \in TaskIds : ~Exists(t)
      BY DEF Init, Exists, AbsentTask
    <2>2. QED BY <2>1 DEF Init, AbsentVm, ActiveTasksOf, TasksOf
  <1>3. TransientWhileTaskActive
    BY <1>2, TransientExpanded
  <1>4. SnapshotHolds
    BY DEF Init, SnapshotHolds, Open, NoTx
  <1>5. QED BY <1>1, <1>2, <1>3, <1>4 DEF SerialInv, ActiveTaskHoldsVm, DeletedIsIdle

(* The only operator has no admission open once its own step is over,      *)
(* unless that step opened it.                                             *)
LEMMA SnapshotStep ==
  ASSUME OneOperator, SerialInv, [Next]_vars
  PROVE  SnapshotHolds'
  <1> SUFFICES ASSUME NEW op \in Operators, Open(op)'
               PROVE  /\ (vm[tx[op].vm].lastTask)' = tx'[op].lastTask
                      /\ tx'[op].lastStatus \in Terminal =>
                           (task[tx[op].lastTask].status)' = tx'[op].lastStatus
    BY DEF SnapshotHolds
  <1>1. CASE BeginSteps
    <2>1. PICK o \in Operators, t \in TaskIds, v \in Vms, kind \in Kinds, retry \in BOOLEAN :
            OpenAdmission(o, t, v, kind, retry)
      <3>1. \A s \in TaskIds : task[s].status \in Unsuccessful => task[s] \in Task
        BY ExistingTask DEF SerialInv, Linked, Exists, Unsuccessful
      <3>2. QED BY <1>1, <3>1 DEF BeginSteps, BeginAction, BeginRetry, Kinds, Task
    <2>2. o = op
      BY DEF OneOperator
    <2>3. /\ tx'[op].vm = v /\ tx'[op].lastTask = vm[v].lastTask
          /\ tx'[op].lastStatus = task[vm[v].lastTask].status
          /\ UNCHANGED <<task, vm>>
      BY <2>1, <2>2 DEF OpenAdmission, SerialInv, Linked, TypeOK
    <2>4. QED BY <2>3
  <1>2. ASSUME tx' = tx, \A v \in Vms : VmExists(v) => vm'[v].lastTask = vm[v].lastTask
        PROVE  /\ (vm[tx[op].vm].lastTask)' = tx'[op].lastTask
               /\ tx'[op].lastStatus \in Terminal =>
                    (task[tx[op].lastTask].status)' = tx'[op].lastStatus
    <2>1. Open(op) /\ tx[op] \in OpenTx /\ VmExists(tx[op].vm)
      BY <1>2, OpenTxType DEF Open, SerialInv, Linked, OpenTxsApart
    <2>2. /\ vm[tx[op].vm].lastTask = tx[op].lastTask
          /\ tx[op].lastStatus \in Terminal =>
               task[tx[op].lastTask].status = tx[op].lastStatus
      BY <2>1 DEF SerialInv, SnapshotHolds
    <2>3. tx[op].lastStatus \in Terminal => task'[tx[op].lastTask] = task[tx[op].lastTask]
      BY <2>1, <2>2, FinishedTaskStep DEF OpenTx, SerialInv
    <2>4. QED BY <2>1, <2>2, <2>3, <1>2 DEF OpenTx
  <1>3. CASE StatusSteps
    <2>1. PICK t \in TaskIds, status \in TaskStatuses :
            /\ task[t].status \in Active /\ status # "pending"
            /\ task' = [task EXCEPT ![t].status = status]
            /\ ApplyTaskStatus(t, status)
            /\ tx' = tx
      BY <1>3, StatusStepEffect DEF ValidAgentTransition
    <2>2. \A w \in Vms : VmExists(w) => vm'[w].lastTask = vm[w].lastTask
      BY <2>1, ApplyTaskStatusReserves
    <2>3. QED BY <1>2, <2>1, <2>2
  <1>4. CASE ClaimSteps \/ NodeSteps \/ UNCHANGED vars
    <2>1. UNCHANGED <<vm, tx>>
      BY <1>4 DEF ClaimSteps, ClaimNext, NodeSteps, SetScheduling, RecordHeartbeat,
                  HeartbeatGoesStale, vars
    <2>2. QED BY <1>2, <2>1
  <1>5. CASE CreateSteps
    <2>1. ~Open(op) /\ tx' = tx
      BY <1>5 DEF CreateSteps, CreateVm, OneOperator
    <2>2. QED BY <2>1 DEF Open
  <1>6. CASE \E o \in Operators : Admit(o) \/ Reject(o)
    <2>1. tx' = [tx EXCEPT ![op] = NoTx]
      BY <1>6 DEF Admit, Reject, OneOperator
    <2>2. ~Open(op)'
      BY <2>1 DEF Open, NoTx, SerialInv, Linked, TypeOK
    <2>3. QED BY <2>2
  <1>7. QED BY NextCases, <1>1, <1>3, <1>4, <1>5, <1>6

LEMMA SerialStep ==
  ASSUME OneOperator, SerialInv, [Next]_vars
  PROVE  SerialInv'
  <1>1. Linked' /\ SnapshotHolds'
    BY LinkedStep, SnapshotStep DEF SerialInv
  <1> SUFFICES ActiveTaskHoldsVm' /\ TransientWhileTaskActive' /\ DeletedIsIdle'
    BY <1>1 DEF SerialInv
  <1>2. CASE CreateSteps
    <2>1. PICK t \in TaskIds, v \in Vms, n \in Nodes :
            Unused(t) /\ ~VmExists(v) /\ InsertTask(t, "create", v, n)
      BY <1>2 DEF CreateSteps, CreateVm, IsNextId, TaskIds
    <2>2. ActiveTasksOf(v) = {}
      BY <2>1 DEF SerialInv, Linked, RowsLinked, ActiveTasksOf, TasksOf
    <2>3. QED BY <2>1, <2>2, InsertTaskReserves DEF Unused, Kinds
  <1>3. CASE StatusSteps
    <2>1. PICK t \in TaskIds, status \in TaskStatuses :
            /\ task[t].status \in Active /\ status # "pending"
            /\ task' = [task EXCEPT ![t].status = status]
            /\ ApplyTaskStatus(t, status)
      BY <1>3, StatusStepEffect DEF ValidAgentTransition
    <2>2. QED BY <2>1, ApplyTaskStatusReserves
  <1>4. CASE ClaimSteps
    <2>1. PICK n \in Nodes, t \in TaskIds : ClaimNext(n, t)
      BY <1>4 DEF ClaimSteps
    <2>2. task[t] \in Task /\ task[t].status = "pending"
      BY <2>1, ExistingTask DEF ClaimNext, SerialInv, Linked, Exists
    <2>3. /\ \A u \in TaskIds : u # t => task'[u] = task[u]
          /\ task'[t].status = "assigned" /\ task'[t].kind = task[t].kind
          /\ task'[t].vm = task[t].vm
          /\ vm' = vm
      BY <2>1, <2>2 DEF ClaimNext, SerialInv, Linked, TypeOK, Task
    <2>4. \A w \in Vms : ActiveTasksOf(w)' = ActiveTasksOf(w)
      <3>1. ASSUME NEW w \in Vms, NEW u
            PROVE  u \in ActiveTasksOf(w)' <=> u \in ActiveTasksOf(w)
        BY <2>2, <2>3, ActiveTask, ActiveTaskNext DEF Active
      <3>2. QED BY <3>1
    <2>5. \A u \in TaskIds : (Provisions(u)' <=> Provisions(u)) /\ (Deletes(u)' <=> Deletes(u))
      BY <2>3 DEF Provisions, Deletes
    <2>6. \A w \in Vms : \A u \in ActiveTasksOf(w) : u \in TaskIds
      BY ActiveTask
    <2>7. TransientWhileTaskActive'
      BY <2>3, <2>4, <2>5, <2>6, TransientExpanded, TransientExpandedNext DEF SerialInv
    <2>8. QED BY <2>3, <2>4, <2>7 DEF SerialInv, ActiveTaskHoldsVm, DeletedIsIdle
  <1>5. ASSUME NEW op \in Operators, Admit(op)
        PROVE  ActiveTaskHoldsVm' /\ TransientWhileTaskActive' /\ DeletedIsIdle'
    <2>1. /\ tx[op] \in OpenTx
          /\ ~Exists(tx[op].id) /\ VmExists(tx[op].vm) /\ vm[tx[op].vm] \in Vm
          /\ vm[tx[op].vm].status \in {"running", "stopped", "error"}
          /\ InsertTask(tx[op].id, tx[op].kind, tx[op].vm, vm[tx[op].vm].node)
      BY <1>5, AdmitUse DEF SerialInv
    <2>2. ActiveTasksOf(tx[op].vm) = {}
      BY <1>5, AdmittedVmIsFree
    <2>3. QED BY <2>1, <2>2, InsertTaskReserves DEF OpenTx, Vm
  <1>6. CASE UNCHANGED <<task, vm>>
    BY <1>6 DEF SerialInv, ActiveTaskHoldsVm, TransientWhileTaskActive, DeletedIsIdle,
                ActiveTasksOf, TasksOf, Exists
  <1>7. BeginSteps \/ NodeSteps \/ (\E op \in Operators : Reject(op)) \/ UNCHANGED vars
          => UNCHANGED <<task, vm>>
    BY DEF BeginSteps, BeginAction, BeginRetry, OpenAdmission, NodeSteps, SetScheduling,
           RecordHeartbeat, HeartbeatGoesStale, Reject, vars
  <1>8. QED BY NextCases, <1>2, <1>3, <1>4, <1>5, <1>6, <1>7

LEMMA SerialAlways == ASSUME OneOperator PROVE Spec => []SerialInv
  <1>1. SerialInv /\ [Next]_vars => SerialInv'
    BY SerialStep
  <1>2. QED BY SerialInit, <1>1, PTL DEF Spec

(* With admissions one at a time, an active task holds its VM: a VM never  *)
(* has two active tasks, so agents never work on a VM for two tasks.       *)
THEOREM ReservationHolds ==
  ASSUME OneOperator
  PROVE  Spec => []ActiveTaskHoldsVm
  <1>1. SerialInv => ActiveTaskHoldsVm
    BY DEF SerialInv
  <1>2. QED BY SerialAlways, <1>1, PTL

(* With admissions one at a time, no VM is left provisioning or deleting   *)
(* without an active task that will end it.                                *)
THEOREM TransientEnds ==
  ASSUME OneOperator
  PROVE  Spec => []TransientWhileTaskActive
  <1>1. SerialInv => TransientWhileTaskActive
    BY DEF SerialInv
  <1>2. QED BY SerialAlways, <1>1, PTL

LEMMA DeletedStep ==
  ASSUME SerialInv, [Next]_vars, NEW v \in Vms, vm[v].status = "deleted"
  PROVE  vm'[v] = vm[v]
  <1>1. VmExists(v)
    BY DEF VmExists
  <1>2. CASE CreateSteps
    <2>1. PICK t \in TaskIds, w \in Vms, n \in Nodes :
            ~VmExists(w) /\ InsertTask(t, "create", w, n)
      BY <1>2 DEF CreateSteps, CreateVm
    <2>2. QED BY <2>1, <1>1 DEF InsertTask, Enqueue, SerialInv, Linked, TypeOK
  <1>3. CASE StatusSteps
    <2>1. PICK t \in TaskIds, status \in TaskStatuses :
            task[t].status \in Active /\ ApplyTaskStatus(t, status)
      BY <1>3, StatusStepEffect
    <2>2. task[t].vm # v
      BY <2>1, ActiveTask DEF SerialInv, DeletedIsIdle
    <2>3. QED BY <2>1, <2>2 DEF ApplyTaskStatus, SerialInv, Linked, TypeOK
  <1>4. ASSUME NEW op \in Operators, Admit(op)
        PROVE  vm'[v] = vm[v]
    <2>1. /\ vm[tx[op].vm].status # "deleted"
          /\ InsertTask(tx[op].id, tx[op].kind, tx[op].vm, vm[tx[op].vm].node)
      BY <1>4, AdmitUse DEF SerialInv
    <2>2. tx[op].vm # v
      BY <2>1
    <2>3. QED BY <2>1, <2>2 DEF InsertTask, Enqueue, SerialInv, Linked, TypeOK
  <1>5. BeginSteps \/ ClaimSteps \/ NodeSteps \/ (\E op \in Operators : Reject(op))
          \/ UNCHANGED vars => vm' = vm
    BY DEF BeginSteps, BeginAction, BeginRetry, OpenAdmission, ClaimSteps, ClaimNext,
           NodeSteps, SetScheduling, RecordHeartbeat, HeartbeatGoesStale, Reject, vars
  <1>6. QED BY NextCases, <1>2, <1>3, <1>4, <1>5

(* With admissions one at a time, the row of a deleted VM never changes.   *)
THEOREM DeletedStaysDeleted ==
  ASSUME OneOperator
  PROVE  Spec => DeletedIsFinal
  <1>1. SerialInv /\ [Next]_vars =>
          [\A v \in Vms : vm[v].status = "deleted" => vm'[v] = vm[v]]_vars
    BY DeletedStep
  <1>2. QED BY <1>1, SerialAlways, PTL DEF Spec, DeletedIsFinal

-----------------------------------------------------------------------------
(* Master implements VmReservation.                                        *)

Stages == [t \in TaskIds |-> StageOf(task[t].status)]
Owners == [t \in TaskIds |-> IF Exists(t) THEN task[t].vm ELSE NoVm]

LEMMA StageNext ==
  ASSUME NEW t \in TaskIds, NEW status \in TaskStatuses, Linked, Exists(t),
         task' = [task EXCEPT ![t].status = status]
  PROVE  /\ Stages' = [Stages EXCEPT ![t] = StageOf(status)]
         /\ Owners' = Owners
  <1>1. task[t] \in Task
    BY ExistingTask DEF Linked
  <1>2. /\ \A u \in TaskIds : u # t => task'[u] = task[u]
        /\ task'[t].status = status /\ task'[t].vm = task[t].vm
    BY <1>1 DEF Linked, TypeOK, Task
  <1>3. Exists(t)'
    BY <1>2 DEF Exists, TaskStatuses, Active, Terminal, Unsuccessful
  <1>4. Stages' = [Stages EXCEPT ![t] = StageOf(status)]
    BY <1>2 DEF Stages, StageOf
  <1>5. Owners' = Owners
    BY <1>2, <1>3 DEF Owners, Exists
  <1>6. QED BY <1>4, <1>5

(* A task inserted for a VM without active tasks queues a job for a VM     *)
(* that is not reserved.                                                   *)
LEMMA InsertTaskQueues ==
  ASSUME Linked, NEW t \in TaskIds, ~Exists(t), NEW kind \in Kinds, NEW v \in Vms,
         NEW n \in Nodes, ActiveTasksOf(v) = {}, InsertTask(t, kind, v, n)
  PROVE  Reservation!Queue(t, v)
  <1>1. PICK ip \in Addrs \union {NoAddr} :
          task' = [task EXCEPT ![t] = [kind |-> kind, vm |-> v, node |-> n,
                                       status |-> "pending", ip |-> ip]]
    BY DEF InsertTask, Enqueue
  <1>2. /\ \A u \in TaskIds : u # t => task'[u] = task[u]
        /\ task'[t].status = "pending" /\ task'[t].vm = v
    BY <1>1 DEF Linked, TypeOK
  <1>3. Stages[t] = "unused"
    BY DEF Stages, StageOf, Exists
  <1>4. Stages' = [Stages EXCEPT ![t] = "queued"]
    BY <1>2 DEF Stages, StageOf
  <1>5. Owners' = [Owners EXCEPT ![t] = v]
    BY <1>2 DEF Owners, Exists
  <1>6. ASSUME NEW u \in TaskIds, Owners[u] = v, Stages[u] \in {"queued", "working"}
        PROVE  FALSE
    <2>1. task[u].status \in Active
      <3>1. task[u].status \in {"pending", "assigned", "running"}
        BY <1>6 DEF Stages, StageOf
      <3>2. QED BY <3>1 DEF Active
    <2>2. task[u].vm = v
      BY <1>6, <2>1 DEF Owners, Exists, Active
    <2>3. QED BY <2>1, <2>2, ActiveTask
  <1>7. QED
    BY <1>3, <1>4, <1>5, <1>6 DEF Reservation!Queue, Reservation!Reserved, Stages, Owners

LEMMA RefinementInit == Init => Reservation!Init
  BY DEF Init, Reservation!Init, StageOf, Exists, AbsentTask

LEMMA RefinementStep ==
  ASSUME SerialInv, [Next]_vars
  PROVE  [Reservation!Next]_<<Stages, Owners>>
  <1>1. CASE CreateSteps
    <2>1. PICK t \in TaskIds, v \in Vms, n \in Nodes :
            Unused(t) /\ ~VmExists(v) /\ InsertTask(t, "create", v, n)
      BY <1>1 DEF CreateSteps, CreateVm, IsNextId, TaskIds
    <2>2. ActiveTasksOf(v) = {}
      BY <2>1 DEF SerialInv, Linked, RowsLinked, ActiveTasksOf, TasksOf
    <2>3. Reservation!Queue(t, v)
      BY <2>1, <2>2, InsertTaskQueues DEF Unused, Kinds, SerialInv
    <2>4. QED BY <2>3 DEF Reservation!Next
  <1>2. ASSUME NEW op \in Operators, Admit(op)
        PROVE  Reservation!Next
    <2>1. /\ tx[op] \in OpenTx /\ vm[tx[op].vm] \in Vm
          /\ ~Exists(tx[op].id)
          /\ InsertTask(tx[op].id, tx[op].kind, tx[op].vm, vm[tx[op].vm].node)
      BY <1>2, AdmitUse DEF SerialInv
    <2>2. PICK t \in TaskIds, v \in Vms : t = tx[op].id /\ v = tx[op].vm
      BY <2>1 DEF OpenTx
    <2>3. PICK kind \in Kinds, n \in Nodes : ~Exists(t) /\ InsertTask(t, kind, v, n)
      BY <2>1, <2>2 DEF OpenTx, Vm
    <2>4. ActiveTasksOf(v) = {}
      BY <1>2, <2>2, AdmittedVmIsFree
    <2>5. Reservation!Queue(t, v)
      BY <2>3, <2>4, InsertTaskQueues DEF SerialInv
    <2>6. QED BY <2>5 DEF Reservation!Next
  <1>3. CASE StatusSteps
    <2>1. PICK t \in TaskIds, status \in TaskStatuses :
            /\ task[t].status \in Active
            /\ \/ status = "canceled" /\ task[t].status \in {"pending", "assigned"}
               \/ ValidAgentTransition(task[t].status, status)
            /\ task' = [task EXCEPT ![t].status = status]
      BY <1>3, StatusStepEffect
    <2>2. /\ Stages' = [Stages EXCEPT ![t] = StageOf(status)]
          /\ Owners' = Owners
      BY <2>1, StageNext DEF SerialInv, Exists, Active
    <2>3. Stages[t] = StageOf(task[t].status)
      BY DEF Stages
    <2>4. CASE task[t].status = "running"
      <3>1. Stages[t] = "working" /\ StageOf(status) \in {"succeeded", "ended"}
        BY <2>1, <2>3, <2>4 DEF StageOf, ValidAgentTransition
      <3>2. Reservation!Succeed(t) \/ Reservation!GiveUp(t)
        BY <3>1, <2>2
        DEF Reservation!Succeed, Reservation!GiveUp, Reservation!Move, Stages, Owners
      <3>3. QED BY <3>2 DEF Reservation!Next
    <2>5. CASE task[t].status \in {"pending", "assigned"}
      <3>1. Stages[t] = "queued" /\ StageOf(status) \in {"working", "ended"}
        BY <2>1, <2>3, <2>5 DEF StageOf, ValidAgentTransition
      <3>2. Reservation!BeginWork(t) \/ Reservation!GiveUp(t)
        BY <3>1, <2>2
        DEF Reservation!BeginWork, Reservation!GiveUp, Reservation!Move, Stages, Owners
      <3>3. QED BY <3>2 DEF Reservation!Next
    <2>6. QED BY <2>1, <2>4, <2>5 DEF Active
  <1>4. CASE ClaimSteps
    <2>1. PICK n \in Nodes, t \in TaskIds : ClaimNext(n, t)
      BY <1>4 DEF ClaimSteps
    <2>2. /\ task[t].status = "pending"
          /\ task' = [task EXCEPT ![t].status = "assigned"]
      BY <2>1 DEF ClaimNext
    <2>3. /\ Stages' = [Stages EXCEPT ![t] = StageOf("assigned")]
          /\ Owners' = Owners
      BY <2>2, StageNext DEF SerialInv, Exists, TaskStatuses, Active
    <2>4. Stages[t] = "queued" /\ StageOf("assigned") = "queued"
      BY <2>2 DEF Stages, StageOf
    <2>5. Stages' = Stages
      BY <2>3, <2>4 DEF Stages
    <2>6. QED BY <2>3, <2>5
  <1>5. CASE UNCHANGED task
    BY <1>5 DEF Stages, Owners, Exists
  <1>6. BeginSteps \/ NodeSteps \/ (\E op \in Operators : Reject(op)) \/ UNCHANGED vars
          => UNCHANGED task
    BY DEF BeginSteps, BeginAction, BeginRetry, OpenAdmission, NodeSteps, SetScheduling,
           RecordHeartbeat, HeartbeatGoesStale, Reject, vars
  <1>7. QED BY NextCases, <1>1, <1>2, <1>3, <1>4, <1>5, <1>6

(* With admissions one at a time, Master implements VmReservation: every   *)
(* handler is one of its steps or changes nothing that it can see.         *)
THEOREM ImplementsReservation ==
  ASSUME OneOperator
  PROVE  Spec => ReservationSpec
  <1>1. SerialInv /\ [Next]_vars => [Reservation!Next]_<<Stages, Owners>>
    BY RefinementStep
  <1>2. QED
    BY RefinementInit, <1>1, SerialAlways, PTL
    DEF Spec, ReservationSpec, Reservation!Spec, Reservation!reservationVars, Stages, Owners
=============================================================================
