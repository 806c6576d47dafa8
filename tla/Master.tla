------------------------------- MODULE Master -------------------------------
(***************************************************************************)
(* The task and VM inventory state machine of the VirtForge master         *)
(* (master/src/http, tasks, vms, ipam, nodes).                             *)
(*                                                                         *)
(* The state is the PostgreSQL database: the rows of tasks, vms, the       *)
(* active rows of ip_allocations and the part of nodes that admission      *)
(* reads.  Every handler runs in one READ COMMITTED transaction that ends  *)
(* with its audit row, so a handler is one action, with one exception: the *)
(* admission of a follow-up task on an existing VM.  Its first statement   *)
(*                                                                         *)
(*   SELECT v.status, t.status FROM vms v LEFT JOIN tasks t                *)
(*   ON t.id = v.last_task_id WHERE ... FOR UPDATE OF v                    *)
(*                                                                         *)
(* takes its snapshot (Begin) before it holds the lock of v (Admit).  When *)
(* v was updated in between, PostgreSQL re-evaluates the join for the new  *)
(* version of v but only with the version of t that the snapshot found: if *)
(* last_task_id moved to another row, that row is not seen and the LEFT    *)
(* JOIN yields NULL for t.status.  LastStatusSeen models that rule.        *)
(*                                                                         *)
(* Plan, image and payload checks only reject a request, and a rejected    *)
(* request is rolled back: the model admits every request those checks     *)
(* could let through.                                                      *)
(***************************************************************************)
EXTENDS Lifecycle, Integers, FiniteSets

CONSTANTS
  Nodes,      \* registered nodes: their credential_hash is set
  Vms,        \* VM ids that create requests may use
  Pooled,     \* the VMs whose create request names an IP pool
  Operators,  \* administrators whose requests may overlap
  MaxTasks,   \* bound: task rows that are ever inserted
  Addrs,      \* usable addresses of the IP pool
  Capacity,   \* VMs of the requested size that fit a node; 0 when unreported
  NoVm, NoTask, NoAddr

TaskIds == 1 .. MaxTasks

ASSUME BoundsAssumption ==
  /\ MaxTasks \in Nat
  /\ Capacity \in Nat
ASSUME PooledAssumption == Pooled \subseteq Vms
ASSUME NullAssumption ==
  /\ NoVm \notin Vms
  /\ NoTask \notin TaskIds
  /\ NoAddr \notin Addrs

VARIABLES
  task,   \* the tasks table; an unused id has the status "absent"
  vm,     \* the vms table; an unused id has the status "absent"
  alloc,  \* the active rows of ip_allocations, by address
  node,   \* the columns of nodes that admission reads
  tx      \* the admission transaction each operator has open

vars == <<task, vm, alloc, node, tx>>

-----------------------------------------------------------------------------
(* Types.                                                                  *)

Task == [kind: Kinds, vm: Vms, node: Nodes, status: TaskStatuses,
         ip: Addrs \union {NoAddr}]
AbsentTask == [status |-> "absent"]

Vm == [status: VmStatuses, node: Nodes, lastTask: TaskIds,
       ip: Addrs \union {NoAddr}]
AbsentVm == [status |-> "absent"]

Allocation == [vm: Vms, task: TaskIds]
Free == [vm |-> NoVm, task |-> NoTask]

NodeRow == [scheduling: BOOLEAN, ready: BOOLEAN]

(* An open admission: the id its task will get, the request, and what the  *)
(* snapshot of the join found.                                             *)
OpenTx == [id: TaskIds, kind: Kinds, retry: BOOLEAN, vm: Vms,
           lastTask: TaskIds, lastStatus: TaskStatuses]
NoTx == [id |-> NoTask]

TypeOK ==
  /\ task  \in [TaskIds -> Task \union {AbsentTask}]
  /\ vm    \in [Vms -> Vm \union {AbsentVm}]
  /\ alloc \in [Addrs -> Allocation \union {Free}]
  /\ node  \in [Nodes -> NodeRow]
  /\ tx    \in [Operators -> OpenTx \union {NoTx}]

-----------------------------------------------------------------------------
(* Views of the tables.                                                    *)

Exists(t)   == task[t].status # "absent"
VmExists(v) == vm[v].status # "absent"
Open(op)    == tx[op].id # NoTask

TasksOf(v)       == {t \in TaskIds : Exists(t) /\ task[t].vm = v}
ActiveTasksOf(v) == {t \in TasksOf(v) : task[t].status \in Active}

(* The next id: ids are UUIDs, and which one is taken makes no difference. *)
Unused(t) == ~Exists(t) /\ \A op \in Operators : tx[op].id # t
IsNextId(t) ==
  /\ t \in TaskIds
  /\ \A u \in TaskIds : u >= t => Unused(u)
  /\ \A u \in TaskIds : u + 1 = t => ~Unused(u)

CommittedVms(n) == {v \in Vms : vm[v].status \in Committed /\ vm[v].node = n}
HasCapacity(n)  == Capacity = 0 \/ Cardinality(CommittedVms(n)) + 1 <= Capacity

(* Mutant: the active-VM index does not keep a VM from a second address.   *)
NextAddressForAnyVm(v, a) == alloc[a] = Free

(* The address reserve_next_for_vm_in_tx inserts: free, and none for a VM  *)
(* that still holds an active allocation.  The code tries the addresses in *)
(* order, but skips those its earlier read of the allocations found taken  *)
(* and those a concurrent reservation holds: any free one may come out.    *)
NextAddress(v, a) ==
  /\ alloc[a] = Free
  /\ \A b \in Addrs : alloc[b].vm # v

(* ensure_node_accepts_task_in_tx *)
NodeAccepts(n, kind) ==
  /\ node[n].scheduling
  /\ kind = "create" => node[n].ready

-----------------------------------------------------------------------------
(* Effects shared by the handlers.                                         *)

(* Mutant: apply_task_status_in_tx without its early return.               *)
ApplyTaskStatusAlways(t, status) ==
  /\ vm' = [vm EXCEPT ![task[t].vm].status = NextVmStatus(task[t].kind, status),
                      ![task[t].vm].lastTask = t]
  /\ UNCHANGED alloc

(* apply_task_status_in_tx, for task t that just moved to status: the VM   *)
(* row is written whatever its own status is, and last_task_id becomes t.  *)
ApplyTaskStatus(t, status) ==
  LET kind == task[t].kind
      v    == task[t].vm
      next == NextVmStatus(kind, status)
      released == ReleasesAddress(kind, status)
  IN  /\ vm' = IF next = NoChange THEN vm
               ELSE [vm EXCEPT ![v].status = next,
                               ![v].lastTask = t,
                               ![v].ip = IF released THEN NoAddr ELSE @]
      /\ alloc' = IF released
                  THEN [a \in Addrs |-> IF alloc[a].vm = v THEN Free ELSE alloc[a]]
                  ELSE alloc

(* What the admission of a task writes: the task, the allocation attached  *)
(* to it, and the VM row, which is new, retried or acted upon.             *)
Enqueue(t, kind, v, n, ip) ==
  /\ task' = [task EXCEPT ![t] = [kind |-> kind, vm |-> v, node |-> n,
                                  status |-> "pending", ip |-> ip]]
  /\ alloc' = IF ip = NoAddr THEN alloc
              ELSE [alloc EXCEPT ![ip] = [vm |-> v, task |-> t]]
  /\ vm' = [vm EXCEPT ![v] =
              [status   |-> QueuedStatus(kind, vm[v].status),
               node     |-> n,
               lastTask |-> t,
               ip       |-> IF ip # NoAddr \/ ~VmExists(v) THEN ip ELSE vm[v].ip]]

(* tasks::create_in_tx with the checks of the node and the reservation of  *)
(* an address before it.                                                   *)
InsertTask(t, kind, v, n) ==
  /\ NodeAccepts(n, kind)
  /\ kind = "create" => HasCapacity(n)
  /\ \E ip \in Addrs \union {NoAddr} :
       /\ IF kind = "create" /\ v \in Pooled
          THEN ip # NoAddr /\ NextAddress(v, ip)
          ELSE ip = NoAddr
       /\ Enqueue(t, kind, v, n, ip)

-----------------------------------------------------------------------------
(* Admission by operators.                                                 *)

(* POST /tasks/create-vm: the VM row is new, so nothing is read from it.   *)
CreateVm(op, t, v, n) ==
  /\ ~Open(op)
  /\ IsNextId(t)
  /\ ~VmExists(v)
  /\ InsertTask(t, "create", v, n)
  /\ UNCHANGED <<node, tx>>

OpenAdmission(op, t, v, kind, retry) ==
  /\ ~Open(op)
  /\ IsNextId(t)
  /\ VmExists(v)
  /\ tx' = [tx EXCEPT ![op] =
       [id |-> t, kind |-> kind, retry |-> retry, vm |-> v,
        lastTask   |-> vm[v].lastTask,
        lastStatus |-> task[vm[v].lastTask].status]]
  /\ UNCHANGED <<task, vm, alloc, node>>

(* start-vm, stop-vm, reboot-vm, reinstall-vm, delete-vm: begin and take   *)
(* the snapshot of the lifecycle query.                                    *)
BeginAction(op, t, v, kind) ==
  /\ kind \in ActionKinds
  /\ OpenAdmission(op, t, v, kind, FALSE)

(* POST /tasks/:id/retry reads the source task s before its transaction;   *)
(* s is terminal and so will not change.                                   *)
BeginRetry(op, t, s) ==
  /\ task[s].status \in Unsuccessful
  /\ OpenAdmission(op, t, task[s].vm, task[s].kind, TRUE)

(* What FOR UPDATE OF v returns for t.status once the lock is granted.     *)
Null == "null"
LastStatusSeen(op) ==
  IF vm[tx[op].vm].lastTask = tx[op].lastTask THEN tx[op].lastStatus ELSE Null

(* Mutant: the admission without has_active_task.                          *)
AdmissionIgnoringLastTask(op) ==
  IF tx[op].retry
  THEN RetryAllowed(tx[op].kind, vm[tx[op].vm].status)
  ELSE ActionAllowed(tx[op].kind, vm[tx[op].vm].status)

(* validate_action_allowed and validate_retry_allowed *)
AdmissionAllowed(op) ==
  /\ LastStatusSeen(op) \notin Active
  /\ IF tx[op].retry
     THEN RetryAllowed(tx[op].kind, vm[tx[op].vm].status)
     ELSE ActionAllowed(tx[op].kind, vm[tx[op].vm].status)

(* The lock is granted, the checks pass, the task is queued and committed. *)
Admit(op) ==
  /\ Open(op)
  /\ AdmissionAllowed(op)
  /\ InsertTask(tx[op].id, tx[op].kind, tx[op].vm, vm[tx[op].vm].node)
  /\ tx' = [tx EXCEPT ![op] = NoTx]
  /\ UNCHANGED node

(* Any check fails or the connection is lost: the transaction rolls back.  *)
Reject(op) ==
  /\ Open(op)
  /\ tx' = [tx EXCEPT ![op] = NoTx]
  /\ UNCHANGED <<task, vm, alloc, node>>

(* Mutant: a cancel that does not test the status of the task.             *)
CancelAnyTask(t) ==
  /\ Exists(t)
  /\ task' = [task EXCEPT ![t].status = "canceled"]
  /\ ApplyTaskStatus(t, "canceled")
  /\ UNCHANGED <<node, tx>>

(* POST /tasks/:id/cancel *)
CancelTask(t) ==
  /\ task[t].status \in {"pending", "assigned"}
  /\ task' = [task EXCEPT ![t].status = "canceled"]
  /\ ApplyTaskStatus(t, "canceled")
  /\ UNCHANGED <<node, tx>>

-----------------------------------------------------------------------------
(* Requests of a node's agent.                                             *)

(* Mutant: a poll hands out again what an agent left unfinished.           *)
ClaimNextUnfinished(n, t) ==
  /\ node[n].scheduling
  /\ Exists(t) /\ task[t].status \in Active /\ task[t].node = n
  /\ task' = [task EXCEPT ![t].status = "assigned"]
  /\ UNCHANGED <<vm, alloc, node, tx>>

(* CLAIM_NEXT_FOR_NODE_SQL: a pending task of a node that is admitted for  *)
(* scheduling.  It is the oldest by created_at, which is the time its      *)
(* transaction began, of those the snapshot of the statement has and SKIP  *)
(* LOCKED does not leave out: any of them, from the point of view of the   *)
(* order in which they were committed.                                     *)
ClaimNext(n, t) ==
  /\ node[n].scheduling
  /\ task[t].status = "pending" /\ task[t].node = n
  /\ task' = [task EXCEPT ![t].status = "assigned"]
  /\ UNCHANGED <<vm, alloc, node, tx>>

CanClaim(n) ==
  node[n].scheduling /\ \E t \in TaskIds : task[t].status = "pending" /\ task[t].node = n

(* POST /agent/tasks/:id/status *)
UpdateStatus(n, t, status) ==
  /\ Exists(t) /\ task[t].node = n
  /\ ValidAgentTransition(task[t].status, status)
  /\ task' = [task EXCEPT ![t].status = status]
  /\ ApplyTaskStatus(t, status)
  /\ UNCHANGED <<node, tx>>

-----------------------------------------------------------------------------
(* Node state.                                                             *)

(* PATCH /nodes/:id/scheduling *)
SetScheduling(n, enabled) ==
  /\ node[n].scheduling # enabled
  /\ node' = [node EXCEPT ![n].scheduling = enabled]
  /\ UNCHANGED <<task, vm, alloc, tx>>

(* POST /agent/heartbeat: the node is online and fresh, and accepts create *)
(* tasks unless the report says that libvirt is unavailable.               *)
RecordHeartbeat(n, available) ==
  /\ node' = [node EXCEPT ![n].ready = available]
  /\ UNCHANGED <<task, vm, alloc, tx>>

(* Two hours pass without a heartbeat.                                     *)
HeartbeatGoesStale(n) ==
  /\ node[n].ready
  /\ node' = [node EXCEPT ![n].ready = FALSE]
  /\ UNCHANGED <<task, vm, alloc, tx>>

-----------------------------------------------------------------------------
Init ==
  /\ task  = [t \in TaskIds |-> AbsentTask]
  /\ vm    = [v \in Vms |-> AbsentVm]
  /\ alloc = [a \in Addrs |-> Free]
  /\ node  = [n \in Nodes |-> [scheduling |-> TRUE, ready |-> FALSE]]
  /\ tx    = [op \in Operators |-> NoTx]

OperatorStep(op) ==
  \/ \E t \in TaskIds, v \in Vms, n \in Nodes : CreateVm(op, t, v, n)
  \/ \E t \in TaskIds, v \in Vms, kind \in ActionKinds : BeginAction(op, t, v, kind)
  \/ \E t \in TaskIds, s \in TaskIds : BeginRetry(op, t, s)
  \/ Admit(op)
  \/ Reject(op)

AdminStep ==
  \/ \E t \in TaskIds : CancelTask(t)
  \/ \E n \in Nodes, enabled \in BOOLEAN : SetScheduling(n, enabled)

AgentStep(n) ==
  \/ \E t \in TaskIds : ClaimNext(n, t)
  \/ \E t \in TaskIds, status \in TaskStatuses : UpdateStatus(n, t, status)
  \/ \E available \in BOOLEAN : RecordHeartbeat(n, available)

Next ==
  \/ \E op \in Operators : OperatorStep(op)
  \/ AdminStep
  \/ \E n \in Nodes : AgentStep(n) \/ HeartbeatGoesStale(n)

Spec == Init /\ [][Next]_vars

-----------------------------------------------------------------------------
(* Safety properties.                                                      *)

(* The reservation of a VM: an active task of a VM is always the one its   *)
(* last_task_id points at, so a VM never has two.  DESIGN.md promises it   *)
(* of the FOR UPDATE OF v admission; it rests on the lifecycle query, on   *)
(* every handler that writes last_task_id and on apply_task_status_in_tx.  *)
ActiveTaskHoldsVm ==
  \A v \in Vms : \A t \in ActiveTasksOf(v) : vm[v].lastTask = t

(* A VM is provisioning or deleting only while a task that will end that   *)
(* is active, and whenever such a task runs the VM shows it: no handler    *)
(* leaves a VM in a status from which no action is allowed.                *)
TransientWhileTaskActive ==
  \A v \in Vms :
    LET working == {task[t].kind : t \in ActiveTasksOf(v)}
    IN  /\ vm[v].status = "provisioning" <=> working \intersect {"create", "reinstall"} # {}
        /\ vm[v].status = "deleting" <=> "delete" \in working

(* The three records of an address agree: assigned_ip of the VM row, the   *)
(* active allocation, and the payload of the create task it is attached    *)
(* to, whichever of creation, cancellation, failure, retry and deletion    *)
(* wrote them last.                                                        *)
AddressRecordsAgree ==
  /\ \A v \in Vms, a \in Addrs : VmExists(v) => (vm[v].ip = a <=> alloc[a].vm = v)
  /\ \A a \in Addrs : alloc[a] # Free =>
       LET t == alloc[a].task
       IN  /\ VmExists(alloc[a].vm)
           /\ task[t].status \in {"pending", "assigned", "running", "succeeded"}
           /\ task[t].kind = "create" /\ task[t].vm = alloc[a].vm /\ task[t].ip = a

(* A deleted VM stays deleted: no late status report, retry or action      *)
(* brings its row back (apply_task_status_in_tx does not test the status). *)
DeletedIsFinal ==
  [][\A v \in Vms : vm[v].status = "deleted" => vm'[v] = vm[v]]_vars

(* A finished task is history: its row never changes again, which is what  *)
(* lets retry_task read it before its transaction begins.                  *)
FinishedTaskIsImmutable ==
  [][\A t \in TaskIds : task[t].status \in Terminal => task'[t] = task[t]]_vars

-----------------------------------------------------------------------------
(* Strengthenings: what the safety properties rest on.                     *)

(* Every VM row points at a task of that VM, every task at a VM row.       *)
RowsLinked ==
  /\ \A v \in Vms : VmExists(v) =>
       Exists(vm[v].lastTask) /\ task[vm[v].lastTask].vm = v
  /\ \A t \in TaskIds : Exists(t) => VmExists(task[t].vm)

(* The id of an open admission is nobody else's, and its VM exists.        *)
OpenTxsApart ==
  \A op \in Operators : Open(op) =>
    /\ ~Exists(tx[op].id)
    /\ VmExists(tx[op].vm)
    /\ \A other \in Operators : tx[other].id = tx[op].id => other = op

(* What the snapshot of an open admission found still holds: last_task_id  *)
(* has not moved, and a task that was finished still is.                   *)
SnapshotHolds ==
  \A op \in Operators : Open(op) =>
    /\ vm[tx[op].vm].lastTask = tx[op].lastTask
    /\ tx[op].lastStatus \in Terminal =>
         task[tx[op].lastTask].status = tx[op].lastStatus

(* Nothing is left to do on a deleted VM.                                  *)
DeletedIsIdle ==
  \A v \in Vms : vm[v].status = "deleted" => ActiveTasksOf(v) = {}

Linked == TypeOK /\ RowsLinked /\ OpenTxsApart

(* Admissions never overlap.                                               *)
OneOperator == \A a, b \in Operators : a = b

SerialInv ==
  /\ Linked
  /\ ActiveTaskHoldsVm
  /\ TransientWhileTaskActive
  /\ SnapshotHolds
  /\ DeletedIsIdle

-----------------------------------------------------------------------------
(* The promise to the operators.                                           *)

StageOf(status) ==
  CASE status = "absent"                   -> "unused"
    [] status \in {"pending", "assigned"}  -> "queued"
    [] status = "running"                  -> "working"
    [] status = "succeeded"                -> "succeeded"
    [] OTHER                               -> "ended"

Reservation == INSTANCE VmReservation WITH
  Jobs  <- TaskIds,
  stage <- [t \in TaskIds |-> StageOf(task[t].status)],
  holds <- [t \in TaskIds |-> IF Exists(t) THEN task[t].vm ELSE NoVm]

(* Tasks reserve their VM and their history only moves forward, as         *)
(* VmReservation states it.  Holds when admissions do not overlap.         *)
ReservationSpec == Reservation!Spec
=============================================================================
