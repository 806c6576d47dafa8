---------------------------- MODULE Transactions ----------------------------
(***************************************************************************)
(* The handlers of Master, statement by statement: what their READ         *)
(* COMMITTED transactions read, lock and wait for while others do the same *)
(* (master/src/http, tasks, vms, nodes, ipam, audit).                      *)
(*                                                                         *)
(* Each connection runs one transaction at a time.  A transaction reads    *)
(* what its handler reads without a lock, obtains the locks of its         *)
(* statements in their order, tests what each of them tests when the lock  *)
(* is granted, and either commits all its writes or none.  The tables of   *)
(* Master hold what is committed; a row that a transaction has written is  *)
(* locked until it ends, so nobody else can have seen it before.           *)
(*                                                                         *)
(* AtomicHandlers is Master's own specification: every commit is a step of *)
(* Master.  What Master claims of whole handlers rests on the locks taken  *)
(* here and on the order they are taken in.                                *)
(*                                                                         *)
(* The rows of plans, images and ip_pools are only read (FOR SHARE or      *)
(* through foreign keys); the rows of logs are only inserted.  They make   *)
(* nobody wait and are left out.                                           *)
(***************************************************************************)
EXTENDS Master, Sequences

ASSUME AddressesAreOrdered == Addrs \subseteq Nat

VARIABLES
  session,  \* the transaction each connection has open
  locks     \* row locks granted and not yet given up

dbVars == <<task, vm, alloc, node, tx>>
allVars == <<task, vm, alloc, node, tx, session, locks>>

-----------------------------------------------------------------------------
(* Locks.                                                                  *)

(* The rows of nodes, vms and tasks, and the keys of the two unique        *)
(* indexes over active allocations, by address and by VM.  Whoever inserts *)
(* a key waits for a transaction that has inserted or released it.         *)
NodeOf(n)    == <<"node", n>>
VmOf(v)      == <<"vm", v>>
TaskOf(t)    == <<"task", t>>
AddressOf(a) == <<"address", a>>
HolderOf(v)  == <<"holder", v>>

Rows == {NodeOf(n) : n \in Nodes} \union {VmOf(v) : v \in Vms}
          \union {TaskOf(t) : t \in TaskIds}
          \union {AddressOf(a) : a \in Addrs} \union {HolderOf(v) : v \in Vms}

(* FOR KEY SHARE (a foreign key check), FOR NO KEY UPDATE (an UPDATE that  *)
(* leaves the keys alone), FOR UPDATE, and the INSERT of a row of vms.     *)
Modes == {"key share", "no key update", "update", "insert"}

(* An INSERT waits for whoever inserts or updates the row of its key, and  *)
(* not for whoever has only locked it: it then finds the key in use.  An   *)
(* admission updates the row it has locked when it waits for nobody more.  *)
Conflict(a, b) ==
  IF "insert" \in {a, b}
  THEN {a, b} \subseteq {"insert", "no key update"}
  ELSE a = "update" \/ b = "update" \/ (a = "no key update" /\ b = "no key update")

Lock == [by: Operators, row: Rows, mode: Modes]

-----------------------------------------------------------------------------
(* Handlers and their statements.                                          *)

Handlers == {"create", "admit", "cancel", "report", "claim", "scheduling", "heartbeat"}

(* Mutant: an address is reserved before the node is locked.               *)
CreateReservingFirst == <<"pool", "address", "node", "vm">>

(* Mutant: a poll does not lock the node.                                  *)
ClaimWithoutNode == <<"task">>

(* The order in which a handler reaches the rows.  Statements that touch   *)
(* only rows the transaction has already locked are left out: the task it  *)
(* inserted, the VM it updates again, the node of its audit row.           *)
CreateStatements == <<"node", "pool", "address", "vm">>
AdmitStatements  == <<"vm", "node", "pool", "address">>
EndStatements    == <<"task", "vm", "release", "audit">>
ClaimStatements  == <<"node", "task">>
NodeStatements   == <<"node">>

Statements(handler) ==
  CASE handler = "create"                 -> CreateStatements
    [] handler = "admit"                  -> AdmitStatements
    [] handler \in {"cancel", "report"}   -> EndStatements
    [] handler = "claim"                  -> ClaimStatements
    [] OTHER                              -> NodeStatements

(* An open transaction: the request, what its first read found (from: the  *)
(* status of the task; seen: the pending tasks in the snapshot of a poll;  *)
(* known: the addresses it takes for unavailable), the address it has      *)
(* inserted, and the statement it is at.                                   *)
Session == [handler: Handlers, node: Nodes, vm: Vms \union {NoVm},
            task: TaskIds \union {NoTask},
            from: TaskStatuses \union {"none"},
            to: TaskStatuses \union {"none", "on", "off"},
            seen: SUBSET TaskIds, known: SUBSET Addrs,
            ip: Addrs \union {NoAddr}, at: 1 .. 5]
Closed == [handler |-> "none"]

Busy(s)       == session[s] # Closed
Statement(s)  == Statements(session[s].handler)[session[s].at]
Finished(s)   == session[s].at > Len(Statements(session[s].handler))
Executing(s)  == Busy(s) /\ ~Finished(s)

SessionTypeOK ==
  /\ TypeOK
  /\ session \in [Operators -> Session \union {Closed}]
  /\ locks \subseteq Lock

-----------------------------------------------------------------------------
(* What a statement needs.                                                 *)

(* The task an admission queues is of the kind its operator asked for.     *)
QueuedKind(s) == IF session[s].handler = "admit" THEN tx[s].kind ELSE "create"
TakesAddress(s) ==
  /\ session[s].handler \in {"create", "admit"}
  /\ QueuedKind(s) = "create" /\ session[s].vm \in Pooled

(* The usable hosts are tried in their order (a set of at most one).       *)
NextCandidate(s) ==
  {a \in Addrs \ session[s].known : \A b \in Addrs \ session[s].known : a <= b}

ChangesVm(s) == NextVmStatus(task[session[s].task].kind, session[s].to) # NoChange
Releases(s)  == ReleasesAddress(task[session[s].task].kind, session[s].to)

InsertsVm(s) == session[s].handler = "create" /\ Statement(s) = "vm"

(* Mutant: the capacity of the node is read without FOR UPDATE.            *)
LockModeSharingNode(s) ==
  IF InsertsVm(s) THEN "insert"
  ELSE IF Statement(s) \in {"node", "audit"} THEN "key share"
  ELSE IF session[s].handler \in {"create", "admit", "claim"} \/ Statement(s) = "release"
  THEN "update" ELSE "no key update"

LockMode(s) ==
  IF InsertsVm(s) THEN "insert"
  ELSE IF session[s].handler \in {"create", "admit", "claim"} \/ Statement(s) = "release"
  THEN "update"
  ELSE IF Statement(s) = "audit" THEN "key share" ELSE "no key update"

(* The rows the current statement locks.                                   *)
Wanted(s) ==
  LET r == session[s]
  IN  CASE Statement(s) \in {"node", "audit"} -> {NodeOf(r.node)}
        [] Statement(s) = "vm" ->
             IF r.handler \in {"create", "admit"} \/ ChangesVm(s) THEN {VmOf(r.vm)} ELSE {}
        [] Statement(s) = "address" ->
             IF TakesAddress(s)
             THEN UNION {{AddressOf(a), HolderOf(r.vm)} : a \in NextCandidate(s)} ELSE {}
        [] Statement(s) = "release" ->
             IF Releases(s)
             THEN UNION {{AddressOf(a), HolderOf(r.vm)} : a \in {b \in Addrs : alloc[b].vm = r.vm}}
             ELSE {}
        [] Statement(s) = "task" /\ r.handler # "claim" -> {TaskOf(r.task)}
        [] OTHER -> {}

(* Rows of others' locks that conflict with a lock of s.                   *)
HeldAgainst(s, row, mode) ==
  {l \in locks : l.by # s /\ l.row = row /\ Conflict(l.mode, mode)}

WaitsFor(s, d) ==
  /\ Executing(s)
  /\ \E row \in Wanted(s) : \E l \in HeldAgainst(s, row, LockMode(s)) : l.by = d
Blocked(s) == \E d \in Operators : WaitsFor(s, d)

Granted(s, rows) == locks' = locks \union {[by |-> s, row |-> row, mode |-> LockMode(s)] : row \in rows}

(* Mutant: a status UPDATE that does not repeat the status it has read.    *)
AnyStatus(s) == TRUE

(* The guarded UPDATE of cancel_in_tx and update_status_in_tx.             *)
StatusUnchanged(s) == task[session[s].task].status = session[s].from

NodeAdmits(s) ==
  /\ NodeAccepts(session[s].node, QueuedKind(s))
  /\ QueuedKind(s) = "create" => HasCapacity(session[s].node)

(* What the statement tests of the rows it has locked.  A failed test ends *)
(* the handler with an error and rolls back.  The check of the node that   *)
(* create_in_tx makes after the address is reserved sees the row that      *)
(* ensure_capacity_for_create_vm_in_tx has locked: both are made here.     *)
Passes(s) ==
  LET handler == session[s].handler
  IN  CASE Statement(s) = "node" /\ handler \in {"create", "admit"} -> NodeAdmits(s)
        [] Statement(s) = "node" /\ handler = "claim" -> node[session[s].node].scheduling
        [] Statement(s) = "vm" /\ handler = "create"  -> ~VmExists(session[s].vm)
        [] Statement(s) = "vm" /\ handler = "admit"   -> AdmissionAllowed(s)
        [] Statement(s) = "task"                      -> StatusUnchanged(s)
        [] OTHER                                      -> TRUE

-----------------------------------------------------------------------------
(* Beginning a transaction.                                                *)

Started(handler, n, v, t) ==
  [handler |-> handler, node |-> n, vm |-> v, task |-> t, from |-> "none", to |-> "none",
   seen |-> {}, known |-> {}, ip |-> NoAddr, at |-> 1]

Opened(s, r) == session' = [session EXCEPT ![s] = r] /\ UNCHANGED locks

(* The VM id is the master's Uuid::new_v4, or any that the client sends:   *)
(* one in use is refused by the INSERT of its row, the last statement.     *)
BeginCreate(s, v, n) ==
  /\ ~Busy(s)
  /\ Opened(s, Started("create", n, v, NoTask))
  /\ UNCHANGED dbVars

(* Master's BeginAction and BeginRetry: the snapshot of the lifecycle      *)
(* query is taken before its lock is waited for.                           *)
BeginAdmission(s) ==
  /\ ~Busy(s)
  /\ \/ \E t \in TaskIds, v \in Vms, kind \in ActionKinds : BeginAction(s, t, v, kind)
     \/ \E t \in TaskIds, u \in TaskIds : BeginRetry(s, t, u)
  /\ LET v == tx'[s].vm
     IN  Opened(s, Started("admit", vm[v].node, v, NoTask))

(* cancel_in_tx and update_status_in_tx read the status without a lock.    *)
BeginEnd(s, t, handler, status) ==
  /\ ~Busy(s)
  /\ Exists(t)
  /\ IF handler = "cancel"
     THEN status = "canceled" /\ task[t].status \in {"pending", "assigned"}
     ELSE ValidAgentTransition(task[t].status, status)
  /\ Opened(s, [Started(handler, task[t].node, task[t].vm, t) EXCEPT
                 !.from = task[t].status, !.to = status])
  /\ UNCHANGED dbVars

(* The snapshot of CLAIM_NEXT_FOR_NODE_SQL.                                *)
BeginClaim(s, n) ==
  /\ ~Busy(s)
  /\ LET pending == {t \in TaskIds : task[t].status = "pending" /\ task[t].node = n}
     IN  /\ pending # {}
         /\ Opened(s, [Started("claim", n, NoVm, NoTask) EXCEPT !.seen = pending])
  /\ UNCHANGED dbVars

BeginNodeUpdate(s, n, handler, value) ==
  /\ ~Busy(s)
  /\ Opened(s, [Started(handler, n, NoVm, NoTask) EXCEPT !.to = value])
  /\ UNCHANGED dbVars

-----------------------------------------------------------------------------
(* The statements.                                                         *)

Proceed(s, r) == session' = [session EXCEPT ![s] = [r EXCEPT !.at = @ + 1]]

(* A SELECT ... FOR UPDATE, an UPDATE or an INSERT; or nothing, where the  *)
(* request does not call for the statement.                                *)
LockAndTest(s) ==
  /\ Executing(s)
  /\ Statement(s) # "pool"
  /\ Statement(s) = "address" => ~TakesAddress(s)
  /\ Statement(s) = "task" => session[s].handler # "claim"
  /\ ~Blocked(s)
  /\ Passes(s)
  /\ Granted(s, Wanted(s))
  /\ Proceed(s, session[s])
  /\ UNCHANGED dbVars

(* active_allocations_in_tx *)
ReadPool(s) ==
  /\ Executing(s) /\ Statement(s) = "pool"
  /\ Proceed(s, [session[s] EXCEPT !.known =
                   IF TakesAddress(s) THEN {a \in Addrs : alloc[a] # Free} ELSE {}])
  /\ UNCHANGED <<dbVars, locks>>

(* One INSERT ... ON CONFLICT DO NOTHING.  When a conflict is left after   *)
(* the wait, the next candidate is tried.                                  *)
TryAddress(s, a) ==
  /\ Executing(s) /\ Statement(s) = "address" /\ TakesAddress(s)
  /\ a \in NextCandidate(s)
  /\ ~Blocked(s)
  /\ IF NextAddress(session[s].vm, a)
     THEN /\ Proceed(s, [session[s] EXCEPT !.ip = a])
          /\ Granted(s, Wanted(s))
     ELSE /\ session' = [session EXCEPT ![s].known = @ \union {a}]
          /\ UNCHANGED locks
  /\ UNCHANGED dbVars

(* FOR UPDATE OF t SKIP LOCKED: a task of the snapshot that nobody has     *)
(* locked and that is still pending in its current version.                *)
PickTask(s, t) ==
  /\ Executing(s) /\ Statement(s) = "task" /\ session[s].handler = "claim"
  /\ t \in session[s].seen
  /\ HeldAgainst(s, TaskOf(t), "update") = {}
  /\ task[t].status = "pending"
  /\ Granted(s, {TaskOf(t)})
  /\ Proceed(s, [session[s] EXCEPT !.task = t])
  /\ UNCHANGED dbVars

-----------------------------------------------------------------------------
(* Ending a transaction.                                                   *)

Close(s) ==
  /\ session' = [session EXCEPT ![s] = Closed]
  /\ locks' = {l \in locks : l.by # s}

(* What the handler has written, none of it tested again.                  *)
CommitCreate(s) ==
  /\ session[s].handler = "create"
  /\ \E t \in TaskIds :
       IsNextId(t) /\ Enqueue(t, "create", session[s].vm, session[s].node, session[s].ip)
  /\ UNCHANGED <<node, tx>>

CommitAdmission(s) ==
  /\ session[s].handler = "admit"
  /\ Enqueue(tx[s].id, tx[s].kind, session[s].vm, session[s].node, session[s].ip)
  /\ tx' = [tx EXCEPT ![s] = NoTx]
  /\ UNCHANGED node

CommitEnd(s) ==
  /\ session[s].handler \in {"cancel", "report"}
  /\ task' = [task EXCEPT ![session[s].task].status = session[s].to]
  /\ ApplyTaskStatus(session[s].task, session[s].to)
  /\ UNCHANGED <<node, tx>>

CommitClaim(s) ==
  /\ session[s].handler = "claim"
  /\ task' = [task EXCEPT ![session[s].task].status = "assigned"]
  /\ UNCHANGED <<vm, alloc, node, tx>>

CommitNodeUpdate(s) ==
  /\ session[s].handler \in {"scheduling", "heartbeat"}
  /\ node' = IF session[s].handler = "scheduling"
             THEN [node EXCEPT ![session[s].node].scheduling = (session[s].to = "on")]
             ELSE [node EXCEPT ![session[s].node].ready = (session[s].to = "on")]
  /\ UNCHANGED <<task, vm, alloc, tx>>

Commit(s) ==
  /\ Busy(s) /\ Finished(s)
  /\ \/ CommitCreate(s)
     \/ CommitAdmission(s)
     \/ CommitEnd(s)
     \/ CommitClaim(s)
     \/ CommitNodeUpdate(s)
  /\ Close(s)

(* A test failed, no address or task is left, or the connection is lost.   *)
Rollback(s) ==
  /\ Busy(s)
  /\ tx' = [tx EXCEPT ![s] = NoTx]
  /\ Close(s)
  /\ UNCHANGED <<task, vm, alloc, node>>

(* Transactions are short: no heartbeat grows two hours old during one     *)
(* that has looked at it.                                                  *)
TimePasses(n) ==
  /\ \A l \in locks : l.row # NodeOf(n)
  /\ HeartbeatGoesStale(n)
  /\ UNCHANGED <<session, locks>>

-----------------------------------------------------------------------------
TransactionsInit ==
  /\ Init
  /\ session = [s \in Operators |-> Closed]
  /\ locks = {}

Begin(s) ==
  /\ ~Busy(s)
  /\ \/ \E v \in Vms, n \in Nodes : BeginCreate(s, v, n)
     \/ BeginAdmission(s)
     \/ \E t \in TaskIds, handler \in {"cancel", "report"}, status \in TaskStatuses :
          BeginEnd(s, t, handler, status)
     \/ \E n \in Nodes : BeginClaim(s, n)
     \/ \E n \in Nodes, handler \in {"scheduling", "heartbeat"}, value \in {"on", "off"} :
          BeginNodeUpdate(s, n, handler, value)

Execute(s) ==
  /\ Executing(s)
  /\ \/ LockAndTest(s)
     \/ ReadPool(s)
     \/ \E a \in Addrs : TryAddress(s, a)
     \/ \E t \in TaskIds : PickTask(s, t)

TransactionsNext ==
  \/ \E s \in Operators : Begin(s) \/ Execute(s) \/ Commit(s) \/ Rollback(s)
  \/ \E n \in Nodes : TimePasses(n)

TransactionsSpec == TransactionsInit /\ [][TransactionsNext]_allVars

-----------------------------------------------------------------------------
(* Properties.                                                             *)

(* A creation under the id of a VM whose task is just ended.               *)
ReusesId(S) ==
  \E c, d \in S : /\ session[c].handler = "create"
                  /\ session[d].handler \in {"cancel", "report"}
                  /\ session[c].vm = session[d].vm

(* Deadlock, which PostgreSQL ends by aborting a handler, takes a client   *)
(* that sends the id of an existing VM: among any other sessions that      *)
(* wait, one waits for none of the others.  Handlers lock nodes, vms,      *)
(* tasks and addresses in four different orders; what keeps them apart is  *)
(* that an address somebody may be releasing was read, under the lock of   *)
(* the node, as taken.  The creation that reuses an id has no such         *)
(* protection: the key of the VM is released after the task was locked,    *)
(* and the node, which the creation has locked, is asked for after that.   *)
OnlyReusedIdsDeadlock ==
  \A S \in SUBSET {s \in Operators : Blocked(s)} :
    S # {} /\ ~ReusesId(S) => \E c \in S : \A d \in S : ~WaitsFor(c, d)

(* Every handler is atomic: a commit does to the tables what the action of *)
(* Master does in one step, under the conditions that action tests, and no *)
(* other step touches them.  This is Spec of Master, with the stutter put  *)
(* first because most steps are one.                                       *)
AtomicHandlers == Init /\ [][UNCHANGED vars \/ Next]_vars

(* The switch is a barrier: once scheduling of a node is disabled, no task *)
(* of that node is queued or handed out, whatever was under way.           *)
DisabledNodeGetsNoWork ==
  [][\A t \in TaskIds :
       /\ task'[t] # task[t]
       /\ task'[t].status \in {"pending", "assigned"}
       => node[task'[t].node].scheduling]_allVars

(* Creations fit the node (SECURITY.md: concurrent requests cannot both    *)
(* pass from a stale snapshot): when a creation or its retry is queued the *)
(* VMs committed to the node, its own among them, are within the capacity, *)
(* though they were counted several waits before.                          *)
CreationsFitNode ==
  [][\A t \in TaskIds :
       LET committed == {v \in Vms : /\ vm'[v].status \in Committed
                                     /\ vm'[v].node = task'[t].node}
           queued == ~Exists(t) /\ task'[t].status = "pending" /\ task'[t].kind = "create"
       IN  queued /\ Capacity # 0 => Cardinality(committed) <= Capacity]_allVars

-----------------------------------------------------------------------------
(* Strengthenings: what a transaction may rely on when it commits.         *)

HasLock(s, row, mode) == [by |-> s, row |-> row, mode |-> mode] \in locks

LocksExclude ==
  \A k, l \in locks : k.by # l.by /\ k.row = l.row => ~Conflict(k.mode, l.mode)

(* A task is carried out on the node of its VM, and a VM never moves.      *)
TasksOnNodeOfVm ==
  \A t \in TaskIds : Exists(t) => task[t].node = vm[task[t].vm].node

NodeReady(s) == HasLock(s, NodeOf(session[s].node), "update") /\ NodeAdmits(s)

AddressReady(s, reserved) ==
  LET r == session[s]
  IN  /\ reserved /\ TakesAddress(s) =>
           /\ r.ip \in Addrs /\ NextAddress(r.vm, r.ip)
           /\ HasLock(s, AddressOf(r.ip), "update")
           /\ HasLock(s, HolderOf(r.vm), "update")
      /\ ~(reserved /\ TakesAddress(s)) => r.ip = NoAddr

CreateReady(s) ==
  LET r == session[s]
  IN  /\ ~Open(s) /\ r.vm \in Vms
      /\ r.at > 1 => NodeReady(s)
      /\ AddressReady(s, r.at > 3)
      /\ r.at > 4 => HasLock(s, VmOf(r.vm), "insert") /\ ~VmExists(r.vm)

AdmitReady(s) ==
  LET r == session[s]
  IN  /\ Open(s) /\ r.vm = tx[s].vm /\ r.node = vm[r.vm].node
      /\ r.at > 1 => HasLock(s, VmOf(r.vm), "update") /\ AdmissionAllowed(s)
      /\ r.at > 2 => NodeReady(s)
      /\ AddressReady(s, r.at > 4)

EndReady(s) ==
  LET r == session[s]
  IN  /\ ~Open(s)
      /\ r.task \in TaskIds /\ Exists(r.task)
      /\ r.vm = task[r.task].vm /\ r.node = task[r.task].node
      /\ r.handler = "cancel" => r.to = "canceled" /\ r.from \in {"pending", "assigned"}
      /\ r.handler = "report" => ValidAgentTransition(r.from, r.to)
      /\ r.at > 1 => HasLock(s, TaskOf(r.task), "no key update") /\ StatusUnchanged(s)
      /\ r.at > 2 /\ ChangesVm(s) => HasLock(s, VmOf(r.vm), "no key update")
      /\ r.at > 4 => HasLock(s, NodeOf(r.node), "key share")

ClaimReady(s) ==
  LET r == session[s]
  IN  /\ ~Open(s)
      /\ r.at > 1 => HasLock(s, NodeOf(r.node), "update") /\ node[r.node].scheduling
      /\ \A t \in r.seen : Exists(t) /\ task[t].node = r.node
      /\ r.at > 2 => /\ r.task \in r.seen /\ task[r.task].status = "pending"
                     /\ HasLock(s, TaskOf(r.task), "update")

NodeUpdateReady(s) ==
  LET r == session[s]
  IN  /\ ~Open(s) /\ r.to \in {"on", "off"}
      /\ r.at > 1 => HasLock(s, NodeOf(r.node), "no key update")

Ready(s) ==
  /\ session[s].handler = "none"   => ~Open(s)
  /\ session[s].handler = "create" => CreateReady(s)
  /\ session[s].handler = "admit"  => AdmitReady(s)
  /\ session[s].handler \in {"cancel", "report"} => EndReady(s)
  /\ session[s].handler = "claim"  => ClaimReady(s)
  /\ session[s].handler \in {"scheduling", "heartbeat"} => NodeUpdateReady(s)

TransactionsInv ==
  /\ Linked
  /\ session \in [Operators -> Session \union {Closed}]
  /\ locks \subseteq Lock
  /\ LocksExclude
  /\ TasksOnNodeOfVm
  /\ \A s \in Operators : Ready(s)
-----------------------------------------------------------------------------
(* Strengthenings for OnlyReusedIdsDeadlock: where the locks come from,    *)
(* and in which order the pool was read.                                   *)

Past(s, handlers, i) == session[s].handler \in handlers /\ session[s].at > i

(* The rows that a session has locked by the statement it has come to.     *)
Acquired(s, row) ==
  LET r == session[s]
  IN  \/ /\ row = NodeOf(r.node)
         /\ \/ Past(s, {"create", "claim", "scheduling", "heartbeat"}, 1)
            \/ Past(s, {"admit"}, 2)
            \/ Past(s, {"cancel", "report"}, 4)
      \/ /\ row = VmOf(r.vm)
         /\ \/ Past(s, {"create"}, 4)
            \/ Past(s, {"admit"}, 1)
            \/ Past(s, {"cancel", "report"}, 2)
      \/ /\ \E t \in TaskIds : row = TaskOf(t)
         /\ Past(s, {"claim"}, 2) \/ Past(s, {"cancel", "report"}, 1)
      \/ /\ row = HolderOf(r.vm) \/ \E a \in Addrs : row = AddressOf(a)
         /\ Past(s, {"create"}, 3) \/ Past(s, {"admit"}, 4)
      \/ /\ \/ row = HolderOf(r.vm)
            \/ \E a \in Addrs : row = AddressOf(a) /\ alloc[a].vm = r.vm
         /\ Past(s, {"cancel", "report"}, 3) /\ Releases(s)

LocksAccounted == \A l \in locks : Acquired(l.by, l.row)

(* Creations insert; an admission only locks, so no INSERT waits for it.   *)
ModesAccounted ==
  \A l \in locks : /\ session[l.by].handler = "admit" => l.mode = "update"
                   /\ l.mode = "insert" => session[l.by].handler = "create"

(* Addresses that VMs of a node hold.                                      *)
TakenOn(n) == {a \in Addrs : alloc[a].vm # NoVm /\ vm[alloc[a].vm].node = n}

HasReadPool(s) == TakesAddress(s) /\ (Past(s, {"create"}, 2) \/ Past(s, {"admit"}, 3))

(* Of any sessions that have read the pool, the last one to do so knows    *)
(* what is taken on the nodes of all: none is reserved there while they    *)
(* hold their nodes.                                                       *)
PoolReadsOrdered ==
  \A S \in SUBSET {s \in Operators : HasReadPool(s)} : S # {} =>
    \E last \in S : \A s \in S : TakenOn(session[s].node) \subseteq session[last].known

WaitInv ==
  /\ LocksAccounted
  /\ ModesAccounted
  /\ PoolReadsOrdered
=============================================================================
