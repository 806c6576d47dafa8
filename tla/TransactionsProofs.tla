------------------------- MODULE TransactionsProofs -------------------------
(***************************************************************************)
(* What TLAPS proves of Transactions, for every number of connections,     *)
(* nodes, VMs, addresses and tasks.                                        *)
(*                                                                         *)
(* TransactionsInv says what each open transaction holds and what it has   *)
(* therefore not stopped being entitled to believe.  A commit of one       *)
(* session disturbs another only through a row; KeepsReady lists the five  *)
(* ways, and the lemmas named ...Leaves show that the locks of the two     *)
(* sessions exclude each of them.                                          *)
(*                                                                         *)
(* OnlyReusedIdsDeadlock needs to know in addition where each lock comes from and    *)
(* who of several sessions read the address pool last: WaitInv, which is   *)
(* inductive next to TransactionsInv.                                      *)
(***************************************************************************)
EXTENDS Transactions, MasterProofs, FiniteSetTheorems

-----------------------------------------------------------------------------
(* Sessions, statements and locks.                                         *)

LEMMA BusyType ==
  ASSUME NEW s \in Operators, session \in [Operators -> Session \union {Closed}]
  PROVE  /\ Busy(s) <=> session[s] \in Session
         /\ Busy(s) <=> session[s].handler \in Handlers
         /\ ~Busy(s) <=> session[s].handler = "none"
  BY DEF Busy, Session, Closed, Handlers

(* The scripts, statement by statement.                                    *)
LEMMA Scripts ==
  /\ Len(CreateStatements) = 4
  /\ CreateStatements[1] = "node" /\ CreateStatements[2] = "pool"
  /\ CreateStatements[3] = "address" /\ CreateStatements[4] = "vm"
  /\ Len(AdmitStatements) = 4
  /\ AdmitStatements[1] = "vm" /\ AdmitStatements[2] = "node"
  /\ AdmitStatements[3] = "pool" /\ AdmitStatements[4] = "address"
  /\ Len(EndStatements) = 4
  /\ EndStatements[1] = "task" /\ EndStatements[2] = "vm"
  /\ EndStatements[3] = "release" /\ EndStatements[4] = "audit"
  /\ Len(ClaimStatements) = 2
  /\ ClaimStatements[1] = "node" /\ ClaimStatements[2] = "task"
  /\ Len(NodeStatements) = 1 /\ NodeStatements[1] = "node"
  BY SMT DEF CreateStatements, AdmitStatements, EndStatements, ClaimStatements, NodeStatements

LEMMA ScriptOf ==
  ASSUME NEW handler \in Handlers
  PROVE  /\ handler = "create" => Statements(handler) = CreateStatements
         /\ handler = "admit" => Statements(handler) = AdmitStatements
         /\ handler \in {"cancel", "report"} => Statements(handler) = EndStatements
         /\ handler = "claim" => Statements(handler) = ClaimStatements
         /\ handler \in {"scheduling", "heartbeat"} => Statements(handler) = NodeStatements
  BY SMT DEF Statements, Handlers

(* Where the statements of a handler end.                                  *)
LEMMA StatementsEnd ==
  ASSUME NEW s \in Operators, session[s] \in Session, Finished(s),
         NEW handler, handler = session[s].handler
  PROVE  /\ handler \in {"create", "admit", "cancel", "report"} => session[s].at > 4
         /\ handler = "claim" => session[s].at > 2
         /\ handler \in {"scheduling", "heartbeat"} => session[s].at > 1
  <1>1. session[s].at \in 1 .. 5 /\ handler \in Handlers
    BY DEF Session
  <1>2. session[s].at > Len(Statements(handler))
    BY DEF Finished
  <1>3. /\ handler \in {"create", "admit", "cancel", "report"} => Len(Statements(handler)) = 4
        /\ handler = "claim" => Len(Statements(handler)) = 2
        /\ handler \in {"scheduling", "heartbeat"} => Len(Statements(handler)) = 1
    BY <1>1, Scripts, ScriptOf DEF Handlers
  <1>4. QED BY <1>1, <1>2, <1>3

(* The statement that each unfinished handler is at.                       *)
LEMMA StatementAt ==
  ASSUME NEW s \in Operators, session[s] \in Session, ~Finished(s),
         NEW handler, handler = session[s].handler, NEW at, at = session[s].at
  PROVE  /\ handler = "create" =>
              /\ at \in 1 .. 4
              /\ at = 1 <=> Statement(s) = "node"
              /\ at = 2 <=> Statement(s) = "pool"
              /\ at = 3 <=> Statement(s) = "address"
              /\ at = 4 <=> Statement(s) = "vm"
         /\ handler = "admit" =>
              /\ at \in 1 .. 4
              /\ at = 1 <=> Statement(s) = "vm"
              /\ at = 2 <=> Statement(s) = "node"
              /\ at = 3 <=> Statement(s) = "pool"
              /\ at = 4 <=> Statement(s) = "address"
         /\ handler \in {"cancel", "report"} =>
              /\ at \in 1 .. 4
              /\ at = 1 <=> Statement(s) = "task"
              /\ at = 2 <=> Statement(s) = "vm"
              /\ at = 3 <=> Statement(s) = "release"
              /\ at = 4 <=> Statement(s) = "audit"
         /\ handler = "claim" =>
              /\ at \in 1 .. 2
              /\ at = 1 <=> Statement(s) = "node"
              /\ at = 2 <=> Statement(s) = "task"
         /\ handler \in {"scheduling", "heartbeat"} => at = 1 /\ Statement(s) = "node"
  <1>1. at \in 1 .. 5 /\ handler \in Handlers
    BY DEF Session
  <1>2. CASE handler = "create"
    <2>1. Statements(handler) = CreateStatements
      BY <1>1, <1>2, ScriptOf
    <2>2. at \in 1 .. 4 /\ Statement(s) = CreateStatements[at]
      BY <1>1, <2>1, Scripts, SMT DEF Finished, Statement
    <2>3. QED BY <1>2, <2>2, Scripts, SMT
  <1>3. CASE handler = "admit"
    <2>1. Statements(handler) = AdmitStatements
      BY <1>1, <1>3, ScriptOf
    <2>2. at \in 1 .. 4 /\ Statement(s) = AdmitStatements[at]
      BY <1>1, <2>1, Scripts, SMT DEF Finished, Statement
    <2>3. QED BY <1>3, <2>2, Scripts, SMT
  <1>4. CASE handler \in {"cancel", "report"}
    <2>1. Statements(handler) = EndStatements
      BY <1>1, <1>4, ScriptOf
    <2>2. at \in 1 .. 4 /\ Statement(s) = EndStatements[at]
      BY <1>1, <2>1, Scripts, SMT DEF Finished, Statement
    <2>3. QED BY <1>4, <2>2, Scripts, SMT
  <1>5. CASE handler = "claim"
    <2>1. Statements(handler) = ClaimStatements
      BY <1>1, <1>5, ScriptOf
    <2>2. at \in 1 .. 2 /\ Statement(s) = ClaimStatements[at]
      BY <1>1, <2>1, Scripts, SMT DEF Finished, Statement
    <2>3. QED BY <1>5, <2>2, Scripts, SMT
  <1>6. CASE handler \in {"scheduling", "heartbeat"}
    <2>1. Statements(handler) = NodeStatements
      BY <1>1, <1>6, ScriptOf
    <2>2. at = 1 /\ Statement(s) = NodeStatements[at]
      BY <1>1, <2>1, Scripts, SMT DEF Finished, Statement
    <2>3. QED BY <1>6, <2>2, Scripts, SMT
  <1>7. QED BY <1>1, <1>2, <1>3, <1>4, <1>5, <1>6 DEF Handlers

(* Two sessions that hold the same row hold it in modes that do not        *)
(* conflict.                                                               *)
LEMMA HoldersAgree ==
  ASSUME LocksExclude, NEW s \in Operators, NEW d \in Operators, s # d,
         NEW row \in Rows, NEW m1 \in Modes, NEW m2 \in Modes,
         HasLock(s, row, m1), HasLock(d, row, m2)
  PROVE  ~Conflict(m1, m2)
  <1> DEFINE mine == [by |-> s, row |-> row, mode |-> m1]
             theirs == [by |-> d, row |-> row, mode |-> m2]
  <1>1. mine \in locks /\ theirs \in locks
    BY DEF HasLock
  <1>2. /\ mine.by # theirs.by /\ mine.row = theirs.row
        /\ mine.mode = m1 /\ theirs.mode = m2
    OBVIOUS
  <1> HIDE DEF mine, theirs
  <1>3. mine.by # theirs.by /\ mine.row = theirs.row => ~Conflict(mine.mode, theirs.mode)
    BY <1>1 DEF LocksExclude
  <1>4. QED BY <1>2, <1>3

(* Granting what is not blocked keeps the lock table exclusive.            *)
LEMMA GrantExcludes ==
  ASSUME LocksExclude, locks \subseteq Lock, NEW s \in Operators, NEW mode \in Modes,
         NEW rows, rows \subseteq Rows,
         \A row \in rows : HeldAgainst(s, row, mode) = {},
         locks' = locks \union {[by |-> s, row |-> row, mode |-> mode] : row \in rows}
  PROVE  /\ LocksExclude'
         /\ locks' \subseteq Lock
         /\ \A row \in rows : HasLock(s, row, mode)'
         /\ \A l \in locks : l \in locks'
  <1> DEFINE new == {[by |-> s, row |-> row, mode |-> mode] : row \in rows}
  <1>1. locks' \subseteq Lock
    BY DEF Lock
  <1>2. \A k \in locks, row \in rows : k.by # s /\ k.row = row => ~Conflict(k.mode, mode)
    BY DEF HeldAgainst
  <1>3. ASSUME NEW a \in Modes, NEW b \in Modes, Conflict(a, b)
        PROVE  Conflict(b, a)
    BY <1>3 DEF Conflict
  <1>4. ASSUME NEW k \in locks', NEW l \in locks', k.by # l.by, k.row = l.row
        PROVE  ~Conflict(k.mode, l.mode)
    <2>1. CASE k \in locks /\ l \in locks
      BY <2>1, <1>4 DEF LocksExclude
    <2>2. CASE k \in locks /\ l \in new
      BY <2>2, <1>4, <1>2
    <2>3. CASE k \in new /\ l \in locks
      BY <2>3, <1>4, <1>2, <1>3 DEF Lock
    <2>4. CASE k \in new /\ l \in new
      BY <2>4, <1>4
    <2>5. QED BY <2>1, <2>2, <2>3, <2>4
  <1>5. LocksExclude'
    BY <1>4 DEF LocksExclude
  <1>6. \A row \in rows : HasLock(s, row, mode)'
    BY DEF HasLock
  <1>7. QED BY <1>1, <1>5, <1>6

-----------------------------------------------------------------------------
(* What one session does to another.                                       *)

(* Session d keeps its locks, and nothing that it may rely on changes.     *)
KeepsLocks(d) ==
  /\ session'[d] = session[d] /\ tx'[d] = tx[d]
  /\ \A l \in locks : l.by = d => l \in locks'

KeepsNode(d) ==
  \A n \in Nodes : HasLock(d, NodeOf(n), "update") =>
    node'[n] = node[n] /\ CommittedVms(n)' = CommittedVms(n)

KeepsVm(d) ==
  /\ \A v \in Vms : HasLock(d, VmOf(v), "update") /\ VmExists(v) => vm'[v] = vm[v]
  /\ \A v \in Vms : HasLock(d, VmOf(v), "insert") /\ ~VmExists(v) => ~VmExists(v)'
  /\ \A v \in Vms : VmExists(v) => VmExists(v)' /\ vm'[v].node = vm[v].node

KeepsAddress(d) ==
  \A v \in Vms, a \in Addrs :
    /\ HasLock(d, AddressOf(a), "update") /\ HasLock(d, HolderOf(v), "update")
    /\ NextAddress(v, a)
    => NextAddress(v, a)'

KeepsTask(d) ==
  \A t \in TaskIds : Exists(t) =>
    /\ Exists(t)'
    /\ task'[t].kind = task[t].kind /\ task'[t].vm = task[t].vm
    /\ task'[t].node = task[t].node
    /\ HasLock(d, TaskOf(t), "no key update") \/ HasLock(d, TaskOf(t), "update")
         => task'[t] = task[t]

LEMMA KeepsReady ==
  ASSUME TransactionsInv, NEW d \in Operators,
         KeepsLocks(d), KeepsNode(d), KeepsVm(d), KeepsAddress(d), KeepsTask(d)
  PROVE  Ready(d)'
  <1>0. PICK r \in Session \union {Closed} : r = session[d]
    BY DEF TransactionsInv
  <1>1. Ready(d) /\ session[d] = r /\ session'[d] = r /\ tx'[d] = tx[d]
    BY <1>0 DEF TransactionsInv, KeepsLocks
  <1>2. \A row, mode : HasLock(d, row, mode) => HasLock(d, row, mode)'
    BY DEF HasLock, KeepsLocks
  <1>3. (Open(d)' <=> Open(d)) /\ (TakesAddress(d)' <=> TakesAddress(d))
        /\ QueuedKind(d)' = QueuedKind(d)
    BY <1>1 DEF Open, TakesAddress, QueuedKind
  <1>4. ASSUME NodeReady(d), r \in Session PROVE NodeReady(d)'
    <2>1. r.node \in Nodes
      BY <1>4 DEF Session
    <2>2. HasLock(d, NodeOf(r.node), "update") /\ NodeAdmits(d)
      BY <1>1, <1>4, Zenon DEF NodeReady
    <2>3. node'[r.node] = node[r.node] /\ CommittedVms(r.node)' = CommittedVms(r.node)
      BY <2>1, <2>2, Zenon DEF KeepsNode
    <2>4. NodeAdmits(d)'
      BY <1>1, <1>3, <2>2, <2>3 DEF NodeAdmits, NodeAccepts, HasCapacity
    <2>5. QED BY <1>1, <1>2, <2>2, <2>4, Zenon DEF NodeReady
  <1>5. ASSUME NEW done \in BOOLEAN, AddressReady(d, done), r \in Session, r.vm \in Vms
        PROVE  AddressReady(d, done)'
    <2>1. /\ done /\ TakesAddress(d) =>
               /\ r.ip \in Addrs /\ NextAddress(r.vm, r.ip)
               /\ HasLock(d, AddressOf(r.ip), "update")
               /\ HasLock(d, HolderOf(r.vm), "update")
          /\ ~(done /\ TakesAddress(d)) => r.ip = NoAddr
      BY <1>1, <1>5, Zenon DEF AddressReady
    <2>2. done /\ TakesAddress(d) =>
               /\ NextAddress(r.vm, r.ip)'
               /\ HasLock(d, AddressOf(r.ip), "update")'
               /\ HasLock(d, HolderOf(r.vm), "update")'
      BY <1>1, <1>2, <1>5, <2>1, Zenon DEF KeepsAddress
    <2>3. QED BY <1>1, <1>3, <2>1, <2>2, Zenon DEF AddressReady
  <1>6. ASSUME r.handler = "create", r \in Session PROVE CreateReady(d)'
    <2>1. /\ ~Open(d) /\ r.vm \in Vms
          /\ r.at > 1 => NodeReady(d)
          /\ AddressReady(d, r.at > 3)
          /\ r.at > 4 => HasLock(d, VmOf(r.vm), "insert") /\ ~VmExists(r.vm)
      BY <1>1, <1>6, Zenon DEF Ready, CreateReady
    <2>2. AddressReady(d, r.at > 3)'
      <3> DEFINE done == r.at > 3
      <3>1. done \in BOOLEAN
        OBVIOUS
      <3> HIDE DEF done
      <3>2. AddressReady(d, done) => AddressReady(d, done)'
        BY <3>1, <1>5, <1>6, <2>1
      <3>3. QED BY <2>1, <3>2 DEF done
    <2>3. r.at > 4 => ~VmExists(r.vm)'
      BY <2>1, Zenon DEF KeepsVm
    <2>4. QED BY <1>1, <1>2, <1>3, <1>4, <1>6, <2>1, <2>2, <2>3, Zenon DEF CreateReady
  <1>7. ASSUME r.handler = "admit", r \in Session PROVE AdmitReady(d)'
    <2>1. /\ Open(d) /\ r.vm = tx[d].vm /\ r.node = vm[r.vm].node
          /\ r.at > 1 => HasLock(d, VmOf(r.vm), "update") /\ AdmissionAllowed(d)
          /\ r.at > 2 => NodeReady(d)
          /\ AddressReady(d, r.at > 4)
      BY <1>1, <1>7, Zenon DEF Ready, AdmitReady
    <2>2. r.vm \in Vms /\ VmExists(r.vm)
      BY <2>1, OpenTxType DEF TransactionsInv, Linked, OpenTxsApart, OpenTx
    <2>3. AddressReady(d, r.at > 4)'
      <3> DEFINE done == r.at > 4
      <3>1. done \in BOOLEAN
        OBVIOUS
      <3> HIDE DEF done
      <3>2. AddressReady(d, done) => AddressReady(d, done)'
        BY <3>1, <1>5, <1>7, <2>2
      <3>3. QED BY <2>1, <3>2 DEF done
    <2>4. r.node = vm'[r.vm].node
      BY <2>1, <2>2, Zenon DEF KeepsVm
    <2>5. r.at > 1 => AdmissionAllowed(d)'
      <3>1. r.at > 1 => vm'[r.vm] = vm[r.vm]
        BY <2>1, <2>2, Zenon DEF KeepsVm
      <3>2. QED BY <1>1, <2>1, <3>1 DEF AdmissionAllowed, LastStatusSeen
    <2>6. QED BY <1>1, <1>2, <1>3, <1>4, <1>7, <2>1, <2>3, <2>4, <2>5, Zenon DEF AdmitReady
  <1>8. ASSUME r.handler \in {"cancel", "report"}, r \in Session PROVE EndReady(d)'
    <2>1. /\ ~Open(d)
          /\ r.task \in TaskIds /\ Exists(r.task)
          /\ r.vm = task[r.task].vm /\ r.node = task[r.task].node
          /\ r.handler = "cancel" => r.to = "canceled" /\ r.from \in {"pending", "assigned"}
          /\ r.handler = "report" => ValidAgentTransition(r.from, r.to)
          /\ r.at > 1 => HasLock(d, TaskOf(r.task), "no key update") /\ StatusUnchanged(d)
          /\ r.at > 2 /\ ChangesVm(d) => HasLock(d, VmOf(r.vm), "no key update")
          /\ r.at > 4 => HasLock(d, NodeOf(r.node), "key share")
      BY <1>1, <1>8, Zenon DEF Ready, EndReady
    <2>2. /\ Exists(r.task)' /\ task'[r.task].kind = task[r.task].kind
          /\ r.vm = task'[r.task].vm /\ r.node = task'[r.task].node
      BY <2>1, Zenon DEF KeepsTask
    <2>3. ChangesVm(d)' <=> ChangesVm(d)
      BY <1>1, <2>2 DEF ChangesVm
    <2>4. r.at > 1 => StatusUnchanged(d)'
      <3>1. r.at > 1 => task'[r.task] = task[r.task]
        BY <2>1, Zenon DEF KeepsTask
      <3>2. QED BY <1>1, <2>1, <3>1, Zenon DEF StatusUnchanged
    <2>5. QED BY <1>1, <1>2, <1>3, <2>1, <2>2, <2>3, <2>4, Zenon DEF EndReady
  <1>9. ASSUME r.handler = "claim", r \in Session PROVE ClaimReady(d)'
    <2>1. /\ ~Open(d)
          /\ r.at > 1 => HasLock(d, NodeOf(r.node), "update") /\ node[r.node].scheduling
          /\ \A t \in r.seen : Exists(t) /\ task[t].node = r.node
          /\ r.at > 2 => /\ r.task \in r.seen /\ task[r.task].status = "pending"
                         /\ HasLock(d, TaskOf(r.task), "update")
      BY <1>1, <1>9, Zenon DEF Ready, ClaimReady
    <2>2. r.node \in Nodes /\ r.seen \subseteq TaskIds
      BY <1>9 DEF Session
    <2>3. r.at > 1 => node'[r.node].scheduling
      BY <2>1, <2>2, Zenon DEF KeepsNode
    <2>4. \A t \in r.seen : t \in TaskIds
      BY <2>2
    <2>5. ASSUME NEW t \in r.seen PROVE Exists(t)' /\ task'[t].node = r.node
      <3>1. t \in TaskIds /\ Exists(t) /\ task[t].node = r.node
        BY <2>1, <2>4
      <3>2. QED BY <3>1, Zenon DEF KeepsTask
    <2>6. r.at > 2 => task'[r.task].status = "pending"
      <3>1. r.at > 2 => r.task \in TaskIds /\ Exists(r.task)
        BY <2>1, <2>4
      <3>2. QED BY <2>1, <3>1, Zenon DEF KeepsTask
    <2>7. \A t \in session'[d].seen : Exists(t)' /\ task'[t].node = session'[d].node
      BY <1>1, <2>5
    <2>8. QED BY <1>1, <1>2, <1>3, <2>1, <2>3, <2>6, <2>7, Zenon DEF ClaimReady
  <1>10. ASSUME r.handler \in {"scheduling", "heartbeat"} PROVE NodeUpdateReady(d)'
    <2>1. /\ ~Open(d) /\ r.to \in {"on", "off"}
          /\ r.at > 1 => HasLock(d, NodeOf(r.node), "no key update")
      BY <1>1, <1>10, Zenon DEF Ready, NodeUpdateReady
    <2>2. QED BY <1>1, <1>2, <1>3, <2>1, Zenon DEF NodeUpdateReady
  <1>11. r \in Session \/ r.handler = "none"
    BY DEF Closed
  <1>12. r.handler = "none" => ~Open(d)'
    BY <1>1, <1>3, Zenon DEF Ready
  <1>13. r.handler # "none" => r \in Session
    BY <1>11
  <1>14. /\ r.handler = "create" => CreateReady(d)'
         /\ r.handler = "admit" => AdmitReady(d)'
         /\ r.handler \in {"cancel", "report"} => EndReady(d)'
         /\ r.handler = "claim" => ClaimReady(d)'
         /\ r.handler \in {"scheduling", "heartbeat"} => NodeUpdateReady(d)'
    BY <1>6, <1>7, <1>8, <1>9, <1>10, <1>13
  <1>15. QED BY <1>1, <1>12, <1>14, Zenon DEF Ready

(* A row that somebody holds for update is locked by nobody else, and an   *)
(* inserter keeps every other away.                                        *)
LEMMA UpdateExcludes ==
  ASSUME LocksExclude, NEW s \in Operators, NEW d \in Operators, s # d,
         NEW row \in Rows, HasLock(s, row, "update")
  PROVE  \A mode \in Modes \ {"insert"} : ~HasLock(d, row, mode)
  <1> SUFFICES ASSUME NEW mode \in Modes \ {"insert"}, HasLock(d, row, mode) PROVE FALSE
    OBVIOUS
  <1>1. "update" \in Modes
    BY DEF Modes
  <1>2. ~Conflict("update", mode)
    BY <1>1, HoldersAgree
  <1>3. QED BY <1>2 DEF Conflict

LEMMA InsertExcludes ==
  ASSUME LocksExclude, NEW s \in Operators, NEW d \in Operators, s # d,
         NEW row \in Rows, HasLock(s, row, "insert")
  PROVE  ~HasLock(d, row, "insert")
  <1>1. "insert" \in Modes
    BY DEF Modes
  <1>2. Conflict("insert", "insert")
    BY DEF Conflict
  <1>3. QED BY <1>1, <1>2, HoldersAgree

LEMMA RowTypes ==
  /\ \A n \in Nodes : NodeOf(n) \in Rows
  /\ \A v \in Vms : VmOf(v) \in Rows /\ HolderOf(v) \in Rows
  /\ \A t \in TaskIds : TaskOf(t) \in Rows
  /\ \A a \in Addrs : AddressOf(a) \in Rows
  /\ {"key share", "no key update", "update", "insert"} \subseteq Modes
  BY DEF Rows, Modes

(* The commit of a new task.                                               *)
LEMMA EnqueueLeaves ==
  ASSUME TransactionsInv, NEW s \in Operators, NEW d \in Operators, s # d,
         NEW t \in TaskIds, ~Exists(t), NEW kind \in Kinds, NEW v \in Vms, NEW n \in Nodes,
         NEW ip \in Addrs \union {NoAddr},
         VmExists(v) => vm[v].node = n,
         HasLock(s, NodeOf(n), "update"),
         HasLock(s, VmOf(v), IF VmExists(v) THEN "update" ELSE "insert"),
         ip # NoAddr => HasLock(s, AddressOf(ip), "update") /\ HasLock(s, HolderOf(v), "update"),
         node' = node, Enqueue(t, kind, v, n, ip),
         QueuedStatus(kind, vm[v].status) # "absent"
  PROVE  KeepsNode(d) /\ KeepsVm(d) /\ KeepsAddress(d) /\ KeepsTask(d)
  <1>1. LocksExclude /\ TypeOK
    BY DEF TransactionsInv, Linked
  <1>2. \A w \in Vms : w # v => vm'[w] = vm[w]
    BY <1>1 DEF Enqueue, TypeOK
  <1>3. vm'[v].node = n /\ vm'[v].status # "absent"
    BY <1>1 DEF Enqueue, TypeOK
  <1>4. \A u \in TaskIds : u # t => task'[u] = task[u]
    BY <1>1 DEF Enqueue, TypeOK
  <1>5. \A a \in Addrs : alloc'[a] = IF a = ip THEN [vm |-> v, task |-> t] ELSE alloc[a]
    BY <1>1, NullAssumption DEF Enqueue, TypeOK
  <1>6. KeepsNode(d)
    <2> SUFFICES ASSUME NEW m \in Nodes, HasLock(d, NodeOf(m), "update")
                 PROVE  CommittedVms(m)' = CommittedVms(m)
      BY DEF KeepsNode
    <2>1. m # n
      BY <1>1, UpdateExcludes, RowTypes
    <2>2. vm[v].status \in Committed => vm[v].node = n
      BY DEF VmExists, Committed
    <2>3. QED BY <1>2, <1>3, <2>1, <2>2 DEF CommittedVms
  <1>7. KeepsVm(d)
    <2>1. VmExists(v) => ~HasLock(d, VmOf(v), "update")
      BY <1>1, UpdateExcludes, RowTypes
    <2>2. ASSUME NEW w \in Vms, HasLock(d, VmOf(w), "update"), VmExists(w)
          PROVE  vm'[w] = vm[w]
      BY <1>2, <2>1, <2>2, Zenon
    <2>3. ASSUME NEW w \in Vms, VmExists(w) PROVE VmExists(w)' /\ vm'[w].node = vm[w].node
      BY <1>2, <1>3, <2>3 DEF VmExists
    <2>4. ASSUME NEW w \in Vms, HasLock(d, VmOf(w), "insert"), ~VmExists(w)
          PROVE  ~VmExists(w)'
      <3>1. w # v
        BY <1>1, <2>4, InsertExcludes, RowTypes
      <3>2. QED BY <1>2, <2>4, <3>1 DEF VmExists
    <2>5. QED BY <2>2, <2>3, <2>4, Zenon DEF KeepsVm
  <1>8. KeepsAddress(d)
    <2> SUFFICES ASSUME NEW w \in Vms, NEW a \in Addrs,
                        HasLock(d, AddressOf(a), "update"), HasLock(d, HolderOf(w), "update"),
                        NextAddress(w, a)
                 PROVE  NextAddress(w, a)'
      BY Zenon DEF KeepsAddress
    <2>1. CASE ip = NoAddr
      BY <1>5, <2>1, NullAssumption DEF NextAddress
    <2>2. CASE ip # NoAddr
      <3>1. a # ip
        BY <1>1, <2>2, UpdateExcludes, RowTypes
      <3>2. w # v
        BY <1>1, <2>2, UpdateExcludes, RowTypes
      <3>3. QED BY <1>5, <3>1, <3>2 DEF NextAddress
    <2>3. QED BY <2>1, <2>2
  <1>9. KeepsTask(d)
    <2>1. ASSUME NEW u \in TaskIds, Exists(u) PROVE task'[u] = task[u]
      BY <1>4, <2>1
    <2>2. QED BY <2>1, Zenon DEF KeepsTask, Exists
  <1>10. QED BY <1>6, <1>7, <1>8, <1>9

(* The commit of a cancellation or of a status report.                     *)
LEMMA EndLeaves ==
  ASSUME TransactionsInv, NEW s \in Operators, NEW d \in Operators, s # d,
         NEW t \in TaskIds, Exists(t), NEW status \in TaskStatuses,
         NEW v \in Vms, v = task[t].vm, NEW n \in Nodes, n = task[t].node,
         HasLock(s, TaskOf(t), "no key update"),
         NextVmStatus(task[t].kind, status) # NoChange => HasLock(s, VmOf(v), "no key update"),
         HasLock(s, NodeOf(n), "key share"),
         node' = node, task' = [task EXCEPT ![t].status = status],
         ApplyTaskStatus(t, status)
  PROVE  KeepsNode(d) /\ KeepsVm(d) /\ KeepsAddress(d) /\ KeepsTask(d)
  <1>1. LocksExclude /\ TypeOK /\ VmExists(v) /\ vm[v].node = n
    BY DEF TransactionsInv, Linked, RowsLinked, TasksOnNodeOfVm
  <1>2. task[t] \in Task /\ vm[v] \in Vm
    BY <1>1, ExistingTask, ExistingVm
  <1>3. \A w \in Vms : w # v => vm'[w] = vm[w]
    BY <1>1 DEF ApplyTaskStatus, TypeOK
  <1>4. vm'[v].node = n /\ vm'[v].status # "absent"
    <2>1. CASE NextVmStatus(task[t].kind, status) = NoChange
      BY <1>1, <2>1 DEF ApplyTaskStatus, VmExists
    <2>2. CASE NextVmStatus(task[t].kind, status) # NoChange
      <3>1. NextVmStatus(task[t].kind, status) \in VmStatuses
        BY <1>2, <2>2, NextVmStatusType DEF Task
      <3>2. /\ vm'[v].node = vm[v].node
            /\ vm'[v].status = NextVmStatus(task[t].kind, status)
        BY <1>1, <1>2, <2>2 DEF ApplyTaskStatus, TypeOK, Vm
      <3>3. QED BY <1>1, <3>1, <3>2 DEF VmStatuses, Committed
    <2>3. QED BY <2>1, <2>2
  <1>5. \A u \in TaskIds : u # t => task'[u] = task[u]
    BY <1>1 DEF TypeOK
  <1>6. \A a \in Addrs : alloc'[a] = alloc[a] \/ alloc'[a] = Free
    BY <1>1 DEF ApplyTaskStatus, TypeOK
  <1>7. KeepsNode(d)
    <2> SUFFICES ASSUME NEW m \in Nodes, HasLock(d, NodeOf(m), "update")
                 PROVE  CommittedVms(m)' = CommittedVms(m)
      BY DEF KeepsNode
    <2>1. ~HasLock(s, NodeOf(m), "key share")
      BY <1>1, UpdateExcludes, RowTypes
    <2>2. m # n
      BY <2>1
    <2>3. QED BY <1>1, <1>3, <1>4, <2>2 DEF CommittedVms
  <1>8. KeepsVm(d)
    <2>1. ASSUME NEW w \in Vms, HasLock(d, VmOf(w), "update") PROVE vm'[w] = vm[w]
      <3>1. CASE NextVmStatus(task[t].kind, status) = NoChange
        BY <3>1 DEF ApplyTaskStatus
      <3>2. CASE NextVmStatus(task[t].kind, status) # NoChange
        <4>1. ~HasLock(s, VmOf(w), "no key update")
          BY <1>1, <2>1, UpdateExcludes, RowTypes
        <4>2. w # v
          BY <3>2, <4>1
        <4>3. QED BY <1>3, <4>2
      <3>3. QED BY <3>1, <3>2
    <2>2. ASSUME NEW w \in Vms, VmExists(w) PROVE VmExists(w)' /\ vm'[w].node = vm[w].node
      BY <1>1, <1>3, <1>4, <2>2 DEF VmExists
    <2>3. ASSUME NEW w \in Vms, ~VmExists(w) PROVE ~VmExists(w)'
      BY <1>1, <1>3, <2>3 DEF VmExists
    <2>4. QED BY <2>1, <2>2, <2>3, Zenon DEF KeepsVm
  <1>9. KeepsAddress(d)
    <2> SUFFICES ASSUME NEW w \in Vms, NEW a \in Addrs, NextAddress(w, a)
                 PROVE  NextAddress(w, a)'
      BY Zenon DEF KeepsAddress
    <2>1. QED BY <1>6, NullAssumption DEF NextAddress, Free
  <1>10. KeepsTask(d)
    <2>1. ASSUME NEW u \in TaskIds,
                 HasLock(d, TaskOf(u), "no key update") \/ HasLock(d, TaskOf(u), "update")
          PROVE  task'[u] = task[u]
      <3>1. u # t
        BY <1>1, <2>1, HoldersAgree, RowTypes DEF Conflict
      <3>2. QED BY <1>5, <3>1
    <2>2. ASSUME NEW u \in TaskIds, Exists(u)
          PROVE  /\ Exists(u)'
                 /\ task'[u].kind = task[u].kind /\ task'[u].vm = task[u].vm
                 /\ task'[u].node = task[u].node
      <3>1. CASE u = t
        <4>1. task'[t] = [task[t] EXCEPT !.status = status]
          BY <1>1 DEF TypeOK
        <4>2. QED BY <1>2, <3>1, <4>1 DEF Task, Exists, TaskStatuses, Active, Terminal, Unsuccessful
      <3>2. CASE u # t
        BY <1>5, <2>2, <3>2 DEF Exists
      <3>3. QED BY <3>1, <3>2
    <2>3. QED BY <2>1, <2>2, Zenon DEF KeepsTask
  <1>11. QED BY <1>7, <1>8, <1>9, <1>10

(* The commit of a poll that was given a task.                             *)
LEMMA ClaimLeaves ==
  ASSUME TransactionsInv, NEW s \in Operators, NEW d \in Operators, s # d,
         NEW t \in TaskIds, Exists(t), HasLock(s, TaskOf(t), "update"),
         task' = [task EXCEPT ![t].status = "assigned"], UNCHANGED <<vm, alloc, node>>
  PROVE  KeepsNode(d) /\ KeepsVm(d) /\ KeepsAddress(d) /\ KeepsTask(d)
  <1>1. LocksExclude /\ TypeOK /\ task[t] \in Task
    BY ExistingTask DEF TransactionsInv, Linked
  <1>2. ASSUME NEW u \in TaskIds PROVE u # t => task'[u] = task[u]
    BY <1>1 DEF TypeOK
  <1>3. KeepsNode(d) /\ KeepsVm(d) /\ KeepsAddress(d)
    BY DEF KeepsNode, KeepsVm, KeepsAddress, CommittedVms, VmExists, NextAddress
  <1>4. KeepsTask(d)
    <2>1. ASSUME NEW u \in TaskIds,
                 HasLock(d, TaskOf(u), "no key update") \/ HasLock(d, TaskOf(u), "update")
          PROVE  task'[u] = task[u]
      <3>1. u # t
        BY <1>1, <2>1, UpdateExcludes, RowTypes
      <3>2. QED BY <1>2, <3>1
    <2>2. ASSUME NEW u \in TaskIds, Exists(u)
          PROVE  /\ Exists(u)'
                 /\ task'[u].kind = task[u].kind /\ task'[u].vm = task[u].vm
                 /\ task'[u].node = task[u].node
      <3>1. CASE u = t
        <4>1. task'[t] = [task[t] EXCEPT !.status = "assigned"]
          BY <1>1 DEF TypeOK
        <4>2. QED BY <1>1, <3>1, <4>1 DEF Task, Exists
      <3>2. CASE u # t
        BY <1>2, <2>2, <3>2 DEF Exists
      <3>3. QED BY <3>1, <3>2
    <2>3. QED BY <2>1, <2>2, Zenon DEF KeepsTask
  <1>5. QED BY <1>3, <1>4

(* The commit of a heartbeat or of the scheduling switch.                  *)
LEMMA NodeUpdateLeaves ==
  ASSUME TransactionsInv, NEW s \in Operators, NEW d \in Operators, s # d,
         NEW n \in Nodes, HasLock(s, NodeOf(n), "no key update"),
         \A m \in Nodes : m # n => node'[m] = node[m], UNCHANGED <<task, vm, alloc>>
  PROVE  KeepsNode(d) /\ KeepsVm(d) /\ KeepsAddress(d) /\ KeepsTask(d)
  <1>1. LocksExclude
    BY DEF TransactionsInv
  <1>2. KeepsVm(d) /\ KeepsAddress(d) /\ KeepsTask(d)
    BY DEF KeepsVm, KeepsAddress, KeepsTask, VmExists, NextAddress, Exists
  <1>3. ASSUME NEW m \in Nodes, HasLock(d, NodeOf(m), "update")
        PROVE  node'[m] = node[m] /\ CommittedVms(m)' = CommittedVms(m)
    <2>1. ~HasLock(s, NodeOf(m), "no key update")
      BY <1>1, <1>3, UpdateExcludes, RowTypes
    <2>2. m # n
      BY <2>1
    <2>3. QED BY <2>2 DEF CommittedVms
  <1>4. QED BY <1>2, <1>3, Zenon DEF KeepsNode

-----------------------------------------------------------------------------
(* What each statement locks and tests.                                    *)

LEMMA NodeStatement ==
  ASSUME NEW s \in Operators, Statement(s) = "node"
  PROVE  /\ Wanted(s) = {NodeOf(session[s].node)}
         /\ session[s].handler \in {"create", "admit", "claim"} => LockMode(s) = "update"
         /\ session[s].handler \in {"scheduling", "heartbeat"} => LockMode(s) = "no key update"
         /\ session[s].handler \in {"create", "admit"} /\ Passes(s) => NodeAdmits(s)
         /\ session[s].handler = "claim" /\ Passes(s) => node[session[s].node].scheduling
  <1>1. Wanted(s) = {NodeOf(session[s].node)}
    BY DEF Wanted
  <1>2. /\ session[s].handler \in {"create", "admit", "claim"} => LockMode(s) = "update"
        /\ session[s].handler \in {"scheduling", "heartbeat"} => LockMode(s) = "no key update"
    BY DEF LockMode, InsertsVm
  <1>3. session[s].handler \in {"create", "admit"} /\ Passes(s) => NodeAdmits(s)
    BY Zenon DEF Passes
  <1>4. session[s].handler = "claim" /\ Passes(s) => node[session[s].node].scheduling
    BY DEF Passes
  <1>5. QED BY <1>1, <1>2, <1>3, <1>4

LEMMA VmStatement ==
  ASSUME NEW s \in Operators, Statement(s) = "vm"
  PROVE  /\ session[s].handler \in {"create", "admit"} =>
              Wanted(s) = {VmOf(session[s].vm)}
         /\ session[s].handler = "create" => LockMode(s) = "insert"
         /\ session[s].handler = "admit" => LockMode(s) = "update"
         /\ session[s].handler = "create" /\ Passes(s) => ~VmExists(session[s].vm)
         /\ session[s].handler = "admit" /\ Passes(s) => AdmissionAllowed(s)
         /\ session[s].handler \in {"cancel", "report"} =>
              /\ Wanted(s) = IF ChangesVm(s) THEN {VmOf(session[s].vm)} ELSE {}
              /\ LockMode(s) = "no key update"
  <1>1. /\ session[s].handler \in {"create", "admit"} =>
              Wanted(s) = {VmOf(session[s].vm)}
        /\ session[s].handler = "create" => LockMode(s) = "insert"
        /\ session[s].handler = "admit" => LockMode(s) = "update"
    BY DEF Wanted, LockMode, InsertsVm
  <1>2. session[s].handler = "create" /\ Passes(s) => ~VmExists(session[s].vm)
    BY Zenon DEF Passes
  <1>3. session[s].handler = "admit" /\ Passes(s) => AdmissionAllowed(s)
    BY Zenon DEF Passes
  <1>4. session[s].handler \in {"cancel", "report"} =>
          /\ Wanted(s) = IF ChangesVm(s) THEN {VmOf(session[s].vm)} ELSE {}
          /\ LockMode(s) = "no key update"
    BY DEF Wanted, LockMode, InsertsVm, ChangesVm
  <1>5. QED BY <1>1, <1>2, <1>3, <1>4

LEMMA TaskStatement ==
  ASSUME NEW s \in Operators, Statement(s) = "task", session[s].handler \in {"cancel", "report"}
  PROVE  /\ Wanted(s) = {TaskOf(session[s].task)}
         /\ LockMode(s) = "no key update"
         /\ Passes(s) => StatusUnchanged(s)
  <1>1. Wanted(s) = {TaskOf(session[s].task)} /\ LockMode(s) = "no key update"
    BY DEF Wanted, LockMode, InsertsVm
  <1>2. Passes(s) => StatusUnchanged(s)
    BY Zenon DEF Passes
  <1>3. QED BY <1>1, <1>2

LEMMA AuditStatement ==
  ASSUME NEW s \in Operators, Statement(s) = "audit", session[s].handler \in {"cancel", "report"}
  PROVE  Wanted(s) = {NodeOf(session[s].node)} /\ LockMode(s) = "key share"
  BY DEF Wanted, LockMode, InsertsVm

-----------------------------------------------------------------------------
(* The frame of every step.                                                *)

(* A step that leaves the tables alone disturbs nobody's beliefs.          *)
LEMMA TablesUntouched ==
  ASSUME UNCHANGED <<task, vm, alloc, node>>, NEW d \in Operators
  PROVE  KeepsNode(d) /\ KeepsVm(d) /\ KeepsAddress(d) /\ KeepsTask(d)
  <1>1. KeepsNode(d)
    BY DEF KeepsNode, CommittedVms
  <1>2. KeepsVm(d) /\ KeepsTask(d)
    BY DEF KeepsVm, KeepsTask, VmExists, Exists
  <1>3. KeepsAddress(d)
    BY DEF KeepsAddress, NextAddress
  <1>4. QED BY <1>1, <1>2, <1>3

(* What is left to show of a step of session s: that the tables stay       *)
(* linked and the locks exclusive, that s is ready for what it does next,  *)
(* and that the others are not disturbed.                                  *)
LEMMA SessionStep ==
  ASSUME TransactionsInv, NEW s \in Operators,
         Linked', TasksOnNodeOfVm', LocksExclude', locks' \subseteq Lock,
         session' \in [Operators -> Session \union {Closed}],
         Ready(s)',
         \A d \in Operators : d # s =>
           KeepsLocks(d) /\ KeepsNode(d) /\ KeepsVm(d) /\ KeepsAddress(d) /\ KeepsTask(d)
  PROVE  TransactionsInv'
  <1>1. ASSUME NEW d \in Operators PROVE Ready(d)'
    <2>1. CASE d = s
      BY <2>1
    <2>2. CASE d # s
      BY <2>2, KeepsReady
    <2>3. QED BY <2>1, <2>2
  <1>2. QED BY <1>1, Zenon DEF TransactionsInv

(* A step that only works on the session, or opens an admission for it.    *)
LEMMA QuietStep ==
  ASSUME TransactionsInv, NEW s \in Operators, NEW q \in Session,
         UNCHANGED <<task, vm, alloc, node>>, Linked',
         \A d \in Operators : d # s => tx'[d] = tx[d],
         session' = [session EXCEPT ![s] = q],
         LocksExclude', locks' \subseteq Lock, \A l \in locks : l \in locks',
         Ready(s)'
  PROVE  TransactionsInv'
  <1>1. session \in [Operators -> Session \union {Closed}]
    BY DEF TransactionsInv
  <1>2. session' \in [Operators -> Session \union {Closed}]
    BY <1>1
  <1>3. \A d \in Operators : d # s => KeepsLocks(d)
    BY <1>1 DEF KeepsLocks
  <1>4. TasksOnNodeOfVm'
    BY DEF TransactionsInv, TasksOnNodeOfVm, Exists
  <1>5. QED BY <1>2, <1>3, <1>4, TablesUntouched, SessionStep

(* The end of a transaction.                                               *)
LEMMA ClosingStep ==
  ASSUME TransactionsInv, NEW s \in Operators, Close(s), ~Open(s)',
         Linked', TasksOnNodeOfVm',
         \A d \in Operators : d # s =>
           /\ tx'[d] = tx[d]
           /\ KeepsNode(d) /\ KeepsVm(d) /\ KeepsAddress(d) /\ KeepsTask(d)
  PROVE  TransactionsInv'
  <1>1. session \in [Operators -> Session \union {Closed}] /\ locks \subseteq Lock /\ LocksExclude
    BY DEF TransactionsInv
  <1>2. /\ session' = [session EXCEPT ![s] = Closed]
        /\ locks' = {l \in locks : l.by # s}
    BY DEF Close
  <1>3. session' \in [Operators -> Session \union {Closed}]
    BY <1>1, <1>2
  <1>4. locks' \subseteq Lock
    BY <1>1, <1>2
  <1>5. LocksExclude'
    BY <1>1, <1>2 DEF LocksExclude
  <1>6. session'[s].handler = "none"
    BY <1>1, <1>2 DEF Closed
  <1>7. Ready(s)'
    BY <1>6 DEF Ready
  <1>8. \A d \in Operators : d # s => KeepsLocks(d)
    BY <1>1, <1>2 DEF KeepsLocks
  <1>9. QED BY <1>3, <1>4, <1>5, <1>7, <1>8, SessionStep

(* The tables that are left alone stay linked.                             *)
LEMMA StutterLinks ==
  ASSUME Linked, UNCHANGED vars
  PROVE  Linked'
  BY LinkedStep

-----------------------------------------------------------------------------
(* What a granted statement gives.                                         *)

LEMMA WantedRows ==
  ASSUME TransactionsInv, NEW s \in Operators, Executing(s)
  PROVE  Wanted(s) \subseteq Rows /\ LockMode(s) \in Modes
  <1>1. session[s] \in Session
    BY BusyType DEF TransactionsInv, Executing
  <1>2. LockMode(s) \in Modes
    BY DEF LockMode, InsertsVm, Modes
  <1>3. session[s].handler \in {"cancel", "report"} =>
          session[s].vm \in Vms /\ session[s].task \in TaskIds
    <2>1. session[s].handler \in {"cancel", "report"} =>
            /\ session[s].task \in TaskIds /\ Exists(session[s].task)
            /\ session[s].vm = task[session[s].task].vm
      BY Zenon DEF TransactionsInv, Ready, EndReady
    <2>2. TypeOK
      BY DEF TransactionsInv, Linked
    <2>3. QED BY <2>1, <2>2, ExistingTask DEF Task
  <1>4. session[s].handler \in {"create", "admit"} => session[s].vm \in Vms
    <2>1. session[s].handler = "create" => session[s].vm \in Vms
      BY Zenon DEF TransactionsInv, Ready, CreateReady
    <2>2. session[s].handler = "admit" => Open(s) /\ session[s].vm = tx[s].vm
      BY Zenon DEF TransactionsInv, Ready, AdmitReady
    <2>3. Open(s) => tx[s] \in OpenTx
      BY OpenTxType DEF TransactionsInv, Linked
    <2>4. QED BY <2>1, <2>2, <2>3 DEF OpenTx
  <1>5. session[s].node \in Nodes /\ session[s].handler \in Handlers
    BY <1>1 DEF Session
  <1>6. CASE Statement(s) \in {"node", "audit"}
    <2>1. Wanted(s) = {NodeOf(session[s].node)}
      BY <1>6 DEF Wanted
    <2>2. QED BY <1>2, <1>5, <2>1, RowTypes
  <1>7. CASE Statement(s) = "vm"
    <2>1. session[s].handler \in {"create", "admit", "cancel", "report"}
      BY <1>1, <1>5, <1>7, StatementAt DEF Handlers, Executing
    <2>2. Wanted(s) \subseteq {VmOf(session[s].vm)}
      BY <1>7 DEF Wanted
    <2>3. QED BY <1>2, <1>3, <1>4, <2>1, <2>2, RowTypes
  <1>8. CASE Statement(s) = "address"
    <2>1. session[s].handler \in {"create", "admit"}
      BY <1>1, <1>5, <1>8, StatementAt DEF Handlers, Executing
    <2>2. Wanted(s) \subseteq UNION {{AddressOf(a), HolderOf(session[s].vm)} : a \in Addrs}
      BY <1>8 DEF Wanted, NextCandidate
    <2>3. QED BY <1>2, <1>4, <2>1, <2>2, RowTypes
  <1>9. CASE Statement(s) = "release"
    <2>1. session[s].handler \in {"cancel", "report"}
      BY <1>1, <1>5, <1>9, StatementAt DEF Handlers, Executing
    <2>2. Wanted(s) \subseteq UNION {{AddressOf(a), HolderOf(session[s].vm)} : a \in Addrs}
      BY <1>9 DEF Wanted
    <2>3. QED BY <1>2, <1>3, <2>1, <2>2, RowTypes
  <1>10. CASE Statement(s) = "task" /\ session[s].handler # "claim"
    <2>1. session[s].handler \in {"cancel", "report"}
      BY <1>1, <1>5, <1>10, StatementAt DEF Handlers, Executing
    <2>2. Wanted(s) = {TaskOf(session[s].task)}
      BY <1>10 DEF Wanted
    <2>3. QED BY <1>2, <1>3, <2>1, <2>2, RowTypes
  <1>11. CASE Statement(s) = "pool" \/ (Statement(s) = "task" /\ session[s].handler = "claim")
    <2>1. Wanted(s) = {}
      BY <1>11 DEF Wanted
    <2>2. QED BY <1>2, <2>1
  <1>12. Statement(s) \in {"node", "audit", "vm", "address", "release", "task", "pool"}
    BY <1>1, <1>5, StatementAt DEF Handlers, Executing
  <1>13. QED BY <1>6, <1>7, <1>8, <1>9, <1>10, <1>11, <1>12

(* What is not blocked is held by nobody, and may be granted.              *)
LEMMA GrantedStatement ==
  ASSUME TransactionsInv, NEW s \in Operators, Executing(s), ~Blocked(s),
         NEW mode, mode = LockMode(s), NEW rows, rows = Wanted(s), Granted(s, rows)
  PROVE  /\ LocksExclude' /\ locks' \subseteq Lock
         /\ \A row \in rows : HasLock(s, row, mode)'
         /\ \A l \in locks : l \in locks'
  <1>1. LocksExclude /\ locks \subseteq Lock
    BY DEF TransactionsInv
  <1>2. rows \subseteq Rows /\ mode \in Modes
    BY WantedRows
  <1>3. ASSUME NEW row \in rows, NEW l \in HeldAgainst(s, row, mode) PROVE FALSE
    <2>1. l.by \in Operators
      BY <1>1 DEF HeldAgainst, Lock
    <2>2. WaitsFor(s, l.by)
      BY <1>3, Zenon DEF WaitsFor
    <2>3. QED BY <2>1, <2>2 DEF Blocked
  <1>4. locks' = locks \union {[by |-> s, row |-> row, mode |-> mode] : row \in rows}
    BY DEF Granted
  <1>5. \A row \in rows : HeldAgainst(s, row, mode) = {}
    BY <1>3
  <1>6. QED BY <1>1, <1>2, <1>4, <1>5, GrantExcludes

-----------------------------------------------------------------------------
(* Beginning a transaction.                                                *)

LEMMA StartedType ==
  ASSUME NEW handler \in Handlers, NEW n \in Nodes, NEW v \in Vms \union {NoVm},
         NEW t \in TaskIds \union {NoTask},
         NEW from \in TaskStatuses \union {"none"},
         NEW to \in TaskStatuses \union {"none", "on", "off"}, NEW seen \in SUBSET TaskIds
  PROVE  [handler |-> handler, node |-> n, vm |-> v, task |-> t, from |-> from, to |-> to,
          seen |-> seen, known |-> {}, ip |-> NoAddr, at |-> 1] \in Session
  BY DEF Session

(* Only what its own handler requires makes a session ready.               *)
LEMMA ReadyFor ==
  ASSUME NEW s \in Operators, NEW handler \in Handlers, session'[s].handler = handler,
         handler = "create" => CreateReady(s)',
         handler = "admit" => AdmitReady(s)',
         handler \in {"cancel", "report"} => EndReady(s)',
         handler = "claim" => ClaimReady(s)',
         handler \in {"scheduling", "heartbeat"} => NodeUpdateReady(s)'
  PROVE  Ready(s)'
  <1>1. handler # "none"
    BY DEF Handlers
  <1>2. QED BY <1>1, Zenon DEF Ready

LEMMA IdleSession ==
  ASSUME TransactionsInv, NEW s \in Operators, ~Busy(s)
  PROVE  ~Open(s)
  <1>1. session[s].handler = "none"
    BY DEF Busy, Closed
  <1>2. QED BY <1>1, Zenon DEF TransactionsInv, Ready

(* The beginnings that open no admission.                                  *)
LEMMA BeginStep ==
  ASSUME TransactionsInv, NEW s \in Operators, NEW q \in Session,
         Opened(s, q), UNCHANGED dbVars, Ready(s)'
  PROVE  TransactionsInv' /\ UNCHANGED vars
  <1>1. UNCHANGED vars
    BY DEF dbVars, vars
  <1>2. Linked' /\ LocksExclude /\ locks \subseteq Lock
    BY <1>1, StutterLinks DEF TransactionsInv
  <1>3. session' = [session EXCEPT ![s] = q] /\ locks' = locks
    BY DEF Opened
  <1>4. LocksExclude' /\ locks' \subseteq Lock /\ \A l \in locks : l \in locks'
    BY <1>2, <1>3 DEF LocksExclude
  <1>5. UNCHANGED <<task, vm, alloc, node>> /\ \A d \in Operators : d # s => tx'[d] = tx[d]
    BY <1>1 DEF vars
  <1>6. TransactionsInv'
    BY <1>2, <1>3, <1>4, <1>5, QuietStep
  <1>7. QED BY <1>1, <1>6

LEMMA OpenedSession ==
  ASSUME TransactionsInv, NEW s \in Operators, NEW q, Opened(s, q)
  PROVE  session'[s] = q
  BY DEF TransactionsInv, Opened

LEMMA BeginCreateStep ==
  ASSUME TransactionsInv, NEW s \in Operators, NEW v \in Vms, NEW n \in Nodes,
         BeginCreate(s, v, n)
  PROVE  TransactionsInv' /\ UNCHANGED vars
  <1>1. PICK q : q = Started("create", n, v, NoTask)
    OBVIOUS
  <1>2. /\ q.handler = "create" /\ q.vm = v /\ q.at = 1 /\ q.ip = NoAddr
        /\ q \in Session
    BY <1>1, StartedType DEF Started, Handlers
  <1>3. Opened(s, q) /\ UNCHANGED dbVars /\ ~Open(s)
    BY <1>1, IdleSession DEF BeginCreate
  <1>4. session'[s] = q /\ tx' = tx
    BY <1>3, OpenedSession DEF dbVars
  <1>5. ~Open(s)'
    BY <1>3, <1>4 DEF Open
  <1>6. ~(q.at > 1) /\ ~(q.at > 3) /\ ~(q.at > 4)
    BY <1>2
  <1>7. AddressReady(s, q.at > 3)'
    BY <1>2, <1>4, <1>6, Zenon DEF AddressReady
  <1>8. CreateReady(s)'
    BY <1>2, <1>4, <1>5, <1>6, <1>7, Zenon DEF CreateReady
  <1>9. Ready(s)'
    BY <1>2, <1>4, <1>8, ReadyFor DEF Handlers
  <1>10. QED BY <1>2, <1>3, <1>9, BeginStep

LEMMA BeginEndStep ==
  ASSUME TransactionsInv, NEW s \in Operators, NEW t \in TaskIds,
         NEW handler \in {"cancel", "report"}, NEW status \in TaskStatuses,
         BeginEnd(s, t, handler, status)
  PROVE  TransactionsInv' /\ UNCHANGED vars
  <1>1. PICK q : q = [Started(handler, task[t].node, task[t].vm, t) EXCEPT
                        !.from = task[t].status, !.to = status]
    OBVIOUS
  <1>2. Exists(t) /\ task[t] \in Task
    BY ExistingTask DEF BeginEnd, TransactionsInv, Linked
  <1>3. PICK n \in Nodes, v \in Vms, from \in TaskStatuses :
          n = task[t].node /\ v = task[t].vm /\ from = task[t].status
    BY <1>2 DEF Task
  <1>4. q = [handler |-> handler, node |-> n, vm |-> v, task |-> t, from |-> from, to |-> status,
             seen |-> {}, known |-> {}, ip |-> NoAddr, at |-> 1]
    BY <1>1, <1>3 DEF Started
  <1>5. /\ q.handler = handler /\ q.vm = v /\ q.at = 1 /\ q.node = n /\ q.task = t
        /\ q.from = from /\ q.to = status
    BY <1>4
  <1>6. q \in Session
    BY <1>4, StartedType DEF Handlers
  <1>7. Opened(s, q) /\ UNCHANGED dbVars /\ ~Open(s)
    BY <1>1, IdleSession DEF BeginEnd
  <1>8. session'[s] = q /\ tx' = tx /\ task' = task /\ vm' = vm
    BY <1>7, OpenedSession DEF dbVars
  <1>9. ~Open(s)' /\ Exists(t)'
    BY <1>2, <1>7, <1>8 DEF Open, Exists
  <1>10. ~(q.at > 1) /\ ~(q.at > 2) /\ ~(q.at > 4)
    BY <1>5
  <1>11. /\ handler = "cancel" => status = "canceled" /\ from \in {"pending", "assigned"}
         /\ handler = "report" => ValidAgentTransition(from, status)
    BY <1>3 DEF BeginEnd
  <1>12. EndReady(s)'
    BY <1>3, <1>5, <1>8, <1>9, <1>10, <1>11, Zenon DEF EndReady
  <1>13. Ready(s)'
    BY <1>5, <1>8, <1>12, ReadyFor DEF Handlers
  <1>14. QED BY <1>6, <1>7, <1>13, BeginStep

LEMMA BeginClaimStep ==
  ASSUME TransactionsInv, NEW s \in Operators, NEW n \in Nodes, BeginClaim(s, n)
  PROVE  TransactionsInv' /\ UNCHANGED vars
  <1>1. PICK pending \in SUBSET TaskIds :
          pending = {t \in TaskIds : task[t].status = "pending" /\ task[t].node = n}
    OBVIOUS
  <1>2. PICK q : q = [Started("claim", n, NoVm, NoTask) EXCEPT !.seen = pending]
    OBVIOUS
  <1>3. q = [handler |-> "claim", node |-> n, vm |-> NoVm, task |-> NoTask, from |-> "none",
             to |-> "none", seen |-> pending, known |-> {}, ip |-> NoAddr, at |-> 1]
    BY <1>2 DEF Started
  <1>4. q.handler = "claim" /\ q.node = n /\ q.seen = pending /\ q.at = 1
    BY <1>3
  <1>5. q \in Session
    BY <1>3, StartedType DEF Handlers
  <1>6. Opened(s, q) /\ UNCHANGED dbVars /\ ~Open(s)
    BY <1>1, <1>2, IdleSession DEF BeginClaim
  <1>7. session'[s] = q /\ tx' = tx /\ task' = task
    BY <1>6, OpenedSession DEF dbVars
  <1>8. ~Open(s)' /\ \A t \in pending : Exists(t)' /\ task'[t].node = n
    BY <1>1, <1>6, <1>7 DEF Open, Exists
  <1>9. ~(q.at > 1) /\ ~(q.at > 2)
    BY <1>4
  <1>10. ClaimReady(s)'
    BY <1>4, <1>7, <1>8, <1>9, Zenon DEF ClaimReady
  <1>11. Ready(s)'
    BY <1>4, <1>7, <1>10, ReadyFor DEF Handlers
  <1>12. QED BY <1>5, <1>6, <1>11, BeginStep

LEMMA BeginNodeUpdateStep ==
  ASSUME TransactionsInv, NEW s \in Operators, NEW n \in Nodes,
         NEW handler \in {"scheduling", "heartbeat"}, NEW value \in {"on", "off"},
         BeginNodeUpdate(s, n, handler, value)
  PROVE  TransactionsInv' /\ UNCHANGED vars
  <1>1. PICK q : q = [Started(handler, n, NoVm, NoTask) EXCEPT !.to = value]
    OBVIOUS
  <1>2. q = [handler |-> handler, node |-> n, vm |-> NoVm, task |-> NoTask, from |-> "none",
             to |-> value, seen |-> {}, known |-> {}, ip |-> NoAddr, at |-> 1]
    BY <1>1 DEF Started
  <1>3. q.handler = handler /\ q.to = value /\ q.at = 1
    BY <1>2
  <1>4. q \in Session
    BY <1>2, StartedType DEF Handlers
  <1>5. Opened(s, q) /\ UNCHANGED dbVars /\ ~Open(s)
    BY <1>1, IdleSession DEF BeginNodeUpdate
  <1>6. session'[s] = q /\ tx' = tx
    BY <1>5, OpenedSession DEF dbVars
  <1>7. ~Open(s)'
    BY <1>5, <1>6 DEF Open
  <1>8. ~(q.at > 1) /\ q.to \in {"on", "off"}
    BY <1>3
  <1>9. NodeUpdateReady(s)'
    BY <1>6, <1>7, <1>8, Zenon DEF NodeUpdateReady
  <1>10. Ready(s)'
    BY <1>3, <1>6, <1>9, ReadyFor DEF Handlers
  <1>11. QED BY <1>4, <1>5, <1>10, BeginStep

LEMMA BeginAdmissionStep ==
  ASSUME TransactionsInv, NEW s \in Operators, BeginAdmission(s)
  PROVE  TransactionsInv' /\ Next
  <1>1. PICK t \in TaskIds, v \in Vms, kind \in Kinds, retry \in BOOLEAN :
          OpenAdmission(s, t, v, kind, retry)
    <2>1. ASSUME NEW t \in TaskIds, NEW v \in Vms, NEW kind \in ActionKinds,
                 BeginAction(s, t, v, kind)
          PROVE  OpenAdmission(s, t, v, kind, FALSE) /\ kind \in Kinds
      BY <2>1 DEF BeginAction, Kinds
    <2>2. ASSUME NEW t \in TaskIds, NEW u \in TaskIds, BeginRetry(s, t, u)
          PROVE  /\ OpenAdmission(s, t, task[u].vm, task[u].kind, TRUE)
                 /\ task[u].kind \in Kinds /\ task[u].vm \in Vms
      <3>1. Exists(u)
        BY <2>2 DEF BeginRetry, Exists, Unsuccessful
      <3>2. task[u] \in Task
        BY <3>1, ExistingTask DEF TransactionsInv, Linked
      <3>3. QED BY <2>2, <3>2 DEF BeginRetry, Task
    <2>3. QED BY <2>1, <2>2, Zenon DEF BeginAdmission
  <1>2. Next
    BY Zenon DEF BeginAdmission, Next, OperatorStep
  <1>3. Linked'
    BY <1>2, LinkedStep DEF TransactionsInv
  <1>4. TypeOK /\ tx \in [Operators -> OpenTx \union {NoTx}]
    BY DEF TransactionsInv, Linked, TypeOK
  <1>5. /\ ~Open(s) /\ VmExists(v) /\ UNCHANGED <<task, vm, alloc, node>>
        /\ tx'[s].id = t /\ tx'[s].vm = v
        /\ \A d \in Operators : d # s => tx'[d] = tx[d]
    BY <1>1, <1>4 DEF OpenAdmission
  <1>6. vm[v] \in Vm
    BY <1>4, <1>5, ExistingVm
  <1>7. PICK n \in Nodes : n = vm[v].node
    BY <1>6 DEF Vm
  <1>8. PICK q : q = Started("admit", n, v, NoTask)
    OBVIOUS
  <1>9. /\ q.handler = "admit" /\ q.vm = v /\ q.at = 1 /\ q.ip = NoAddr /\ q.node = n
        /\ q \in Session
    BY <1>8, StartedType DEF Started, Handlers
  <1>10. Opened(s, q)
    BY <1>5, <1>7, <1>8 DEF BeginAdmission
  <1>11. session'[s] = q
    BY <1>10, OpenedSession
  <1>12. Open(s)' /\ n = vm'[v].node
    BY <1>5, <1>7, NullAssumption DEF Open
  <1>13. ~(q.at > 1) /\ ~(q.at > 2) /\ ~(q.at > 4)
    BY <1>9
  <1>14. AddressReady(s, q.at > 4)'
    BY <1>9, <1>11, <1>13, Zenon DEF AddressReady
  <1>15. AdmitReady(s)'
    BY <1>5, <1>9, <1>11, <1>12, <1>13, <1>14, Zenon DEF AdmitReady
  <1>16. Ready(s)'
    BY <1>9, <1>11, <1>15, ReadyFor DEF Handlers
  <1>17. session' = [session EXCEPT ![s] = q] /\ locks' = locks
    BY <1>10 DEF Opened
  <1>18. LocksExclude' /\ locks' \subseteq Lock /\ \A l \in locks : l \in locks'
    BY <1>17 DEF LocksExclude, TransactionsInv
  <1>19. TransactionsInv'
    BY <1>3, <1>5, <1>9, <1>16, <1>17, <1>18, QuietStep
  <1>20. QED BY <1>2, <1>19

-----------------------------------------------------------------------------
(* Executing a statement: what a session has established stays so, and the *)
(* statement adds what the next one relies on.                             *)

(* Session s goes from r to q and leaves the tables alone.                 *)
Advances(s, r, q) ==
  /\ session[s] = r /\ session'[s] = q
  /\ q.handler = r.handler /\ q.vm = r.vm /\ q.node = r.node
  /\ q.from = r.from /\ q.to = r.to /\ q.seen = r.seen
  /\ r.at \in 1 .. 4 /\ q.at \in {r.at, r.at + 1}
  /\ UNCHANGED dbVars
  /\ \A l \in locks : l \in locks'

LEMMA Carried ==
  ASSUME NEW s \in Operators, NEW r \in Session, NEW q \in Session, Advances(s, r, q)
  PROVE  /\ \A row, mode : HasLock(s, row, mode) => HasLock(s, row, mode)'
         /\ Open(s)' <=> Open(s)
         /\ TakesAddress(s)' <=> TakesAddress(s)
         /\ NodeAdmits(s)' <=> NodeAdmits(s)
         /\ AdmissionAllowed(s)' <=> AdmissionAllowed(s)
         /\ q.task = r.task => (ChangesVm(s)' <=> ChangesVm(s))
         /\ q.task = r.task => (StatusUnchanged(s)' <=> StatusUnchanged(s))
  <1>1. /\ session[s] = r /\ session'[s] = q
        /\ q.handler = r.handler /\ q.vm = r.vm /\ q.node = r.node
        /\ q.from = r.from /\ q.to = r.to
        /\ task' = task /\ vm' = vm /\ alloc' = alloc /\ node' = node /\ tx' = tx
        /\ \A l \in locks : l \in locks'
    BY DEF Advances, dbVars
  <1>2. \A row, mode : HasLock(s, row, mode) => HasLock(s, row, mode)'
    BY <1>1 DEF HasLock
  <1>3. (Open(s)' <=> Open(s)) /\ QueuedKind(s)' = QueuedKind(s)
    BY <1>1 DEF Open, QueuedKind
  <1>4. TakesAddress(s)' <=> TakesAddress(s)
    BY <1>1, <1>3 DEF TakesAddress
  <1>5. NodeAdmits(s)' <=> NodeAdmits(s)
    BY <1>1, <1>3 DEF NodeAdmits, NodeAccepts, HasCapacity, CommittedVms
  <1>6. AdmissionAllowed(s)' <=> AdmissionAllowed(s)
    BY <1>1 DEF AdmissionAllowed, LastStatusSeen
  <1>7. q.task = r.task => (ChangesVm(s)' <=> ChangesVm(s))
    BY <1>1 DEF ChangesVm
  <1>8. q.task = r.task => (StatusUnchanged(s)' <=> StatusUnchanged(s))
    BY <1>1 DEF StatusUnchanged
  <1>9. QED BY <1>2, <1>3, <1>4, <1>5, <1>6, <1>7, <1>8

(* A reserved address stays reserved; a new one is as AddressReady says.   *)
LEMMA AddressCarried ==
  ASSUME NEW s \in Operators, NEW r \in Session, NEW q \in Session, Advances(s, r, q),
         NEW before \in BOOLEAN, NEW after \in BOOLEAN, AddressReady(s, before),
         before = after => q.ip = r.ip, before => after,
         ~before /\ after =>
           IF TakesAddress(s)
           THEN /\ q.ip \in Addrs /\ NextAddress(r.vm, q.ip)
                /\ HasLock(s, AddressOf(q.ip), "update")'
                /\ HasLock(s, HolderOf(r.vm), "update")'
           ELSE q.ip = r.ip
  PROVE  AddressReady(s, after)'
  <1>1. /\ session[s] = r /\ session'[s] = q /\ q.vm = r.vm /\ alloc' = alloc
    BY DEF Advances, dbVars
  <1>2. /\ before /\ TakesAddress(s) =>
             /\ r.ip \in Addrs /\ NextAddress(r.vm, r.ip)
             /\ HasLock(s, AddressOf(r.ip), "update")
             /\ HasLock(s, HolderOf(r.vm), "update")
        /\ ~(before /\ TakesAddress(s)) => r.ip = NoAddr
    BY <1>1, Zenon DEF AddressReady
  <1>3. \A v \in Vms, a \in Addrs : NextAddress(v, a)' <=> NextAddress(v, a)
    BY <1>1 DEF NextAddress
  <1>4. TakesAddress(s) => r.vm \in Vms
    BY <1>1, PooledAssumption DEF TakesAddress
  <1>5. CASE before = after
    BY <1>1, <1>2, <1>3, <1>4, <1>5, Carried, Zenon DEF AddressReady
  <1>6. CASE ~before /\ after
    BY <1>1, <1>2, <1>3, <1>4, <1>6, Carried, Zenon DEF AddressReady
  <1>7. QED BY <1>5, <1>6

LEMMA NodeReadyCarried ==
  ASSUME NEW s \in Operators, NEW r \in Session, NEW q \in Session, Advances(s, r, q)
  PROVE  /\ NodeReady(s) => NodeReady(s)'
         /\ HasLock(s, NodeOf(r.node), "update")' /\ NodeAdmits(s) => NodeReady(s)'
  <1>1. session[s] = r /\ session'[s] = q /\ q.node = r.node
    BY DEF Advances
  <1>2. QED BY <1>1, Carried, Zenon DEF NodeReady

LEMMA CreateAdvances ==
  ASSUME NEW s \in Operators, NEW r \in Session, NEW q \in Session, Advances(s, r, q),
         r.handler = "create", CreateReady(s),
         r.at = 1 /\ q.at = 2 => HasLock(s, NodeOf(r.node), "update")' /\ NodeAdmits(s),
         ~(r.at = 3 /\ q.at = 4) => q.ip = r.ip,
         r.at = 3 /\ q.at = 4 =>
           IF TakesAddress(s)
           THEN /\ q.ip \in Addrs /\ NextAddress(r.vm, q.ip)
                /\ HasLock(s, AddressOf(q.ip), "update")'
                /\ HasLock(s, HolderOf(r.vm), "update")'
           ELSE q.ip = r.ip,
         r.at = 4 /\ q.at = 5 => HasLock(s, VmOf(r.vm), "insert")' /\ ~VmExists(r.vm)
  PROVE  Ready(s)'
  <1>1. /\ session[s] = r /\ session'[s] = q /\ q.vm = r.vm /\ vm' = vm
        /\ q.handler = "create"
    BY DEF Advances, dbVars
  <1>2. r.at \in 1 .. 4 /\ q.at \in {r.at, r.at + 1}
    BY DEF Advances
  <1>3. /\ ~Open(s) /\ r.vm \in Vms
        /\ r.at > 1 => NodeReady(s)
        /\ AddressReady(s, r.at > 3)
        /\ r.at > 4 => HasLock(s, VmOf(r.vm), "insert") /\ ~VmExists(r.vm)
    BY <1>1, Zenon DEF CreateReady
  <1>4. q.at > 1 => NodeReady(s)'
    <2>1. q.at > 1 => r.at > 1 \/ (r.at = 1 /\ q.at = 2)
      BY <1>2
    <2>2. QED BY <1>3, <2>1, NodeReadyCarried
  <1>5. AddressReady(s, q.at > 3)'
    <2> DEFINE before == r.at > 3
               after == q.at > 3
    <2>1. before \in BOOLEAN /\ after \in BOOLEAN
      OBVIOUS
    <2>2. /\ before => after
          /\ before = after => ~(r.at = 3 /\ q.at = 4)
          /\ ~before /\ after => r.at = 3 /\ q.at = 4
      BY <1>2
    <2>3. AddressReady(s, before)
      BY <1>3
    <2> HIDE DEF before, after
    <2>4. AddressReady(s, after)'
      BY <2>1, <2>2, <2>3, AddressCarried
    <2>5. QED BY <2>4 DEF after
  <1>6. q.at > 4 => HasLock(s, VmOf(r.vm), "insert")' /\ ~VmExists(r.vm)'
    <2>1. q.at > 4 => r.at = 4 /\ q.at = 5
      BY <1>2
    <2>2. VmExists(r.vm)' <=> VmExists(r.vm)
      BY <1>1 DEF VmExists
    <2>3. QED BY <2>1, <2>2
  <1>7. ~Open(s)'
    BY <1>3, Carried
  <1>8. CreateReady(s)'
    BY <1>1, <1>3, <1>4, <1>5, <1>6, <1>7, Zenon DEF CreateReady
  <1>9. QED BY <1>1, <1>8, ReadyFor DEF Handlers

LEMMA AdmitAdvances ==
  ASSUME NEW s \in Operators, NEW r \in Session, NEW q \in Session, Advances(s, r, q),
         r.handler = "admit", AdmitReady(s),
         r.at = 1 /\ q.at = 2 => HasLock(s, VmOf(r.vm), "update")' /\ AdmissionAllowed(s),
         r.at = 2 /\ q.at = 3 => HasLock(s, NodeOf(r.node), "update")' /\ NodeAdmits(s),
         ~(r.at = 4 /\ q.at = 5) => q.ip = r.ip,
         r.at = 4 /\ q.at = 5 =>
           IF TakesAddress(s)
           THEN /\ q.ip \in Addrs /\ NextAddress(r.vm, q.ip)
                /\ HasLock(s, AddressOf(q.ip), "update")'
                /\ HasLock(s, HolderOf(r.vm), "update")'
           ELSE q.ip = r.ip
  PROVE  Ready(s)'
  <1>1. /\ session[s] = r /\ session'[s] = q /\ q.vm = r.vm /\ q.node = r.node
        /\ vm' = vm /\ tx' = tx /\ q.handler = "admit"
    BY DEF Advances, dbVars
  <1>2. r.at \in 1 .. 4 /\ q.at \in {r.at, r.at + 1}
    BY DEF Advances
  <1>3. /\ Open(s) /\ r.vm = tx[s].vm /\ r.node = vm[r.vm].node
        /\ r.at > 1 => HasLock(s, VmOf(r.vm), "update") /\ AdmissionAllowed(s)
        /\ r.at > 2 => NodeReady(s)
        /\ AddressReady(s, r.at > 4)
    BY <1>1, Zenon DEF AdmitReady
  <1>4. q.at > 1 => HasLock(s, VmOf(r.vm), "update")' /\ AdmissionAllowed(s)'
    <2>1. q.at > 1 => r.at > 1 \/ (r.at = 1 /\ q.at = 2)
      BY <1>2
    <2>2. QED BY <1>3, <2>1, Carried
  <1>5. q.at > 2 => NodeReady(s)'
    <2>1. q.at > 2 => r.at > 2 \/ (r.at = 2 /\ q.at = 3)
      BY <1>2
    <2>2. QED BY <1>3, <2>1, NodeReadyCarried
  <1>6. AddressReady(s, q.at > 4)'
    <2> DEFINE before == r.at > 4
               after == q.at > 4
    <2>1. before \in BOOLEAN /\ after \in BOOLEAN
      OBVIOUS
    <2>2. /\ before => after
          /\ before = after => ~(r.at = 4 /\ q.at = 5)
          /\ ~before /\ after => r.at = 4 /\ q.at = 5
      BY <1>2
    <2>3. AddressReady(s, before)
      BY <1>3
    <2> HIDE DEF before, after
    <2>4. AddressReady(s, after)'
      BY <2>1, <2>2, <2>3, AddressCarried
    <2>5. QED BY <2>4 DEF after
  <1>7. Open(s)'
    BY <1>3, Carried
  <1>8. AdmitReady(s)'
    BY <1>1, <1>3, <1>4, <1>5, <1>6, <1>7, Zenon DEF AdmitReady
  <1>9. QED BY <1>1, <1>8, ReadyFor DEF Handlers

LEMMA NextStatement ==
  ASSUME NEW a \in 1 .. 4, NEW b \in {a, a + 1}
  PROVE  /\ b > 1 => a > 1 \/ (a = 1 /\ b = 2)
         /\ b > 2 => a > 2 \/ (a = 2 /\ b = 3)
         /\ b > 4 => a > 4 \/ (a = 4 /\ b = 5)
  OBVIOUS

LEMMA EndAdvances ==
  ASSUME NEW s \in Operators, NEW r \in Session, NEW q \in Session, Advances(s, r, q),
         r.handler \in {"cancel", "report"}, EndReady(s), q.task = r.task,
         r.at = 1 /\ q.at = 2 => HasLock(s, TaskOf(r.task), "no key update")' /\ StatusUnchanged(s),
         r.at = 2 /\ q.at = 3 /\ ChangesVm(s) => HasLock(s, VmOf(r.vm), "no key update")',
         r.at = 4 /\ q.at = 5 => HasLock(s, NodeOf(r.node), "key share")'
  PROVE  Ready(s)'
  <1>1. /\ session[s] = r /\ session'[s] = q /\ q.vm = r.vm /\ q.node = r.node
        /\ q.from = r.from /\ q.to = r.to /\ task' = task /\ q.handler = r.handler
    BY DEF Advances, dbVars
  <1>2. r.at \in 1 .. 4 /\ q.at \in {r.at, r.at + 1}
    BY DEF Advances
  <1>3. /\ ~Open(s)
        /\ r.task \in TaskIds /\ Exists(r.task)
        /\ r.vm = task[r.task].vm /\ r.node = task[r.task].node
        /\ r.handler = "cancel" => r.to = "canceled" /\ r.from \in {"pending", "assigned"}
        /\ r.handler = "report" => ValidAgentTransition(r.from, r.to)
        /\ r.at > 1 => HasLock(s, TaskOf(r.task), "no key update") /\ StatusUnchanged(s)
        /\ r.at > 2 /\ ChangesVm(s) => HasLock(s, VmOf(r.vm), "no key update")
        /\ r.at > 4 => HasLock(s, NodeOf(r.node), "key share")
    BY <1>1, Zenon DEF EndReady
  <1>0. /\ \A row, mode : HasLock(s, row, mode) => HasLock(s, row, mode)'
        /\ ChangesVm(s)' <=> ChangesVm(s)
        /\ StatusUnchanged(s)' <=> StatusUnchanged(s)
        /\ Open(s)' <=> Open(s)
    BY Carried, Zenon
  <1>4. q.at > 1 => HasLock(s, TaskOf(r.task), "no key update")' /\ StatusUnchanged(s)'
    <2>1. q.at > 1 => r.at > 1 \/ (r.at = 1 /\ q.at = 2)
      BY <1>2, NextStatement
    <2>2. QED BY <1>0, <1>3, <2>1, Zenon
  <1>5. q.at > 2 /\ ChangesVm(s)' => HasLock(s, VmOf(r.vm), "no key update")'
    <2>1. q.at > 2 => r.at > 2 \/ (r.at = 2 /\ q.at = 3)
      BY <1>2, NextStatement
    <2>2. QED BY <1>0, <1>3, <2>1, Zenon
  <1>6. q.at > 4 => HasLock(s, NodeOf(r.node), "key share")'
    <2>1. q.at > 4 => r.at > 4 \/ (r.at = 4 /\ q.at = 5)
      BY <1>2, NextStatement
    <2>2. QED BY <1>0, <1>3, <2>1, Zenon
  <1>7. ~Open(s)' /\ Exists(r.task)'
    BY <1>0, <1>1, <1>3 DEF Exists
  <1>8. EndReady(s)'
    BY <1>1, <1>3, <1>4, <1>5, <1>6, <1>7, Zenon DEF EndReady
  <1>9. q.handler \in Handlers /\ q.handler \in {"cancel", "report"}
    BY <1>1 DEF Handlers
  <1>10. QED BY <1>1, <1>8, <1>9, ReadyFor

LEMMA ClaimAdvances ==
  ASSUME NEW s \in Operators, NEW r \in Session, NEW q \in Session, Advances(s, r, q),
         r.handler = "claim", ClaimReady(s),
         r.at = 1 /\ q.at = 2 =>
           HasLock(s, NodeOf(r.node), "update")' /\ node[r.node].scheduling,
         r.at = 2 /\ q.at = 3 =>
           /\ q.task \in r.seen /\ task[q.task].status = "pending"
           /\ HasLock(s, TaskOf(q.task), "update")',
         r.at < 3
  PROVE  Ready(s)'
  <1>1. /\ session[s] = r /\ session'[s] = q /\ q.node = r.node /\ q.seen = r.seen
        /\ task' = task /\ node' = node /\ q.handler = "claim"
    BY DEF Advances, dbVars
  <1>2. r.at \in 1 .. 2 /\ q.at \in {r.at, r.at + 1}
    BY DEF Advances
  <1>3. /\ ~Open(s)
        /\ r.at > 1 => HasLock(s, NodeOf(r.node), "update") /\ node[r.node].scheduling
        /\ \A t \in r.seen : Exists(t) /\ task[t].node = r.node
    BY <1>1, Zenon DEF ClaimReady
  <1>4. q.at > 1 => HasLock(s, NodeOf(r.node), "update")' /\ node'[r.node].scheduling
    <2>1. q.at > 1 => r.at > 1 \/ (r.at = 1 /\ q.at = 2)
      BY <1>2
    <2>2. r.at > 1 => HasLock(s, NodeOf(r.node), "update")'
      BY <1>3, Carried
    <2>3. QED BY <1>1, <1>3, <2>1, <2>2
  <1>5. q.at > 2 => /\ q.task \in r.seen /\ task'[q.task].status = "pending"
                    /\ HasLock(s, TaskOf(q.task), "update")'
    <2>1. q.at > 2 => r.at = 2 /\ q.at = 3
      BY <1>2
    <2>2. QED BY <1>1, <2>1
  <1>6. ~Open(s)' /\ \A t \in r.seen : Exists(t)' /\ task'[t].node = r.node
    BY <1>1, <1>3, Carried DEF Exists
  <1>7. ClaimReady(s)'
    BY <1>1, <1>4, <1>5, <1>6, Zenon DEF ClaimReady
  <1>8. QED BY <1>1, <1>7, ReadyFor DEF Handlers

LEMMA NodeUpdateAdvances ==
  ASSUME NEW s \in Operators, NEW r \in Session, NEW q \in Session, Advances(s, r, q),
         r.handler \in {"scheduling", "heartbeat"}, NodeUpdateReady(s),
         HasLock(s, NodeOf(r.node), "no key update")'
  PROVE  Ready(s)'
  <1>1. /\ session[s] = r /\ session'[s] = q /\ q.node = r.node /\ q.to = r.to
        /\ q.handler = r.handler
    BY DEF Advances
  <1>2. ~Open(s) /\ r.to \in {"on", "off"}
    BY <1>1, Zenon DEF NodeUpdateReady
  <1>3. ~Open(s)'
    BY <1>2, Carried
  <1>4. NodeUpdateReady(s)'
    BY <1>1, <1>2, <1>3, Zenon DEF NodeUpdateReady
  <1>5. q.handler \in Handlers /\ q.handler \in {"scheduling", "heartbeat"}
    BY <1>1 DEF Handlers
  <1>6. QED BY <1>1, <1>4, <1>5, ReadyFor

(* The next position of a session.                                         *)
LEMMA Advanced ==
  ASSUME NEW r \in Session, r.at \in 1 .. 4, NEW q, q = [r EXCEPT !.at = @ + 1]
  PROVE  /\ q \in Session
         /\ q.handler = r.handler /\ q.node = r.node /\ q.vm = r.vm /\ q.task = r.task
         /\ q.from = r.from /\ q.to = r.to /\ q.seen = r.seen /\ q.ip = r.ip
         /\ q.at = r.at + 1
  BY DEF Session

LEMMA AdvanceStep ==
  ASSUME TransactionsInv, NEW s \in Operators, NEW r \in Session, NEW q \in Session,
         Advances(s, r, q), session' = [session EXCEPT ![s] = q],
         LocksExclude', locks' \subseteq Lock, Ready(s)'
  PROVE  TransactionsInv' /\ UNCHANGED vars
  <1>1. UNCHANGED vars /\ UNCHANGED <<task, vm, alloc, node>>
        /\ \A d \in Operators : d # s => tx'[d] = tx[d]
    BY DEF Advances, dbVars, vars
  <1>2. Linked'
    BY <1>1, StutterLinks DEF TransactionsInv
  <1>3. \A l \in locks : l \in locks'
    BY DEF Advances
  <1>4. TransactionsInv'
    BY <1>1, <1>2, <1>3, QuietStep
  <1>5. QED BY <1>1, <1>4

(* Where an executing session is, and that it is ready.                    *)
LEMMA ExecutingSession ==
  ASSUME TransactionsInv, NEW s \in Operators, Executing(s), NEW r, r = session[s]
  PROVE  /\ r \in Session /\ r.handler \in Handlers /\ r.at \in 1 .. 4 /\ ~Finished(s)
         /\ session \in [Operators -> Session \union {Closed}]
         /\ r.handler = "create" => CreateReady(s)
         /\ r.handler = "admit" => AdmitReady(s)
         /\ r.handler \in {"cancel", "report"} => EndReady(s)
         /\ r.handler = "claim" => ClaimReady(s)
         /\ r.handler \in {"scheduling", "heartbeat"} => NodeUpdateReady(s)
  <1>1. session \in [Operators -> Session \union {Closed}] /\ ~Finished(s) /\ Busy(s)
    BY DEF TransactionsInv, Executing
  <1>2. r \in Session /\ r.handler \in Handlers
    BY <1>1, BusyType
  <1>3. r.at \in 1 .. 4
    BY <1>1, <1>2, StatementAt DEF Handlers
  <1>4. /\ r.handler = "create" => CreateReady(s)
        /\ r.handler = "admit" => AdmitReady(s)
        /\ r.handler \in {"cancel", "report"} => EndReady(s)
        /\ r.handler = "claim" => ClaimReady(s)
        /\ r.handler \in {"scheduling", "heartbeat"} => NodeUpdateReady(s)
    BY Zenon DEF TransactionsInv, Ready
  <1>5. QED BY <1>1, <1>2, <1>3, <1>4

LEMMA LockAndTestStep ==
  ASSUME TransactionsInv, NEW s \in Operators, LockAndTest(s)
  PROVE  TransactionsInv' /\ UNCHANGED vars
  <1>1. PICK r : r = session[s]
    OBVIOUS
  <1>2. PICK mode, rows : mode = LockMode(s) /\ rows = Wanted(s)
    OBVIOUS
  <1>3. PICK q : q = [r EXCEPT !.at = @ + 1]
    OBVIOUS
  <1>4. /\ Executing(s) /\ ~Blocked(s) /\ Passes(s) /\ UNCHANGED dbVars
        /\ Statement(s) # "pool"
        /\ Statement(s) = "address" => ~TakesAddress(s)
        /\ Statement(s) = "task" => r.handler # "claim"
        /\ Granted(s, rows)
        /\ session' = [session EXCEPT ![s] = q]
    BY <1>1, <1>2, <1>3 DEF LockAndTest, Proceed
  <1>5. /\ r \in Session /\ r.handler \in Handlers /\ r.at \in 1 .. 4 /\ ~Finished(s)
        /\ session \in [Operators -> Session \union {Closed}]
    BY <1>1, <1>4, ExecutingSession
  <1>6. /\ q \in Session
        /\ q.handler = r.handler /\ q.node = r.node /\ q.vm = r.vm /\ q.task = r.task
        /\ q.from = r.from /\ q.to = r.to /\ q.seen = r.seen /\ q.ip = r.ip
        /\ q.at = r.at + 1
    BY <1>3, <1>5, Advanced
  <1>7. /\ LocksExclude' /\ locks' \subseteq Lock
        /\ \A row \in rows : HasLock(s, row, mode)'
        /\ \A l \in locks : l \in locks'
    BY <1>2, <1>4, GrantedStatement
  <1>8. Advances(s, r, q)
    BY <1>1, <1>4, <1>5, <1>6, <1>7 DEF Advances
  <1>9. ASSUME r.handler = "create" PROVE Ready(s)'
    <2>1. /\ r.at = 1 <=> Statement(s) = "node"
          /\ r.at = 2 <=> Statement(s) = "pool"
          /\ r.at = 3 <=> Statement(s) = "address"
          /\ r.at = 4 <=> Statement(s) = "vm"
      BY <1>1, <1>5, <1>9, StatementAt
    <2>2. r.at = 1 => HasLock(s, NodeOf(r.node), "update")' /\ NodeAdmits(s)
      BY <1>1, <1>2, <1>4, <1>7, <1>9, <2>1, NodeStatement
    <2>3. r.at = 4 => HasLock(s, VmOf(r.vm), "insert")' /\ ~VmExists(r.vm)
      BY <1>1, <1>2, <1>4, <1>7, <1>9, <2>1, VmStatement
    <2>4. r.at = 3 => ~TakesAddress(s)
      BY <1>4, <2>1
    <2>5. CreateReady(s)
      BY <1>1, <1>4, <1>9, ExecutingSession
    <2>6. QED BY <1>5, <1>6, <1>8, <1>9, <2>2, <2>3, <2>4, <2>5, CreateAdvances
  <1>10. ASSUME r.handler = "admit" PROVE Ready(s)'
    <2>1. /\ r.at = 1 <=> Statement(s) = "vm"
          /\ r.at = 2 <=> Statement(s) = "node"
          /\ r.at = 3 <=> Statement(s) = "pool"
          /\ r.at = 4 <=> Statement(s) = "address"
      BY <1>1, <1>5, <1>10, StatementAt
    <2>2. r.at = 2 => HasLock(s, NodeOf(r.node), "update")' /\ NodeAdmits(s)
      BY <1>1, <1>2, <1>4, <1>7, <1>10, <2>1, NodeStatement
    <2>3. r.at = 1 => HasLock(s, VmOf(r.vm), "update")' /\ AdmissionAllowed(s)
      BY <1>1, <1>2, <1>4, <1>7, <1>10, <2>1, VmStatement
    <2>4. r.at = 4 => ~TakesAddress(s)
      BY <1>4, <2>1
    <2>5. AdmitReady(s)
      BY <1>1, <1>4, <1>10, ExecutingSession
    <2>6. QED BY <1>5, <1>6, <1>8, <1>10, <2>2, <2>3, <2>4, <2>5, AdmitAdvances
  <1>11. ASSUME r.handler \in {"cancel", "report"} PROVE Ready(s)'
    <2>1. /\ r.at = 1 <=> Statement(s) = "task"
          /\ r.at = 2 <=> Statement(s) = "vm"
          /\ r.at = 3 <=> Statement(s) = "release"
          /\ r.at = 4 <=> Statement(s) = "audit"
      BY <1>1, <1>5, <1>11, StatementAt
    <2>2. r.at = 1 => HasLock(s, TaskOf(r.task), "no key update")' /\ StatusUnchanged(s)
      BY <1>1, <1>2, <1>4, <1>7, <1>11, <2>1, TaskStatement
    <2>3. r.at = 2 /\ ChangesVm(s) => HasLock(s, VmOf(r.vm), "no key update")'
      BY <1>1, <1>2, <1>4, <1>7, <1>11, <2>1, VmStatement
    <2>4. r.at = 4 => HasLock(s, NodeOf(r.node), "key share")'
      BY <1>1, <1>2, <1>4, <1>7, <1>11, <2>1, AuditStatement
    <2>5. EndReady(s)
      BY <1>1, <1>4, <1>11, ExecutingSession
    <2>6. QED BY <1>5, <1>6, <1>8, <1>11, <2>2, <2>3, <2>4, <2>5, EndAdvances
  <1>12. ASSUME r.handler = "claim" PROVE Ready(s)'
    <2>1. /\ r.at \in 1 .. 2
          /\ r.at = 1 <=> Statement(s) = "node"
          /\ r.at = 2 <=> Statement(s) = "task"
      BY <1>1, <1>5, <1>12, StatementAt
    <2>2. r.at = 1
      BY <1>4, <1>12, <2>1
    <2>3. HasLock(s, NodeOf(r.node), "update")' /\ node[r.node].scheduling
      BY <1>1, <1>2, <1>4, <1>7, <1>12, <2>1, <2>2, NodeStatement
    <2>4. ClaimReady(s)
      BY <1>1, <1>4, <1>12, ExecutingSession
    <2>5. QED BY <1>5, <1>6, <1>8, <1>12, <2>2, <2>3, <2>4, ClaimAdvances
  <1>13. ASSUME r.handler \in {"scheduling", "heartbeat"} PROVE Ready(s)'
    <2>1. Statement(s) = "node"
      BY <1>1, <1>5, <1>13, StatementAt
    <2>2. HasLock(s, NodeOf(r.node), "no key update")'
      BY <1>1, <1>2, <1>7, <1>13, <2>1, NodeStatement
    <2>3. NodeUpdateReady(s)
      BY <1>1, <1>4, <1>13, ExecutingSession
    <2>4. QED BY <1>5, <1>6, <1>8, <1>13, <2>2, <2>3, NodeUpdateAdvances
  <1>14. Ready(s)'
    BY <1>5, <1>9, <1>10, <1>11, <1>12, <1>13 DEF Handlers
  <1>15. QED BY <1>4, <1>5, <1>6, <1>7, <1>8, <1>14, AdvanceStep

LEMMA ReadPoolStep ==
  ASSUME TransactionsInv, NEW s \in Operators, ReadPool(s)
  PROVE  TransactionsInv' /\ UNCHANGED vars
  <1>1. PICK r : r = session[s]
    OBVIOUS
  <1>2. PICK known \in SUBSET Addrs :
          known = IF TakesAddress(s) THEN {a \in Addrs : alloc[a] # Free} ELSE {}
    OBVIOUS
  <1>3. PICK r0 : r0 = [r EXCEPT !.known = known]
    OBVIOUS
  <1>4. PICK q : q = [r0 EXCEPT !.at = @ + 1]
    OBVIOUS
  <1>5. /\ Executing(s) /\ Statement(s) = "pool" /\ UNCHANGED dbVars /\ locks' = locks
        /\ session' = [session EXCEPT ![s] = q]
    BY <1>1, <1>2, <1>3, <1>4 DEF ReadPool, Proceed
  <1>6. /\ r \in Session /\ r.handler \in Handlers /\ r.at \in 1 .. 4 /\ ~Finished(s)
        /\ session \in [Operators -> Session \union {Closed}]
    BY <1>1, <1>5, ExecutingSession
  <1>7. /\ r0 \in Session
        /\ r0.handler = r.handler /\ r0.node = r.node /\ r0.vm = r.vm /\ r0.task = r.task
        /\ r0.from = r.from /\ r0.to = r.to /\ r0.seen = r.seen /\ r0.ip = r.ip /\ r0.at = r.at
    BY <1>3, <1>6 DEF Session
  <1>8. /\ q \in Session
        /\ q.handler = r.handler /\ q.node = r.node /\ q.vm = r.vm /\ q.task = r.task
        /\ q.from = r.from /\ q.to = r.to /\ q.seen = r.seen /\ q.ip = r.ip
        /\ q.at = r.at + 1
    BY <1>4, <1>6, <1>7, Advanced
  <1>9. Advances(s, r, q)
    BY <1>1, <1>5, <1>6, <1>8 DEF Advances
  <1>10. \/ r.handler = "create" /\ r.at = 2
         \/ r.handler = "admit" /\ r.at = 3
    BY <1>1, <1>5, <1>6, StatementAt DEF Handlers
  <1>11. ASSUME r.handler = "create" PROVE Ready(s)'
    <2>1. CreateReady(s)
      BY <1>1, <1>5, <1>11, ExecutingSession
    <2>2. r.at = 2 /\ q.at = 3
      BY <1>8, <1>10, <1>11
    <2>3. QED BY <1>6, <1>8, <1>9, <1>11, <2>1, <2>2, CreateAdvances
  <1>12. ASSUME r.handler = "admit" PROVE Ready(s)'
    <2>1. AdmitReady(s)
      BY <1>1, <1>5, <1>12, ExecutingSession
    <2>2. r.at = 3 /\ q.at = 4
      BY <1>8, <1>10, <1>12
    <2>3. QED BY <1>6, <1>8, <1>9, <1>12, <2>1, <2>2, AdmitAdvances
  <1>13. Ready(s)'
    BY <1>10, <1>11, <1>12
  <1>14. LocksExclude' /\ locks' \subseteq Lock
    BY <1>5 DEF TransactionsInv, LocksExclude
  <1>15. QED BY <1>5, <1>6, <1>8, <1>9, <1>13, <1>14, AdvanceStep

LEMMA TryAddressStep ==
  ASSUME TransactionsInv, NEW s \in Operators, NEW a \in Addrs, TryAddress(s, a)
  PROVE  TransactionsInv' /\ UNCHANGED vars
  <1>1. PICK r : r = session[s]
    OBVIOUS
  <1>2. /\ Executing(s) /\ Statement(s) = "address" /\ TakesAddress(s)
        /\ a \in NextCandidate(s) /\ ~Blocked(s) /\ UNCHANGED dbVars
    BY DEF TryAddress
  <1>3. /\ r \in Session /\ r.handler \in Handlers /\ r.at \in 1 .. 4 /\ ~Finished(s)
        /\ session \in [Operators -> Session \union {Closed}]
    BY <1>1, <1>2, ExecutingSession
  <1>0. \/ r.handler = "create" /\ r.at = 3
        \/ r.handler = "admit" /\ r.at = 4
    <2>1. Statement(s) = "address"
      BY <1>2
    <2>2. QED BY <1>1, <1>3, <2>1, StatementAt DEF Handlers
  <1>4. \/ r.handler = "create" /\ r.at = 3 /\ CreateReady(s)
        \/ r.handler = "admit" /\ r.at = 4 /\ AdmitReady(s)
    <2>1. (r.handler = "create" => CreateReady(s)) /\ (r.handler = "admit" => AdmitReady(s))
      BY <1>1, <1>2, ExecutingSession
    <2>2. QED BY <1>0, <2>1
  <1>5. CASE NextAddress(r.vm, a)
    <2>1. PICK mode, rows : mode = LockMode(s) /\ rows = Wanted(s)
      OBVIOUS
    <2>2. PICK r0 : r0 = [r EXCEPT !.ip = a]
      OBVIOUS
    <2>3. PICK q : q = [r0 EXCEPT !.at = @ + 1]
      OBVIOUS
    <2>4. Granted(s, rows) /\ session' = [session EXCEPT ![s] = q]
      BY <1>1, <1>5, <2>1, <2>2, <2>3 DEF TryAddress, Proceed
    <2>5. /\ r0 \in Session
          /\ r0.handler = r.handler /\ r0.node = r.node /\ r0.vm = r.vm /\ r0.task = r.task
          /\ r0.from = r.from /\ r0.to = r.to /\ r0.seen = r.seen /\ r0.ip = a /\ r0.at = r.at
      BY <1>3, <2>2 DEF Session
    <2>6. /\ q \in Session
          /\ q.handler = r.handler /\ q.node = r.node /\ q.vm = r.vm /\ q.task = r.task
          /\ q.from = r.from /\ q.to = r.to /\ q.seen = r.seen /\ q.ip = a
          /\ q.at = r.at + 1
      BY <1>3, <2>3, <2>5, Advanced
    <2>7. /\ LocksExclude' /\ locks' \subseteq Lock
          /\ \A row \in rows : HasLock(s, row, mode)'
          /\ \A l \in locks : l \in locks'
      BY <1>2, <2>1, <2>4, GrantedStatement
    <2>8. Advances(s, r, q)
      BY <1>1, <1>2, <1>3, <2>4, <2>6, <2>7 DEF Advances
    <2>9. AddressOf(a) \in rows /\ HolderOf(r.vm) \in rows /\ mode = "update"
      <3>1. rows = UNION {{AddressOf(b), HolderOf(r.vm)} : b \in NextCandidate(s)}
        BY <1>1, <1>2, <2>1 DEF Wanted
      <3>2. mode = "update"
        BY <1>0, <1>1, <1>2, <2>1 DEF LockMode, InsertsVm
      <3>3. QED BY <1>2, <3>1, <3>2
    <2>10. /\ q.ip \in Addrs /\ NextAddress(r.vm, q.ip)
           /\ HasLock(s, AddressOf(q.ip), "update")'
           /\ HasLock(s, HolderOf(r.vm), "update")'
      BY <1>5, <2>6, <2>7, <2>9
    <2>11. ASSUME r.handler = "create" PROVE Ready(s)'
      <3>1. CreateReady(s) /\ r.at = 3 /\ q.at = 4
        BY <1>4, <2>6, <2>11
      <3>2. QED BY <1>2, <1>3, <2>6, <2>8, <2>10, <2>11, <3>1, CreateAdvances
    <2>12. ASSUME r.handler = "admit" PROVE Ready(s)'
      <3>1. AdmitReady(s) /\ r.at = 4 /\ q.at = 5
        BY <1>4, <2>6, <2>12
      <3>2. QED BY <1>2, <1>3, <2>6, <2>8, <2>10, <2>12, <3>1, AdmitAdvances
    <2>13. Ready(s)'
      BY <1>4, <2>11, <2>12
    <2>14. QED BY <1>3, <2>4, <2>6, <2>7, <2>8, <2>13, AdvanceStep
  <1>6. CASE ~NextAddress(r.vm, a)
    <2>1. PICK q : q = [r EXCEPT !.known = @ \union {a}]
      OBVIOUS
    <2>2. /\ q \in Session
          /\ q.handler = r.handler /\ q.node = r.node /\ q.vm = r.vm /\ q.task = r.task
          /\ q.from = r.from /\ q.to = r.to /\ q.seen = r.seen /\ q.ip = r.ip /\ q.at = r.at
      BY <1>3, <2>1 DEF Session
    <2>3. session' = [session EXCEPT ![s] = q] /\ locks' = locks
      BY <1>1, <1>6, <2>1 DEF TryAddress
    <2>4. Advances(s, r, q)
      BY <1>1, <1>2, <1>3, <2>2, <2>3 DEF Advances
    <2>5. LocksExclude' /\ locks' \subseteq Lock
      BY <2>3 DEF TransactionsInv, LocksExclude
    <2>6. ASSUME r.handler = "create" PROVE Ready(s)'
      <3>1. CreateReady(s) /\ r.at = 3 /\ q.at = 3
        BY <1>4, <2>2, <2>6
      <3>2. QED BY <1>3, <2>2, <2>4, <2>6, <3>1, CreateAdvances
    <2>7. ASSUME r.handler = "admit" PROVE Ready(s)'
      <3>1. AdmitReady(s) /\ r.at = 4 /\ q.at = 4
        BY <1>4, <2>2, <2>7
      <3>2. QED BY <1>3, <2>2, <2>4, <2>7, <3>1, AdmitAdvances
    <2>8. Ready(s)'
      BY <1>4, <2>6, <2>7
    <2>9. QED BY <1>3, <2>2, <2>3, <2>4, <2>5, <2>8, AdvanceStep
  <1>7. QED BY <1>5, <1>6

LEMMA PickTaskStep ==
  ASSUME TransactionsInv, NEW s \in Operators, NEW t \in TaskIds, PickTask(s, t)
  PROVE  TransactionsInv' /\ UNCHANGED vars
  <1>1. PICK r : r = session[s]
    OBVIOUS
  <1>2. PICK r0 : r0 = [r EXCEPT !.task = t]
    OBVIOUS
  <1>3. PICK q : q = [r0 EXCEPT !.at = @ + 1]
    OBVIOUS
  <1>4. /\ Executing(s) /\ Statement(s) = "task" /\ r.handler = "claim" /\ t \in r.seen
        /\ HeldAgainst(s, TaskOf(t), "update") = {} /\ task[t].status = "pending"
        /\ UNCHANGED dbVars
        /\ session' = [session EXCEPT ![s] = q]
        /\ Granted(s, {TaskOf(t)})
    BY <1>1, <1>2, <1>3 DEF PickTask, Proceed
  <1>5. /\ r \in Session /\ r.at \in 1 .. 4 /\ ~Finished(s)
        /\ session \in [Operators -> Session \union {Closed}] /\ ClaimReady(s)
    BY <1>1, <1>4, ExecutingSession
  <1>6. r.at = 2
    BY <1>1, <1>4, <1>5, StatementAt
  <1>7. /\ r0 \in Session
        /\ r0.handler = r.handler /\ r0.node = r.node /\ r0.vm = r.vm /\ r0.task = t
        /\ r0.from = r.from /\ r0.to = r.to /\ r0.seen = r.seen /\ r0.at = r.at
    BY <1>2, <1>5 DEF Session
  <1>8. /\ q \in Session
        /\ q.handler = r.handler /\ q.node = r.node /\ q.vm = r.vm /\ q.task = t
        /\ q.from = r.from /\ q.to = r.to /\ q.seen = r.seen
        /\ q.at = r.at + 1
    BY <1>3, <1>5, <1>7, Advanced
  <1>0. PICK rows : rows = {TaskOf(t)}
    OBVIOUS
  <1>9. locks' = locks \union {[by |-> s, row |-> row, mode |-> "update"] : row \in rows}
    <2>1. LockMode(s) = "update"
      BY <1>1, <1>4 DEF LockMode, InsertsVm
    <2>2. QED BY <1>0, <1>4, <2>1 DEF Granted
  <1>10. /\ LocksExclude' /\ locks' \subseteq Lock
         /\ \A row \in rows : HasLock(s, row, "update")'
         /\ \A l \in locks : l \in locks'
    <2>1. LocksExclude /\ locks \subseteq Lock /\ "update" \in Modes /\ rows \subseteq Rows
      BY <1>0, RowTypes DEF TransactionsInv
    <2>2. \A row \in rows : HeldAgainst(s, row, "update") = {}
      BY <1>0, <1>4
    <2>3. QED BY <1>9, <2>1, <2>2, GrantExcludes
  <1>11. Advances(s, r, q)
    BY <1>1, <1>4, <1>5, <1>8, <1>10 DEF Advances
  <1>12. HasLock(s, TaskOf(q.task), "update")' /\ q.task \in r.seen
         /\ task[q.task].status = "pending" /\ q.at = 3
    BY <1>0, <1>4, <1>6, <1>8, <1>10
  <1>13. Ready(s)'
    BY <1>4, <1>5, <1>6, <1>8, <1>11, <1>12, ClaimAdvances
  <1>14. QED BY <1>4, <1>5, <1>8, <1>10, <1>11, <1>13, AdvanceStep

-----------------------------------------------------------------------------
(* What the end of a session writes, as far as others may wait for it: an  *)
(* address is released by who has locked the VM that holds it, and one is  *)
(* reserved by who has locked it and the node of its VM.                   *)

Reserves(s, a) ==
  /\ HasLock(s, AddressOf(a), "update")
  /\ HasLock(s, NodeOf(session[s].node), "update")
  /\ alloc'[a].vm = session[s].vm /\ vm'[session[s].vm].node = session[s].node

Frees(s, a) ==
  /\ alloc'[a] = Free /\ alloc[a].vm = session[s].vm
  /\ HasLock(s, VmOf(session[s].vm), "no key update")

Inserts(s, v) ==
  /\ session[s].handler = "create" /\ v = session[s].vm
  /\ vm'[v].node = session[s].node
  /\ HasLock(s, NodeOf(session[s].node), "update")

Effect(s) ==
  /\ \A d \in Operators : d # s => tx'[d] = tx[d]
  /\ \A t \in TaskIds : Exists(t) => task'[t].kind = task[t].kind
  /\ \A v \in Vms : vm'[v].node = vm[v].node \/ Inserts(s, v)
  /\ \A a \in Addrs : alloc'[a] = alloc[a] \/ Frees(s, a) \/ Reserves(s, a)

LEMMA QuietEffect ==
  ASSUME NEW s \in Operators, UNCHANGED <<task, vm, alloc>>,
         \A d \in Operators : d # s => tx'[d] = tx[d]
  PROVE  Effect(s)
  BY DEF Effect

LEMMA InsertionEffect ==
  ASSUME TransactionsInv, NEW s \in Operators, NEW r \in Session, r = session[s],
         NEW t \in TaskIds, ~Exists(t), NEW kind, r.vm \in Vms,
         Enqueue(t, kind, r.vm, r.node, r.ip),
         r.handler = "create" \/ (VmExists(r.vm) /\ r.node = vm[r.vm].node),
         HasLock(s, NodeOf(r.node), "update"),
         r.ip # NoAddr => HasLock(s, AddressOf(r.ip), "update"),
         \A d \in Operators : d # s => tx'[d] = tx[d]
  PROVE  Effect(s)
  <1>1. TypeOK
    BY DEF TransactionsInv, Linked
  <1>2. vm'[r.vm].node = r.node /\ \A v \in Vms : v # r.vm => vm'[v] = vm[v]
    BY <1>1 DEF Enqueue, TypeOK
  <1>3. \A u \in TaskIds : u # t => task'[u] = task[u]
    BY <1>1 DEF Enqueue, TypeOK
  <1>4. \A a \in Addrs : IF a = r.ip THEN alloc'[a].vm = r.vm ELSE alloc'[a] = alloc[a]
    BY <1>1, NullAssumption DEF Enqueue, TypeOK
  <1>5. ASSUME NEW v \in Vms
        PROVE  vm'[v].node = vm[v].node \/ Inserts(s, v)
    BY <1>2 DEF Inserts
  <1>6. ASSUME NEW a \in Addrs PROVE alloc'[a] = alloc[a] \/ Reserves(s, a)
    BY <1>2, <1>4, NullAssumption DEF Reserves
  <1>7. QED BY <1>3, <1>5, <1>6 DEF Effect

LEMMA ReleaseChangesVm ==
  ASSUME NEW kind, NEW status, ReleasesAddress(kind, status)
  PROVE  NextVmStatus(kind, status) # NoChange
  <1>1. CASE kind = "create" /\ status \in Unsuccessful
    BY <1>1 DEF NextVmStatus, NoChange, Unsuccessful, Active
  <1>2. CASE kind = "delete" /\ status = "succeeded"
    BY <1>2 DEF NextVmStatus, NoChange, Unsuccessful, Active
  <1>3. QED BY <1>1, <1>2 DEF ReleasesAddress

LEMMA EndEffect ==
  ASSUME TransactionsInv, NEW s \in Operators, NEW r, r = session[s],
         r.task \in TaskIds, task[r.task] \in Task, r.vm = task[r.task].vm,
         ChangesVm(s) => HasLock(s, VmOf(r.vm), "no key update"),
         task' = [task EXCEPT ![r.task].status = r.to], ApplyTaskStatus(r.task, r.to),
         \A d \in Operators : d # s => tx'[d] = tx[d]
  PROVE  Effect(s)
  <1>1. TypeOK
    BY DEF TransactionsInv, Linked
  <1>2. \A u \in TaskIds : Exists(u) => task'[u].kind = task[u].kind
    BY <1>1 DEF TypeOK, Task
  <1>3. r.vm \in Vms /\ VmExists(r.vm) /\ vm[r.vm] \in Vm
    <2>1. Exists(r.task)
      BY <1>1, ExistingTask
    <2>2. QED BY <1>1, <2>1, ExistingVm DEF TransactionsInv, Linked, RowsLinked, Task
  <1>4. ASSUME NEW v \in Vms
        PROVE  vm'[v].node = vm[v].node
    <2>1. CASE v = r.vm
      BY <1>1, <1>3, <2>1 DEF ApplyTaskStatus, TypeOK, Vm
    <2>2. CASE v # r.vm
      BY <1>1, <2>2 DEF ApplyTaskStatus, TypeOK
    <2>3. QED BY <2>1, <2>2
  <1>5. ASSUME NEW a \in Addrs PROVE alloc'[a] = alloc[a] \/ Frees(s, a)
    <2>1. CASE ~ReleasesAddress(task[r.task].kind, r.to)
      BY <2>1 DEF ApplyTaskStatus
    <2>2. CASE ReleasesAddress(task[r.task].kind, r.to)
      <3>1. HasLock(s, VmOf(r.vm), "no key update")
        BY <2>2, ReleaseChangesVm DEF ChangesVm
      <3>2. alloc'[a] = IF alloc[a].vm = r.vm THEN Free ELSE alloc[a]
        BY <2>2 DEF ApplyTaskStatus
      <3>3. QED BY <3>1, <3>2 DEF Frees
    <2>3. QED BY <2>1, <2>2
  <1>6. QED BY <1>2, <1>4, <1>5 DEF Effect

-----------------------------------------------------------------------------
(* Ending a transaction.                                                   *)

LEMMA MasterLinks ==
  ASSUME Linked, UNCHANGED vars \/ Next
  PROVE  Linked'
  BY LinkedStep

LEMMA RollbackStep ==
  ASSUME TransactionsInv, NEW s \in Operators, Rollback(s)
  PROVE  TransactionsInv' /\ (UNCHANGED vars \/ Next) /\ Effect(s)
  <1>1. /\ tx' = [tx EXCEPT ![s] = NoTx] /\ Close(s) /\ UNCHANGED <<task, vm, alloc, node>>
    BY DEF Rollback
  <1>2. Linked /\ TypeOK /\ tx \in [Operators -> OpenTx \union {NoTx}]
    BY DEF TransactionsInv, Linked, TypeOK
  <1>3. UNCHANGED vars \/ Next
    <2>1. CASE Open(s)
      <3>1. Reject(s)
        BY <1>1, <2>1 DEF Reject
      <3>2. QED BY <3>1, Zenon DEF Next, OperatorStep
    <2>2. CASE ~Open(s)
      <3>1. tx[s] = NoTx
        BY <1>2, <2>2, OpenTxType
      <3>2. tx' = tx
        BY <1>1, <1>2, <3>1
      <3>3. QED BY <1>1, <3>2 DEF vars
    <2>3. QED BY <2>1, <2>2
  <1>4. Linked'
    BY <1>2, <1>3, MasterLinks
  <1>5. ~Open(s)' /\ \A d \in Operators : d # s => tx'[d] = tx[d]
    BY <1>1, <1>2 DEF Open, NoTx
  <1>6. TasksOnNodeOfVm'
    BY <1>1 DEF TransactionsInv, TasksOnNodeOfVm, Exists
  <1>7. TransactionsInv'
    BY <1>1, <1>4, <1>5, <1>6, TablesUntouched, ClosingStep
  <1>8. Effect(s)
    BY <1>1, <1>5, QuietEffect
  <1>9. QED BY <1>3, <1>7, <1>8

(* What a finished session holds.                                          *)
LEMMA FinishedSession ==
  ASSUME TransactionsInv, NEW s \in Operators, Busy(s), Finished(s), NEW r, r = session[s]
  PROVE  /\ r \in Session
         /\ r.handler = "create" => CreateReady(s) /\ r.at > 4
         /\ r.handler = "admit" => AdmitReady(s) /\ r.at > 4
         /\ r.handler \in {"cancel", "report"} => EndReady(s) /\ r.at > 4
         /\ r.handler = "claim" => ClaimReady(s) /\ r.at > 2
         /\ r.handler \in {"scheduling", "heartbeat"} => NodeUpdateReady(s) /\ r.at > 1
  <1>1. r \in Session
    BY BusyType DEF TransactionsInv
  <1>2. /\ r.handler \in {"create", "admit", "cancel", "report"} => r.at > 4
        /\ r.handler = "claim" => r.at > 2
        /\ r.handler \in {"scheduling", "heartbeat"} => r.at > 1
    BY <1>1, StatementsEnd
  <1>3. /\ r.handler = "create" => CreateReady(s)
        /\ r.handler = "admit" => AdmitReady(s)
        /\ r.handler \in {"cancel", "report"} => EndReady(s)
        /\ r.handler = "claim" => ClaimReady(s)
        /\ r.handler \in {"scheduling", "heartbeat"} => NodeUpdateReady(s)
    BY Zenon DEF TransactionsInv, Ready
  <1>4. QED BY <1>1, <1>2, <1>3

LEMMA EnqueueNodes ==
  ASSUME TransactionsInv, NEW t \in TaskIds, ~Exists(t), NEW kind, NEW v \in Vms, NEW n,
         NEW ip, VmExists(v) => vm[v].node = n, Enqueue(t, kind, v, n, ip)
  PROVE  TasksOnNodeOfVm'
  <1>1. TypeOK /\ RowsLinked /\ TasksOnNodeOfVm
    BY DEF TransactionsInv, Linked
  <1>2. vm'[v].node = n /\ \A w \in Vms : w # v => vm'[w] = vm[w]
    BY <1>1 DEF Enqueue, TypeOK
  <1>3. /\ task'[t].node = n /\ task'[t].vm = v
        /\ \A u \in TaskIds : u # t => task'[u] = task[u]
    BY <1>1 DEF Enqueue, TypeOK
  <1>4. ASSUME NEW u \in TaskIds, Exists(u)'
        PROVE  task'[u].node = vm'[task'[u].vm].node
    <2>1. CASE u = t
      BY <1>2, <1>3, <2>1
    <2>2. CASE u # t
      <3>1. Exists(u) /\ task'[u] = task[u]
        BY <1>3, <1>4, <2>2 DEF Exists
      <3>2. task[u].vm \in Vms /\ VmExists(task[u].vm) /\ task[u].node = vm[task[u].vm].node
        BY <1>1, <3>1, ExistingTask DEF RowsLinked, TasksOnNodeOfVm, Task
      <3>3. QED BY <1>2, <3>1, <3>2
    <2>3. QED BY <2>1, <2>2
  <1>5. QED BY <1>4 DEF TasksOnNodeOfVm

LEMMA EndNodes ==
  ASSUME TransactionsInv, NEW t \in TaskIds, Exists(t), NEW status \in TaskStatuses,
         task' = [task EXCEPT ![t].status = status], ApplyTaskStatus(t, status)
  PROVE  TasksOnNodeOfVm'
  <1>1. TypeOK /\ RowsLinked /\ TasksOnNodeOfVm
    BY DEF TransactionsInv, Linked
  <1>2. ASSUME NEW w \in Vms, VmExists(w) PROVE vm'[w].node = vm[w].node
    <2>1. vm[w] \in Vm
      BY <1>1, <1>2, ExistingVm
    <2>2. QED BY <1>1, <2>1 DEF ApplyTaskStatus, TypeOK, Vm
  <1>3. ASSUME NEW u \in TaskIds, Exists(u)'
        PROVE  Exists(u) /\ task'[u].node = task[u].node /\ task'[u].vm = task[u].vm
    <2>1. task[t] \in Task
      BY <1>1, ExistingTask
    <2>2. QED BY <1>1, <1>3, <2>1 DEF TypeOK, Task, Exists
  <1>4. ASSUME NEW u \in TaskIds, Exists(u)'
        PROVE  task'[u].node = vm'[task'[u].vm].node
    <2>1. /\ task[u].vm \in Vms /\ VmExists(task[u].vm)
          /\ task[u].node = vm[task[u].vm].node
      BY <1>1, <1>3, <1>4, ExistingTask DEF RowsLinked, TasksOnNodeOfVm, Task
    <2>2. QED BY <1>2, <1>3, <1>4, <2>1
  <1>5. QED BY <1>4 DEF TasksOnNodeOfVm

(* What is known when a task is queued makes the insertion one of Master.  *)
LEMMA EnqueueInserts ==
  ASSUME TransactionsInv, NEW s \in Operators, NEW r \in Session, r = session[s],
         NodeReady(s), AddressReady(s, r.at > 3) \/ AddressReady(s, r.at > 4), r.at > 4,
         r.handler \in {"create", "admit"}, r.vm \in Vms, NEW t,
         NEW kind, kind = QueuedKind(s), Enqueue(t, kind, r.vm, r.node, r.ip)
  PROVE  /\ InsertTask(t, kind, r.vm, r.node)
         /\ HasLock(s, NodeOf(r.node), "update")
         /\ r.ip # NoAddr =>
              HasLock(s, AddressOf(r.ip), "update") /\ HasLock(s, HolderOf(r.vm), "update")
  <1>1. NodeAccepts(r.node, kind) /\ (kind = "create" => HasCapacity(r.node))
        /\ HasLock(s, NodeOf(r.node), "update")
    BY Zenon DEF NodeReady, NodeAdmits
  <1>2. TakesAddress(s) <=> kind = "create" /\ r.vm \in Pooled
    BY DEF TakesAddress
  <1>3. /\ TakesAddress(s) =>
             /\ r.ip \in Addrs /\ NextAddress(r.vm, r.ip)
             /\ HasLock(s, AddressOf(r.ip), "update")
             /\ HasLock(s, HolderOf(r.vm), "update")
        /\ ~TakesAddress(s) => r.ip = NoAddr
    <2> DEFINE three == r.at > 3
               four == r.at > 4
    <2>1. three /\ four
      BY DEF Session
    <2>2. AddressReady(s, three) \/ AddressReady(s, four)
      OBVIOUS
    <2> HIDE DEF three, four
    <2>3. QED BY <2>1, <2>2, Zenon DEF AddressReady
  <1>4. r.ip \in Addrs \union {NoAddr}
    BY <1>3
  <1>5. InsertTask(t, kind, r.vm, r.node)
    <2>1. IF kind = "create" /\ r.vm \in Pooled
          THEN r.ip # NoAddr /\ NextAddress(r.vm, r.ip)
          ELSE r.ip = NoAddr
      BY <1>2, <1>3, NullAssumption
    <2>2. QED BY <1>1, <1>4, <2>1, Zenon DEF InsertTask
  <1>6. QED BY <1>1, <1>3, <1>5

LEMMA CommitCreateStep ==
  ASSUME TransactionsInv, NEW s \in Operators, Busy(s), Finished(s), Close(s), CommitCreate(s)
  PROVE  TransactionsInv' /\ Next /\ Effect(s)
  <1>1. PICK r : r = session[s]
    OBVIOUS
  <1>2. r \in Session /\ r.handler = "create" /\ CreateReady(s) /\ r.at > 4
    BY <1>1, FinishedSession DEF CommitCreate
  <1>3. PICK t \in TaskIds :
          /\ IsNextId(t) /\ Enqueue(t, "create", r.vm, r.node, r.ip)
          /\ node' = node /\ tx' = tx
    BY <1>1 DEF CommitCreate
  <1>4. /\ ~Open(s) /\ r.vm \in Vms /\ NodeReady(s) /\ AddressReady(s, r.at > 3)
        /\ HasLock(s, VmOf(r.vm), "insert") /\ ~VmExists(r.vm)
    <2>1. /\ ~Open(s) /\ r.vm \in Vms
          /\ r.at > 1 => NodeReady(s)
          /\ AddressReady(s, r.at > 3)
          /\ r.at > 4 => HasLock(s, VmOf(r.vm), "insert") /\ ~VmExists(r.vm)
      BY <1>1, <1>2, Zenon DEF CreateReady
    <2>2. r.at > 1
      BY <1>2 DEF Session
    <2>3. QED BY <1>2, <2>1, <2>2
  <1>5. QueuedKind(s) = "create"
    BY <1>1, <1>2 DEF QueuedKind
  <1>6. r.node \in Nodes /\ r.ip \in Addrs \union {NoAddr}
    BY <1>2 DEF Session
  <1>7. ~Exists(t)
    <2>1. Unused(t)
      BY <1>3 DEF IsNextId, TaskIds
    <2>2. QED BY <2>1 DEF Unused
  <1>8. /\ InsertTask(t, "create", r.vm, r.node)
        /\ HasLock(s, NodeOf(r.node), "update")
        /\ r.ip # NoAddr =>
             HasLock(s, AddressOf(r.ip), "update") /\ HasLock(s, HolderOf(r.vm), "update")
    BY <1>1, <1>2, <1>3, <1>4, <1>5, EnqueueInserts
  <1>9. CreateVm(s, t, r.vm, r.node)
    BY <1>3, <1>4, <1>8, Zenon DEF CreateVm
  <1>10. Next
    BY <1>4, <1>6, <1>9, Zenon DEF Next, OperatorStep
  <1>11. Linked'
    BY <1>10, MasterLinks DEF TransactionsInv
  <1>12. QueuedStatus("create", vm[r.vm].status) # "absent"
    BY DEF QueuedStatus
  <1>13. "create" \in Kinds
    BY DEF Kinds
  <1>14. ASSUME NEW d \in Operators, d # s
         PROVE  KeepsNode(d) /\ KeepsVm(d) /\ KeepsAddress(d) /\ KeepsTask(d)
    BY <1>3, <1>4, <1>6, <1>7, <1>8, <1>12, <1>13, <1>14, EnqueueLeaves
  <1>15. TasksOnNodeOfVm'
    BY <1>3, <1>4, <1>7, EnqueueNodes
  <1>16. ~Open(s)' /\ \A d \in Operators : d # s => tx'[d] = tx[d]
    BY <1>3, <1>4 DEF Open
  <1>17. TransactionsInv'
    BY <1>11, <1>14, <1>15, <1>16, ClosingStep
  <1>18. Effect(s)
    BY <1>1, <1>2, <1>3, <1>4, <1>7, <1>8, <1>16, InsertionEffect
  <1>19. QED BY <1>10, <1>17, <1>18

LEMMA CommitAdmissionStep ==
  ASSUME TransactionsInv, NEW s \in Operators, Busy(s), Finished(s), Close(s), CommitAdmission(s)
  PROVE  TransactionsInv' /\ Next /\ Effect(s)
  <1>1. PICK r : r = session[s]
    OBVIOUS
  <1>2. r \in Session /\ r.handler = "admit" /\ AdmitReady(s) /\ r.at > 4
    BY <1>1, FinishedSession DEF CommitAdmission
  <1>3. /\ Open(s) /\ r.vm = tx[s].vm /\ r.node = vm[r.vm].node
        /\ HasLock(s, VmOf(r.vm), "update") /\ AdmissionAllowed(s)
        /\ NodeReady(s) /\ AddressReady(s, r.at > 4)
    <2>1. /\ Open(s) /\ r.vm = tx[s].vm /\ r.node = vm[r.vm].node
          /\ r.at > 1 => HasLock(s, VmOf(r.vm), "update") /\ AdmissionAllowed(s)
          /\ r.at > 2 => NodeReady(s)
          /\ AddressReady(s, r.at > 4)
      BY <1>1, <1>2, Zenon DEF AdmitReady
    <2>2. r.at > 1 /\ r.at > 2
      BY <1>2 DEF Session
    <2>3. QED BY <2>1, <2>2
  <1>4. Linked /\ TypeOK /\ tx \in [Operators -> OpenTx \union {NoTx}] /\ tx[s] \in OpenTx
    BY <1>3, OpenTxType DEF TransactionsInv, Linked, TypeOK
  <1>5. PICK t \in TaskIds, kind \in Kinds : t = tx[s].id /\ kind = tx[s].kind
    BY <1>4 DEF OpenTx
  <1>6. r.vm \in Vms /\ VmExists(r.vm) /\ ~Exists(t)
    BY <1>3, <1>4, <1>5 DEF Linked, OpenTxsApart, OpenTx
  <1>7. /\ Enqueue(t, kind, r.vm, r.node, r.ip)
        /\ tx' = [tx EXCEPT ![s] = NoTx] /\ node' = node
    BY <1>1, <1>5 DEF CommitAdmission
  <1>8. QueuedKind(s) = kind
    BY <1>1, <1>2, <1>5 DEF QueuedKind
  <1>9. r.node \in Nodes /\ r.ip \in Addrs \union {NoAddr}
    BY <1>2 DEF Session
  <1>10. /\ InsertTask(t, kind, r.vm, r.node)
         /\ HasLock(s, NodeOf(r.node), "update")
         /\ r.ip # NoAddr =>
              HasLock(s, AddressOf(r.ip), "update") /\ HasLock(s, HolderOf(r.vm), "update")
    BY <1>1, <1>2, <1>3, <1>6, <1>7, <1>8, EnqueueInserts
  <1>11. Admit(s)
    BY <1>3, <1>5, <1>7, <1>10, Zenon DEF Admit
  <1>12. Next
    BY <1>11, Zenon DEF Next, OperatorStep
  <1>13. Linked'
    BY <1>12, MasterLinks DEF TransactionsInv
  <1>14. QueuedStatus(kind, vm[r.vm].status) # "absent"
    BY <1>6 DEF QueuedStatus, VmExists
  <1>15. ASSUME NEW d \in Operators, d # s
         PROVE  KeepsNode(d) /\ KeepsVm(d) /\ KeepsAddress(d) /\ KeepsTask(d)
    BY <1>3, <1>6, <1>7, <1>9, <1>10, <1>14, <1>15, EnqueueLeaves
  <1>16. TasksOnNodeOfVm'
    BY <1>3, <1>6, <1>7, EnqueueNodes
  <1>17. ~Open(s)' /\ \A d \in Operators : d # s => tx'[d] = tx[d]
    BY <1>4, <1>7 DEF Open, NoTx
  <1>18. TransactionsInv'
    BY <1>13, <1>15, <1>16, <1>17, ClosingStep
  <1>19. Effect(s)
    BY <1>1, <1>2, <1>3, <1>6, <1>7, <1>10, <1>17, InsertionEffect
  <1>20. QED BY <1>12, <1>18, <1>19

LEMMA CommitEndStep ==
  ASSUME TransactionsInv, NEW s \in Operators, Busy(s), Finished(s), Close(s), CommitEnd(s)
  PROVE  TransactionsInv' /\ Next /\ Effect(s)
  <1>1. PICK r : r = session[s]
    OBVIOUS
  <1>2. r \in Session /\ r.handler \in {"cancel", "report"} /\ EndReady(s) /\ r.at > 4
    BY <1>1, FinishedSession DEF CommitEnd
  <1>3. /\ ~Open(s)
        /\ r.task \in TaskIds /\ Exists(r.task)
        /\ r.vm = task[r.task].vm /\ r.node = task[r.task].node
        /\ r.handler = "cancel" => r.to = "canceled" /\ r.from \in {"pending", "assigned"}
        /\ r.handler = "report" => ValidAgentTransition(r.from, r.to)
        /\ HasLock(s, TaskOf(r.task), "no key update") /\ StatusUnchanged(s)
        /\ ChangesVm(s) => HasLock(s, VmOf(r.vm), "no key update")
        /\ HasLock(s, NodeOf(r.node), "key share")
    <2>1. /\ ~Open(s)
          /\ r.task \in TaskIds /\ Exists(r.task)
          /\ r.vm = task[r.task].vm /\ r.node = task[r.task].node
          /\ r.handler = "cancel" => r.to = "canceled" /\ r.from \in {"pending", "assigned"}
          /\ r.handler = "report" => ValidAgentTransition(r.from, r.to)
          /\ r.at > 1 => HasLock(s, TaskOf(r.task), "no key update") /\ StatusUnchanged(s)
          /\ r.at > 2 /\ ChangesVm(s) => HasLock(s, VmOf(r.vm), "no key update")
          /\ r.at > 4 => HasLock(s, NodeOf(r.node), "key share")
      BY <1>1, <1>2, Zenon DEF EndReady
    <2>2. r.at \in 1 .. 5
      BY <1>2 DEF Session
    <2>3. r.at > 1 /\ r.at > 2
      BY <1>2, <2>2
    <2>4. QED BY <1>2, <2>1, <2>3, Zenon
  <1>4. task[r.task].status = r.from
    BY <1>1, <1>3 DEF StatusUnchanged
  <1>5. /\ task' = [task EXCEPT ![r.task].status = r.to]
        /\ ApplyTaskStatus(r.task, r.to)
        /\ node' = node /\ tx' = tx
    BY <1>1 DEF CommitEnd
  <1>6. r.to \in TaskStatuses
    BY <1>2, <1>3 DEF ValidAgentTransition, TaskStatuses, Active, Terminal, Unsuccessful
  <1>7. task[r.task] \in Task
    BY <1>3, ExistingTask DEF TransactionsInv, Linked
  <1>8. Next
    <2>1. CASE r.handler = "cancel"
      <3>1. CancelTask(r.task)
        BY <1>3, <1>4, <1>5, <2>1 DEF CancelTask
      <3>2. QED BY <1>3, <3>1, Zenon DEF Next, AdminStep
    <2>2. CASE r.handler = "report"
      <3>1. UpdateStatus(r.node, r.task, r.to)
        BY <1>3, <1>4, <1>5, <2>2, Zenon DEF UpdateStatus
      <3>2. r.node \in Nodes
        BY <1>2 DEF Session
      <3>3. QED BY <1>3, <1>6, <3>1, <3>2, Zenon DEF Next, AgentStep
    <2>3. QED BY <1>2, <2>1, <2>2
  <1>9. Linked'
    BY <1>8, MasterLinks DEF TransactionsInv
  <1>10. TasksOnNodeOfVm'
    BY <1>3, <1>5, <1>6, EndNodes
  <1>11. PICK v \in Vms, n \in Nodes : v = task[r.task].vm /\ n = task[r.task].node
    BY <1>7 DEF Task
  <1>12. NextVmStatus(task[r.task].kind, r.to) # NoChange => HasLock(s, VmOf(v), "no key update")
    BY <1>1, <1>3, <1>11 DEF ChangesVm
  <1>13. ASSUME NEW d \in Operators, d # s
         PROVE  KeepsNode(d) /\ KeepsVm(d) /\ KeepsAddress(d) /\ KeepsTask(d)
    BY <1>3, <1>5, <1>6, <1>11, <1>12, <1>13, EndLeaves
  <1>14. ~Open(s)' /\ \A d \in Operators : d # s => tx'[d] = tx[d]
    BY <1>3, <1>5 DEF Open
  <1>15. TransactionsInv'
    BY <1>9, <1>10, <1>13, <1>14, ClosingStep
  <1>16. Effect(s)
    BY <1>1, <1>3, <1>5, <1>7, <1>14, EndEffect
  <1>17. QED BY <1>8, <1>15, <1>16

LEMMA CommitClaimStep ==
  ASSUME TransactionsInv, NEW s \in Operators, Busy(s), Finished(s), Close(s), CommitClaim(s)
  PROVE  TransactionsInv' /\ Next /\ Effect(s)
  <1>1. PICK r : r = session[s]
    OBVIOUS
  <1>2. r \in Session /\ r.handler = "claim" /\ ClaimReady(s) /\ r.at > 2
    BY <1>1, FinishedSession DEF CommitClaim
  <1>3. /\ ~Open(s)
        /\ r.at > 1 => HasLock(s, NodeOf(r.node), "update") /\ node[r.node].scheduling
        /\ \A t \in r.seen : Exists(t) /\ task[t].node = r.node
        /\ r.at > 2 => /\ r.task \in r.seen /\ task[r.task].status = "pending"
                       /\ HasLock(s, TaskOf(r.task), "update")
    BY <1>1, <1>2, Zenon DEF ClaimReady
  <1>4. r.at > 1 /\ r.seen \subseteq TaskIds /\ r.node \in Nodes
    BY <1>2 DEF Session
  <1>5. /\ r.task \in TaskIds /\ Exists(r.task) /\ task[r.task].node = r.node
        /\ task[r.task].status = "pending"
        /\ HasLock(s, TaskOf(r.task), "update") /\ node[r.node].scheduling
    <2>1. /\ r.task \in r.seen /\ task[r.task].status = "pending"
          /\ HasLock(s, TaskOf(r.task), "update") /\ node[r.node].scheduling
      BY <1>2, <1>3, <1>4, Zenon
    <2>2. Exists(r.task) /\ task[r.task].node = r.node
      BY <1>3, <2>1, Zenon
    <2>3. r.task \in TaskIds
      BY <1>4, <2>1
    <2>4. QED BY <2>1, <2>2, <2>3
  <1>6. task' = [task EXCEPT ![r.task].status = "assigned"] /\ UNCHANGED <<vm, alloc, node, tx>>
    BY <1>1 DEF CommitClaim
  <1>7. Next
    <2>1. ClaimNext(r.node, r.task)
      BY <1>5, <1>6, Zenon DEF ClaimNext
    <2>2. QED BY <1>4, <1>5, <2>1, Zenon DEF Next, AgentStep
  <1>8. Linked'
    BY <1>7, MasterLinks DEF TransactionsInv
  <1>9. TypeOK /\ TasksOnNodeOfVm
    BY DEF TransactionsInv, Linked
  <1>10. TasksOnNodeOfVm'
    <2>1. task[r.task] \in Task
      BY <1>5, <1>9, ExistingTask
    <2>2. ASSUME NEW u \in TaskIds, Exists(u)'
          PROVE  Exists(u) /\ task'[u].node = task[u].node /\ task'[u].vm = task[u].vm
      BY <1>5, <1>6, <1>9, <2>1, <2>2 DEF TypeOK, Task, Exists
    <2>3. QED BY <1>6, <1>9, <2>2 DEF TasksOnNodeOfVm
  <1>11. ASSUME NEW d \in Operators, d # s
         PROVE  KeepsNode(d) /\ KeepsVm(d) /\ KeepsAddress(d) /\ KeepsTask(d)
    BY <1>5, <1>6, <1>11, ClaimLeaves
  <1>12. ~Open(s)' /\ \A d \in Operators : d # s => tx'[d] = tx[d]
    BY <1>3, <1>6 DEF Open
  <1>13. TransactionsInv'
    BY <1>8, <1>10, <1>11, <1>12, ClosingStep
  <1>14. Effect(s)
    <2>1. task[r.task] \in Task
      BY <1>5, <1>9, ExistingTask
    <2>2. \A u \in TaskIds : Exists(u) => task'[u].kind = task[u].kind
      BY <1>5, <1>6, <1>9, <2>1 DEF TypeOK, Task
    <2>3. QED BY <1>6, <1>12, <2>2 DEF Effect
  <1>15. QED BY <1>7, <1>13, <1>14

LEMMA CommitNodeUpdateStep ==
  ASSUME TransactionsInv, NEW s \in Operators, Busy(s), Finished(s), Close(s), CommitNodeUpdate(s)
  PROVE  TransactionsInv' /\ (UNCHANGED vars \/ Next) /\ Effect(s)
  <1>1. PICK r : r = session[s]
    OBVIOUS
  <1>2. /\ r \in Session /\ r.handler \in {"scheduling", "heartbeat"}
        /\ NodeUpdateReady(s) /\ r.at > 1
    BY <1>1, FinishedSession DEF CommitNodeUpdate
  <1>3. ~Open(s) /\ r.to \in {"on", "off"} /\ HasLock(s, NodeOf(r.node), "no key update")
    <2>1. /\ ~Open(s) /\ r.to \in {"on", "off"}
          /\ r.at > 1 => HasLock(s, NodeOf(r.node), "no key update")
      BY <1>1, <1>2, Zenon DEF NodeUpdateReady
    <2>2. QED BY <1>2, <2>1
  <1>4. PICK n \in Nodes : n = r.node
    BY <1>2 DEF Session
  <1>5. PICK on \in BOOLEAN : on = (r.to = "on")
    OBVIOUS
  <1>6. /\ node' = IF r.handler = "scheduling" THEN [node EXCEPT ![n].scheduling = on]
                   ELSE [node EXCEPT ![n].ready = on]
        /\ task' = task /\ vm' = vm /\ alloc' = alloc /\ tx' = tx
    BY <1>1, <1>4, <1>5 DEF CommitNodeUpdate
  <1>7. Linked /\ node \in [Nodes -> NodeRow] /\ TasksOnNodeOfVm
    BY DEF TransactionsInv, Linked, TypeOK
  <1>8. UNCHANGED vars \/ Next
    <2>1. CASE r.handler = "heartbeat"
      <3>1. RecordHeartbeat(n, on)
        BY <1>6, <2>1 DEF RecordHeartbeat
      <3>2. QED BY <3>1, Zenon DEF Next, AgentStep
    <2>2. CASE r.handler = "scheduling" /\ node[n].scheduling # on
      <3>1. SetScheduling(n, on)
        BY <1>6, <2>2 DEF SetScheduling
      <3>2. QED BY <3>1, Zenon DEF Next, AdminStep
    <2>3. CASE r.handler = "scheduling" /\ node[n].scheduling = on
      <3>1. node' = node
        BY <1>6, <1>7, <2>3 DEF NodeRow
      <3>2. QED BY <1>6, <3>1 DEF vars
    <2>4. QED BY <1>2, <2>1, <2>2, <2>3
  <1>9. Linked'
    BY <1>7, <1>8, MasterLinks
  <1>10. TasksOnNodeOfVm'
    BY <1>6, <1>7 DEF TasksOnNodeOfVm, Exists
  <1>11. \A m \in Nodes : m # n => node'[m] = node[m]
    BY <1>6, <1>7
  <1>12. ASSUME NEW d \in Operators, d # s
         PROVE  KeepsNode(d) /\ KeepsVm(d) /\ KeepsAddress(d) /\ KeepsTask(d)
    BY <1>3, <1>4, <1>6, <1>11, <1>12, NodeUpdateLeaves
  <1>13. ~Open(s)' /\ \A d \in Operators : d # s => tx'[d] = tx[d]
    BY <1>3, <1>6 DEF Open
  <1>14. TransactionsInv'
    BY <1>9, <1>10, <1>12, <1>13, ClosingStep
  <1>15. Effect(s)
    BY <1>6, <1>13, QuietEffect
  <1>16. QED BY <1>8, <1>14, <1>15

LEMMA TimeStep ==
  ASSUME TransactionsInv, NEW n \in Nodes, TimePasses(n)
  PROVE  TransactionsInv' /\ Next
  <1>1. /\ \A l \in locks : l.row # NodeOf(n)
        /\ HeartbeatGoesStale(n) /\ session' = session /\ locks' = locks
    BY DEF TimePasses
  <1>2. /\ node' = [node EXCEPT ![n].ready = FALSE]
        /\ task' = task /\ vm' = vm /\ alloc' = alloc /\ tx' = tx
    BY <1>1 DEF HeartbeatGoesStale
  <1>3. Linked /\ node \in [Nodes -> NodeRow] /\ TasksOnNodeOfVm /\ LocksExclude
        /\ locks \subseteq Lock /\ session \in [Operators -> Session \union {Closed}]
    BY DEF TransactionsInv, Linked, TypeOK
  <1>4. Next
    BY <1>1, Zenon DEF Next
  <1>5. Linked'
    BY <1>3, <1>4, MasterLinks
  <1>6. ASSUME NEW d \in Operators PROVE Ready(d)'
    <2>1. KeepsLocks(d) /\ KeepsVm(d) /\ KeepsAddress(d) /\ KeepsTask(d)
      BY <1>1, <1>2 DEF KeepsLocks, KeepsVm, KeepsAddress, KeepsTask, VmExists, NextAddress, Exists
    <2>2. ASSUME NEW m \in Nodes, HasLock(d, NodeOf(m), "update")
          PROVE  node'[m] = node[m] /\ CommittedVms(m)' = CommittedVms(m)
      <3>1. m # n
        <4>1. PICK l \in locks : l.row = NodeOf(m)
          BY <2>2 DEF HasLock
        <4>2. QED BY <1>1, <4>1
      <3>2. QED BY <1>2, <1>3, <3>1 DEF CommittedVms
    <2>3. KeepsNode(d)
      BY <2>2, Zenon DEF KeepsNode
    <2>4. QED BY <2>1, <2>3, KeepsReady
  <1>7. /\ TasksOnNodeOfVm' /\ LocksExclude' /\ locks' \subseteq Lock
        /\ session' \in [Operators -> Session \union {Closed}]
    BY <1>1, <1>2, <1>3 DEF TasksOnNodeOfVm, LocksExclude, Exists
  <1>8. TransactionsInv'
    BY <1>5, <1>6, <1>7, Zenon DEF TransactionsInv
  <1>9. QED BY <1>4, <1>8

-----------------------------------------------------------------------------
(* The theorems.                                                           *)

LEMMA TransactionsStart == TransactionsInit => TransactionsInv
  <1> SUFFICES ASSUME TransactionsInit PROVE TransactionsInv
    OBVIOUS
  <1>1. /\ Init /\ session = [s \in Operators |-> Closed] /\ locks = {}
    BY DEF TransactionsInit
  <1>2. Linked
    BY <1>1, LinkedInit
  <1>3. TasksOnNodeOfVm
    BY <1>1 DEF Init, TasksOnNodeOfVm, Exists, AbsentTask
  <1>4. ASSUME NEW s \in Operators PROVE Ready(s)
    <2>1. session[s].handler = "none" /\ ~Open(s)
      BY <1>1 DEF Closed, Init, Open, NoTx
    <2>2. QED BY <2>1 DEF Ready
  <1>5. LocksExclude /\ locks \subseteq Lock /\ session \in [Operators -> Session \union {Closed}]
    BY <1>1 DEF LocksExclude
  <1>6. QED BY <1>2, <1>3, <1>4, <1>5, Zenon DEF TransactionsInv

(* One step: the invariant stays, and the tables take a step of Master or  *)
(* none.                                                                   *)
LEMMA TransactionsStep ==
  ASSUME TransactionsInv, [TransactionsNext]_allVars
  PROVE  TransactionsInv' /\ (UNCHANGED vars \/ Next)
  <1>1. ASSUME NEW s \in Operators, Begin(s)
        PROVE  TransactionsInv' /\ (UNCHANGED vars \/ Next)
    <2>1. CASE \E v \in Vms, n \in Nodes : BeginCreate(s, v, n)
      BY <2>1, BeginCreateStep
    <2>2. CASE BeginAdmission(s)
      BY <2>2, BeginAdmissionStep
    <2>3. CASE \E t \in TaskIds, handler \in {"cancel", "report"}, status \in TaskStatuses :
                 BeginEnd(s, t, handler, status)
      BY <2>3, BeginEndStep, Zenon
    <2>4. CASE \E n \in Nodes : BeginClaim(s, n)
      BY <2>4, BeginClaimStep
    <2>5. CASE \E n \in Nodes, handler \in {"scheduling", "heartbeat"}, value \in {"on", "off"} :
                 BeginNodeUpdate(s, n, handler, value)
      BY <2>5, BeginNodeUpdateStep, Zenon
    <2>6. QED BY <1>1, <2>1, <2>2, <2>3, <2>4, <2>5, Zenon DEF Begin
  <1>2. ASSUME NEW s \in Operators, Execute(s)
        PROVE  TransactionsInv' /\ (UNCHANGED vars \/ Next)
    BY <1>2, LockAndTestStep, ReadPoolStep, TryAddressStep, PickTaskStep, Zenon DEF Execute
  <1>3. ASSUME NEW s \in Operators, Commit(s)
        PROVE  TransactionsInv' /\ (UNCHANGED vars \/ Next)
    BY <1>3, CommitCreateStep, CommitAdmissionStep, CommitEndStep, CommitClaimStep,
       CommitNodeUpdateStep, Zenon DEF Commit
  <1>4. ASSUME NEW s \in Operators, Rollback(s)
        PROVE  TransactionsInv' /\ (UNCHANGED vars \/ Next)
    BY <1>4, RollbackStep
  <1>5. ASSUME NEW n \in Nodes, TimePasses(n)
        PROVE  TransactionsInv' /\ (UNCHANGED vars \/ Next)
    BY <1>5, TimeStep
  <1>6. CASE UNCHANGED allVars
    <2>1. UNCHANGED vars /\ session' = session /\ locks' = locks
      BY <1>6 DEF allVars, vars
    <2>2. Linked'
      BY <2>1, StutterLinks DEF TransactionsInv
    <2>3. UNCHANGED <<task, vm, alloc, node>> /\ \A d \in Operators : KeepsLocks(d)
      BY <2>1 DEF vars, KeepsLocks
    <2>4. \A d \in Operators : Ready(d)'
      BY <2>3, TablesUntouched, KeepsReady
    <2>5. /\ LocksExclude' /\ locks' \subseteq Lock /\ TasksOnNodeOfVm'
          /\ session' \in [Operators -> Session \union {Closed}]
      BY <2>1, <2>3 DEF TransactionsInv, LocksExclude, TasksOnNodeOfVm, Exists
    <2>6. TransactionsInv'
      BY <2>2, <2>4, <2>5, Zenon DEF TransactionsInv
    <2>7. QED BY <2>1, <2>6
  <1>7. QED BY <1>1, <1>2, <1>3, <1>4, <1>5, <1>6, Zenon DEF TransactionsNext

LEMMA TransactionsAlways == TransactionsSpec => []TransactionsInv
  BY TransactionsStart, TransactionsStep, PTL DEF TransactionsSpec

(* Rows, sessions and locks keep their types, whatever the statements of   *)
(* how many transactions are interleaved.                                  *)
THEOREM SessionTypeCorrect == TransactionsSpec => []SessionTypeOK
  <1>1. TransactionsInv => SessionTypeOK
    BY DEF TransactionsInv, Linked, SessionTypeOK
  <1>2. QED BY TransactionsAlways, <1>1, PTL

(* The locks make the handlers atomic: every behaviour of any number of    *)
(* connections, statement by statement, is a behaviour of Master.          *)
THEOREM HandlersAreAtomic == TransactionsSpec => AtomicHandlers
  <1>1. TransactionsInit => Init
    BY DEF TransactionsInit
  <1>2. TransactionsInv /\ [TransactionsNext]_allVars => [UNCHANGED vars \/ Next]_vars
    BY TransactionsStep
  <1>3. QED BY <1>1, <1>2, TransactionsAlways, PTL DEF TransactionsSpec, AtomicHandlers

(* So what is proved of Master holds of the tables that the interleaved    *)
(* statements of master/src/http, tasks, vms, nodes and ipam leave behind. *)
THEOREM TransactionsImplementMaster == TransactionsSpec => Spec
  <1>1. TransactionsInit => Init
    BY DEF TransactionsInit
  <1>2. TransactionsInv /\ [TransactionsNext]_allVars => [Next]_vars
    BY TransactionsStep
  <1>3. QED BY <1>1, <1>2, TransactionsAlways, PTL DEF TransactionsSpec, Spec

(* The records of an address (allocation, VM, task) agree after every      *)
(* commit, however the transactions that reserve, attach and release it    *)
(* overlap: no two VMs share one, none is held by nobody.                  *)
THEOREM AddressesAgreeUnderLocks == TransactionsSpec => []AddressRecordsAgree
  BY TransactionsImplementMaster, AddressesAgree, PTL

(* What Master queues or hands out, it does while scheduling is enabled.   *)
LEMMA QueuedWhileScheduling ==
  ASSUME Linked, [Next]_vars, NEW t \in TaskIds, task'[t] # task[t],
         task'[t].status \in {"pending", "assigned"}
  PROVE  node[task'[t].node].scheduling
  <1>1. TypeOK
    BY DEF Linked
  <1>2. CASE CreateSteps
    <2>1. PICK u \in TaskIds, v \in Vms, n \in Nodes : InsertTask(u, "create", v, n)
      BY <1>2 DEF CreateSteps, CreateVm
    <2>2. u = t /\ task'[t].node = n /\ node[n].scheduling
      BY <1>1, <2>1 DEF InsertTask, Enqueue, NodeAccepts, TypeOK
    <2>3. QED BY <2>2
  <1>3. CASE BeginSteps
    BY <1>3 DEF BeginSteps, BeginAction, BeginRetry, OpenAdmission
  <1>4. CASE StatusSteps
    <2>1. PICK u \in TaskIds, status \in TaskStatuses :
            /\ task[u].status \in Active
            /\ \/ status = "canceled" /\ task[u].status \in {"pending", "assigned"}
               \/ ValidAgentTransition(task[u].status, status)
            /\ task' = [task EXCEPT ![u].status = status]
      BY <1>4, StatusStepEffect
    <2>2. status \notin {"pending", "assigned"}
      BY <2>1 DEF ValidAgentTransition
    <2>3. Exists(u)
      BY <2>1 DEF Exists, Active
    <2>4. task[u] \in Task
      BY <1>1, <2>3, ExistingTask
    <2>5. u = t /\ task'[u].status = status
      BY <1>1, <2>1, <2>4 DEF TypeOK, Task
    <2>6. QED BY <2>2, <2>5
  <1>5. CASE ClaimSteps
    <2>1. PICK n \in Nodes, u \in TaskIds : ClaimNext(n, u)
      BY <1>5 DEF ClaimSteps
    <2>2. Exists(u)
      BY <2>1 DEF ClaimNext, Exists
    <2>3. task[u] \in Task
      BY <1>1, <2>2, ExistingTask
    <2>4. u = t /\ task'[u].node = n /\ node[n].scheduling
      BY <1>1, <2>1, <2>3 DEF ClaimNext, TypeOK, Task
    <2>5. QED BY <2>4
  <1>6. CASE NodeSteps
    BY <1>6 DEF NodeSteps, SetScheduling, RecordHeartbeat, HeartbeatGoesStale
  <1>7. ASSUME NEW op \in Operators, Admit(op)
        PROVE  node[task'[t].node].scheduling
    <2>1. PICK u \in TaskIds, kind \in Kinds, v \in Vms, n \in Nodes : InsertTask(u, kind, v, n)
      BY <1>7, AdmitUse DEF OpenTx, Vm
    <2>2. u = t /\ task'[t].node = n /\ node[n].scheduling
      BY <1>1, <2>1 DEF InsertTask, Enqueue, NodeAccepts, TypeOK
    <2>3. QED BY <2>2
  <1>8. CASE \E op \in Operators : Reject(op)
    BY <1>8 DEF Reject
  <1>9. CASE UNCHANGED vars
    BY <1>9 DEF vars
  <1>10. QED BY NextCases, <1>2, <1>3, <1>4, <1>5, <1>6, <1>7, <1>8, <1>9

(* Disabling the scheduling of a node is a barrier for every transaction   *)
(* under way: none of them queues or hands out a task of it afterwards.    *)
THEOREM SchedulingSwitchIsBarrier == TransactionsSpec => DisabledNodeGetsNoWork
  <1>1. TransactionsInv /\ [TransactionsNext]_allVars =>
          [\A t \in TaskIds :
             /\ task'[t] # task[t]
             /\ task'[t].status \in {"pending", "assigned"}
             => node[task'[t].node].scheduling]_allVars
    <2> SUFFICES ASSUME TransactionsInv, [TransactionsNext]_allVars, NEW t \in TaskIds,
                        task'[t] # task[t], task'[t].status \in {"pending", "assigned"}
                 PROVE  node[task'[t].node].scheduling
      OBVIOUS
    <2>1. Linked /\ [Next]_vars
      BY TransactionsStep DEF TransactionsInv
    <2>2. QED BY <2>1, QueuedWhileScheduling
  <1>2. QED BY <1>1, TransactionsAlways, PTL DEF TransactionsSpec, DisabledNodeGetsNoWork

-----------------------------------------------------------------------------
(* Capacity.                                                               *)

(* The insertion of a creation adds its VM to those committed.             *)
LEMMA InsertedFits ==
  ASSUME TypeOK, IsFiniteSet(Vms), Capacity # 0,
         NEW t \in TaskIds, NEW v \in Vms, NEW n \in Nodes, InsertTask(t, "create", v, n)
  PROVE  Cardinality({w \in Vms : vm'[w].status \in Committed /\ vm'[w].node = n}) <= Capacity
  <1> DEFINE counted == CommittedVms(n)
             committed == {w \in Vms : vm'[w].status \in Committed /\ vm'[w].node = n}
  <1>1. Capacity \in Nat
    BY BoundsAssumption
  <1>2. IsFiniteSet(counted)
    BY FS_Subset DEF CommittedVms
  <1>3. Cardinality(counted) \in Nat /\ Cardinality(counted) + 1 <= Capacity
    BY <1>2, FS_CardinalityType DEF InsertTask, HasCapacity
  <1>4. \A w \in Vms \ {v} : vm'[w] = vm[w]
    BY DEF InsertTask, Enqueue, TypeOK
  <1>5. committed \subseteq counted \union {v}
    BY <1>4 DEF CommittedVms
  <1> HIDE DEF counted, committed
  <1>6. /\ IsFiniteSet(counted \union {v})
        /\ Cardinality(counted \union {v}) <= Cardinality(counted) + 1
        /\ Cardinality(counted \union {v}) \in Nat
    <2>1. /\ IsFiniteSet(counted \union {v})
          /\ Cardinality(counted \union {v}) \in {Cardinality(counted), Cardinality(counted) + 1}
      BY <1>2, FS_AddElement
    <2>2. QED BY <1>3, <2>1
  <1>7. /\ Cardinality(committed) <= Cardinality(counted \union {v})
        /\ Cardinality(committed) \in Nat
    BY <1>5, <1>6, FS_Subset, FS_CardinalityType
  <1>8. Cardinality(committed) <= Capacity
    BY <1>1, <1>3, <1>6, <1>7
  <1>9. QED BY <1>8 DEF committed

(* Only an insertion makes a task exist.                                   *)
LEMMA QueuedByInsertion ==
  ASSUME Linked, [Next]_vars, NEW t \in TaskIds, ~Exists(t), task'[t].status = "pending"
  PROVE  \E kind \in Kinds, v \in Vms, n \in Nodes :
           InsertTask(t, kind, v, n) /\ task'[t].kind = kind /\ task'[t].node = n
  <1>1. TypeOK
    BY DEF Linked
  <1>2. task[t].status # "pending"
    BY DEF Exists
  <1>3. CASE CreateSteps
    <2>1. PICK u \in TaskIds, v \in Vms, n \in Nodes : InsertTask(u, "create", v, n)
      BY <1>3 DEF CreateSteps, CreateVm
    <2>2. u = t /\ task'[t].kind = "create" /\ task'[t].node = n
      BY <1>1, <1>2, <2>1 DEF InsertTask, Enqueue, TypeOK
    <2>3. QED BY <2>1, <2>2 DEF Kinds
  <1>4. CASE BeginSteps
    BY <1>2, <1>4 DEF BeginSteps, BeginAction, BeginRetry, OpenAdmission
  <1>5. CASE StatusSteps
    <2>1. PICK u \in TaskIds, status \in TaskStatuses :
            task[u].status \in Active /\ task' = [task EXCEPT ![u].status = status]
      BY <1>5, StatusStepEffect
    <2>2. u # t
      BY <2>1 DEF Exists, Active
    <2>3. QED BY <1>1, <1>2, <2>1, <2>2 DEF TypeOK
  <1>6. CASE ClaimSteps
    <2>1. PICK n \in Nodes, u \in TaskIds : ClaimNext(n, u)
      BY <1>6 DEF ClaimSteps
    <2>2. u # t
      BY <2>1 DEF ClaimNext, Exists
    <2>3. QED BY <1>1, <1>2, <2>1, <2>2 DEF ClaimNext, TypeOK
  <1>7. CASE NodeSteps
    BY <1>2, <1>7 DEF NodeSteps, SetScheduling, RecordHeartbeat, HeartbeatGoesStale
  <1>8. ASSUME NEW op \in Operators, Admit(op)
        PROVE  \E kind \in Kinds, v \in Vms, n \in Nodes :
                 InsertTask(t, kind, v, n) /\ task'[t].kind = kind /\ task'[t].node = n
    <2>1. PICK u \in TaskIds, kind \in Kinds, v \in Vms, n \in Nodes : InsertTask(u, kind, v, n)
      BY <1>8, AdmitUse DEF OpenTx, Vm
    <2>2. u = t /\ task'[t].kind = kind /\ task'[t].node = n
      BY <1>1, <1>2, <2>1 DEF InsertTask, Enqueue, TypeOK
    <2>3. QED BY <2>1, <2>2
  <1>9. CASE \E op \in Operators : Reject(op)
    BY <1>2, <1>9 DEF Reject
  <1>10. CASE UNCHANGED vars
    BY <1>2, <1>10 DEF vars
  <1>11. QED BY NextCases, <1>3, <1>4, <1>5, <1>6, <1>7, <1>8, <1>9, <1>10

(* However many connections create VMs at a time, each creation that is    *)
(* queued fits the node together with all that were committed before it.   *)
THEOREM NodesAreNotOvercommitted ==
  ASSUME IsFiniteSet(Vms)
  PROVE  TransactionsSpec => CreationsFitNode
  <1> DEFINE Fits(t) ==
        LET committed == {v \in Vms : /\ vm'[v].status \in Committed
                                      /\ vm'[v].node = task'[t].node}
            queued == ~Exists(t) /\ task'[t].status = "pending" /\ task'[t].kind = "create"
        IN  queued /\ Capacity # 0 => Cardinality(committed) <= Capacity
  <1>1. TransactionsInv /\ [TransactionsNext]_allVars => [\A t \in TaskIds : Fits(t)]_allVars
    <2> SUFFICES ASSUME TransactionsInv, [TransactionsNext]_allVars, NEW t \in TaskIds,
                        ~Exists(t), task'[t].status = "pending", task'[t].kind = "create",
                        Capacity # 0
                 PROVE  Cardinality({v \in Vms : /\ vm'[v].status \in Committed
                                                 /\ vm'[v].node = task'[t].node}) <= Capacity
      OBVIOUS
    <2>1. Linked /\ TypeOK /\ [Next]_vars
      BY TransactionsStep DEF TransactionsInv, Linked
    <2>2. PICK v \in Vms, n \in Nodes : InsertTask(t, "create", v, n) /\ task'[t].node = n
      BY <2>1, QueuedByInsertion
    <2>3. QED BY <2>1, <2>2, InsertedFits
  <1>2. QED BY <1>1, TransactionsAlways, PTL DEF TransactionsSpec, CreationsFitNode
-----------------------------------------------------------------------------
(* No deadlock.  Sessions lock nodes, VMs, tasks and addresses in four     *)
(* different orders, so the order alone does not exclude a cycle.          *)

LEMMA RowsApart ==
  ASSUME NEW x, NEW y
  PROVE  /\ NodeOf(x) = NodeOf(y) => x = y
         /\ VmOf(x) = VmOf(y) => x = y
         /\ TaskOf(x) = TaskOf(y) => x = y
         /\ AddressOf(x) = AddressOf(y) => x = y
         /\ HolderOf(x) = HolderOf(y) => x = y
         /\ NodeOf(x) # VmOf(y) /\ NodeOf(x) # TaskOf(y) /\ NodeOf(x) # AddressOf(y)
         /\ NodeOf(x) # HolderOf(y) /\ VmOf(x) # TaskOf(y) /\ VmOf(x) # AddressOf(y)
         /\ VmOf(x) # HolderOf(y) /\ TaskOf(x) # AddressOf(y) /\ TaskOf(x) # HolderOf(y)
         /\ AddressOf(x) # HolderOf(y)
  BY DEF NodeOf, VmOf, TaskOf, AddressOf, HolderOf

(* What has been acquired stays so while the session goes on and what it   *)
(* is about to release is not taken from it.                               *)
LEMMA AcquiredStays ==
  ASSUME NEW d \in Operators, NEW row, Acquired(d, row),
         session'[d].handler = session[d].handler, session'[d].node = session[d].node,
         session'[d].vm = session[d].vm,
         \A i \in 0 .. 4 : session[d].at > i => session'[d].at > i,
         Past(d, {"cancel", "report"}, 3) /\ Releases(d) =>
           /\ Releases(d)'
           /\ \A a \in Addrs : row = AddressOf(a) /\ alloc[a].vm = session[d].vm
                                 => alloc'[a].vm = session[d].vm
  PROVE  Acquired(d, row)'
  <1> DEFINE ender == Past(d, {"cancel", "report"}, 3) /\ Releases(d)
  <1>1. /\ session[d].at > 1 => session'[d].at > 1
        /\ session[d].at > 2 => session'[d].at > 2
        /\ session[d].at > 3 => session'[d].at > 3
        /\ session[d].at > 4 => session'[d].at > 4
    OBVIOUS
  <1>2. CASE /\ row = NodeOf(session[d].node)
             /\ \/ Past(d, {"create", "claim", "scheduling", "heartbeat"}, 1)
                \/ Past(d, {"admit"}, 2)
                \/ Past(d, {"cancel", "report"}, 4)
    BY <1>1, <1>2 DEF Acquired, Past
  <1>3. CASE /\ row = VmOf(session[d].vm)
             /\ \/ Past(d, {"create"}, 4)
                \/ Past(d, {"admit"}, 1)
                \/ Past(d, {"cancel", "report"}, 2)
    BY <1>1, <1>3 DEF Acquired, Past
  <1>4. CASE /\ \E t \in TaskIds : row = TaskOf(t)
             /\ Past(d, {"claim"}, 2) \/ Past(d, {"cancel", "report"}, 1)
    BY <1>1, <1>4 DEF Acquired, Past
  <1>5. CASE /\ row = HolderOf(session[d].vm) \/ \E a \in Addrs : row = AddressOf(a)
             /\ Past(d, {"create"}, 3) \/ Past(d, {"admit"}, 4)
    BY <1>1, <1>5 DEF Acquired, Past
  <1>6. CASE /\ \/ row = HolderOf(session[d].vm)
                \/ \E a \in Addrs : row = AddressOf(a) /\ alloc[a].vm = session[d].vm
             /\ ender
    BY <1>1, <1>6 DEF Acquired, Past
  <1>7. QED BY <1>2, <1>3, <1>4, <1>5, <1>6 DEF Acquired

(* The locks of an idle session have all been given up.                    *)
LEMMA IdleHoldsNothing ==
  ASSUME NEW s \in Operators, ~Busy(s), NEW row
  PROVE  ~Acquired(s, row)
  BY DEF Acquired, Past, Busy, Closed

(* The order of the reads stays when every session either keeps what it    *)
(* knows, and nothing more is taken on its node, or has just read all.     *)
LEMMA ReadsStayOrdered ==
  ASSUME PoolReadsOrdered,
         \A d \in Operators : HasReadPool(d)' =>
           \/ \A x \in Operators : HasReadPool(x)' =>
                TakenOn(session[x].node)' \subseteq session'[d].known
           \/ /\ HasReadPool(d) /\ session[d].known \subseteq session'[d].known
              /\ TakenOn(session[d].node)' \subseteq TakenOn(session[d].node)
  PROVE  PoolReadsOrdered'
  <1> SUFFICES ASSUME NEW S \in SUBSET Operators, S # {}, \A d \in S : HasReadPool(d)'
               PROVE  \E last \in S : \A x \in S :
                        TakenOn(session[x].node)' \subseteq session'[last].known
    BY DEF PoolReadsOrdered
  <1>1. CASE \E d \in S : \A x \in Operators : HasReadPool(x)' =>
               TakenOn(session[x].node)' \subseteq session'[d].known
    BY <1>1
  <1>2. CASE \A d \in S : /\ HasReadPool(d) /\ session[d].known \subseteq session'[d].known
                         /\ TakenOn(session[d].node)' \subseteq TakenOn(session[d].node)
    <2>1. S \in SUBSET {d \in Operators : HasReadPool(d)}
      BY <1>2
    <2>2. PICK last \in S : \A x \in S : TakenOn(session[x].node) \subseteq session[last].known
      BY <2>1 DEF PoolReadsOrdered
    <2>3. QED BY <1>2, <2>2
  <1>3. QED BY <1>1, <1>2

-----------------------------------------------------------------------------
(* What a beginning, a statement and an end do to WaitInv.                 *)

Opens(s, q) ==
  /\ q.at = 1 /\ session' = [session EXCEPT ![s] = q] /\ locks' = locks
  /\ UNCHANGED <<task, vm, alloc>>
  /\ \A d \in Operators : d # s => tx'[d] = tx[d]

LEMMA BeginOpens ==
  ASSUME TransactionsInv, NEW s \in Operators, Begin(s)
  PROVE  ~Busy(s) /\ \E q : Opens(s, q)
  <1>1. Linked /\ TypeOK /\ tx \in [Operators -> OpenTx \union {NoTx}]
    BY DEF TransactionsInv, Linked, TypeOK
  <1>2. ASSUME NEW v \in Vms, NEW n \in Nodes, BeginCreate(s, v, n)
        PROVE  \E q : Opens(s, q)
    <2>1. PICK q : q = Started("create", n, v, NoTask)
      OBVIOUS
    <2>2. q.at = 1
      BY <2>1 DEF Started
    <2>3. Opens(s, q)
      BY <1>2, <2>1, <2>2 DEF BeginCreate, Opened, Opens, dbVars
    <2>4. QED BY <2>3
  <1>3. ASSUME BeginAdmission(s)
        PROVE  \E q : Opens(s, q)
    <2>1. PICK t, v, kind, retry : OpenAdmission(s, t, v, kind, retry)
      BY <1>3 DEF BeginAdmission, BeginAction, BeginRetry
    <2>2. /\ UNCHANGED <<task, vm, alloc>> /\ tx'[s].vm = v
          /\ \A d \in Operators : d # s => tx'[d] = tx[d]
      BY <1>1, <2>1 DEF OpenAdmission
    <2>3. PICK q : q = Started("admit", vm[v].node, v, NoTask)
      OBVIOUS
    <2>4. q.at = 1
      BY <2>3 DEF Started
    <2>5. Opened(s, q)
      BY <1>3, <2>2, <2>3 DEF BeginAdmission
    <2>6. Opens(s, q)
      BY <2>2, <2>4, <2>5 DEF Opened, Opens
    <2>7. QED BY <2>6
  <1>4. ASSUME NEW t \in TaskIds, NEW handler \in {"cancel", "report"}, NEW status \in TaskStatuses,
               BeginEnd(s, t, handler, status)
        PROVE  \E q : Opens(s, q)
    <2>1. PICK q : q = [Started(handler, task[t].node, task[t].vm, t) EXCEPT
                          !.from = task[t].status, !.to = status]
      OBVIOUS
    <2>2. q.at = 1
      BY <2>1 DEF Started
    <2>3. Opened(s, q) /\ UNCHANGED dbVars
      BY <1>4, <2>1 DEF BeginEnd
    <2>4. Opens(s, q)
      BY <2>2, <2>3 DEF Opened, Opens, dbVars
    <2>5. QED BY <2>4
  <1>5. ASSUME NEW n \in Nodes, BeginClaim(s, n)
        PROVE  \E q : Opens(s, q)
    <2>1. PICK q : q = [Started("claim", n, NoVm, NoTask) EXCEPT
                          !.seen = {t \in TaskIds : task[t].status = "pending" /\ task[t].node = n}]
      OBVIOUS
    <2>2. q.at = 1
      BY <2>1 DEF Started
    <2>3. Opened(s, q) /\ UNCHANGED dbVars
      BY <1>5, <2>1 DEF BeginClaim
    <2>4. Opens(s, q)
      BY <2>2, <2>3 DEF Opened, Opens, dbVars
    <2>5. QED BY <2>4
  <1>6. ASSUME NEW n \in Nodes, NEW handler \in {"scheduling", "heartbeat"},
               NEW value \in {"on", "off"}, BeginNodeUpdate(s, n, handler, value)
        PROVE  \E q : Opens(s, q)
    <2>1. PICK q : q = [Started(handler, n, NoVm, NoTask) EXCEPT !.to = value]
      OBVIOUS
    <2>2. q.at = 1
      BY <2>1 DEF Started
    <2>3. Opened(s, q) /\ UNCHANGED dbVars
      BY <1>6, <2>1 DEF BeginNodeUpdate
    <2>4. Opens(s, q)
      BY <2>2, <2>3 DEF Opened, Opens, dbVars
    <2>5. QED BY <2>4
  <1>7. QED BY <1>2, <1>3, <1>4, <1>5, <1>6, Zenon DEF Begin

LEMMA OpenWaits ==
  ASSUME TransactionsInv, WaitInv, NEW s \in Operators, ~Busy(s), NEW q, Opens(s, q)
  PROVE  WaitInv'
  <1>1. /\ session \in [Operators -> Session \union {Closed}] /\ locks \subseteq Lock
        /\ LocksAccounted /\ ModesAccounted /\ PoolReadsOrdered
    BY DEF TransactionsInv, WaitInv
  <1>2. /\ session'[s] = q /\ q.at = 1 /\ session[s].handler = "none"
        /\ \A d \in Operators : d # s => session'[d] = session[d] /\ tx'[d] = tx[d]
        /\ task' = task /\ vm' = vm /\ alloc' = alloc /\ locks' = locks
    BY <1>1 DEF Opens, Busy, Closed
  <1>3. LocksAccounted'
    <2> SUFFICES ASSUME NEW l \in locks PROVE Acquired(l.by, l.row)'
      BY <1>2 DEF LocksAccounted
    <2>1. PICK d \in Operators, row \in Rows : d = l.by /\ row = l.row
      BY <1>1 DEF Lock
    <2>2. Acquired(d, row) /\ d # s
      BY <1>1, <2>1, IdleHoldsNothing DEF LocksAccounted
    <2>3. session'[d] = session[d]
      BY <1>2, <2>2
    <2>4. Releases(d) => Releases(d)'
      BY <1>2, <2>3 DEF Releases
    <2>5. Acquired(d, row)'
      BY <1>2, <2>2, <2>3, <2>4, AcquiredStays
    <2>6. QED BY <2>1, <2>5
  <1>4. ModesAccounted'
    <2> SUFFICES ASSUME NEW l \in locks
                 PROVE  /\ session'[l.by].handler = "admit" => l.mode = "update"
                        /\ l.mode = "insert" => session'[l.by].handler = "create"
      BY <1>2 DEF ModesAccounted
    <2>1. PICK d \in Operators : d = l.by
      BY <1>1 DEF Lock
    <2>2. d # s
      BY <1>1, <2>1, IdleHoldsNothing DEF LocksAccounted
    <2>3. QED BY <1>1, <1>2, <2>1, <2>2 DEF ModesAccounted
  <1>5. PoolReadsOrdered'
    <2>1. ASSUME NEW d \in Operators, HasReadPool(d)'
          PROVE  HasReadPool(d) /\ session'[d] = session[d]
      <3>1. d # s
        BY <1>2, <2>1 DEF HasReadPool, Past
      <3>2. QED BY <1>2, <2>1, <3>1 DEF HasReadPool, Past, TakesAddress, QueuedKind
    <2>2. ASSUME NEW d \in Operators, HasReadPool(d)'
          PROVE  TakenOn(session[d].node)' = TakenOn(session[d].node)
      BY <1>2, <2>1, <2>2 DEF TakenOn
    <2>3. QED BY <1>1, <2>1, <2>2, ReadsStayOrdered
  <1>6. QED BY <1>3, <1>4, <1>5 DEF WaitInv
(* A statement: what it locks is accounted for by the statement it was,    *)
(* and the pool is read before the addresses are tried.                    *)
Executes(s, r, q) ==
  /\ Busy(s) /\ session[s] = r /\ session' = [session EXCEPT ![s] = q]
  /\ q.handler = r.handler /\ q.vm = r.vm /\ q.node = r.node
  /\ r.at \in 1 .. 4 /\ q.at \in {r.at, r.at + 1}
  /\ r.handler \in {"cancel", "report"} => q.task = r.task /\ q.to = r.to
  /\ UNCHANGED dbVars
  /\ \A l \in locks' : l \in locks \/ (l.by = s /\ l.mode = LockMode(s) /\ Acquired(s, l.row)')
  /\ HasReadPool(s)' => \/ q.known = {a \in Addrs : alloc[a] # Free}
                        \/ HasReadPool(s) /\ r.known \subseteq q.known

LEMMA StatementAcquires ==
  ASSUME TransactionsInv, NEW s \in Operators, Executing(s),
         NEW r, r = session[s], NEW q, q = session'[s],
         q.handler = r.handler, q.vm = r.vm, q.node = r.node, q.at = r.at + 1,
         r.handler \in {"cancel", "report"} => q.task = r.task /\ q.to = r.to,
         task' = task, alloc' = alloc, NEW row \in Wanted(s)
  PROVE  Acquired(s, row)'
  <1>1. /\ r \in Session /\ r.handler \in Handlers /\ r.at \in 1 .. 4 /\ ~Finished(s)
    BY ExecutingSession
  <1>2. r.handler \in {"cancel", "report"} => r.task \in TaskIds
    <2>1. r.handler \in {"cancel", "report"} => EndReady(s)
      BY ExecutingSession
    <2>2. QED BY <2>1, Zenon DEF EndReady
  <1>3. CASE Statement(s) \in {"node", "audit"}
    <2>1. row = NodeOf(q.node)
      BY <1>3 DEF Wanted
    <2>2. \/ r.handler \in {"create", "claim", "scheduling", "heartbeat"} /\ r.at = 1
          \/ r.handler = "admit" /\ r.at = 2
          \/ r.handler \in {"cancel", "report"} /\ r.at = 4
      BY <1>1, <1>3, StatementAt DEF Handlers
    <2>3. QED BY <1>1, <2>1, <2>2 DEF Acquired, Past
  <1>4. CASE Statement(s) = "vm"
    <2>1. row = VmOf(q.vm)
      BY <1>4 DEF Wanted
    <2>2. \/ r.handler = "create" /\ r.at = 4
          \/ r.handler = "admit" /\ r.at = 1
          \/ r.handler \in {"cancel", "report"} /\ r.at = 2
      BY <1>1, <1>4, StatementAt DEF Handlers
    <2>3. QED BY <1>1, <2>1, <2>2 DEF Acquired, Past
  <1>5. CASE Statement(s) = "address"
    <2>1. row = HolderOf(q.vm) \/ \E a \in Addrs : row = AddressOf(a)
      BY <1>5 DEF Wanted, NextCandidate
    <2>2. \/ r.handler = "create" /\ r.at = 3
          \/ r.handler = "admit" /\ r.at = 4
      BY <1>1, <1>5, StatementAt DEF Handlers
    <2>3. QED BY <1>1, <2>1, <2>2 DEF Acquired, Past
  <1>6. CASE Statement(s) = "release"
    <2>1. /\ Releases(s)
          /\ row = HolderOf(q.vm) \/ \E a \in Addrs : row = AddressOf(a) /\ alloc[a].vm = q.vm
      BY <1>6 DEF Wanted
    <2>2. r.handler \in {"cancel", "report"} /\ r.at = 3
      BY <1>1, <1>6, StatementAt DEF Handlers
    <2>3. Releases(s)'
      BY <2>1, <2>2 DEF Releases
    <2>4. Past(s, {"cancel", "report"}, 3)'
      BY <1>1, <2>2 DEF Past
    <2>5. QED BY <2>1, <2>3, <2>4 DEF Acquired
  <1>7. CASE Statement(s) = "task"
    <2>1. row = TaskOf(r.task) /\ r.handler # "claim"
      BY <1>7 DEF Wanted
    <2>2. r.handler \in {"cancel", "report"} /\ r.at = 1
      BY <1>1, <1>7, <2>1, StatementAt DEF Handlers
    <2>3. Past(s, {"cancel", "report"}, 1)'
      BY <1>1, <2>2 DEF Past
    <2>4. QED BY <1>2, <2>1, <2>2, <2>3 DEF Acquired
  <1>8. Statement(s) # "pool"
    BY DEF Wanted
  <1>9. Statement(s) \in {"node", "audit", "vm", "address", "release", "task", "pool"}
    BY <1>1, StatementAt DEF Handlers
  <1>10. QED BY <1>3, <1>4, <1>5, <1>6, <1>7, <1>8, <1>9

LEMMA GrantedLocks ==
  ASSUME NEW s, NEW rows, Granted(s, rows), NEW l \in locks'
  PROVE  l \in locks \/ (l.by = s /\ l.mode = LockMode(s) /\ l.row \in rows)
  BY DEF Granted

LEMMA LockAndTestExecutes ==
  ASSUME TransactionsInv, NEW s \in Operators, LockAndTest(s)
  PROVE  \E r, q : Executes(s, r, q)
  <1>1. PICK r, q : r = session[s] /\ q = [r EXCEPT !.at = @ + 1]
    OBVIOUS
  <1>2. /\ Executing(s) /\ UNCHANGED dbVars /\ Statement(s) # "pool"
        /\ Granted(s, Wanted(s)) /\ session' = [session EXCEPT ![s] = q]
    BY <1>1 DEF LockAndTest, Proceed
  <1>3. /\ r \in Session /\ r.handler \in Handlers /\ r.at \in 1 .. 4 /\ ~Finished(s)
        /\ session \in [Operators -> Session \union {Closed}]
    BY <1>1, <1>2, ExecutingSession
  <1>4. /\ q.handler = r.handler /\ q.node = r.node /\ q.vm = r.vm /\ q.task = r.task
        /\ q.to = r.to /\ q.at = r.at + 1 /\ q.known = r.known /\ session'[s] = q
    BY <1>1, <1>2, <1>3 DEF Session
  <1>5. task' = task /\ alloc' = alloc /\ tx' = tx
    BY <1>2 DEF dbVars
  <1>6. \A l \in locks' :
          l \in locks \/ (l.by = s /\ l.mode = LockMode(s) /\ Acquired(s, l.row)')
    <2>1. r.handler \in {"cancel", "report"} => q.task = r.task /\ q.to = r.to
      BY <1>4
    <2>2. ASSUME NEW row \in Wanted(s) PROVE Acquired(s, row)'
      <3>1. /\ Executing(s) /\ r = session[s] /\ q = session'[s]
            /\ q.handler = r.handler /\ q.vm = r.vm /\ q.node = r.node /\ q.at = r.at + 1
        BY <1>1, <1>2, <1>4
      <3>2. QED BY <1>5, <2>1, <3>1, StatementAcquires
    <2>3. ASSUME NEW l \in locks'
          PROVE  l \in locks \/ (l.by = s /\ l.mode = LockMode(s) /\ l.row \in Wanted(s))
      BY <1>2, GrantedLocks
    <2>4. QED BY <2>2, <2>3
  <1>7. HasReadPool(s)' => HasReadPool(s)
    <2>1. TakesAddress(s)' => TakesAddress(s)
      BY <1>1, <1>4, <1>5 DEF TakesAddress, QueuedKind
    <2>2. /\ r.handler = "create" => r.at # 2
          /\ r.handler = "admit" => r.at # 3
      BY <1>1, <1>2, <1>3, StatementAt
    <2>3. QED BY <1>1, <1>3, <1>4, <2>1, <2>2 DEF HasReadPool, Past
  <1>8. Executes(s, r, q)
    BY <1>1, <1>2, <1>3, <1>4, <1>6, <1>7 DEF Executes, Executing
  <1>9. QED BY <1>8

LEMMA ReadPoolExecutes ==
  ASSUME TransactionsInv, NEW s \in Operators, ReadPool(s)
  PROVE  \E r, q : Executes(s, r, q)
  <1>1. PICK r, known, r0, q :
          /\ r = session[s]
          /\ known = IF TakesAddress(s) THEN {a \in Addrs : alloc[a] # Free} ELSE {}
          /\ r0 = [r EXCEPT !.known = known] /\ q = [r0 EXCEPT !.at = @ + 1]
    OBVIOUS
  <1>2. /\ Executing(s) /\ Statement(s) = "pool" /\ UNCHANGED dbVars /\ locks' = locks
        /\ session' = [session EXCEPT ![s] = q]
    BY <1>1 DEF ReadPool, Proceed
  <1>3. /\ r \in Session /\ r.at \in 1 .. 4
        /\ session \in [Operators -> Session \union {Closed}]
    BY <1>1, <1>2, ExecutingSession
  <1>4. /\ r0.handler = r.handler /\ r0.node = r.node /\ r0.vm = r.vm /\ r0.task = r.task
        /\ r0.to = r.to /\ r0.at = r.at /\ r0.known = known
    BY <1>1, <1>3 DEF Session
  <1>5. /\ q.handler = r0.handler /\ q.node = r0.node /\ q.vm = r0.vm /\ q.task = r0.task
        /\ q.to = r0.to /\ q.at = r0.at + 1 /\ q.known = r0.known /\ session'[s] = q
    BY <1>1, <1>2, <1>3 DEF Session
  <1>6. HasReadPool(s)' => q.known = {a \in Addrs : alloc[a] # Free}
    <2>1. tx' = tx
      BY <1>2 DEF dbVars
    <2>2. TakesAddress(s)' => TakesAddress(s)
      BY <1>1, <1>4, <1>5, <2>1 DEF TakesAddress, QueuedKind
    <2>3. QED BY <1>1, <1>4, <1>5, <2>2 DEF HasReadPool
  <1>7. Executes(s, r, q)
    BY <1>1, <1>2, <1>3, <1>4, <1>5, <1>6 DEF Executes, Executing
  <1>8. QED BY <1>7

LEMMA TryAddressExecutes ==
  ASSUME TransactionsInv, NEW s \in Operators, NEW a \in Addrs, TryAddress(s, a)
  PROVE  \E r, q : Executes(s, r, q)
  <1>1. PICK r : r = session[s]
    OBVIOUS
  <1>2. Executing(s) /\ Statement(s) = "address" /\ TakesAddress(s) /\ UNCHANGED dbVars
    BY DEF TryAddress
  <1>3. /\ r \in Session /\ r.handler \in Handlers /\ r.at \in 1 .. 4 /\ ~Finished(s)
        /\ session \in [Operators -> Session \union {Closed}]
    BY <1>1, <1>2, ExecutingSession
  <1>4. \/ r.handler = "create" /\ r.at = 3
        \/ r.handler = "admit" /\ r.at = 4
    BY <1>1, <1>2, <1>3, StatementAt DEF Handlers
  <1>5. HasReadPool(s) /\ r.handler \notin {"cancel", "report"}
    BY <1>1, <1>2, <1>4 DEF HasReadPool, Past
  <1>6. CASE NextAddress(r.vm, a)
    <2>1. PICK r0, q : r0 = [r EXCEPT !.ip = a] /\ q = [r0 EXCEPT !.at = @ + 1]
      OBVIOUS
    <2>2. Granted(s, Wanted(s)) /\ session' = [session EXCEPT ![s] = q]
      BY <1>1, <1>6, <2>1 DEF TryAddress, Proceed
    <2>3. /\ r0.handler = r.handler /\ r0.node = r.node /\ r0.vm = r.vm /\ r0.at = r.at
          /\ r0.known = r.known
      BY <1>3, <2>1 DEF Session
    <2>4. /\ q.handler = r0.handler /\ q.node = r0.node /\ q.vm = r0.vm /\ q.at = r0.at + 1
          /\ q.known = r0.known /\ session'[s] = q
      BY <1>3, <2>1, <2>2 DEF Session
    <2>5. task' = task /\ alloc' = alloc
      BY <1>2 DEF dbVars
    <2>6. \A l \in locks' :
            l \in locks \/ (l.by = s /\ l.mode = LockMode(s) /\ Acquired(s, l.row)')
      BY <1>1, <1>2, <1>5, <2>2, <2>3, <2>4, <2>5, GrantedLocks, StatementAcquires
    <2>7. Executes(s, r, q)
      BY <1>1, <1>2, <1>3, <1>5, <2>2, <2>3, <2>4, <2>6 DEF Executes, Executing
    <2>8. QED BY <2>7
  <1>7. CASE ~NextAddress(r.vm, a)
    <2>1. PICK q : q = [r EXCEPT !.known = @ \union {a}]
      OBVIOUS
    <2>2. session' = [session EXCEPT ![s] = q] /\ locks' = locks
      BY <1>1, <1>7, <2>1 DEF TryAddress
    <2>3. /\ q.handler = r.handler /\ q.node = r.node /\ q.vm = r.vm /\ q.at = r.at
          /\ q.known = r.known \union {a}
      BY <1>3, <2>1 DEF Session
    <2>4. Executes(s, r, q)
      BY <1>1, <1>2, <1>3, <1>5, <2>2, <2>3 DEF Executes, Executing
    <2>5. QED BY <2>4
  <1>8. QED BY <1>6, <1>7

LEMMA PickTaskExecutes ==
  ASSUME TransactionsInv, NEW s \in Operators, NEW t \in TaskIds, PickTask(s, t)
  PROVE  \E r, q : Executes(s, r, q)
  <1>1. PICK r, r0, q : /\ r = session[s] /\ r0 = [r EXCEPT !.task = t]
                        /\ q = [r0 EXCEPT !.at = @ + 1]
    OBVIOUS
  <1>2. /\ Executing(s) /\ Statement(s) = "task" /\ r.handler = "claim" /\ UNCHANGED dbVars
        /\ session' = [session EXCEPT ![s] = q] /\ Granted(s, {TaskOf(t)})
    BY <1>1 DEF PickTask, Proceed
  <1>3. /\ r \in Session /\ r.at \in 1 .. 4 /\ ~Finished(s)
        /\ session \in [Operators -> Session \union {Closed}]
    BY <1>1, <1>2, ExecutingSession
  <1>4. r.at = 2
    BY <1>1, <1>2, <1>3, StatementAt
  <1>5. /\ r0.handler = r.handler /\ r0.node = r.node /\ r0.vm = r.vm /\ r0.at = r.at
    BY <1>1, <1>3 DEF Session
  <1>6. /\ q.handler = r0.handler /\ q.node = r0.node /\ q.vm = r0.vm /\ q.at = r0.at + 1
        /\ session'[s] = q
    BY <1>1, <1>2, <1>3 DEF Session
  <1>7. Acquired(s, TaskOf(t))'
    BY <1>2, <1>4, <1>5, <1>6 DEF Acquired, Past
  <1>8. \A l \in locks' :
          l \in locks \/ (l.by = s /\ l.mode = LockMode(s) /\ Acquired(s, l.row)')
    <2>1. ASSUME NEW l \in locks'
          PROVE  l \in locks \/ (l.by = s /\ l.mode = LockMode(s) /\ l.row = TaskOf(t))
      BY <1>2, GrantedLocks
    <2>2. QED BY <1>7, <2>1
  <1>9. ~HasReadPool(s)' /\ r.handler \notin {"cancel", "report"}
    BY <1>2, <1>5, <1>6 DEF HasReadPool, TakesAddress
  <1>10. Executes(s, r, q)
    BY <1>1, <1>2, <1>3, <1>5, <1>6, <1>8, <1>9 DEF Executes, Executing
  <1>11. QED BY <1>10

LEMMA ExecuteWaits ==
  ASSUME TransactionsInv, WaitInv, NEW s \in Operators, NEW r, NEW q, Executes(s, r, q)
  PROVE  WaitInv'
  <1>1. /\ session \in [Operators -> Session \union {Closed}] /\ locks \subseteq Lock
        /\ LocksAccounted /\ ModesAccounted /\ PoolReadsOrdered
    BY DEF TransactionsInv, WaitInv
  <1>2. /\ session[s] = r /\ session'[s] = q
        /\ \A d \in Operators : d # s => session'[d] = session[d]
        /\ task' = task /\ vm' = vm /\ alloc' = alloc /\ tx' = tx
        /\ q.handler = r.handler /\ q.vm = r.vm /\ q.node = r.node
        /\ r.at \in 1 .. 4 /\ q.at \in {r.at, r.at + 1}
        /\ r.handler \in {"cancel", "report"} => q.task = r.task /\ q.to = r.to
    BY <1>1 DEF Executes, dbVars
  <1>3. ASSUME NEW d \in Operators
        PROVE  /\ session'[d].handler = session[d].handler /\ session'[d].vm = session[d].vm
               /\ session'[d].node = session[d].node
               /\ \A i \in 0 .. 4 : session[d].at > i => session'[d].at > i
               /\ session[d].handler \in {"cancel", "report"} =>
                    session'[d].task = session[d].task /\ session'[d].to = session[d].to
    BY <1>2
  <1>4. LocksAccounted'
    <2> SUFFICES ASSUME NEW l \in locks' PROVE Acquired(l.by, l.row)'
      BY DEF LocksAccounted
    <2>1. CASE l \in locks
      <3>1. PICK d \in Operators, row \in Rows : d = l.by /\ row = l.row
        BY <1>1, <2>1 DEF Lock
      <3>2. Acquired(d, row)
        BY <1>1, <2>1, <3>1 DEF LocksAccounted
      <3>3. Past(d, {"cancel", "report"}, 3) /\ Releases(d) => Releases(d)'
        BY <1>2, <1>3 DEF Past, Releases
      <3>4. Acquired(d, row)'
        BY <1>2, <1>3, <3>2, <3>3, AcquiredStays
      <3>5. QED BY <3>1, <3>4
    <2>2. CASE l \notin locks
      BY <2>2 DEF Executes
    <2>3. QED BY <2>1, <2>2
  <1>5. ModesAccounted'
    <2> SUFFICES ASSUME NEW l \in locks'
                 PROVE  /\ session'[l.by].handler = "admit" => l.mode = "update"
                        /\ l.mode = "insert" => session'[l.by].handler = "create"
      BY DEF ModesAccounted
    <2>1. CASE l \in locks
      <3>1. PICK d \in Operators : d = l.by
        BY <1>1, <2>1 DEF Lock
      <3>2. QED BY <1>1, <1>3, <2>1, <3>1 DEF ModesAccounted
    <2>2. CASE l \notin locks
      <3>1. l.by = s /\ l.mode = LockMode(s)
        BY <2>2 DEF Executes
      <3>2. session'[s].handler = session[s].handler
        BY <1>3
      <3>3. /\ session[s].handler = "admit" => LockMode(s) = "update"
            /\ LockMode(s) = "insert" => session[s].handler = "create"
        BY DEF LockMode, InsertsVm
      <3>4. QED BY <3>1, <3>2, <3>3
    <2>3. QED BY <2>1, <2>2
  <1>6. PoolReadsOrdered'
    <2>1. ASSUME NEW d \in Operators
          PROVE  TakenOn(session[d].node)' = TakenOn(session[d].node)
      BY <1>2, <1>3 DEF TakenOn
    <2>2. ASSUME NEW d \in Operators, HasReadPool(d)'
          PROVE  \/ \A x \in Operators : HasReadPool(x)' =>
                      TakenOn(session[x].node)' \subseteq session'[d].known
                 \/ HasReadPool(d) /\ session[d].known \subseteq session'[d].known
      <3>1. CASE d = s
        <4>1. CASE q.known = {a \in Addrs : alloc[a] # Free}
          <5>1. \A a \in Addrs : alloc[a].vm # NoVm => alloc[a] # Free
            BY DEF Free
          <5>2. ASSUME NEW x \in Operators PROVE TakenOn(session[x].node) \subseteq q.known
            BY <4>1, <5>1, Zenon DEF TakenOn
          <5>3. QED BY <1>2, <2>1, <3>1, <5>2
        <4>2. CASE HasReadPool(s) /\ r.known \subseteq q.known
          BY <1>2, <3>1, <4>2
        <4>3. QED BY <2>2, <3>1, <4>1, <4>2 DEF Executes
      <3>2. CASE d # s
        <4>1. session'[d] = session[d]
          BY <1>2, <3>2
        <4>2. HasReadPool(d)
          BY <1>2, <2>2, <4>1 DEF HasReadPool, Past, TakesAddress, QueuedKind
        <4>3. QED BY <4>1, <4>2
      <3>3. QED BY <3>1, <3>2
    <2>3. QED BY <1>1, <2>1, <2>2, ReadsStayOrdered
  <1>7. QED BY <1>4, <1>5, <1>6 DEF WaitInv
(* Whoever has read the pool holds the node it will reserve for.           *)
LEMMA ReaderHoldsNode ==
  ASSUME TransactionsInv, NEW d \in Operators, HasReadPool(d)
  PROVE  HasLock(d, NodeOf(session[d].node), "update") /\ session[d].node \in Nodes
  <1>1. Past(d, {"create"}, 2) \/ Past(d, {"admit"}, 3)
    BY DEF HasReadPool
  <1>2. session[d] \in Session
    BY <1>1 DEF TransactionsInv, Past, Closed
  <1>3. session[d].at \in 1 .. 5 /\ session[d].node \in Nodes
    BY <1>2 DEF Session
  <1>4. NodeReady(d)
    <2>1. CASE Past(d, {"create"}, 2)
      <3>1. CreateReady(d)
        BY <2>1, Zenon DEF Past, TransactionsInv, Ready
      <3>2. session[d].at > 1
        BY <1>3, <2>1 DEF Past
      <3>3. QED BY <3>1, <3>2, Zenon DEF CreateReady
    <2>2. CASE Past(d, {"admit"}, 3)
      <3>1. AdmitReady(d)
        BY <2>2, Zenon DEF Past, TransactionsInv, Ready
      <3>2. session[d].at > 2
        BY <1>3, <2>2 DEF Past
      <3>3. QED BY <3>1, <3>2, Zenon DEF AdmitReady
    <2>3. QED BY <1>1, <2>1, <2>2
  <1>5. QED BY <1>3, <1>4, Zenon DEF NodeReady

(* Whoever is going to release an address has locked the VM that holds it. *)
LEMMA ReleaserHoldsVm ==
  ASSUME TransactionsInv, NEW d \in Operators, Past(d, {"cancel", "report"}, 3), Releases(d)
  PROVE  /\ HasLock(d, VmOf(session[d].vm), "no key update")
         /\ session[d].task \in TaskIds /\ Exists(session[d].task)
         /\ session[d].vm = task[session[d].task].vm /\ session[d].vm \in Vms
         /\ session[d].node = vm[session[d].vm].node
  <1>1. EndReady(d)
    BY Zenon DEF Past, TransactionsInv, Ready
  <1>2. /\ session[d].task \in TaskIds /\ Exists(session[d].task)
        /\ session[d].vm = task[session[d].task].vm
        /\ session[d].node = task[session[d].task].node
        /\ session[d].at > 2 /\ ChangesVm(d) => HasLock(d, VmOf(session[d].vm), "no key update")
    BY <1>1, Zenon DEF EndReady
  <1>3. session[d].at > 2
    <2>1. session[d] \in Session
      BY DEF TransactionsInv, Past, Closed
    <2>2. QED BY <2>1 DEF Session, Past
  <1>4. ChangesVm(d)
    BY ReleaseChangesVm DEF Releases, ChangesVm
  <1>5. session[d].vm \in Vms
    BY <1>2, ExistingTask DEF TransactionsInv, Linked, Task
  <1>6. session[d].node = vm[session[d].vm].node
    BY <1>2 DEF TransactionsInv, TasksOnNodeOfVm
  <1>7. QED BY <1>2, <1>3, <1>4, <1>5, <1>6

LEMMA CloseWaits ==
  ASSUME TransactionsInv, WaitInv, NEW s \in Operators, Busy(s), Close(s), Effect(s)
  PROVE  WaitInv'
  <1>1. /\ session \in [Operators -> Session \union {Closed}] /\ locks \subseteq Lock
        /\ LocksExclude /\ LocksAccounted /\ ModesAccounted /\ PoolReadsOrdered /\ TypeOK
    BY DEF TransactionsInv, WaitInv, Linked
  <1>2. /\ session'[s] = Closed /\ locks' = {l \in locks : l.by # s}
        /\ \A d \in Operators : d # s => session'[d] = session[d] /\ tx'[d] = tx[d]
    BY <1>1 DEF Close, Effect
  <1>3. LocksAccounted'
    <2> SUFFICES ASSUME NEW l \in locks, l.by # s PROVE Acquired(l.by, l.row)'
      BY <1>2 DEF LocksAccounted
    <2>1. PICK d \in Operators, row \in Rows, mode \in Modes :
            d = l.by /\ row = l.row /\ mode = l.mode /\ HasLock(d, row, mode)
      BY <1>1 DEF Lock, HasLock
    <2>2. Acquired(d, row) /\ d # s /\ session'[d] = session[d]
      BY <1>1, <1>2, <2>1 DEF LocksAccounted
    <2>3. ASSUME Past(d, {"cancel", "report"}, 3), Releases(d)
          PROVE  /\ Releases(d)'
                 /\ \A a \in Addrs : row = AddressOf(a) /\ alloc[a].vm = session[d].vm
                                       => alloc'[a].vm = session[d].vm
      <3>1. /\ HasLock(d, VmOf(session[d].vm), "no key update") /\ session[d].vm \in Vms
            /\ session[d].task \in TaskIds /\ Exists(session[d].task)
        BY <2>3, ReleaserHoldsVm
      <3>2. task'[session[d].task].kind = task[session[d].task].kind
        BY <3>1 DEF Effect
      <3>3. Releases(d)'
        BY <2>2, <2>3, <3>2 DEF Releases
      <3>4. ASSUME NEW a \in Addrs, row = AddressOf(a), alloc[a].vm = session[d].vm
            PROVE  alloc'[a] = alloc[a]
        <4>1. ~Frees(s, a)
          <5> SUFFICES ASSUME Frees(s, a) PROVE FALSE
            OBVIOUS
          <5>1. HasLock(s, VmOf(session[d].vm), "no key update")
            BY <3>4 DEF Frees
          <5>2. ~Conflict("no key update", "no key update")
            BY <1>1, <2>2, <3>1, <5>1, RowTypes, HoldersAgree
          <5>3. Conflict("no key update", "no key update")
            BY DEF Conflict
          <5>4. QED BY <5>2, <5>3
        <4>2. ~Reserves(s, a)
          <5>1. mode # "insert"
            BY <1>1, <2>1, <2>3 DEF ModesAccounted, Past
          <5>2. QED BY <1>1, <2>1, <2>2, <3>4, <5>1, UpdateExcludes DEF Reserves
        <4>3. QED BY <4>1, <4>2 DEF Effect
      <3>5. QED BY <3>3, <3>4
    <2>4. Acquired(d, row)'
      BY <2>2, <2>3, AcquiredStays
    <2>5. QED BY <2>1, <2>4
  <1>4. ModesAccounted'
    <2> SUFFICES ASSUME NEW l \in locks, l.by # s
                 PROVE  /\ session'[l.by].handler = "admit" => l.mode = "update"
                        /\ l.mode = "insert" => session'[l.by].handler = "create"
      BY <1>2 DEF ModesAccounted
    <2>1. PICK d \in Operators : d = l.by
      BY <1>1 DEF Lock
    <2>2. QED BY <1>1, <1>2, <2>1 DEF ModesAccounted
  <1>5. PoolReadsOrdered'
    <2>1. ASSUME NEW d \in Operators, HasReadPool(d)'
          PROVE  /\ HasReadPool(d) /\ session'[d] = session[d]
                 /\ TakenOn(session[d].node)' \subseteq TakenOn(session[d].node)
      <3>1. d # s /\ session'[d] = session[d]
        BY <1>2, <2>1 DEF HasReadPool, Past, Closed
      <3>2. HasReadPool(d)
        BY <1>2, <2>1, <3>1 DEF HasReadPool, Past, TakesAddress, QueuedKind
      <3>3. HasLock(d, NodeOf(session[d].node), "update") /\ session[d].node \in Nodes
        BY <3>2, ReaderHoldsNode
      <3>4. HasLock(s, NodeOf(session[s].node), "update") => session[s].node # session[d].node
        <4>1. "update" \in Modes /\ NodeOf(session[d].node) \in Rows
          BY <3>3, RowTypes
        <4>2. ~HasLock(s, NodeOf(session[d].node), "update")
          BY <1>1, <3>1, <3>3, <4>1, UpdateExcludes
        <4>3. QED BY <4>2
      <3>5. ASSUME NEW a \in Addrs, alloc'[a].vm # NoVm, vm'[alloc'[a].vm].node = session[d].node
            PROVE  alloc[a].vm # NoVm /\ vm[alloc[a].vm].node = session[d].node
        <4>1. ~Frees(s, a)
          <5> SUFFICES ASSUME Frees(s, a) PROVE FALSE
            OBVIOUS
          <5>1. alloc'[a] = Free
            BY DEF Frees
          <5>2. alloc'[a].vm = NoVm
            BY <5>1 DEF Free
          <5>3. QED BY <3>5, <5>2
        <4>2. ~Reserves(s, a)
          BY <3>4, <3>5 DEF Reserves
        <4>3. alloc'[a] = alloc[a]
          BY <4>1, <4>2 DEF Effect
        <4>4. alloc[a].vm \in Vms
          BY <1>1, <3>5, <4>3 DEF TypeOK, Allocation, Free
        <4>5. ~Inserts(s, alloc[a].vm)
          BY <3>4, <3>5, <4>3 DEF Inserts
        <4>6. vm'[alloc[a].vm].node = vm[alloc[a].vm].node
          BY <4>4, <4>5 DEF Effect
        <4>7. QED BY <3>5, <4>3, <4>6
      <3>6. TakenOn(session[d].node)' \subseteq TakenOn(session[d].node)
        BY <3>1, <3>5 DEF TakenOn
      <3>7. QED BY <3>1, <3>2, <3>6
    <2>2. QED BY <1>1, <2>1, ReadsStayOrdered
  <1>6. QED BY <1>3, <1>4, <1>5 DEF WaitInv

LEMMA WaitInit == TransactionsInit => WaitInv
  <1> SUFFICES ASSUME TransactionsInit PROVE WaitInv
    OBVIOUS
  <1>1. \A s \in Operators : session[s].handler = "none"
    BY DEF TransactionsInit, Closed
  <1>2. LocksAccounted /\ ModesAccounted
    BY <1>1 DEF TransactionsInit, LocksAccounted, ModesAccounted
  <1>3. \A s \in Operators : ~HasReadPool(s)
    BY <1>1 DEF HasReadPool, Past
  <1>4. PoolReadsOrdered
    BY <1>3 DEF PoolReadsOrdered
  <1>5. QED BY <1>2, <1>4 DEF WaitInv

LEMMA WaitStep ==
  ASSUME TransactionsInv, WaitInv, [TransactionsNext]_allVars
  PROVE  WaitInv'
  <1>1. ASSUME NEW s \in Operators, Begin(s) PROVE WaitInv'
    BY <1>1, BeginOpens, OpenWaits
  <1>2. ASSUME NEW s \in Operators, Execute(s) PROVE WaitInv'
    <2>1. \E r, q : Executes(s, r, q)
      BY <1>2, LockAndTestExecutes, ReadPoolExecutes, TryAddressExecutes, PickTaskExecutes,
         Zenon DEF Execute
    <2>2. QED BY <2>1, ExecuteWaits
  <1>3. ASSUME NEW s \in Operators, Commit(s) PROVE WaitInv'
    <2>1. Busy(s) /\ Finished(s) /\ Close(s)
      BY <1>3 DEF Commit
    <2>2. Effect(s)
      BY <1>3, <2>1, CommitCreateStep, CommitAdmissionStep, CommitEndStep, CommitClaimStep,
         CommitNodeUpdateStep, Zenon DEF Commit
    <2>3. QED BY <2>1, <2>2, CloseWaits
  <1>4. ASSUME NEW s \in Operators, Rollback(s) PROVE WaitInv'
    <2>1. Busy(s) /\ Close(s)
      BY <1>4 DEF Rollback
    <2>2. QED BY <1>4, <2>1, RollbackStep, CloseWaits
  <1>5. ASSUME UNCHANGED <<task, vm, alloc, tx, session, locks>> PROVE WaitInv'
    <2>1. LocksAccounted /\ ModesAccounted /\ PoolReadsOrdered
      BY DEF WaitInv
    <2>2. LocksAccounted'
      BY <1>5, <2>1 DEF LocksAccounted, Acquired, Past, Releases
    <2>3. ModesAccounted'
      BY <1>5, <2>1 DEF ModesAccounted
    <2>4. \A d \in Operators : HasReadPool(d)' => HasReadPool(d)
      BY <1>5 DEF HasReadPool, Past, TakesAddress, QueuedKind
    <2>5. \A d \in Operators : TakenOn(session[d].node)' = TakenOn(session[d].node)
      BY <1>5 DEF TakenOn
    <2>6. PoolReadsOrdered'
      BY <1>5, <2>1, <2>4, <2>5, ReadsStayOrdered
    <2>7. QED BY <2>2, <2>3, <2>6 DEF WaitInv
  <1>6. ASSUME NEW n \in Nodes, TimePasses(n) PROVE WaitInv'
    BY <1>5, <1>6 DEF TimePasses, HeartbeatGoesStale
  <1>7. CASE UNCHANGED allVars
    BY <1>5, <1>7 DEF allVars
  <1>8. QED BY <1>1, <1>2, <1>3, <1>4, <1>6, <1>7, Zenon DEF TransactionsNext
-----------------------------------------------------------------------------
(* Where a session is that waits for a row, and where one is that waits    *)
(* for something else while it holds that row.                             *)
WaitsAt(c, row) ==
  LET r == session[c]
  IN  \/ Statement(c) \in {"node", "audit"} /\ row = NodeOf(r.node)
      \/ Statement(c) = "vm" /\ row = VmOf(r.vm)
      \/ /\ Statement(c) = "address" /\ HasReadPool(c)
         /\ row = HolderOf(r.vm) \/ \E a \in NextCandidate(c) : row = AddressOf(a)
      \/ Statement(c) = "release" /\ \E x : row = HolderOf(x) \/ row = AddressOf(x)
      \/ Statement(c) = "task" /\ row = TaskOf(r.task)

StandsAt(d, row) ==
  LET r == session[d]
  IN  \/ InsertsVm(d)
      \/ Statement(d) = "address" /\ row = NodeOf(r.node)
      \/ /\ r.handler \in {"admit", "cancel", "report"} /\ row = VmOf(r.vm)
         /\ Statement(d) \in {"node", "address", "release", "audit"}
      \/ Statement(d) \in {"vm", "release", "audit"} /\ \E t \in TaskIds : row = TaskOf(t)
      \/ /\ Statement(d) = "audit" /\ Past(d, {"cancel", "report"}, 3) /\ Releases(d)
         /\ \/ row = HolderOf(r.vm)
            \/ \E a \in Addrs : row = AddressOf(a) /\ alloc[a].vm = r.vm

(* A lock that somebody waits for is one that another has acquired, and    *)
(* the INSERT of a VM waits for no admission.                              *)
LEMMA WaitingFor ==
  ASSUME TransactionsInv, WaitInv, NEW c \in Operators, NEW d \in Operators, WaitsFor(c, d)
  PROVE  /\ c # d /\ Executing(c)
         /\ \E row \in Rows : WaitsAt(c, row) /\ Acquired(d, row)
         /\ InsertsVm(c) => session[d].handler # "admit"
  <1>1. PICK row \in Wanted(c) : \E l \in HeldAgainst(c, row, LockMode(c)) : l.by = d
    BY DEF WaitsFor
  <1>2. Executing(c) /\ row \in Rows
    BY <1>1, WantedRows DEF WaitsFor
  <1>3. c # d /\ Acquired(d, row) /\ (InsertsVm(c) => session[d].handler # "admit")
    <2>1. PICK l \in locks :
            l.by = d /\ l.by # c /\ l.row = row /\ Conflict(l.mode, LockMode(c))
      BY <1>1 DEF HeldAgainst
    <2>2. Acquired(l.by, l.row)
      BY <2>1 DEF WaitInv, LocksAccounted
    <2>3. InsertsVm(c) => l.mode # "update"
      <3>1. InsertsVm(c) => LockMode(c) = "insert"
        BY DEF LockMode
      <3>2. QED BY <2>1, <3>1 DEF Conflict
    <2>4. session[d].handler = "admit" => l.mode = "update"
      BY <2>1 DEF WaitInv, ModesAccounted
    <2>5. QED BY <2>1, <2>2, <2>3, <2>4
  <1>4. /\ session[c] \in Session /\ session[c].handler \in Handlers /\ ~Finished(c)
        /\ session[c].handler = "create" => CreateReady(c)
    BY <1>2, ExecutingSession
  <1>5. WaitsAt(c, row)
    <2>1. CASE Statement(c) \in {"node", "audit"}
      <3>1. row = NodeOf(session[c].node)
        BY <1>1, <2>1 DEF Wanted
      <3>2. QED BY <2>1, <3>1 DEF WaitsAt
    <2>2. CASE Statement(c) = "vm"
      <3>1. row = VmOf(session[c].vm)
        BY <1>1, <2>2 DEF Wanted
      <3>2. QED BY <2>2, <3>1 DEF WaitsAt
    <2>3. CASE Statement(c) = "address"
      <3>1. /\ TakesAddress(c)
            /\ row = HolderOf(session[c].vm) \/ \E a \in NextCandidate(c) : row = AddressOf(a)
        BY <1>1, <2>3 DEF Wanted
      <3>2. \/ session[c].handler = "create" /\ session[c].at = 3
            \/ session[c].handler = "admit" /\ session[c].at = 4
        BY <1>4, <2>3, StatementAt DEF Handlers
      <3>3. HasReadPool(c)
        BY <3>1, <3>2 DEF HasReadPool, Past
      <3>4. QED BY <2>3, <3>1, <3>3 DEF WaitsAt
    <2>4. CASE Statement(c) = "release"
      <3>1. \E x : row = HolderOf(x) \/ row = AddressOf(x)
        BY <1>1, <2>4 DEF Wanted
      <3>2. QED BY <2>4, <3>1 DEF WaitsAt
    <2>5. CASE Statement(c) = "task"
      <3>1. row = TaskOf(session[c].task)
        BY <1>1, <2>5 DEF Wanted
      <3>2. QED BY <2>5, <3>1 DEF WaitsAt
    <2>6. Statement(c) # "pool"
      BY <1>1 DEF Wanted
    <2>7. Statement(c) \in {"node", "audit", "vm", "address", "release", "task", "pool"}
      BY <1>4, StatementAt DEF Handlers
    <2>8. QED BY <2>1, <2>2, <2>3, <2>4, <2>5, <2>6, <2>7
  <1>6. QED BY <1>2, <1>3, <1>5

(* Whoever waits for one thing while it holds another is at a statement    *)
(* that comes after the one that locked it.                                *)
LEMMA HoldingWhileWaiting ==
  ASSUME TransactionsInv, WaitInv, NEW d \in Operators, Blocked(d),
         NEW row \in Rows, Acquired(d, row)
  PROVE  StandsAt(d, row)
  <1>1. PICK own \in Rows : Executing(d) /\ WaitsAt(d, own)
    BY WaitingFor DEF Blocked
  <1>2. /\ session[d] \in Session /\ session[d].handler \in Handlers
        /\ session[d].at \in 1 .. 4 /\ ~Finished(d)
    BY <1>1, ExecutingSession
  <1>3. Statement(d) # "pool"
    BY <1>1 DEF WaitsAt
  <1>5. ~(session[d].handler = "claim" /\ Statement(d) = "task")
    <2> SUFFICES ASSUME session[d].handler = "claim", Statement(d) = "task" PROVE FALSE
      OBVIOUS
    <2>1. Wanted(d) = {}
      BY DEF Wanted
    <2>2. QED BY <2>1 DEF Blocked, WaitsFor
  <1>6. CASE session[d].handler = "create"
    <2>1. /\ session[d].at \in {1, 3, 4}
          /\ session[d].at = 3 => Statement(d) = "address"
          /\ session[d].at = 4 => Statement(d) = "vm"
      BY <1>2, <1>3, <1>6, StatementAt
    <2>2. session[d].at = 4 \/ (row = NodeOf(session[d].node) /\ session[d].at = 3)
      BY <1>6, <2>1 DEF Acquired, Past
    <2>3. QED BY <1>6, <2>1, <2>2 DEF StandsAt, InsertsVm
  <1>7. CASE session[d].handler = "admit"
    <2>1. /\ session[d].at \in {1, 2, 4}
          /\ session[d].at = 2 => Statement(d) = "node"
          /\ session[d].at = 4 => Statement(d) = "address"
      BY <1>2, <1>3, <1>7, StatementAt
    <2>2. \/ row = NodeOf(session[d].node) /\ session[d].at = 4
          \/ row = VmOf(session[d].vm) /\ session[d].at \in {2, 4}
      BY <1>7, <2>1 DEF Acquired, Past
    <2>3. QED BY <1>7, <2>1, <2>2 DEF StandsAt
  <1>8. CASE session[d].handler \in {"cancel", "report"}
    <2>1. /\ session[d].at = 2 => Statement(d) = "vm"
          /\ session[d].at = 3 => Statement(d) = "release"
          /\ session[d].at = 4 => Statement(d) = "audit"
      BY <1>2, <1>8, StatementAt
    <2>2. \/ row = VmOf(session[d].vm) /\ session[d].at \in {3, 4}
          \/ (\E t \in TaskIds : row = TaskOf(t)) /\ session[d].at \in {2, 3, 4}
          \/ /\ session[d].at = 4 /\ Past(d, {"cancel", "report"}, 3) /\ Releases(d)
             /\ \/ row = HolderOf(session[d].vm)
                \/ \E a \in Addrs : row = AddressOf(a) /\ alloc[a].vm = session[d].vm
      BY <1>2, <1>8 DEF Acquired, Past
    <2>3. QED BY <1>8, <2>1, <2>2 DEF StandsAt
  <1>9. CASE session[d].handler = "claim"
    <2>1. session[d].at = 1
      BY <1>2, <1>5, <1>9, StatementAt
    <2>2. QED BY <1>9, <2>1 DEF Acquired, Past
  <1>10. CASE session[d].handler \in {"scheduling", "heartbeat"}
    <2>1. session[d].at = 1
      BY <1>2, <1>10, StatementAt
    <2>2. QED BY <1>10, <2>1 DEF Acquired, Past
  <1>11. QED BY <1>2, <1>6, <1>7, <1>8, <1>9, <1>10 DEF Handlers
(* A session that waits for an address or for the key of its VM waits for  *)
(* one that releases an address of another VM, one it took to be free:     *)
(* its candidate.                                                          *)
LEMMA TakerWaitsForReleaser ==
  ASSUME TransactionsInv, WaitInv, NEW c \in Operators, NEW e \in Operators, c # e,
         Executing(c), HasReadPool(c), Past(e, {"cancel", "report"}, 3), Releases(e),
         NEW row, WaitsAt(c, row), StandsAt(e, row),
         Statement(c) = "address", Statement(e) = "audit",
         session[c].handler = "create" => session[e].vm # session[c].vm
  PROVE  \E a \in TakenOn(session[e].node) : a \notin session[c].known
  <1>1. /\ HasLock(e, VmOf(session[e].vm), "no key update") /\ session[e].vm \in Vms
        /\ session[e].node = vm[session[e].vm].node
    BY ReleaserHoldsVm
  <1>2. row = HolderOf(session[c].vm) \/ \E a \in NextCandidate(c) : row = AddressOf(a)
    BY DEF WaitsAt
  <1>3. \/ row = HolderOf(session[e].vm)
        \/ \E a \in Addrs : row = AddressOf(a) /\ alloc[a].vm = session[e].vm
    BY <1>2, RowsApart DEF StandsAt, InsertsVm
  <1>4. row # HolderOf(session[c].vm)
    <2> SUFFICES ASSUME row = HolderOf(session[c].vm) PROVE FALSE
      OBVIOUS
    <2>1. session[e].vm = session[c].vm
      BY <1>3, RowsApart
    <2>2. CASE session[c].handler = "create"
      BY <2>1, <2>2
    <2>3. CASE session[c].handler = "admit"
      <3>1. AdmitReady(c) /\ session[c].at > 1
        <4>1. AdmitReady(c) /\ session[c].at \in 1 .. 4
          BY <2>3, ExecutingSession
        <4>2. QED BY <2>3, <4>1 DEF HasReadPool, Past
      <3>2. HasLock(c, VmOf(session[e].vm), "update")
        BY <2>1, <3>1, Zenon DEF AdmitReady
      <3>3. "no key update" \in Modes /\ VmOf(session[e].vm) \in Rows /\ LocksExclude
        BY <1>1, RowTypes DEF TransactionsInv
      <3>4. QED BY <1>1, <3>2, <3>3, UpdateExcludes
    <2>4. QED BY <2>2, <2>3 DEF HasReadPool, Past
  <1>5. PICK a \in NextCandidate(c) : row = AddressOf(a)
    BY <1>2, <1>4
  <1>6. a \in Addrs /\ alloc[a].vm = session[e].vm
    BY <1>3, <1>5, RowsApart
  <1>7. a \in TakenOn(session[e].node)
    BY <1>1, <1>6, NullAssumption DEF TakenOn
  <1>8. a \notin session[c].known
    BY <1>5 DEF NextCandidate
  <1>9. QED BY <1>7, <1>8

(* A creation that has come to the INSERT of its VM waits for one that     *)
(* ends a task of that VM, or for nobody who waits.                        *)
LEMMA InsertWaitsForEnd ==
  ASSUME TransactionsInv, WaitInv, NEW c \in Operators, NEW d \in Operators,
         InsertsVm(c), WaitsFor(c, d), Blocked(d)
  PROVE  session[d].handler \in {"cancel", "report"} /\ session[d].vm = session[c].vm
  <1>1. PICK row \in Rows : WaitsAt(c, row) /\ Acquired(d, row)
    BY WaitingFor
  <1>2. session[d].handler # "admit"
    BY WaitingFor
  <1>3. row = VmOf(session[c].vm)
    BY <1>1 DEF WaitsAt, InsertsVm
  <1>4. ~InsertsVm(d)
    <2> SUFFICES ASSUME InsertsVm(d) PROVE FALSE
      OBVIOUS
    <2>1. Executing(d)
      BY DEF Blocked, WaitsFor
    <2>2. session[d].at = 4
      <3>1. session[d] \in Session /\ session[d].at \in 1 .. 4 /\ ~Finished(d)
        BY <2>1, ExecutingSession
      <3>2. QED BY <3>1, StatementAt DEF InsertsVm
    <2>3. QED BY <1>1, <1>3, <2>2, RowsApart DEF Acquired, Past, InsertsVm
  <1>5. StandsAt(d, row)
    BY <1>1, HoldingWhileWaiting
  <1>6. QED BY <1>2, <1>3, <1>4, <1>5, RowsApart DEF StandsAt

(* The sessions at the statement that reserves an address are the ones to  *)
(* look at: the last of them to have read the pool waits, if at all, for   *)
(* the release of an address that none of the others can be holding up.    *)
LEMMA SomebodyIsFree ==
  ASSUME TransactionsInv, WaitInv,
         NEW S \in SUBSET {s \in Operators : Blocked(s)}, S # {}, ~ReusesId(S),
         \A c \in S : \E d \in S : WaitsFor(c, d)
  PROVE  FALSE
  <1> DEFINE Takers == {x \in S : Statement(x) = "address"}
  <1>0. ASSUME NEW c \in S PROVE ~InsertsVm(c)
    <2> SUFFICES ASSUME InsertsVm(c) PROVE FALSE
      OBVIOUS
    <2>1. PICK d \in S : WaitsFor(c, d)
      OBVIOUS
    <2>2. c \in Operators /\ d \in Operators /\ Blocked(d)
      OBVIOUS
    <2>3. session[d].handler \in {"cancel", "report"} /\ session[d].vm = session[c].vm
      BY <2>1, <2>2, InsertWaitsForEnd
    <2>4. QED BY <2>3 DEF ReusesId, InsertsVm
  <1>1. ASSUME NEW c \in S
        PROVE  \E d \in S, row \in Rows :
                 /\ c # d /\ Executing(c) /\ WaitsAt(c, row) /\ StandsAt(d, row) /\ ~InsertsVm(d)
    <2>1. PICK d \in S : WaitsFor(c, d)
      BY <1>1
    <2>2. c \in Operators /\ d \in Operators /\ Blocked(d)
      OBVIOUS
    <2>3. PICK row \in Rows : WaitsAt(c, row) /\ Acquired(d, row)
      BY <2>1, <2>2, WaitingFor
    <2>4. c # d /\ Executing(c)
      BY <2>1, <2>2, WaitingFor
    <2>5. StandsAt(d, row)
      BY <2>2, <2>3, HoldingWhileWaiting
    <2>6. QED BY <1>0, <2>3, <2>4, <2>5
  <1>2. ASSUME NEW c \in S, Statement(c) \in {"node", "audit"}
        PROVE  \E d \in Takers : session[d].node = session[c].node
    <2>1. PICK d \in S, row \in Rows : WaitsAt(c, row) /\ StandsAt(d, row) /\ ~InsertsVm(d)
      BY <1>1
    <2>2. row = NodeOf(session[c].node)
      BY <1>2, <2>1 DEF WaitsAt
    <2>3. Statement(d) = "address" /\ row = NodeOf(session[d].node)
      BY <2>1, <2>2, RowsApart DEF StandsAt
    <2>4. QED BY <2>2, <2>3, RowsApart
  <1>3. ASSUME NEW c \in S, Statement(c) \in {"address", "release"}
        PROVE  \E e \in S, row \in Rows :
                 /\ c # e /\ Executing(c) /\ WaitsAt(c, row) /\ StandsAt(e, row)
                 /\ Statement(e) = "audit" /\ Past(e, {"cancel", "report"}, 3) /\ Releases(e)
    <2>1. PICK e \in S, row \in Rows :
            c # e /\ Executing(c) /\ WaitsAt(c, row) /\ StandsAt(e, row) /\ ~InsertsVm(e)
      BY <1>1
    <2>2. \E x : row = HolderOf(x) \/ row = AddressOf(x)
      BY <1>3, <2>1 DEF WaitsAt
    <2>3. Statement(e) = "audit" /\ Past(e, {"cancel", "report"}, 3) /\ Releases(e)
      BY <2>1, <2>2, RowsApart DEF StandsAt
    <2>4. QED BY <2>1, <2>3
  <1>4. ASSUME NEW c \in S, Statement(c) \in {"address", "release"}
        PROVE  Takers # {}
    <2>1. PICK e \in S : Statement(e) = "audit"
      BY <1>3, <1>4
    <2>2. QED BY <1>2, <2>1
  <1>5. ASSUME NEW c \in S, Statement(c) = "vm" PROVE Takers # {}
    <2>1. PICK d \in S, row \in Rows : WaitsAt(c, row) /\ StandsAt(d, row) /\ ~InsertsVm(d)
      BY <1>1
    <2>2. row = VmOf(session[c].vm)
      BY <1>5, <2>1 DEF WaitsAt
    <2>3. Statement(d) \in {"node", "address", "release", "audit"}
      BY <2>1, <2>2, RowsApart DEF StandsAt
    <2>4. QED BY <1>2, <1>4, <2>3
  <1>6. ASSUME NEW c \in S, Statement(c) = "task" PROVE Takers # {}
    <2>1. PICK d \in S, row \in Rows : WaitsAt(c, row) /\ StandsAt(d, row) /\ ~InsertsVm(d)
      BY <1>1
    <2>2. row = TaskOf(session[c].task)
      BY <1>6, <2>1 DEF WaitsAt
    <2>3. Statement(d) \in {"vm", "release", "audit"}
      BY <2>1, <2>2, RowsApart DEF StandsAt
    <2>4. QED BY <1>2, <1>4, <1>5, <2>3
  <1>7. Takers # {}
    <2>1. PICK c \in S, row \in Rows : WaitsAt(c, row)
      BY <1>1
    <2>2. Statement(c) \in {"node", "audit", "vm", "address", "release", "task"}
      BY <2>1 DEF WaitsAt
    <2>3. QED BY <1>2, <1>4, <1>5, <1>6, <2>2
  <1>8. \A c \in Takers : c \in Operators /\ HasReadPool(c)
    <2> SUFFICES ASSUME NEW c \in Takers PROVE HasReadPool(c)
      OBVIOUS
    <2>1. PICK row \in Rows : WaitsAt(c, row)
      BY <1>1
    <2>2. QED BY <2>1 DEF WaitsAt
  <1>9. PICK last \in Takers :
          \A s \in Takers : TakenOn(session[s].node) \subseteq session[last].known
    <2>1. Takers \in SUBSET {s \in Operators : HasReadPool(s)}
      BY <1>8
    <2>2. QED BY <1>7, <2>1 DEF WaitInv, PoolReadsOrdered
  <1>10. PICK e \in S, row \in Rows :
           /\ last # e /\ Executing(last) /\ WaitsAt(last, row) /\ StandsAt(e, row)
           /\ Statement(e) = "audit" /\ Past(e, {"cancel", "report"}, 3) /\ Releases(e)
    BY <1>3
  <1>11. PICK a \in TakenOn(session[e].node) : a \notin session[last].known
    <2>1. last \in Operators /\ e \in Operators /\ HasReadPool(last) /\ Statement(last) = "address"
      BY <1>8
    <2>2. session[e].handler \in {"cancel", "report"}
      BY <1>10 DEF Past
    <2>3. session[last].handler = "create" => session[e].vm # session[last].vm
      BY <2>2 DEF ReusesId
    <2>4. QED BY <1>10, <2>1, <2>3, TakerWaitsForReleaser
  <1>12. PICK taker \in Takers : session[taker].node = session[e].node
    BY <1>2, <1>10
  <1>13. QED BY <1>9, <1>11, <1>12

LEMMA WaitAlways == TransactionsSpec => [](TransactionsInv /\ WaitInv)
  <1>1. TransactionsInit => WaitInv
    BY WaitInit
  <1>2. TransactionsInv /\ WaitInv /\ [TransactionsNext]_allVars => WaitInv'
    BY WaitStep
  <1>3. QED BY <1>1, <1>2, TransactionsAlways, PTL DEF TransactionsSpec

(* PostgreSQL has to abort a handler to break a deadlock only where a      *)
(* client has sent the id of an existing VM while a task of that VM is     *)
(* ended: among any other connections that wait, however many there are    *)
(* and whatever they wait for, one is held up by none of the others.       *)
THEOREM DeadlockNeedsReusedId == TransactionsSpec => []OnlyReusedIdsDeadlock
  <1>1. TransactionsInv /\ WaitInv => OnlyReusedIdsDeadlock
    <2> SUFFICES ASSUME TransactionsInv, WaitInv,
                        NEW S \in SUBSET {s \in Operators : Blocked(s)}, S # {}, ~ReusesId(S)
                 PROVE  \E c \in S : \A d \in S : ~WaitsFor(c, d)
      BY DEF OnlyReusedIdsDeadlock
    <2>1. QED BY SomebodyIsFree
  <1>2. QED BY <1>1, WaitAlways, PTL
=============================================================================
