----------------------------- MODULE FleetProofs ----------------------------
(***************************************************************************)
(* What TLAPS proves of the master together with its agents, whatever is   *)
(* lost, late or killed, and however often.                                *)
(*                                                                         *)
(* FleetInv is the inductive invariant: a task that left "pending" has at  *)
(* most one agent, the one that polled it, and what that agent or a late   *)
(* request of it will report is what the host did.  Every step of the      *)
(* fleet is a step of Master, so what is proved of Master holds here too.  *)
(***************************************************************************)
EXTENDS Fleet, MasterProofs

-----------------------------------------------------------------------------
(* Types.                                                                  *)

LEMMA FleetTypes ==
  ASSUME FleetInv
  PROVE  /\ Linked /\ TypeOK
         /\ task \in [TaskIds -> Task \union {AbsentTask}]
         /\ agent \in [Nodes -> AgentState]
         /\ late \subseteq Request
         /\ work \in [TaskIds -> HostWork]
         /\ losses \in 0 .. MaxLosses /\ MaxLosses \in Nat
         /\ kills \in 0 .. MaxKills /\ MaxKills \in Nat
  <1>1. Linked /\ TypeOK /\ FleetTypeOK
    BY DEF FleetInv, FleetTypeOK
  <1>2. task \in [TaskIds -> Task \union {AbsentTask}]
    BY <1>1 DEF TypeOK
  <1>3. QED BY <1>1, <1>2, FaultAssumption DEF FleetTypeOK

LEMMA WaitingType == Waiting \in AgentState /\ Waiting.phase \notin Busy
  <1>1. 1 \in 1 .. MaxAttempts
    BY FaultAssumption
  <1>2. QED BY <1>1 DEF Waiting, AgentState, Phases, Verdicts, Busy, Unbegun

LEMMA StatusRequestType ==
  ASSUME FleetInv, NEW r \in late, r.kind = "status"
  PROVE  r.node \in Nodes /\ r.task \in TaskIds /\ r.status \in TaskStatuses
  BY FleetTypes DEF Request

-----------------------------------------------------------------------------
(* What the master does to tasks.                                          *)

(* The status of one task is written.                                      *)
LEMMA StatusWritten ==
  ASSUME TypeOK, NEW t \in TaskIds, Exists(t), NEW status \in TaskStatuses,
         task' = [task EXCEPT ![t].status = status]
  PROVE  /\ task'[t].status = status /\ task'[t].node = task[t].node
         /\ \A u \in TaskIds : u # t => task'[u] = task[u]
         /\ \A u \in TaskIds : Exists(u) => Exists(u)' /\ task'[u].node = task[u].node
  <1>1. task[t] \in Task
    BY ExistingTask
  <1>2. task \in [TaskIds -> Task \union {AbsentTask}]
    BY DEF TypeOK
  <1>3. /\ task'[t].status = status /\ task'[t].node = task[t].node
        /\ \A u \in TaskIds : u # t => task'[u] = task[u]
    BY <1>1, <1>2 DEF Task
  <1>4. status # "absent"
    BY DEF TaskStatuses, Active, Terminal, Unsuccessful
  <1>5. QED BY <1>3, <1>4 DEF Exists

(* A task is queued under an id that nobody has.                           *)
LEMMA TaskQueued ==
  ASSUME TypeOK, NEW t \in TaskIds, ~Exists(t), NEW kind, NEW v, NEW n, InsertTask(t, kind, v, n)
  PROVE  /\ task'[t].status = "pending"
         /\ \A u \in TaskIds : u # t => task'[u] = task[u]
         /\ \A u \in TaskIds : Exists(u) => Exists(u)' /\ task'[u].node = task[u].node
  BY DEF InsertTask, Enqueue, TypeOK, Exists

(* What operators, the administrator and time do to a task: it is queued,  *)
(* or canceled before it runs.                                             *)
LEMMA ControlEffect ==
  ASSUME FleetInv, Control
  PROVE  \A u \in TaskIds :
           /\ Exists(u) => Exists(u)' /\ task'[u].node = task[u].node
           /\ \/ task'[u].status = task[u].status
              \/ ~Exists(u) /\ task'[u].status = "pending"
              \/ task[u].status \in {"pending", "assigned"} /\ task'[u].status = "canceled"
  <1> USE FleetTypes
  <1>1. ASSUME NEW op \in Operators, NEW t \in TaskIds, NEW v \in Vms, NEW n \in Nodes,
               CreateVm(op, t, v, n)
        PROVE  \A u \in TaskIds :
                 /\ Exists(u) => Exists(u)' /\ task'[u].node = task[u].node
                 /\ task'[u] = task[u] \/ (~Exists(u) /\ task'[u].status = "pending")
    <2>1. ~Exists(t) /\ InsertTask(t, "create", v, n)
      BY <1>1 DEF CreateVm, IsNextId, Unused, TaskIds
    <2>2. QED BY <2>1, TaskQueued
  <1>2. ASSUME NEW op \in Operators, Admit(op)
        PROVE  \A u \in TaskIds :
                 /\ Exists(u) => Exists(u)' /\ task'[u].node = task[u].node
                 /\ task'[u] = task[u] \/ (~Exists(u) /\ task'[u].status = "pending")
    <2>1. /\ tx[op].id \in TaskIds /\ ~Exists(tx[op].id)
          /\ InsertTask(tx[op].id, tx[op].kind, tx[op].vm, vm[tx[op].vm].node)
      BY <1>2, AdmitUse DEF OpenTx
    <2>2. QED BY <2>1, TaskQueued
  <1>3. ASSUME NEW t \in TaskIds, CancelTask(t)
        PROVE  \A u \in TaskIds :
                 /\ Exists(u) => Exists(u)' /\ task'[u].node = task[u].node
                 /\ \/ task'[u] = task[u]
                    \/ task[u].status \in {"pending", "assigned"} /\ task'[u].status = "canceled"
    <2>1. /\ task[t].status \in {"pending", "assigned"} /\ Exists(t)
          /\ task' = [task EXCEPT ![t].status = "canceled"] /\ "canceled" \in TaskStatuses
      BY <1>3 DEF CancelTask, Exists, TaskStatuses, Terminal, Unsuccessful
    <2>2. QED BY <2>1, StatusWritten
  <1>4. ASSUME UNCHANGED task
        PROVE  \A u \in TaskIds : Exists(u)' = Exists(u) /\ task'[u] = task[u]
    BY <1>4 DEF Exists
  <1>5. ASSUME NEW op \in Operators,
               \/ \E t \in TaskIds, v \in Vms, kind \in ActionKinds : BeginAction(op, t, v, kind)
               \/ \E t \in TaskIds, s \in TaskIds : BeginRetry(op, t, s)
               \/ Reject(op)
        PROVE  UNCHANGED task
    BY <1>5 DEF BeginAction, BeginRetry, OpenAdmission, Reject
  <1>6. ASSUME \/ \E n \in Nodes, enabled \in BOOLEAN : SetScheduling(n, enabled)
               \/ \E n \in Nodes : HeartbeatGoesStale(n)
        PROVE  UNCHANGED task
    BY <1>6 DEF SetScheduling, HeartbeatGoesStale
  <1>7. CASE \E op \in Operators : OperatorStep(op)
    BY <1>7, <1>1, <1>2, <1>4, <1>5 DEF OperatorStep
  <1>8. CASE AdminStep \/ \E n \in Nodes : HeartbeatGoesStale(n)
    BY <1>8, <1>3, <1>4, <1>6 DEF AdminStep
  <1>9. QED BY <1>7, <1>8 DEF Control

LEMMA ClaimEffect ==
  ASSUME FleetInv, NEW n \in Nodes, NEW t \in TaskIds, ClaimNext(n, t)
  PROVE  /\ Exists(t) /\ task[t].node = n /\ task[t].status = "pending"
         /\ task'[t].status = "assigned" /\ task'[t].node = n
         /\ \A u \in TaskIds : u # t => task'[u] = task[u]
         /\ \A u \in TaskIds : Exists(u) => Exists(u)' /\ task'[u].node = task[u].node
  <1>1. /\ task[t].status = "pending" /\ task[t].node = n /\ Exists(t)
        /\ task' = [task EXCEPT ![t].status = "assigned"] /\ "assigned" \in TaskStatuses
    BY DEF ClaimNext, Exists, TaskStatuses, Active
  <1>2. QED BY <1>1, StatusWritten, FleetTypes

LEMMA ReportEffect ==
  ASSUME FleetInv, NEW n \in Nodes, NEW t \in TaskIds, NEW status \in TaskStatuses,
         UpdateStatus(n, t, status)
  PROVE  /\ Exists(t) /\ task[t].node = n
         /\ ValidAgentTransition(task[t].status, status)
         /\ task'[t].status = status /\ task'[t].node = n
         /\ \A u \in TaskIds : u # t => task'[u] = task[u]
         /\ \A u \in TaskIds : Exists(u) => Exists(u)' /\ task'[u].node = task[u].node
  BY StatusWritten, FleetTypes DEF UpdateStatus

-----------------------------------------------------------------------------
(* A fleet is a master: its steps are steps of Master.                     *)

LEMMA ReportIsMasterStep ==
  ASSUME NEW n \in Nodes, NEW t \in TaskIds, NEW status \in TaskStatuses,
         UpdateStatus(n, t, status)
  PROVE  Next
  BY DEF Next, AgentStep

LEMMA BusyAgent ==
  ASSUME FleetInv, NEW n \in Nodes, agent[n].phase \in Busy
  PROVE  /\ agent[n].task \in TaskIds /\ Exists(agent[n].task)
         /\ task[agent[n].task].node = n /\ task[agent[n].task].status # "pending"
         /\ agent[n] \in AgentState
         /\ \A m \in Nodes : agent[m].phase \in Busy /\ agent[m].task = agent[n].task => m = n
  BY FleetTypes DEF FleetInv, AgentsHoldTasks

LEMMA FleetStepIsMasterStep ==
  ASSUME FleetInv, [FleetNext]_fleetVars
  PROVE  [Next]_vars
  <1>1. CASE Control
    BY <1>1 DEF Control, Next
  <1>2. ASSUME NEW n \in Nodes, AgentLoop(n) \/ Killed(n)
        PROVE  [Next]_vars
    <2>1. CASE \E available \in BOOLEAN : Heartbeat(n, available)
      BY <2>1 DEF Heartbeat, TimesOut, Next, AgentStep
    <2>2. CASE \E t \in TaskIds : PollTask(n, t)
      BY <2>2 DEF PollTask, Next, AgentStep
    <2>3. CASE ReportRunning(n)
      <3>1. agent[n].task \in TaskIds
        BY <2>3, BusyAgent DEF ReportRunning, At, Busy, Unbegun
      <3>2. CASE UpdateStatus(n, agent[n].task, "running")
        BY <3>1, <3>2, ReportIsMasterStep DEF TaskStatuses, Active
      <3>3. QED BY <2>3, <3>2 DEF ReportRunning, TimesOut
    <2>4. CASE ReportTerminal(n)
      <3>1. agent[n].task \in TaskIds /\ agent[n].verdict \in TaskStatuses
        BY <2>4, BusyAgent
           DEF ReportTerminal, At, Busy, AgentState, Verdicts, TaskStatuses, Terminal, Unsuccessful
      <3>2. CASE UpdateStatus(n, agent[n].task, agent[n].verdict)
        BY <3>1, <3>2, ReportIsMasterStep
      <3>3. QED BY <2>4, <3>2 DEF ReportTerminal, TimesOut
    <2>5. CASE \/ PollNothing(n) \/ PollTimesOut(n) \/ AppendStartLog(n) \/ Killed(n)
               \/ \E accepted \in BOOLEAN : Validate(n, accepted)
               \/ \E verdict \in Verdicts, fits \in BOOLEAN : FinishWork(n, verdict, fits)
      BY <2>5 DEF PollNothing, PollTimesOut, AppendStartLog, Killed, Validate, FinishWork, TimesOut
    <2>6. QED BY <1>2, <2>1, <2>2, <2>3, <2>4, <2>5 DEF AgentLoop
  <1>3. ASSUME NEW r \in late, LateArrival(r)
        PROVE  Next
    <2>1. r \in Request
      BY FleetTypes
    <2>2. CASE r.kind = "heartbeat"
      <3>1. r.node \in Nodes /\ r.available \in BOOLEAN
        BY <2>1, <2>2 DEF Request
      <3>2. QED BY <1>3, <2>2, <3>1 DEF LateArrival, Handle, Next, AgentStep
    <2>3. CASE r.kind = "poll"
      <3>1. r.node \in Nodes
        BY <2>1 DEF Request
      <3>2. QED BY <1>3, <2>3, <3>1 DEF LateArrival, Handle, Next, AgentStep
    <2>4. CASE r.kind = "status"
      <3>1. UpdateStatus(r.node, r.task, r.status)
        BY <1>3, <2>4 DEF LateArrival, Handle
      <3>2. QED BY <2>4, <3>1, StatusRequestType, ReportIsMasterStep
    <2>5. QED BY <2>1, <2>2, <2>3, <2>4 DEF Request
  <1>4. CASE \E r \in late : LateLoss(r)
    BY <1>4 DEF LateLoss
  <1>5. CASE UNCHANGED fleetVars
    BY <1>5 DEF fleetVars
  <1>6. QED BY <1>1, <1>2, <1>3, <1>4, <1>5 DEF FleetNext

LEMMA FleetKeepsLinked ==
  ASSUME FleetInv, [FleetNext]_fleetVars
  PROVE  Linked' /\ TypeOK'
  BY FleetStepIsMasterStep, LinkedStep, FleetTypes DEF Linked

-----------------------------------------------------------------------------
(* What keeps the invariant.                                               *)

(* No work is done: the statuses that move say what the host did.          *)
LEMMA WorkKept ==
  ASSUME FleetInv, UNCHANGED work,
         \A u \in TaskIds :
           \/ task'[u].status = task[u].status
           \/ /\ task[u].status \notin {"running", "succeeded", "failed"}
              /\ task'[u].status \in {"pending", "assigned", "running", "canceled"}
           \/ task'[u].status \in Verdicts /\ Truthful(u, task'[u].status)
  PROVE  WorkAcknowledged' /\ HostWorkAtMostOnce' /\ HistoryIsTruthful'
  <1>1. HostWorkAtMostOnce'
    BY DEF FleetInv, HostWorkAtMostOnce
  <1>2. WorkAcknowledged'
    BY DEF FleetInv, WorkAcknowledged, Verdicts
  <1>3. ASSUME NEW u \in TaskIds
        PROVE  /\ task'[u].status = "succeeded" => work[u].result = "succeeded"
               /\ task'[u].status = "canceled" => work[u].begun = 0
               /\ task'[u].status = "failed" => work[u].result \in {"none", "failed"}
    <2>1. CASE task'[u].status = task[u].status
      BY <2>1 DEF FleetInv, HistoryIsTruthful
    <2>2. CASE /\ task[u].status \notin {"running", "succeeded", "failed"}
               /\ task'[u].status \in {"pending", "assigned", "running", "canceled"}
      BY <2>2 DEF FleetInv, WorkAcknowledged
    <2>3. CASE task'[u].status \in Verdicts /\ Truthful(u, task'[u].status)
      BY <2>3 DEF Verdicts, Truthful
    <2>4. QED BY <2>1, <2>2, <2>3
  <1>4. HistoryIsTruthful'
    BY <1>3 DEF HistoryIsTruthful
  <1>5. QED BY <1>1, <1>2, <1>4

(* The master moves, the agents do not.                                    *)
LEMMA MasterMoves ==
  ASSUME FleetInv, Linked', TypeOK', late' \subseteq late, UNCHANGED <<agent, work, losses, kills>>,
         \A u \in TaskIds :
           /\ Exists(u) => Exists(u)' /\ task'[u].node = task[u].node
           /\ \/ task'[u].status = task[u].status
              \/ ~Exists(u) /\ task'[u].status = "pending"
              \/ /\ task[u].status \in {"pending", "assigned"}
                 /\ task'[u].status \in {"assigned", "running", "canceled"}
              \/ /\ task'[u].status \in Verdicts /\ Truthful(u, task'[u].status)
                 /\ \A n \in Nodes : At(n, "execute") => agent[n].task # u
  PROVE  FleetInv'
  <1>1. FleetTypeOK'
    BY FleetTypes DEF FleetTypeOK
  <1>2. ASSUME NEW u \in TaskIds
        PROVE  Exists(u) /\ task[u].status # "pending" => task'[u].status # "pending"
    BY <1>2 DEF Verdicts
  <1>3. ASSUME NEW n \in Nodes, agent[n].phase \in Busy
        PROVE  LET t == agent[n].task
               IN  /\ t \in TaskIds /\ Exists(t)'
                   /\ task'[t].node = n /\ task'[t].status # "pending"
                   /\ agent[n].phase \in Unbegun => work[t].begun = 0
                   /\ At(n, "execute") => work[t].begun = 1 /\ task'[t].status = "running"
                   /\ At(n, "terminal") => Truthful(t, agent[n].verdict)
    <2> DEFINE t == agent[n].task
    <2>1. /\ t \in TaskIds /\ Exists(t)
          /\ task[t].node = n /\ task[t].status # "pending"
          /\ agent[n].phase \in Unbegun => work[t].begun = 0
          /\ At(n, "execute") => work[t].begun = 1 /\ task[t].status = "running"
          /\ At(n, "terminal") => Truthful(t, agent[n].verdict)
      BY <1>3 DEF FleetInv, AgentsHoldTasks
    <2>2. Exists(t)' /\ task'[t].node = n /\ task'[t].status # "pending"
      BY <1>2, <2>1
    <2>3. At(n, "execute") => task'[t].status = "running"
      BY <2>1
    <2>4. QED BY <2>1, <2>2, <2>3
  <1>4. AgentsHoldTasks'
    BY <1>3 DEF AgentsHoldTasks, At, Truthful
  <1>5. ASSUME NEW r \in late', r.kind = "status"
        PROVE  /\ Exists(r.task)' /\ task'[r.task].status # "pending"
               /\ r.status = "running" \/ (r.status \in Verdicts /\ Truthful(r.task, r.status))
               /\ \A n \in Nodes :
                    agent[n].phase \in Busy /\ agent[n].task = r.task => At(n, "terminal")
    <2>1. r \in late /\ r.task \in TaskIds
      BY <1>5, StatusRequestType
    <2>2. /\ Exists(r.task) /\ task[r.task].status # "pending"
          /\ r.status = "running" \/ (r.status \in Verdicts /\ Truthful(r.task, r.status))
          /\ \A n \in Nodes :
               agent[n].phase \in Busy /\ agent[n].task = r.task => At(n, "terminal")
      BY <1>5, <2>1 DEF FleetInv, LateReportsAreTrue
    <2>3. QED BY <1>2, <2>1, <2>2
  <1>6. LateReportsAreTrue'
    BY <1>5 DEF LateReportsAreTrue, At, Truthful
  <1>7. WorkAcknowledged' /\ HostWorkAtMostOnce' /\ HistoryIsTruthful'
    BY WorkKept DEF Exists
  <1>8. QED BY <1>1, <1>4, <1>6, <1>7 DEF FleetInv

(* What the agent of node n may send and then give up on.                  *)
Sendable(n, r) ==
  \/ r.kind # "status"
  \/ /\ agent[n].phase \in Busy /\ r.task = agent[n].task
     /\ r.status = "running" \/ (r.status \in Verdicts /\ Truthful(r.task, r.status))

(* One agent moves on with its task or drops it, tasks stay as they are.   *)
LEMMA AgentMoves ==
  ASSUME FleetInv, Linked', TypeOK', UNCHANGED <<task, work>>,
         losses' \in 0 .. MaxLosses, kills' \in 0 .. MaxKills,
         NEW n \in Nodes, NEW new \in AgentState, agent' = [agent EXCEPT ![n] = new],
         new.phase \in Busy =>
           /\ agent[n].phase \in Busy /\ new.task = agent[n].task
           /\ new.phase \in Unbegun => agent[n].phase \in Unbegun
           /\ new.phase # "execute"
           /\ new.phase = "terminal" => Truthful(new.task, new.verdict)
           /\ agent[n].phase = "terminal" => new.phase = "terminal",
         late' \subseteq Request,
         \A r \in late' : r \in late \/ (Sendable(n, r) /\ (new.phase \in Busy => new.phase = "terminal"))
  PROVE  FleetInv'
  <1>1. /\ agent'[n] = new /\ agent' \in [Nodes -> AgentState]
        /\ \A m \in Nodes : m # n => agent'[m] = agent[m]
    BY FleetTypes
  <1>2. FleetTypeOK'
    BY <1>1, FleetTypes DEF FleetTypeOK
  <1>3. ASSUME NEW m \in Nodes, agent'[m].phase \in Busy
        PROVE  LET t == agent'[m].task
               IN  /\ t \in TaskIds /\ Exists(t)
                   /\ task[t].node = m /\ task[t].status # "pending"
                   /\ agent'[m].phase \in Unbegun => work[t].begun = 0
                   /\ agent'[m].phase = "execute" => work[t].begun = 1 /\ task[t].status = "running"
                   /\ agent'[m].phase = "terminal" => Truthful(t, agent'[m].verdict)
    <2>1. CASE m # n
      BY <1>1, <1>3, <2>1 DEF FleetInv, AgentsHoldTasks, At
    <2>2. CASE m = n
      <3>1. agent[n].phase \in Busy /\ new.task = agent[n].task
        BY <1>1, <1>3, <2>2
      <3>2. /\ agent[n].task \in TaskIds /\ Exists(agent[n].task)
            /\ task[agent[n].task].node = n /\ task[agent[n].task].status # "pending"
            /\ agent[n].phase \in Unbegun => work[agent[n].task].begun = 0
        BY <3>1 DEF FleetInv, AgentsHoldTasks
      <3>3. QED BY <1>1, <1>3, <2>2, <3>1, <3>2
    <2>3. QED BY <2>1, <2>2
  <1>4. AgentsHoldTasks'
    BY <1>3 DEF AgentsHoldTasks, At, Truthful, Exists
  <1>5. ASSUME NEW r \in late', r.kind = "status"
        PROVE  /\ Exists(r.task) /\ task[r.task].status # "pending"
               /\ r.status = "running" \/ (r.status \in Verdicts /\ Truthful(r.task, r.status))
               /\ \A m \in Nodes :
                    agent'[m].phase \in Busy /\ agent'[m].task = r.task => agent'[m].phase = "terminal"
    <2>1. CASE r \in late
      <3>1. /\ Exists(r.task) /\ task[r.task].status # "pending"
            /\ r.status = "running" \/ (r.status \in Verdicts /\ Truthful(r.task, r.status))
            /\ \A m \in Nodes :
                 agent[m].phase \in Busy /\ agent[m].task = r.task => agent[m].phase = "terminal"
        BY <1>5, <2>1 DEF FleetInv, LateReportsAreTrue, At
      <3>2. ASSUME NEW m \in Nodes, agent'[m].phase \in Busy, agent'[m].task = r.task
            PROVE  agent'[m].phase = "terminal"
        BY <1>1, <3>1, <3>2
      <3>3. QED BY <3>1, <3>2
    <2>2. CASE Sendable(n, r) /\ (new.phase \in Busy => new.phase = "terminal")
      <3>1. /\ agent[n].phase \in Busy /\ r.task = agent[n].task
            /\ r.status = "running" \/ (r.status \in Verdicts /\ Truthful(r.task, r.status))
        BY <1>5, <2>2 DEF Sendable
      <3>2. /\ Exists(r.task) /\ task[r.task].status # "pending"
            /\ \A m \in Nodes : agent[m].phase \in Busy /\ agent[m].task = r.task => m = n
        BY <3>1, BusyAgent
      <3>3. QED BY <1>1, <2>2, <3>1, <3>2
    <2>3. QED BY <1>5, <2>1, <2>2
  <1>6. LateReportsAreTrue'
    BY <1>5 DEF LateReportsAreTrue, At, Truthful, Exists
  <1>7. WorkAcknowledged' /\ HostWorkAtMostOnce' /\ HistoryIsTruthful'
    BY WorkKept
  <1>8. QED BY <1>2, <1>4, <1>6, <1>7 DEF FleetInv

(* The agent goes on, and has lost nothing.                                *)
LEMMA AgentGoesOn ==
  ASSUME FleetInv, [FleetNext]_fleetVars, UNCHANGED <<task, work>>, Calm,
         NEW n \in Nodes, NEW new \in AgentState, agent' = [agent EXCEPT ![n] = new],
         new.phase \in Busy =>
           /\ agent[n].phase \in Busy /\ new.task = agent[n].task
           /\ new.phase \in Unbegun => agent[n].phase \in Unbegun
           /\ new.phase # "execute"
           /\ new.phase = "terminal" => Truthful(new.task, new.verdict)
           /\ agent[n].phase = "terminal" => new.phase = "terminal"
  PROVE  FleetInv'
  <1>1. Linked' /\ TypeOK'
    BY FleetKeepsLinked
  <1>2. /\ late' \subseteq Request /\ late' = late
        /\ losses' \in 0 .. MaxLosses /\ kills' \in 0 .. MaxKills
    BY FleetTypes DEF Calm
  <1>3. QED BY <1>1, <1>2, AgentMoves

(* The agent gives up on an exchange, and at most tries its report again.  *)
LEMMA AgentTimesOut ==
  ASSUME FleetInv, [FleetNext]_fleetVars,
         NEW requests, requests \subseteq Request, late' = late \union requests,
         losses < MaxLosses, losses' = losses + 1, UNCHANGED <<vars, work, kills>>,
         NEW n \in Nodes, \A r \in requests : Sendable(n, r),
         NEW new \in AgentState, agent' = [agent EXCEPT ![n] = new],
         new.phase \in Busy =>
           /\ agent[n].phase = "terminal" /\ new.phase = "terminal"
           /\ new.task = agent[n].task /\ new.verdict = agent[n].verdict
  PROVE  FleetInv'
  <1>1. Linked' /\ TypeOK'
    BY FleetKeepsLinked
  <1>2. /\ late' \subseteq Request /\ late' = late \union requests
        /\ losses' \in 0 .. MaxLosses /\ kills' \in 0 .. MaxKills
        /\ UNCHANGED <<task, work>>
    BY FleetTypes DEF vars
  <1>3. \A r \in late' :
          r \in late \/ (Sendable(n, r) /\ (new.phase \in Busy => new.phase = "terminal"))
    BY <1>2
  <1>4. new.phase \in Busy =>
           /\ agent[n].phase \in Busy /\ new.task = agent[n].task
           /\ new.phase \in Unbegun => agent[n].phase \in Unbegun
           /\ new.phase # "execute"
           /\ new.phase = "terminal" => Truthful(new.task, new.verdict)
           /\ agent[n].phase = "terminal" => new.phase = "terminal"
    BY DEF FleetInv, AgentsHoldTasks, At, Busy, Unbegun
  <1>5. QED BY <1>1, <1>2, <1>3, <1>4, AgentMoves

LEMMA AgentGivesUp ==
  ASSUME FleetInv, [FleetNext]_fleetVars,
         NEW requests, requests \subseteq Request, late' = late \union requests,
         losses < MaxLosses, losses' = losses + 1, UNCHANGED <<vars, work, kills>>,
         NEW n \in Nodes, \A r \in requests : Sendable(n, r), NextIteration(n)
  PROVE  FleetInv'
  <1>1. agent' = [agent EXCEPT ![n] = Waiting]
    BY DEF NextIteration
  <1> DEFINE new == Waiting
  <1>2. new \in AgentState /\ new.phase \notin Busy /\ agent' = [agent EXCEPT ![n] = new]
    BY <1>1, WaitingType
  <1> HIDE DEF new
  <1>3. QED BY <1>2, AgentTimesOut

-----------------------------------------------------------------------------
(* The agent's loop.                                                       *)

LEMMA HeartbeatKeepsInv ==
  ASSUME FleetInv, [FleetNext]_fleetVars, NEW n \in Nodes, NEW available \in BOOLEAN,
         Heartbeat(n, available)
  PROVE  FleetInv'
  <1>1. agent[n] \in AgentState /\ agent[n].phase = "heartbeat"
    BY FleetTypes DEF Heartbeat, At
  <1>2. CASE RecordHeartbeat(n, available) /\ Goto(n, "poll") /\ Calm /\ UNCHANGED work
    <2> DEFINE new == [agent[n] EXCEPT !.phase = "poll"]
    <2>1. new \in AgentState /\ new.phase = "poll" /\ "poll" \notin Busy
      BY <1>1 DEF AgentState, Phases, Busy, Unbegun
    <2>2. agent' = [agent EXCEPT ![n] = new]
      BY <1>2, FleetTypes DEF Goto
    <2>3. UNCHANGED <<task, work>>
      BY <1>2 DEF RecordHeartbeat
    <2> HIDE DEF new
    <2>4. QED BY <1>2, <2>1, <2>2, <2>3, AgentGoesOn
  <1>3. CASE /\ TimesOut("heartbeat", {[node |-> n, kind |-> "heartbeat", available |-> available]})
             /\ NextIteration(n)
    <2> DEFINE requests == {[node |-> n, kind |-> "heartbeat", available |-> available]}
    <2>1. requests \subseteq Request /\ \A r \in requests : Sendable(n, r)
      BY DEF Request, Sendable
    <2>2. /\ late' = late \union requests /\ losses < MaxLosses /\ losses' = losses + 1
          /\ UNCHANGED <<vars, work, kills>>
      BY <1>3 DEF TimesOut
    <2> HIDE DEF requests
    <2>3. QED BY <1>3, <2>1, <2>2, AgentGivesUp
  <1>4. QED BY <1>2, <1>3 DEF Heartbeat

LEMMA PollTaskKeepsInv ==
  ASSUME FleetInv, [FleetNext]_fleetVars, NEW n \in Nodes, NEW t \in TaskIds, PollTask(n, t)
  PROVE  FleetInv'
  <1> DEFINE new == [agent[n] EXCEPT !.phase = "validate", !.task = t]
  <1>1. new \in AgentState /\ new.phase = "validate" /\ new.task = t
    BY FleetTypes DEF AgentState, Phases
  <1>2. /\ agent' = [agent EXCEPT ![n] = new] /\ UNCHANGED <<late, losses, kills, work>>
        /\ ClaimNext(n, t)
    BY FleetTypes DEF PollTask, Calm
  <1> HIDE DEF new
  <1>3. /\ Exists(t) /\ task[t].node = n /\ task[t].status = "pending"
        /\ task'[t].status = "assigned" /\ task'[t].node = n
        /\ \A u \in TaskIds : u # t => task'[u] = task[u]
        /\ \A u \in TaskIds : Exists(u) => Exists(u)' /\ task'[u].node = task[u].node
    BY <1>2, ClaimEffect
  <1>4. /\ agent'[n] = new /\ agent' \in [Nodes -> AgentState]
        /\ \A m \in Nodes : m # n => agent'[m] = agent[m]
    BY <1>1, <1>2, FleetTypes
  <1>5. \A m \in Nodes : agent[m].phase \in Busy => agent[m].task # t
    BY <1>3, BusyAgent
  <1>6. work[t].begun = 0
    BY <1>3 DEF FleetInv, WorkAcknowledged
  <1>7. Linked' /\ TypeOK' /\ FleetTypeOK'
    BY <1>2, <1>4, FleetTypes, FleetKeepsLinked DEF FleetTypeOK
  <1>8. ASSUME NEW m \in Nodes, agent'[m].phase \in Busy
        PROVE  LET u == agent'[m].task
               IN  /\ u \in TaskIds /\ task'[u].status # "absent"
                   /\ task'[u].node = m /\ task'[u].status # "pending"
                   /\ agent'[m].phase \in Unbegun => work[u].begun = 0
                   /\ agent'[m].phase = "execute" => work[u].begun = 1 /\ task'[u].status = "running"
                   /\ agent'[m].phase = "terminal" => Truthful(u, agent'[m].verdict)
    <2>1. CASE m = n
      BY <1>1, <1>3, <1>4, <1>6, <2>1
    <2>2. CASE m # n
      BY <1>3, <1>4, <1>5, <1>8, <2>2 DEF FleetInv, AgentsHoldTasks, At, Exists
    <2>3. QED BY <2>1, <2>2
  <1>9. AgentsHoldTasks'
    BY <1>2, <1>8 DEF AgentsHoldTasks, At, Truthful, Exists
  <1>10. ASSUME NEW r \in late, r.kind = "status"
         PROVE  /\ Exists(r.task)' /\ task'[r.task].status # "pending"
                /\ r.status = "running" \/ (r.status \in Verdicts /\ Truthful(r.task, r.status))
                /\ \A m \in Nodes :
                     agent'[m].phase \in Busy /\ agent'[m].task = r.task => agent'[m].phase = "terminal"
    <2>1. /\ Exists(r.task) /\ task[r.task].status # "pending" /\ r.task \in TaskIds
          /\ r.status = "running" \/ (r.status \in Verdicts /\ Truthful(r.task, r.status))
          /\ \A m \in Nodes :
               agent[m].phase \in Busy /\ agent[m].task = r.task => agent[m].phase = "terminal"
      BY <1>10, StatusRequestType DEF FleetInv, LateReportsAreTrue, At
    <2>2. r.task # t
      BY <1>3, <2>1
    <2>3. QED BY <1>1, <1>3, <1>4, <2>1, <2>2
  <1>11. LateReportsAreTrue'
    BY <1>2, <1>10 DEF LateReportsAreTrue, At, Truthful
  <1>12. WorkAcknowledged' /\ HostWorkAtMostOnce' /\ HistoryIsTruthful'
    BY <1>2, <1>3, WorkKept
  <1>13. QED BY <1>7, <1>9, <1>11, <1>12 DEF FleetInv

(* The agent drops its task, or has none.                                  *)
LEMMA IterationEnds ==
  ASSUME FleetInv, [FleetNext]_fleetVars, NEW n \in Nodes, NextIteration(n),
         UNCHANGED <<vars, work>>, Calm
  PROVE  FleetInv'
  <1> DEFINE new == Waiting
  <1>1. new \in AgentState /\ new.phase \notin Busy /\ agent' = [agent EXCEPT ![n] = new]
    BY WaitingType DEF NextIteration
  <1>2. UNCHANGED <<task, work>>
    BY DEF vars
  <1> HIDE DEF new
  <1>3. QED BY <1>1, <1>2, AgentGoesOn

LEMMA PollKeepsInv ==
  ASSUME FleetInv, [FleetNext]_fleetVars, NEW n \in Nodes, PollNothing(n) \/ PollTimesOut(n)
  PROVE  FleetInv'
  <1>1. CASE PollNothing(n)
    BY <1>1, IterationEnds DEF PollNothing
  <1>2. CASE PollTimesOut(n)
    <2> DEFINE requests == {[node |-> n, kind |-> "poll"]}
    <2>1. requests \subseteq Request /\ \A r \in requests : Sendable(n, r)
      BY DEF Request, Sendable
    <2>2. /\ late' = late \union requests /\ losses < MaxLosses /\ losses' = losses + 1
          /\ UNCHANGED <<vars, work, kills>> /\ NextIteration(n)
      BY <1>2 DEF PollTimesOut, TimesOut
    <2> HIDE DEF requests
    <2>3. QED BY <2>1, <2>2, AgentGivesUp
  <1>3. QED BY <1>1, <1>2

LEMMA ValidateKeepsInv ==
  ASSUME FleetInv, [FleetNext]_fleetVars, NEW n \in Nodes, NEW accepted \in BOOLEAN,
         Validate(n, accepted)
  PROVE  FleetInv'
  <1> DEFINE new == [agent[n] EXCEPT !.phase = IF accepted THEN "start_log" ELSE "terminal",
                                     !.verdict = "failed"]
  <1>1. agent[n].phase = "validate" /\ agent[n] \in AgentState
    BY FleetTypes DEF Validate, At
  <1>2. /\ new \in AgentState /\ new.phase \in {"start_log", "terminal"}
        /\ new.task = agent[n].task /\ new.verdict = "failed"
    BY <1>1 DEF AgentState, Phases, Verdicts
  <1>3. /\ agent' = [agent EXCEPT ![n] = new] /\ UNCHANGED <<task, work>> /\ Calm
    BY FleetTypes DEF Validate, vars
  <1>4. Truthful(agent[n].task, "failed")
    BY <1>1 DEF FleetInv, AgentsHoldTasks, WorkAcknowledged, Truthful, Busy, Unbegun
  <1>5. agent[n].phase \in Busy /\ agent[n].phase \in Unbegun /\ agent[n].phase # "terminal"
    BY <1>1 DEF Busy, Unbegun
  <1> HIDE DEF new
  <1>6. QED BY <1>2, <1>3, <1>4, <1>5, AgentGoesOn

LEMMA AppendStartLogKeepsInv ==
  ASSUME FleetInv, [FleetNext]_fleetVars, NEW n \in Nodes, AppendStartLog(n)
  PROVE  FleetInv'
  <1>1. agent[n].phase = "start_log" /\ agent[n] \in AgentState
    BY FleetTypes DEF AppendStartLog, At
  <1>2. CASE Goto(n, "running") /\ Calm /\ UNCHANGED <<vars, work>>
    <2> DEFINE new == [agent[n] EXCEPT !.phase = "running"]
    <2>1. new \in AgentState /\ new.phase = "running" /\ new.task = agent[n].task
      BY <1>1 DEF AgentState, Phases
    <2>2. agent' = [agent EXCEPT ![n] = new] /\ UNCHANGED <<task, work>>
      BY <1>2, FleetTypes DEF Goto, vars
    <2>3. agent[n].phase \in Busy /\ agent[n].phase \in Unbegun /\ agent[n].phase # "terminal"
      BY <1>1 DEF Busy, Unbegun
    <2> HIDE DEF new
    <2>4. QED BY <1>2, <2>1, <2>2, <2>3, AgentGoesOn
  <1>3. CASE NextIteration(n) /\ Calm /\ UNCHANGED <<vars, work>>
    BY <1>3, IterationEnds
  <1>4. CASE TimesOut("start_log", {}) /\ NextIteration(n)
    <2> DEFINE requests == {}
    <2>1. requests \subseteq Request /\ \A r \in requests : Sendable(n, r)
      OBVIOUS
    <2>2. /\ late' = late \union requests /\ losses < MaxLosses /\ losses' = losses + 1
          /\ UNCHANGED <<vars, work, kills>>
      BY <1>4 DEF TimesOut
    <2> HIDE DEF requests
    <2>3. QED BY <1>4, <2>1, <2>2, AgentGivesUp
  <1>5. QED BY <1>2, <1>3, <1>4 DEF AppendStartLog

(* The agent reports what it says, and the report times out.               *)
LEMMA ReportIsSendable ==
  ASSUME FleetInv, NEW n \in Nodes, agent[n].phase \in Busy, NEW status \in TaskStatuses,
         status = "running" \/ (status \in Verdicts /\ Truthful(agent[n].task, status))
  PROVE  /\ StatusRequest(n, status) \subseteq Request
         /\ \A r \in StatusRequest(n, status) : Sendable(n, r)
  BY BusyAgent DEF StatusRequest, Request, Sendable

(* Another agent than n is not affected by what n reports of its task.     *)
LEMMA OthersUndisturbed ==
  ASSUME FleetInv, NEW n \in Nodes, NEW t \in TaskIds, agent[n].phase \in Busy, t = agent[n].task,
         \A u \in TaskIds : u # t => task'[u] = task[u] /\ work'[u] = work[u],
         NEW m \in Nodes, m # n, agent[m].phase \in Busy
  PROVE  LET u == agent[m].task
         IN  /\ u \in TaskIds /\ task'[u].status # "absent"
             /\ task'[u].node = m /\ task'[u].status # "pending"
             /\ agent[m].phase \in Unbegun => work'[u].begun = 0
             /\ agent[m].phase = "execute" => work'[u].begun = 1 /\ task'[u].status = "running"
             /\ agent[m].phase = "terminal" =>
                  IF agent[m].verdict = "succeeded" THEN work'[u].result = "succeeded"
                  ELSE work'[u].result \in {"none", "failed"}
  <1>1. agent[m].task # t /\ agent[m].task \in TaskIds
    BY BusyAgent
  <1>2. QED BY <1>1 DEF FleetInv, AgentsHoldTasks, At, Exists, Truthful

LEMMA ReportRunningKeepsInv ==
  ASSUME FleetInv, [FleetNext]_fleetVars, NEW n \in Nodes, ReportRunning(n)
  PROVE  FleetInv'
  <1> DEFINE t == agent[n].task
  <1>1. /\ agent[n].phase = "running" /\ agent[n].phase \in Busy
        /\ agent[n].phase # "terminal" /\ agent[n] \in AgentState
    BY FleetTypes DEF ReportRunning, At, Busy, Unbegun
  <1>2. /\ t \in TaskIds /\ Exists(t) /\ task[t].node = n /\ task[t].status # "pending"
        /\ work[t].begun = 0
    BY <1>1 DEF FleetInv, AgentsHoldTasks, Unbegun
  <1>3. CASE UpdateStatus(n, t, "running") /\ Goto(n, "execute") /\ Calm
               /\ work' = [work EXCEPT ![t].begun = @ + 1, ![t].result = "under_way"]
    <2>1. /\ task[t].status = "assigned" /\ task'[t].status = "running" /\ task'[t].node = n
          /\ \A u \in TaskIds : u # t => task'[u] = task[u]
          /\ \A u \in TaskIds : Exists(u) => Exists(u)' /\ task'[u].node = task[u].node
      <3>1. "running" \in TaskStatuses /\ UpdateStatus(n, t, "running")
        BY <1>3 DEF TaskStatuses, Active
      <3>2. ValidAgentTransition(task[t].status, "running")
        BY <1>2, <3>1, ReportEffect
      <3>3. QED BY <1>2, <3>1, <3>2, ReportEffect DEF ValidAgentTransition
    <2>2. /\ work' \in [TaskIds -> HostWork]
          /\ work'[t].begun = 1 /\ work'[t].result = "under_way"
          /\ \A u \in TaskIds : u # t => work'[u] = work[u]
      BY <1>2, <1>3, FleetTypes DEF HostWork
    <2> DEFINE new == [agent[n] EXCEPT !.phase = "execute"]
    <2>3. /\ new \in AgentState /\ new.phase = "execute" /\ new.task = t
          /\ agent' = [agent EXCEPT ![n] = new]
      BY <1>1, <1>3, FleetTypes DEF AgentState, Phases, Goto
    <2> HIDE DEF new
    <2>4. /\ agent'[n] = new /\ agent' \in [Nodes -> AgentState]
          /\ \A m \in Nodes : m # n => agent'[m] = agent[m]
      BY <2>3, FleetTypes
    <2>5. Linked' /\ TypeOK' /\ FleetTypeOK'
      BY <1>3, <2>2, <2>4, FleetTypes, FleetKeepsLinked DEF FleetTypeOK, Calm
    <2>6. AgentsHoldTasks'
      <3>1. ASSUME NEW m \in Nodes, agent'[m].phase \in Busy
            PROVE  LET u == agent'[m].task
                   IN  /\ u \in TaskIds /\ task'[u].status # "absent"
                       /\ task'[u].node = m /\ task'[u].status # "pending"
                       /\ agent'[m].phase \in Unbegun => work'[u].begun = 0
                       /\ agent'[m].phase = "execute" =>
                            work'[u].begun = 1 /\ task'[u].status = "running"
                       /\ agent'[m].phase = "terminal" =>
                            IF agent'[m].verdict = "succeeded" THEN work'[u].result = "succeeded"
                            ELSE work'[u].result \in {"none", "failed"}
        <4>1. CASE m = n
          BY <1>2, <2>1, <2>2, <2>3, <2>4, <4>1 DEF Unbegun
        <4>2. CASE m # n
          <5>1. agent'[m] = agent[m] /\ agent[m].phase \in Busy
            BY <2>4, <3>1, <4>2
          <5>2. \A u \in TaskIds : u # t => task'[u] = task[u] /\ work'[u] = work[u]
            BY <2>1, <2>2
          <5>3. QED BY <1>1, <1>2, <4>2, <5>1, <5>2, OthersUndisturbed
        <4>3. QED BY <4>1, <4>2
      <3>2. QED BY <3>1 DEF AgentsHoldTasks, At, Truthful, Exists
    <2>7. LateReportsAreTrue'
      <3>1. ASSUME NEW r \in late, r.kind = "status"
            PROVE  /\ task'[r.task].status # "absent" /\ task'[r.task].status # "pending"
                   /\ \/ r.status = "running"
                      \/ /\ r.status \in Verdicts
                         /\ IF r.status = "succeeded" THEN work'[r.task].result = "succeeded"
                            ELSE work'[r.task].result \in {"none", "failed"}
                   /\ \A m \in Nodes :
                        agent'[m].phase \in Busy /\ agent'[m].task = r.task =>
                          agent'[m].phase = "terminal"
        <4>1. /\ Exists(r.task) /\ task[r.task].status # "pending" /\ r.task \in TaskIds
              /\ r.status = "running" \/ (r.status \in Verdicts /\ Truthful(r.task, r.status))
              /\ \A m \in Nodes :
                   agent[m].phase \in Busy /\ agent[m].task = r.task => agent[m].phase = "terminal"
          BY <3>1, StatusRequestType DEF FleetInv, LateReportsAreTrue, At
        <4>2. r.task # t
          BY <1>1, <4>1
        <4>3. \A m \in Nodes :
                agent'[m].phase \in Busy /\ agent'[m].task = r.task => agent'[m].phase = "terminal"
          BY <2>3, <2>4, <4>1, <4>2
        <4>4. QED BY <2>1, <2>2, <4>1, <4>2, <4>3 DEF Truthful, Exists
      <3>2. late' = late
        BY <1>3 DEF Calm
      <3>3. QED BY <3>1, <3>2 DEF LateReportsAreTrue, At, Truthful, Exists
    <2>8. WorkAcknowledged' /\ HostWorkAtMostOnce' /\ HistoryIsTruthful'
      <3>1. WorkAcknowledged'
        BY <2>1, <2>2 DEF FleetInv, WorkAcknowledged
      <3>2. HostWorkAtMostOnce'
        BY <2>2 DEF FleetInv, HostWorkAtMostOnce
      <3>3. HistoryIsTruthful'
        BY <2>1, <2>2 DEF FleetInv, HistoryIsTruthful
      <3>4. QED BY <3>1, <3>2, <3>3
    <2>9. QED BY <2>5, <2>6, <2>7, <2>8 DEF FleetInv
  <1>4. CASE NextIteration(n) /\ Calm /\ UNCHANGED <<vars, work>>
    BY <1>4, IterationEnds
  <1>5. CASE TimesOut("running", StatusRequest(n, "running")) /\ NextIteration(n)
    <2> DEFINE requests == StatusRequest(n, "running")
    <2>1. requests \subseteq Request /\ \A r \in requests : Sendable(n, r)
      BY <1>1, ReportIsSendable DEF TaskStatuses, Active
    <2>2. /\ late' = late \union requests /\ losses < MaxLosses /\ losses' = losses + 1
          /\ UNCHANGED <<vars, work, kills>>
      BY <1>5 DEF TimesOut
    <2> HIDE DEF requests
    <2>3. QED BY <1>5, <2>1, <2>2, AgentGivesUp
  <1>6. QED BY <1>3, <1>4, <1>5 DEF ReportRunning

LEMMA FinishWorkKeepsInv ==
  ASSUME FleetInv, [FleetNext]_fleetVars, NEW n \in Nodes,
         NEW verdict \in Verdicts, NEW fits \in BOOLEAN, FinishWork(n, verdict, fits)
  PROVE  FleetInv'
  <1> DEFINE t == agent[n].task
             new == [agent[n] EXCEPT !.phase = "terminal", !.verdict = verdict, !.fits = fits]
  <1>1. /\ agent[n].phase = "execute" /\ agent[n].phase \in Busy
        /\ agent[n].phase # "terminal" /\ agent[n] \in AgentState
    BY FleetTypes DEF FinishWork, At, Busy
  <1>2. /\ t \in TaskIds /\ Exists(t) /\ task[t].node = n
        /\ work[t].begun = 1 /\ task[t].status = "running"
    BY <1>1 DEF FleetInv, AgentsHoldTasks, At
  <1>3. /\ new \in AgentState /\ new.phase = "terminal" /\ new.task = t /\ new.verdict = verdict
        /\ agent' = [agent EXCEPT ![n] = new]
    BY <1>1, FleetTypes DEF AgentState, Phases, FinishWork
  <1>4. /\ work' \in [TaskIds -> HostWork]
        /\ work'[t].begun = 1 /\ work'[t].result = verdict
        /\ \A u \in TaskIds : u # t => work'[u] = work[u]
    BY <1>2, FleetTypes DEF FinishWork, HostWork
  <1>5. UNCHANGED <<task, late, losses, kills>>
    BY DEF FinishWork, Calm, vars
  <1> HIDE DEF new
  <1>6. /\ agent'[n] = new /\ agent' \in [Nodes -> AgentState]
        /\ \A m \in Nodes : m # n => agent'[m] = agent[m]
    BY <1>3, FleetTypes
  <1>7. Linked' /\ TypeOK' /\ FleetTypeOK'
    BY <1>4, <1>5, <1>6, FleetTypes, FleetKeepsLinked DEF FleetTypeOK
  <1>8. AgentsHoldTasks'
    <2>1. ASSUME NEW m \in Nodes, agent'[m].phase \in Busy
          PROVE  LET u == agent'[m].task
                 IN  /\ u \in TaskIds /\ task'[u].status # "absent"
                     /\ task'[u].node = m /\ task'[u].status # "pending"
                     /\ agent'[m].phase \in Unbegun => work'[u].begun = 0
                     /\ agent'[m].phase = "execute" =>
                          work'[u].begun = 1 /\ task'[u].status = "running"
                     /\ agent'[m].phase = "terminal" =>
                          IF agent'[m].verdict = "succeeded" THEN work'[u].result = "succeeded"
                          ELSE work'[u].result \in {"none", "failed"}
      <3>1. CASE m = n
        BY <1>2, <1>3, <1>4, <1>5, <1>6, <3>1 DEF Unbegun, Verdicts, Exists
      <3>2. CASE m # n
        <4>1. agent'[m] = agent[m] /\ agent[m].phase \in Busy
          BY <1>6, <2>1, <3>2
        <4>2. \A u \in TaskIds : u # t => task'[u] = task[u] /\ work'[u] = work[u]
          BY <1>4, <1>5
        <4>3. QED BY <1>1, <1>2, <3>2, <4>1, <4>2, OthersUndisturbed
      <3>3. QED BY <3>1, <3>2
    <2>2. QED BY <2>1 DEF AgentsHoldTasks, At, Truthful, Exists
  <1>9. LateReportsAreTrue'
    <2>1. ASSUME NEW r \in late, r.kind = "status"
          PROVE  /\ task'[r.task].status # "absent" /\ task'[r.task].status # "pending"
                 /\ \/ r.status = "running"
                    \/ /\ r.status \in Verdicts
                       /\ IF r.status = "succeeded" THEN work'[r.task].result = "succeeded"
                          ELSE work'[r.task].result \in {"none", "failed"}
                 /\ \A m \in Nodes :
                      agent'[m].phase \in Busy /\ agent'[m].task = r.task =>
                        agent'[m].phase = "terminal"
      <3>1. /\ Exists(r.task) /\ task[r.task].status # "pending" /\ r.task \in TaskIds
            /\ r.status = "running" \/ (r.status \in Verdicts /\ Truthful(r.task, r.status))
            /\ \A m \in Nodes :
                 agent[m].phase \in Busy /\ agent[m].task = r.task => agent[m].phase = "terminal"
        BY <2>1, StatusRequestType DEF FleetInv, LateReportsAreTrue, At
      <3>2. r.task # t
        BY <1>1, <3>1
      <3>3. \A m \in Nodes :
              agent'[m].phase \in Busy /\ agent'[m].task = r.task => agent'[m].phase = "terminal"
        BY <1>3, <1>6, <3>1, <3>2
      <3>4. QED BY <1>4, <1>5, <3>1, <3>2, <3>3 DEF Truthful, Exists
    <2>2. QED BY <1>5, <2>1 DEF LateReportsAreTrue, At, Truthful, Exists
  <1>10. WorkAcknowledged' /\ HostWorkAtMostOnce' /\ HistoryIsTruthful'
    <2>1. WorkAcknowledged'
      BY <1>2, <1>4, <1>5 DEF FleetInv, WorkAcknowledged
    <2>2. HostWorkAtMostOnce'
      BY <1>4 DEF FleetInv, HostWorkAtMostOnce
    <2>3. HistoryIsTruthful'
      BY <1>2, <1>4, <1>5 DEF FleetInv, HistoryIsTruthful
    <2>4. QED BY <2>1, <2>2, <2>3
  <1>11. QED BY <1>7, <1>8, <1>9, <1>10 DEF FleetInv

LEMMA ReportTerminalKeepsInv ==
  ASSUME FleetInv, [FleetNext]_fleetVars, NEW n \in Nodes, ReportTerminal(n)
  PROVE  FleetInv'
  <1> DEFINE t == agent[n].task
             verdict == agent[n].verdict
  <1>1. agent[n].phase = "terminal" /\ agent[n].phase \in Busy /\ agent[n] \in AgentState
    BY FleetTypes DEF ReportTerminal, At, Busy
  <1>2. /\ t \in TaskIds /\ Exists(t) /\ task[t].node = n /\ task[t].status # "pending"
        /\ Truthful(t, verdict) /\ verdict \in Verdicts /\ verdict \in TaskStatuses
    BY <1>1 DEF FleetInv, AgentsHoldTasks, At, AgentState, Verdicts, TaskStatuses, Terminal,
                Unsuccessful
  <1>3. ASSUME RetryTerminal(n)
        PROVE  \/ NextIteration(n)
               \/ \E new \in AgentState :
                    /\ agent' = [agent EXCEPT ![n] = new]
                    /\ new.phase = "terminal" /\ new.task = t /\ new.verdict = verdict
    <2> DEFINE new == [agent[n] EXCEPT !.attempt = @ + 1]
    <2>1. CASE agent[n].attempt < MaxAttempts
      <3>1. agent[n].attempt + 1 \in 1 .. MaxAttempts
        BY <1>1, <2>1, FaultAssumption DEF AgentState
      <3>2. /\ new \in AgentState /\ new.phase = "terminal" /\ new.task = t
            /\ new.verdict = verdict
        BY <1>1, <3>1 DEF AgentState
      <3>3. agent' = [agent EXCEPT ![n] = new]
        BY <1>3, <2>1, FleetTypes DEF RetryTerminal
      <3> HIDE DEF new
      <3>4. QED BY <3>2, <3>3
    <2>2. CASE ~(agent[n].attempt < MaxAttempts)
      BY <1>3, <2>2 DEF RetryTerminal
    <2>3. QED BY <2>1, <2>2
  <1>4. CASE UpdateStatus(n, t, verdict) /\ NextIteration(n) /\ Calm /\ UNCHANGED work
    <2>1. /\ task'[t].status = verdict
          /\ \A u \in TaskIds : u # t => task'[u] = task[u]
          /\ \A u \in TaskIds : Exists(u) => Exists(u)' /\ task'[u].node = task[u].node
      BY <1>2, <1>4, ReportEffect
    <2>2. agent' = [agent EXCEPT ![n] = Waiting] /\ UNCHANGED <<late, losses, kills, work>>
      BY <1>4 DEF NextIteration, Calm
    <2>3. /\ agent'[n].phase \notin Busy /\ agent' \in [Nodes -> AgentState]
          /\ \A m \in Nodes : m # n => agent'[m] = agent[m]
      BY <2>2, WaitingType, FleetTypes
    <2>4. Linked' /\ TypeOK' /\ FleetTypeOK'
      BY <2>2, <2>3, FleetTypes, FleetKeepsLinked DEF FleetTypeOK
    <2>5. AgentsHoldTasks'
      <3>1. ASSUME NEW m \in Nodes, agent'[m].phase \in Busy
            PROVE  LET u == agent'[m].task
                   IN  /\ u \in TaskIds /\ task'[u].status # "absent"
                       /\ task'[u].node = m /\ task'[u].status # "pending"
                       /\ agent'[m].phase \in Unbegun => work'[u].begun = 0
                       /\ agent'[m].phase = "execute" =>
                            work'[u].begun = 1 /\ task'[u].status = "running"
                       /\ agent'[m].phase = "terminal" =>
                            IF agent'[m].verdict = "succeeded" THEN work'[u].result = "succeeded"
                            ELSE work'[u].result \in {"none", "failed"}
        <4>1. m # n /\ agent'[m] = agent[m] /\ agent[m].phase \in Busy
          BY <2>3, <3>1
        <4>2. \A u \in TaskIds : u # t => task'[u] = task[u] /\ work'[u] = work[u]
          BY <2>1, <2>2
        <4>3. QED BY <1>1, <1>2, <4>1, <4>2, OthersUndisturbed
      <3>2. QED BY <3>1 DEF AgentsHoldTasks, At, Truthful, Exists
    <2>6. LateReportsAreTrue'
      <3>1. ASSUME NEW r \in late, r.kind = "status"
            PROVE  /\ task'[r.task].status # "absent" /\ task'[r.task].status # "pending"
                   /\ r.status = "running" \/ (r.status \in Verdicts /\ Truthful(r.task, r.status))
                   /\ \A m \in Nodes :
                        agent'[m].phase \in Busy /\ agent'[m].task = r.task =>
                          agent'[m].phase = "terminal"
        <4>1. /\ Exists(r.task) /\ task[r.task].status # "pending" /\ r.task \in TaskIds
              /\ r.status = "running" \/ (r.status \in Verdicts /\ Truthful(r.task, r.status))
              /\ \A m \in Nodes :
                   agent[m].phase \in Busy /\ agent[m].task = r.task => agent[m].phase = "terminal"
          BY <3>1, StatusRequestType DEF FleetInv, LateReportsAreTrue, At
        <4>2. \A m \in Nodes :
                agent'[m].phase \in Busy /\ agent'[m].task = r.task => agent'[m].phase = "terminal"
          BY <2>3, <4>1
        <4>3. QED BY <1>2, <2>1, <4>1, <4>2 DEF Exists, Verdicts
      <3>2. QED BY <2>2, <3>1 DEF LateReportsAreTrue, At, Truthful, Exists
    <2>7. WorkAcknowledged' /\ HostWorkAtMostOnce' /\ HistoryIsTruthful'
      BY <1>2, <2>1, <2>2, WorkKept
    <2>8. QED BY <2>4, <2>5, <2>6, <2>7 DEF FleetInv
  <1>5. CASE RetryTerminal(n) /\ Calm /\ UNCHANGED <<vars, work>>
    <2>1. CASE NextIteration(n)
      BY <1>5, <2>1, IterationEnds
    <2>2. ASSUME NEW new \in AgentState, agent' = [agent EXCEPT ![n] = new],
                 new.phase = "terminal" /\ new.task = t /\ new.verdict = verdict
          PROVE  FleetInv'
      <3>1. "terminal" \notin Unbegun
        BY DEF Unbegun
      <3>2. UNCHANGED <<task, work>>
        BY <1>5 DEF vars
      <3>3. QED BY <1>1, <1>2, <1>5, <2>2, <3>1, <3>2, AgentGoesOn
    <2>3. QED BY <1>3, <1>5, <2>1, <2>2
  <1>6. CASE /\ TimesOut("terminal", IF agent[n].fits THEN StatusRequest(n, verdict) ELSE {})
             /\ RetryTerminal(n)
    <2> DEFINE requests == IF agent[n].fits THEN StatusRequest(n, verdict) ELSE {}
    <2>1. requests \subseteq Request /\ \A r \in requests : Sendable(n, r)
      BY <1>1, <1>2, ReportIsSendable
    <2>2. /\ late' = late \union requests /\ losses < MaxLosses /\ losses' = losses + 1
          /\ UNCHANGED <<vars, work, kills>>
      BY <1>6 DEF TimesOut
    <2> HIDE DEF requests
    <2>3. CASE NextIteration(n)
      BY <2>1, <2>2, <2>3, AgentGivesUp
    <2>4. ASSUME NEW new \in AgentState, agent' = [agent EXCEPT ![n] = new],
                 new.phase = "terminal" /\ new.task = t /\ new.verdict = verdict
          PROVE  FleetInv'
      BY <1>1, <2>1, <2>2, <2>4, AgentTimesOut
    <2>5. QED BY <1>3, <1>6, <2>3, <2>4
  <1>7. QED BY <1>4, <1>5, <1>6 DEF ReportTerminal

LEMMA KilledKeepsInv ==
  ASSUME FleetInv, [FleetNext]_fleetVars, NEW n \in Nodes, Killed(n)
  PROVE  FleetInv'
  <1> DEFINE new == Waiting
  <1>1. new \in AgentState /\ new.phase \notin Busy /\ agent' = [agent EXCEPT ![n] = new]
    BY WaitingType DEF Killed, NextIteration
  <1>2. /\ UNCHANGED <<task, work>> /\ late' \subseteq Request /\ late' = late
        /\ losses' \in 0 .. MaxLosses /\ kills' \in 0 .. MaxKills
    BY FleetTypes DEF Killed, vars
  <1>3. Linked' /\ TypeOK'
    BY FleetKeepsLinked
  <1> HIDE DEF new
  <1>4. QED BY <1>1, <1>2, <1>3, AgentMoves

-----------------------------------------------------------------------------
(* The master by itself, and with requests nobody waits for.               *)

LEMMA ControlKeepsInv ==
  ASSUME FleetInv, [FleetNext]_fleetVars, Control
  PROVE  FleetInv'
  <1>1. late' \subseteq late /\ UNCHANGED <<agent, work, losses, kills>>
    BY DEF Control, agentVars
  <1>2. Linked' /\ TypeOK'
    BY FleetKeepsLinked
  <1>3. QED BY <1>1, <1>2, ControlEffect, MasterMoves

LEMMA LateArrivalKeepsInv ==
  ASSUME FleetInv, [FleetNext]_fleetVars, NEW r \in late, LateArrival(r)
  PROVE  FleetInv'
  <1>1. /\ late' \subseteq late /\ UNCHANGED <<agent, work, losses, kills>> /\ Handle(r)
        /\ r \in Request /\ Linked' /\ TypeOK'
    BY FleetTypes, FleetKeepsLinked DEF LateArrival
  <1>2. CASE r.kind = "heartbeat"
    <2>1. UNCHANGED task
      BY <1>1, <1>2 DEF Handle, RecordHeartbeat
    <2>2. QED BY <1>1, <2>1, MasterMoves DEF Exists
  <1>3. CASE r.kind = "poll"
    <2>1. r.node \in Nodes
      BY <1>1, <1>3 DEF Request
    <2>2. PICK t \in TaskIds : ClaimNext(r.node, t)
      BY <1>1, <1>3 DEF Handle
    <2>3. \A u \in TaskIds :
            /\ Exists(u) => Exists(u)' /\ task'[u].node = task[u].node
            /\ \/ task'[u].status = task[u].status
               \/ task[u].status = "pending" /\ task'[u].status = "assigned"
      BY <2>1, <2>2, ClaimEffect
    <2>4. QED BY <1>1, <2>3, MasterMoves
  <1>4. CASE r.kind = "status"
    <2> DEFINE t == r.task
    <2>1. /\ r.node \in Nodes /\ t \in TaskIds /\ r.status \in TaskStatuses
          /\ UpdateStatus(r.node, t, r.status)
      BY <1>1, <1>4, StatusRequestType DEF Handle
    <2>2. /\ task[t].status # "pending"
          /\ r.status = "running" \/ (r.status \in Verdicts /\ Truthful(t, r.status))
          /\ \A n \in Nodes : agent[n].phase \in Busy /\ agent[n].task = t => At(n, "terminal")
      BY <1>4 DEF FleetInv, LateReportsAreTrue
    <2>3. /\ ValidAgentTransition(task[t].status, r.status) /\ task'[t].status = r.status
          /\ \A u \in TaskIds : u # t => task'[u] = task[u]
          /\ \A u \in TaskIds : Exists(u) => Exists(u)' /\ task'[u].node = task[u].node
      BY <2>1, ReportEffect
    <2>4. \A n \in Nodes : At(n, "execute") => agent[n].task # t
      BY <2>2 DEF At, Busy
    <2>5. r.status = "running" => task[t].status = "assigned"
      BY <2>3 DEF ValidAgentTransition
    <2>6. \A u \in TaskIds :
            \/ task'[u].status = task[u].status
            \/ task[u].status \in {"pending", "assigned"} /\ task'[u].status = "running"
            \/ /\ task'[u].status \in Verdicts /\ Truthful(u, task'[u].status)
               /\ \A n \in Nodes : At(n, "execute") => agent[n].task # u
      BY <2>2, <2>3, <2>4, <2>5
    <2>7. QED BY <1>1, <2>3, <2>6, MasterMoves
  <1>5. QED BY <1>1, <1>2, <1>3, <1>4 DEF Request

LEMMA LateLossKeepsInv ==
  ASSUME FleetInv, [FleetNext]_fleetVars, NEW r \in late, LateLoss(r)
  PROVE  FleetInv'
  <1>1. late' \subseteq late /\ UNCHANGED <<task, agent, work, losses, kills>>
    BY DEF LateLoss, vars
  <1>2. Linked' /\ TypeOK'
    BY FleetKeepsLinked
  <1>3. QED BY <1>1, <1>2, MasterMoves DEF Exists

-----------------------------------------------------------------------------
(* The invariant, and what follows from it.                                *)

LEMMA FleetInvInit == FleetInit => FleetInv
  <1> SUFFICES ASSUME FleetInit PROVE FleetInv
    OBVIOUS
  <1>1. Linked
    BY LinkedInit DEF FleetInit
  <1>2. /\ agent \in [Nodes -> AgentState] /\ \A n \in Nodes : agent[n].phase \notin Busy
        /\ late = {}
    BY WaitingType DEF FleetInit
  <1>3. /\ work \in [TaskIds -> HostWork]
        /\ \A t \in TaskIds : work[t].begun = 0 /\ work[t].result = "none"
    BY DEF FleetInit, HostWork
  <1>4. losses \in 0 .. MaxLosses /\ kills \in 0 .. MaxKills
    BY FaultAssumption DEF FleetInit
  <1>5. FleetTypeOK
    BY <1>1, <1>2, <1>3, <1>4 DEF FleetTypeOK, Linked
  <1>6. AgentsHoldTasks /\ LateReportsAreTrue
    BY <1>2 DEF AgentsHoldTasks, LateReportsAreTrue
  <1>7. WorkAcknowledged /\ HostWorkAtMostOnce
    BY <1>3 DEF WorkAcknowledged, HostWorkAtMostOnce
  <1>8. \A t \in TaskIds : task[t].status = "absent"
    BY DEF FleetInit, Init, AbsentTask
  <1>9. HistoryIsTruthful
    BY <1>8 DEF HistoryIsTruthful
  <1>10. QED BY <1>1, <1>5, <1>6, <1>7, <1>9 DEF FleetInv

LEMMA FleetInvStep == FleetInv /\ [FleetNext]_fleetVars => FleetInv'
  <1> SUFFICES ASSUME FleetInv, [FleetNext]_fleetVars PROVE FleetInv'
    OBVIOUS
  <1>1. CASE Control
    BY <1>1, ControlKeepsInv
  <1>2. ASSUME NEW n \in Nodes, AgentLoop(n)
        PROVE  FleetInv'
    BY <1>2, HeartbeatKeepsInv, PollTaskKeepsInv, PollKeepsInv, ValidateKeepsInv,
       AppendStartLogKeepsInv, ReportRunningKeepsInv, FinishWorkKeepsInv, ReportTerminalKeepsInv
       DEF AgentLoop
  <1>3. CASE \E n \in Nodes : Killed(n)
    BY <1>3, KilledKeepsInv
  <1>4. CASE \E r \in late : LateArrival(r) \/ LateLoss(r)
    BY <1>4, LateArrivalKeepsInv, LateLossKeepsInv
  <1>5. CASE UNCHANGED fleetVars
    <2>1. late' \subseteq late /\ UNCHANGED <<task, agent, work, losses, kills>>
      BY <1>5 DEF fleetVars, agentVars, vars
    <2>2. Linked' /\ TypeOK'
      BY FleetKeepsLinked
    <2>3. QED BY <2>1, <2>2, MasterMoves DEF Exists
  <1>6. QED BY <1>1, <1>2, <1>3, <1>4, <1>5 DEF FleetNext

LEMMA FleetInvAlways == FleetSpec => []FleetInv
  BY FleetInvInit, FleetInvStep, PTL DEF FleetSpec

(* Every behaviour of the fleet is one of Master: agents and what happens  *)
(* to their requests (agent/src/heartbeat.rs) make the master do nothing   *)
(* that Master does not allow, and so the theorems about Master hold of    *)
(* the fleet.                                                              *)
THEOREM FleetIsMaster == FleetSpec => Spec
  <1>1. FleetInit => Init
    BY DEF FleetInit
  <1>2. FleetInv /\ [FleetNext]_fleetVars => [Next]_vars
    BY FleetStepIsMasterStep
  <1>3. QED BY <1>1, <1>2, FleetInvAlways, PTL DEF FleetSpec, Spec

(* The tables, the agents, the requests on their way and the host work     *)
(* keep their types.                                                       *)
THEOREM FleetTypesAlways == FleetSpec => []FleetTypeOK
  <1>1. FleetInv => FleetTypeOK
    BY DEF FleetInv
  <1>2. QED BY <1>1, FleetInvAlways, PTL

(* Host work on a task begins at most once, with any number of agents and  *)
(* operators, of requests lost or late and of agents killed: a poll hands  *)
(* out pending tasks only (CLAIM_NEXT_FOR_NODE_SQL), and work begins after *)
(* an acknowledged Running report only (process_task).                     *)
THEOREM WorkBeginsOnce == FleetSpec => []HostWorkAtMostOnce
  <1>1. FleetInv => HostWorkAtMostOnce
    BY DEF FleetInv
  <1>2. QED BY <1>1, FleetInvAlways, PTL

(* While an agent works on the host, its task is running and, if           *)
(* admissions do not overlap, holds its VM.                                *)
THEOREM WorkIsReserved ==
  ASSUME OneOperator
  PROVE  FleetSpec => []HostWorkIsReserved
  <1>1. FleetInv /\ SerialInv => HostWorkIsReserved
    <2> SUFFICES ASSUME FleetInv, SerialInv, NEW n \in Nodes, At(n, "execute")
                 PROVE  LET t == agent[n].task
                        IN  task[t].status = "running" /\ vm[task[t].vm].lastTask = t
      BY DEF HostWorkIsReserved
    <2> DEFINE t == agent[n].task
    <2>1. t \in TaskIds /\ Exists(t) /\ task[t].status = "running"
      BY DEF FleetInv, AgentsHoldTasks, At, Busy
    <2>2. task[t].vm \in Vms /\ t \in ActiveTasksOf(task[t].vm)
      BY <2>1, ExistingTask DEF FleetInv, Linked, Task, ActiveTasksOf, TasksOf, Active
    <2>3. QED BY <2>1, <2>2 DEF SerialInv, ActiveTaskHoldsVm
  <1>2. QED BY <1>1, FleetInvAlways, FleetIsMaster, SerialAlways, PTL

(* The task history says what the host did, whatever was lost on the way:  *)
(* reports are sent by the agent that did the work, and a late one is as   *)
(* true as it was (update_terminal_task_status, apply_task_status_in_tx).  *)
THEOREM HistoryAlwaysTruthful == FleetSpec => []HistoryIsTruthful
  <1>1. FleetInv => HistoryIsTruthful
    BY DEF FleetInv
  <1>2. QED BY <1>1, FleetInvAlways, PTL
=============================================================================
