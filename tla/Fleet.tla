-------------------------------- MODULE Fleet --------------------------------
(***************************************************************************)
(* The master together with the agents of its nodes (agent/src/heartbeat,  *)
(* tasks) and the HTTP exchanges between them.                             *)
(*                                                                         *)
(* An agent is sequential: a heartbeat, a poll, and for a claimed task the *)
(* start log, the Running report, the host work and the terminal report.   *)
(* Every exchange ends in one of three ways: the master handles it and the *)
(* agent sees the result, the master refuses it, or the agent times out    *)
(* and its request stays on the way - to be handled later, when nobody     *)
(* waits for the answer, or never.  A request is handled at most once (the *)
(* master remembers its nonce).  An agent that is killed forgets the task. *)
(***************************************************************************)
EXTENDS Master

CONSTANTS
  MaxAttempts,  \* TERMINAL_STATUS_UPDATE_ATTEMPTS
  Lossy,        \* the kinds of exchange that may time out
  LongErrors,   \* whether a host error may exceed MAX_DIAGNOSTIC_MESSAGE_BYTES
  MaxLosses,    \* bound: exchanges that time out
  MaxKills      \* bound: agent processes that are killed

Exchanges == {"heartbeat", "poll", "start_log", "running", "terminal"}

ASSUME FaultAssumption ==
  /\ MaxAttempts \in Nat \ {0}
  /\ Lossy \subseteq Exchanges
  /\ LongErrors \in BOOLEAN
  /\ MaxLosses \in Nat
  /\ MaxKills \in Nat

VARIABLES
  agent,   \* the loop of each node's agent
  late,    \* requests whose sender gave up on the answer
  work,    \* host work on each task, as the host knows it
  losses,  \* exchanges that have timed out
  kills    \* agents that have been killed

agentVars == <<agent, late, work, losses, kills>>
fleetVars == <<vars, agentVars>>

-----------------------------------------------------------------------------
Phases == {"heartbeat", "poll", "validate", "start_log", "running", "execute",
           "terminal"}
Verdicts == {"succeeded", "failed"}

AgentState == [phase: Phases, task: TaskIds \union {NoTask},
               verdict: Verdicts, fits: BOOLEAN, attempt: 1 .. MaxAttempts]
Waiting == [phase |-> "heartbeat", task |-> NoTask, verdict |-> "failed",
            fits |-> TRUE, attempt |-> 1]

Request == [node: Nodes, kind: {"heartbeat"}, available: BOOLEAN]
             \union [node: Nodes, kind: {"poll"}]
             \union [node: Nodes, kind: {"status"}, task: TaskIds, status: TaskStatuses]

(* Times host work on a task began, and how it last ended.                 *)
HostWork == [begun: Nat, result: {"none", "under_way"} \union Verdicts]

FleetTypeOK ==
  /\ TypeOK
  /\ agent \in [Nodes -> AgentState]
  /\ late \subseteq Request
  /\ work \in [TaskIds -> HostWork]
  /\ losses \in 0 .. MaxLosses
  /\ kills \in 0 .. MaxKills

-----------------------------------------------------------------------------
(* Exchanges.                                                              *)

At(n, phase) == agent[n].phase = phase
Goto(n, phase) == agent' = [agent EXCEPT ![n].phase = phase]
NextIteration(n) == agent' = [agent EXCEPT ![n] = Waiting]

(* The agent gives up on an exchange; the request, if it changes anything  *)
(* on the master, may still arrive.                                        *)
TimesOut(exchange, requests) ==
  /\ exchange \in Lossy
  /\ losses < MaxLosses
  /\ losses' = losses + 1
  /\ late' = late \union requests
  /\ UNCHANGED <<vars, work, kills>>

Calm == UNCHANGED <<late, losses, kills>>

(* send_heartbeat: any error ends the iteration.                           *)
Heartbeat(n, available) ==
  /\ At(n, "heartbeat")
  /\ \/ RecordHeartbeat(n, available) /\ Goto(n, "poll") /\ Calm /\ UNCHANGED work
     \/ /\ TimesOut("heartbeat", {[node |-> n, kind |-> "heartbeat", available |-> available]})
        /\ NextIteration(n)

(* poll_task: a task, nothing to do, or an error.                          *)
PollTask(n, t) ==
  /\ At(n, "poll")
  /\ ClaimNext(n, t)
  /\ agent' = [agent EXCEPT ![n].phase = "validate", ![n].task = t]
  /\ Calm /\ UNCHANGED work

PollNothing(n) ==
  /\ At(n, "poll")
  /\ ~CanClaim(n)
  /\ NextIteration(n)
  /\ Calm /\ UNCHANGED <<vars, work>>

PollTimesOut(n) ==
  /\ At(n, "poll")
  /\ TimesOut("poll", {[node |-> n, kind |-> "poll"]})
  /\ NextIteration(n)

(* Mutant: a payload that is not accepted is dropped without a report.     *)
ValidateSilently(n, accepted) ==
  /\ At(n, "validate")
  /\ IF accepted THEN Goto(n, "start_log") ELSE NextIteration(n)
  /\ Calm /\ UNCHANGED <<vars, work>>

(* validate_for_execution: a payload it does not accept is reported failed *)
(* without any host work.                                                  *)
Validate(n, accepted) ==
  /\ At(n, "validate")
  /\ agent' = [agent EXCEPT ![n].phase = IF accepted THEN "start_log" ELSE "terminal",
                            ![n].verdict = "failed"]
  /\ Calm /\ UNCHANGED <<vars, work>>

(* append_log_in_tx accepts logs of assigned and running tasks only; any   *)
(* error ends the iteration and the task stays as it is.                   *)
AppendStartLog(n) ==
  /\ At(n, "start_log")
  /\ \/ /\ task[agent[n].task].status \in {"assigned", "running"}
        /\ Goto(n, "running")
        /\ Calm /\ UNCHANGED <<vars, work>>
     \/ /\ task[agent[n].task].status \notin {"assigned", "running"}
        /\ NextIteration(n)
        /\ Calm /\ UNCHANGED <<vars, work>>
     \/ TimesOut("start_log", {}) /\ NextIteration(n)

StatusRequest(n, status) ==
  {[node |-> n, kind |-> "status", task |-> agent[n].task, status |-> status]}

(* Mutant: host work begins although the Running report was not answered.  *)
ReportRunningUnanswered(n) ==
  LET t == agent[n].task
  IN  /\ At(n, "running")
      /\ UpdateStatus(n, t, "running") \/ UNCHANGED vars
      /\ Goto(n, "execute")
      /\ work' = [work EXCEPT ![t].begun = @ + 1, ![t].result = "under_way"]
      /\ Calm

(* The Running report is sent once: host work begins only when the master  *)
(* has acknowledged it.                                                    *)
ReportRunning(n) ==
  LET t == agent[n].task
  IN  /\ At(n, "running")
      /\ \/ /\ UpdateStatus(n, t, "running")
            /\ Goto(n, "execute")
            /\ work' = [work EXCEPT ![t].begun = @ + 1, ![t].result = "under_way"]
            /\ Calm
         \/ /\ ~ValidAgentTransition(task[t].status, "running")
            /\ NextIteration(n)
            /\ Calm /\ UNCHANGED <<vars, work>>
         \/ TimesOut("running", StatusRequest(n, "running")) /\ NextIteration(n)

(* Mutant: a result log that is lost turns success into failure.           *)
FinishWorkUnlessLogLost(n, verdict, fits) ==
  /\ At(n, "execute")
  /\ work' = [work EXCEPT ![agent[n].task].result = verdict]
  /\ \E reported \in {verdict, "failed"} :
       agent' = [agent EXCEPT ![n].phase = "terminal", ![n].verdict = reported,
                              ![n].fits = fits]
  /\ Calm /\ UNCHANGED vars

(* tasks::execute and the result logs, whose errors are ignored.  An error *)
(* carries the stderr of a host command, whole: it may not fit a report.   *)
FinishWork(n, verdict, fits) ==
  /\ At(n, "execute")
  /\ fits \/ (verdict = "failed" /\ LongErrors)
  /\ work' = [work EXCEPT ![agent[n].task].result = verdict]
  /\ agent' = [agent EXCEPT ![n].phase = "terminal", ![n].verdict = verdict,
                            ![n].fits = fits]
  /\ Calm /\ UNCHANGED vars

(* Mutants: one attempt too many; a single attempt.                        *)
RetryTerminalOnceMore(n) ==
  IF agent[n].attempt <= MaxAttempts
  THEN agent' = [agent EXCEPT ![n].attempt = @ + 1]
  ELSE NextIteration(n)
RetryTerminalNever(n) == NextIteration(n)

(* update_terminal_task_status: any error, a conflict included, is tried   *)
(* again with the same error text until the attempts are used up.          *)
RetryTerminal(n) ==
  IF agent[n].attempt < MaxAttempts
  THEN agent' = [agent EXCEPT ![n].attempt = @ + 1]
  ELSE NextIteration(n)

(* The master refuses a forbidden transition and, in                       *)
(* normalize_error_message, an error text over its storage limit.          *)
ReportTerminal(n) ==
  LET t == agent[n].task
      verdict == agent[n].verdict
  IN  /\ At(n, "terminal")
      /\ \/ /\ agent[n].fits /\ UpdateStatus(n, t, verdict)
            /\ NextIteration(n)
            /\ Calm /\ UNCHANGED work
         \/ /\ ~agent[n].fits \/ ~ValidAgentTransition(task[t].status, verdict)
            /\ RetryTerminal(n)
            /\ Calm /\ UNCHANGED <<vars, work>>
         \/ /\ TimesOut("terminal", IF agent[n].fits THEN StatusRequest(n, verdict) ELSE {})
            /\ RetryTerminal(n)

(* The process is killed and started again by systemd; nothing but the     *)
(* configuration survives, so a claimed or running task is not resumed.    *)
Killed(n) ==
  /\ kills < MaxKills
  /\ agent[n] # Waiting
  /\ kills' = kills + 1
  /\ NextIteration(n)
  /\ UNCHANGED <<vars, late, work, losses>>

(* The master handles a request whose sender no longer waits; its answer,  *)
(* a claimed task included, goes nowhere.                                  *)
Handle(r) ==
  CASE r.kind = "heartbeat" -> RecordHeartbeat(r.node, r.available)
    [] r.kind = "poll"      -> \E t \in TaskIds : ClaimNext(r.node, t)
    [] r.kind = "status"    -> UpdateStatus(r.node, r.task, r.status)

LateArrival(r) ==
  /\ late' = late \ {r}
  /\ Handle(r)
  /\ UNCHANGED <<agent, work, losses, kills>>

LateLoss(r) ==
  /\ late' = late \ {r}
  /\ UNCHANGED <<vars, agent, work, losses, kills>>

-----------------------------------------------------------------------------
FleetInit ==
  /\ Init
  /\ agent = [n \in Nodes |-> Waiting]
  /\ late = {}
  /\ work = [t \in TaskIds |-> [begun |-> 0, result |-> "none"]]
  /\ losses = 0
  /\ kills = 0

AgentLoop(n) ==
  \/ \E available \in BOOLEAN : Heartbeat(n, available)
  \/ \E t \in TaskIds : PollTask(n, t)
  \/ PollNothing(n)
  \/ PollTimesOut(n)
  \/ \E accepted \in BOOLEAN : Validate(n, accepted)
  \/ AppendStartLog(n)
  \/ ReportRunning(n)
  \/ \E verdict \in Verdicts, fits \in BOOLEAN : FinishWork(n, verdict, fits)
  \/ ReportTerminal(n)

Control ==
  /\ \/ \E op \in Operators : OperatorStep(op)
     \/ AdminStep
     \/ \E n \in Nodes : HeartbeatGoesStale(n)
  /\ UNCHANGED agentVars

FleetNext ==
  \/ Control
  \/ \E n \in Nodes : AgentLoop(n) \/ Killed(n)
  \/ \E r \in late : LateArrival(r) \/ LateLoss(r)

FleetSpec == FleetInit /\ [][FleetNext]_fleetVars

(* run_forever ticks for ever, every exchange has a timeout, and host work *)
(* is bounded by the executor's own timeouts: a living agent keeps moving. *)
FleetFairness == \A n \in Nodes : WF_fleetVars(AgentLoop(n))

FairFleetSpec == FleetSpec /\ FleetFairness

-----------------------------------------------------------------------------
(* Properties.                                                             *)

(* Host work on a task begins at most once, whatever is lost, delivered    *)
(* late or killed: no poll hands a task out twice.                         *)
HostWorkAtMostOnce == \A t \in TaskIds : work[t].begun <= 1

(* While an agent works on the host, the task is running, so that nobody   *)
(* can cancel it, and it holds its VM, so that nobody can queue another.   *)
HostWorkIsReserved ==
  \A n \in Nodes : At(n, "execute") =>
    LET t == agent[n].task
    IN  task[t].status = "running" /\ vm[task[t].vm].lastTask = t

(* What the task history says is what the host did: a task that succeeded  *)
(* has done its host work, a canceled one has never begun, a failed one    *)
(* has not succeeded behind the master's back.                             *)
HistoryIsTruthful ==
  \A t \in TaskIds :
    /\ task[t].status = "succeeded" => work[t].result = "succeeded"
    /\ task[t].status = "canceled" => work[t].begun = 0
    /\ task[t].status = "failed" => work[t].result \in {"none", "failed"}

(* A task that is running comes to an end.                                 *)
RunningTaskEnds ==
  \A t \in TaskIds : task[t].status = "running" ~> task[t].status \in Terminal

(* A queued task is claimed, carried out and reported, if its node is left *)
(* enabled for scheduling from some time on.                               *)
QueuedTaskEnds ==
  (\A n \in Nodes : <>[](node[n].scheduling)) =>
    \A t \in TaskIds : task[t].status = "pending" ~> task[t].status \in Terminal

-----------------------------------------------------------------------------
(* Strengthenings: who may still report what of a task.                    *)

Unbegun == {"validate", "start_log", "running"}
Busy    == Unbegun \union {"execute", "terminal"}

(* A verdict that says of a task what the host did.  No host work at all   *)
(* is a failure: the payload was not accepted.                             *)
Truthful(t, verdict) ==
  IF verdict = "succeeded" THEN work[t].result = "succeeded"
                           ELSE work[t].result \in {"none", "failed"}

(* An agent has its task from a poll, and no other poll hands it out.      *)
AgentsHoldTasks ==
  \A n \in Nodes : agent[n].phase \in Busy =>
    LET t == agent[n].task
    IN  /\ t \in TaskIds /\ Exists(t)
        /\ task[t].node = n /\ task[t].status # "pending"
        /\ agent[n].phase \in Unbegun => work[t].begun = 0
        /\ At(n, "execute") => work[t].begun = 1 /\ task[t].status = "running"
        /\ At(n, "terminal") => Truthful(t, agent[n].verdict)

(* A report that is still on its way is true, and its sender is done with  *)
(* the task, but for the other attempts at the same report.                *)
LateReportsAreTrue ==
  \A r \in late : r.kind = "status" =>
    /\ Exists(r.task) /\ task[r.task].status # "pending"
    /\ r.status = "running" \/ (r.status \in Verdicts /\ Truthful(r.task, r.status))
    /\ \A n \in Nodes : agent[n].phase \in Busy /\ agent[n].task = r.task => At(n, "terminal")

(* Host work has begun on tasks the master has seen running only.          *)
WorkAcknowledged ==
  \A t \in TaskIds :
    /\ work[t].begun = 0 => work[t].result = "none"
    /\ work[t].begun # 0 => task[t].status \in {"running", "succeeded", "failed"}

FleetInv ==
  /\ Linked
  /\ FleetTypeOK
  /\ AgentsHoldTasks
  /\ LateReportsAreTrue
  /\ WorkAcknowledged
  /\ HostWorkAtMostOnce
  /\ HistoryIsTruthful
=============================================================================
