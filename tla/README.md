# VirtForge: specifications of the master and its agents

VirtForge is a control plane for KVM hosts. A *master* (axum, PostgreSQL) keeps
the inventory; an *agent* on every host polls the master for tasks and carries
them out with libvirt. These modules specify the parts of the program where its
guarantees are made: the task and VM state machine in the master's database,
down to the row locks of its transactions; the requests, plans and images that
tasks are made of; the agent's loop and the unreliable HTTP exchanges; how an
agent gets its credential and how its signed requests are admitted; the files
and the domain of a VM on its host.

    tlc -workers 2 -config master_serial.cfg MCMaster.tla
    tlapm MasterProofs.tla

## 1. The system

| component | state | operations | talks to |
|---|---|---|---|
| Task state machine (`master/src/tasks`) | table `tasks`: kind, node, status, payload; `task_logs` | create, claim (`FOR UPDATE SKIP LOCKED`), agent status report, admin cancel, retry, log append | VM inventory and IPAM in the same transaction |
| VM inventory (`master/src/vms`) | table `vms`: status, `last_task_id`, `assigned_ip` | create from request, lifecycle guard (`FOR UPDATE OF v`), effects of a task status, of a retry, of an action | tasks, IPAM |
| IPAM (`master/src/ipam`) | `ip_pools`, `ip_allocations` with two partial unique indexes | reserve next, attach to task, release | tasks, VM inventory |
| Node registry (`master/src/nodes`) | `nodes`: scheduling switch, last heartbeat, host report, capacity, credential hash; bootstrap tokens; request nonces | scheduling switch, heartbeat, capacity check, token creation, registration, request verification with the purge of nonces | admission of tasks; every agent request |
| Catalogue (`plans`, `images`) | enabled flags, sizes, file names | create, enable, disable; checks at admission, plans under a share lock, images without | admission of tasks; payloads |
| HTTP layer, audit, authentication, rate limit (`http`, `audit`, `auth`, `rate_limit`) | audit rows, request counters | one transaction per handler, closed by its audit row | everything above |
| Agent loop (`agent/src/heartbeat`, `tasks`, `client`) | the position in the loop, in memory only | heartbeat, poll, validate, start log, Running report, host work, result logs, terminal report with three attempts | master over HTTP |
| Libvirt executor (`agent/src/libvirt`) | files under `data_dir`, libvirt domains | create, start, stop, reboot, reinstall, delete | host |
| Registration (`agent/src/main.rs`, `nodes`) | agent config file, bootstrap token | consume the token, save the credential | master |
| Panel, installer, smoke scripts | none of their own | call the admin API, set hosts up | master |

The parts meet in three places. Handlers share rows of one database under READ
COMMITTED and row locks. Master and agent exchange requests of which each may
be lost, answered too late, or handled after the sender gave up. The agent and
the host share the files and domains of a VM.

**What is hard.** Admissions of several operators overlap, and what a row lock
makes a waiting statement re-read is subtle. Status reports arrive late or are
repeated after they were recorded. A cancel races the claim and the Running
report. The agent dies at any point and forgets its task. A terminal task can
be retried long after its VM moved on. Reservations (a VM by its last task, an
address by its allocation) are spread over several rows which every path, the
failing ones included, has to keep in agreement. `PROJECT.json` lists these
hazards with the line where each bites and the property that guards it.

**What makes each component correct.** Tasks: a finished task never changes, a
task moves only forward, host work begins at most once. VM inventory: a VM has
one active task at most and is never left in a status nobody can leave. IPAM:
the records of an address agree, no two VMs share one. Registry: a disabled
node gets no work, whatever was under way; creations fit the node; a signed
request is applied once; a token buys one credential. Catalogue: a disabled plan
gets no VM, and no queued task is one its agent refuses. Agent: it works only on
running tasks, and what it reports is what happened on the host. Executor: a
failed operation leaves either nothing or something a later one can clean up.

## 2. Modules

| module | what it is |
|---|---|
| `Lifecycle` | the rules without state: what a VM accepts, what a task status makes of its VM and address, how an agent may move a task |
| `Master` | (over `Lifecycle`) the master's database and every handler that changes tasks, VMs, addresses, scheduling |
| `VmReservation` | what the master promises: a task reserves its VM until it ends. `Master` implements it through `Reservation == INSTANCE VmReservation WITH ...` |
| `Fleet` | `Master` composed with the agents, the requests on their way, and the work on the hosts |
| `VmHost` | (over `Lifecycle`) the libvirt executor: files and domain of one VM on its host, and what the inventory makes of the outcomes |
| `Transactions` | `Master`'s handlers statement by statement: what each connection reads, locks and waits for. Its property `AtomicHandlers` is `Master`'s specification |
| `Requests` | rules without state: what a request, a plan, an image and a pool must satisfy on the master and on the agent, and the arithmetic of networks |
| `Catalogue` | (over `Master`, `Requests`) plans, images, payloads and the VM's stored request; every step is one of `Master` or a stutter |
| `RequestGate` | what a signed agent request passes before its handler: rate limits, time stamp, nonce table |
| `Enrollment` | token, credential, configuration file: installer, agent, master, faults |
| `HostFiles` | rules without state: the agent's configuration, the paths of a VM, what its domain and seed files say and how they are recognised |
| `Reports` | (over `HostFiles`) rules without state: the host report and error texts, as the agent makes and cuts them and as the master accepts them |
| `MC...` | instances for TLC; `MCVmHost` also evaluates `Reports` and `HostFiles` on examples |
| `...Proofs` | theorems checked by TLAPS, one module for each of `Master`, `Transactions`, `Catalogue`, `Requests` (with `HostFiles` and `Reports`), `RequestGate`, `Enrollment`, `Fleet`, `VmHost` |

### Master

`task`, `vm`, `alloc`, `node` are the tables (for `ip_allocations` the rows that
are not released; for `nodes` the columns admission reads); `tx` holds the
admissions that are open. A handler of the code is one transaction that ends
with its audit row, and is one action:

| code | action |
|---|---|
| `POST /tasks/create-vm` | `CreateVm` |
| `POST /tasks/{start,stop,reboot,reinstall,delete}-vm` | `BeginAction`, then `Admit` or `Reject` |
| `POST /tasks/:id/retry` | `BeginRetry`, then `Admit` or `Reject` |
| `POST /tasks/:id/cancel` | `CancelTask` |
| `POST /agent/tasks/poll` | `ClaimNext` |
| `POST /agent/tasks/:id/status` | `UpdateStatus` |
| `POST /agent/heartbeat` | `RecordHeartbeat`, `HeartbeatGoesStale` |
| `POST /nodes/:id/scheduling` | `SetScheduling` |

Three choices deserve an explanation.

*Why admission takes two steps.* Its first statement joins the VM with its last
task and locks the VM only. PostgreSQL takes the snapshot of a statement before
it waits for the lock. When the lock is granted and the VM row has changed, the
row's new version is re-evaluated (EvalPlanQual), but the rows of the other,
unlocked table are those of the snapshot. So after another admission moved
`last_task_id`, the new last task is not found and the `LEFT JOIN` yields NULL.
`LastStatusSeen` is that rule: the status the snapshot saw if `last_task_id` has
not moved, `"null"` if it has. The other handlers read and write under the lock
or with a guarded `UPDATE`, and their steps on these rows commute into one.

*What is left out of an action.* Plan, image and payload checks only reject a
request: `Master` admits every request they could let through, `Catalogue` has
them. Audit and log rows are written in the same transaction as what they
describe. Which free address a reservation takes is left open, since concurrent
reservations decide it. So is which pending task a poll claims: `SKIP LOCKED`
skips the older ones that others have locked. Capacity is a number of VMs of one
size; sums over three resources are not modelled.

*Ids.* A task id is a UUID; an open admission holds its id from the start.

### Transactions

Is one action per handler the right grain? `Transactions` has each connection
execute the statements of its handler one at a time. A session keeps what its
first, unlocked read found; each statement waits for conflicting row locks
(`WaitsFor`), tests what the code tests once they are granted, and keeps them
until `Commit` or `Rollback`. Lock modes are PostgreSQL's: `FOR UPDATE`, the
`FOR NO KEY UPDATE` of an `UPDATE` and the `FOR KEY SHARE` of a foreign key check
(the audit row of every handler locks its node that way). The two partial unique
indexes on active allocations are rows too, since an insert waits for whoever
inserted or released the same key.

| handler | statements |
|---|---|
| create | node, pool (read), address and its index keys, VM |
| action, retry (`admit`) | VM, node, pool, address |
| cancel, status report | task, VM, release of the address, audit |
| poll | node, task (`SKIP LOCKED`) |
| scheduling switch, heartbeat | node |

`AtomicHandlers` says that every commit is a step of `Master`, tested again at
that moment, and that nothing else touches a table; so whatever is shown of
`Master` holds of the interleaved statements. It fails if an `UPDATE` loses its
guard or a statement its lock.

*Deadlock.* Creations lock the node before an address, reports an address before
the node. What keeps them apart is that the addresses are read under the lock of
the node, so one that a report is releasing is known as taken and not waited
for. One case has no such protection. A create request may carry any `vm_id`
(`http/mod.rs:1346`), that of an existing VM included, and is refused only by its
last statement, the `INSERT` into `vms`. Until then it holds the node, and waits
for the id in two places, both shared with a report or a cancel of that VM's task:
the index key of the VM's active allocation (`ipam/mod.rs:104`), which the latter
is releasing (`:166`), and the VM row, which the latter has updated. The latter's
audit row (`http/mod.rs:1280`) waits for the node. So there are wait cycles, which
PostgreSQL ends by aborting one of the two; an agent sends a terminal report up to
three times. `OnlyReusedIdsDeadlock` says that every cycle needs two such
sessions (`ReusesId`). An `INSERT` waits for whoever writes a row with its key, not
for one that has only locked it; this is the lock mode `"insert"`.

### Catalogue and Requests

`Catalogue` gives tasks their payload, VMs the part of it they keep, and
operators the request they have open. A creation takes two steps, `BeginCreate`
(plan `FOR SHARE`, request, image) and `FinishCreate`, between which the
catalogue may change. The switch of a plan waits for open creations that name it
(`ShareLocked`); that of an image does not, and no document says it would. Text is
a sequence of character classes, an address two 16-bit halves. `AgentAccepts` is
`validate_for_agent` with what the executor tests beyond it.

### RequestGate

All of `Receive` happens between two `await`s: the limit of all agents, the limit
of the node, the window. Then `Purge`, `RememberNonce` and `Apply` are statements
of their own, between which other handlers and the clock move. Agents' clocks are
off by up to `Skew`, time stamps are whole seconds. `charged` is a history
variable for `ChargesBounded`: how many requests each bucket let through in the
current tick and the ones before it, up to each age within a limiter window. No
window of that length, wherever it begins, sees more than twice the limit.

### Enrollment

| code | actions |
|---|---|
| `POST /nodes/:id/bootstrap-tokens`, expiry | `IssueToken`, `ExpireToken` |
| `install-agent.sh` | `InstallConfig`, `RestartService` |
| `load_from_default_path`, `bootstrap_ready` | `Start` |
| `prepare_save_target`, `register` | `Register`, `ReceiveAnswer`, `TimeOut` |
| `register_agent_in_tx` | `MatchToken`, `ConsumeToken` |
| `save` | `WriteTemporary`, `RenameTemporary` |
| faults | `AbortRegistration`, `LoseRequest`, `SpoilTarget`, `Kill`, `PowerLoss` |

`survivors` is the set of contents a power loss may leave of the file, until
`Flush` comes, whenever the file system lets it. The agent's `save` syncs its file
before the rename and not the directory: the old file may come back. The installer
(`install-agent.sh:684-728`: `cat`, `chmod`, `mv -fT`) syncs neither, so the name
may be on the disk without the content: `TornFile`, which is empty or cut short and
which `Start` cannot load. `unsynced`, a history variable, says that such an
installation has not reached the disk yet. A file cut at a place where it still
parses, so that the executor is the default one, is left out. A restart by the
installer counts as a fault if it hits an enrollment under way.

### Fleet

Each node's `agent` is at one `phase` of its loop. An exchange is one action
with three outcomes: the master handles it and the agent goes on; the master
refuses it; the agent times out, the request going into `late`, from where the
master handles it later (`LateArrival`) or never (`LateLoss`). The last case
also stands for a transient refusal such as 429 or 500. `work` counts, per task,
how often host work began and how it ended: this is what the host knows, which
neither the agent (`Killed` forgets everything) nor the master may know. An
error whose text exceeds what the master stores (`fits = FALSE`) is refused by
`normalize_error_message` on every attempt; `Reports` has the arithmetic of it.

### VmHost

The executor is sequential, and a VM has one task at a time, so one VM and its
current task `op` are enough. Every action is one host command or one file
operation with its error path, in the order of the code:

| code | actions |
|---|---|
| `check_host`, path and metadata checks, `prepare_vm_dir_for_create` | `BeginCreate`, `BeginAction` |
| `create_vm` | `WriteArtifact` (five), `DefineDomain`, `StartDomain`, `Await`; on failure `CheckAbsent` or `CheckStopped`, `UndefineDomain`, `RemoveArtifact` (five), `RemoveDirectory` |
| `virsh_vm_command` | `StartDomain` or `RequestPower`, `Await` |
| `reinstall_vm` | `DestroyDomain`, `CheckStopped`, `StageReplacement` (three), `CommitReplacement` (remove and rename, three times), `StartDomain`, `Await`; on failure `Unstage` |
| `delete_vm` | `DestroyDomain`, `CheckStopped`, `UndefineDomain`, `RemoveArtifact`, `RemoveDirectory` |
| report of the outcome, on the master | `End`, `Cancel` |

A file is known by the task that wrote it. `user-data` and `meta-data` are one
artifact, since no check tells them apart. A command that faults may have had
its effect: `run_command_with_timeout` kills `virsh`, not what libvirt does for
it. A fault of `domstate` is taken to be distinguishable from a missing domain;
`libvirt_domain_not_found` decides that by the text of the message. An effect
that comes only after the next `domstate` was read is not modelled.

### Reports and HostFiles

A message is the numbers of its characters: plain, line ends, other controls,
wide ones and their further bytes. Redaction may drop characters and adds marks;
truncation keeps 240 characters. `CheckHostReport`, `SendHeartbeat` and
`HeartbeatAccepted` follow one heartbeat from the preflight checks to the
master's refusal. `HostFiles` builds the domain, seed and configuration as records
and applies the code's checks to them.

## 3. Runs

| run | checks | instance |
|---|---|---|
| `master_serial` | `TypeOK`, `ActiveTaskHoldsVm`, `TransientWhileTaskActive`, `AddressRecordsAgree`, `DeletedIsFinal`, `ReservationSpec` | one operator, two VMs that compete for one address, four tasks, capacity for two VMs |
| `master_race` | `AddressRecordsAgree`, `CatalogueTypeOK`, `PayloadsAreCarriedOut`, `FinishedTaskIsImmutable`, `DisabledPlanGetsNoVm` | `Catalogue`: two operators, one plan, one image, one VM, one address, three tasks, a request that names the plan and one that does not |
| `master_race_reservation` | `ActiveTaskHoldsVm`: **violated** | two operators, one VM, three tasks |
| `fleet_safety` | `FleetTypeOK`, `HostWorkAtMostOnce`, `HostWorkIsReserved`, `HistoryIsTruthful` | three tasks, every exchange may time out, one loss, one kill, long errors |
| `fleet_liveness` | `RunningTaskEnds`, `QueuedTaskEnds` | two tasks, two terminal reports lost out of three attempts |
| `fleet_lost_answer` | `RunningTaskEnds`: **violated** | one task, one Running report lost |
| `fleet_long_error` | `RunningTaskEnds`: **violated** | one task, no loss, an error text over the limit |
| `host_faults` | `HostTypeOK`, `RunningVmIsWhole`, `DefinedDomainKeepsArtifacts`, `DeletedLeavesNothing`, `FailedCreateIsRecoverable`, `RunningDiskUntouched`, `DefinedVmHoldsAddress` | five tasks on one VM, three faults anywhere, one kill |
| `transactions` | `SessionTypeOK`, `OnlyReusedIdsDeadlock`, `AtomicHandlers`, `DisabledNodeGetsNoWork`, `CreationsFitNode` | two connections, two nodes with room for one VM each, two VMs, two addresses, two tasks |
| `gate` | `GateTypeOK`, `AppliedAtMostOnce`, `ChargesBounded` | two requests of two nodes in any number of copies, two handlers, eight half seconds |
| `enrollment` | `EnrollTypeOK`, `OneCredentialPerToken`, `ConfigSound`, `FaultCostsOneToken`, `EnrollmentSettles` | two tokens, five attempts, two faults |

*Bounds.* `MaxTasks` is the number of task rows ever inserted. Four are enough
for a creation, its failure, a retry, and an action that interferes with the
late life of one of them; a fifth only repeats a pattern from a state already
reached up to renaming. One node suffices: a VM and its tasks stay on their
node, and nodes share nothing but the pool, for which VMs compete just as well
on one node. `Capacity` 2 with two VMs makes the limit reachable by VMs in error
that return. Two losses in `fleet_safety` were also run once and hold. Three
tasks in `master_race` are a creation, a reinstallation or retry, and one that
overlaps either; a second VM would only meet the first at the address, which
`master_serial` has. In `transactions` two connections meet at every row and
every index; three would be needed for a wait cycle of three, which the proof of
`DeadlockNeedsReusedId` covers. One address (a pool that runs out) was also run
and holds. In `gate` a window of one second, a limiter window of one and a half
and the smallest retention that covers them make every boundary come within
eight half seconds, among them a nonce purged before the last copy arrives. Five
attempts in `enrollment` are as many as two tokens, two faults and the agent can
use at a time. VMs, operators, nodes and addresses are declared symmetric where
they are interchangeable, in runs that check safety only; in `transactions`
addresses are not, since they are tried in their order.

*Fairness.* `FleetFairness` is weak fairness of each agent's loop, and nothing
else: `run_forever` ticks for ever, every exchange has an HTTP timeout, and
every host command a timeout of its own. Nothing is assumed of operators, of
heartbeats going stale, or of late requests, which need not arrive.
`QueuedTaskEnds` assumes that the node stays enabled from some time on.
`EnrollFairness` is weak fairness of the agent (its client has a timeout, and
systemd starts it again after each exit: `Restart=on-failure`), of the master's
handling of each registration that reached it, and of the installer's last
command. Nothing is assumed of the administrator, of the file system's flush, or
of faults, of which there are finitely many; so enrollment settles either with an
agent that serves or where only an administrator can help. `enrollment` does not
check for deadlock: an administrator without tokens leaves the system at rest.

### What the violated runs show

1. **Two operators can reserve one VM** (`vms/mod.rs:9`). Both admissions take
   their snapshot, one is admitted and moves `last_task_id`, the other, waiting
   for the row lock, re-reads the VM, sees NULL for the task's status, and is
   admitted too whenever the action is allowed by the VM's status (start, stop
   and reboot do not change it). `DESIGN.md` says that concurrent operators
   cannot reserve the same VM from stale reads. `AddressRecordsAgree` and
   `FinishedTaskIsImmutable` survive these overlaps, as `master_race` and their
   theorems show.
2. **A lost answer to the Running report leaves a task running for ever**
   (`heartbeat.rs:136`). The agent ends the iteration, the master may have
   recorded the report, and a running task can be neither canceled, retried nor
   claimed; its VM stays reserved. A killed agent has the same effect.
3. **A long error text does so without any fault** (`tasks/mod.rs:310`): the
   report is refused, and so are its repetitions. The error texts are whole
   stderr outputs of host commands (`libvirt/mod.rs:1439`).

`host_faults` also shows what its properties leave open. A reinstall whose
renaming fails halfway leaves the VM with the new disk and the old seed ISO; it
can be started like that, and its `.reinstalling` files block every further
reinstall and delete until a person removes them. A
delete that fails after `undefine` can never be repeated, since `domstate` has
no domain to report on. A start whose success is not seen leaves `stopped` in
the inventory of a VM that runs.

## 4. Proofs

For every value of the constants:

| module | theorem | property | assumes |
|---|---|---|---|
| `MasterProofs` | `TypeCorrect` | `TypeOK` | |
| | `HistoryImmutable` | `FinishedTaskIsImmutable` | |
| | `AddressesAgree` | `AddressRecordsAgree` | |
| | `ReservationHolds` | `ActiveTaskHoldsVm` | `OneOperator` |
| | `TransientEnds` | `TransientWhileTaskActive` | `OneOperator` |
| | `DeletedStaysDeleted` | `DeletedIsFinal` | `OneOperator` |
| | `ImplementsReservation` | `ReservationSpec` | `OneOperator` |
| `TransactionsProofs` | `SessionTypeCorrect` | `SessionTypeOK` | |
| | `HandlersAreAtomic` | `AtomicHandlers` | |
| | `TransactionsImplementMaster` | (`Spec` of `Master`) | |
| | `AddressesAgreeUnderLocks` | `AddressRecordsAgree` | |
| | `SchedulingSwitchIsBarrier` | `DisabledNodeGetsNoWork` | |
| | `NodesAreNotOvercommitted` | `CreationsFitNode` | finitely many VMs |
| | `DeadlockNeedsReusedId` | `OnlyReusedIdsDeadlock` | |
| `CatalogueProofs` | `CatalogueTypeCorrect` | `CatalogueTypeOK` | |
| | `CatalogueImplementsMaster` | (`Spec` of `Master`) | |
| | `QueuedTasksAreCarriedOut` | `PayloadsAreCarriedOut` | |
| | `PlanSwitchIsBarrier` | `DisabledPlanGetsNoVm` | |
| `GateProofs` | `RequestAppliedOnce` | `AppliedAtMostOnce` | `RetentionCovers` |
| | `GateTypeCorrect` | `GateTypeOK` | |
| | `LimiterHolds` | `ChargesBounded` | |
| `EnrollmentProofs` | `EnrollTypeCorrect` | `EnrollTypeOK` | |
| | `TokenBuysOneCredential` | `OneCredentialPerToken` | |
| | `SaveSurvivesPowerLoss` | `ConfigSound` | |
| | `LossNeedsFault` | `FaultCostsOneToken` | |
| `RequestsProofs` | `PoolRowIsStored`, `CandidatesAreAssignable`, `FilledRequestIsCarriedOut`, `ReinstallIsCarriedOut` | (of the rules) | |
| | `RegisteredConfigLoads`, `CreatedVmIsManaged` | (of the rules) | |
| | `AsciiReportAccepted`, `WideReportRefused`, `ShortDiagnosticAccepted` | (of the rules) | |
| `FleetProofs` | `FleetIsMaster` | (`Spec` of `Master`) | |
| | `FleetTypesAlways` | `FleetTypeOK` | |
| | `WorkBeginsOnce` | `HostWorkAtMostOnce` | |
| | `WorkIsReserved` | `HostWorkIsReserved` | `OneOperator` |
| | `HistoryAlwaysTruthful` | `HistoryIsTruthful` | |
| `VmHostProofs` | `HostInvAlways` | (`HostInv`, below) | |
| | `HostTypesAlways` | `HostTypeOK` | |
| | `RunningVmIsWholeAlways` | `RunningVmIsWhole` | |
| | `DefinedDomainKeepsArtifactsAlways` | `DefinedDomainKeepsArtifacts` | |
| | `DeletedLeavesNothingAlways` | `DeletedLeavesNothing` | |
| | `FailedCreateIsRecoverableAlways` | `FailedCreateIsRecoverable` | |
| | `RunningDiskUntouchedAlways` | `RunningDiskUntouched` | |
| | `DefinedVmHoldsAddressAlways` | `DefinedVmHoldsAddress` | |

`OneOperator` says that admissions do not overlap; finding 1 shows that the
theorems that assume it are false without it. `RetentionCovers` says that the
retention is at least the sum of window, skew of the agents' clocks, delay of a
handler and one second of rounding: with the 600 s and 300 s of the code it leaves
299 s for the two it cannot know. `gate` runs at equality, and its mutant
shows a replay when nonces are kept for the window only. The other
assumptions are those on the constants, each named in the module that declares
them.

### Master

The argument goes in three layers. `Linked` (types, every VM row points at a
task of its own and every task at a VM row, open admissions hold ids of their
own) is inductive for any number of operators; it is what makes the other
properties say something about existing rows. `AddressInv` adds
`AddressRecordsAgree`, which is inductive on top of it: the interesting cases
are the retry of a creation whose address was released and the admission whose
snapshot is old. `SerialInv` adds the reservation, the transient statuses,
`DeletedIsIdle` (without it a late report could touch a deleted VM) and
`SnapshotHolds`: with one operator, nothing moves `last_task_id` of a VM
between the snapshot and the lock, because the only other writer is the report
of an active task, which `ActiveTaskHoldsVm` says is already the last one. That
is the step that fails with two operators. Each invariant was checked with TLC
before it was proved. The refinement follows from `SerialInv`: every step of
`Master` either moves one task along one edge of `VmReservation`, or stutters.

### Transactions

`TransactionsInv` says what each open transaction holds and may therefore rely
on: after its node statement it has the node's `FOR UPDATE` lock and the node
still admits it; after its address statement it has both index keys and they are
still free; after its task statement the status it read is still the row's. The
locks of two sessions never conflict (`LocksExclude`). A commit of one session can
disturb another in five ways only (`KeepsReady`), and for each the `...Leaves`
lemmas show that the two would hold conflicting locks. Advancing a session adds
to its own knowledge (`...Advances`). At the last statement this knowledge is
the guard of `Master`'s action. The barrier and the capacity follow from the
guards of that action, which the refinement shows to hold at the commit, however
long before they were tested.

`OnlyReusedIdsDeadlock` is about waits, which `TransactionsInv` does not mention.
`WaitInv` adds where each lock comes from (`LocksAccounted`), that only creations
insert and that admissions only lock (`ModesAccounted`), and `PoolReadsOrdered`: of
any sessions that have read the pool, the last to do so knows what is taken on the
nodes of all of them, because while a session holds its node nobody else reserves
an address there. Suppose that each of some sessions waits for another of them. An
`INSERT` waits for another `INSERT`, which then has no statement left to wait at, or
for a report or a cancel of a task of the same VM (`InsertWaitsForEnd`): the case the
property excepts. Any other session that waits while it holds a row is past the
statement that locked the row (`HoldingWhileWaiting`), so following the waits
reaches one that is about to reserve an address. Of all these take the last to have
read the pool. If it waits for the key of its VM, the holder is once more the end of
a task of that VM. Otherwise it waits for a report or a cancel that is about to
release the address and itself waits for its node, held by another of them; so the
address was taken on that session's node and the last one knew it, yet it is the
candidate of the last one, which is not known as taken.

### Catalogue and Requests

`CatalogueInv` says that images in the catalogue have safe file names
(`ImagesSafe`), that a VM row keeps a part of a valid request (`SpecsSound`), that
each payload is one its agent accepts (`PayloadsSound`), and that an open request
names an enabled plan and passed its checks (`FormsSound`). The step that matters is
a payload put together from parts that were checked at different times; it rests
on `FilledRequestIsCarriedOut` and `ReinstallIsCarriedOut`, and these on
`CandidatesAreAssignable`: no address of a stored pool is its gateway or outside
of its network. That `Catalogue` implements `Master` carries the theorems about
`Master` over to it.

### Fleet

`FleetInv` follows a task from the poll to its end. An agent past `poll` has a
task of its own node that is no longer pending, whose host work has not begun
before `execute`, and what it is going to report is what the host did
(`AgentsHoldTasks`). A report in `late` is true, and its sender is done with the
task but for its other attempts (`LateReportsAreTrue`). Host work has begun only
on tasks the master has made running (`WorkAcknowledged`). `HostWorkAtMostOnce`
and `HistoryIsTruthful` are not inductive without these: nothing else says that
a Running report which arrives late is not followed by a second start, or that
two reports of one task agree. `FleetIsMaster` shows that every step of the
fleet is one of `Master`, so what is proved of `Master` holds of the fleet;
`WorkIsReserved` uses this for `ActiveTaskHoldsVm`, and with it needs
`OneOperator`.

### VmHost

`HostInv` says for each step of the executor which files and which domain it can
meet: `CreateUnderWay` (the artifacts written so far, and that a creation on
its way back has met a fault), `RemovalUnderWay` (files go when libvirt has
forgotten the domain), `ReplacementUnderWay` (which of the three replacements
have been made or renamed), and, for the moments between tasks, `ArtifactsMatch`.
That last part is what makes it inductive over a long sequence of tasks: a task
that stops anywhere leaves a disk and a seed ISO that belong together, or the
missing half staged, and the next task starts from there. Nothing is assumed of
the number of tasks, faults and kills.

### RequestGate and Enrollment

`GateInv`: a request that was admitted is in the nonce table or too old for any
copy of it to pass (`AdmittedRemembered`), because a handler that is on its way
to the table is on time (`HandlersOnTime`). `EnrollInv` counts: registrations that
nobody waits for any more, and the one that will be lost since the target was
spoiled after its check, are at most as many as the faults (`FaultsCover`). For
`ConfigSound`, `DiskSound` says of everything a power loss may leave that it is torn
only while an installation is unsynced, or was when the power failed, and that its
credential was registered.
`ChargeInv` is about the limiter: an open bucket has counted all it let through
since it was opened, and what it let through before that, within one window,
fits the limit once more (`OpenBucketsCount`); when no bucket is open, a window
that ends now saw no more than the limit (`ClosedBucketsFit`). The second is
what a bucket that is opened anew rests on.

### What is only model-checked

Liveness under fairness (`RunningTaskEnds`, `QueuedTaskEnds`,
`EnrollmentSettles`), which is out of the prover's reach, and the
counterexamples of the violated runs. Every invariant and every action property
of the passing runs has a theorem. Each inductive invariant was checked with TLC
on the run of its module before it was proved. No module with a theorem uses a
recursive operator.

## 5. Plan

Modelled first: what operators and agents rely on most, then the locks it rests
on, the payloads, the requests and the credentials (above). Next, in this order:

1. Lemmas that say of `Master` what `Transactions` and `Catalogue` each use of
   it, to state `Catalogue` over the interleaved statements as well.
2. `Fleet` over `VmHost`: the outcome of host work is a free choice in `Fleet`,
   and the master's side of a task is three lines of `VmHost`; that the two
   agree rests on `HistoryIsTruthful` and on reading both.
3. Capacity as three sums with the rounding of `validate_capacity_snapshot`;
   several pools.

## 6. Not modelled, and why

Authentication is a stateless check of roles. Audit rows are append-only; the
lock their foreign key takes is in `Transactions`. Of redaction only what it may
add to a text is modelled (`Reports`), of the agent's configuration all its
checks (`HostFiles`), of the master's none: both programs read them once, at
start. Lists and single reads of the API change nothing. HMAC, TLS and
PostgreSQL itself are taken as they are documented, with the re-evaluation rule
and the lock modes above. Symlink and ownership checks of the executor, and the
texts of host commands, are left to its tests. The panel is a stateless client
of the admin API; of the installer only the replacement of the configuration
and the restart are modelled (`Enrollment`).

*Redaction.* `Redaction` bounds the characters of all marks by what is kept and
what is left out: at most one mark of ten for four characters that stay, and one
for a private key is shorter than the key. That is why `ShortDiagnosticAccepted`
holds of any text of 1024 bytes. `AsciiReportAccepted` assumes that the second
redaction of a preflight message, before it is sent, adds 60 characters at most. The
text of a failed check has been redacted before it was cut, and the second time
little can change but a mark that was cut; that of a passed check is a fixed text
with configured paths and names. A message of a passed check that names many
secrets is not covered.

Weaknesses that the models have and no run reports as violated:

1. *Heartbeats.* The agent cuts a preflight message to 240 characters, the master
   accepts 300 bytes (`libvirt/mod.rs:1513`, `nodes/mod.rs:578`):
   `WideReportRefused` proves that a text in a wide script makes the master refuse
   the heartbeat, and a refused heartbeat ends the iteration before the poll, so
   the node's tasks stay queued.
2. *Images.* An image may be disabled while a request that was found to use it is
   admitted; plans are protected against that (`DisabledPlanGetsNoVm`).
3. *Addresses.* `create_vm` fails without cleanup when the domain is not seen
   running in time (`libvirt/mod.rs:406`), and its cleanup rightly preserves a domain
   that runs; the master releases the address of every failed creation
   (`vms/mod.rs:244`), as `SECURITY.md:701` says it does. The next creation may be
   given an address that a running domain uses. It needs no fault: a guest that
   pauses or powers off before the first `domstate` is enough. Hence the exception
   in `DefinedVmHoldsAddress`.
4. *Reused ids.* A create request with the id of an existing VM can deadlock with
   the end of that VM's task (section 2, Transactions); the database aborts one of
   them. Refusing the id before the node is locked would exclude it.
5. *Installation.* A power loss soon after an installation may leave a configuration
   file that cannot be loaded. The agent is restarted in vain until the installer
   runs again, with a new token; `NeedsAdministrator` counts such a file in.
