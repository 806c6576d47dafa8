-------------------------- MODULE CatalogueProofs --------------------------
(***************************************************************************)
(* What TLAPS proves of Catalogue, for every value of its constants: every *)
(* behaviour of it is one of Master, so the theorems of MasterProofs hold  *)
(* of it, and CatalogueInv is inductive, which follows a payload from the  *)
(* request, through the VM row and any number of retries, to the agent.    *)
(***************************************************************************)
EXTENDS Catalogue, MasterProofs, RequestsProofs

-----------------------------------------------------------------------------
(* The inductive invariant.                                                *)

SafeText(i) == i \in Text /\ SafeImageFileName(i)

GoodCreate(p)    == p \in CreateRequest(Plans) /\ ValidForMvp(p)
GoodReinstall(p) == p \in ReinstallPayload /\ ValidReinstall(p)

RecordedIp(t) == IF task[t].ip = NoAddr THEN None ELSE task[t].ip

(* A queued payload is a good one, and names the address of its task.      *)
PayloadSound(t) ==
  /\ task[t].kind = "create" =>
       /\ GoodCreate(payload[t]) /\ payload[t].ip = RecordedIp(t)
       /\ task[t].ip = NoAddr <=> task[t].vm \notin Pooled
  /\ task[t].kind = "reinstall" => GoodReinstall(payload[t])

(* A creation still to be queued is a good one without an address, and the *)
(* plan it read is what it was.                                            *)
RequestSound(request) ==
  /\ GoodCreate(request) /\ request.ip = None
  /\ request.plan # None =>
       /\ plan[request.plan] = "enabled"
       /\ request.size = PlanOf[request.plan].size

(* A retry goes back to a task of its kind and VM; the image found enabled *)
(* is one that was once admitted.                                          *)
FollowUpSound(op) ==
  /\ tx[op].retry =>
       /\ form[op].source \in TaskIds /\ Exists(form[op].source)
       /\ task[form[op].source].kind = tx[op].kind
       /\ task[form[op].source].vm = tx[op].vm
  /\ form[op].checked # None => SafeText(form[op].checked)

FormSound(op) ==
  /\ form[op].kind = "create" => RequestSound(form[op].request)
  /\ form[op].kind = "follow-up" => FollowUpSound(op)

ImagesSafe    == \A i \in Images : image[i] # "absent" => SafeText(i)
SpecsSound    == \A v \in Vms : VmExists(v) => GoodReinstall(spec[v])
PayloadsSound == \A t \in TaskIds : Exists(t) => PayloadSound(t)
FormsSound    == \A op \in Operators : FormSound(op)

CatalogueInv ==
  /\ Linked /\ CatalogueTypeOK
  /\ ImagesSafe /\ SpecsSound /\ PayloadsSound /\ FormsSound

-----------------------------------------------------------------------------
(* Records and tables.                                                     *)

Form == CreateForm \union FollowUpForm \union {NoForm}

LEMMA FormOf ==
  ASSUME CatalogueTypeOK, NEW op \in Operators
  PROVE  /\ form[op].kind = "create" => form[op] \in CreateForm
         /\ form[op].kind = "follow-up" => form[op] \in FollowUpForm
         /\ form[op].kind = "follow-up" <=> Open(op)
<1>1. form[op] \in CreateForm \union FollowUpForm \union {NoForm}
  BY DEF CatalogueTypeOK
<1>2. form[op].kind = "follow-up" <=> Open(op)
  BY Zenon DEF CatalogueTypeOK
<1>3. /\ form[op] \in FollowUpForm => form[op].kind = "follow-up"
      /\ form[op] \in CreateForm => form[op].kind = "create"
  BY DEF FollowUpForm, CreateForm
<1>4. NoForm.kind = "none"
  BY DEF NoForm
<1> QED BY <1>1, <1>2, <1>3, <1>4

LEMMA WithAddressType ==
  ASSUME NEW request \in CreateRequest(Plans), NEW a \in Address
  PROVE  /\ WithAddress(request, Pool, a) \in CreateRequest(Plans)
         /\ WithAddress(request, Pool, a).ip = a
         /\ WithAddress(request, Pool, a).plan = request.plan
         /\ WithAddress(request, Pool, a).size = request.size
<1>1. Pool.prefix \in 0 .. 255
  <2>1. Pool.prefix \in 16 .. 30
    BY PoolAssumption DEF StoredPool, PrefixAllowed
  <2> QED BY <2>1, SMT
<1>2. Pool.gateway \in Address
  BY PoolAssumption DEF StoredPool
<1>3. WithAddress(request, Pool, a) \in CreateRequest(Plans)
  BY <1>1, <1>2, Zenon DEF WithAddress, CreateRequest
<1> QED BY <1>3, Zenon DEF WithAddress, CreateRequest

LEMMA WithSizeType ==
  ASSUME NEW request \in CreateRequest(Plans), NEW size \in Size
  PROVE  /\ WithSize(request, size) \in CreateRequest(Plans)
         /\ WithSize(request, size).ip = request.ip
         /\ WithSize(request, size).plan = request.plan
         /\ WithSize(request, size).size = size
<1>1. WithSize(request, size) \in CreateRequest(Plans)
  BY Zenon DEF WithSize, CreateRequest
<1> QED BY <1>1, Zenon DEF WithSize, CreateRequest

LEMMA PreparedType ==
  ASSUME NEW order \in CreateRequest(Plans)
  PROVE  /\ Prepared(order) \in CreateRequest(Plans)
         /\ Prepared(order).ip = None /\ Prepared(order).plan = order.plan
         /\ order.plan # None => Prepared(order).size = PlanOf[order.plan].size
<1> DEFINE bare == WithoutNetwork(order)
<1>1. /\ bare \in CreateRequest(Plans)
      /\ bare.ip = None /\ bare.plan = order.plan
  BY Zenon DEF WithoutNetwork, CreateRequest
<1> HIDE DEF bare
<1>2. ASSUME NEW size \in Size
      PROVE  /\ WithSize(bare, size) \in CreateRequest(Plans)
             /\ WithSize(bare, size).ip = None /\ WithSize(bare, size).plan = order.plan
             /\ WithSize(bare, size).size = size
  BY <1>1, WithSizeType
<1>3. CASE order.plan = None
  BY <1>1, <1>3 DEF Prepared, bare
<1>4. CASE order.plan # None
  <2>1. order.plan \in Plans
    <3>1. order.plan \in Plans \union {None}
      BY Zenon DEF CreateRequest
    <3> QED BY <3>1, <1>4
  <2>2. PlanOf[order.plan].size \in Size
    BY <2>1, PlansAssumption
  <2>3. Prepared(order) = WithSize(bare, PlanOf[order.plan].size)
    BY <1>4 DEF Prepared, bare
  <2> QED BY <1>2, <2>2, <2>3
<1> QED BY <1>3, <1>4

(* What a queued or stored payload consists of.                            *)
LEMMA GoodParts ==
  /\ \A p : GoodCreate(p) =>
       /\ SafeText(p.image)
       /\ GoodReinstall([name |-> p.name, image |-> p.image,
                         key |-> p.key, disk |-> p.size.disk])
  /\ \A p : GoodReinstall(p) => SafeText(p.image)
  /\ \A p, i : GoodReinstall(p) /\ SafeText(i) => GoodReinstall([p EXCEPT !.image = i])
<1>1. ASSUME NEW p, GoodCreate(p)
      PROVE  /\ SafeText(p.image)
             /\ GoodReinstall([name |-> p.name, image |-> p.image,
                               key |-> p.key, disk |-> p.size.disk])
  <2> DEFINE row == [name |-> p.name, image |-> p.image, key |-> p.key, disk |-> p.size.disk]
  <2>1. /\ p.name \in Text /\ p.image \in Text /\ p.key \in PublicKey \union {None}
        /\ p.size \in Size
    BY <1>1, Zenon DEF GoodCreate, CreateRequest
  <2>2. p.size.disk \in Nat
    BY <2>1 DEF Size
  <2>3. row \in ReinstallPayload
    BY <2>1, <2>2, Zenon DEF ReinstallPayload
  <2>4. /\ ValidVmName(p.name) /\ SafeImageFileName(p.image) /\ ValidSize(p.size)
        /\ p.key # None => ValidPublicKey(p.key)
    BY <1>1, Zenon DEF GoodCreate, ValidForMvp
  <2>5. ValidDisk(p.size.disk)
    BY <2>4, Zenon DEF ValidSize
  <2>6. row.name = p.name /\ row.image = p.image /\ row.key = p.key /\ row.disk = p.size.disk
    BY DEF row
  <2> HIDE DEF row
  <2>7. ValidReinstall(row)
    BY <2>4, <2>5, <2>6, Zenon DEF ValidReinstall
  <2> QED BY <2>1, <2>3, <2>4, <2>7, Zenon DEF row, SafeText, GoodReinstall
<1>2. ASSUME NEW p, GoodReinstall(p) PROVE SafeText(p.image)
  BY <1>2, Zenon DEF GoodReinstall, ReinstallPayload, ValidReinstall, SafeText
<1>3. ASSUME NEW p, NEW i, GoodReinstall(p), SafeText(i)
      PROVE  GoodReinstall([p EXCEPT !.image = i])
  <2> DEFINE row == [p EXCEPT !.image = i]
  <2>1. row \in ReinstallPayload
    BY <1>3, Zenon DEF GoodReinstall, SafeText, ReinstallPayload
  <2>2. row.name = p.name /\ row.image = i /\ row.key = p.key /\ row.disk = p.disk
    BY <1>3, Zenon DEF GoodReinstall, ReinstallPayload
  <2> HIDE DEF row
  <2>3. ValidReinstall(row)
    BY <1>3, <2>2, Zenon DEF GoodReinstall, ValidReinstall, SafeText
  <2> QED BY <2>1, <2>3, Zenon DEF row, GoodReinstall
<1> QED BY <1>1, <1>2, <1>3, Zenon

(* A task that is inserted, and the VM row it makes or finds.              *)
LEMMA Inserted ==
  ASSUME Linked, NEW t \in TaskIds, ~Exists(t), NEW kind \in Kinds, NEW v \in Vms,
         NEW n \in Nodes, VmExists(v) \/ kind = "create", InsertTask(t, kind, v, n)
  PROVE  /\ \A u \in TaskIds : u # t => task'[u] = task[u]
         /\ task'[t].kind = kind /\ task'[t].vm = v
         /\ task'[t].ip \in Addrs \union {NoAddr}
         /\ kind = "create" => (task'[t].ip = NoAddr <=> v \notin Pooled)
         /\ \A u \in TaskIds : Exists(u)' <=> Exists(u) \/ u = t
         /\ \A w \in Vms : VmExists(w)' <=> VmExists(w) \/ w = v
<1>1. PICK ip \in Addrs \union {NoAddr} :
        /\ IF kind = "create" /\ v \in Pooled
           THEN ip # NoAddr /\ NextAddress(v, ip)
           ELSE ip = NoAddr
        /\ Enqueue(t, kind, v, n, ip)
  BY DEF InsertTask
<1>2. /\ task'[t] = [kind |-> kind, vm |-> v, node |-> n, status |-> "pending", ip |-> ip]
      /\ \A u \in TaskIds : u # t => task'[u] = task[u]
  BY <1>1 DEF Enqueue, Linked, TypeOK
<1>3. kind = "create" => (ip = NoAddr <=> v \notin Pooled)
  BY <1>1
<1>4. \A u \in TaskIds : Exists(u)' <=> Exists(u) \/ u = t
  BY <1>2 DEF Exists
<1>5. \A w \in Vms : w # v => vm'[w] = vm[w]
  BY <1>1 DEF Enqueue, Linked, TypeOK
<1>6. VmExists(v)'
  <2>1. vm'[v].status = QueuedStatus(kind, vm[v].status)
    BY <1>1 DEF Enqueue, Linked, TypeOK
  <2>2. kind = "create" => QueuedStatus(kind, vm[v].status) = "provisioning"
    BY DEF QueuedStatus
  <2>3. vm[v].status # "absent" => QueuedStatus(kind, vm[v].status) # "absent"
    BY DEF QueuedStatus
  <2> QED BY <2>1, <2>2, <2>3 DEF VmExists
<1> QED BY <1>2, <1>3, <1>4, <1>5, <1>6 DEF VmExists

-----------------------------------------------------------------------------
(* Catalogue implements Master.                                            *)

(* The steps that write neither tasks nor VMs.                             *)
LEMMA CatalogueStepStutters ==
  ASSUME CatalogueStep PROVE UNCHANGED <<vars, form, payload, spec>>
BY Zenon DEF CatalogueStep, CreatePlan, SetPlanEnabled, CreateImage, SetImageEnabled

LEMMA RequestStepOfMaster ==
  ASSUME CatalogueTypeOK, NEW op \in Operators, RequestStep(op)
  PROVE  OperatorStep(op) \/ UNCHANGED vars
<1>1. CASE \E v \in Vms, n \in Nodes, order \in Orders : BeginCreate(op, v, n, order)
  BY <1>1, Zenon DEF BeginCreate
<1>2. CASE \E t \in TaskIds : FinishCreate(op, t)
  <2>1. PICK t \in TaskIds : FinishCreate(op, t)
    BY <1>2
  <2>2. Creating(op) /\ CreateVm(op, t, form[op].vm, form[op].node)
    BY <2>1, Zenon DEF FinishCreate
  <2>3. form[op].vm \in Vms /\ form[op].node \in Nodes
    BY <2>2, FormOf DEF Creating, CreateForm
  <2> QED BY <2>2, <2>3, Zenon DEF OperatorStep
<1>3. CASE AbandonCreate(op)
  BY <1>3, Zenon DEF AbandonCreate
<1>4. CASE \E t \in TaskIds, v \in Vms, kind \in ActionKinds, asked \in Images \union {None} :
             RequestAction(op, t, v, kind, asked)
  BY <1>4, Zenon DEF RequestAction, OperatorStep
<1>5. CASE \E t \in TaskIds, s \in TaskIds : RequestRetry(op, t, s)
  BY <1>5, Zenon DEF RequestRetry, OperatorStep
<1>6. CASE CheckImage(op)
  BY <1>6, Zenon DEF CheckImage
<1>7. CASE AdmitFollowUp(op)
  BY <1>7, Zenon DEF AdmitFollowUp, OperatorStep
<1>8. CASE RejectFollowUp(op)
  BY <1>8, Zenon DEF RejectFollowUp, OperatorStep
<1> QED BY <1>1, <1>2, <1>3, <1>4, <1>5, <1>6, <1>7, <1>8, Zenon DEF RequestStep

LEMMA StepOfMaster ==
  ASSUME CatalogueTypeOK, [CatalogueNext]_allVars
  PROVE  [Next]_vars
<1>1. CASE CatalogueStep
  BY <1>1, CatalogueStepStutters
<1>2. ASSUME NEW op \in Operators, RequestStep(op) PROVE [Next]_vars
  BY <1>2, RequestStepOfMaster, Zenon DEF Next
<1>3. ASSUME NEW n \in Nodes, NEW t \in TaskIds, NEW status \in TaskStatuses,
             ReportStatus(n, t, status)
      PROVE  [Next]_vars
  BY <1>3, Zenon DEF ReportStatus, Next, AgentStep
<1>4. CASE OtherStep
  BY <1>4, Zenon DEF OtherStep, Next, AgentStep
<1>5. CASE UNCHANGED allVars
  BY <1>5, Zenon DEF allVars
<1> QED BY <1>1, <1>2, <1>3, <1>4, <1>5, Zenon DEF CatalogueNext

-----------------------------------------------------------------------------
(* What no step changes.                                                   *)

(* A task keeps its kind, its VM and its address, and a VM its row.        *)
LEMMA RowsKept ==
  ASSUME Linked, [Next]_vars
  PROVE  /\ \A t \in TaskIds : Exists(t) =>
              /\ Exists(t)'
              /\ task'[t].kind = task[t].kind /\ task'[t].vm = task[t].vm
              /\ task'[t].ip = task[t].ip
         /\ \A v \in Vms : VmExists(v) => VmExists(v)'
<1> DEFINE Kept == /\ \A t \in TaskIds : Exists(t) =>
                        /\ Exists(t)'
                        /\ task'[t].kind = task[t].kind /\ task'[t].vm = task[t].vm
                        /\ task'[t].ip = task[t].ip
                   /\ \A v \in Vms : VmExists(v) => VmExists(v)'
<1>1. ASSUME NEW t \in TaskIds, ~Exists(t), NEW kind \in Kinds, NEW v \in Vms, NEW n \in Nodes,
             VmExists(v) \/ kind = "create", InsertTask(t, kind, v, n)
      PROVE  Kept
  <2>1. /\ \A u \in TaskIds : u # t => task'[u] = task[u]
        /\ \A u \in TaskIds : Exists(u)' <=> Exists(u) \/ u = t
        /\ \A w \in Vms : VmExists(w)' <=> VmExists(w) \/ w = v
    BY <1>1, Inserted
  <2> QED BY <1>1, <2>1
<1>2. ASSUME NEW t \in TaskIds, Exists(t), NEW status \in TaskStatuses,
             task' = [task EXCEPT ![t].status = status]
      PROVE  \A u \in TaskIds : Exists(u) =>
               /\ task'[u].kind = task[u].kind /\ task'[u].vm = task[u].vm
               /\ task'[u].ip = task[u].ip /\ Exists(u)'
  <2>1. task[t] \in Task
    BY <1>2, ExistingTask DEF Linked
  <2>2. status # "absent"
    BY DEF TaskStatuses, Active, Terminal, Unsuccessful
  <2>3. /\ task'[t].kind = task[t].kind /\ task'[t].vm = task[t].vm
        /\ task'[t].ip = task[t].ip /\ task'[t].status = status
    BY <1>2, <2>1 DEF Linked, TypeOK, Task
  <2>4. \A u \in TaskIds : u # t => task'[u] = task[u]
    BY <1>2 DEF Linked, TypeOK
  <2> QED BY <2>2, <2>3, <2>4 DEF Exists
<1>3. CASE CreateSteps
  <2>1. PICK t \in TaskIds, v \in Vms, n \in Nodes :
          Unused(t) /\ InsertTask(t, "create", v, n)
    BY <1>3 DEF CreateSteps, CreateVm, IsNextId, TaskIds
  <2> QED BY <2>1, <1>1 DEF Unused, Kinds
<1>4. CASE StatusSteps
  <2>1. PICK t \in TaskIds, status \in TaskStatuses :
          /\ task[t].status \in Active
          /\ task' = [task EXCEPT ![t].status = status]
          /\ ApplyTaskStatus(t, status)
    BY <1>4, StatusStepEffect
  <2>2. Exists(t)
    BY <2>1 DEF Exists, Active
  <2>3. \A w \in Vms : VmExists(w)' <=> VmExists(w)
    BY <2>1, <2>2, ApplyTaskStatusLinks
  <2> QED BY <2>1, <2>2, <2>3, <1>2
<1>5. CASE ClaimSteps
  <2>1. PICK t \in TaskIds : /\ task[t].status = "pending"
                             /\ task' = [task EXCEPT ![t].status = "assigned"] /\ vm' = vm
    BY <1>5 DEF ClaimSteps, ClaimNext
  <2>2. Exists(t) /\ "assigned" \in TaskStatuses
    BY <2>1 DEF Exists, TaskStatuses, Active
  <2> QED BY <2>1, <2>2, <1>2 DEF VmExists
<1>6. ASSUME NEW op \in Operators, Admit(op) PROVE Kept
  <2>1. /\ tx[op].id \in TaskIds /\ tx[op].kind \in Kinds /\ tx[op].vm \in Vms
        /\ ~Exists(tx[op].id) /\ VmExists(tx[op].vm) /\ vm[tx[op].vm].node \in Nodes
        /\ InsertTask(tx[op].id, tx[op].kind, tx[op].vm, vm[tx[op].vm].node)
    BY <1>6, AdmitUse DEF OpenTx, Vm
  <2> QED BY <2>1, <1>1
<1>7. CASE UNCHANGED <<task, vm>>
  BY <1>7 DEF Exists, VmExists
<1>8. BeginSteps \/ NodeSteps \/ (\E op \in Operators : Reject(op)) \/ UNCHANGED vars
        => UNCHANGED <<task, vm>>
  BY DEF BeginSteps, BeginAction, BeginRetry, OpenAdmission, NodeSteps, SetScheduling,
         RecordHeartbeat, HeartbeatGoesStale, Reject, vars
<1> QED BY NextCases, <1>3, <1>4, <1>5, <1>6, <1>7, <1>8

(* What remains to be shown of a step that Master knows.                   *)
Remainder == CatalogueTypeOK /\ ImagesSafe /\ SpecsSound /\ PayloadsSound /\ FormsSound

LEMMA PayloadKept ==
  ASSUME CatalogueInv, [Next]_vars, NEW t \in TaskIds, Exists(t), payload'[t] = payload[t]
  PROVE  PayloadSound(t)'
<1>1. PayloadSound(t)
  BY DEF CatalogueInv, PayloadsSound
<1>2. /\ task'[t].kind = task[t].kind /\ task'[t].vm = task[t].vm
      /\ task'[t].ip = task[t].ip
  BY RowsKept DEF CatalogueInv
<1> QED BY <1>1, <1>2, Zenon DEF PayloadSound, RecordedIp

LEMMA FormKept ==
  ASSUME CatalogueInv, [Next]_vars, NEW op \in Operators,
         form'[op] = form[op], tx'[op] = tx[op],
         form[op].kind = "create" /\ form[op].request.plan # None =>
           plan'[form[op].request.plan] = plan[form[op].request.plan]
  PROVE  FormSound(op)'
<1>1. FormSound(op)
  BY DEF CatalogueInv, FormsSound
<1>2. CASE form[op].kind = "create"
  <2>1. RequestSound(form[op].request) /\ form'[op].kind # "follow-up"
    BY <1>1, <1>2 DEF FormSound
  <2>2. RequestSound(form[op].request)'
    BY <2>1, <1>2, Zenon DEF RequestSound
  <2> QED BY <2>1, <2>2, Zenon DEF FormSound
<1>3. CASE form[op].kind = "follow-up"
  <2>1. FollowUpSound(op) /\ form'[op].kind # "create"
    BY <1>1, <1>3 DEF FormSound
  <2>2. FollowUpSound(op)'
    <3>1. tx[op].retry =>
            /\ form[op].source \in TaskIds /\ Exists(form[op].source)
            /\ task[form[op].source].kind = tx[op].kind
            /\ task[form[op].source].vm = tx[op].vm
      BY <2>1, Zenon DEF FollowUpSound
    <3>2. ASSUME tx[op].retry
          PROVE  /\ task'[form[op].source].kind = tx[op].kind
                 /\ task'[form[op].source].vm = tx[op].vm
                 /\ task'[form[op].source].status # "absent"
      <4> DEFINE s == form[op].source
      <4>1. s \in TaskIds /\ Exists(s)
        BY <3>1, <3>2
      <4>2. Exists(s)' /\ task'[s].kind = task[s].kind /\ task'[s].vm = task[s].vm
        <5>1. PICK u \in TaskIds : u = s
          BY <4>1
        <5>2. Exists(u)' /\ task'[u].kind = task[u].kind /\ task'[u].vm = task[u].vm
          BY <5>1, <4>1, RowsKept DEF CatalogueInv
        <5> QED BY <5>1, <5>2 DEF Exists
      <4> QED BY <4>2, <3>1, <3>2 DEF Exists
    <3>3. form[op].checked # None => SafeText(form[op].checked)
      BY <2>1, Zenon DEF FollowUpSound
    <3> QED BY <3>1, <3>2, <3>3, Zenon DEF FollowUpSound, Exists
  <2> QED BY <2>1, <2>2, Zenon DEF FormSound
<1>4. CASE form[op].kind # "create" /\ form[op].kind # "follow-up"
  BY <1>4, Zenon DEF FormSound
<1> QED BY <1>2, <1>3, <1>4

(* A step that fills, changes or drops what one operator's request carries *)
(* keeps the other requests as they are.                                   *)
LEMMA OneFormChanges ==
  ASSUME CatalogueInv, [Next]_vars, NEW op \in Operators, NEW r \in Form,
         form' = [form EXCEPT ![op] = r], UNCHANGED <<plan, image>>,
         \A o \in Operators : o # op => tx'[o] = tx[o],
         (r.kind = "follow-up") <=> (tx'[op].id # NoTask),
         FormSound(op)',
         payload' \in [TaskIds -> Payload \union {None}],
         spec' \in [Vms -> ReinstallPayload \union {None}],
         PayloadsSound', SpecsSound'
  PROVE  Remainder'
<1>1. form \in [Operators -> Form]
  BY DEF CatalogueInv, CatalogueTypeOK, Form
<1>2. /\ form' \in [Operators -> Form] /\ form'[op] = r
      /\ \A o \in Operators : o # op => form'[o] = form[o]
  BY <1>1
<1>3. \A o \in Operators : form[o].kind = "follow-up" <=> tx[o].id # NoTask
  BY Zenon DEF CatalogueInv, CatalogueTypeOK, Open
<1>4. \A o \in Operators : form'[o].kind = "follow-up" <=> tx'[o].id # NoTask
  BY <1>2, <1>3
<1>5. CatalogueTypeOK'
  BY <1>2, <1>4, Zenon DEF CatalogueInv, CatalogueTypeOK, Form, Open
<1>6. ImagesSafe'
  BY Zenon DEF CatalogueInv, ImagesSafe
<1>7. ASSUME NEW o \in Operators PROVE FormSound(o)'
  <2>1. CASE o = op
    BY <2>1
  <2>2. CASE o # op
    BY <2>2, <1>2, FormKept
  <2> QED BY <2>1, <2>2
<1> QED BY <1>5, <1>6, <1>7, Zenon DEF Remainder, FormsSound

(* Where no task is inserted and no VM row is new, what is kept of them    *)
(* stays sound.                                                            *)
LEMMA RowsStaySound ==
  ASSUME CatalogueInv, [Next]_vars, UNCHANGED <<task, vm, payload, spec>>
  PROVE  /\ payload' \in [TaskIds -> Payload \union {None}]
         /\ spec' \in [Vms -> ReinstallPayload \union {None}]
         /\ PayloadsSound' /\ SpecsSound'
<1>1. /\ payload' \in [TaskIds -> Payload \union {None}]
      /\ spec' \in [Vms -> ReinstallPayload \union {None}]
  BY Zenon DEF CatalogueInv, CatalogueTypeOK
<1>2. PayloadsSound'
  <2>1. ASSUME NEW t \in TaskIds, Exists(t)' PROVE PayloadSound(t)'
    <3>1. Exists(t)
      BY <2>1 DEF Exists
    <3> QED BY <3>1, PayloadKept
  <2> QED BY <2>1, Zenon DEF PayloadsSound
<1>3. SpecsSound'
  BY Zenon DEF CatalogueInv, SpecsSound, VmExists
<1> QED BY <1>1, <1>2, <1>3

-----------------------------------------------------------------------------
(* The steps.                                                              *)

LEMMA ImageIsSafe ==
  ASSUME CatalogueInv, NEW i, ImageEnabled(i)
  PROVE  SafeText(i)
<1>1. i \in Images /\ image[i] = "enabled"
  BY Zenon DEF ImageEnabled
<1> QED BY <1>1 DEF CatalogueInv, ImagesSafe

LEMMA SwitchKeeps ==
  ASSUME CatalogueInv, [Next]_vars, CatalogueStep
  PROVE  Remainder'
<1>1. UNCHANGED <<vars, form, payload, spec>>
  BY CatalogueStepStutters
<1>2. /\ plan \in [Plans -> Switch] /\ image \in [Images -> Switch]
      /\ "enabled" \in Switch /\ "disabled" \in Switch
  BY DEF CatalogueInv, CatalogueTypeOK, Switch
<1>3. /\ plan' \in [Plans -> Switch]
      /\ \A p \in Plans : ShareLocked(p) /\ plan[p] = "enabled" => plan'[p] = plan[p]
  <2>1. ASSUME NEW p \in Plans, NEW enabled \in BOOLEAN,
               plan' = PlanSet(p, enabled), plan[p] = "absent" \/ ~ShareLocked(p)
        PROVE  <1>3!:
    <3>1. PICK s \in Switch : plan' = [plan EXCEPT ![p] = s]
      BY <1>2, <2>1, Zenon DEF PlanSet
    <3>2. /\ plan' \in [Plans -> Switch]
          /\ \A q \in Plans : q # p => plan'[q] = plan[q]
      BY <1>2, <3>1
    <3> QED BY <2>1, <3>2
  <2>2. CASE UNCHANGED plan
    BY <1>2, <2>2
  <2>3. \/ UNCHANGED plan
        \/ \E p \in Plans, enabled \in BOOLEAN :
             plan' = PlanSet(p, enabled) /\ (plan[p] = "absent" \/ ~ShareLocked(p))
    BY Zenon DEF CatalogueStep, CreatePlan, SetPlanEnabled, CreateImage, SetImageEnabled
  <2> QED BY <2>1, <2>2, <2>3
<1>4. image' \in [Images -> Switch] /\ ImagesSafe'
  <2>1. ASSUME NEW i \in Images, NEW enabled \in BOOLEAN,
               image' = ImageSet(i, enabled), SafeText(i)
        PROVE  <1>4!:
    <3>1. PICK s \in Switch : image' = [image EXCEPT ![i] = s]
      BY <1>2, <2>1, Zenon DEF ImageSet
    <3>2. /\ image' \in [Images -> Switch]
          /\ \A j \in Images : j # i => image'[j] = image[j]
      BY <1>2, <3>1
    <3>3. \A j \in Images : image[j] # "absent" => SafeText(j)
      BY Zenon DEF CatalogueInv, ImagesSafe
    <3>4. \A j \in Images : image'[j] # "absent" => SafeText(j)
      <4> SUFFICES ASSUME NEW j \in Images, image'[j] # "absent" PROVE SafeText(j)
        OBVIOUS
      <4>1. CASE j = i
        BY <2>1, <4>1
      <4>2. CASE j # i
        <5>1. image[j] # "absent"
          BY <3>2, <4>2
        <5> QED BY <3>3, <5>1, Zenon
      <4> QED BY <4>1, <4>2
    <3> QED BY <3>2, <3>4, Zenon DEF ImagesSafe
  <2>2. CASE UNCHANGED image
    BY <1>2, <2>2, Zenon DEF CatalogueInv, ImagesSafe
  <2>3. \/ UNCHANGED image
        \/ \E i \in Images, enabled \in BOOLEAN :
             /\ image' = ImageSet(i, enabled)
             /\ image[i] # "absent" \/ ImageAccepted(TitleOf[i], i)
    BY Zenon DEF CatalogueStep, CreatePlan, SetPlanEnabled, CreateImage, SetImageEnabled
  <2>4. ASSUME NEW i \in Images, image[i] # "absent" \/ ImageAccepted(TitleOf[i], i)
        PROVE  SafeText(i)
    BY <2>4, ImagesAssumption, Zenon DEF ImageAccepted, SafeText, CatalogueInv, ImagesSafe
  <2> QED BY <2>1, <2>2, <2>3, <2>4
<1>5. FormsSound'
  <2>1. ASSUME NEW op \in Operators PROVE FormSound(op)'
    <3>1. form'[op] = form[op] /\ tx'[op] = tx[op]
      BY <1>1 DEF vars
    <3>2. ASSUME form[op].kind = "create", form[op].request.plan # None
          PROVE  plan'[form[op].request.plan] = plan[form[op].request.plan]
      <4>1. form[op].request \in CreateRequest(Plans)
        BY <3>2, FormOf DEF CatalogueInv, CreateForm
      <4>2. form[op].request.plan \in Plans
        <5>1. form[op].request.plan \in Plans \union {None}
          BY <4>1, Zenon DEF CreateRequest
        <5> QED BY <3>2, <5>1
      <4>3. plan[form[op].request.plan] = "enabled"
        <5>1. RequestSound(form[op].request)
          BY <3>2, Zenon DEF CatalogueInv, FormsSound, FormSound
        <5> QED BY <5>1, <3>2, Zenon DEF RequestSound
      <4>4. ShareLocked(form[op].request.plan)
        BY <3>2, Zenon DEF ShareLocked, Creating
      <4> QED BY <4>2, <4>3, <4>4, <1>3, Zenon
    <3> QED BY <3>1, <3>2, FormKept
  <2> QED BY <2>1, Zenon DEF FormsSound
<1>6. CatalogueTypeOK'
  BY <1>1, <1>3, <1>4, Zenon DEF CatalogueInv, CatalogueTypeOK, vars, Open
<1>7. PayloadsSound' /\ SpecsSound'
  BY <1>1, RowsStaySound DEF vars
<1> QED BY <1>4, <1>5, <1>6, <1>7, Zenon DEF Remainder

LEMMA BeginCreateKeeps ==
  ASSUME CatalogueInv, [Next]_vars, NEW op \in Operators, NEW v \in Vms, NEW n \in Nodes,
         NEW order \in Orders, BeginCreate(op, v, n, order)
  PROVE  Remainder'
<1> DEFINE r == [kind |-> "create", vm |-> v, node |-> n, request |-> Prepared(order)]
<1>1. order \in CreateRequest(Plans)
  BY OrdersAssumption
<1>2. /\ ~Open(op) /\ (order.plan # None => plan[order.plan] = "enabled")
      /\ ValidForMvp(Prepared(order))
      /\ form' = [form EXCEPT ![op] = r]
      /\ UNCHANGED <<vars, plan, image, payload, spec>>
  BY Zenon DEF BeginCreate
<1>3. Prepared(order) \in CreateRequest(Plans)
  BY <1>1, PreparedType
<1>4. r \in Form /\ r.kind = "create" /\ r.request = Prepared(order)
  BY <1>3, Zenon DEF Form, CreateForm
<1>5. RequestSound(Prepared(order))'
  BY <1>1, <1>2, <1>3, PreparedType, Zenon DEF RequestSound, GoodCreate
<1> HIDE DEF r
<1>6. form'[op] = r
  BY <1>2 DEF CatalogueInv, CatalogueTypeOK
<1>7. FormSound(op)'
  BY <1>4, <1>5, <1>6, Zenon DEF FormSound
<1>8. /\ \A o \in Operators : tx'[o] = tx[o]
      /\ tx'[op].id = NoTask /\ UNCHANGED <<task, vm>>
  BY <1>2 DEF vars, Open
<1>9. r.kind # "follow-up"
  BY <1>4
<1> QED BY <1>2, <1>4, <1>7, <1>8, <1>9, RowsStaySound, OneFormChanges

(* A request that is dropped. *)
LEMMA DroppedFormKeeps ==
  ASSUME CatalogueInv, [Next]_vars, NEW op \in Operators,
         form' = [form EXCEPT ![op] = NoForm], UNCHANGED <<plan, image>>,
         \A o \in Operators : o # op => tx'[o] = tx[o], tx'[op].id = NoTask,
         payload' \in [TaskIds -> Payload \union {None}],
         spec' \in [Vms -> ReinstallPayload \union {None}],
         PayloadsSound', SpecsSound'
  PROVE  Remainder'
<1>1. NoForm \in Form /\ NoForm.kind = "none"
  BY DEF Form, NoForm
<1>2. form'[op] = NoForm
  BY DEF CatalogueInv, CatalogueTypeOK
<1>3. form'[op].kind # "create" /\ form'[op].kind # "follow-up"
  BY <1>1, <1>2
<1>4. FormSound(op)'
  BY <1>3, Zenon DEF FormSound
<1>5. NoForm.kind # "follow-up"
  BY <1>1
<1> QED BY <1>1, <1>4, <1>5, OneFormChanges

LEMMA AbandonKeeps ==
  ASSUME CatalogueInv, [Next]_vars, NEW op \in Operators,
         AbandonCreate(op) \/ RejectFollowUp(op)
  PROVE  Remainder'
<1>1. /\ form' = [form EXCEPT ![op] = NoForm]
      /\ UNCHANGED <<task, vm, plan, image, payload, spec>>
  BY Zenon DEF AbandonCreate, RejectFollowUp, Reject, vars
<1>2. /\ \A o \in Operators : o # op => tx'[o] = tx[o]
      /\ tx'[op].id = NoTask
  <2>1. CASE AbandonCreate(op)
    <3>1. Creating(op) /\ tx' = tx
      BY <2>1, Zenon DEF AbandonCreate, vars
    <3>2. ~Open(op)
      BY <3>1, FormOf DEF CatalogueInv, Creating
    <3> QED BY <3>1, <3>2 DEF Open
  <2>2. CASE RejectFollowUp(op)
    <3>1. tx' = [tx EXCEPT ![op] = NoTx]
      BY <2>2, Zenon DEF RejectFollowUp, Reject
    <3> QED BY <3>1 DEF CatalogueInv, Linked, TypeOK, NoTx
  <2> QED BY <2>1, <2>2
<1> QED BY <1>1, <1>2, RowsStaySound, DroppedFormKeeps

(* The payload of a task that takes an address, or none.                   *)
LEMMA PayloadWithSound ==
  ASSUME NEW request, GoodCreate(request), NEW ip \in Addrs \union {NoAddr},
         ip = NoAddr => request.ip = None
  PROVE  LET p == PayloadWith(request, ip)
         IN  /\ p \in CreateRequest(Plans)
             /\ p.ip = (IF ip = NoAddr THEN None ELSE ip)
             /\ p.plan = request.plan /\ p.size = request.size
             /\ ip = NoAddr => GoodCreate(p)
<1>1. request \in CreateRequest(Plans)
  BY Zenon DEF GoodCreate
<1>2. CASE ip = NoAddr
  <2>1. PayloadWith(request, ip) = request
    BY <1>2 DEF PayloadWith
  <2> QED BY <1>1, <1>2, <2>1
<1>3. CASE ip # NoAddr
  <2>1. ip \in Address
    <3>1. ip \in UsableHosts(Pool)
      BY <1>3, AddressAssumption DEF Candidates
    <3>2. Pool.prefix \in Int /\ PrefixAllowed(Pool.prefix) /\ Pool.network \in Address
      <4>1. Pool.prefix \in 16 .. 30
        BY PoolAssumption DEF StoredPool, PrefixAllowed
      <4> QED BY <4>1, PoolAssumption DEF StoredPool
    <3>3. NetworkOf(Pool.network, Pool.prefix) = Pool.network
      BY PoolAssumption DEF StoredPool
    <3> QED BY <3>1, <3>2, <3>3, UsableAreHosts
  <2>2. PayloadWith(request, ip) = WithAddress(request, Pool, ip)
    BY <1>3 DEF PayloadWith
  <2> QED BY <1>1, <1>3, <2>1, <2>2, WithAddressType
<1> QED BY <1>2, <1>3

LEMMA FinishCreateKeeps ==
  ASSUME CatalogueInv, [Next]_vars, NEW op \in Operators, NEW t \in TaskIds,
         FinishCreate(op, t)
  PROVE  /\ Remainder'
         /\ payload'[t].plan = form[op].request.plan
         /\ payload'[t].size = form[op].request.size
         /\ ~Exists(t) /\ \A u \in TaskIds : Exists(u)' <=> Exists(u) \/ u = t
<1> DEFINE v == form[op].vm
           n == form[op].node
           request == form[op].request
           row == [name |-> request.name, image |-> request.image,
                   key |-> request.key, disk |-> request.size.disk]
<1>1. /\ Creating(op) /\ CreateVm(op, t, v, n)
      /\ payload' = [payload EXCEPT ![t] = PayloadWith(request, task'[t].ip)]
      /\ ValidForMvp(payload'[t])
      /\ spec' = [spec EXCEPT ![v] = row]
      /\ form' = [form EXCEPT ![op] = NoForm]
      /\ UNCHANGED <<plan, image>>
  BY Zenon DEF FinishCreate
<1>2. v \in Vms /\ n \in Nodes /\ RequestSound(request)
  BY <1>1, FormOf, Zenon DEF CatalogueInv, FormsSound, FormSound, Creating, CreateForm
<1>3. /\ ~Open(op) /\ Unused(t) /\ ~VmExists(v) /\ tx' = tx
      /\ InsertTask(t, "create", v, n)
  BY <1>1 DEF CreateVm, IsNextId, TaskIds
<1>4. ~Exists(t)
  BY <1>3 DEF Unused
<1>5. /\ task'[t].kind = "create" /\ task'[t].vm = v
      /\ task'[t].ip \in Addrs \union {NoAddr}
      /\ task'[t].ip = NoAddr <=> v \notin Pooled
      /\ \A u \in TaskIds : Exists(u)' <=> Exists(u) \/ u = t
      /\ \A w \in Vms : VmExists(w)' <=> VmExists(w) \/ w = v
  BY <1>2, <1>3, <1>4, Inserted DEF CatalogueInv, Kinds
<1> HIDE DEF v, n, request, row
<1>6. GoodCreate(request) /\ request.ip = None
  BY <1>2, Zenon DEF RequestSound
<1>7. /\ payload'[t] = PayloadWith(request, task'[t].ip)
      /\ \A u \in TaskIds : u # t => payload'[u] = payload[u]
  BY <1>1 DEF CatalogueInv, CatalogueTypeOK
<1>8. /\ payload'[t] \in CreateRequest(Plans)
      /\ payload'[t].ip = (IF task'[t].ip = NoAddr THEN None ELSE task'[t].ip)
      /\ payload'[t].plan = request.plan /\ payload'[t].size = request.size
  BY <1>5, <1>6, <1>7, PayloadWithSound
<1>9. GoodCreate(payload'[t])
  BY <1>1, <1>8, Zenon DEF GoodCreate
<1>10. payload' \in [TaskIds -> Payload \union {None}]
  <2>1. payload'[t] \in Payload
    BY <1>8 DEF Payload
  <2> QED BY <2>1, <1>1, <1>7 DEF CatalogueInv, CatalogueTypeOK
<1>11. PayloadsSound'
  <2>1. ASSUME NEW u \in TaskIds, Exists(u)' PROVE PayloadSound(u)'
    <3>1. CASE u = t
      <4>1. "create" # "reinstall"
        OBVIOUS
      <4> QED BY <3>1, <4>1, <1>5, <1>8, <1>9, Zenon DEF PayloadSound, RecordedIp
    <3>2. CASE u # t
      BY <2>1, <3>2, <1>5, <1>7, PayloadKept
    <3> QED BY <3>1, <3>2
  <2> QED BY <2>1, Zenon DEF PayloadsSound
<1>12. GoodReinstall(row)
  BY <1>6, GoodParts DEF row
<1>13. /\ spec'[v] = row
       /\ \A w \in Vms : w # v => spec'[w] = spec[w]
  BY <1>1, <1>2 DEF CatalogueInv, CatalogueTypeOK
<1>14. spec' \in [Vms -> ReinstallPayload \union {None}]
  <2>1. row \in ReinstallPayload
    BY <1>12, Zenon DEF GoodReinstall
  <2> QED BY <2>1, <1>1 DEF CatalogueInv, CatalogueTypeOK
<1>15. SpecsSound'
  <2>1. ASSUME NEW w \in Vms, VmExists(w)' PROVE GoodReinstall(spec'[w])
    BY <2>1, <1>5, <1>12, <1>13, Zenon DEF CatalogueInv, SpecsSound
  <2> QED BY <2>1, Zenon DEF SpecsSound, GoodReinstall
<1>16. Remainder'
  <2>1. tx'[op].id = NoTask
    BY <1>3 DEF Open
  <2> QED BY <1>1, <1>3, <1>10, <1>11, <1>14, <1>15, <2>1, DroppedFormKeeps
<1> QED BY <1>4, <1>5, <1>8, <1>16 DEF request

(* A follow-up request that begins.                                        *)
LEMMA OpenFormKeeps ==
  ASSUME CatalogueInv, [Next]_vars, NEW op \in Operators, NEW t \in TaskIds, NEW v \in Vms,
         NEW kind \in Kinds, NEW retry \in BOOLEAN,
         NEW source \in TaskIds \union {NoTask}, NEW asked \in Images \union {None}, NEW checked,
         OpenAdmission(op, t, v, kind, retry), OpenForm(op, source, asked, checked),
         checked # None => SafeText(checked),
         retry => source \in TaskIds /\ Exists(source)
                  /\ task[source].kind = kind /\ task[source].vm = v
  PROVE  Remainder'
<1> DEFINE r == [kind |-> "follow-up", source |-> source, image |-> asked, checked |-> checked]
<1>1. /\ form' = [form EXCEPT ![op] = r]
      /\ UNCHANGED <<task, vm, plan, image, payload, spec>>
  BY Zenon DEF OpenForm, OpenAdmission
<1>2. checked \in Text \union {None}
  BY Zenon DEF SafeText
<1>3. r \in Form /\ r.kind = "follow-up" /\ r.source = source /\ r.checked = checked
  BY <1>2, Zenon DEF Form, FollowUpForm
<1> HIDE DEF r
<1>4. /\ tx'[op].id = t /\ tx'[op].retry = retry /\ tx'[op].kind = kind /\ tx'[op].vm = v
      /\ \A o \in Operators : o # op => tx'[o] = tx[o]
  BY DEF OpenAdmission, CatalogueInv, Linked, TypeOK
<1>5. t # NoTask
  BY NullAssumption
<1>6. form'[op] = r
  BY <1>1 DEF CatalogueInv, CatalogueTypeOK
<1>7. FollowUpSound(op)'
  <2>1. task' = task /\ form'[op].source = source /\ form'[op].checked = checked
    BY <1>1, <1>3, <1>6
  <2> QED BY <1>4, <2>1, Zenon DEF FollowUpSound, Exists
<1>8. FormSound(op)'
  <2>1. form'[op].kind = "follow-up" /\ form'[op].kind # "create"
    BY <1>3, <1>6
  <2> QED BY <1>7, <2>1, Zenon DEF FormSound
<1> QED BY <1>1, <1>3, <1>4, <1>5, <1>8, RowsStaySound, OneFormChanges

LEMMA RequestActionKeeps ==
  ASSUME CatalogueInv, [Next]_vars, NEW op \in Operators, NEW t \in TaskIds, NEW v \in Vms,
         NEW kind \in ActionKinds, NEW asked \in Images \union {None},
         RequestAction(op, t, v, kind, asked)
  PROVE  Remainder'
<1>1. OpenAdmission(op, t, v, kind, FALSE) /\ OpenForm(op, NoTask, asked, None)
  BY Zenon DEF RequestAction, BeginAction
<1>2. kind \in Kinds
  BY DEF Kinds
<1> QED BY <1>1, <1>2, OpenFormKeeps

LEMMA RequestRetryKeeps ==
  ASSUME CatalogueInv, [Next]_vars, NEW op \in Operators, NEW t \in TaskIds,
         NEW s \in TaskIds, RequestRetry(op, t, s)
  PROVE  Remainder'
<1>1. /\ task[s].status \in Unsuccessful
      /\ OpenAdmission(op, t, task[s].vm, task[s].kind, TRUE)
  BY Zenon DEF RequestRetry, BeginRetry
<1>2. Exists(s) /\ task[s].kind \in Kinds /\ task[s].vm \in Vms
  <2>1. Exists(s)
    BY <1>1 DEF Exists, Unsuccessful
  <2> QED BY <2>1, ExistingTask DEF CatalogueInv, Linked, Task
<1>3. PICK v \in Vms, kind \in Kinds : v = task[s].vm /\ kind = task[s].kind
  BY <1>2
<1>4. CASE HasImage(task[s].kind)
  <2>1. ImageEnabled(payload[s].image) /\ OpenForm(op, s, None, payload[s].image)
    BY <1>4, Zenon DEF RequestRetry
  <2>2. SafeText(payload[s].image)
    BY <2>1, ImageIsSafe
  <2> QED BY <1>1, <1>2, <1>3, <2>1, <2>2, OpenFormKeeps
<1>5. CASE ~HasImage(task[s].kind)
  <2>1. OpenForm(op, s, None, None)
    BY <1>5, Zenon DEF RequestRetry
  <2> QED BY <1>1, <1>2, <1>3, <2>1, OpenFormKeeps
<1> QED BY <1>4, <1>5

LEMMA CheckImageKeeps ==
  ASSUME CatalogueInv, [Next]_vars, NEW op \in Operators, CheckImage(op)
  PROVE  Remainder'
<1> DEFINE r == [form[op] EXCEPT !.checked = ReinstallImage(op)]
<1>1. /\ Open(op) /\ ~tx[op].retry /\ ImageEnabled(ReinstallImage(op))
      /\ form' = [form EXCEPT ![op].checked = ReinstallImage(op)]
      /\ UNCHANGED <<vars, plan, image, payload, spec>>
  BY Zenon DEF CheckImage
<1>2. form[op] \in FollowUpForm
  BY <1>1, FormOf DEF CatalogueInv
<1>3. SafeText(ReinstallImage(op))
  BY <1>1, ImageIsSafe
<1>4. ReinstallImage(op) \in Text \union {None}
  BY <1>3, Zenon DEF SafeText
<1>5. r \in FollowUpForm
  BY <1>2, <1>4, Zenon DEF FollowUpForm
<1>6. r.checked = ReinstallImage(op) /\ r.kind = "follow-up"
  BY <1>2, Zenon DEF FollowUpForm
<1>7. form' = [form EXCEPT ![op] = r]
  BY <1>1
<1> HIDE DEF r
<1>8. r \in Form
  BY <1>5 DEF Form
<1>9. form'[op] = r
  BY <1>7 DEF CatalogueInv, CatalogueTypeOK
<1>10. UNCHANGED <<task, vm, tx>>
  BY <1>1 DEF vars
<1>11. FormSound(op)'
  <2>1. ~tx'[op].retry
    BY <1>1, <1>10, Zenon
  <2>2. form'[op].kind # "create" /\ form'[op].checked = ReinstallImage(op)
    BY <1>6, <1>9
  <2> QED BY <1>3, <2>1, <2>2, Zenon DEF FormSound, FollowUpSound
<1>12. tx'[op].id # NoTask
  BY <1>1, <1>10 DEF Open
<1>13. \A o \in Operators : tx'[o] = tx[o]
  BY <1>10
<1>14. /\ payload' \in [TaskIds -> Payload \union {None}]
       /\ spec' \in [Vms -> ReinstallPayload \union {None}]
       /\ PayloadsSound' /\ SpecsSound' /\ UNCHANGED <<plan, image>>
  BY <1>1, <1>10, RowsStaySound
<1> QED BY <1>6, <1>7, <1>8, <1>11, <1>12, <1>13, <1>14, OneFormChanges

(* The handlers of OtherStep.                                              *)
LEMMA OtherKeeps ==
  ASSUME CatalogueInv, [Next]_vars, OtherStep \/ UNCHANGED allVars
  PROVE  Remainder' /\ \A t \in TaskIds : Exists(t)' => Exists(t)
<1>1. UNCHANGED catalogue
  BY Zenon DEF OtherStep, allVars
<1>2. UNCHANGED <<plan, image, form, payload, spec>>
  BY <1>1, Zenon DEF catalogue
<1>3. /\ tx' = tx
      /\ \A t \in TaskIds : Exists(t)' => Exists(t)
      /\ \A v \in Vms : VmExists(v)' => VmExists(v)
  <2>1. CASE StatusSteps
    <3>1. PICK t \in TaskIds, status \in TaskStatuses :
            /\ task[t].status \in Active
            /\ task' = [task EXCEPT ![t].status = status]
            /\ ApplyTaskStatus(t, status) /\ tx' = tx
      BY <2>1, StatusStepEffect
    <3>2. Exists(t)
      BY <3>1 DEF Exists, Active
    <3> QED BY <3>1, <3>2, ApplyTaskStatusLinks DEF CatalogueInv
  <2>2. CASE ClaimSteps
    <3>1. PICK n \in Nodes, t \in TaskIds : ClaimNext(n, t)
      BY <2>2 DEF ClaimSteps
    <3>2. /\ task[t].status = "pending" /\ task' = [task EXCEPT ![t].status = "assigned"]
          /\ UNCHANGED <<vm, tx>>
      BY <3>1 DEF ClaimNext
    <3>3. \A u \in TaskIds : u # t => task'[u] = task[u]
      BY <3>2 DEF CatalogueInv, Linked, TypeOK
    <3> QED BY <3>2, <3>3 DEF Exists, VmExists
  <2>3. CASE NodeSteps \/ UNCHANGED vars
    <3>1. UNCHANGED <<task, vm, tx>>
      BY <2>3 DEF NodeSteps, SetScheduling, RecordHeartbeat, HeartbeatGoesStale, vars
    <3> QED BY <3>1 DEF Exists, VmExists
  <2>4. StatusSteps \/ ClaimSteps \/ NodeSteps \/ UNCHANGED vars
    BY Zenon DEF OtherStep, allVars, AdminStep, StatusSteps, ClaimSteps, NodeSteps
  <2> QED BY <2>1, <2>2, <2>3, <2>4
<1>4. CatalogueTypeOK' /\ ImagesSafe'
  BY <1>2, <1>3, Zenon DEF CatalogueInv, CatalogueTypeOK, ImagesSafe, Open
<1>5. PayloadsSound'
  <2>1. ASSUME NEW t \in TaskIds, Exists(t)' PROVE PayloadSound(t)'
    BY <1>2, <1>3, <2>1, PayloadKept
  <2> QED BY <2>1, Zenon DEF PayloadsSound
<1>6. SpecsSound'
  BY <1>2, <1>3, Zenon DEF CatalogueInv, SpecsSound
<1>7. FormsSound'
  <2>1. ASSUME NEW op \in Operators PROVE FormSound(op)'
    BY <1>2, <1>3, FormKept
  <2> QED BY <2>1, Zenon DEF FormsSound
<1> QED BY <1>3, <1>4, <1>5, <1>6, <1>7, Zenon DEF Remainder

(* The payload that an admitted follow-up task gets.                       *)
LEMMA FollowUpPayloadSound ==
  ASSUME CatalogueInv, NEW op \in Operators, AdmitFollowUp(op),
         NEW t \in TaskIds, t = tx[op].id,
         task'[t].kind = tx[op].kind, task'[t].vm = tx[op].vm,
         task'[t].ip \in Addrs \union {NoAddr},
         tx[op].kind = "create" => (task'[t].ip = NoAddr <=> tx[op].vm \notin Pooled)
  PROVE  PayloadSound(t)' /\ payload'[t] \in Payload \union {None}
<1> DEFINE v == tx[op].vm
           kind == tx[op].kind
           ip == task'[t].ip
           source == form[op].source
<1>1. /\ Admit(op) /\ Open(op)
      /\ payload' = [payload EXCEPT ![t] = FollowUpPayload(op, ip)]
      /\ tx[op].retry /\ kind = "create" /\ v \in Pooled => ValidForMvp(payload'[t])
      /\ ~tx[op].retry /\ kind = "reinstall" => form[op].checked = ReinstallImage(op)
  BY Zenon DEF AdmitFollowUp, Admit
<1>2. payload'[t] = FollowUpPayload(op, ip)
  BY <1>1 DEF CatalogueInv, CatalogueTypeOK
<1>3. FollowUpSound(op) /\ form[op] \in FollowUpForm
  BY <1>1, FormOf, Zenon DEF CatalogueInv, FormsSound, FormSound
<1>4. CASE tx[op].retry
  <2>1. /\ source \in TaskIds /\ Exists(source)
        /\ task[source].kind = kind /\ task[source].vm = v
    BY <1>3, <1>4, Zenon DEF FollowUpSound
  <2>2. PayloadSound(source) /\ payload[source] \in Payload \union {None}
    BY <2>1 DEF CatalogueInv, PayloadsSound, CatalogueTypeOK
  <2>3. CASE kind = "create"
    <3>1. payload'[t] = PayloadWith(payload[source], ip)
      BY <1>2, <1>4, <2>3, Zenon DEF FollowUpPayload
    <3>2. /\ GoodCreate(payload[source]) /\ payload[source].ip = RecordedIp(source)
          /\ task[source].ip = NoAddr <=> v \notin Pooled
      BY <2>1, <2>2, <2>3, Zenon DEF PayloadSound
    <3>3. ip = NoAddr => payload[source].ip = None
      BY <2>3, <3>2, Zenon DEF RecordedIp
    <3>4. /\ payload'[t] \in CreateRequest(Plans)
          /\ payload'[t].ip = (IF ip = NoAddr THEN None ELSE ip)
          /\ ip = NoAddr => GoodCreate(payload'[t])
      BY <3>1, <3>2, <3>3, PayloadWithSound
    <3>5. GoodCreate(payload'[t])
      <4>1. CASE v \in Pooled
        BY <1>1, <1>4, <2>3, <3>4, <4>1, Zenon DEF GoodCreate
      <4>2. CASE v \notin Pooled
        BY <2>3, <3>4, <4>2
      <4> QED BY <4>1, <4>2
    <3>6. "create" # "reinstall"
      OBVIOUS
    <3>7. PayloadSound(t)'
      BY <2>3, <3>4, <3>5, <3>6, Zenon DEF PayloadSound, RecordedIp
    <3> QED BY <3>4, <3>7 DEF Payload
  <2>4. CASE kind # "create"
    <3>1. payload'[t] = payload[source]
      BY <1>2, <1>4, <2>4, Zenon DEF FollowUpPayload
    <3>2. kind = "reinstall" => GoodReinstall(payload'[t])
      BY <2>1, <2>2, <3>1, Zenon DEF PayloadSound
    <3>3. PayloadSound(t)'
      BY <2>4, <3>2, Zenon DEF PayloadSound
    <3> QED BY <2>2, <3>1, <3>3
  <2> QED BY <2>3, <2>4
<1>5. CASE ~tx[op].retry
  <2>1. kind # "create"
    <3>1. ActionAllowed(kind, vm[v].status)
      BY <1>1, <1>5, Zenon DEF Admit, AdmissionAllowed
    <3> QED BY <3>1 DEF ActionAllowed
  <2>2. CASE kind = "reinstall"
    <3>1. payload'[t] = [spec[v] EXCEPT !.image = ReinstallImage(op)]
      BY <1>2, <1>5, <2>2, Zenon DEF FollowUpPayload
    <3>2. GoodReinstall(spec[v])
      <4>1. v \in Vms /\ VmExists(v)
        BY <1>1, AdmitUse DEF CatalogueInv, OpenTx
      <4> QED BY <4>1 DEF CatalogueInv, SpecsSound
    <3>3. SafeText(ReinstallImage(op))
      <4>1. CASE form[op].image = None
        BY <3>2, <4>1, GoodParts DEF ReinstallImage
      <4>2. CASE form[op].image # None
        <5>1. form[op].checked = form[op].image
          BY <1>1, <1>5, <2>2, <4>2, Zenon DEF ReinstallImage
        <5>2. ReinstallImage(op) = form[op].checked /\ form[op].checked # None
          BY <1>1, <1>5, <2>2, <4>2, <5>1, Zenon
        <5> QED BY <1>3, <5>2, Zenon DEF FollowUpSound
      <4> QED BY <4>1, <4>2
    <3>4. GoodReinstall(payload'[t])
      <4>1. PICK row, i : row = spec[v] /\ i = ReinstallImage(op)
        OBVIOUS
      <4>2. GoodReinstall([row EXCEPT !.image = i])
        BY <3>2, <3>3, <4>1, GoodParts, Zenon
      <4>3. payload'[t] = [row EXCEPT !.image = i]
        BY <3>1, <4>1
      <4> QED BY <4>2, <4>3
    <3>5. PayloadSound(t)'
      BY <2>1, <3>4, Zenon DEF PayloadSound
    <3>6. payload'[t] \in ReinstallPayload
      BY <3>4, Zenon DEF GoodReinstall
    <3> QED BY <3>5, <3>6 DEF Payload
  <2>3. CASE kind # "reinstall"
    <3>1. payload'[t] = None
      BY <1>2, <1>5, <2>3, Zenon DEF FollowUpPayload
    <3>2. PayloadSound(t)'
      BY <2>1, <2>3, Zenon DEF PayloadSound
    <3> QED BY <3>1, <3>2
  <2> QED BY <2>2, <2>3
<1> QED BY <1>4, <1>5

LEMMA AdmitFollowUpKeeps ==
  ASSUME CatalogueInv, [Next]_vars, NEW op \in Operators, AdmitFollowUp(op)
  PROVE  /\ Remainder'
         /\ \A u \in TaskIds : Exists(u)' <=> Exists(u) \/ u = tx[op].id
         /\ tx[op].id \in TaskIds /\ VmExists(task'[tx[op].id].vm)
<1>1. /\ Admit(op)
      /\ form' = [form EXCEPT ![op] = NoForm]
      /\ payload' = [payload EXCEPT ![tx[op].id] =
           FollowUpPayload(op, task'[tx[op].id].ip)]
      /\ UNCHANGED <<plan, image, spec>>
  BY Zenon DEF AdmitFollowUp
<1>2. /\ tx[op] \in OpenTx
      /\ ~Exists(tx[op].id) /\ VmExists(tx[op].vm) /\ vm[tx[op].vm] \in Vm
      /\ InsertTask(tx[op].id, tx[op].kind, tx[op].vm, vm[tx[op].vm].node)
      /\ tx' = [tx EXCEPT ![op] = NoTx]
  BY <1>1, AdmitUse DEF CatalogueInv
<1>3. PICK t \in TaskIds, v \in Vms, kind \in Kinds, n \in Nodes :
        t = tx[op].id /\ v = tx[op].vm /\ kind = tx[op].kind /\ n = vm[tx[op].vm].node
  BY <1>2 DEF OpenTx, Vm
<1>4. /\ task'[t].kind = kind /\ task'[t].vm = v
      /\ task'[t].ip \in Addrs \union {NoAddr}
      /\ kind = "create" => (task'[t].ip = NoAddr <=> v \notin Pooled)
      /\ \A u \in TaskIds : Exists(u)' <=> Exists(u) \/ u = t
      /\ \A w \in Vms : VmExists(w)' <=> VmExists(w) \/ w = v
  BY <1>2, <1>3, Inserted DEF CatalogueInv
<1>5. PayloadSound(t)' /\ payload'[t] \in Payload \union {None}
  BY <1>3, <1>4, FollowUpPayloadSound
<1>6. \A u \in TaskIds : u # t => payload'[u] = payload[u]
  BY <1>1, <1>3 DEF CatalogueInv, CatalogueTypeOK
<1>7. payload' \in [TaskIds -> Payload \union {None}]
  BY <1>1, <1>3, <1>5, <1>6 DEF CatalogueInv, CatalogueTypeOK
<1>8. PayloadsSound'
  <2>1. ASSUME NEW u \in TaskIds, Exists(u)' PROVE PayloadSound(u)'
    <3>1. CASE u = t
      BY <1>5, <3>1
    <3>2. CASE u # t
      BY <1>4, <1>6, <2>1, <3>2, PayloadKept
    <3> QED BY <3>1, <3>2
  <2> QED BY <2>1, Zenon DEF PayloadsSound
<1>9. spec' \in [Vms -> ReinstallPayload \union {None}] /\ SpecsSound'
  <2>1. \A w \in Vms : VmExists(w)' => VmExists(w)
    BY <1>2, <1>3, <1>4
  <2> QED BY <1>1, <2>1, Zenon DEF CatalogueInv, CatalogueTypeOK, SpecsSound
<1>10. /\ tx'[op].id = NoTask
       /\ \A o \in Operators : o # op => tx'[o] = tx[o]
  BY <1>2 DEF CatalogueInv, Linked, TypeOK, NoTx
<1>11. Remainder'
  BY <1>1, <1>7, <1>8, <1>9, <1>10, DroppedFormKeeps
<1> QED BY <1>2, <1>3, <1>4, <1>11

LEMMA ReportStatusKeeps ==
  ASSUME CatalogueInv, [Next]_vars, NEW n \in Nodes, NEW t \in TaskIds,
         NEW status \in TaskStatuses, ReportStatus(n, t, status)
  PROVE  Remainder' /\ \A u \in TaskIds : Exists(u)' <=> Exists(u)
<1>1. /\ UpdateStatus(n, t, status)
      /\ spec' = IF task[t].kind = "reinstall" /\ status = "succeeded"
                 THEN [spec EXCEPT ![task[t].vm].image = payload[t].image]
                 ELSE spec
      /\ UNCHANGED <<plan, image, form, payload>>
  BY Zenon DEF ReportStatus
<1>2. /\ Exists(t) /\ task' = [task EXCEPT ![t].status = status]
      /\ ApplyTaskStatus(t, status) /\ tx' = tx
  BY <1>1 DEF UpdateStatus
<1>3. /\ \A u \in TaskIds : Exists(u)' <=> Exists(u)
      /\ \A w \in Vms : VmExists(w)' <=> VmExists(w)
  BY <1>2, ApplyTaskStatusLinks DEF CatalogueInv
<1>4. PayloadsSound'
  <2>1. ASSUME NEW u \in TaskIds, Exists(u)' PROVE PayloadSound(u)'
    BY <1>1, <1>3, <2>1, PayloadKept
  <2> QED BY <2>1, Zenon DEF PayloadsSound
<1>5. spec' \in [Vms -> ReinstallPayload \union {None}] /\ SpecsSound'
  <2>1. CASE task[t].kind = "reinstall" /\ status = "succeeded"
    <3>1. PICK v \in Vms : v = task[t].vm /\ VmExists(v)
      BY <1>2, ExistingTask DEF CatalogueInv, Linked, RowsLinked, Task
    <3>2. GoodReinstall(payload[t]) /\ GoodReinstall(spec[v])
      BY <1>2, <2>1, <3>1, Zenon DEF CatalogueInv, PayloadsSound, PayloadSound, SpecsSound
    <3> DEFINE row == [spec[v] EXCEPT !.image = payload[t].image]
    <3>3. GoodReinstall(row)
      BY <3>2, GoodParts, Zenon
    <3>4. spec' = [spec EXCEPT ![v] = row]
      BY <1>1, <2>1, <3>1
    <3>5. row \in ReinstallPayload
      BY <3>3, Zenon DEF GoodReinstall
    <3> HIDE DEF row
    <3>6. spec' \in [Vms -> ReinstallPayload \union {None}]
      BY <3>4, <3>5 DEF CatalogueInv, CatalogueTypeOK
    <3>7. spec'[v] = row /\ \A w \in Vms : w # v => spec'[w] = spec[w]
      BY <3>4 DEF CatalogueInv, CatalogueTypeOK
    <3>8. ASSUME NEW w \in Vms, VmExists(w)' PROVE GoodReinstall(spec'[w])
      BY <1>3, <3>3, <3>7, <3>8, Zenon DEF CatalogueInv, SpecsSound
    <3> QED BY <3>6, <3>8, Zenon DEF SpecsSound, GoodReinstall
  <2>2. CASE ~(task[t].kind = "reinstall" /\ status = "succeeded")
    <3>1. spec' = spec
      BY <1>1, <2>2
    <3> QED BY <1>3, <3>1, Zenon DEF CatalogueInv, CatalogueTypeOK, SpecsSound
  <2> QED BY <2>1, <2>2
<1>6. CatalogueTypeOK' /\ ImagesSafe'
  BY <1>1, <1>2, <1>5, Zenon DEF CatalogueInv, CatalogueTypeOK, ImagesSafe, Open
<1>7. FormsSound'
  <2>1. ASSUME NEW op \in Operators PROVE FormSound(op)'
    BY <1>1, <1>2, FormKept
  <2> QED BY <2>1, Zenon DEF FormsSound
<1> QED BY <1>3, <1>4, <1>5, <1>6, <1>7, Zenon DEF Remainder

-----------------------------------------------------------------------------
(* The theorems.                                                           *)

LEMMA CatalogueInvInit == CatalogueInit => CatalogueInv
<1> SUFFICES ASSUME CatalogueInit PROVE CatalogueInv
  OBVIOUS
<1>1. Init /\ Linked
  BY LinkedInit, Zenon DEF CatalogueInit
<1>2. /\ \A t \in TaskIds : ~Exists(t)
      /\ \A v \in Vms : ~VmExists(v)
      /\ \A op \in Operators : ~Open(op)
  BY <1>1 DEF Init, Exists, VmExists, Open, AbsentTask, AbsentVm, NoTx
<1>3. /\ plan \in [Plans -> Switch]
      /\ image \in [Images -> Switch] /\ \A i \in Images : image[i] = "absent"
      /\ payload \in [TaskIds -> Payload \union {None}]
      /\ spec \in [Vms -> ReinstallPayload \union {None}]
  BY DEF CatalogueInit, Switch
<1>4. /\ form \in [Operators -> CreateForm \union FollowUpForm \union {NoForm}]
      /\ \A op \in Operators : form[op].kind = "none"
  BY DEF CatalogueInit, NoForm
<1>5. \A op \in Operators : form[op].kind # "create" /\ form[op].kind # "follow-up"
  BY <1>4
<1> QED BY <1>1, <1>2, <1>3, <1>4, <1>5, Zenon
        DEF CatalogueInv, CatalogueTypeOK, ImagesSafe, SpecsSound, PayloadsSound,
            FormsSound, FormSound

LEMMA CatalogueInvStep ==
  ASSUME CatalogueInv, [CatalogueNext]_allVars
  PROVE  CatalogueInv'
<1>1. [Next]_vars
  BY StepOfMaster DEF CatalogueInv
<1>2. Linked'
  BY <1>1, LinkedStep DEF CatalogueInv
<1>3. ASSUME NEW op \in Operators, RequestStep(op) PROVE Remainder'
  <2>1. CASE \E v \in Vms, n \in Nodes, order \in Orders : BeginCreate(op, v, n, order)
    BY <1>1, <2>1, BeginCreateKeeps
  <2>2. CASE \E t \in TaskIds : FinishCreate(op, t)
    BY <1>1, <2>2, FinishCreateKeeps
  <2>3. CASE AbandonCreate(op) \/ RejectFollowUp(op)
    BY <1>1, <2>3, AbandonKeeps
  <2>4. CASE \E t \in TaskIds, v \in Vms, kind \in ActionKinds, asked \in Images \union {None} :
               RequestAction(op, t, v, kind, asked)
    BY <1>1, <2>4, RequestActionKeeps
  <2>5. CASE \E t \in TaskIds, s \in TaskIds : RequestRetry(op, t, s)
    BY <1>1, <2>5, RequestRetryKeeps
  <2>6. CASE CheckImage(op)
    BY <1>1, <2>6, CheckImageKeeps
  <2>7. CASE AdmitFollowUp(op)
    BY <1>1, <2>7, AdmitFollowUpKeeps
  <2> QED BY <1>3, <2>1, <2>2, <2>3, <2>4, <2>5, <2>6, <2>7, Zenon DEF RequestStep
<1>4. ASSUME CatalogueStep PROVE Remainder'
  BY <1>1, <1>4, SwitchKeeps
<1>5. ASSUME NEW n \in Nodes, NEW t \in TaskIds, NEW status \in TaskStatuses,
             ReportStatus(n, t, status)
      PROVE  Remainder'
  BY <1>1, <1>5, ReportStatusKeeps
<1>6. ASSUME OtherStep \/ UNCHANGED allVars PROVE Remainder'
  BY <1>1, <1>6, OtherKeeps
<1>7. Remainder'
  BY <1>3, <1>4, <1>5, <1>6, Zenon DEF CatalogueNext
<1> QED BY <1>2, <1>7, Zenon DEF CatalogueInv, Remainder

LEMMA CatalogueInvAlways == CatalogueSpec => []CatalogueInv
<1>1. CatalogueInv /\ [CatalogueNext]_allVars => CatalogueInv'
  BY CatalogueInvStep
<1> QED BY CatalogueInvInit, <1>1, PTL DEF CatalogueSpec

(* Every table has its type, with any number of plans, images, tasks and   *)
(* overlapping requests.                                                   *)
THEOREM CatalogueTypeCorrect == CatalogueSpec => []CatalogueTypeOK
<1>1. CatalogueInv => CatalogueTypeOK
  BY DEF CatalogueInv
<1> QED BY CatalogueInvAlways, <1>1, PTL

(* The checks that Master leaves out only refuse requests: each handler,   *)
(* with its checks of plans, images and payloads, is a step of Master or   *)
(* one that Master does not see.                                           *)
THEOREM CatalogueImplementsMaster == CatalogueSpec => Spec
<1>1. CatalogueInit => Init
  BY Zenon DEF CatalogueInit
<1>2. CatalogueInv /\ [CatalogueNext]_allVars => [Next]_vars
  BY StepOfMaster DEF CatalogueInv
<1> QED BY <1>1, <1>2, CatalogueInvAlways, PTL DEF CatalogueSpec, Spec

(* No task that is ever queued is one its agent refuses for its payload,   *)
(* however many retries, reinstallations and changes of image lie between  *)
(* the request and the task; and the address in it is the reserved one.    *)
THEOREM QueuedTasksAreCarriedOut == CatalogueSpec => []PayloadsAreCarriedOut
<1>1. CatalogueInv => PayloadsAreCarriedOut
  <2> SUFFICES ASSUME CatalogueInv, NEW t \in TaskIds, Exists(t)
               PROVE  /\ AgentAccepts(task[t].kind, payload[t])
                      /\ task[t].kind = "create" =>
                           payload[t].ip = (IF task[t].ip = NoAddr THEN None ELSE task[t].ip)
    BY Zenon DEF PayloadsAreCarriedOut
  <2>1. PayloadSound(t)
    BY DEF CatalogueInv, PayloadsSound
  <2>2. task[t].kind = "create" =>
          GoodCreate(payload[t]) /\ payload[t].ip = RecordedIp(t)
    BY <2>1, Zenon DEF PayloadSound
  <2>3. task[t].kind = "reinstall" => GoodReinstall(payload[t])
    BY <2>1, Zenon DEF PayloadSound
  <2>4. ASSUME NEW p, GoodCreate(p) \/ GoodReinstall(p)
        PROVE  SafeFileName(p.image) /\ CloudInitHostname(p.name)
    <3>1. SafeImageFileName(p.image) /\ ValidVmName(p.name)
      BY <2>4, Zenon DEF GoodCreate, GoodReinstall, ValidForMvp, ValidReinstall
    <3> QED BY <3>1, ExecutorAgrees
  <2>5. CASE task[t].kind = "create"
    <3>1. "create" # "reinstall"
      OBVIOUS
    <3> QED BY <2>2, <2>4, <2>5, <3>1, Zenon DEF AgentAccepts, GoodCreate, RecordedIp
  <2>6. CASE task[t].kind = "reinstall"
    <3>1. "create" # "reinstall"
      OBVIOUS
    <3> QED BY <2>3, <2>4, <2>6, <3>1, Zenon DEF AgentAccepts, GoodReinstall
  <2>7. CASE task[t].kind # "create" /\ task[t].kind # "reinstall"
    BY <2>7, Zenon DEF AgentAccepts
  <2> QED BY <2>5, <2>6, <2>7
<1> QED BY CatalogueInvAlways, <1>1, PTL

(* The only step that queues the first task of a VM.                       *)
LEMMA FirstTask ==
  ASSUME CatalogueInv, [CatalogueNext]_allVars, NEW t \in TaskIds,
         ~Exists(t), Exists(t)', ~VmExists(task'[t].vm)
  PROVE  \E op \in Operators : FinishCreate(op, t)
<1>1. [Next]_vars
  BY StepOfMaster DEF CatalogueInv
<1>2. ~(task' = task)
  BY Zenon DEF Exists
<1>3. ~CatalogueStep
  BY <1>2, CatalogueStepStutters, Zenon DEF vars
<1>4. ~(OtherStep \/ UNCHANGED allVars)
  BY <1>1, OtherKeeps
<1>5. ASSUME NEW n \in Nodes, NEW u \in TaskIds, NEW status \in TaskStatuses,
             ReportStatus(n, u, status)
      PROVE  FALSE
  BY <1>1, <1>5, ReportStatusKeeps
<1>6. PICK op \in Operators : RequestStep(op)
  BY <1>3, <1>4, <1>5, Zenon DEF CatalogueNext
<1>7. ~AdmitFollowUp(op)
  <2> SUFFICES ASSUME AdmitFollowUp(op) PROVE FALSE
    OBVIOUS
  <2>1. /\ Exists(t)' <=> Exists(t) \/ t = tx[op].id
        /\ VmExists(task'[tx[op].id].vm)
    BY <1>1, AdmitFollowUpKeeps
  <2>2. t = tx[op].id
    BY <2>1
  <2> QED BY <2>1, <2>2
<1>8. \A u \in TaskIds : FinishCreate(op, u) => u = t
  <2> SUFFICES ASSUME NEW u \in TaskIds, FinishCreate(op, u) PROVE u = t
    OBVIOUS
  <2> QED BY <1>1, FinishCreateKeeps
<1>9. \E u \in TaskIds : FinishCreate(op, u)
  <2>1. ASSUME NEW v \in Vms, NEW n \in Nodes, NEW order \in Orders, BeginCreate(op, v, n, order)
        PROVE  FALSE
    BY <1>2, <2>1, Zenon DEF BeginCreate, vars
  <2>2. ~AbandonCreate(op)
    BY <1>2, Zenon DEF AbandonCreate, vars
  <2>3. ASSUME NEW u \in TaskIds, NEW v \in Vms, NEW kind \in ActionKinds,
               NEW asked \in Images \union {None}, RequestAction(op, u, v, kind, asked)
        PROVE  FALSE
    BY <1>2, <2>3, Zenon DEF RequestAction, BeginAction, OpenAdmission
  <2>4. ASSUME NEW u \in TaskIds, NEW s \in TaskIds, RequestRetry(op, u, s)
        PROVE  FALSE
    BY <1>2, <2>4, Zenon DEF RequestRetry, BeginRetry, OpenAdmission
  <2>5. ~CheckImage(op)
    BY <1>2, Zenon DEF CheckImage, vars
  <2>6. ~RejectFollowUp(op)
    BY <1>2, Zenon DEF RejectFollowUp, Reject
  <2> QED BY <1>6, <1>7, <2>1, <2>2, <2>3, <2>4, <2>5, <2>6, Zenon DEF RequestStep
<1> QED BY <1>8, <1>9

(* Disabling a plan is a barrier: once it is disabled no creation for it   *)
(* is queued, not even one that read the plan before.                      *)
THEOREM PlanSwitchIsBarrier == CatalogueSpec => DisabledPlanGetsNoVm
<1> DEFINE Barrier ==
      \A t \in TaskIds :
        LET request == payload'[t]
            created == ~Exists(t) /\ task'[t].status # "absent"
                       /\ task'[t].kind = "create" /\ ~VmExists(task'[t].vm)
        IN  created /\ request.plan # None =>
              plan[request.plan] = "enabled" /\ request.size = PlanOf[request.plan].size
<1>1. CatalogueInv /\ [CatalogueNext]_allVars => Barrier
  <2> SUFFICES ASSUME CatalogueInv, [CatalogueNext]_allVars, NEW t \in TaskIds,
                      ~Exists(t), Exists(t)', ~VmExists(task'[t].vm), payload'[t].plan # None
               PROVE  /\ plan[payload'[t].plan] = "enabled"
                      /\ payload'[t].size = PlanOf[payload'[t].plan].size
    BY Zenon DEF Exists
  <2>1. PICK op \in Operators : FinishCreate(op, t)
    BY FirstTask
  <2>2. [Next]_vars
    BY StepOfMaster DEF CatalogueInv
  <2>3. /\ payload'[t].plan = form[op].request.plan
        /\ payload'[t].size = form[op].request.size
    BY <2>1, <2>2, FinishCreateKeeps
  <2>4. RequestSound(form[op].request)
    BY <2>1, Zenon DEF FinishCreate, Creating, CatalogueInv, FormsSound, FormSound
  <2>5. form[op].request.plan # None
    BY <2>3
  <2>6. /\ plan[form[op].request.plan] = "enabled"
        /\ form[op].request.size = PlanOf[form[op].request.plan].size
    BY <2>4, <2>5, Zenon DEF RequestSound
  <2> QED BY <2>3, <2>6
<1>2. CatalogueInv /\ [CatalogueNext]_allVars => [Barrier]_allVars
  BY <1>1
<1> QED BY <1>2, CatalogueInvAlways, PTL DEF CatalogueSpec, DisabledPlanGetsNoVm
=============================================================================
