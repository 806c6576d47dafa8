----------------------------- MODULE Catalogue ------------------------------
(***************************************************************************)
(* The catalogue of plans and images, and the requests that go through it  *)
(* (master/src/plans, images, ipam, http): Master with the payloads of its *)
(* tasks and the checks that Master leaves out.                            *)
(*                                                                         *)
(* A creation has two steps here, because what it reads of the catalogue   *)
(* it reads before it waits for the node, the pool and the insertion: the  *)
(* plan with FOR SHARE, so that the row cannot change until the request    *)
(* ends, the image with a plain SELECT.  Between the two an administrator  *)
(* may switch plans and images.  The switches are one statement each.      *)
(***************************************************************************)
EXTENDS Master, Requests

CONSTANTS
  Plans,     \* ids of plans
  PlanOf,    \* the request a plan is created with: no handler changes it
  Images,    \* file names of images
  TitleOf,   \* the name an image is created with
  Pool,      \* the row of ip_pools: no handler changes it
  Orders     \* the create requests that administrators send

ASSUME PlansAssumption ==
  /\ None \notin Plans
  /\ PlanOf \in [Plans -> [name: Text, slug: Text, size: Size]]
ASSUME ImagesAssumption == Images \subseteq Text /\ TitleOf \in [Images -> Text]
ASSUME PoolAssumption == StoredPool(Pool)
ASSUME AddressAssumption == Addrs \subseteq Candidates(Pool)
ASSUME NoneAssumption ==
  None \notin Address \union Text \union PublicKey \union (0 .. 255)
ASSUME OrdersAssumption == Orders \subseteq CreateRequest(Plans)

VARIABLES
  plan,      \* plans: "absent", "enabled" or "disabled"
  image,     \* images, by file name
  form,      \* what the open request of an operator carries
  payload,   \* the payload of each task
  spec       \* what the vms row keeps of its creation: name, image, key, disk

catalogue == <<plan, image, form, payload, spec>>
allVars == <<vars, catalogue>>

-----------------------------------------------------------------------------
(* Types.                                                                  *)

Switch == {"absent", "enabled", "disabled"}

(* A creation holds its VM, node and request; a follow-up task the task it *)
(* retries or the image it asks for, and the image that was found enabled. *)
CreateForm == [kind: {"create"}, vm: Vms, node: Nodes, request: CreateRequest(Plans)]
FollowUpForm == [kind: {"follow-up"}, source: TaskIds \union {NoTask},
                 image: Images \union {None}, checked: Text \union {None}]
NoForm == [kind |-> "none"]

Payload == CreateRequest(Plans) \union ReinstallPayload

CatalogueTypeOK ==
  /\ plan  \in [Plans -> Switch]
  /\ image \in [Images -> Switch]
  /\ form  \in [Operators -> CreateForm \union FollowUpForm \union {NoForm}]
  /\ payload \in [TaskIds -> Payload \union {None}]
  /\ spec \in [Vms -> ReinstallPayload \union {None}]
  /\ \A op \in Operators : form[op].kind = "follow-up" <=> Open(op)

Creating(op) == form[op].kind = "create"

-----------------------------------------------------------------------------
(* The catalogue itself.                                                   *)

(* The rows after set_enabled_in_tx, of plans and of images.               *)
PlanSet(p, enabled)  == [plan EXCEPT ![p] = IF enabled THEN "enabled" ELSE "disabled"]
ImageSet(i, enabled) == [image EXCEPT ![i] = IF enabled THEN "enabled" ELSE "disabled"]

(* POST /plans *)
CreatePlan(p, enabled) ==
  /\ plan[p] = "absent"
  /\ PlanAccepted(PlanOf[p])
  /\ plan' = PlanSet(p, enabled)
  /\ UNCHANGED <<vars, image, form, payload, spec>>

(* POST /images *)
CreateImage(i, enabled) ==
  /\ image[i] = "absent"
  /\ ImageAccepted(TitleOf[i], i)
  /\ image' = ImageSet(i, enabled)
  /\ UNCHANGED <<vars, plan, form, payload, spec>>

(* The row of the plan is share-locked by an open creation.                *)
ShareLocked(p) == \E op \in Operators : Creating(op) /\ form[op].request.plan = p

(* Mutant: the plan is read without FOR SHARE.                             *)
SetPlanEnabledUnlocked(p, enabled) ==
  /\ plan[p] # "absent"
  /\ plan' = PlanSet(p, enabled)
  /\ UNCHANGED <<vars, image, form, payload, spec>>

(* POST /plans/:id/enabled: the UPDATE waits for the share locks.          *)
SetPlanEnabled(p, enabled) ==
  /\ plan[p] # "absent"
  /\ ~ShareLocked(p)
  /\ plan' = PlanSet(p, enabled)
  /\ UNCHANGED <<vars, image, form, payload, spec>>

(* POST /images/:id/enabled *)
SetImageEnabled(i, enabled) ==
  /\ image[i] # "absent"
  /\ image' = ImageSet(i, enabled)
  /\ UNCHANGED <<vars, plan, form, payload, spec>>

ImageEnabled(i) == i \in Images /\ image[i] = "enabled"

-----------------------------------------------------------------------------
(* Creations.                                                              *)

(* The request as it is checked: no network yet, the size of its plan.     *)
Prepared(order) ==
  IF order.plan = None THEN WithoutNetwork(order)
  ELSE WithSize(WithoutNetwork(order), PlanOf[order.plan].size)

(* create_vm_task up to the check of the image.                            *)
BeginCreate(op, v, n, order) ==
  /\ ~Open(op) /\ form[op] = NoForm
  /\ order.plan # None => plan[order.plan] = "enabled"
  /\ ValidForMvp(Prepared(order))
  /\ ImageEnabled(order.image)
  /\ form' = [form EXCEPT ![op] =
       [kind |-> "create", vm |-> v, node |-> n, request |-> Prepared(order)]]
  /\ UNCHANGED <<vars, plan, image, payload, spec>>

(* The network of a payload is that of the address just reserved.          *)
PayloadWith(request, ip) ==
  IF ip = NoAddr THEN request ELSE WithAddress(request, Pool, ip)

(* The rest of create_vm_task: capacity, reservation, the second check of  *)
(* the request, the task, the VM row.                                      *)
FinishCreate(op, t) ==
  /\ Creating(op)
  /\ LET v == form[op].vm
         request == form[op].request
     IN  /\ CreateVm(op, t, v, form[op].node)
         /\ payload' = [payload EXCEPT ![t] = PayloadWith(request, task'[t].ip)]
         /\ ValidForMvp(payload'[t])
         /\ spec' = [spec EXCEPT ![v] =
              [name |-> request.name, image |-> request.image,
               key |-> request.key, disk |-> request.size.disk]]
  /\ form' = [form EXCEPT ![op] = NoForm]
  /\ UNCHANGED <<plan, image>>

(* A check fails or the connection is lost.                                *)
AbandonCreate(op) ==
  /\ Creating(op)
  /\ form' = [form EXCEPT ![op] = NoForm]
  /\ UNCHANGED <<vars, plan, image, payload, spec>>

-----------------------------------------------------------------------------
(* Follow-up tasks.                                                        *)

OpenForm(op, source, asked, checked) ==
  /\ form[op] = NoForm
  /\ form' = [form EXCEPT ![op] = [kind |-> "follow-up", source |-> source,
                                   image |-> asked, checked |-> checked]]
  /\ UNCHANGED <<plan, image, payload, spec>>

(* start-vm ... delete-vm; reinstall-vm may ask for another image.         *)
RequestAction(op, t, v, kind, asked) ==
  /\ BeginAction(op, t, v, kind)
  /\ kind # "reinstall" => asked = None
  /\ OpenForm(op, NoTask, asked, None)

HasImage(kind) == kind \in {"create", "reinstall"}

(* retry_task checks the image of the payload first.                       *)
RequestRetry(op, t, s) ==
  /\ BeginRetry(op, t, s)
  /\ IF HasImage(task[s].kind)
     THEN ImageEnabled(payload[s].image) /\ OpenForm(op, s, None, payload[s].image)
     ELSE OpenForm(op, s, None, None)

(* The image a reinstallation is for: the one asked for, or the VM's own.  *)
ReinstallImage(op) ==
  IF form[op].image = None THEN spec[tx[op].vm].image ELSE form[op].image

(* ensure_enabled_in_tx of reinstall_vm_task.                              *)
CheckImage(op) ==
  /\ Open(op) /\ tx[op].kind = "reinstall" /\ ~tx[op].retry
  /\ ImageEnabled(ReinstallImage(op))
  /\ form' = [form EXCEPT ![op].checked = ReinstallImage(op)]
  /\ UNCHANGED <<vars, plan, image, payload, spec>>

(* The payload of an admitted follow-up task: that of the task it retries, *)
(* with the network of a new reservation, or for a reinstallation what the *)
(* VM row keeps.                                                           *)
FollowUpPayload(op, ip) ==
  IF tx[op].retry
  THEN IF tx[op].kind = "create" THEN PayloadWith(payload[form[op].source], ip)
       ELSE payload[form[op].source]
  ELSE IF tx[op].kind = "reinstall"
       THEN [spec[tx[op].vm] EXCEPT !.image = ReinstallImage(op)]
       ELSE None

AdmitFollowUp(op) ==
  /\ Admit(op)
  /\ ~tx[op].retry /\ tx[op].kind = "reinstall" =>
       form[op].checked = ReinstallImage(op)
  /\ LET t == tx[op].id
     IN  payload' = [payload EXCEPT ![t] = FollowUpPayload(op, task'[t].ip)]
  /\ tx[op].retry /\ tx[op].kind = "create" /\ tx[op].vm \in Pooled =>
       ValidForMvp(payload'[tx[op].id])
  /\ form' = [form EXCEPT ![op] = NoForm]
  /\ UNCHANGED <<plan, image, spec>>

(* Mutant: what a rejected request carried outlives its transaction.       *)
RejectKeepingForm(op) ==
  /\ Reject(op)
  /\ UNCHANGED catalogue

RejectFollowUp(op) ==
  /\ Reject(op)
  /\ form' = [form EXCEPT ![op] = NoForm]
  /\ UNCHANGED <<plan, image, payload, spec>>

-----------------------------------------------------------------------------
(* The agent's part.                                                       *)

(* A reinstallation that succeeded changes the image of the VM row.        *)
ReportStatus(n, t, status) ==
  /\ UpdateStatus(n, t, status)
  /\ spec' = IF task[t].kind = "reinstall" /\ status = "succeeded"
             THEN [spec EXCEPT ![task[t].vm].image = payload[t].image]
             ELSE spec
  /\ UNCHANGED <<plan, image, form, payload>>

-----------------------------------------------------------------------------
CatalogueInit ==
  /\ Init
  /\ plan    = [p \in Plans |-> "absent"]
  /\ image   = [i \in Images |-> "absent"]
  /\ form    = [op \in Operators |-> NoForm]
  /\ payload = [t \in TaskIds |-> None]
  /\ spec    = [v \in Vms |-> None]

CatalogueStep ==
  \/ \E p \in Plans, enabled \in BOOLEAN : CreatePlan(p, enabled) \/ SetPlanEnabled(p, enabled)
  \/ \E i \in Images, enabled \in BOOLEAN : CreateImage(i, enabled) \/ SetImageEnabled(i, enabled)

RequestStep(op) ==
  \/ /\ form[op] = NoForm
     /\ \/ \E v \in Vms, n \in Nodes, order \in Orders : BeginCreate(op, v, n, order)
        \/ \E t \in TaskIds, v \in Vms, kind \in ActionKinds, asked \in Images \union {None} :
             RequestAction(op, t, v, kind, asked)
        \/ \E t \in TaskIds, s \in TaskIds : RequestRetry(op, t, s)
  \/ \E t \in TaskIds : FinishCreate(op, t)
  \/ AbandonCreate(op)
  \/ CheckImage(op)
  \/ AdmitFollowUp(op)
  \/ RejectFollowUp(op)

(* The handlers of Master that leave the catalogue and the payloads alone. *)
OtherStep ==
  /\ \/ AdminStep
     \/ \E n \in Nodes : \/ \E t \in TaskIds : ClaimNext(n, t)
                         \/ \E available \in BOOLEAN : RecordHeartbeat(n, available)
                         \/ HeartbeatGoesStale(n)
  /\ UNCHANGED catalogue

CatalogueNext ==
  \/ CatalogueStep
  \/ \E op \in Operators : RequestStep(op)
  \/ \E n \in Nodes, t \in TaskIds, status \in TaskStatuses : ReportStatus(n, t, status)
  \/ OtherStep

CatalogueSpec == CatalogueInit /\ [][CatalogueNext]_allVars

-----------------------------------------------------------------------------
(* Properties.                                                             *)

(* No task that the master queues is refused by its agent for its payload: *)
(* what validate_for_agent and the libvirt executor test holds of whatever *)
(* request, plan, pool, retry or VM row the payload was put together from; *)
(* and it names the address that the task has reserved.                    *)
PayloadsAreCarriedOut ==
  \A t \in TaskIds : Exists(t) =>
    /\ AgentAccepts(task[t].kind, payload[t])
    /\ task[t].kind = "create" =>
         payload[t].ip = (IF task[t].ip = NoAddr THEN None ELSE task[t].ip)

(* Disabling a plan is a barrier (docs: a disabled plan admits no new VM): *)
(* when the creation of a VM is queued its plan is enabled at that very    *)
(* moment, however long ago the request read it, and the VM has its size.  *)
DisabledPlanGetsNoVm ==
  [][\A t \in TaskIds :
       LET request == payload'[t]
           created == ~Exists(t) /\ task'[t].status # "absent"
                      /\ task'[t].kind = "create" /\ ~VmExists(task'[t].vm)
       IN  created /\ request.plan # None =>
             plan[request.plan] = "enabled" /\ request.size = PlanOf[request.plan].size]_allVars
=============================================================================
