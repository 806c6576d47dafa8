------------------------------ MODULE Requests ------------------------------
(***************************************************************************)
(* What an administrator's request must be, and what the master makes of   *)
(* it before a task is queued (master/src/plans, images, ipam, nodes; the  *)
(* rules of shared/src/tasks.rs that master and agent both apply; the      *)
(* checks of agent/src/libvirt on a payload).  No state: Catalogue applies *)
(* these rules to the database.                                            *)
(*                                                                         *)
(* A text is the sequence of the classes of its characters.  '-' and '_'   *)
(* are one class, since every rule admits both or none; "other" stands for *)
(* every character no rule admits, those of several bytes included, so     *)
(* the length in bytes that the code tests is the length of the sequence.  *)
(***************************************************************************)
EXTENDS Integers, Sequences

CONSTANT None   \* an Option without a value

-----------------------------------------------------------------------------
(* Names.                                                                  *)

TextOf(classes, longest, text) ==
  /\ Len(text) \in 1 .. longest
  /\ \A i \in 1 .. Len(text) : text[i] \in classes

Text == Seq({"alnum", "dash", "dot", "space", "other"})

ValidVmName(text)     == TextOf({"alnum", "dash"}, 64, text)
ValidPlanName(text)   == TextOf({"alnum", "dash", "space"}, 80, text)
ValidPlanSlug(text)   == TextOf({"alnum", "dash"}, 80, text)
ValidImageTitle(text) == TextOf({"alnum", "dash", "space"}, 80, text)
ValidPoolName(text)   == TextOf({"alnum", "dash", "dot"}, 80, text)

(* No part between dots is empty. *)
PartsFilled(text) ==
  \A i \in 1 .. Len(text) : text[i] = "dot" =>
    /\ i # 1 /\ i # Len(text)
    /\ text[i + 1] # "dot"

(* The master's rule for the file of an image.                             *)
SafeImageFileName(text) ==
  TextOf({"alnum", "dash", "dot"}, 80, text) /\ PartsFilled(text)

(* The agent's own rules for what it puts into paths and cloud-init data.  *)
SafeFileNameWithoutDots(text) == TextOf({"alnum", "dash"}, 96, text)  \* mutant: rules drift apart
SafeFileName(text) ==
  TextOf({"alnum", "dash", "dot"}, 96, text) /\ PartsFilled(text)
CloudInitHostname(text) == TextOf({"alnum", "dash"}, 64, text)

(* A public key: whether it is one line, and its words, of which the first *)
(* names a key type and only the second and third matter otherwise.        *)
Word == [bytes: Nat, keyType: BOOLEAN, base64: BOOLEAN, plain: BOOLEAN]
PublicKey == [bytes: Nat, oneLine: BOOLEAN, words: Seq(Word)]

ValidPublicKey(key) ==
  /\ key.bytes \in 1 .. 1024 /\ key.oneLine
  /\ Len(key.words) \in 2 .. 3
  /\ key.words[1].keyType
  /\ key.words[2].bytes \in 32 .. 900 /\ key.words[2].base64
  /\ Len(key.words) = 3 => key.words[3].bytes <= 128 /\ key.words[3].plain

-----------------------------------------------------------------------------
(* Sizes and plans.                                                        *)

Size == [cpu: Nat, memory: Nat, disk: Nat]

ValidDisk(gb)   == gb \in 1 .. 4096
ValidMemory(mb) == mb \in 128 .. 262144
ValidSize(size) ==
  /\ size.cpu \in 1 .. 32
  /\ ValidMemory(size.memory)
  /\ ValidDisk(size.disk)

(* plans::create_in_tx, images::create_in_tx: what is admitted to a table. *)
PlanAccepted(request) ==
  ValidPlanName(request.name) /\ ValidPlanSlug(request.slug) /\ ValidSize(request.size)
ImageAccepted(title, fileName) ==
  ValidImageTitle(title) /\ SafeImageFileName(fileName)

-----------------------------------------------------------------------------
(* IPv4 addresses and pools.  A prefix is 16 to 30 bits, so a network has  *)
(* one upper half, and the mask cuts the lower half only.                  *)

HalfSize == 65536
Halves   == 0 .. HalfSize - 1
Address  == [hi: Halves, lo: Halves]
PrefixAllowed(prefix) == prefix \in 16 .. 30
BlockSize(prefix) ==
  <<65536, 32768, 16384, 8192, 4096, 2048, 1024, 512, 256, 128, 64, 32, 16, 8, 4>>[prefix - 15]

NetworkOf(a, prefix) == [hi |-> a.hi, lo |-> a.lo - (a.lo % BlockSize(prefix))]
SameNetwork(a, b, prefix) == NetworkOf(a, prefix) = NetworkOf(b, prefix)

(* Strictly between the network address and the broadcast address.         *)
ContainsHost(network, prefix, a) ==
  /\ a.hi = network.hi
  /\ network.lo < a.lo /\ a.lo < network.lo + BlockSize(prefix) - 1

(* ipam::create_in_tx: what it admits, and the row it stores.              *)
PoolAccepted(name, ip, prefix, gateway) ==
  /\ ValidPoolName(name)
  /\ PrefixAllowed(prefix)
  /\ ContainsHost(NetworkOf(ip, prefix), prefix, gateway)
PoolRow(ip, prefix, gateway) ==
  [network |-> NetworkOf(ip, prefix), prefix |-> prefix, gateway |-> gateway]

(* A row of ip_pools.  PoolRow of an accepted request is one, by the       *)
(* lemma PoolRowIsStored of RequestsProofs.                                *)
StoredPool(pool) ==
  /\ PrefixAllowed(pool.prefix)
  /\ pool.network \in Address /\ pool.gateway \in Address
  /\ NetworkOf(pool.network, pool.prefix) = pool.network
  /\ ContainsHost(pool.network, pool.prefix, pool.gateway)

(* usable_hosts of the stored CIDR, which is parsed again.                 *)
UsableHosts(pool) ==
  LET network == NetworkOf(pool.network, pool.prefix)
  IN  {[hi |-> network.hi, lo |-> lo] :
         lo \in network.lo + 1 .. network.lo + BlockSize(pool.prefix) - 2}

(* The addresses reserve_next_for_vm_in_tx tries.                          *)
Candidates(pool) == UsableHosts(pool) \ {pool.gateway}

HostAddress(a) ==
  a # [hi |-> 0, lo |-> 0] /\ a # [hi |-> 65535, lo |-> 65535]

ValidAssignedNetwork(ip, prefix, gateway) ==
  \/ ip = None /\ prefix = None /\ gateway = None
  \/ /\ ip # None /\ prefix # None /\ gateway # None
     /\ HostAddress(ip) /\ HostAddress(gateway)
     /\ PrefixAllowed(prefix)
     /\ ip # gateway /\ SameNetwork(ip, gateway, prefix)

-----------------------------------------------------------------------------
(* Requests and payloads.                                                  *)

(* CreateVmRequest without its ids.  plan is None or the id of a plan.     *)
CreateRequest(plans) ==
  [plan: plans \union {None}, name: Text, image: Text,
   key: PublicKey \union {None}, size: Size,
   ip: Address \union {None}, prefix: (0 .. 255) \union {None},
   gateway: Address \union {None}]

ValidForMvp(request) ==
  /\ ValidVmName(request.name)
  /\ SafeImageFileName(request.image)
  /\ ValidSize(request.size)
  /\ request.key # None => ValidPublicKey(request.key)
  /\ ValidAssignedNetwork(request.ip, request.prefix, request.gateway)

(* TaskKind::ReinstallVm without its id.                                   *)
ReinstallPayload == [name: Text, image: Text, key: PublicKey \union {None}, disk: Nat]

ValidReinstall(payload) ==
  /\ ValidVmName(payload.name)
  /\ SafeImageFileName(payload.image)
  /\ ValidDisk(payload.disk)
  /\ payload.key # None => ValidPublicKey(payload.key)

(* What becomes of a payload on the host: validate_for_agent, then the     *)
(* executor's own checks of what it puts into file names and cloud-init.   *)
AgentAccepts(kind, payload) ==
  /\ kind = "create" => ValidForMvp(payload)
  /\ kind = "reinstall" => ValidReinstall(payload)
  /\ kind \in {"create", "reinstall"} =>
       SafeFileName(payload.image) /\ CloudInitHostname(payload.name)

(* create_vm_task: the network fields are the master's to fill, and a plan *)
(* sets the size.                                                          *)
WithoutNetwork(request) ==
  [request EXCEPT !.ip = None, !.prefix = None, !.gateway = None]
WithSize(request, size) == [request EXCEPT !.size = size]
WithAddress(request, pool, a) ==
  [request EXCEPT !.ip = a, !.prefix = pool.prefix, !.gateway = pool.gateway]
=============================================================================
