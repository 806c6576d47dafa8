------------------------------ MODULE HostFiles -----------------------------
(***************************************************************************)
(* What an agent is configured with, and what it writes for a VM: the      *)
(* paths, the libvirt domain and the cloud-init data (agent/src/config.rs, *)
(* network, libvirt).  No state: VmHost says when the files are written,   *)
(* read and removed, Enrollment when the configuration is; a file is       *)
(* whole there when it holds what this module says.                        *)
(*                                                                         *)
(* A path is the sequence of what lies between its slashes: /a/b is        *)
(* <<"", "a", "b">>.  "odd" stands for every component with white space,   *)
(* a control, a quote or a backslash in it.                                *)
(***************************************************************************)
EXTENDS Requests

-----------------------------------------------------------------------------
(* The configuration.                                                      *)

ControlledPath(path) ==
  /\ Len(path) >= 2 /\ path[1] = "" /\ path # <<"", "">>
  /\ \A i \in 1 .. Len(path) : path[i] \notin {"odd", ".."}

(* The text of parent and a slash begin the text of child.                 *)
Below(child, parent) ==
  /\ Len(parent) < Len(child)
  /\ \A i \in 1 .. Len(parent) : child[i] = parent[i]

LibvirtIdentifier(text) == TextOf({"alnum", "dash", "dot"}, 64, text)

(* Secrets, by the agent's rule and by the master's.                       *)
LocalSecret(text)      == TextOf({"alnum", "dash", "dot"}, 256, text)
AgentSecretShape(text) == TextOf({"alnum", "dash", "dot"}, 256, text)

(* The URL of the master, the CA file and the client identity: None, or    *)
(* whether it is acceptable.                                               *)
AgentConfig(paths) ==
  [url: {"good", "bad"}, dataDir: paths, interval: Nat,
   ca: {"good", "bad", None}, identity: {"good", "bad", None},
   token: Text \union {None}, credential: Text \union {None},
   executor: {"mock", "libvirt"}, imageDir: paths, networkName: Text, bridgeName: Text]

HeartbeatSeconds == 1 .. 3600

ValidConfig(config) ==
  /\ config.url = "good" /\ config.ca # "bad" /\ config.identity # "bad"
  /\ ControlledPath(config.dataDir)
  /\ config.token = None \/ config.credential = None
  /\ config.token # None => LocalSecret(config.token)
  /\ config.credential # None => LocalSecret(config.credential)
  /\ config.interval \in HeartbeatSeconds
  /\ config.executor = "libvirt" =>
       /\ ControlledPath(config.imageDir) /\ Below(config.imageDir, config.dataDir)
       /\ LibvirtIdentifier(config.networkName) /\ LibvirtIdentifier(config.bridgeName)

(* The configuration that is saved once the node is registered.            *)
Registered(config, credential) ==
  [config EXCEPT !.token = None, !.credential = credential]

-----------------------------------------------------------------------------
(* The files of a VM.                                                      *)

(* disk.qcow2, seed.iso, network-config and domain.xml in the directory.   *)
VmDir(dataDir, v) == dataDir \o <<"vms", v>>
VmPaths(dataDir, v) ==
  [dir  |-> VmDir(dataDir, v),
   disk |-> Append(VmDir(dataDir, v), "disk"),
   seed |-> Append(VmDir(dataDir, v), "seed"),
   net  |-> Append(VmDir(dataDir, v), "net"),
   xml  |-> Append(VmDir(dataDir, v), "xml")]

(* A path in an attribute of an XML document, when it is read again: white *)
(* space is not what it was.                                               *)
Attribute(path) ==
  [i \in 1 .. Len(path) |-> IF path[i] = "odd" THEN "blank" ELSE path[i]]

DomainName(v) == <<"vps", v>>

(* domain.xml as a parser sees it. *)
DomainXml(request, v, paths, networkName) ==
  [tag |-> "domain", name |-> DomainName(v), uuid |-> v,
   memoryKib |-> request.size.memory * 1024, vcpu |-> request.size.cpu,
   disks |-> <<[device |-> "disk",  file |-> Attribute(paths.disk)],
               [device |-> "cdrom", file |-> Attribute(paths.seed)]>>,
   network |-> networkName]

(* The source files of a kind of device are exactly this one.              *)
OnlySource(domain, device, file) ==
  \E i \in 1 .. Len(domain.disks) :
    /\ domain.disks[i].device = device /\ domain.disks[i].file = file
    /\ \A j \in 1 .. Len(domain.disks) : domain.disks[j].device = device => j = i

ValidDomainMetadata(domain, v, paths) ==
  /\ domain.tag = "domain" /\ domain.name = DomainName(v) /\ domain.uuid = v
  /\ OnlySource(domain, "disk", paths.disk)
  /\ OnlySource(domain, "cdrom", paths.seed)

UserData(key) == [sshKeys |-> {key} \ {None}]
MetaData(v, name) == [instance |-> v, hostname |-> name]
NetworkConfig(request) ==
  IF None \in {request.ip, request.prefix, request.gateway} THEN None
  ELSE [address |-> request.ip, prefix |-> request.prefix, via |-> request.gateway]

(* What the guest reads at its first start: of a creation, and of a        *)
(* reinstallation, which takes the network-config it finds.                *)
SeedIso(v, payload, network) ==
  [user |-> UserData(payload.key), meta |-> MetaData(v, payload.name), network |-> network]
CreatedSeed(v, request) == SeedIso(v, request, NetworkConfig(request))
ReinstalledSeed(v, payload, found) == SeedIso(v, payload, found)
=============================================================================
