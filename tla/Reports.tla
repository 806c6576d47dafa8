------------------------------ MODULE Reports -------------------------------
(***************************************************************************)
(* What an agent reports of its host, and what the master accepts of it    *)
(* (agent/src/resources.rs, libvirt's preflight, heartbeat.rs;             *)
(* master/src/nodes, tasks).  No state: a refused heartbeat ends the       *)
(* agent's iteration before it polls, and a refused failure report is what *)
(* keeps a task running in Fleet.                                          *)
(*                                                                         *)
(* A message is the number of its characters of each kind: printable ASCII *)
(* ones, line ends, other ASCII controls, and wide ones, of two to four    *)
(* bytes, with the bytes they take beyond their first.  No rule depends on *)
(* their order; what truncation keeps is any part of the right size.       *)
(***************************************************************************)
EXTENDS HostFiles

CONSTANTS
  MaxUnsigned,  \* u64::MAX, at which the agent's arithmetic saturates
  MaxSigned,    \* i64::MAX, the largest number the database holds
  MaxVmCount    \* i32::MAX, the largest number of VMs it holds

ASSUME WidthAssumption ==
  /\ MaxUnsigned \in Nat /\ MaxSigned \in Nat /\ MaxVmCount \in Nat
  /\ MaxSigned < MaxUnsigned

-----------------------------------------------------------------------------
(* Messages.                                                               *)

Message ==
  {m \in [plain: Nat, line: Nat, control: Nat, wide: Nat, extra: Nat] :
     m.wide <= m.extra /\ m.extra <= 3 * m.wide}

Of(plain, line, control, wide, extra) ==
  [plain |-> plain, line |-> line, control |-> control, wide |-> wide, extra |-> extra]

Chars(m) == m.plain + m.line + m.control + m.wide
Bytes(m) == Chars(m) + m.extra

(* p is what remains of m when some characters are left out. *)
PartOf(p, m) ==
  /\ p.plain <= m.plain /\ p.line <= m.line /\ p.control <= m.control
  /\ p.wide <= m.wide
  /\ m.wide - p.wide <= m.extra - p.extra
  /\ m.extra - p.extra <= 3 * (m.wide - p.wide)

(* redact_text: the values of sensitive keys are left out, and each leaves *)
(* a mark of 10 characters, which may be more than the value had.  At most *)
(* one mark stands for every 4 characters that are kept: those around it   *)
(* in "://[REDACTED]@", or a key and its separator.  The mark for a        *)
(* private key is longer, and shorter than the key.  Line ends may be lost *)
(* too: carriage returns before them, and those of leading empty lines.    *)
(* marks is the number of characters of all marks.                         *)
Redaction(m, r, marks) ==
  LET kept == Of(r.plain - marks, r.line, r.control, r.wide, r.extra)
  IN  /\ kept \in Message /\ PartOf(kept, m)
      /\ 2 * marks <= 5 * kept.plain + 2 * (Chars(m) - Chars(kept))
      /\ marks = 0 => kept = Of(m.plain, r.line, m.control, m.wide, m.extra)

(* truncate_check_message: line ends become spaces, a control becomes an   *)
(* escape of four characters, 240 characters are kept.                     *)
OneLine(m) == Of(m.plain + m.line, 0, m.control, m.wide, m.extra)
Escaped(m) == Of(m.plain + 4 * m.control, m.line, 0, m.wide, m.extra)
Truncation(m, p) ==
  LET whole == Escaped(OneLine(m))
  IN  /\ PartOf(p, whole)
      /\ Chars(p) = IF Chars(whole) <= 240 THEN Chars(whole) ELSE 240

-----------------------------------------------------------------------------
(* The host.                                                               *)

Entry == {"missing", "unreadable", "symlink", "file", "device", "directory"}

(* Names are those of the configuration; a path is "inside" when, resolved,*)
(* it lies under the data directory.  A command is its success; df and     *)
(* meminfo are None when they cannot be read or parsed.                    *)
Host ==
  [dataDir: Entry, imageDir: Entry, vmParent: Entry, kvm: Entry, bridge: BOOLEAN,
   imagesInside: BOOLEAN, vmsInside: BOOLEAN,
   networkName: Text, bridgeName: Text,
   version: BOOLEAN, qemuImg: BOOLEAN, cloudLocalds: BOOLEAN, genisoimage: BOOLEAN,
   network: [known: BOOLEAN, active: BOOLEAN, onBridge: BOOLEAN],
   cores: Nat, vmDirectories: Nat,
   meminfo: [total: Nat, available: Nat] \union {None},
   df: [total: Nat, used: Nat] \union {None}]

DataDirSound(host)  == host.dataDir = "directory"
ImageDirSound(host) == host.imageDir = "directory"
VmParentSound(host) ==
  host.vmParent = "missing" \/ (host.vmParent = "directory" /\ host.vmsInside)
StorageSound(host) ==
  DataDirSound(host) /\ VmParentSound(host) /\ ImageDirSound(host) /\ host.imagesInside
KvmPresent(host) == host.kvm = "device"
NetworkSound(host) ==
  /\ LibvirtIdentifier(host.networkName) /\ LibvirtIdentifier(host.bridgeName)
  /\ host.network.known /\ host.network.active /\ host.network.onBridge
BridgePresent(host) == LibvirtIdentifier(host.bridgeName) /\ host.bridge
SeedIsoTool(host) == host.cloudLocalds \/ host.genisoimage

-----------------------------------------------------------------------------
(* The preflight checks of a heartbeat.                                    *)

CheckNames == <<"storage", "kvm", "libvirt", "libvirt-network", "bridge",
                "qemu-img", "cloud-init-iso">>

Holds(host) ==
  <<StorageSound(host), KvmPresent(host), host.version, NetworkSound(host),
    BridgePresent(host), host.qemuImg, SeedIsoTool(host)>>

PassedCheck(check, said) ==
  check.status = "passed" /\ Truncation(said, check.message)
FailedCheck(check, redacted) ==
  check.status = "failed" /\ Truncation(redacted, check.message)

(* says[i] is the text of check i, redacted[i] that text redacted.         *)
CheckHostReport(host, says, redacted, checks) ==
  /\ Len(checks) = Len(CheckNames)
  /\ \A i \in 1 .. Len(CheckNames) :
       /\ checks[i].name = CheckNames[i] /\ checks[i].message \in Message
       /\ Holds(host)[i] => PassedCheck(checks[i], says[i])
       /\ ~Holds(host)[i] =>
            /\ \E marks \in 0 .. redacted[i].plain : Redaction(says[i], redacted[i], marks)
            /\ FailedCheck(checks[i], redacted[i])

LibvirtStatus(checks) ==
  IF \A i \in 1 .. Len(checks) : checks[i].status = "passed"
  THEN "available" ELSE "unavailable"

(* Every message is redacted once more before it is sent: a mark that the  *)
(* truncation cut is completed, for instance.                              *)
SanitizeHostChecks(checks, sent, marks) ==
  /\ Len(sent) = Len(checks)
  /\ \A i \in 1 .. Len(checks) :
       /\ sent[i].name = checks[i].name /\ sent[i].status = checks[i].status
       /\ Redaction(checks[i].message, sent[i].message, marks[i])

-----------------------------------------------------------------------------
(* Resources.                                                              *)

KibToBytes(kib) == IF kib * 1024 <= MaxUnsigned THEN kib * 1024 ELSE MaxUnsigned

Memory(host) ==
  IF host.meminfo = None THEN [total |-> 0, used |-> 0]
  ELSE LET total == KibToBytes(host.meminfo.total)
           available == KibToBytes(host.meminfo.available)
       IN  [total |-> total,
            used |-> IF available <= total THEN total - available ELSE 0]

Disk(host) ==
  IF host.df = None \/ ~DataDirSound(host) THEN [total |-> 0, used |-> 0] ELSE host.df

VmCount(host) ==
  IF DataDirSound(host) /\ host.vmParent = "directory" THEN host.vmDirectories ELSE 0

(* The heartbeat of an agent in libvirt mode.  cpu_used is always zero.    *)
SendHeartbeat(host, checks, marks, request) ==
  /\ SanitizeHostChecks(checks, request.checks, marks)
  /\ request.libvirt = LibvirtStatus(checks)
  /\ request.cpu = [total |-> host.cores, used |-> 0]
  /\ request.memory = Memory(host)
  /\ request.disk = Disk(host)
  /\ request.vms = VmCount(host)

-----------------------------------------------------------------------------
(* The master.  The version is a constant of the agent's build.            *)

HostCheckAccepted(check) ==
  /\ check.status \in {"passed", "failed", "skipped"}
  /\ Bytes(check.message) <= 300
  /\ check.message.line = 0 /\ check.message.control = 0

MetricsAccepted(request) ==
  /\ request.libvirt \in {"not_checked", "available", "unavailable"}
  /\ Len(request.checks) <= 16
  /\ \A i \in 1 .. Len(request.checks) : HostCheckAccepted(request.checks[i])
  /\ request.cpu.used <= request.cpu.total
  /\ request.memory.used <= request.memory.total
  /\ request.disk.used <= request.disk.total

HeartbeatAccepted(request) ==
  /\ MetricsAccepted(request)
  /\ request.cpu.total <= MaxSigned
  /\ request.memory.total <= MaxSigned
  /\ request.disk.total <= MaxSigned
  /\ request.vms <= MaxVmCount

(* The text of a failure or of a log line, and the text that is stored:    *)
(* redacted, with the controls escaped that are no tabs.  A text with a    *)
(* NUL is refused too.                                                     *)
EscapedNonLine(m, tabs) ==
  Of(m.plain + 4 * (m.control - tabs), m.line, tabs, m.wide, m.extra)
DiagnosticAccepted(said, redacted, tabs) ==
  /\ Bytes(said) \in 1 .. 4096
  /\ Bytes(EscapedNonLine(redacted, tabs)) <= 4096
=============================================================================
