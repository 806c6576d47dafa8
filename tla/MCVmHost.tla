------------------------------ MODULE MCVmHost ------------------------------
(* A small instance of VmHost for TLC, and the rules of Reports and        *)
(* HostFiles evaluated on a few hosts, messages and files, with 2048 and   *)
(* 1024 in the place of the largest numbers of 64 and 63 bits.             *)
EXTENDS VmHost, Reports, TLC

(* A host on which everything is in order.                                 *)
SoundHost ==
  [dataDir |-> "directory", imageDir |-> "directory", vmParent |-> "directory",
   kvm |-> "device", bridge |-> TRUE, imagesInside |-> TRUE, vmsInside |-> TRUE,
   networkName |-> <<"alnum", "dash">>, bridgeName |-> <<"alnum">>,
   version |-> TRUE, qemuImg |-> TRUE, cloudLocalds |-> FALSE, genisoimage |-> TRUE,
   network |-> [known |-> TRUE, active |-> TRUE, onBridge |-> TRUE],
   cores |-> 2, vmDirectories |-> 3, meminfo |-> None,
   df |-> [total |-> 9, used |-> 4]]
Unmounted == [SoundHost EXCEPT !.dataDir = "missing", !.vmParent = "missing"]

(* Seven checks that say the same, and the heartbeat that carries them.    *)
Checks(host, said) ==
  [i \in 1 .. 7 |-> [name |-> CheckNames[i], message |-> said,
                     status |-> IF Holds(host)[i] THEN "passed" ELSE "failed"]]
NoMarks == [i \in 1 .. 7 |-> 0]
Heartbeat(host, said) ==
  [checks |-> Checks(host, said), libvirt |-> LibvirtStatus(Checks(host, said)),
   cpu |-> [total |-> host.cores, used |-> 0], memory |-> Memory(host),
   disk |-> Disk(host), vms |-> VmCount(host)]

Ascii(n) == Of(n, 0, 0, 0, 0)
Wide(n)  == Of(0, 0, 0, n, 2 * n)
Says(said) == [i \in 1 .. 7 |-> said]

(* The heartbeat that a host sends is one SendHeartbeat allows, after      *)
(* checks that CheckHostReport allows.                                     *)
ASSUME \A host \in {SoundHost, Unmounted}, said \in {Ascii(0), Ascii(240), Wide(240)} :
  /\ CheckHostReport(host, Says(said), Says(said), Checks(host, said))
  /\ SendHeartbeat(host, Checks(host, said), NoMarks, Heartbeat(host, said))

(* A failed check is reported, and only a text that is wide is refused:    *)
(* 100 characters of three bytes are 300 bytes.                            *)
ASSUME /\ Heartbeat(SoundHost, Ascii(9)).libvirt = "available"
       /\ Heartbeat(Unmounted, Ascii(9)).libvirt = "unavailable"
       /\ Disk(Unmounted).total = 0 /\ VmCount(Unmounted) = 0
ASSUME /\ HeartbeatAccepted(Heartbeat(Unmounted, Ascii(240)))
       /\ HeartbeatAccepted(Heartbeat(SoundHost, Wide(100)))
       /\ ~HeartbeatAccepted(Heartbeat(SoundHost, Wide(101)))

(* The text of a message is cut at 240 characters after it was escaped.    *)
ASSUME /\ Truncation(Of(230, 2, 2, 0, 0), Ascii(240))
       /\ ~Truncation(Of(230, 2, 3, 0, 0), Ascii(244))
       /\ Truncation(Wide(300), Wide(240))

(* The numbers saturate, and what is used never exceeds what there is.     *)
ASSUME \A total \in 0 .. 3, available \in 0 .. 3 :
  LET memory == Memory([SoundHost EXCEPT !.meminfo = [total |-> total, available |-> available]])
  IN  memory.used <= memory.total /\ memory.total <= MaxUnsigned

(* A failure report of 1024 controls fits when it is escaped; two of 1025  *)
(* may be tabs, which are not.                                             *)
ASSUME /\ DiagnosticAccepted(Of(0, 0, 1024, 0, 0), Of(0, 0, 1024, 0, 0), 0)
       /\ ~DiagnosticAccepted(Of(0, 0, 1025, 0, 0), Of(0, 0, 1025, 0, 0), 0)
       /\ DiagnosticAccepted(Of(0, 0, 1025, 0, 0), Of(0, 0, 1025, 0, 0), 2)

(* A configuration, and it with what registration puts into it.            *)
Letters(n) == [i \in 1 .. n |-> "alnum"]
DataDir == <<"", "var", "lib", "agent">>
Config ==
  [url |-> "good", dataDir |-> DataDir, interval |-> 30, ca |-> None, identity |-> "good",
   token |-> Letters(64), credential |-> None, executor |-> "libvirt",
   imageDir |-> Append(DataDir, "images"),
   networkName |-> <<"alnum">>, bridgeName |-> <<"alnum", "dash">>]
ASSUME /\ ValidConfig(Config)
       /\ ValidConfig(Registered(Config, Letters(256)))
       /\ ~ValidConfig(Registered(Config, Letters(257)))
ASSUME \A config \in {[Config EXCEPT !.credential = Letters(1)], [Config EXCEPT !.interval = 0],
                      [Config EXCEPT !.imageDir = DataDir],
                      [Config EXCEPT !.dataDir = <<"", "">>, !.imageDir = <<"", "images">>],
                      [Config EXCEPT !.dataDir = <<"", "odd">>, !.imageDir = <<"", "odd", "a">>]} :
         ~ValidConfig(config)

(* The domain of one VM is accepted as its own and as no other's; a path   *)
(* that no configuration may have would not be found again.                *)
Created(dataDir, v) ==
  DomainXml([size |-> [cpu |-> 1, memory |-> 512, disk |-> 5]], v,
            VmPaths(dataDir, v), <<"alnum">>)
ASSUME \A v \in {"vm1", "vm2"}, w \in {"vm1", "vm2"} :
         ValidDomainMetadata(Created(DataDir, v), w, VmPaths(DataDir, w)) <=> v = w
ASSUME LET base == <<"", "odd">>
       IN  ~ValidDomainMetadata(Created(base, "vm1"), "vm1", VmPaths(base, "vm1"))

(* A reinstalled VM boots with the address of its creation.                *)
ASSUME LET request == [name |-> <<"alnum">>, key |-> None, ip |-> 5, prefix |-> 24, gateway |-> 1]
       IN  ReinstalledSeed("vm1", request, CreatedSeed("vm1", request).network)
             = CreatedSeed("vm1", request)
=============================================================================
