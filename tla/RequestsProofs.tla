--------------------------- MODULE RequestsProofs ---------------------------
(***************************************************************************)
(* What the rules of the master and those of its agents imply of each      *)
(* other: of what the master hands out, and of what an agent reports.      *)
(***************************************************************************)
EXTENDS Reports, SequenceTheorems, TLAPS

-----------------------------------------------------------------------------
(* Networks.                                                               *)

LEMMA HalfOf ==
  ASSUME NEW lo PROVE lo \in Halves <=> lo \in Int /\ 0 <= lo /\ lo <= 65535
<1>1. HalfSize \in Int BY DEF HalfSize
<1>2. HalfSize = 65536 BY DEF HalfSize
<1>3. lo \in Halves <=> lo \in Int /\ 0 <= lo /\ lo <= HalfSize - 1
  BY <1>1, SMT DEF Halves
<1> QED BY <1>2, <1>3, SMT

(* The blocks of a prefix fill a lower half.                               *)
LEMMA BlocksFillTheHalf ==
  ASSUME NEW prefix \in Int, PrefixAllowed(prefix)
  PROVE  /\ BlockSize(prefix) \in Int /\ 4 <= BlockSize(prefix)
         /\ \E k \in Int : 65536 = BlockSize(prefix) * k
<1> DEFINE size == BlockSize(prefix)
<1>1. \/ size = 65536 \/ size = 32768 \/ size = 16384 \/ size = 8192 \/ size = 4096
      \/ size = 2048 \/ size = 1024 \/ size = 512 \/ size = 256 \/ size = 128
      \/ size = 64 \/ size = 32 \/ size = 16 \/ size = 8 \/ size = 4
  BY SMTT(30) DEF PrefixAllowed, BlockSize
<1> HIDE DEF size
<1>2. size \in Int /\ 4 <= size
  BY <1>1, SMT
<1>3. \/ 65536 = size * 1 \/ 65536 = size * 2 \/ 65536 = size * 4 \/ 65536 = size * 8
      \/ 65536 = size * 16 \/ 65536 = size * 32 \/ 65536 = size * 64
      \/ 65536 = size * 128 \/ 65536 = size * 256 \/ 65536 = size * 512
      \/ 65536 = size * 1024 \/ 65536 = size * 2048 \/ 65536 = size * 4096
      \/ 65536 = size * 8192 \/ 65536 = size * 16384
  BY <1>1, SMT
<1>4. \E k \in Int : 65536 = size * k
  BY <1>3, SMT
<1> QED BY <1>2, <1>4, SMT DEF size

LEMMA Multiples ==
  ASSUME NEW size \in Int, 0 < size, NEW q \in Int, NEW k \in Int
  PROVE  /\ (size * q) % size = 0
         /\ size * q < size * k => size * q + size <= size * k
  BY SMT

(* The block an address lies in. *)
LEMMA BlockStart ==
  ASSUME NEW prefix \in Int, PrefixAllowed(prefix), NEW lo \in Halves
  PROVE  LET start == lo - (lo % BlockSize(prefix))
         IN  /\ start \in Halves /\ start <= lo /\ lo < start + BlockSize(prefix)
             /\ start % BlockSize(prefix) = 0
             /\ start + BlockSize(prefix) <= 65536
<1> DEFINE size == BlockSize(prefix)
           start == lo - (lo % size)
           q == lo \div size
<1>1. PICK k \in Int : 65536 = size * k
  BY BlocksFillTheHalf, SMT
<1>2. size \in Int /\ 4 <= size /\ lo \in Int /\ 0 <= lo /\ lo < 65536
  BY BlocksFillTheHalf, HalfOf
<1> HIDE DEF size
<1>3. q \in Int /\ lo % size \in 0 .. size - 1 /\ lo = size * q + (lo % size) /\ 0 <= q
  BY <1>2, SMT
<1>4. start = size * q /\ start <= lo /\ lo < start + size
  BY <1>2, <1>3, SMT
<1>5. 0 <= size * q
  BY <1>2, <1>3, SMT
<1>6. size * q < size * k
  BY <1>1, <1>2, <1>4, SMT
<1>7. start % size = 0 /\ start + size <= 65536
  BY <1>1, <1>2, <1>3, <1>4, <1>6, Multiples, SMT
<1>8. start \in Int /\ 0 <= start /\ start <= 65535
  BY <1>2, <1>3, <1>4, <1>5, SMT
<1>9. start \in Halves
  <2> HIDE DEF start
  <2> QED BY <1>8, HalfOf
<1> QED BY <1>4, <1>7, <1>9, SMT DEF size

LEMMA SameBlock ==
  ASSUME NEW size \in Int, 0 < size, NEW start \in Int, start % size = 0,
         NEW lo \in Int, start <= lo, lo < start + size
  PROVE  lo - (lo % size) = start
<1> DEFINE a == start \div size
           b == lo \div size
<1>1. a \in Int /\ b \in Int /\ start = size * a /\ lo = size * b + (lo % size)
  BY SMT
<1>2. lo % size \in 0 .. size - 1
  BY SMT
<1> HIDE DEF a, b
<1>3. size * a < size * b + size /\ size * b < size * a + size
  BY <1>1, <1>2, SMT
<1>4. ~(size * a < size * b) /\ ~(size * b < size * a)
  BY <1>1, <1>3, Multiples, SMT
<1> QED BY <1>1, <1>4, SMT

(* NetworkOf an address is an address of the same block, the first one.    *)
LEMMA NetworkOfAddress ==
  ASSUME NEW prefix \in Int, PrefixAllowed(prefix), NEW a \in Address
  PROVE  LET network == NetworkOf(a, prefix)
         IN  /\ network \in Address /\ network.hi = a.hi
             /\ NetworkOf(network, prefix) = network
             /\ network.lo <= a.lo /\ a.lo < network.lo + BlockSize(prefix)
             /\ network.lo % BlockSize(prefix) = 0
             /\ network.lo + BlockSize(prefix) <= 65536
<1> DEFINE size == BlockSize(prefix)
           lo == a.lo
           start == lo - (lo % size)
<1>1. a.hi \in Halves /\ lo \in Halves
  BY DEF Address
<1>2. /\ start \in Halves /\ start <= lo /\ lo < start + size
      /\ start % size = 0 /\ start + size <= 65536
  BY <1>1, BlockStart
<1>3. NetworkOf(a, prefix) = [hi |-> a.hi, lo |-> start]
  BY DEF NetworkOf
<1> HIDE DEF start, size
<1>4. start - (start % size) = start
  BY <1>2, HalfOf, SMT
<1>5. NetworkOf([hi |-> a.hi, lo |-> start], prefix) = [hi |-> a.hi, lo |-> start]
  BY <1>4 DEF NetworkOf, size
<1>6. [hi |-> a.hi, lo |-> start] \in Address
  BY <1>1, <1>2 DEF Address
<1> QED BY <1>2, <1>3, <1>5, <1>6 DEF size

(* Two addresses of one block have one network.                            *)
LEMMA OneNetwork ==
  ASSUME NEW prefix \in Int, PrefixAllowed(prefix),
         NEW network \in Address, NetworkOf(network, prefix) = network,
         NEW a \in Address, a.hi = network.hi,
         network.lo <= a.lo, a.lo < network.lo + BlockSize(prefix)
  PROVE  NetworkOf(a, prefix) = network
<1> DEFINE size == BlockSize(prefix)
           start == network.lo
           lo == a.lo
<1>1. size \in Int /\ 0 < size
  BY BlocksFillTheHalf, SMT
<1>2. start \in Int /\ lo \in Int
  <2>1. network.lo \in Halves /\ a.lo \in Halves
    BY DEF Address
  <2> QED BY <2>1, HalfOf
<1>3. start % size = 0
  <2>1. network.lo % size = 0
    BY NetworkOfAddress
  <2> QED BY <2>1
<1>4. lo - (lo % size) = start
  <2> HIDE DEF size, start, lo
  <2>1. start <= lo /\ lo < start + size
    BY DEF size, start, lo
  <2> QED BY <1>1, <1>2, <1>3, <2>1, SameBlock
<1>5. NetworkOf(a, prefix) = [hi |-> network.hi, lo |-> network.lo]
  BY <1>4 DEF NetworkOf
<1>6. network = [hi |-> network.hi, lo |-> network.lo]
  BY DEF Address
<1> QED BY <1>5, <1>6

(* What ipam::create_in_tx stores of a request it accepts is a row every   *)
(* later reader may rely on: a network address, and a gateway inside it.   *)
THEOREM PoolRowIsStored ==
  ASSUME NEW name, NEW ip \in Address, NEW gateway \in Address, NEW prefix \in Int,
         PoolAccepted(name, ip, prefix, gateway)
  PROVE  StoredPool(PoolRow(ip, prefix, gateway))
<1>1. PrefixAllowed(prefix) /\ ContainsHost(NetworkOf(ip, prefix), prefix, gateway)
  BY DEF PoolAccepted
<1>2. /\ NetworkOf(ip, prefix) \in Address
      /\ NetworkOf(NetworkOf(ip, prefix), prefix) = NetworkOf(ip, prefix)
  BY <1>1, NetworkOfAddress
<1>3. /\ PoolRow(ip, prefix, gateway).network = NetworkOf(ip, prefix)
      /\ PoolRow(ip, prefix, gateway).prefix = prefix
      /\ PoolRow(ip, prefix, gateway).gateway = gateway
  BY DEF PoolRow
<1> HIDE DEF PoolRow
<1> QED BY <1>1, <1>2, <1>3 DEF StoredPool

(* An address between the first and the last of a stored pool's block.     *)
LEMMA HostOfPool ==
  ASSUME NEW pool, StoredPool(pool), pool.prefix \in Int,
         NEW a \in Address, ContainsHost(pool.network, pool.prefix, a)
  PROVE  NetworkOf(a, pool.prefix) = pool.network /\ HostAddress(a)
<1>1. /\ PrefixAllowed(pool.prefix) /\ pool.network \in Address
      /\ NetworkOf(pool.network, pool.prefix) = pool.network
  BY DEF StoredPool
<1> DEFINE size == BlockSize(pool.prefix)
           low == pool.network.lo
           lo == a.lo
<1>2. a.hi = pool.network.hi /\ low < lo /\ lo < low + size - 1
  BY DEF ContainsHost
<1>3. low \in Halves /\ lo \in Halves
  BY <1>1 DEF Address
<1>4. size \in Int /\ low + size <= 65536
  BY <1>1, BlocksFillTheHalf, NetworkOfAddress
<1> HIDE DEF size, low, lo
<1>5. low \in Int /\ lo \in Int /\ 0 <= low
  BY <1>3, HalfOf
<1>6. low <= lo /\ lo < low + size /\ lo # 0 /\ lo # 65535
  BY <1>2, <1>4, <1>5, SMT
<1>7. NetworkOf(a, pool.prefix) = pool.network
  BY <1>1, <1>2, <1>6, OneNetwork DEF size, low, lo
<1>8. HostAddress(a)
  <2>1. a.lo # 0 /\ a.lo # 65535
    BY <1>6 DEF lo
  <2>2. [hi |-> 0, lo |-> 0].lo = 0 /\ [hi |-> 65535, lo |-> 65535].lo = 65535
    OBVIOUS
  <2> QED BY <2>1, <2>2 DEF HostAddress
<1> QED BY <1>7, <1>8

(* usable_hosts are addresses inside the network.                          *)
LEMMA UsableAreHosts ==
  ASSUME NEW pool, pool.prefix \in Int, PrefixAllowed(pool.prefix), pool.network \in Address,
         NetworkOf(pool.network, pool.prefix) = pool.network,
         NEW a \in UsableHosts(pool)
  PROVE  a \in Address /\ ContainsHost(pool.network, pool.prefix, a)
<1> DEFINE size == BlockSize(pool.prefix)
           low == pool.network.lo
           high == pool.network.hi
<1>1. low \in Halves /\ high \in Halves
  BY DEF Address
<1>2. size \in Int /\ low + size <= 65536
  BY BlocksFillTheHalf, NetworkOfAddress
<1>3. PICK lo \in low + 1 .. low + size - 2 : a = [hi |-> high, lo |-> lo]
  BY DEF UsableHosts
<1> HIDE DEF size, low, high
<1>4. low < lo /\ lo < low + size - 1 /\ lo \in Halves
  <2>1. low \in Int /\ 0 <= low
    BY <1>1, HalfOf
  <2>2. lo \in Int /\ low < lo /\ lo < low + size - 1
    BY <1>2, <1>3, <2>1, SMT
  <2>3. lo \in Int /\ 0 <= lo /\ lo <= 65535
    BY <1>2, <2>1, <2>2, SMT
  <2> QED BY <2>2, <2>3, HalfOf
<1>5. a \in Address /\ a.hi = high /\ a.lo = lo
  BY <1>1, <1>3, <1>4 DEF Address
<1> QED BY <1>4, <1>5 DEF ContainsHost, size, low, high

(* Whatever address reserve_next_for_vm_in_tx draws from a stored pool,    *)
(* the network assigned with it passes the rule that master and agent      *)
(* check a request by: never the gateway, never another network.           *)
THEOREM CandidatesAreAssignable ==
  ASSUME None \notin Address, None \notin Int,
         NEW pool, StoredPool(pool), pool.prefix \in Int, NEW a \in Candidates(pool)
  PROVE  ValidAssignedNetwork(a, pool.prefix, pool.gateway)
<1>1. /\ PrefixAllowed(pool.prefix) /\ pool.network \in Address /\ pool.gateway \in Address
      /\ NetworkOf(pool.network, pool.prefix) = pool.network
      /\ ContainsHost(pool.network, pool.prefix, pool.gateway)
  BY DEF StoredPool
<1>2. a # pool.gateway /\ a \in UsableHosts(pool)
  BY DEF Candidates
<1>3. a \in Address /\ ContainsHost(pool.network, pool.prefix, a)
  BY <1>1, <1>2, UsableAreHosts
<1>4. /\ NetworkOf(a, pool.prefix) = pool.network /\ HostAddress(a)
      /\ NetworkOf(pool.gateway, pool.prefix) = pool.network /\ HostAddress(pool.gateway)
  BY <1>1, <1>3, HostOfPool
<1> QED BY <1>1, <1>2, <1>3, <1>4 DEF ValidAssignedNetwork, SameNetwork

-----------------------------------------------------------------------------
(* Requests.                                                               *)

(* A text the rule admits up to one length, it admits up to a longer one.  *)
LEMMA LongerLimit ==
  ASSUME NEW classes, NEW text, NEW short \in Int, NEW long \in Int, short <= long,
         TextOf(classes, short, text)
  PROVE  TextOf(classes, long, text)
<1>1. Len(text) \in 1 .. short => Len(text) \in 1 .. long
  BY SMT
<1> QED BY <1>1 DEF TextOf

(* The agent's executor repeats the master's checks with rules of its own; *)
(* it refuses no name that the master let through.                         *)
LEMMA ExecutorAgrees ==
  ASSUME NEW image, NEW name, SafeImageFileName(image), ValidVmName(name)
  PROVE  SafeFileName(image) /\ CloudInitHostname(name)
BY LongerLimit, SMT DEF SafeImageFileName, SafeFileName, ValidVmName, CloudInitHostname

(* create_vm_task validates the request, then sets the size of the plan    *)
(* and the address of the pool, and validates again.  The second check     *)
(* never fails, and the agent carries the payload out: a request once      *)
(* accepted is never stranded by its own master.                           *)
THEOREM FilledRequestIsCarriedOut ==
  ASSUME None \notin Address, None \notin Int,
         NEW plans, NEW request \in CreateRequest(plans), ValidForMvp(WithoutNetwork(request)),
         NEW size \in Size, ValidSize(size),
         NEW pool, StoredPool(pool), pool.prefix \in Int, NEW a \in Candidates(pool)
  PROVE  LET payload == WithAddress(WithSize(WithoutNetwork(request), size), pool, a)
         IN  ValidForMvp(payload) /\ AgentAccepts("create", payload)
<1> DEFINE bare == WithoutNetwork(request)
           sized == WithSize(bare, size)
           payload == WithAddress(sized, pool, a)
<1>1. /\ bare.name = request.name /\ bare.image = request.image /\ bare.key = request.key
      /\ DOMAIN bare = DOMAIN request
  BY Zenon DEF WithoutNetwork, CreateRequest
<1>2. /\ ValidVmName(request.name) /\ SafeImageFileName(request.image)
      /\ request.key # None => ValidPublicKey(request.key)
  BY <1>1 DEF ValidForMvp
<1>3. /\ payload.name = request.name /\ payload.image = request.image
      /\ payload.key = request.key /\ payload.size = size
      /\ payload.ip = a /\ payload.prefix = pool.prefix /\ payload.gateway = pool.gateway
  BY Zenon DEF WithoutNetwork, WithSize, WithAddress, CreateRequest
<1>4. ValidAssignedNetwork(a, pool.prefix, pool.gateway)
  BY CandidatesAreAssignable
<1> HIDE DEF payload
<1>5. ValidForMvp(payload)
  BY <1>2, <1>3, <1>4 DEF ValidForMvp
<1>6. AgentAccepts("create", payload)
  BY <1>2, <1>3, <1>5, ExecutorAgrees DEF AgentAccepts
<1> QED BY <1>5, <1>6 DEF payload

(* The same of a reinstall, whose payload is built from a stored VM.       *)
THEOREM ReinstallIsCarriedOut ==
  ASSUME NEW payload, ValidReinstall(payload)
  PROVE  AgentAccepts("reinstall", payload)
BY ExecutorAgrees DEF ValidReinstall, AgentAccepts

-----------------------------------------------------------------------------
(* The host.                                                               *)

(* A configuration that keeps the fields of a valid one, and has a         *)
(* credential of the right shape in the place of the token, is valid.      *)
LEMMA KeptConfigIsValid ==
  ASSUME NEW saved, NEW config, NEW credential, LocalSecret(credential),
         saved.token = None, saved.credential = credential,
         saved.url = config.url, saved.ca = config.ca, saved.identity = config.identity,
         saved.dataDir = config.dataDir, saved.interval = config.interval,
         saved.executor = config.executor, saved.imageDir = config.imageDir,
         saved.networkName = config.networkName, saved.bridgeName = config.bridgeName,
         config.url = "good", config.ca # "bad", config.identity # "bad",
         ControlledPath(config.dataDir), config.interval \in HeartbeatSeconds,
         config.executor = "libvirt" =>
           /\ ControlledPath(config.imageDir) /\ Below(config.imageDir, config.dataDir)
           /\ LibvirtIdentifier(config.networkName) /\ LibvirtIdentifier(config.bridgeName)
  PROVE  ValidConfig(saved)
<1>1. ControlledPath(saved.dataDir) /\ saved.interval \in HeartbeatSeconds
  OBVIOUS
<1>2. saved.executor = "libvirt" =>
        /\ ControlledPath(saved.imageDir) /\ Below(saved.imageDir, saved.dataDir)
        /\ LibvirtIdentifier(saved.networkName) /\ LibvirtIdentifier(saved.bridgeName)
  BY Zenon
<1> QED BY <1>1, <1>2, Zenon DEF ValidConfig

(* Registration never spoils a configuration: what is saved with the       *)
(* credential passes the checks of the next start, if what was loaded      *)
(* passed them and the master made the credential of its own shape.        *)
THEOREM RegisteredConfigLoads ==
  ASSUME NEW paths, NEW config \in AgentConfig(paths), ValidConfig(config),
         NEW credential \in Text, AgentSecretShape(credential)
  PROVE  ValidConfig(Registered(config, credential))
<1> DEFINE saved == Registered(config, credential)
<1>1. /\ saved.token = None /\ saved.credential = credential
      /\ saved.url = config.url /\ saved.ca = config.ca /\ saved.identity = config.identity
      /\ saved.dataDir = config.dataDir /\ saved.interval = config.interval
      /\ saved.executor = config.executor /\ saved.imageDir = config.imageDir
      /\ saved.networkName = config.networkName /\ saved.bridgeName = config.bridgeName
  BY Zenon DEF Registered, AgentConfig
<1>2. LocalSecret(credential)
  BY DEF LocalSecret, AgentSecretShape
<1> HIDE DEF saved
<1>3. /\ config.url = "good" /\ config.ca # "bad" /\ config.identity # "bad"
      /\ ControlledPath(config.dataDir)
      /\ config.interval \in HeartbeatSeconds
      /\ config.executor = "libvirt" =>
           /\ ControlledPath(config.imageDir) /\ Below(config.imageDir, config.dataDir)
           /\ LibvirtIdentifier(config.networkName) /\ LibvirtIdentifier(config.bridgeName)
  BY Zenon DEF ValidConfig
<1>4. ValidConfig(saved)
  BY <1>1, <1>2, <1>3, KeptConfigIsValid
<1> QED BY <1>4 DEF saved

(* A path of the agent's own survives the XML document it is written to.   *)
LEMMA AttributeKeeps ==
  ASSUME NEW Name, NEW path \in Seq(Name), \A i \in 1 .. Len(path) : path[i] # "odd"
  PROVE  Attribute(path) = path
BY SMTT(30) DEF Attribute

LEMMA VmPathIsPlain ==
  ASSUME NEW Name, "vms" \in Name, NEW dataDir \in Seq(Name), ControlledPath(dataDir),
         NEW v \in Name, v # "odd", NEW name \in Name, name # "odd"
  PROVE  Attribute(Append(VmDir(dataDir, v), name)) = Append(VmDir(dataDir, v), name)
<1> DEFINE dir == VmDir(dataDir, v)
           path == Append(dir, name)
<1>1. dir \in Seq(Name) /\ \A i \in 1 .. Len(dir) : dir[i] # "odd"
  <2>1. /\ Len(dataDir) \in Nat
        /\ \A i \in 1 .. Len(dataDir) : dataDir[i] # "odd"
    <3>1. \A i \in 1 .. Len(dataDir) : dataDir[i] # "odd"
      BY Zenon DEF ControlledPath
    <3> QED BY <3>1, LenProperties, Zenon
  <2> DEFINE tail == <<"vms", v>>
  <2>a. Len(tail) = 2 /\ tail[1] = "vms" /\ tail[2] = v
    OBVIOUS
  <2>b. tail \in Seq(Name)
    OBVIOUS
  <2> HIDE DEF tail
  <2>2. /\ tail \in Seq(Name) /\ Len(tail) = 2
        /\ \A i \in 1 .. 2 : tail[i] # "odd"
    BY <2>a, <2>b
  <2>3. /\ dataDir \o tail \in Seq(Name)
        /\ Len(dataDir \o tail) = Len(dataDir) + Len(tail)
        /\ \A i \in 1 .. Len(dataDir) + Len(tail) :
             (dataDir \o tail)[i] = IF i <= Len(dataDir) THEN dataDir[i] ELSE tail[i - Len(dataDir)]
    BY <2>2, ConcatProperties
  <2>4. \A i \in 1 .. Len(dataDir) + 2 : (dataDir \o tail)[i] # "odd"
    <3> TAKE i \in 1 .. Len(dataDir) + 2
    <3>1. CASE i <= Len(dataDir)
      BY <2>1, <2>2, <2>3, <3>1, SMT
    <3>2. CASE ~(i <= Len(dataDir))
      <4>1. i - Len(dataDir) \in 1 .. 2
        BY <2>1, <3>2, SMT
      <4>2. tail[i - Len(dataDir)] # "odd"
        BY <2>2, <4>1
      <4> QED BY <2>1, <2>2, <2>3, <3>2, <4>2
    <3> QED BY <3>1, <3>2
  <2> QED BY <2>2, <2>3, <2>4 DEF dir, VmDir, tail
<1> HIDE DEF dir
<1>2. path \in Seq(Name) /\ \A i \in 1 .. Len(path) : path[i] # "odd"
  BY <1>1, SMTT(30)
<1> HIDE DEF path
<1>3. Attribute(path) = path
  BY <1>2, AttributeKeeps
<1> QED BY <1>3 DEF path, dir

(* The domain.xml that create_vm writes is one that every later operation  *)
(* on the VM accepts (ensure_vm_domain_metadata), for any request and any  *)
(* valid configuration, and that the operations of another VM refuse.      *)
THEOREM CreatedVmIsManaged ==
  ASSUME NEW Name, "vms" \in Name, "disk" \in Name, "seed" \in Name,
         NEW dataDir \in Seq(Name), ControlledPath(dataDir), NEW v \in Name, v # "odd",
         NEW request, NEW networkName, NEW other, NEW otherPaths
  PROVE  LET paths  == VmPaths(dataDir, v)
             domain == DomainXml(request, v, paths, networkName)
         IN  /\ ValidDomainMetadata(domain, v, paths)
             /\ other # v => ~ValidDomainMetadata(domain, other, otherPaths)
<1> DEFINE paths  == VmPaths(dataDir, v)
           domain == DomainXml(request, v, paths, networkName)
<1>1. Attribute(paths.disk) = paths.disk /\ Attribute(paths.seed) = paths.seed
  <2>1. /\ paths.disk = Append(VmDir(dataDir, v), "disk")
        /\ paths.seed = Append(VmDir(dataDir, v), "seed")
    BY DEF VmPaths
  <2>2. "disk" # "odd" /\ "seed" # "odd"
    OBVIOUS
  <2> QED BY <2>1, <2>2, VmPathIsPlain
<1>2. /\ domain.tag = "domain" /\ domain.name = DomainName(v) /\ domain.uuid = v
      /\ domain.disks = <<[device |-> "disk", file |-> paths.disk],
                          [device |-> "cdrom", file |-> paths.seed]>>
  BY <1>1 DEF DomainXml
<1> HIDE DEF paths, domain
<1>3. /\ Len(domain.disks) = 2
      /\ domain.disks[1].device = "disk" /\ domain.disks[1].file = paths.disk
      /\ domain.disks[2].device = "cdrom" /\ domain.disks[2].file = paths.seed
  BY <1>2
<1>4. OnlySource(domain, "disk", paths.disk) /\ OnlySource(domain, "cdrom", paths.seed)
  BY <1>3 DEF OnlySource
<1>5. other # v => ~ValidDomainMetadata(domain, other, otherPaths)
  BY <1>2 DEF ValidDomainMetadata
<1> QED BY <1>2, <1>4, <1>5 DEF ValidDomainMetadata, paths, domain

-----------------------------------------------------------------------------
(* Reports: which the master accepts, for every host and every text.       *)

Ascii(m) == m \in Message /\ m.wide = 0

LEMMA BytesAreNumbers ==
  ASSUME NEW m \in Message PROVE Bytes(m) \in Nat
  BY DEF Bytes, Chars, Message

LEMMA TruncationIsShort ==
  ASSUME NEW m, Ascii(m), NEW p \in Message, Truncation(m, p)
  PROVE  Ascii(p) /\ Bytes(p) <= 240 /\ p.line = 0 /\ p.control = 0
<1> DEFINE whole == Escaped(OneLine(m))
<1>1. whole = Of(m.plain + m.line + 4 * m.control, 0, 0, m.wide, m.extra)
  BY DEF Ascii, Message, Of, OneLine, Escaped
<1>2. /\ PartOf(p, whole)
      /\ Chars(p) = IF Chars(whole) <= 240 THEN Chars(whole) ELSE 240
  BY DEF Truncation
<1>3. /\ whole.line = 0 /\ whole.control = 0 /\ whole.wide = 0
      /\ Chars(whole) \in Nat
  BY <1>1 DEF Ascii, Message, Of, Chars
<1> HIDE DEF whole
<1>4. p.line = 0 /\ p.control = 0 /\ p.wide = 0 /\ p.extra = 0
  BY <1>2, <1>3 DEF PartOf, Message
<1>5. Chars(p) <= 240
  BY <1>2, <1>3
<1> QED BY <1>4, <1>5 DEF Ascii, Message, Chars, Bytes

LEMMA RedactionGrowsByItsMarks ==
  ASSUME NEW m \in Message, NEW r \in Message, NEW marks \in Nat, Redaction(m, r, marks)
  PROVE  /\ Bytes(r) <= Bytes(m) + marks
         /\ r.line <= m.line /\ r.control <= m.control /\ r.wide <= m.wide
  BY SMTT(30) DEF Redaction, Message, Of, PartOf, Chars, Bytes

(* What a check of the preflight says arrives within the master's limits   *)
(* when it is ASCII and the second redaction adds at most 60 characters.   *)
LEMMA AsciiCheckAccepted ==
  ASSUME NEW said \in Message, NEW redacted \in Message, NEW before \in Nat,
         said.wide = 0, Redaction(said, redacted, before),
         NEW check, check.message \in Message,
         PassedCheck(check, said) \/ FailedCheck(check, redacted),
         NEW sent, sent.status = check.status, sent.message \in Message,
         NEW marks \in Nat, Redaction(check.message, sent.message, marks),
         Bytes(sent.message) <= Bytes(check.message) + 60
  PROVE  HostCheckAccepted(sent)
<1>1. Ascii(said) /\ Ascii(redacted)
  <2>1. redacted.wide <= said.wide
    BY RedactionGrowsByItsMarks
  <2> QED BY <2>1 DEF Ascii, Message
<1>2. PICK text \in Message : Ascii(text) /\ Truncation(text, check.message)
  BY <1>1 DEF PassedCheck, FailedCheck
<1>3. /\ Bytes(check.message) <= 240
      /\ check.message.line = 0 /\ check.message.control = 0
  BY <1>2, TruncationIsShort
<1>4. /\ sent.message.line <= check.message.line
      /\ sent.message.control <= check.message.control
  BY RedactionGrowsByItsMarks
<1>5. Bytes(check.message) \in Nat /\ Bytes(sent.message) \in Nat
  BY DEF Bytes, Chars, Message
<1>6. /\ Bytes(sent.message) <= 300
      /\ sent.message.line = 0 /\ sent.message.control = 0
  BY <1>3, <1>4, <1>5 DEF Message
<1>7. check.status = "passed" \/ check.status = "failed"
  BY DEF PassedCheck, FailedCheck
<1> QED BY <1>6, <1>7 DEF HostCheckAccepted

(* A used size the agent computes is never above the total it reports.     *)
LEMMA MemoryIsConsistent ==
  ASSUME NEW host \in Host
  PROVE  Memory(host).total \in Nat /\ Memory(host).used <= Memory(host).total
<1>1. \A kib \in Nat : KibToBytes(kib) \in Nat
  BY WidthAssumption DEF KibToBytes
<1>2. CASE host.meminfo = None
  BY <1>2 DEF Memory
<1>3. CASE host.meminfo # None
  <2>1. host.meminfo.total \in Nat /\ host.meminfo.available \in Nat
    BY <1>3 DEF Host
  <2> DEFINE total == KibToBytes(host.meminfo.total)
             available == KibToBytes(host.meminfo.available)
  <2>2. total \in Nat /\ available \in Nat
    BY <1>1, <2>1
  <2>3. Memory(host) = [total |-> total,
                        used |-> IF available <= total THEN total - available ELSE 0]
    BY <1>3 DEF Memory
  <2> HIDE DEF total, available
  <2> QED BY <2>2, <2>3
<1> QED BY <1>2, <1>3

(* The master accepts the heartbeat of every host whose preflight messages *)
(* are ASCII, whose df reports no more used than there is, and whose sizes *)
(* are numbers the database can hold, whatever checks fail and whatever of *)
(* the host could not be read, if the redaction before sending lengthens   *)
(* no message by more than 60 characters: that of a failed check has been  *)
(* redacted before it was cut.                                             *)
THEOREM AsciiReportAccepted ==
  ASSUME NEW host \in Host,
         NEW says \in [1 .. 7 -> Message], NEW redacted \in [1 .. 7 -> Message],
         NEW checks, NEW marks \in [1 .. 7 -> Nat], NEW request,
         \A i \in 1 .. 7 : request.checks[i].message \in Message,
         \A i \in 1 .. 7 : says[i].wide = 0,
         \A i \in 1 .. 7 :
           Bytes(request.checks[i].message) <= Bytes(checks[i].message) + 60,
         host.df # None =>
           host.df.used <= host.df.total /\ host.df.total <= MaxSigned,
         host.meminfo # None => KibToBytes(host.meminfo.total) <= MaxSigned,
         host.cores <= MaxSigned, host.vmDirectories <= MaxVmCount,
         CheckHostReport(host, says, redacted, checks),
         SendHeartbeat(host, checks, marks, request)
  PROVE  HeartbeatAccepted(request)
<1>1. Len(checks) = 7 /\ Len(request.checks) = 7
  BY DEF CheckHostReport, SendHeartbeat, SanitizeHostChecks, CheckNames
<1>2. \A i \in 1 .. 7 : HostCheckAccepted(request.checks[i])
  <2> SUFFICES ASSUME NEW i \in 1 .. 7 PROVE HostCheckAccepted(request.checks[i])
    OBVIOUS
  <2>1. /\ checks[i].message \in Message
        /\ Holds(host)[i] => PassedCheck(checks[i], says[i])
        /\ ~Holds(host)[i] =>
             /\ \E before \in 0 .. redacted[i].plain : Redaction(says[i], redacted[i], before)
             /\ FailedCheck(checks[i], redacted[i])
    BY DEF CheckHostReport, CheckNames
  <2>2. /\ request.checks[i].status = checks[i].status
        /\ Redaction(checks[i].message, request.checks[i].message, marks[i])
    BY <1>1 DEF SendHeartbeat, SanitizeHostChecks
  <2>3. says[i] \in Message /\ redacted[i] \in Message /\ marks[i] \in Nat
    OBVIOUS
  <2>4. CASE Holds(host)[i]
    <3>1. Redaction(says[i], says[i], 0)
      BY <2>3, SMTT(30) DEF Redaction, Of, Message, PartOf, Chars
    <3> QED BY <2>1, <2>2, <2>3, <2>4, <3>1, AsciiCheckAccepted
  <2>5. CASE ~Holds(host)[i]
    <3>1. PICK before \in 0 .. redacted[i].plain : Redaction(says[i], redacted[i], before)
      BY <2>1, <2>5
    <3>2. before \in Nat
      BY <2>3 DEF Message
    <3> QED BY <2>1, <2>2, <2>3, <2>5, <3>1, <3>2, AsciiCheckAccepted
  <2> QED BY <2>4, <2>5
<1>3. request.libvirt \in {"not_checked", "available", "unavailable"}
  BY DEF SendHeartbeat, LibvirtStatus
<1>4. /\ request.cpu.used <= request.cpu.total
      /\ request.cpu.total <= MaxSigned
  BY DEF SendHeartbeat, Host
<1>5. request.memory = Memory(host) /\ request.disk = Disk(host) /\ request.vms = VmCount(host)
  BY DEF SendHeartbeat
<1>6. request.memory.used <= request.memory.total /\ request.memory.total <= MaxSigned
  BY <1>5, MemoryIsConsistent, WidthAssumption DEF Memory
<1>7. request.disk.used <= request.disk.total /\ request.disk.total <= MaxSigned
  BY <1>5, WidthAssumption DEF Disk
<1>8. request.vms <= MaxVmCount
  BY <1>5, WidthAssumption DEF VmCount
<1> QED BY <1>1, <1>2, <1>3, <1>4, <1>6, <1>7, <1>8 DEF HeartbeatAccepted, MetricsAccepted

LEMMA WholePart ==
  ASSUME NEW m \in Message, NEW p \in Message, PartOf(p, m), Chars(p) = Chars(m)
  PROVE  Bytes(p) = Bytes(m)
<1>1. p.plain = m.plain /\ p.line = m.line /\ p.control = m.control /\ p.wide = m.wide
  BY DEF PartOf, Message, Chars
<1>2. p.extra = m.extra
  BY <1>1 DEF PartOf, Message
<1> QED BY <1>1, <1>2 DEF Bytes, Chars

(* The agent counts characters, the master bytes: a check whose text takes *)
(* more than 300 bytes in at most 240 characters, as 101 characters of     *)
(* three bytes do, is sent whole and refused, and the heartbeat with it.   *)
THEOREM WideReportRefused ==
  ASSUME NEW said \in Message, said.line = 0, said.control = 0,
         Chars(said) <= 240, 300 < Bytes(said),
         NEW checks, NEW request, NEW i \in 1 .. Len(checks), NEW marks, marks[i] = 0,
         checks[i].message \in Message, request.checks[i].message \in Message,
         Truncation(said, checks[i].message),
         SanitizeHostChecks(checks, request.checks, marks)
  PROVE  ~HeartbeatAccepted(request)
<1> DEFINE p == checks[i].message
<1>1. Escaped(OneLine(said)) = said
  BY DEF Of, OneLine, Escaped, Message
<1>2. PartOf(p, said) /\ Chars(p) = Chars(said)
  BY <1>1 DEF Truncation
<1>3. Bytes(p) = Bytes(said)
  BY <1>2, WholePart
<1>4. /\ Redaction(p, request.checks[i].message, 0)
      /\ Len(request.checks) = Len(checks)
  BY DEF SanitizeHostChecks
<1>5. ~(Bytes(request.checks[i].message) <= 300)
  <2> DEFINE r == request.checks[i].message
  <2> HIDE DEF p, r
  <2>1. p.line = 0 /\ p \in Message /\ r \in Message
    BY <1>2 DEF PartOf, Message, p, r
  <2>2. /\ Of(r.plain - 0, r.line, r.control, r.wide, r.extra) \in Message
        /\ Of(r.plain - 0, r.line, r.control, r.wide, r.extra)
             = Of(p.plain, r.line, p.control, p.wide, p.extra)
        /\ r.line \in Nat /\ r.line <= p.line
    BY <1>4 DEF Redaction, Of, Message, PartOf, p, r
  <2>3. r.plain = p.plain /\ r.line = p.line /\ r.control = p.control /\ r.wide = p.wide
        /\ r.extra = p.extra
    BY <2>1, <2>2, SMTT(30) DEF Of, Message
  <2>4. Bytes(r) = Bytes(p)
    BY <2>3 DEF Bytes, Chars
  <2>5. Bytes(said) \in Nat
    BY BytesAreNumbers
  <2> QED BY <1>3, <2>4, <2>5 DEF p, r
<1> QED BY <1>4, <1>5 DEF HeartbeatAccepted, MetricsAccepted, HostCheckAccepted

(* A failure of at most 1024 bytes, a quarter of the limit, is accepted    *)
(* and stored whole whatever it says: of controls only, which take four    *)
(* characters each, or of nothing but keys without values, which are all   *)
(* given a mark.                                                           *)
THEOREM ShortDiagnosticAccepted ==
  ASSUME NEW said \in Message, Bytes(said) \in 1 .. 1024,
         NEW redacted \in Message, NEW marks \in Nat, Redaction(said, redacted, marks),
         NEW tabs \in 0 .. redacted.control
  PROVE  DiagnosticAccepted(said, redacted, tabs)
<1> DEFINE kept == Of(redacted.plain - marks, redacted.line, redacted.control,
                      redacted.wide, redacted.extra)
<1>1. /\ kept \in Message /\ PartOf(kept, said)
      /\ 2 * marks <= 5 * kept.plain + 2 * (Chars(said) - Chars(kept))
  BY DEF Redaction
<1>2. Bytes(kept) + (Chars(said) - Chars(kept)) <= Bytes(said)
  BY <1>1, SMTT(30) DEF PartOf, Bytes, Chars, Message
<1>3. Bytes(redacted) = Bytes(kept) + marks /\ redacted.control = kept.control
  BY DEF Of, Bytes, Chars, Message
<1> HIDE DEF kept
<1>4. 2 * kept.plain + 2 * kept.control <= 2 * Bytes(kept)
  BY <1>1 DEF Bytes, Chars, Message
<1>5. Bytes(EscapedNonLine(redacted, tabs)) = Bytes(redacted) + 3 * (redacted.control - tabs)
  BY DEF EscapedNonLine, Of, Bytes, Chars, Message
<1>6. /\ kept.plain \in Nat /\ kept.control \in Nat /\ tabs \in Nat
      /\ Chars(said) \in Nat /\ Chars(kept) \in Nat
      /\ Bytes(kept) \in Nat /\ Bytes(said) \in Nat /\ Bytes(redacted) \in Nat
  <2>1. /\ kept.plain \in Nat /\ kept.control \in Nat /\ Chars(kept) \in Nat
        /\ Bytes(kept) \in Nat
    BY <1>1 DEF Bytes, Chars, Message
  <2>2. tabs \in Nat
    BY <1>3, <2>1
  <2>3. Chars(said) \in Nat /\ Bytes(said) \in Nat /\ Bytes(redacted) \in Nat
    BY DEF Bytes, Chars, Message
  <2> QED BY <2>1, <2>2, <2>3
<1>7. 0 <= Chars(said) - Chars(kept)
  BY <1>1, SMTT(30) DEF PartOf, Chars, Message
<1>8. 2 * Bytes(EscapedNonLine(redacted, tabs)) <= 8 * Bytes(said)
  BY <1>1, <1>2, <1>3, <1>4, <1>5, <1>6, <1>7
<1>9. Bytes(EscapedNonLine(redacted, tabs)) \in Int
  BY <1>3, <1>5, <1>6
<1> QED BY <1>6, <1>8, <1>9 DEF DiagnosticAccepted
=============================================================================
