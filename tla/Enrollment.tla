------------------------------ MODULE Enrollment ------------------------------
(***************************************************************************)
(* How the agent of one node gets its credential (agent/src/main, config,  *)
(* client; master/src/nodes, http): an administrator issues a bootstrap    *)
(* token and installs it in the agent's configuration file; the agent      *)
(* makes sure that it can save that file, registers with the token, and    *)
(* replaces the token in the file by the credential it was given.  The     *)
(* master consumes the token and stores the hash of the credential.        *)
(*                                                                         *)
(* The two sides share nothing but the exchange, and the agent, its host,  *)
(* the network and the master may fail at any point of it.  systemd starts *)
(* an agent that failed again, for ever.                                   *)
(*                                                                         *)
(* Each registration attempt that succeeds yields a credential of its own, *)
(* which is therefore named by the attempt.                                *)
(***************************************************************************)
EXTENDS Integers, FiniteSets

CONSTANTS
  MaxTokens,    \* bound: tokens issued for the node
  MaxAttempts,  \* bound: registrations under way or successful at a time
  MaxFaults,    \* bound: faults
  None          \* null value

Tokens   == 1 .. MaxTokens
Attempts == 1 .. MaxAttempts

ASSUME EnrollmentAssumption ==
  /\ MaxTokens \in Nat
  /\ MaxAttempts \in Nat
  /\ MaxFaults \in Nat
  /\ None \notin Int

VARIABLES
  token,       \* the bootstrap_tokens of the node
  credential,  \* the credential whose hash the nodes row has, or None
  attempt,     \* registration requests, from sending to answer
  proc,        \* the agent process
  config,      \* the configuration file
  survivors,   \* the contents a power loss may leave of the configuration file
  target,      \* whether the file and its directory pass the agent's checks
  installer,   \* whether the installer is about to restart the agent
  unsynced,    \* history: an installation wrote the file since the last sync
  retired,     \* history: credentials an installation took out of the file
  faults       \* faults so far

master == <<token, credential>>
files  == <<config, survivors, unsynced>>
enrollVars == <<master, attempt, proc, files, target, installer, retired, faults>>

-----------------------------------------------------------------------------
Token == [stage: {"unissued", "issued", "installed"}, used: BOOLEAN, expired: BOOLEAN]

Unused  == [status |-> "unused"]
Attempt == [status: {"sent", "matched", "registered", "refused", "lost"}, token: Tokens]

(* What a configuration file says.  A torn one is empty or cut short and   *)
(* cannot be loaded.                                                       *)
HoldsToken(t)      == [kind |-> "token", of |-> t]
HoldsCredential(i) == [kind |-> "credential", of |-> i]
NoFile   == [kind |-> "absent", of |-> 0]
TornFile == [kind |-> "torn", of |-> 0]
File == [kind: {"token"}, of: Tokens] \union [kind: {"credential"}, of: Attempts]
          \union {NoFile, TornFile}

(* The process: registering with a token, or holding a credential.         *)
Down == [phase |-> "down", of |-> 0]
Proc == [phase: {"prepare"}, of: Tokens]
          \union [phase: {"await", "write", "rename", "serving"}, of: Attempts]
          \union {Down}

EnrollTypeOK ==
  /\ token \in [Tokens -> Token]
  /\ credential \in Attempts \union {None}
  /\ attempt \in [Attempts -> Attempt \union {Unused}]
  /\ proc \in Proc
  /\ config \in File /\ survivors \subseteq File
  /\ unsynced \in BOOLEAN
  /\ target \in {"good", "bad_directory", "bad_file"}
  /\ installer \in {"idle", "restarting"}
  /\ retired \subseteq Attempts
  /\ faults \in Nat

-----------------------------------------------------------------------------
Registered(i) == attempt[i].status = "registered"
Awaits(i) == proc.phase = "await" /\ proc.of = i
(* Between the check of the save target and the saved file.                *)
Enrolling == proc.phase \in {"await", "write", "rename"}

Calm == UNCHANGED faults
Fault == faults < MaxFaults /\ faults' = faults + 1

-----------------------------------------------------------------------------
(* The administrator and the installer.                                    *)

(* POST /nodes/:id/bootstrap-tokens; several tokens may be open.           *)
IssueToken(t) ==
  /\ token[t].stage = "unissued"
  /\ \A u \in Tokens : u < t => token[u].stage # "unissued"
  /\ token' = [token EXCEPT ![t].stage = "issued"]
  /\ UNCHANGED <<credential, attempt, proc, files, target, installer, retired, faults>>

ExpireToken(t) ==
  /\ token[t].stage # "unissued" /\ ~token[t].expired
  /\ token' = [token EXCEPT ![t].expired = TRUE]
  /\ UNCHANGED <<credential, attempt, proc, files, target, installer, retired, faults>>

(* write_config of install-agent.sh replaces the file whatever it holds: a *)
(* temporary file is written and renamed, and neither it nor the directory *)
(* is synced.  A power loss may leave the old file, the new one, or one    *)
(* whose name has reached the disk and whose content has not.              *)
InstallConfig(t) ==
  /\ token[t].stage = "issued"
  /\ token' = [token EXCEPT ![t].stage = "installed"]
  /\ config' = HoldsToken(t)
  /\ survivors' = survivors \union {HoldsToken(t), TornFile}
  /\ unsynced' = TRUE
  /\ retired' = IF config.kind = "credential" THEN retired \union {config.of} ELSE retired
  /\ installer' = "restarting"
  /\ UNCHANGED <<credential, attempt, proc, target, faults>>

(* systemctl restart at its end: a fault for an enrollment under way.      *)
RestartService ==
  /\ installer = "restarting"
  /\ installer' = "idle"
  /\ proc' = Down
  /\ faults' = IF Enrolling THEN faults + 1 ELSE faults
  /\ UNCHANGED <<master, attempt, files, target, retired>>

(* Somebody changes owner, mode or type of the file or its directory.      *)
SpoilTarget(kind) ==
  /\ Fault
  /\ target = "good" /\ target' = kind
  /\ UNCHANGED <<master, attempt, proc, files, installer, retired>>

RepairTarget ==
  /\ target # "good" /\ target' = "good"
  /\ UNCHANGED <<master, attempt, proc, files, installer, retired, faults>>

-----------------------------------------------------------------------------
(* The master.                                                             *)

(* An answer of 401 goes to whoever still waits for it.                    *)
Refuse(i) ==
  attempt' = [attempt EXCEPT ![i] = IF Awaits(i) THEN [@ EXCEPT !.status = "refused"] ELSE Unused]

(* register_agent_in_tx begins: the SELECT of the open tokens.             *)
MatchToken(i) ==
  LET t == token[attempt[i].token]
  IN  /\ attempt[i].status = "sent"
      /\ IF t.used \/ t.expired
         THEN Refuse(i)
         ELSE attempt' = [attempt EXCEPT ![i].status = "matched"]
      /\ UNCHANGED <<master, proc, files, target, installer, retired, faults>>

(* Mutant: the UPDATE does not test used_at again.                         *)
ConsumeMatchedToken(i) ==
  /\ attempt[i].status = "matched"
  /\ token' = [token EXCEPT ![attempt[i].token].used = TRUE]
  /\ credential' = i
  /\ attempt' = [attempt EXCEPT ![i].status = "registered"]
  /\ UNCHANGED <<proc, files, target, installer, retired, faults>>

(* The guarded UPDATE waits for a competing one and then tests used_at; it *)
(* does not see the token expire, now() is the time the transaction began. *)
(* The node gets the new credential in the same transaction.               *)
ConsumeToken(i) ==
  LET t == attempt[i].token
  IN  /\ attempt[i].status = "matched"
      /\ IF token[t].used
         THEN Refuse(i) /\ UNCHANGED master
         ELSE /\ token' = [token EXCEPT ![t].used = TRUE]
              /\ credential' = i
              /\ attempt' = [attempt EXCEPT ![i].status = "registered"]
      /\ UNCHANGED <<proc, files, target, installer, retired, faults>>

(* A rate limit, an error of PostgreSQL, a restart of the master.          *)
AbortRegistration(i) ==
  /\ Fault
  /\ attempt[i].status \in {"sent", "matched"}
  /\ Refuse(i)
  /\ UNCHANGED <<master, proc, files, target, installer, retired>>

LoseRequest(i) ==
  /\ Fault
  /\ attempt[i].status = "sent"
  /\ attempt' = [attempt EXCEPT ![i] = IF Awaits(i) THEN [@ EXCEPT !.status = "lost"] ELSE Unused]
  /\ UNCHANGED <<master, proc, files, target, installer, retired>>

-----------------------------------------------------------------------------
(* The agent.                                                              *)

Loadable == config.kind \in {"token", "credential"} /\ target # "bad_file"

(* Mutant: a file that is missing or cannot be parsed is taken for one that *)
(* says nothing, and the agent runs on its defaults.                       *)
StartOnDefaults ==
  /\ proc = Down
  /\ target # "bad_file"
  /\ proc' = [phase |-> IF config.kind = "token" THEN "prepare" ELSE "serving", of |-> config.of]
  /\ UNCHANGED <<master, attempt, files, target, installer, retired, faults>>

(* systemd starts the agent (again): load_from_default_path, bootstrap_ready. *)
Start ==
  /\ proc = Down
  /\ Loadable
  /\ proc' = [phase |-> IF config.kind = "token" THEN "prepare" ELSE "serving", of |-> config.of]
  /\ UNCHANGED <<master, attempt, files, target, installer, retired, faults>>

(* Mutant: the agent registers without having checked the save target.     *)
RegisterUnprepared ==
  /\ proc.phase = "prepare"
  /\ \E i \in Attempts :
       /\ attempt[i] = Unused /\ \A j \in Attempts : j < i => attempt[j] # Unused
       /\ attempt' = [attempt EXCEPT ![i] = [status |-> "sent", token |-> proc.of]]
       /\ proc' = [phase |-> "await", of |-> i]
  /\ UNCHANGED <<master, files, target, installer, retired, faults>>

(* prepare_save_target, then the request.                                  *)
Register ==
  /\ proc.phase = "prepare"
  /\ \/ /\ target # "good"
        /\ proc' = Down
        /\ UNCHANGED attempt
     \/ /\ target = "good"
        /\ \E i \in Attempts :
             /\ attempt[i] = Unused /\ \A j \in Attempts : j < i => attempt[j] # Unused
             /\ attempt' = [attempt EXCEPT ![i] = [status |-> "sent", token |-> proc.of]]
             /\ proc' = [phase |-> "await", of |-> i]
  /\ UNCHANGED <<master, files, target, installer, retired, faults>>

ReceiveAnswer ==
  /\ proc.phase = "await"
  /\ \/ /\ attempt[proc.of].status = "registered"
        /\ proc' = [proc EXCEPT !.phase = "write"]
        /\ UNCHANGED attempt
     \/ /\ attempt[proc.of].status = "refused"
        /\ proc' = Down
        /\ attempt' = [attempt EXCEPT ![proc.of] = Unused]
  /\ UNCHANGED <<master, files, target, installer, retired, faults>>

(* Mutant: an HTTP client without a timeout.                               *)
NeverTimeOut ==
  /\ proc.phase = "await" /\ attempt[proc.of].status # "lost"
  /\ Fault
  /\ proc' = Down
  /\ UNCHANGED <<master, attempt, files, target, installer, retired>>

(* The timeout of the HTTP client: nothing more of a lost request, but any *)
(* other one may still be carried out.                                     *)
TimeOut ==
  /\ proc.phase = "await"
  /\ proc' = Down
  /\ \/ /\ attempt[proc.of].status = "lost"
        /\ attempt' = [attempt EXCEPT ![proc.of] = Unused]
        /\ Calm
     \/ /\ attempt[proc.of].status # "lost"
        /\ UNCHANGED attempt
        /\ Fault
  /\ UNCHANGED <<master, files, target, installer, retired>>

(* save: prepare_save_target once more, then the temporary file, written   *)
(* and synced.  An error removes it and ends the process.                  *)
WriteTemporary ==
  /\ proc.phase = "write"
  /\ \/ target = "good" /\ proc' = [proc EXCEPT !.phase = "rename"] /\ Calm
     \/ target # "good" /\ proc' = Down /\ Calm
     \/ Fault /\ proc' = Down
  /\ UNCHANGED <<master, attempt, files, target, installer, retired>>

(* Mutant: the temporary file was not synced before it is renamed.         *)
RenameUnsynced ==
  /\ proc.phase = "rename"
  /\ config' = HoldsCredential(proc.of) /\ proc' = [proc EXCEPT !.phase = "serving"]
  /\ survivors' = survivors \union {config', TornFile}
  /\ UNCHANGED <<master, attempt, unsynced, target, installer, retired, faults>>

(* The temporary file is renamed to the configuration file and its mode is *)
(* set.  The rename may fail, and so may the latter.  The file was synced  *)
(* and its directory is not: a power loss may undo the rename.             *)
RenameTemporary ==
  /\ proc.phase = "rename"
  /\ \/ Calm /\ config' = HoldsCredential(proc.of) /\ proc' = [proc EXCEPT !.phase = "serving"]
     \/ Fault /\ config' \in {config, HoldsCredential(proc.of)} /\ proc' = Down
  /\ survivors' = survivors \union {config'}
  /\ UNCHANGED <<master, attempt, unsynced, target, installer, retired>>

Kill ==
  /\ Fault
  /\ proc # Down /\ proc' = Down
  /\ UNCHANGED <<master, attempt, files, target, installer, retired>>

(* The file system writes everything out, at a time of its own.            *)
Flush ==
  /\ survivors # {config} /\ survivors' = {config}
  /\ unsynced' = FALSE
  /\ UNCHANGED <<master, attempt, proc, config, target, installer, retired, faults>>

(* The host loses its power and boots again, with the file its disk has.   *)
PowerLoss ==
  /\ Fault
  /\ config' \in survivors /\ survivors' = {config'}
  /\ unsynced' = FALSE
  /\ proc' = Down
  /\ installer' = "idle"
  /\ UNCHANGED <<master, attempt, target, retired>>

-----------------------------------------------------------------------------
EnrollInit ==
  /\ token = [t \in Tokens |-> [stage |-> "unissued", used |-> FALSE, expired |-> FALSE]]
  /\ credential = None
  /\ attempt = [i \in Attempts |-> Unused]
  /\ proc = Down
  /\ config = NoFile /\ survivors = {NoFile} /\ unsynced = FALSE
  /\ target = "good"
  /\ installer = "idle"
  /\ retired = {}
  /\ faults = 0

MasterStep == \E i \in Attempts : MatchToken(i) \/ ConsumeToken(i)

AgentStep == Start \/ Register \/ ReceiveAnswer \/ TimeOut \/ WriteTemporary \/ RenameTemporary

AdminStep ==
  \/ \E t \in Tokens : IssueToken(t) \/ InstallConfig(t)
  \/ RestartService
  \/ RepairTarget

Environment ==
  \/ \E t \in Tokens : ExpireToken(t)
  \/ \E kind \in {"bad_directory", "bad_file"} : SpoilTarget(kind)
  \/ \E i \in Attempts : AbortRegistration(i) \/ LoseRequest(i)
  \/ Kill \/ Flush \/ PowerLoss

EnrollNext == MasterStep \/ AgentStep \/ AdminStep \/ Environment

EnrollSpec == EnrollInit /\ [][EnrollNext]_enrollVars

(* systemd restarts a failed agent after five seconds, the agent moves on, *)
(* its HTTP client has a timeout, the master handles what reaches it, and  *)
(* the installer runs to its end.  Nothing is assumed of the               *)
(* administrator.                                                          *)
EnrollFairness ==
  /\ WF_enrollVars(AgentStep)
  /\ \A i \in Attempts : WF_enrollVars(MatchToken(i) \/ ConsumeToken(i))
  /\ WF_enrollVars(RestartService)

FairEnrollSpec == EnrollSpec /\ EnrollFairness

-----------------------------------------------------------------------------
(* Properties.                                                             *)

(* A token buys one credential, however many registrations with it overlap *)
(* (an agent that timed out and was started again sends a second one).     *)
OneCredentialPerToken ==
  \A i, j \in Attempts :
    Registered(i) /\ Registered(j) /\ attempt[i].token = attempt[j].token => i = j

(* Whatever is interrupted, and however far the disk is behind: a file     *)
(* that cannot be loaded is left only by an installation that had not      *)
(* reached the disk, never by the agent's own save, and a credential that  *)
(* comes into the file, by a save or by what a power loss brings back, is  *)
(* one the master has registered.                                          *)
ConfigSound ==
  [][config' # config =>
       /\ config' = TornFile => unsynced
       /\ config'.kind = "credential" => Registered(config'.of)]_enrollVars

(* A registration nobody waits for any more and whose credential is not in *)
(* anybody's hands, in the file or replaced by an installation.            *)
Abandoned(i) ==
  /\ attempt[i].status \in {"sent", "matched", "registered"}
  /\ ~(Enrolling /\ proc.of = i)
  /\ config # HoldsCredential(i)
  /\ i \notin retired

LostCredentials == {i \in Attempts : Registered(i) /\ Abandoned(i)}

(* A credential the master has given out is lost only to a fault, and each *)
(* fault costs at most one: an agent that cannot save its file, say, does  *)
(* not burn one token after another (SECURITY.md: it never asks the master *)
(* to consume it).                                                         *)
FaultCostsOneToken == Cardinality(LostCredentials) <= faults

(* The agent serves with the credential in its file; that it is the one    *)
(* the master knows is for another token's registration to change.         *)
Serves ==
  /\ proc.phase = "serving" /\ config = HoldsCredential(proc.of)
  /\ credential # proc.of => attempt[credential].token # attempt[proc.of].token

(* Nothing the agent could do: the administrator has to install another    *)
(* token or to repair the permissions.                                     *)
NeedsAdministrator ==
  \/ config \in {NoFile, TornFile}
  \/ config.kind = "token" /\ (token[config.of].used \/ token[config.of].expired)
  \/ target # "good"

(* Every enrollment comes to its end, restarts and timeouts included.      *)
EnrollmentSettles == <>[](Serves \/ NeedsAdministrator)

-----------------------------------------------------------------------------
(* Strengthenings.                                                         *)

(* Attempts that are registered used their token.                          *)
RegisteredUsed == \A i \in Attempts : Registered(i) => token[attempt[i].token].used

(* The process holds what it should: an attempt that is under way, a       *)
(* credential that was registered.                                         *)
ProcSound ==
  /\ proc.phase = "await" => attempt[proc.of] # Unused
  /\ proc.phase \in {"write", "rename", "serving"} => Registered(proc.of)

(* Only an installation the disk does not have yet, and a power loss that  *)
(* hit one, may leave a torn file; every credential that may be left was   *)
(* registered.                                                             *)
DiskSound ==
  /\ TornFile \in survivors => unsynced \/ config = TornFile
  /\ \A f \in survivors \union {config} : f.kind = "credential" => Registered(f.of)

(* An agent that registers replaces a token in its file.                   *)
ReplacesToken ==
  proc.phase \in {"prepare", "await", "write", "rename"} => config.kind = "token"

(* Credentials given out or still to be given out to nobody, and the one   *)
(* that will be lost because the target was spoiled meanwhile.             *)
Adrift == {i \in Attempts : Abandoned(i)}
Debt   == IF Enrolling /\ target # "good" THEN 1 ELSE 0
FaultsCover == Cardinality(Adrift) + Debt <= faults

EnrollInv ==
  /\ EnrollTypeOK
  /\ RegisteredUsed
  /\ OneCredentialPerToken
  /\ ProcSound
  /\ DiskSound
  /\ ReplacesToken
  /\ FaultsCover
=============================================================================
