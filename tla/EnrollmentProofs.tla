-------------------------- MODULE EnrollmentProofs --------------------------
(***************************************************************************)
(* What TLAPS proves of Enrollment, for any numbers of tokens, requests    *)
(* and faults: a token buys one credential, the configuration file is torn *)
(* only by a power loss that hits an installation and never holds a        *)
(* credential the master does not have, and no more credentials are lost   *)
(* than there were faults.  EnrollInv is the inductive invariant; the      *)
(* proof of a step has one fact per part.                                  *)
(***************************************************************************)
EXTENDS Enrollment, FiniteSetTheorems, TLAPS

USE DEF HoldsToken, HoldsCredential, TornFile, NoFile, Down, Unused

LEMMA TypeInit == EnrollInit => EnrollTypeOK
  <1>1. NoFile \in File /\ Down \in Proc
    BY DEF File, Proc
  <1>2. EnrollInit => config \in File /\ survivors \subseteq File /\ proc \in Proc
    BY <1>1 DEF EnrollInit
  <1>3. EnrollInit => token \in [Tokens -> Token] /\ attempt \in [Attempts -> Attempt \union {Unused}]
    BY DEF EnrollInit, Token
  <1>4. EnrollInit => unsynced \in BOOLEAN
    BY Zenon DEF EnrollInit
  <1>5. EnrollInit => faults \in Nat
    BY DEF EnrollInit
  <1>6. EnrollInit => /\ credential \in Attempts \union {None} /\ retired \subseteq Attempts
                      /\ target \in {"good", "bad_directory", "bad_file"}
                      /\ installer \in {"idle", "restarting"}
    BY DEF EnrollInit
  <1>7. QED BY <1>2, <1>3, <1>4, <1>5, <1>6 DEF EnrollTypeOK

(* What Refuse(i) leaves of attempt i has its type.                        *)
LEMMA RefuseType ==
  ASSUME EnrollTypeOK, NEW i \in Attempts, attempt[i] # Unused, Refuse(i)
  PROVE  attempt' \in [Attempts -> Attempt \union {Unused}]
  <1>1. attempt[i] \in Attempt
    BY DEF EnrollTypeOK
  <1>2. [attempt[i] EXCEPT !.status = "refused"] \in Attempt
    BY <1>1 DEF Attempt
  <1>3. QED BY <1>2 DEF Refuse, EnrollTypeOK

LEMMA TypeStep == EnrollTypeOK /\ [EnrollNext]_enrollVars => EnrollTypeOK'
  <1> SUFFICES ASSUME EnrollTypeOK, [EnrollNext]_enrollVars PROVE EnrollTypeOK'
    OBVIOUS
  <1>1. CASE UNCHANGED enrollVars
    BY <1>1 DEF EnrollTypeOK, enrollVars, master, files
  <1>2. ASSUME NEW t \in Tokens, IssueToken(t) PROVE EnrollTypeOK'
    BY <1>2 DEF IssueToken, EnrollTypeOK, Token, files
  <1>3. ASSUME NEW t \in Tokens, InstallConfig(t) PROVE EnrollTypeOK'
    BY <1>3 DEF InstallConfig, EnrollTypeOK, Token, File
  <1>4. CASE RestartService
    BY <1>4 DEF RestartService, EnrollTypeOK, master, files, Proc
  <1>5. CASE RepairTarget
    BY <1>5 DEF RepairTarget, EnrollTypeOK, master, files
  <1>6. ASSUME NEW t \in Tokens, ExpireToken(t) PROVE EnrollTypeOK'
    BY <1>6 DEF ExpireToken, EnrollTypeOK, Token, files
  <1>7. ASSUME NEW kind \in {"bad_directory", "bad_file"}, SpoilTarget(kind) PROVE EnrollTypeOK'
    BY <1>7 DEF SpoilTarget, Fault, EnrollTypeOK, master, files
  <1>8. ASSUME NEW i \in Attempts, AbortRegistration(i) PROVE EnrollTypeOK'
    <2>1. attempt[i] # Unused
      BY <1>8 DEF AbortRegistration
    <2>2. attempt' \in [Attempts -> Attempt \union {Unused}]
      BY <1>8, <2>1, RefuseType DEF AbortRegistration
    <2>3. QED BY <1>8, <2>2 DEF AbortRegistration, Fault, EnrollTypeOK, master, files
  <1>9. ASSUME NEW i \in Attempts, LoseRequest(i) PROVE EnrollTypeOK'
    <2>1. attempt[i] \in Attempt
      BY <1>9 DEF LoseRequest, EnrollTypeOK
    <2>2. [attempt[i] EXCEPT !.status = "lost"] \in Attempt
      BY <2>1 DEF Attempt
    <2>3. QED BY <1>9, <2>2 DEF LoseRequest, Fault, EnrollTypeOK, master, files
  <1>10. ASSUME NEW i \in Attempts, MatchToken(i) PROVE EnrollTypeOK'
    <2>1. attempt[i] # Unused /\ attempt[i] \in Attempt
      BY <1>10 DEF MatchToken, EnrollTypeOK
    <2>2. [attempt[i] EXCEPT !.status = "matched"] \in Attempt
      BY <2>1 DEF Attempt
    <2>3. attempt' \in [Attempts -> Attempt \union {Unused}]
      BY <1>10, <2>1, <2>2, RefuseType DEF MatchToken, EnrollTypeOK
    <2>4. QED BY <1>10, <2>3 DEF MatchToken, EnrollTypeOK, master, files
  <1>11. ASSUME NEW i \in Attempts, ConsumeToken(i) PROVE EnrollTypeOK'
    <2>1. attempt[i] # Unused /\ attempt[i] \in Attempt
      BY <1>11 DEF ConsumeToken, EnrollTypeOK
    <2>2. [attempt[i] EXCEPT !.status = "registered"] \in Attempt
      BY <2>1 DEF Attempt
    <2>3. attempt' \in [Attempts -> Attempt \union {Unused}]
      BY <1>11, <2>1, <2>2, RefuseType DEF ConsumeToken, EnrollTypeOK
    <2>4. attempt[i].token \in Tokens
      BY <2>1, <1>11 DEF Attempt, ConsumeToken
    <2>5. token[attempt[i].token] \in Token
      BY <2>4 DEF EnrollTypeOK
    <2>6. [token[attempt[i].token] EXCEPT !.used = TRUE] \in Token
      BY <2>5 DEF Token
    <2>7. token' \in [Tokens -> Token]
      BY <1>11, <2>6 DEF ConsumeToken, EnrollTypeOK, master
    <2>8. credential' \in Attempts \union {None}
      BY <1>11 DEF ConsumeToken, EnrollTypeOK, master
    <2>9. QED BY <1>11, <2>3, <2>7, <2>8 DEF ConsumeToken, EnrollTypeOK, files
  <1>12. CASE Start
    BY <1>12 DEF Start, Loadable, EnrollTypeOK, master, files, Proc, File
  <1>13. CASE Register
    <2>1. proc.of \in Tokens
      BY <1>13 DEF Register, EnrollTypeOK, Proc
    <2>2. QED BY <1>13, <2>1 DEF Register, EnrollTypeOK, master, files, Proc, Attempt
  <1>14. CASE ReceiveAnswer
    BY <1>14 DEF ReceiveAnswer, EnrollTypeOK, master, files, Proc
  <1>15. CASE TimeOut
    BY <1>15 DEF TimeOut, Calm, Fault, EnrollTypeOK, master, files, Proc
  <1>16. CASE WriteTemporary
    BY <1>16 DEF WriteTemporary, Calm, Fault, EnrollTypeOK, master, files, Proc
  <1>17. CASE RenameTemporary
    BY <1>17 DEF RenameTemporary, Calm, Fault, EnrollTypeOK, master, files, Proc, File
  <1>18. CASE Kill
    BY <1>18 DEF Kill, Fault, EnrollTypeOK, master, files, Proc
  <1>19. CASE Flush
    BY <1>19 DEF Flush, EnrollTypeOK, master
  <1>20. CASE PowerLoss
    <2>1. config' \in File /\ survivors' \subseteq File
      BY <1>20 DEF PowerLoss, EnrollTypeOK
    <2>2. proc' \in Proc /\ unsynced' \in BOOLEAN
      BY <1>20 DEF PowerLoss, Proc
    <2>3. /\ UNCHANGED <<master, attempt, target, retired>>
          /\ installer' = "idle" /\ faults' \in Nat
      BY <1>20 DEF PowerLoss, Fault, EnrollTypeOK
    <2>4. QED BY <2>1, <2>2, <2>3 DEF EnrollTypeOK, master
  <1>21. QED
    BY <1>1, <1>2, <1>3, <1>4, <1>5, <1>6, <1>7, <1>8, <1>9, <1>10, <1>11, <1>12, <1>13,
       <1>14, <1>15, <1>16, <1>17, <1>18, <1>19, <1>20
    DEF EnrollNext, MasterStep, AgentStep, AdminStep, Environment

-----------------------------------------------------------------------------
(* How a step may move the attempts: what was registered stays so.         *)
Registers(i) ==
  /\ attempt[i].status = "matched" /\ ~token[attempt[i].token].used
  /\ attempt' = [attempt EXCEPT ![i].status = "registered"]
  /\ token' = [token EXCEPT ![attempt[i].token].used = TRUE]

LEMMA AttemptCases ==
  ASSUME EnrollTypeOK, NEW i \in Attempts, attempt[i] # Unused
  PROVE  attempt[i] \in Attempt
  BY DEF EnrollTypeOK

LEMMA RegisteredStays ==
  ASSUME EnrollTypeOK, [EnrollNext]_enrollVars
  PROVE  /\ \A i \in Attempts : Registered(i) => attempt'[i] = attempt[i]
         /\ \A t \in Tokens : token[t].used => token'[t].used
         /\ \/ \E i \in Attempts : Registers(i)
            \/ \A i \in Attempts : Registered(i)' => Registered(i)
  <1> DEFINE P == /\ \A i \in Attempts : Registered(i) => attempt'[i] = attempt[i]
                  /\ \A t \in Tokens : token[t].used => token'[t].used
                  /\ \/ \E i \in Attempts : Registers(i)
                     \/ \A i \in Attempts : Registered(i)' => Registered(i)
  <1>1. ASSUME UNCHANGED attempt, \A t \in Tokens : token[t].used => token'[t].used PROVE P
    BY <1>1 DEF Registered
  <1>2. ASSUME NEW i \in Attempts, ~Registered(i), UNCHANGED token,
               \A j \in Attempts : j # i => attempt'[j] = attempt[j],
               attempt'[i].status # "registered"
        PROVE  P
    BY <1>2 DEF Registered
  <1>3. ASSUME NEW i \in Attempts, ~Registered(i), UNCHANGED token, Refuse(i) PROVE P
    BY <1>2, <1>3 DEF Refuse, EnrollTypeOK, Registered, Attempt
  <1>4. CASE UNCHANGED enrollVars
    BY <1>1, <1>4 DEF enrollVars, master
  <1>5. ASSUME NEW t \in Tokens, IssueToken(t) \/ InstallConfig(t) \/ ExpireToken(t) PROVE P
    <2>1. UNCHANGED attempt /\ \A u \in Tokens : token[u].used => token'[u].used
      BY <1>5 DEF IssueToken, InstallConfig, ExpireToken, EnrollTypeOK, Token
    <2>2. QED BY <1>1, <2>1
  <1>6. CASE \/ RestartService \/ RepairTarget \/ Start \/ WriteTemporary \/ RenameTemporary
             \/ Kill \/ Flush \/ PowerLoss \/ \E kind \in {"bad_directory", "bad_file"} : SpoilTarget(kind)
    <2>1. UNCHANGED <<attempt, token>>
      BY <1>6 DEF RestartService, RepairTarget, Start, WriteTemporary, RenameTemporary, Kill,
                  Flush, PowerLoss, SpoilTarget, master
    <2>2. QED BY <1>1, <2>1
  <1>7. ASSUME NEW i \in Attempts, AbortRegistration(i) PROVE P
    BY <1>3, <1>7 DEF AbortRegistration, Registered, master
  <1>8. ASSUME NEW i \in Attempts, LoseRequest(i) PROVE P
    BY <1>2, <1>8 DEF LoseRequest, Registered, EnrollTypeOK, Attempt, master
  <1>9. ASSUME NEW i \in Attempts, MatchToken(i) PROVE P
    <2>1. CASE Refuse(i)
      BY <1>3, <1>9, <2>1 DEF MatchToken, Registered, master
    <2>2. CASE attempt' = [attempt EXCEPT ![i].status = "matched"]
      BY <1>2, <1>9, <2>2 DEF MatchToken, Registered, EnrollTypeOK, Attempt, master
    <2>3. QED BY <1>9, <2>1, <2>2 DEF MatchToken
  <1>10. ASSUME NEW i \in Attempts, ConsumeToken(i) PROVE P
    <2>1. CASE Refuse(i) /\ UNCHANGED master
      BY <1>3, <1>10, <2>1 DEF ConsumeToken, Registered, master
    <2>2. CASE Registers(i)
      <3>1. attempt[i] \in Attempt
        BY <2>2, AttemptCases DEF Registers
      <3>2. attempt[i].token \in Tokens /\ ~Registered(i)
        BY <2>2, <3>1 DEF Registers, Registered, Attempt
      <3>3. \A t \in Tokens : token[t].used => token'[t].used
        BY <2>2, <3>2 DEF Registers, EnrollTypeOK, Token
      <3>4. \A j \in Attempts : Registered(j) => attempt'[j] = attempt[j]
        BY <2>2, <3>2 DEF Registers, EnrollTypeOK
      <3>5. QED BY <2>2, <3>3, <3>4
    <2>3. QED BY <1>10, <2>1, <2>2 DEF ConsumeToken, Registers
  <1>11. CASE Register
    <2>1. CASE UNCHANGED attempt
      BY <1>1, <1>11, <2>1 DEF Register, master
    <2>2. CASE \E i \in Attempts :
                 /\ attempt[i] = Unused
                 /\ attempt' = [attempt EXCEPT ![i] = [status |-> "sent", token |-> proc.of]]
      BY <1>2, <1>11, <2>2 DEF Register, Registered, EnrollTypeOK, master
    <2>3. QED BY <1>11, <2>1, <2>2 DEF Register
  <1>12. CASE ReceiveAnswer \/ TimeOut
    <2>1. CASE UNCHANGED attempt
      BY <1>1, <1>12, <2>1 DEF ReceiveAnswer, TimeOut, master
    <2>2. CASE /\ attempt[proc.of].status \in {"refused", "lost"}
               /\ attempt' = [attempt EXCEPT ![proc.of] = Unused]
      <3>1. proc.phase = "await" /\ proc.of \in Attempts
        BY <1>12 DEF ReceiveAnswer, TimeOut, EnrollTypeOK, Proc
      <3>2. QED BY <1>2, <1>12, <2>2, <3>1 DEF ReceiveAnswer, TimeOut, Registered, EnrollTypeOK, master
    <2>3. QED BY <1>12, <2>1, <2>2 DEF ReceiveAnswer, TimeOut
  <1>13. QED
    BY <1>4, <1>5, <1>6, <1>7, <1>8, <1>9, <1>10, <1>11, <1>12
    DEF EnrollNext, MasterStep, AgentStep, AdminStep, Environment

(* A token that was matched is one of the tokens, its attempt a request.   *)
LEMMA TokenSafetyStep ==
  ASSUME EnrollInv, [EnrollNext]_enrollVars
  PROVE  RegisteredUsed' /\ OneCredentialPerToken'
  <1>1. /\ \A i \in Attempts : Registered(i) => attempt'[i] = attempt[i]
        /\ \A t \in Tokens : token[t].used => token'[t].used
    BY RegisteredStays DEF EnrollInv
  <1>2. \A i \in Attempts : Registered(i) => attempt[i] \in Attempt /\ attempt[i].token \in Tokens
    BY AttemptCases DEF EnrollInv, Registered, Attempt
  <1>3. CASE \A i \in Attempts : Registered(i)' => Registered(i)
    BY <1>1, <1>2, <1>3 DEF EnrollInv, RegisteredUsed, OneCredentialPerToken
  <1>4. ASSUME NEW i \in Attempts, Registers(i)
        PROVE  RegisteredUsed' /\ OneCredentialPerToken'
    <2>1. attempt[i] \in Attempt /\ attempt[i].token \in Tokens
      BY <1>4, AttemptCases DEF EnrollInv, Registers, Attempt
    <2>2. /\ attempt'[i].token = attempt[i].token
          /\ token'[attempt[i].token].used
          /\ \A j \in Attempts : j # i => attempt'[j] = attempt[j]
      BY <1>4, <2>1 DEF Registers, EnrollInv, EnrollTypeOK, Attempt, Token
    <2>3. RegisteredUsed'
      BY <1>1, <1>2, <2>2 DEF EnrollInv, RegisteredUsed, Registered
    <2>4. \A j \in Attempts : Registered(j) => attempt[j].token # attempt[i].token
      BY <1>4, <2>1 DEF Registers, EnrollInv, RegisteredUsed
    <2>5. OneCredentialPerToken'
      BY <2>2, <2>4 DEF EnrollInv, OneCredentialPerToken, Registered
    <2>6. QED BY <2>3, <2>5
  <1>5. QED BY <1>3, <1>4, RegisteredStays DEF EnrollInv

-----------------------------------------------------------------------------
(* The file and the process.                                               *)
FileSound == DiskSound /\ ProcSound /\ ReplacesToken

(* How a step may move what the file holds and what its disk may give back. *)
Installs(t) == /\ config' = HoldsToken(t) /\ unsynced'
               /\ survivors' = survivors \union {HoldsToken(t), TornFile}
Saves       == /\ proc.phase = "rename" /\ config' \in {config, HoldsCredential(proc.of)}
               /\ survivors' = survivors \union {config'} /\ UNCHANGED unsynced
Syncs       == survivors' = {config} /\ ~unsynced' /\ UNCHANGED config
LosesPower  == config' \in survivors /\ survivors' = {config'} /\ ~unsynced' /\ proc' = Down

LEMMA FilesMove ==
  ASSUME [EnrollNext]_enrollVars
  PROVE  UNCHANGED files \/ (\E t \in Tokens : Installs(t)) \/ Saves \/ Syncs \/ LosesPower
  <1>1. CASE UNCHANGED enrollVars
    BY <1>1 DEF enrollVars
  <1>2. ASSUME NEW t \in Tokens, InstallConfig(t) PROVE Installs(t)
    BY <1>2 DEF InstallConfig, Installs
  <1>3. RenameTemporary => Saves
    BY DEF RenameTemporary, Saves
  <1>4. Flush => Syncs
    BY DEF Flush, Syncs
  <1>5. PowerLoss => LosesPower
    BY DEF PowerLoss, LosesPower
  <1>6. MasterStep => UNCHANGED files
    BY DEF MasterStep, MatchToken, ConsumeToken
  <1>7. Start \/ Register \/ ReceiveAnswer \/ TimeOut \/ WriteTemporary => UNCHANGED files
    BY DEF Start, Register, ReceiveAnswer, TimeOut, WriteTemporary
  <1>8. RestartService \/ RepairTarget \/ Kill => UNCHANGED files
    BY DEF RestartService, RepairTarget, Kill
  <1>9. ASSUME NEW t \in Tokens, IssueToken(t) \/ ExpireToken(t) PROVE UNCHANGED files
    BY <1>9 DEF IssueToken, ExpireToken
  <1>10. ASSUME NEW kind \in {"bad_directory", "bad_file"}, SpoilTarget(kind) PROVE UNCHANGED files
    BY <1>10 DEF SpoilTarget
  <1>11. ASSUME NEW i \in Attempts, AbortRegistration(i) \/ LoseRequest(i) PROVE UNCHANGED files
    BY <1>11 DEF AbortRegistration, LoseRequest
  <1>12. QED
    BY <1>1, <1>2, <1>3, <1>4, <1>5, <1>6, <1>7, <1>8, <1>9, <1>10, <1>11
    DEF EnrollNext, AgentStep, AdminStep, Environment

(* The agent's save brings in a credential that was registered, and only   *)
(* an installation lets the disk fall behind with a file cut short.        *)
LEMMA DiskStep ==
  ASSUME EnrollInv, [EnrollNext]_enrollVars
  PROVE  DiskSound'
  <1>1. \A i \in Attempts : Registered(i) => Registered(i)'
    BY RegisteredStays DEF EnrollInv, Registered
  <1>2. \A f \in survivors \union {config} : f.kind = "credential" => f.of \in Attempts /\ Registered(f.of)
    BY DEF EnrollInv, EnrollTypeOK, File, DiskSound
  <1>3. \A f \in survivors \union {config} : f.kind = "credential" => Registered(f.of)'
    BY <1>1, <1>2
  <1>4. CASE UNCHANGED files
    BY <1>3, <1>4 DEF EnrollInv, DiskSound, files
  <1>5. ASSUME NEW t \in Tokens, Installs(t) PROVE DiskSound'
    BY <1>3, <1>5 DEF Installs, DiskSound
  <1>6. CASE Saves
    <2>1. proc.of \in Attempts /\ Registered(proc.of)
      BY <1>6 DEF Saves, EnrollInv, EnrollTypeOK, Proc, ProcSound
    <2>2. attempt'[proc.of] = attempt[proc.of]
      BY <2>1, RegisteredStays DEF EnrollInv
    <2>3. attempt'[proc.of].status = "registered"
      BY <2>1, <2>2 DEF Registered
    <2>4. config' = config \/ config' = HoldsCredential(proc.of)
      BY <1>6 DEF Saves
    <2>5. \A f \in survivors' \union {config'} : f.kind = "credential" => attempt'[f.of].status = "registered"
      BY <1>3, <1>6, <2>3, <2>4 DEF Saves, Registered
    <2>6. TornFile \in survivors' => unsynced' \/ config' = TornFile
      BY <1>6, <2>4 DEF Saves, EnrollInv, DiskSound, ReplacesToken
    <2>7. QED BY <2>5, <2>6 DEF DiskSound, Registered
  <1>7. CASE Syncs
    BY <1>3, <1>7 DEF Syncs, DiskSound
  <1>8. CASE LosesPower
    BY <1>3, <1>8 DEF LosesPower, DiskSound
  <1>9. QED BY <1>4, <1>5, <1>6, <1>7, <1>8, FilesMove

(* What the master, the network and the permissions do to an attempt: the  *)
(* agent that awaits it still has one to await.                            *)
LEMMA AwaitedStays ==
  ASSUME EnrollInv, NEW i \in Attempts,
         AbortRegistration(i) \/ LoseRequest(i) \/ MatchToken(i) \/ ConsumeToken(i)
  PROVE  proc.phase = "await" => attempt'[proc.of] # Unused
  <1> SUFFICES ASSUME proc.phase = "await" PROVE attempt'[proc.of] # Unused
    OBVIOUS
  <1>1. proc.of \in Attempts /\ attempt[proc.of] # Unused /\ attempt[proc.of] \in Attempt
    BY AttemptCases DEF EnrollInv, EnrollTypeOK, Proc, ProcSound
  <1>2. CASE proc.of # i
    <2>1. attempt'[proc.of] = attempt[proc.of]
      BY <1>1, <1>2 DEF AbortRegistration, LoseRequest, MatchToken, ConsumeToken, Refuse,
                        EnrollInv, EnrollTypeOK
    <2>2. QED BY <1>1, <2>1
  <1>3. CASE proc.of = i
    <2>1. Awaits(i)
      BY <1>3 DEF Awaits
    <2>2. PICK st \in {"refused", "lost", "matched", "registered"} :
                attempt' = [attempt EXCEPT ![i] = [attempt[i] EXCEPT !.status = st]]
      BY <2>1 DEF AbortRegistration, LoseRequest, MatchToken, ConsumeToken, Refuse
    <2>3. attempt'[i].status = st
      BY <1>1, <1>3, <2>2 DEF Attempt, EnrollInv, EnrollTypeOK
    <2>4. QED BY <1>3, <2>3
  <1>4. QED BY <1>2, <1>3

LEMMA FileStep ==
  ASSUME EnrollInv, [EnrollNext]_enrollVars
  PROVE  FileSound'
  <1>1. \A i \in Attempts : Registered(i) => Registered(i)'
    BY RegisteredStays DEF EnrollInv, Registered
  <1>2. /\ config.kind = "credential" => config.of \in Attempts /\ Registered(config.of)
        /\ proc.phase \in {"await", "write", "rename", "serving"} => proc.of \in Attempts
    BY DEF EnrollInv, EnrollTypeOK, File, Proc, DiskSound, ProcSound
  <1>3. DiskSound'
    BY DiskStep
  <1>4. ASSUME UNCHANGED <<files, proc>>, proc.phase = "await" => attempt'[proc.of] # Unused
        PROVE  FileSound'
    BY <1>1, <1>2, <1>3, <1>4 DEF FileSound, EnrollInv, ProcSound, ReplacesToken, files
  <1>5. ASSUME UNCHANGED files, proc' = Down PROVE FileSound'
    BY <1>1, <1>2, <1>3, <1>5 DEF FileSound, ProcSound, ReplacesToken, files
  <1>6. CASE UNCHANGED enrollVars
    BY <1>4, <1>6 DEF enrollVars, EnrollInv, ProcSound
  <1>7. CASE \/ RepairTarget \/ \E t \in Tokens : IssueToken(t) \/ ExpireToken(t)
             \/ \E kind \in {"bad_directory", "bad_file"} : SpoilTarget(kind)
    <2>1. UNCHANGED <<files, proc, attempt>>
      BY <1>7 DEF RepairTarget, IssueToken, ExpireToken, SpoilTarget
    <2>2. QED BY <1>4, <2>1 DEF EnrollInv, ProcSound
  <1>8. CASE \E i \in Attempts :
               AbortRegistration(i) \/ LoseRequest(i) \/ MatchToken(i) \/ ConsumeToken(i)
    <2>1. UNCHANGED <<files, proc>>
      BY <1>8 DEF AbortRegistration, LoseRequest, MatchToken, ConsumeToken
    <2>2. QED BY <1>4, <1>8, <2>1, AwaitedStays
  <1>9. ASSUME NEW t \in Tokens, InstallConfig(t) PROVE FileSound'
    <2>1. /\ config' = HoldsToken(t) /\ UNCHANGED <<attempt, proc>>
      BY <1>9 DEF InstallConfig
    <2>2. QED BY <1>1, <1>2, <1>3, <2>1 DEF FileSound, EnrollInv, ProcSound, ReplacesToken
  <1>10. CASE RestartService \/ Kill \/ TimeOut
    BY <1>5, <1>10 DEF RestartService, Kill, TimeOut
  <1>11. CASE Start
    BY <1>1, <1>2, <1>3, <1>11
    DEF Start, Loadable, files, FileSound, EnrollInv, ProcSound, ReplacesToken
  <1>12. CASE Register
    <2>1. CASE proc' = Down
      BY <1>5, <1>12, <2>1 DEF Register
    <2>2. CASE \E i \in Attempts :
                 /\ attempt' = [attempt EXCEPT ![i] = [status |-> "sent", token |-> proc.of]]
                 /\ proc' = [phase |-> "await", of |-> i]
      <3>1. proc' .phase = "await" /\ attempt'[proc' .of] # Unused
        BY <2>2 DEF EnrollInv, EnrollTypeOK
      <3>2. config.kind = "token" /\ UNCHANGED files
        BY <1>12 DEF Register, EnrollInv, ReplacesToken
      <3>3. QED BY <1>1, <1>2, <1>3, <3>1, <3>2 DEF FileSound, ProcSound, ReplacesToken, files
    <2>3. QED BY <1>12, <2>1, <2>2 DEF Register
  <1>13. CASE ReceiveAnswer
    <2>1. CASE proc' = Down
      BY <1>5, <1>13, <2>1 DEF ReceiveAnswer
    <2>2. CASE /\ attempt[proc.of].status = "registered"
               /\ proc' = [proc EXCEPT !.phase = "write"]
      <3>1. proc.phase = "await" /\ UNCHANGED files
        BY <1>13 DEF ReceiveAnswer
      <3>2. proc' .phase = "write" /\ proc' .of = proc.of /\ Registered(proc.of) /\ config.kind = "token"
        BY <2>2, <3>1 DEF Registered, EnrollInv, EnrollTypeOK, Proc, ReplacesToken
      <3>3. QED BY <1>1, <1>2, <1>3, <3>1, <3>2 DEF FileSound, ProcSound, ReplacesToken, files
    <2>3. QED BY <1>13, <2>1, <2>2 DEF ReceiveAnswer
  <1>14. CASE WriteTemporary
    <2>1. CASE proc' = Down
      BY <1>5, <1>14, <2>1 DEF WriteTemporary
    <2>2. CASE proc' = [proc EXCEPT !.phase = "rename"]
      <3>1. proc.phase = "write" /\ UNCHANGED files
        BY <1>14 DEF WriteTemporary
      <3>2. proc' .phase = "rename" /\ proc' .of = proc.of /\ Registered(proc.of) /\ config.kind = "token"
        BY <2>2, <3>1 DEF Registered, EnrollInv, EnrollTypeOK, Proc, ReplacesToken, ProcSound
      <3>3. QED BY <1>1, <1>2, <1>3, <3>1, <3>2 DEF FileSound, ProcSound, ReplacesToken, files
    <2>3. QED BY <1>14, <2>1, <2>2 DEF WriteTemporary
  <1>15. CASE RenameTemporary
    <2>1. proc.phase = "rename" /\ proc.of \in Attempts /\ Registered(proc.of)
      BY <1>2, <1>15 DEF RenameTemporary, EnrollInv, ProcSound
    <2>2. \/ proc' = Down
          \/ proc' .phase = "serving" /\ proc' .of = proc.of
      BY <1>15 DEF RenameTemporary, EnrollInv, EnrollTypeOK, Proc
    <2>3. config' = config \/ config' = HoldsCredential(proc.of)
      BY <1>15 DEF RenameTemporary
    <2>4. QED BY <1>1, <1>2, <1>3, <2>1, <2>2, <2>3 DEF FileSound, ProcSound, ReplacesToken
  <1>16. CASE Flush
    BY <1>1, <1>2, <1>3, <1>16
    DEF Flush, FileSound, EnrollInv, ProcSound, ReplacesToken
  <1>17. CASE PowerLoss
    BY <1>1, <1>2, <1>3, <1>17
    DEF PowerLoss, FileSound, EnrollInv, ProcSound, ReplacesToken
  <1>18. QED
    BY <1>6, <1>7, <1>8, <1>9, <1>10, <1>11, <1>12, <1>13, <1>14, <1>15, <1>16, <1>17
    DEF EnrollNext, MasterStep, AgentStep, AdminStep, Environment

-----------------------------------------------------------------------------
(* What is lost and what it cost.                                          *)

LEMMA AdriftFinite ==
  ASSUME NEW S \in SUBSET Attempts
  PROVE  IsFiniteSet(S) /\ Cardinality(S) \in Nat
  <1>1. IsFiniteSet(Attempts)
    BY FS_Interval, EnrollmentAssumption DEF Attempts
  <1>2. QED BY <1>1, FS_Subset, FS_CardinalityType

LEMMA Accounts ==
  ASSUME NEW adrift \in Nat, NEW adrift2 \in Nat, NEW debt \in Nat, NEW debt2 \in Nat,
         NEW paid \in Nat, NEW paid2 \in Nat, NEW more \in Nat,
         adrift + debt <= paid, adrift2 <= adrift + more, debt2 + more + paid <= debt + paid2
  PROVE  adrift2 + debt2 <= paid2
  OBVIOUS

LEMMA AccountsEven ==
  ASSUME NEW adrift \in Nat, NEW adrift2 \in Nat, NEW debt \in Nat, NEW debt2 \in Nat,
         NEW paid \in Nat, NEW paid2 \in Nat,
         adrift + debt <= paid, adrift2 <= adrift, debt2 + paid <= debt + paid2
  PROVE  adrift2 + debt2 <= paid2
  OBVIOUS

LEMMA NothingOwed ==
  ASSUME NEW debt \in Nat, NEW debt2 \in Nat, NEW paid \in Nat, NEW paid2 \in Nat,
         debt2 = 0 \/ debt2 = debt, paid <= paid2
  PROVE  debt2 + paid <= debt + paid2
  OBVIOUS

LEMMA DebtPaid ==
  ASSUME NEW debt \in Nat, NEW debt2 \in Nat, NEW paid \in Nat, NEW paid2 \in Nat,
         debt2 = 0, (debt = 1 /\ paid <= paid2) \/ paid2 = paid + 1
  PROVE  debt2 + 1 + paid <= debt + paid2
  OBVIOUS

LEMMA DebtType == Debt \in Nat /\ Debt' \in Nat
  BY DEF Debt

(* One credential more may go adrift for each fault more.                  *)
LEMMA OneMoreAdrift ==
  ASSUME EnrollInv, faults' \in Nat, NEW x,
         Adrift' \subseteq Adrift \union {x},
         Debt' + 1 + faults <= Debt + faults'
  PROVE  FaultsCover'
  <1>1. Adrift \in SUBSET Attempts /\ Adrift' \in SUBSET Attempts
    BY DEF Adrift
  <1>2. /\ IsFiniteSet(Adrift \union {x})
        /\ Cardinality(Adrift \union {x}) <= Cardinality(Adrift) + 1
    BY <1>1, AdriftFinite, FS_AddElement
  <1>3. Cardinality(Adrift') <= Cardinality(Adrift \union {x})
    BY <1>2, FS_Subset
  <1>4. /\ Cardinality(Adrift) \in Nat /\ Cardinality(Adrift') \in Nat
        /\ Cardinality(Adrift \union {x}) \in Nat
    BY <1>1, <1>2, AdriftFinite, FS_CardinalityType
  <1>5. Cardinality(Adrift) + Debt <= faults /\ faults \in Nat
    BY DEF EnrollInv, FaultsCover, EnrollTypeOK
  <1>6. Debt \in Nat /\ Debt' \in Nat
    BY DEF Debt
  <1>7. Cardinality(Adrift') <= Cardinality(Adrift) + 1
    BY <1>2, <1>3, <1>4
  <1>8. Cardinality(Adrift') + Debt' <= faults'
    BY <1>4, <1>5, <1>6, <1>7, Accounts
  <1>9. QED BY <1>8 DEF FaultsCover

LEMMA NoMoreAdrift ==
  ASSUME EnrollInv, faults' \in Nat, Adrift' \subseteq Adrift, Debt' + faults <= Debt + faults'
  PROVE  FaultsCover'
  <1>1. Adrift \in SUBSET Attempts
    BY DEF Adrift
  <1>2. IsFiniteSet(Adrift) /\ Cardinality(Adrift) \in Nat
    BY <1>1, AdriftFinite
  <1>3. Cardinality(Adrift') <= Cardinality(Adrift) /\ Cardinality(Adrift') \in Nat
    BY <1>2, FS_Subset, FS_CardinalityType
  <1>4. Cardinality(Adrift) + Debt <= faults /\ faults \in Nat
    BY DEF EnrollInv, FaultsCover, EnrollTypeOK
  <1>5. Debt \in Nat /\ Debt' \in Nat
    BY DEF Debt
  <1>6. Cardinality(Adrift') + Debt' <= faults'
    BY <1>2, <1>3, <1>4, <1>5, AccountsEven
  <1>7. QED BY <1>6 DEF FaultsCover

LEMMA CoverStep ==
  ASSUME EnrollInv, [EnrollNext]_enrollVars
  PROVE  FaultsCover'
  <1> DEFINE Out(i) == attempt[i].status \in {"sent", "matched", "registered"}
  <1>1. faults \in Nat /\ faults' \in Nat
    BY TypeStep DEF EnrollInv, EnrollTypeOK
  <1>2. UNCHANGED <<attempt, proc, config, retired>> => Adrift' = Adrift
    BY DEF Adrift, Abandoned, Enrolling, Attempts
  <1>3. CASE UNCHANGED enrollVars
    BY <1>1, <1>2, <1>3, NoMoreAdrift DEF enrollVars, files, Debt, Enrolling
  <1>4. CASE \/ RepairTarget \/ Flush \/ \E t \in Tokens : IssueToken(t) \/ ExpireToken(t)
    <2>1. UNCHANGED <<attempt, proc, config, retired, faults>> /\ (target' = target \/ target' = "good")
      BY <1>4 DEF RepairTarget, Flush, IssueToken, ExpireToken, files
    <2>2. QED BY <1>1, <1>2, <2>1, NoMoreAdrift DEF Debt, Enrolling
  <1>5. CASE \E kind \in {"bad_directory", "bad_file"} : SpoilTarget(kind)
    <2>1. UNCHANGED <<attempt, proc, config, retired>> /\ target = "good" /\ faults' = faults + 1
      BY <1>5 DEF SpoilTarget, Fault, files
    <2>2. QED BY <1>1, <1>2, <2>1, NoMoreAdrift DEF Debt, Enrolling
  <1>6. ASSUME NEW i \in Attempts,
               AbortRegistration(i) \/ LoseRequest(i) \/ MatchToken(i) \/ ConsumeToken(i)
        PROVE  FaultsCover'
    <2>1. Out(i) /\ attempt[i] \in Attempt
      BY <1>6, AttemptCases
      DEF AbortRegistration, LoseRequest, MatchToken, ConsumeToken, EnrollInv
    <2>2. \A j \in Attempts : j # i => attempt'[j] = attempt[j]
      BY <1>6 DEF AbortRegistration, LoseRequest, MatchToken, ConsumeToken, Refuse, EnrollInv, EnrollTypeOK
    <2>3. UNCHANGED <<proc, config, retired, target>>
      BY <1>6 DEF AbortRegistration, LoseRequest, MatchToken, ConsumeToken, files
    <2>4. Adrift' \subseteq Adrift
      BY <2>1, <2>2, <2>3 DEF Adrift, Abandoned, Enrolling
    <2>5. faults' >= faults
      BY <1>1, <1>6 DEF AbortRegistration, LoseRequest, MatchToken, ConsumeToken, Fault
    <2>6. Debt' = Debt
      BY <2>3 DEF Debt, Enrolling
    <2>7. Debt' + faults <= Debt + faults'
      BY <1>1, <2>5, <2>6, DebtType, NothingOwed
    <2>8. QED BY <1>1, <2>4, <2>7, NoMoreAdrift
  <1>7. ASSUME NEW t \in Tokens, InstallConfig(t) PROVE FaultsCover'
    <2>1. /\ UNCHANGED <<attempt, proc, target, faults>>
          /\ retired \subseteq retired'
          /\ \A i \in Attempts : config = HoldsCredential(i) => i \in retired'
      BY <1>7 DEF InstallConfig
    <2>2. Adrift' \subseteq Adrift
      BY <2>1 DEF Adrift, Abandoned, Enrolling
    <2>3. QED BY <1>1, <2>1, <2>2, NoMoreAdrift DEF Debt, Enrolling
  <1>8. CASE RestartService \/ Kill \/ (TimeOut /\ UNCHANGED attempt)
    <2>1. proc' = Down /\ UNCHANGED <<attempt, config, retired, target>>
      BY <1>8 DEF RestartService, Kill, TimeOut, files
    <2>2. Adrift' \subseteq Adrift \union {proc.of} /\ (~Enrolling => Adrift' \subseteq Adrift)
      BY <2>1 DEF Adrift, Abandoned, Enrolling
    <2>3. Enrolling => faults' = faults + 1
      <3>1. CASE TimeOut /\ attempt[proc.of].status = "lost"
        <4>1. proc.of \in Attempts
          BY <3>1 DEF TimeOut, EnrollInv, EnrollTypeOK, Proc
        <4>2. attempt'[proc.of] # attempt[proc.of]
          BY <3>1, <4>1 DEF TimeOut, EnrollInv, EnrollTypeOK
        <4>3. QED BY <2>1, <4>2
      <3>2. CASE TimeOut /\ attempt[proc.of].status # "lost"
        BY <3>2 DEF TimeOut, Fault
      <3>3. CASE RestartService \/ Kill
        BY <3>3 DEF RestartService, Kill, Fault
      <3>4. QED BY <1>8, <3>1, <3>2, <3>3
    <2>4. Debt' = 0 /\ Debt \in Nat /\ faults' >= faults
      BY <2>1, <1>8, <1>1 DEF Debt, Enrolling, RestartService, Kill, TimeOut, Fault, Calm
    <2>5. CASE Enrolling
      BY <1>1, <2>2, <2>3, <2>4, <2>5, OneMoreAdrift
    <2>6. CASE ~Enrolling
      <3>1. Debt' + faults <= Debt + faults'
        BY <1>1, <2>4, DebtType, NothingOwed
      <3>2. QED BY <1>1, <2>2, <2>6, <3>1, NoMoreAdrift
    <2>7. QED BY <2>5, <2>6
  <1>9. CASE \/ ReceiveAnswer /\ proc' = Down
             \/ TimeOut /\ attempt' = [attempt EXCEPT ![proc.of] = Unused]
    <2>1. /\ proc' = Down /\ UNCHANGED <<config, retired, target>> /\ faults' >= faults
          /\ attempt' = [attempt EXCEPT ![proc.of] = Unused] /\ proc.phase = "await"
      BY <1>1, <1>9 DEF ReceiveAnswer, TimeOut, files, Calm, Fault, EnrollInv, EnrollTypeOK, Proc
    <2>2. proc.of \in Attempts
      BY <2>1 DEF EnrollInv, EnrollTypeOK, Proc
    <2>3. \A i \in Attempts : Out(i)' => Out(i) /\ i # proc.of
      BY <2>1, <2>2 DEF EnrollInv, EnrollTypeOK
    <2>4. Adrift' \subseteq Adrift
      BY <2>1, <2>3 DEF Adrift, Abandoned, Enrolling
    <2>5. Debt' = 0
      BY <2>1 DEF Debt, Enrolling
    <2>6. Debt' + faults <= Debt + faults'
      BY <1>1, <2>1, <2>5, DebtType, NothingOwed
    <2>7. QED BY <1>1, <2>4, <2>6, NoMoreAdrift
  <1>10. CASE ReceiveAnswer /\ proc' = [proc EXCEPT !.phase = "write"]
    <2>1. /\ UNCHANGED <<attempt, config, retired, target, faults>>
          /\ proc.phase = "await" /\ proc' .phase = "write" /\ proc' .of = proc.of
      BY <1>10 DEF ReceiveAnswer, files, EnrollInv, EnrollTypeOK, Proc
    <2>2. Adrift' \subseteq Adrift
      BY <2>1 DEF Adrift, Abandoned, Enrolling
    <2>3. QED BY <1>1, <2>1, <2>2, NoMoreAdrift DEF Debt, Enrolling
  <1>11. CASE Start \/ (Register /\ proc' = Down)
    <2>1. /\ UNCHANGED <<attempt, config, retired, target, faults>>
          /\ ~Enrolling /\ ~Enrolling'
      BY <1>11 DEF Start, Register, files, Enrolling, EnrollInv, EnrollTypeOK
    <2>2. Adrift' \subseteq Adrift
      BY <2>1 DEF Adrift, Abandoned
    <2>3. QED BY <1>1, <2>1, <2>2, NoMoreAdrift DEF Debt
  <1>12. ASSUME Register, NEW i \in Attempts, attempt[i] = Unused, target = "good",
                attempt' = [attempt EXCEPT ![i] = [status |-> "sent", token |-> proc.of]],
                proc' = [phase |-> "await", of |-> i]
         PROVE  FaultsCover'
    <2>1. UNCHANGED <<config, retired, target, faults>> /\ ~Enrolling
      BY <1>12 DEF Register, files, Enrolling
    <2>2. Adrift' \subseteq Adrift
      BY <1>12, <2>1 DEF Adrift, Abandoned, Enrolling, EnrollInv, EnrollTypeOK
    <2>3. QED BY <1>1, <1>12, <2>1, <2>2, NoMoreAdrift DEF Debt
  <1>13. CASE WriteTemporary
    <2>1. proc.phase = "write" /\ UNCHANGED <<attempt, config, retired, target>> /\ faults' >= faults
      BY <1>1, <1>13 DEF WriteTemporary, files, Calm, Fault
    <2>2. CASE target = "good" /\ proc' = [proc EXCEPT !.phase = "rename"]
      <3>1. proc' .phase = "rename" /\ proc' .of = proc.of
        BY <2>1, <2>2 DEF EnrollInv, EnrollTypeOK, Proc
      <3>2. Adrift' \subseteq Adrift
        BY <2>1, <3>1 DEF Adrift, Abandoned, Enrolling
      <3>3. QED BY <1>1, <2>1, <2>2, <3>2, NoMoreAdrift DEF Debt, Enrolling
    <2>3. CASE proc' = Down /\ (target # "good" \/ faults' = faults + 1)
      <3>1. Adrift' \subseteq Adrift \union {proc.of}
        BY <2>1, <2>3 DEF Adrift, Abandoned, Enrolling
      <3>2. Debt' = 0 /\ (target # "good" => Debt = 1)
        BY <2>1, <2>3 DEF Debt, Enrolling
      <3>3. (Debt = 1 /\ faults <= faults') \/ faults' = faults + 1
        BY <1>1, <2>1, <2>3, <3>2
      <3>4. Debt' + 1 + faults <= Debt + faults'
        BY <1>1, <3>2, <3>3, DebtType, DebtPaid
      <3>5. QED BY <1>1, <3>1, <3>4, OneMoreAdrift
    <2>4. QED BY <1>13, <2>2, <2>3 DEF WriteTemporary, Fault
  <1>14. CASE RenameTemporary
    <2>1. /\ proc.phase = "rename" /\ proc.of \in Attempts
          /\ UNCHANGED <<attempt, retired, target>> /\ config.kind = "token"
      BY <1>14 DEF RenameTemporary, EnrollInv, ReplacesToken, EnrollTypeOK, Proc
    <2>2. CASE Calm /\ config' = HoldsCredential(proc.of) /\ proc' = [proc EXCEPT !.phase = "serving"]
      <3>1. proc' .phase = "serving"
        BY <2>1, <2>2 DEF EnrollInv, EnrollTypeOK, Proc
      <3>2. Adrift' \subseteq Adrift
        BY <2>1, <2>2, <3>1 DEF Adrift, Abandoned, Enrolling
      <3>3. QED BY <1>1, <2>1, <2>2, <3>1, <3>2, NoMoreAdrift DEF Debt, Enrolling, Calm
    <2>3. CASE /\ faults' = faults + 1 /\ proc' = Down
               /\ config' \in {config, HoldsCredential(proc.of)}
      <3>1. Adrift' \subseteq Adrift \union {proc.of}
        <4> SUFFICES ASSUME NEW i \in Adrift', i # proc.of PROVE i \in Adrift
          OBVIOUS
        <4>1. config' # HoldsCredential(i) /\ config # HoldsCredential(i)
          BY <2>1 DEF Adrift, Abandoned
        <4>2. QED BY <2>1, <4>1 DEF Adrift, Abandoned, Enrolling
      <3>2. QED BY <1>1, <2>1, <2>3, <3>1, OneMoreAdrift DEF Debt, Enrolling
    <2>4. QED BY <1>14, <2>2, <2>3 DEF RenameTemporary, Fault
  <1>15. CASE PowerLoss
    <2>1. faults' = faults + 1 /\ proc' = Down /\ UNCHANGED <<attempt, retired, target>>
      BY <1>15 DEF PowerLoss, Fault
    <2>2. Enrolling => config.kind = "token"
      BY DEF EnrollInv, ReplacesToken, Enrolling
    <2>3. Adrift' \subseteq Adrift \union {IF Enrolling THEN proc.of ELSE config.of}
      BY <2>1, <2>2 DEF Adrift, Abandoned, Enrolling
    <2>4. QED BY <1>1, <2>1, <2>3, OneMoreAdrift DEF Debt, Enrolling
  <1>16. Register => \/ proc' = Down
                     \/ /\ target = "good"
                        /\ \E i \in Attempts :
                             /\ attempt[i] = Unused
                             /\ attempt' = [attempt EXCEPT ![i] = [status |-> "sent", token |-> proc.of]]
                             /\ proc' = [phase |-> "await", of |-> i]
    BY DEF Register
  <1>17. ReceiveAnswer => proc' = Down \/ proc' = [proc EXCEPT !.phase = "write"]
    BY DEF ReceiveAnswer
  <1>18. TimeOut => UNCHANGED attempt \/ attempt' = [attempt EXCEPT ![proc.of] = Unused]
    BY DEF TimeOut
  <1>19. QED
    BY <1>3, <1>4, <1>5, <1>6, <1>7, <1>8, <1>9, <1>10, <1>11, <1>12, <1>13, <1>14, <1>15,
       <1>16, <1>17, <1>18
    DEF EnrollNext, MasterStep, AgentStep, AdminStep, Environment

-----------------------------------------------------------------------------
LEMMA EnrollInitInv == EnrollInit => EnrollInv
  <1> SUFFICES ASSUME EnrollInit PROVE EnrollInv
    OBVIOUS
  <1>1. RegisteredUsed /\ OneCredentialPerToken /\ DiskSound /\ ProcSound /\ ReplacesToken
    BY DEF EnrollInit, RegisteredUsed, OneCredentialPerToken, DiskSound, ProcSound, ReplacesToken,
           Registered
  <1>2. Adrift = {}
    BY DEF EnrollInit, Adrift, Abandoned
  <1>3. Debt = 0 /\ faults = 0
    BY DEF EnrollInit, Debt, Enrolling
  <1>4. FaultsCover
    BY <1>2, <1>3, FS_EmptySet DEF FaultsCover
  <1>5. QED BY <1>1, <1>4, TypeInit DEF EnrollInv

LEMMA EnrollInvariant == EnrollSpec => []EnrollInv
  <1>1. EnrollInv /\ [EnrollNext]_enrollVars => EnrollInv'
    BY TypeStep, TokenSafetyStep, FileStep, CoverStep DEF EnrollInv, FileSound
  <1>2. QED BY EnrollInitInv, <1>1, PTL DEF EnrollSpec

(* The state of tokens, requests, agent and file has its type.             *)
THEOREM EnrollTypeCorrect == EnrollSpec => []EnrollTypeOK
  BY EnrollInvariant, PTL DEF EnrollInv

(* However many registrations with one token overlap and whatever is lost  *)
(* of them, register_agent_in_tx gives out one credential for it.          *)
THEOREM TokenBuysOneCredential == EnrollSpec => []OneCredentialPerToken
  BY EnrollInvariant, PTL DEF EnrollInv

(* Wherever the agent or its host stops, and however far its disk is       *)
(* behind: the configuration file is torn only by a power loss that hits   *)
(* an installation the disk does not have, as save syncs what it renames   *)
(* and write_config does not, and a credential that comes into the file is *)
(* one the master has registered.                                          *)
THEOREM SaveSurvivesPowerLoss == EnrollSpec => ConfigSound
  <1> DEFINE Sound == config' # config =>
                        /\ config' = TornFile => unsynced
                        /\ config'.kind = "credential" => Registered(config'.of)
  <1>1. EnrollInv /\ [EnrollNext]_enrollVars => [Sound]_enrollVars
    <2> SUFFICES ASSUME EnrollInv, [EnrollNext]_enrollVars, config' # config PROVE Sound
      OBVIOUS
    <2>1. CASE UNCHANGED files
      BY <2>1 DEF files
    <2>2. ASSUME NEW t \in Tokens, Installs(t) PROVE Sound
      BY <2>2 DEF Installs
    <2>3. CASE Saves
      BY <2>3 DEF Saves, EnrollInv, ProcSound
    <2>4. CASE Syncs
      BY <2>4 DEF Syncs
    <2>5. CASE LosesPower
      BY <2>5 DEF LosesPower, EnrollInv, DiskSound
    <2>6. QED BY <2>1, <2>2, <2>3, <2>4, <2>5, FilesMove
  <1>2. QED BY EnrollInvariant, <1>1, PTL DEF EnrollSpec, ConfigSound

(* An agent that checks that it can save its file before it registers      *)
(* loses no more credentials than there were faults.                       *)
THEOREM LossNeedsFault == EnrollSpec => []FaultCostsOneToken
  <1>1. EnrollInv => FaultCostsOneToken
    <2> SUFFICES ASSUME EnrollInv PROVE FaultCostsOneToken
      OBVIOUS
    <2>1. Adrift \in SUBSET Attempts /\ LostCredentials \in SUBSET Adrift
      BY DEF Adrift, LostCredentials
    <2>2. IsFiniteSet(Adrift) /\ Cardinality(Adrift) \in Nat
      BY <2>1, AdriftFinite
    <2>3. Cardinality(LostCredentials) <= Cardinality(Adrift) /\ Cardinality(LostCredentials) \in Nat
      BY <2>1, <2>2, FS_Subset, FS_CardinalityType
    <2>4. Cardinality(Adrift) + Debt <= faults /\ Debt \in Nat /\ faults \in Nat
      BY DEF EnrollInv, FaultsCover, EnrollTypeOK, Debt
    <2>5. Cardinality(LostCredentials) + 0 <= faults
      BY <2>2, <2>3, <2>4
    <2>6. QED BY <2>3, <2>4, <2>5 DEF FaultCostsOneToken
  <1>2. QED BY EnrollInvariant, <1>1, PTL
=============================================================================
