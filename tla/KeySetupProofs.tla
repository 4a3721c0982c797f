--------------------------- MODULE KeySetupProofs ---------------------------
(***************************************************************************)
(* The Setup SSH command, for any keys and any systems of the device: its  *)
(* type, FingerprintIsKnown, RegisteredKeyWorks, AddsOnlyRefusedKeys, and  *)
(* that known_hosts keeps the first host key.                              *)
(***************************************************************************)
EXTENDS KeySetup, TLAPS

(***************************************************************************)
(* What ssh.exe has come to, and so what it may have written, tells that   *)
(* the host is known; what a scan has found to add is the host's; a setup  *)
(* goes on with a public key it can register.                              *)
(***************************************************************************)
SshTells ==
  /\ ssh = "authenticating" => hostKey \in knownHosts
  /\ "password" \in output \/ "DONE" \in output => hostKey \in knownHosts \/ renewed

SshRuns == ssh # "off" \/ output # {} => pc = "console"

HasScanned == pc = "add" => scanned \in {hostKey, NoHostKey} \/ renewed

Reported ==
  fingerprint # "unknown" => pc \in {"tryKey", "password", "register", "tryAgain"}

ReadyToRegister ==
  pc # "idle" =>
    /\ publicKeyFile \in Key
    /\ pc # "tryAgain" => \A k \in Key : lines[k] < MaxLines

(***************************************************************************)
(* What a registration has left, and no later one takes away: its line, a  *)
(* folder, and the permissions of the file.                                *)
(***************************************************************************)
RegisteredStays ==
  \A k \in registered : lines[k] > 0 /\ permitted /\ folder # "absent"

NewFileHasNone == authorizedKeys = "absent" => registered = {}

SetupInv ==
  /\ TypeOK
  /\ SshTells
  /\ SshRuns
  /\ HasScanned
  /\ Reported
  /\ ReadyToRegister
  /\ FingerprintIsKnown
  /\ NewFileHasNone
  /\ RegisteredStays

LEMMA SetupInvInit == Init => SetupInv
<1> SUFFICES ASSUME Init
             PROVE  SetupInv
  OBVIOUS
<1>1. TypeOK
  <2>1. keyFiles \in [Key -> {"none", "private", "both"}]
    BY DEF Init
  <2>2. lines \in [Key -> 0..MaxLines]
    BY KeySetupAssumption DEF Init
  <2>3. QED
    <3>1. renewed \in BOOLEAN /\ permitted \in BOOLEAN
      BY Zenon DEF Init
    <3>2. knownHosts \subseteq HostKey /\ output \subseteq Output
      BY DEF Init
    <3>3. idle \in 0..IdleLimit
      BY DEF Init, IdleLimit
    <3>4. sshFolder \in BOOLEAN /\ similarHost \in BOOLEAN
      BY Zenon DEF Init
    <3>5. authorizedKeys \in {"absent", "ended", "open"} /\ registered \subseteq Key
      BY DEF Init
    <3>6. QED
      BY <2>1, <2>2, <3>1, <3>2, <3>3, <3>4, <3>5 DEF Init, TypeOK, SetupSteps
<1>2. SshTells /\ SshRuns /\ HasScanned /\ Reported /\ ReadyToRegister
  BY DEF Init, SshTells, SshRuns, HasScanned, Reported, ReadyToRegister
<1>3. FingerprintIsKnown /\ NewFileHasNone /\ RegisteredStays
  BY DEF Init, FingerprintIsKnown, NewFileHasNone, RegisteredStays
<1>4. QED
  BY <1>1, <1>2, <1>3 DEF SetupInv

LEMMA EndKeepsSetupInv ==
  ASSUME SetupInv, End, UNCHANGED <<files, knownHostsFile, hostKey>>,
         folder' \in {"absent", "strict", "lax"},
         authorizedKeys' \in {"absent", "ended", "open"},
         lines' \in [Key -> 0..MaxLines],
         permitted' \in BOOLEAN,
         registered' \subseteq Key,
         NewFileHasNone', RegisteredStays'
  PROVE  SetupInv'
<1>1. TypeOK'
  <2>1. renewed' \in BOOLEAN
    BY Zenon DEF End
  <2>2. UNCHANGED <<keyFiles, generating, sshFolder, knownHosts, similarHost, hostKey>>
    BY DEF files, knownHostsFile
  <2>3. idle' \in 0..IdleLimit /\ output' \subseteq Output
    BY DEF End, Close, IdleLimit
  <2>4. pc' = "idle" /\ ssh' = "off" /\ fingerprint' = "unknown"
    BY DEF End, Close
  <2>5. publicKeyFile' = NoKey /\ privateKeyFile' = NoKey /\ scanned' = NoHostKey
    BY DEF End
  <2>6. QED
    BY <2>1, <2>2, <2>3, <2>4, <2>5 DEF SetupInv, TypeOK
<1>2. SshTells' /\ SshRuns' /\ HasScanned' /\ Reported' /\ ReadyToRegister'
  BY DEF End, Close, SshTells, SshRuns, HasScanned, Reported, ReadyToRegister
<1>3. FingerprintIsKnown'
  BY DEF End, Close, FingerprintIsKnown
<1>4. QED
  BY <1>1, <1>2, <1>3 DEF SetupInv

LEMMA StepKeepsSetupInv == SetupInv /\ [Next]_vars => SetupInv'
<1> SUFFICES ASSUME SetupInv, [Next]_vars
             PROVE  SetupInv'
  OBVIOUS
<1> USE DEF files, knownHostsFile, accounts, device, settings, progress, console
<1> USE DEF SetupSteps, Output, IdleLimit, ContainsText, Accepts
<1>1. ASSUME NEW k \in DefaultKey, CreateKey(k) \/ KeyGenExits(k)
      PROVE  SetupInv'
  <2>1. k \in Key
    BY DEF Key
  <2>2. keyFiles' \in [Key -> {"none", "private", "both"}]
    BY <1>1, <2>1 DEF CreateKey, KeyGenExits, SetupInv, TypeOK
  <2>3. generating' \subseteq DefaultKey
    BY <1>1 DEF CreateKey, KeyGenExits, SetupInv, TypeOK
  <2>4. sshFolder' \in BOOLEAN
    BY <1>1, Zenon DEF CreateKey, KeyGenExits, SetupInv, TypeOK
  <2>5. UNCHANGED <<knownHosts, similarHost, device, pc, settings, progress, console>>
    BY <1>1 DEF CreateKey, KeyGenExits
  <2>6. TypeOK'
    BY <2>2, <2>3, <2>4, <2>5 DEF SetupInv, TypeOK
  <2>7. QED
    BY <2>5, <2>6 DEF SetupInv, SshTells, SshRuns, HasScanned, Reported,
      ReadyToRegister, FingerprintIsKnown, NewFileHasNone, RegisteredStays
<1>2. ASSUME NEW public \in Key, NEW private \in Key \cup {NoKey},
             Execute(public, private)
      PROVE  SetupInv'
  BY <1>2 DEF Execute, SetupInv, TypeOK, SshTells, SshRuns, HasScanned, Reported,
    ReadyToRegister, FingerprintIsKnown, NewFileHasNone, RegisteredStays
<1>3. CASE Setup
  <2> USE DEF SetupInv, TypeOK, SshTells, SshRuns, HasScanned, Reported,
      ReadyToRegister, FingerprintIsKnown, NewFileHasNone, RegisteredStays
  <2>1. CASE KeyScanSucceeds
    BY <2>1 DEF KeyScanSucceeds
  <2>2. CASE KeyScanFails
    BY <2>2 DEF KeyScanFails
  <2>3. CASE AddFingerprint
    <3>1. CASE ContainsText
      <4>1. fingerprint' = "skipped" /\ UNCHANGED knownHosts
        BY <2>3, <3>1 DEF AddFingerprint
      <4>2. QED
        BY <2>3, <3>1, <4>1 DEF AddFingerprint
    <3>2. CASE ~ContainsText
      <4>1. /\ fingerprint' = "added"
            /\ knownHosts' = knownHosts \cup ({scanned} \ {NoHostKey})
            /\ pc = "add" /\ pc' = "tryKey"
            /\ UNCHANGED <<files, sshFolder, similarHost, device, settings, scanned,
                           renewed, console>>
        BY <2>3, <3>2 DEF AddFingerprint
      <4>2. scanned \in {hostKey, NoHostKey} \/ renewed
        BY <4>1
      <4>3. SshTells' /\ SshRuns' /\ FingerprintIsKnown'
        BY <4>1, <4>2
      <4>4. QED
        BY <4>1, <4>3
    <3>3. QED
      BY <3>1, <3>2
  <2>4. CASE StartConsole
    BY <2>4 DEF StartConsole
  <2>5. CASE Poll
    <3>1. PICK read \in SUBSET output :
            ConfirmPrompt(read) \/ SeesTheEnd(read) \/ ReadsOn(read) \/ GivesUp(read)
      BY <2>5 DEF Poll
    <3>2. UNCHANGED <<files, knownHostsFile, device, settings, scanned, renewed>>
      BY <2>5 DEF Poll
    <3>3. pc = "console"
      BY <2>5 DEF Poll
    <3>4. CASE ConfirmPrompt(read)
      BY <3>2, <3>3, <3>4 DEF ConfirmPrompt
    <3>5. CASE SeesTheEnd(read)
      BY <3>2, <3>3, <3>5 DEF SeesTheEnd, ConsoleReturns, Close
    <3>6. CASE ReadsOn(read)
      BY <3>2, <3>3, <3>6 DEF ReadsOn
    <3>7. CASE GivesUp(read)
      BY <3>2, <3>3, <3>7 DEF GivesUp, ConsoleReturns, Close
    <3>8. QED
      BY <3>1, <3>4, <3>5, <3>6, <3>7
  <2>6. CASE TryEstablishConnectionWithKey
    <3> HIDE DEF Accepts
    <3>1. CASE Accepts(privateKeyFile)
      BY <2>6, <3>1, EndKeepsSetupInv DEF TryEstablishConnectionWithKey
    <3>2. CASE ~Accepts(privateKeyFile)
      <4>1. /\ pc = "tryKey" /\ pc' = "password"
            /\ UNCHANGED <<files, knownHostsFile, device, settings, progress, console>>
        BY <2>6, <3>2 DEF TryEstablishConnectionWithKey
      <4>2. QED
        BY <4>1 DEF Accepts
    <3>3. QED
      BY <3>1, <3>2
  <2>7. CASE TryEstablishConnectionWithPassword
    <3>1. CASE End
      BY <2>7, <3>1, EndKeepsSetupInv DEF TryEstablishConnectionWithPassword
    <3>2. CASE pc' = "register" /\ UNCHANGED <<settings, progress, console>>
      BY <2>7, <3>2 DEF TryEstablishConnectionWithPassword
    <3>3. QED
      BY <2>7, <3>1, <3>2 DEF TryEstablishConnectionWithPassword
  <2>8. ASSUME pc = "register", AppendPublicKey
        PROVE  /\ lines' \in [Key -> 0..MaxLines]
               /\ \A k \in Key : lines'[k] >= lines[k]
               /\ authorizedKeys # "open" => lines'[publicKeyFile] > 0
    BY <2>8, KeySetupAssumption DEF AppendPublicKey
  <2>14. ASSUME MakeFolder
         PROVE  folder' \in {"strict", "lax"}
    BY <2>14 DEF MakeFolder
  <2>15. \A k \in Key : lines[k] \in Nat
    BY KeySetupAssumption
  <2>9. CASE RegisterPublicKeySucceeds
    <3>1. /\ lines' \in [Key -> 0..MaxLines]
          /\ \A k \in Key : lines'[k] >= lines[k]
          /\ authorizedKeys # "open" => lines'[publicKeyFile] > 0
      BY <2>8, <2>9 DEF RegisterPublicKeySucceeds
    <3>2. folder' \in {"strict", "lax"}
      BY <2>9, <2>14 DEF RegisterPublicKeySucceeds
    <3>3. permitted' = TRUE /\ permitted' \in BOOLEAN
      BY <2>9, Zenon DEF RegisterPublicKeySucceeds
    <3>4. publicKeyFile \in Key
      BY <2>9 DEF RegisterPublicKeySucceeds
    <3>5. registered' = registered \cup (IF authorizedKeys = "open" THEN {}
                                         ELSE {publicKeyFile})
      BY <2>9 DEF RegisterPublicKeySucceeds, CountAsRegistered
    <3>6. /\ authorizedKeys' = "ended" /\ pc' = "tryAgain" /\ pc = "register"
          /\ UNCHANGED <<files, knownHostsFile, hostKey, settings, progress, console>>
      BY <2>9 DEF RegisterPublicKeySucceeds, AppendPublicKey
    <3>7. RegisteredStays' /\ NewFileHasNone'
      <4>1. registered' \subseteq Key
        BY <3>4, <3>5
      <4>2. \A k \in Key : lines'[k] \in Nat
        BY <3>1, KeySetupAssumption
      <4>3. \A k \in registered' : lines'[k] > 0
        BY <3>1, <3>5, <4>1, <4>2, <2>15
      <4>4. QED
        BY <3>2, <3>3, <3>6, <4>3
    <3>8. TypeOK'
      BY <3>1, <3>2, <3>3, <3>4, <3>5, <3>6
    <3>9. QED
      BY <3>6, <3>7, <3>8
  <2>10. CASE RegisterPublicKeyFails
    <3>1. End /\ UNCHANGED <<files, knownHostsFile, hostKey>> /\ pc = "register"
      BY <2>10 DEF RegisterPublicKeyFails
    <3>2. CASE UNCHANGED accounts
      BY <3>1, <3>2, EndKeepsSetupInv
    <3>3. CASE MakeFolder /\ UNCHANGED <<authorizedKeys, lines, permitted, registered>>
      BY <3>1, <3>3, <2>14, EndKeepsSetupInv
    <3>4. CASE /\ MakeFolder
               /\ AppendPublicKey \/ (authorizedKeys' = "open" /\ UNCHANGED lines)
               /\ permitted' \in IF authorizedKeys = "absent" THEN BOOLEAN
                                 ELSE {permitted, TRUE}
               /\ UNCHANGED registered
      <4>1. /\ lines' \in [Key -> 0..MaxLines]
            /\ \A k \in Key : lines'[k] >= lines[k]
        BY <2>8, <2>15, <3>1, <3>4
      <4>2. authorizedKeys' \in {"ended", "open"}
        BY <3>4 DEF AppendPublicKey
      <4>3. permitted' \in BOOLEAN
        BY <3>4, Zenon
      <4>4. registered # {} => permitted /\ authorizedKeys # "absent"
        OBVIOUS
      <4>5. registered # {} => permitted'
        BY <3>4, <4>4, Zenon
      <4>6. \A k \in registered : lines'[k] > 0
        <5>1. \A k \in Key : lines'[k] \in Nat
          BY <4>1, KeySetupAssumption
        <5>2. QED
          BY <4>1, <5>1, <2>15
      <4>7. folder' \in {"strict", "lax"}
        BY <2>14, <3>4
      <4>8. RegisteredStays' /\ NewFileHasNone'
        BY <3>4, <4>2, <4>5, <4>6, <4>7
      <4>9. QED
        BY <3>1, <3>4, <4>1, <4>2, <4>3, <4>7, <4>8, EndKeepsSetupInv
    <3>5. QED
      BY <2>10, <3>2, <3>3, <3>4 DEF RegisterPublicKeyFails
  <2>11. CASE TryAgain
    BY <2>11, EndKeepsSetupInv DEF TryAgain
  <2>12. CASE PathIsMissing
    BY <2>12, EndKeepsSetupInv DEF PathIsMissing
  <2>13. QED
    BY <1>3, <2>1, <2>2, <2>3, <2>4, <2>5, <2>6, <2>7, <2>9, <2>10, <2>11, <2>12
       DEF Setup
<1>4. CASE Throw
  BY <1>4, EndKeepsSetupInv DEF Throw, SetupInv, TypeOK, NewFileHasNone, RegisteredStays
<1>5. CASE Ssh
  <2> USE DEF SetupInv, TypeOK, SshTells, SshRuns, HasScanned, Reported,
      ReadyToRegister, FingerprintIsKnown, NewFileHasNone, RegisteredStays
  <2>1. CASE SshAsks
    BY <2>1 DEF SshAsks
  <2>2. CASE SshKnowsHost
    BY <2>2 DEF SshKnowsHost
  <2>3. CASE SshStoresHost
    BY <2>3 DEF SshStoresHost
  <2>4. CASE SshAuthenticates
    BY <2>4 DEF SshAuthenticates
  <2>5. CASE SshFails
    BY <2>5 DEF SshFails
  <2>6. QED
    BY <1>5, <2>1, <2>2, <2>3, <2>4, <2>5 DEF Ssh
<1>6. CASE TimePasses
  BY <1>6 DEF TimePasses, SetupInv, TypeOK, SshTells, SshRuns, HasScanned, Reported,
    ReadyToRegister, FingerprintIsKnown, NewFileHasNone, RegisteredStays
<1>7. CASE SetUpAnew
  <2>1. permitted' \in BOOLEAN
    BY <1>7, Zenon DEF SetUpAnew
  <2>2. renewed' \in BOOLEAN /\ (~renewed' => pc = "idle")
    BY <1>7, Zenon DEF SetUpAnew
  <2>3. lines' \in [Key -> 0..MaxLines] /\ \A k \in Key : lines'[k] < MaxLines
    BY <1>7, KeySetupAssumption DEF SetUpAnew
  <2>4. /\ hostKey' \in HostKey
        /\ folder' \in {"absent", "strict", "lax"}
        /\ registered' = {}
        /\ ssh' = IF ssh = "off" THEN ssh ELSE "silent"
        /\ UNCHANGED <<files, knownHostsFile, pc, settings, scanned, fingerprint, output,
                       idle>>
    BY <1>7 DEF SetUpAnew
  <2>5. authorizedKeys' \in {"absent", "ended", "open"}
    BY <1>7 DEF SetUpAnew
  <2>6. TypeOK'
    BY <2>1, <2>2, <2>3, <2>4, <2>5 DEF SetupInv, TypeOK
  <2>7. SshTells' /\ SshRuns' /\ HasScanned' /\ Reported' /\ FingerprintIsKnown'
    BY <2>2, <2>4 DEF SetupInv, SshTells, SshRuns, HasScanned, Reported, FingerprintIsKnown
  <2>8. QED
    BY <2>3, <2>4, <2>6, <2>7 DEF SetupInv, ReadyToRegister, NewFileHasNone, RegisteredStays
<1>8. CASE UNCHANGED vars
  BY <1>8 DEF vars, SetupInv, TypeOK, SshTells, SshRuns, HasScanned, Reported,
    ReadyToRegister, FingerprintIsKnown, NewFileHasNone, RegisteredStays
<1>9. QED
  BY <1>1, <1>2, <1>3, <1>4, <1>5, <1>6, <1>7, <1>8 DEF Next

LEMMA SetupInvAlways == Spec => []SetupInv
BY SetupInvInit, StepKeepsSetupInv, PTL DEF Spec

(***************************************************************************)
(* The state keeps its type: above all, a setup appends to authorized_keys *)
(* once at most, so that the bound checked at its start is enough.         *)
(***************************************************************************)
THEOREM SetupTypeCorrect == Spec => []TypeOK
<1>1. SetupInv => TypeOK
  BY DEF SetupInv
<1>2. QED
  BY <1>1, SetupInvAlways, PTL

(***************************************************************************)
(* A fingerprint reported as registered is in known_hosts.                 *)
(***************************************************************************)
THEOREM FingerprintIsKnownCorrect == Spec => []FingerprintIsKnown
<1>1. SetupInv => FingerprintIsKnown
  BY DEF SetupInv
<1>2. QED
  BY <1>1, SetupInvAlways, PTL

(***************************************************************************)
(* A key that was registered stays accepted: no later setup, of whatever   *)
(* key and wherever it breaks off, takes its line or the permissions of    *)
(* authorized_keys away. What it needs of ~/.ssh is all that is left open. *)
(***************************************************************************)
THEOREM RegisteredKeyWorksCorrect == Spec => []RegisteredKeyWorks
<1>1. SetupInv => RegisteredKeyWorks
  <2> SUFFICES ASSUME SetupInv, NEW k \in registered, folder # "lax"
               PROVE  Accepts(k)
    BY DEF RegisteredKeyWorks
  <2>1. k \in Key /\ k # NoKey
    BY KeySetupAssumption DEF SetupInv, TypeOK, Key
  <2>2. lines[k] > 0 /\ permitted /\ folder = "strict"
    BY DEF SetupInv, TypeOK, RegisteredStays
  <2>3. QED
    BY <2>1, <2>2 DEF Accepts
<1>2. QED
  BY <1>1, SetupInvAlways, PTL

----------------------------------------------------------------------------
(***************************************************************************)
(* Between the refusal of a key and its registration nothing makes the     *)
(* device accept it: only a registration adds lines or sets permissions,   *)
(* and a device set up anew accepts none.                                  *)
(***************************************************************************)
Refused ==
  pc \in {"password", "register"} /\ privateKeyFile = publicKeyFile
    => ~Accepts(publicKeyFile)

LEMMA RefusedStep ==
  ASSUME SetupInv, Refused, [Next]_vars
  PROVE  Refused'
<1> USE DEF files, knownHostsFile, accounts, device, settings, progress, console
<1>1. CASE pc' \notin {"password", "register"}
  BY <1>1 DEF Refused
<1>2. CASE SetUpAnew
  <2>1. lines' = [k \in Key |-> 0] /\ UNCHANGED <<pc, settings>>
    BY <1>2 DEF SetUpAnew
  <2>2. pc' # "idle" => publicKeyFile' \in Key
    BY <2>1 DEF SetupInv, ReadyToRegister
  <2> QED BY <2>1, <2>2 DEF Refused, Accepts
<1>3. CASE TryEstablishConnectionWithKey
  <2>1. CASE Accepts(privateKeyFile)
    BY <1>3, <2>1 DEF TryEstablishConnectionWithKey, End, Refused
  <2>2. CASE ~Accepts(privateKeyFile)
    <3>1. UNCHANGED <<settings, accounts>>
      BY <1>3, <2>2 DEF TryEstablishConnectionWithKey
    <3> QED BY <2>2, <3>1 DEF Refused, Accepts
  <2> QED BY <2>1, <2>2
<1>4. CASE TryEstablishConnectionWithPassword /\ pc' # "idle"
  <2>1. pc = "password" /\ UNCHANGED <<settings, accounts>>
    BY <1>4 DEF TryEstablishConnectionWithPassword, End
  <2> QED BY <2>1 DEF Refused, Accepts
<1>5. CASE UNCHANGED <<pc, settings, accounts>>
  BY <1>5 DEF Refused, Accepts
<1>6. \/ pc' \notin {"password", "register"}
      \/ SetUpAnew \/ TryEstablishConnectionWithKey
      \/ TryEstablishConnectionWithPassword /\ pc' # "idle"
      \/ UNCHANGED <<pc, settings, accounts>>
  <2>1. CASE Setup
    BY <2>1 DEF Setup, KeyScanSucceeds, KeyScanFails, AddFingerprint, StartConsole, Poll, ConfirmPrompt,
      SeesTheEnd, ReadsOn, GivesUp, ConsoleReturns, RegisterPublicKeySucceeds, RegisterPublicKeyFails,
      TryAgain, PathIsMissing, End
  <2>2. CASE Throw \/ Ssh \/ TimePasses
    BY <2>2 DEF Throw, End, Ssh, SshAsks, SshKnowsHost, SshStoresHost, SshAuthenticates, SshFails,
      TimePasses
  <2>3. ASSUME NEW k \in DefaultKey, CreateKey(k) \/ KeyGenExits(k)
        PROVE  UNCHANGED <<pc, settings, accounts>>
    BY <2>3 DEF CreateKey, KeyGenExits
  <2>4. ASSUME NEW public \in Key, NEW private \in Key \cup {NoKey}, Execute(public, private)
        PROVE  pc' \notin {"password", "register"}
    BY <2>4 DEF Execute
  <2>5. CASE UNCHANGED vars
    BY <2>5 DEF vars
  <2> QED BY <2>1, <2>2, <2>3, <2>4, <2>5 DEF Next
<1> QED BY <1>1, <1>2, <1>3, <1>4, <1>5, <1>6

\* What a step may add to authorized_keys, and who.
AddsOnlyRefused ==
  \A k \in Key : lines'[k] > lines[k] =>
    /\ k = publicKeyFile
    /\ privateKeyFile = publicKeyFile => ~Accepts(k)

LEMMA RegistrationAdds ==
  ASSUME SetupInv, Refused, pc = "register", AppendPublicKey
  PROVE  AddsOnlyRefused
<1>1. publicKeyFile \in Key /\ lines \in [Key -> 0..MaxLines]
  BY DEF SetupInv, ReadyToRegister, TypeOK
<1>2. \A k \in Key \ {publicKeyFile} : lines'[k] = lines[k]
  BY <1>1 DEF AppendPublicKey
<1>3. \A k \in Key : lines[k] \in Nat
  BY <1>1, KeySetupAssumption
<1> QED BY <1>2, <1>3 DEF AddsOnlyRefused, Refused

LEMMA NoLineNothingAdded ==
  ASSUME SetupInv, \A k \in Key : lines'[k] = lines[k] \/ lines'[k] = 0
  PROVE  AddsOnlyRefused
<1>1. \A k \in Key : lines[k] \in Nat
  BY KeySetupAssumption DEF SetupInv, TypeOK
<1> QED BY <1>1 DEF AddsOnlyRefused

LEMMA StepAdds ==
  ASSUME SetupInv, Refused, Next
  PROVE  AddsOnlyRefused
<1> USE DEF files, knownHostsFile, accounts, device, settings, progress, console
<1>1. CASE RegisterPublicKeySucceeds
  BY <1>1, RegistrationAdds DEF RegisterPublicKeySucceeds
<1>2. CASE RegisterPublicKeyFails
  <2>1. CASE UNCHANGED lines
    BY <2>1, NoLineNothingAdded
  <2>2. CASE AppendPublicKey
    BY <1>2, <2>2, RegistrationAdds DEF RegisterPublicKeyFails
  <2> QED BY <1>2, <2>1, <2>2 DEF RegisterPublicKeyFails
<1>3. CASE SetUpAnew
  BY <1>3, NoLineNothingAdded DEF SetUpAnew
<1>4. CASE UNCHANGED lines
  BY <1>4, NoLineNothingAdded
<1>5. RegisterPublicKeySucceeds \/ RegisterPublicKeyFails \/ SetUpAnew \/ UNCHANGED lines
  <2>1. CASE Setup
    BY <2>1 DEF Setup, KeyScanSucceeds, KeyScanFails, AddFingerprint, StartConsole, Poll,
      TryEstablishConnectionWithKey, TryEstablishConnectionWithPassword, TryAgain, PathIsMissing
  <2>2. CASE Throw \/ Ssh \/ TimePasses
    BY <2>2 DEF Throw, Ssh, SshAsks, SshKnowsHost, SshStoresHost, SshAuthenticates, SshFails, TimePasses
  <2>3. ASSUME NEW k \in DefaultKey, CreateKey(k) \/ KeyGenExits(k)
        PROVE  UNCHANGED lines
    BY <2>3 DEF CreateKey, KeyGenExits
  <2>4. ASSUME NEW public \in Key, NEW private \in Key \cup {NoKey}, Execute(public, private)
        PROVE  UNCHANGED lines
    BY <2>4 DEF Execute
  <2> QED BY <2>1, <2>2, <2>3, <2>4 DEF Next
<1> QED BY <1>1, <1>2, <1>3, <1>4, <1>5

(***************************************************************************)
(* However often setups are repeated: a key is appended to authorized_keys *)
(* only when the device does not accept it.                                *)
(***************************************************************************)
THEOREM AddsOnlyRefusedKeysCorrect == Spec => AddsOnlyRefusedKeys
<1>1. Init => Refused
  BY DEF Init, Refused
<1>2. SetupInv /\ Refused /\ [Next]_vars => Refused'
  BY RefusedStep
<1>3. SetupInv /\ Refused /\ [Next]_vars
        => [\A k \in Key : lines'[k] > lines[k] =>
              /\ k = publicKeyFile
              /\ privateKeyFile = publicKeyFile => ~Accepts(k)]_vars
  BY StepAdds DEF AddsOnlyRefused
<1> QED BY <1>1, <1>2, <1>3, SetupInvAlways, PTL DEF Spec, AddsOnlyRefusedKeys

----------------------------------------------------------------------------
(***************************************************************************)
(* Two ways lead into known_hosts, the scan and ssh.exe, and ssh.exe adds  *)
(* the host two steps after it has found that it is not there. It runs     *)
(* only while the setup polls it, so nobody adds the host in between.      *)
(***************************************************************************)
OneAtATime ==
  /\ ssh # "off" => pc = "console"
  /\ ssh \in {"asking", "answered"} => knownHosts = {}

\* Who starts, answers or closes ssh.exe, and who writes known_hosts.
LEMMA HostWriters ==
  ASSUME [Next]_vars
  PROVE  \/ StartConsole \/ Poll \/ Ssh \/ AddFingerprint \/ SetUpAnew
         \/ End /\ UNCHANGED knownHosts
         \/ pc # "console" /\ UNCHANGED <<ssh, knownHosts>>
         \/ UNCHANGED <<ssh, pc, knownHosts>>
<1> USE DEF files, knownHostsFile, accounts, device, settings, progress, console
<1>1. CASE Setup
  <2>1. CASE KeyScanSucceeds \/ KeyScanFails
    BY <2>1 DEF KeyScanSucceeds, KeyScanFails
  <2>2. CASE TryEstablishConnectionWithKey \/ TryEstablishConnectionWithPassword
    BY <2>2 DEF TryEstablishConnectionWithKey, TryEstablishConnectionWithPassword
  <2>3. CASE RegisterPublicKeySucceeds \/ RegisterPublicKeyFails \/ TryAgain \/ PathIsMissing
    BY <2>3 DEF RegisterPublicKeySucceeds, RegisterPublicKeyFails, TryAgain, PathIsMissing
  <2> QED BY <1>1, <2>1, <2>2, <2>3 DEF Setup
<1> QED
  BY <1>1 DEF Next, CreateKey, KeyGenExits, Execute, Throw, TimePasses, vars

LEMMA OneAtATimeStep ==
  ASSUME OneAtATime, [Next]_vars
  PROVE  OneAtATime' /\ (knownHosts # {} => knownHosts' = knownHosts)
<1> USE DEF files, knownHostsFile, accounts, device, settings, progress, console
<1>1. CASE StartConsole
  BY <1>1 DEF StartConsole, OneAtATime
<1>2. CASE Poll
  BY <1>2 DEF Poll, ConfirmPrompt, SeesTheEnd, ReadsOn, GivesUp, ConsoleReturns, Close, OneAtATime
<1>3. CASE Ssh
  BY <1>3 DEF Ssh, SshAsks, SshKnowsHost, SshStoresHost, SshAuthenticates, SshFails, OneAtATime
<1>4. CASE AddFingerprint
  BY <1>4 DEF AddFingerprint, ContainsText, OneAtATime
<1>5. CASE SetUpAnew
  BY <1>5 DEF SetUpAnew, OneAtATime
<1>6. CASE End /\ UNCHANGED knownHosts
  BY <1>6 DEF End, Close, OneAtATime
<1>7. CASE \/ pc # "console" /\ UNCHANGED <<ssh, knownHosts>>
           \/ UNCHANGED <<ssh, pc, knownHosts>>
  BY <1>7 DEF OneAtATime
<1> QED BY <1>1, <1>2, <1>3, <1>4, <1>5, <1>6, <1>7, HostWriters

(***************************************************************************)
(* The first host key a device is known by stays the only one: however     *)
(* often setups are repeated, and whatever ssh.exe is doing when they end, *)
(* nothing adds a second one or replaces it - not even when the device has *)
(* got another system, which is then refused by its old name.              *)
(***************************************************************************)
FirstHostKeyStays == knownHosts # {} => knownHosts' = knownHosts

THEOREM FirstHostKeyStaysCorrect == Spec => [][FirstHostKeyStays]_knownHosts
<1>1. Init => OneAtATime
  BY DEF Init, OneAtATime
<1>2. OneAtATime /\ [Next]_vars => OneAtATime' /\ [FirstHostKeyStays]_knownHosts
  BY OneAtATimeStep DEF FirstHostKeyStays
<1> QED BY <1>1, <1>2, PTL DEF Spec
=============================================================================
