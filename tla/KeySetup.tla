------------------------------ MODULE KeySetup ------------------------------
(***************************************************************************)
(* The Setup SSH command: a key pair is created or chosen in its dialog,   *)
(* the device's host key is registered in known_hosts, by ssh-keyscan or   *)
(* else by an ssh.exe that runs in a pseudo console and whose prompts are  *)
(* answered, and the public key is added to the device's authorized_keys.  *)
(*                                                                         *)
(* The command blocks the UI thread, so there is one setup at a time; it   *)
(* meets ssh.exe, ssh-keygen.exe processes that still run, the clock, and  *)
(* a device that may be set up anew (a new host key, no authorized keys)   *)
(* between any two steps.                                                  *)
(***************************************************************************)
EXTENDS Integers

CONSTANTS DefaultKey,   \* the key pairs ssh-keygen creates in ~/.ssh
          OwnKey,       \* key pairs the developer keeps elsewhere
          NoKey,        \* the path of the private key is left empty
          HostKey,      \* the host keys of the systems the device may have
          NoHostKey,
          MaxLines      \* bound: lines of one key in authorized_keys

ASSUME KeySetupAssumption ==
  /\ DefaultKey \cap OwnKey = {}
  /\ NoKey \notin DefaultKey \cup OwnKey
  /\ HostKey # {}
  /\ NoHostKey \notin HostKey
  /\ MaxLines \in Nat \ {0}

Key == DefaultKey \cup OwnKey

IdleLimit == 2          \* SshOverallTimeoutSeconds, in units of
                        \* SshInitialOutputDelaySeconds

VARIABLES
  \* the computer
  keyFiles,         \* per key: the files that exist
  generating,       \* the keys an ssh-keygen.exe is creating
  sshFolder,        \* the folder ~/.ssh exists
  knownHosts,       \* the host keys known_hosts has for the device
  similarHost,      \* another entry of known_hosts contains the device's name
  \* the device
  hostKey,          \* its host key
  folder,           \* ~/.ssh there: absent, or whether sshd accepts its permissions
  authorizedKeys,   \* the file in it: absent, or whether its last line is ended
  lines,            \* per key: effective lines in it
  permitted,        \* sshd accepts the permissions of that file
  registered,       \* history: the keys whose registration on this system was
                    \* taken for successful, to a file whose last line was ended
  \* the running setup
  pc,
  publicKeyFile,
  privateKeyFile,
  scanned,          \* the host key ssh-keyscan.exe has printed
  fingerprint,      \* what RegisterServerFingerprintAsync came to
  renewed,          \* history: in the course of the setup the device was set up
                    \* anew
  \* the connection in the pseudo console
  ssh,              \* the step of ssh.exe
  output,           \* what it has written and nobody has read
  idle              \* inactivityWatch.Elapsed

files == <<keyFiles, generating>>
knownHostsFile == <<sshFolder, knownHosts, similarHost>>
accounts == <<folder, authorizedKeys, lines, permitted, registered>>
device == <<hostKey, accounts>>
settings == <<publicKeyFile, privateKeyFile>>
progress == <<scanned, fingerprint, renewed>>
console == <<ssh, output, idle>>
vars == <<files, knownHostsFile, device, pc, settings, progress, console>>

Output == {"prompt", "password", "DONE", "text"}
SetupSteps == {"scan", "add", "connect", "console", "tryKey", "password",
               "register", "tryAgain"}

TypeOK ==
  /\ keyFiles \in [Key -> {"none", "private", "both"}]
  /\ generating \subseteq DefaultKey
  /\ sshFolder \in BOOLEAN
  /\ knownHosts \subseteq HostKey
  /\ similarHost \in BOOLEAN
  /\ hostKey \in HostKey
  /\ folder \in {"absent", "strict", "lax"}
  /\ authorizedKeys \in {"absent", "ended", "open"}
  /\ lines \in [Key -> 0..MaxLines]
  /\ permitted \in BOOLEAN
  /\ registered \subseteq Key
  /\ pc \in SetupSteps \cup {"idle"}
  /\ publicKeyFile \in Key \cup {NoKey}
  /\ privateKeyFile \in Key \cup {NoKey}
  /\ scanned \in HostKey \cup {NoHostKey}
  /\ fingerprint \in {"unknown", "skipped", "added", "accepted", "failed"}
  /\ renewed \in BOOLEAN
  /\ ssh \in {"off", "connecting", "asking", "answered", "authenticating", "silent"}
  /\ output \subseteq Output
  /\ idle \in 0..IdleLimit

Init ==
  /\ keyFiles = [k \in Key |-> IF k \in OwnKey THEN "both" ELSE "none"]
  /\ generating = {}
  /\ sshFolder \in BOOLEAN
  /\ knownHosts = {}
  /\ similarHost \in IF sshFolder THEN BOOLEAN ELSE {FALSE}
  /\ hostKey \in HostKey
  /\ folder \in {"absent", "strict", "lax"}
  /\ authorizedKeys \in IF folder = "absent" THEN {"absent"} ELSE {"absent", "ended", "open"}
  /\ lines = [k \in Key |-> 0]
  /\ permitted \in IF authorizedKeys = "absent" THEN {TRUE} ELSE BOOLEAN
  /\ registered = {}
  /\ pc = "idle"
  /\ publicKeyFile = NoKey
  /\ privateKeyFile = NoKey
  /\ scanned = NoHostKey
  /\ fingerprint = "unknown"
  /\ renewed = FALSE
  /\ ssh = "off"
  /\ output = {}
  /\ idle = 0

(***************************************************************************)
(* The command ends; whatever process it waited for is closed ("using").   *)
(***************************************************************************)
Close == ssh' = "off" /\ output' = {} /\ idle' = 0

End ==
  /\ pc' = "idle"
  /\ publicKeyFile' = NoKey
  /\ privateKeyFile' = NoKey
  /\ scanned' = NoHostKey
  /\ fingerprint' = "unknown"
  /\ renewed' = FALSE
  /\ Close

----------------------------------------------------------------------------
(***************************************************************************)
(* The Create buttons of the dialog. A private key that exists is taken as *)
(* it is; otherwise ssh-keygen.exe runs, also after the dialog was closed, *)
(* and may fail before or after the private key.                           *)
(***************************************************************************)
CreateKey(k) ==
  /\ pc = "idle"
  /\ keyFiles[k] = "none"
  /\ generating' = generating \cup {k}
  /\ sshFolder' = TRUE
  /\ UNCHANGED <<keyFiles, knownHosts, similarHost, device, pc, settings, progress,
                 console>>

KeyGenExits(k) ==
  /\ k \in generating
  /\ generating' = generating \ {k}
  /\ \E left \in {"none", "private", "both"} : keyFiles' = [keyFiles EXCEPT ![k] = left]
  /\ UNCHANGED <<knownHostsFile, device, pc, settings, progress, console>>

(***************************************************************************)
(* The OK button: Validate wants a public key file that exists. Of the     *)
(* private key it sees only the errors of the last path that was set, none *)
(* when it was never set. The two need not belong together.                *)
(***************************************************************************)
Validate(public, private) ==
  /\ keyFiles[public] = "both"
  /\ IF private = NoKey THEN TRUE ELSE keyFiles[private] # "none"

Execute(public, private) ==
  /\ pc = "idle"
  /\ \A k \in Key : lines[k] < MaxLines
  /\ Validate(public, private)
  /\ publicKeyFile' = public
  /\ privateKeyFile' = private
  /\ pc' = "scan"
  /\ UNCHANGED <<files, knownHostsFile, device, progress, console>>

----------------------------------------------------------------------------
(***************************************************************************)
(* RegisterServerFingerprintWithKeyScanAsync: the scan, and then what is   *)
(* done with its output, which may be empty although the exit code is 0.   *)
(***************************************************************************)
KeyScanSucceeds ==
  /\ pc = "scan"
  /\ scanned' \in {hostKey, NoHostKey}
  /\ pc' = "add"
  /\ UNCHANGED <<files, knownHostsFile, device, settings, fingerprint, renewed, console>>

KeyScanFails ==
  /\ pc = "scan"
  /\ pc' = "connect"
  /\ UNCHANGED <<files, knownHostsFile, device, settings, progress, console>>

ContainsText == similarHost \/ knownHosts # {}

AddFingerprint ==
  /\ pc = "add"
  /\ IF ContainsText
       THEN /\ fingerprint' = "skipped"
            /\ UNCHANGED knownHosts
       ELSE /\ sshFolder
            /\ fingerprint' = "added"
            /\ knownHosts' = knownHosts \cup ({scanned} \ {NoHostKey})
  /\ pc' = "tryKey"
  /\ UNCHANGED <<files, sshFolder, similarHost, device, settings, scanned, renewed,
                 console>>

(***************************************************************************)
(* RegisterServerFingerprintWithConnectionAsync: ssh.exe starts, and after *)
(* a first delay the loop polls what it writes.                            *)
(***************************************************************************)
StartConsole ==
  /\ pc = "connect"
  /\ pc' = "console"
  /\ ssh' = "connecting"
  /\ idle' = 1
  /\ UNCHANGED <<files, knownHostsFile, device, settings, progress, output>>

(***************************************************************************)
(* One turn of the loop, a turn that finds nothing left out. Peek need not *)
(* find all there is to read. Whatever is read restarts the watch.         *)
(***************************************************************************)
ConsoleReturns(result) ==
  /\ fingerprint' = result
  /\ pc' = "tryKey"
  /\ Close

\* Variant: the text read stays in the string builder.
ConfirmPromptAgain(read) ==
  /\ "prompt" \in read
  /\ ssh' = IF ssh = "asking" THEN "answered" ELSE ssh
  /\ idle' = 0
  /\ UNCHANGED <<pc, fingerprint, output>>

\* Variant: the loop ends as soon as it has confirmed.
ConfirmAndReturn(read) ==
  /\ "prompt" \in read
  /\ ConsoleReturns("accepted")

ConfirmPrompt(read) ==
  /\ "prompt" \in read
  /\ ssh' = IF ssh = "asking" THEN "answered" ELSE ssh
  /\ output' = output \ read
  /\ idle' = 0
  /\ UNCHANGED <<pc, fingerprint>>

SeesTheEnd(read) ==
  /\ "prompt" \notin read
  /\ read \cap {"password", "DONE"} # {}
  /\ ConsoleReturns("accepted")

ReadsOn(read) ==
  /\ read = {"text"}
  /\ output' = output \ read
  /\ idle' = 0
  /\ UNCHANGED <<pc, fingerprint, ssh>>

GivesUp(read) ==
  /\ read = {}
  /\ idle >= IdleLimit
  /\ ConsoleReturns("failed")

Poll ==
  /\ pc = "console"
  /\ \E read \in SUBSET output :
       ConfirmPrompt(read) \/ SeesTheEnd(read) \/ ReadsOn(read) \/ GivesUp(read)
  /\ UNCHANGED <<files, knownHostsFile, device, settings, scanned, renewed>>

\* Variant: the timeout is missed when it is not met exactly.
TimePassesBeyond ==
  /\ pc = "console"
  /\ idle <= IdleLimit
  /\ idle' = idle + 1
  /\ UNCHANGED <<files, knownHostsFile, device, pc, settings, progress, ssh, output>>

TimePasses ==
  /\ pc = "console"
  /\ idle < IdleLimit
  /\ idle' = idle + 1
  /\ UNCHANGED <<files, knownHostsFile, device, pc, settings, progress, ssh, output>>

(***************************************************************************)
(* ssh.exe: an unknown host key is asked about, and stored when confirmed; *)
(* another one than the stored one, a lost connection or a kind of prompt  *)
(* the loop does not know leaves it silent.                                *)
(***************************************************************************)
Accepts(k) ==
  IF k = NoKey THEN FALSE ELSE lines[k] > 0 /\ permitted /\ folder = "strict"

SshAsks ==
  /\ ssh = "connecting"
  /\ knownHosts = {}
  /\ ssh' = "asking"
  /\ output' = output \cup {"prompt"}
  /\ sshFolder' = TRUE
  /\ UNCHANGED <<files, knownHosts, similarHost, device, pc, settings, progress,
                 idle>>

SshKnowsHost ==
  /\ ssh = "connecting"
  /\ hostKey \in knownHosts
  /\ ssh' = "authenticating"
  /\ UNCHANGED <<files, knownHostsFile, device, pc, settings, progress, output,
                 idle>>

SshStoresHost ==
  /\ ssh = "answered"
  /\ knownHosts' = knownHosts \cup {hostKey}
  /\ ssh' = "authenticating"
  /\ UNCHANGED <<files, sshFolder, similarHost, device, pc, settings, progress, output,
                 idle>>

SshAuthenticates ==
  /\ ssh = "authenticating"
  /\ output' = output \cup {IF Accepts(privateKeyFile) THEN "DONE" ELSE "password"}
  /\ ssh' = "silent"
  /\ UNCHANGED <<files, knownHostsFile, device, pc, settings, progress, idle>>

SshFails ==
  /\ ssh \notin {"off", "silent"}
  /\ ssh' = "silent"
  /\ output' \in {output, output \cup {"text"}}
  /\ UNCHANGED <<files, knownHostsFile, device, pc, settings, progress, idle>>

----------------------------------------------------------------------------
(***************************************************************************)
(* AuthorizeKeyAsync.                                                      *)
(***************************************************************************)
\* Variant: the key is registered without trying it first.
GoOnWithPassword ==
  /\ pc = "tryKey"
  /\ privateKeyFile # NoKey
  /\ pc' = "password"
  /\ UNCHANGED <<files, knownHostsFile, device, settings, progress, console>>

TryEstablishConnectionWithKey ==
  /\ pc = "tryKey"
  /\ privateKeyFile # NoKey
  /\ IF Accepts(privateKeyFile)
       THEN End
       ELSE /\ pc' = "password"
            /\ UNCHANGED <<settings, progress, console>>
  /\ UNCHANGED <<files, knownHostsFile, device>>

TryEstablishConnectionWithPassword ==
  /\ pc = "password"
  /\ \/ pc' = "register" /\ UNCHANGED <<settings, progress, console>>
     \/ End
  /\ UNCHANGED <<files, knownHostsFile, device>>

(***************************************************************************)
(* mkdir, echo >> and chmod, each only after the one before has succeeded. *)
(* The chmod is for the file alone: a folder that is there stays as it is, *)
(* a new one has the permissions of the account's umask, as a new file has *)
(* until then. A line appended to one that is not ended does not count;    *)
(* echo may fail with a part of its line written.                          *)
(***************************************************************************)
MakeFolder == folder' \in IF folder = "absent" THEN {"strict", "lax"} ELSE {folder}

AppendPublicKey ==
  /\ authorizedKeys' = "ended"
  /\ lines' = IF authorizedKeys = "open" THEN lines
              ELSE [lines EXCEPT ![publicKeyFile] = @ + 1]

CountAsRegistered ==
  registered' = registered \cup (IF authorizedKeys = "open" THEN {} ELSE {publicKeyFile})

\* Variant: the file keeps its permissions.
RegisterWithoutMode ==
  /\ pc = "register"
  /\ MakeFolder /\ AppendPublicKey /\ CountAsRegistered
  /\ permitted' \in IF authorizedKeys = "absent" THEN BOOLEAN ELSE {permitted}
  /\ pc' = "tryAgain"
  /\ UNCHANGED <<files, knownHostsFile, hostKey, settings, progress, console>>

RegisterPublicKeySucceeds ==
  /\ pc = "register"
  /\ MakeFolder /\ AppendPublicKey /\ CountAsRegistered
  /\ permitted' = TRUE
  /\ pc' = "tryAgain"
  /\ UNCHANGED <<files, knownHostsFile, hostKey, settings, progress, console>>

RegisterPublicKeyFails ==
  /\ pc = "register"
  /\ \/ UNCHANGED accounts
     \/ /\ MakeFolder
        /\ UNCHANGED <<authorizedKeys, lines, permitted, registered>>
     \/ /\ MakeFolder
        /\ AppendPublicKey \/ (authorizedKeys' = "open" /\ UNCHANGED lines)
        /\ permitted' \in IF authorizedKeys = "absent" THEN BOOLEAN ELSE {permitted, TRUE}
        /\ UNCHANGED registered
  /\ End
  /\ UNCHANGED <<files, knownHostsFile, hostKey>>

TryAgain ==
  /\ pc = "tryAgain"
  /\ End
  /\ UNCHANGED <<files, knownHostsFile, device>>

(***************************************************************************)
(* Exceptions end the command with a message box: the append to a file in  *)
(* a folder that does not exist, the private key that was not given, and,  *)
(* at any step, a process that does not start or a device not reached.     *)
(***************************************************************************)
PathIsMissing ==
  /\ \/ pc = "add" /\ ~ContainsText /\ ~sshFolder
     \/ pc = "tryKey" /\ privateKeyFile = NoKey
  /\ End
  /\ UNCHANGED <<files, knownHostsFile, device>>

Throw ==
  /\ pc \in SetupSteps
  /\ End
  /\ UNCHANGED <<files, knownHostsFile, device>>

----------------------------------------------------------------------------
(***************************************************************************)
(* The device gets another system: connections to it are gone.             *)
(***************************************************************************)
SetUpAnew ==
  /\ hostKey' \in HostKey \ {hostKey}
  /\ folder' \in {"absent", "strict", "lax"}
  /\ authorizedKeys' \in IF folder' = "absent" THEN {"absent"}
                         ELSE {"absent", "ended", "open"}
  /\ lines' = [k \in Key |-> 0]
  /\ permitted' \in IF authorizedKeys' = "absent" THEN {TRUE} ELSE BOOLEAN
  /\ registered' = {}
  /\ renewed' = (pc # "idle")
  /\ ssh' = IF ssh = "off" THEN ssh ELSE "silent"
  /\ UNCHANGED <<files, knownHostsFile, pc, settings, scanned, fingerprint, output,
                 idle>>

Ssh == SshAsks \/ SshKnowsHost \/ SshStoresHost \/ SshAuthenticates \/ SshFails

Setup ==
  \/ KeyScanSucceeds \/ KeyScanFails \/ AddFingerprint
  \/ StartConsole \/ Poll
  \/ TryEstablishConnectionWithKey \/ TryEstablishConnectionWithPassword
  \/ RegisterPublicKeySucceeds \/ RegisterPublicKeyFails \/ TryAgain
  \/ PathIsMissing

Next ==
  \/ \E k \in DefaultKey : CreateKey(k) \/ KeyGenExits(k)
  \/ \E public \in Key, private \in Key \cup {NoKey} : Execute(public, private)
  \/ Setup \/ Throw \/ Ssh \/ TimePasses \/ SetUpAnew

Spec == Init /\ [][Next]_vars

(***************************************************************************)
(* The command goes on, and time does; ssh.exe need not say anything, and  *)
(* no exception comes to help.                                             *)
(***************************************************************************)
FairSpec == Spec /\ WF_vars(Setup) /\ WF_vars(TimePasses)

----------------------------------------------------------------------------
(***************************************************************************)
(* A fingerprint that was reported as registered is the device's and is in *)
(* known_hosts, also when it is ssh.exe that has to store it: the loop     *)
(* ends, and ssh.exe with it, only after that. (Unless the scan printed    *)
(* nothing, or the device was set up anew since.) One reported as found    *)
(* there is at least mentioned.                                            *)
(***************************************************************************)
FingerprintIsKnown ==
  /\ \/ fingerprint = "accepted"
     \/ fingerprint = "added" /\ scanned # NoHostKey
     => hostKey \in knownHosts \/ renewed
  /\ fingerprint = "skipped" => ContainsText

(***************************************************************************)
(* Setups may be repeated, whatever became of the earlier ones: a key is   *)
(* appended to authorized_keys only when the device does not accept it,    *)
(* provided that the two files chosen belong together.                     *)
(***************************************************************************)
AddsOnlyRefusedKeys ==
  [][\A k \in Key : lines'[k] > lines[k] =>
       /\ k = publicKeyFile
       /\ privateKeyFile = publicKeyFile => ~Accepts(k)]_vars

(***************************************************************************)
(* A key whose registration was taken for successful is accepted from then *)
(* on, whatever later setups of this or another key do or fail to do, and  *)
(* in whatever state an earlier one has left the file, until the device is *)
(* set up anew - or it is the permissions of ~/.ssh, which the setup does  *)
(* not touch, that sshd objects to.                                        *)
(***************************************************************************)
RegisteredKeyWorks == \A k \in registered : Accepts(k) \/ folder = "lax"

(***************************************************************************)
(* Every setup ends, whatever ssh.exe writes or does not write, and        *)
(* however little of it is read.                                           *)
(***************************************************************************)
EverySetupEnds == pc # "idle" ~> pc = "idle"

=============================================================================
