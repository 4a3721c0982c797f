# A verification model of the Remote Debugger Launcher extension

The Remote Debugger Launcher is a Visual Studio extension that deploys a .NET
application to a Linux device over SSH, installs the debugger there and starts
it. This directory holds TLA+ modules of its core, TLC configurations that
check them on small instances, and proofs that TLAPS checks for instances of
any size. Paths below are relative to `src/Extension/RemoteDebuggerLauncher`
unless they begin with `RemoteTools`.

## The system

| component | state | operations | depends on |
|---|---|---|---|
| directory comparison (`RemoteTools/CheckSum`) | none | scan a folder into a dictionary path -> SHA256, compare two of them | runs on the computer (library) and on the device (`checksum`) |
| delta transfer (`RemoteOperations/SecureShellRemoteBulkCopyDeltaSessionService.cs`) | the tools folder and the application's folder on the device | install the tools, take hashes, delete, copy | directory comparison, SSH and SCP sessions |
| full transfer and rsync (`SecureShellSessionService.cs`, `SecureShellRemoteBulkCopyRsyncSessionService.cs`) | the folder on the device | upload a folder, upload a file | SCP, `rsync.exe` |
| remote operations (`SecureShellRemoteOperationsService.cs`) | folders of the device, download caches of the computer | deploy and clean folders, permissions, install debugger and .NET, queries, HTTPS certificate | the transfer the profile selects |
| deployment service (`ProjectSystem/Build/SecureShellDeployService.cs`) | none between calls | publish, deploy the application, additional files and directories | remote operations, publish service |
| publish service (`DotnetPublishService.cs`) | `published`, the publish folder | run `dotnet publish` | the process |
| deploy provider, launch targets provider, commands (`SecureShellDeployProvider.cs`, `SecureShellRemoteLaunchTargetsProvider.cs`, `Commands/`) | `joinableTask` of a command | turn requests of the developer and of Visual Studio into calls of the services, exceptions into messages | all of the above |
| service factories (`ProjectSystem/*ServiceFactory.cs`) | configuration and output pane of the running request | create services | configuration |
| configuration (`ConfigurationAggregator.cs`, options) | launch profile, options | queries with defaults | - |
| SSH key setup, HTTPS setup | key files, `authorized_keys`, certificate stores | phases with retries and timers | pseudo console, SSH |
| launch configuration, browser launch, facades, dialogs, logging | - | format, display | Visual Studio |

Components call each other directly and asynchronously (`await`); what they
share is outside of them: the folders on the device, the folders and caches of
the computer, and a few fields of long-lived objects (factories, commands).
What makes the code hard:

- the developer builds and the program on the device writes while a deployment
  runs; hashes and lists are taken at one step and used at a later one;
- any command or upload may throw, or leave half a file; nothing is rolled
  back, and the next call starts from what is left;
- the same exception is an error for one caller and a line of text for another;
- steps of one deployment write into places that overlap, in any number and any order;
- what failed is at times not noticed: a negative exit code, an exit status nobody
  reads, a script's error stream;
- two asynchronous requests may install into one folder at the same time;
- case-sensitive names of the device meet case-insensitive ones of Windows.

What has to hold, per component: the comparison and the delta transfer must
leave on the device what the project has, delete nothing else and move nothing
twice; the tools on the device must be the ones the extension ships; a
deployment as a whole must leave everything the profile asks for, executable
where needed, and nothing left over where a clean is asked for; a publish that
fails must not cost the device anything; the debugger must not start on an old
version; an installation must replace what it finds; everything must come to
an end. `PROJECT.json` lists the hazards line by line and the properties that
cover them.

## The modules

**DirectoryCompare** - operators only. A dictionary is a function on `Path`
with `NoFile` where it has no key; `Fold` gives the name a case-insensitive
comparison sees. `AddHash` and `TryGetValue` are those of an
`OrdinalIgnoreCase` dictionary, `Scans` the dictionaries a scan may end with
(the file system's order decides between names that differ in case), `CopySets` and
`DeleteSets` what `CollectMismatches` may return. A hash stands for its content.

**RemoteTools** - `InstallRemoteToolsIfNeededAsync`, one action per remote
command. The two files of the tools folder, the execute permission and the step are
the state. An upload may be torn, a session may end between any two steps,
`Upgrade` restarts Visual Studio with a newer release.

**DeltaDeploy** (EXTENDS both) - `UploadFolderRecursiveAsync`. `remoteFileHashes`,
`expectedHashes`, `filesToCopy`, `filesToDelete` are the locals of the code;
the scan takes one file per step (`ComputeHashForFile`), `rm` and the copy one
file per step. `Edit`, `Lock`, `Unlock` and `AppWrites` happen at any moment. `seen`
and `touched` are history variables: the versions a local file had since the start,
and the device files its program wrote since.

**FolderMirror** - the abstract specification: a deployment gives target files
versions the source has or had, and succeeds only when all of them have one.
`DeltaDeploy!Mirror` is the refinement mapping (`running <- pc # "idle"`,
`source <- Own(local)`, `target <- Own(remote)`, ...): it is about `OwnName`, the paths
that no other one differs from in case only.

**AppDeployment** - the abstract specification of a whole deployment: versions, the
places that have them and a phase. It does not touch the device before it is
prepared, only takes things away or puts versions there that are no older than what they
replace and than the build it began with, and completes only with everything asked for. The preparation may leave places in doubt, of which nothing is promised: a
killed `dotnet publish` does. `DeployService!Contract` is the refinement mapping: `Phase` tells the steps that
prepare from those that touch the device, and what is wanted is what the profile asks
for (`Wanted`) without what its own later targets take away (`Lost`).

**DeployService** - the whole deployment: the callers (the menu, the Deploy command,
the Deploy check box of the solution, F5), publish, clean, mkdir, upload, chmod,
additional files and directories, and the Clean command. A place is something that lies on the
device: `main`, the `asset` that only a publish adds, each additional file, the content of each
additional directory. `Inside` says which places are in or below the target
of a folder, so a directory may go below the application, elsewhere, onto it or above
it, and contain files and other directories; `Seen` leaves out what is below a name
that begins with a dot, which `rm -rf path/*` does not remove. A profile is a record of the settings a
deployment reads, with sequences of any files and directories. The upload of a folder is one
step that succeeds, as FolderMirror has it, or leaves any mixture. `Return` and `Throw` are what
each caller makes of the end. What fails and is not noticed is a step like any other, which
`unnoticed`, a history variable, records: `dotnet publish` ended by a crash or a kill, whose
negative exit code passes `exitCode > 0`, and a `chmod` whose exit status is not looked at.
What the application writes into its folder itself is in DeltaDeploy, not here, and additional
files and directories are taken not to bring a file of the name and place of another one.

**DebuggerInstall** - `TryInstallVsDbgOnlineAsync`, `TryInstallVsDbgOfflineAsync`,
`InstallDebuggerCommand` and `OnBeforeLaunchAsync`. The sessions are the
executions of the command and a debugger start; they share `debugger`, `folder`,
`executable` (the device), `cache` (the computer) and the field `task`. `disturbed`
is a history variable: another session has worked on the same folder or cache, or the
script that fills the cache wrote errors (`DownloadErrorsUnseen`) that the code does not look at.

**KeySetup** - the Setup SSH command (`SetupSshCommand`, `SetupSshDialogViewModel`,
`SecureShellKeySetupService`, `SecureShellKeyPairCreatorService`). `pc` is the step of
the command, which blocks the UI thread, so there is one; `keyFiles`, `sshFolder`,
`knownHosts` and `similarHost` are files of the computer; `authorizedKeys`, `lines` and
`permitted` are the state of one file of the device, `folder` that of `~/.ssh` there, whose
permissions sshd checks as well and the setup leaves as they are, or as `mkdir -p` and the umask make them. `fingerprint` is what
`RegisterServerFingerprintAsync` came to: "skipped" when the scan found the host
already there, "added" when it wrote it, "accepted" when the loop that answers
ssh.exe saw the end, "failed" when it gave up. ssh.exe is an actor of its own
(external, as the loop in `src/` uses it); `Poll` is a turn of the loop that reads any part of
what ssh.exe has written, `TimePasses` the stopwatch. `CreateKey` and `KeyGenExits` are
apart because ssh-keygen.exe goes on after the dialog is closed. `registered` and `renewed` are
history variables: the keys whose registration on this system was taken for
successful (to a file whose last line was ended), and that the device got another system during this setup.

**HttpsSetup** - the Setup HTTPS command (`SetupHttpsCommand`, `CertificateService`,
`SetupAspNetDeveloperCertificateAsync`) in several instances of Visual Studio, which
share `personal` and `trusted` (the developer's stores), `installed` (the device) and
`pfx` (the file in the home directory of the device). `notAfter` grows with every
root; a root is its index there, a certificate a root and an end. The device may have a
certificate of its own (`SelfSigned`), from the beginning or made at any time it has no valid one
(`DeviceCreatesOwn`, the first run of an SDK). `root` and
`certificate` are the locals of an instance. `LoadRoot` chooses among the roots as
`LoadSelfSignedRootCertificate` does, a root that is created is stored before it is
trusted, and Windows may be told no. `StoreFails` is the exception of the store that is
taken for a store without a root. The import has four outcomes: done, failed (a line of
text), without exit status (taken for 0) and an exception. `TimePasses` makes
certificates expire, `RemoveRoot` is the developer's. `disturbed` is a history
variable: the certificate of the device has changed since this instance completed its
setup, or a command had no exit status.

**DotnetInstall** - the Install .NET command and both ways of installing it
(`InstallDotnetCommand`, `TryInstallDotNetOnlineAsync`, `TryInstallDotNetOfflineAsync`).
A session is an instance of Visual Studio; the sessions share `cache` (the payloads
downloaded to the computer), `archive` (the payloads uploaded to the home
directory of the device) and `dotnet` (what is unpacked). Each of these is "none",
"part" or "whole" per payload. Looking a payload up, creating its file, writing
it, uploading, unpacking and removing are actions of their own, because other sessions
act in between; a session that writes is refused the file by one that reads it, as
Windows does. `met` says that a session's archive has been touched by another one
since its own upload began: its `tar` may then meet anything. `brokenOff` and `spoiled` are
history variables: payloads whose last write broke off, and sessions whose unpacked
files another session, or a command without exit status, may have damaged.

**RsyncDeploy** - `UploadFolderRecursiveAsync` and `UploadFileAsync` of the rsync
transfer, with the options they give to rsync, whose steps are external. A file has a
content and a time in `local` and `remote`; `clock` is the computer's, the
device's is `skew` ahead. rsync lists the folder, passes a file over (`-u`, the
quick check), reads one, stores it, and ends with one of its codes, which `Verdict`
compares as the code does. A call may find rsync missing, lose the connection or have the
process killed. `odd` is a history variable: files that were edited in a way `-u` may get wrong
and that no complete transfer has put right since. It implements FolderMirror
with `kept`, the files it left out, for the unread ones.

**LaunchProfiles** - which launch profile a command works with
(`UnconfiguredPackageServiceFactory.ConfigureAsync`, the loops of the commands,
`QueryDotnetCommand`, `LaunchProfileEditor.UpdateProfilePropertyAsync`). `factory` is
the configuration of a project's factory, `active` the profile Visual Studio has
selected, `path` what QueryDotnet wrote into a profile. The read of the active profile, the
configuration, the turn in the loop and the update are actions of their own. `stirred`
and `marred` are history variables: projects whose profile was changed while a
command was running, and profiles that were written to then.

**MCDeltaDeploy, MCDeployService** - values for TLC. Definitions marked `Variant`
are mutations of the action after them, used to see that each property can fail.

## The runs

| run | shows | instance |
|---|---|---|
| `mirror` | TypeOK, MirrorOnSuccess, DeletesOnlyGoneFiles, OnlyDifferencesTravel, DeltaDeploy implements FolderMirror | two paths, two contents, one lockable |
| `tools` | ReadyHasOwnBinary, UsableStaysUsable, EveryDeploymentEnds | three releases, two names that differ in case only, one content |
| `deploy` | TypeOK, CompleteHasAll, CompleteHasNoLeftovers, CompleteIsExecutable, ExtensionLaunchesTheBuild, PublishedBeforeTouched, EveryRequestEnds, DeployService implements AppDeployment | six profiles, one additional file, two directories of which one contains the other, two builds |
| `install` | TypeOK, OneCommand, OfflineInstalls, EveryInstallationEnds | two executions of the command, a launch, two versions, up to two projects |
| `keysetup` | TypeOK, FingerprintIsKnown, RegisteredKeyWorks, AddsOnlyRefusedKeys, EverySetupEnds | two keys, two systems of the device with any permissions, setups repeated |
| `https` | TypeOK, SignedByTrustedRoot, RootsAreFew, CompletedMeansInstalled | two instances of Visual Studio, one or two projects, certificates that expire, a device with or without its own |
| `dotnet` | TypeOK, UploadsWholeFiles, CompletedMeansUnpacked, EveryInstallationEnds | two instances of Visual Studio, one or two projects, one payload |
| `rsync` | TypeOK, BuiltFilesArrive, RsyncDeploy implements FolderMirror | one path, two contents, three times, a device whose clock is ahead or not |
| `profiles` | TypeOK, WorksWithActiveProfile, PathFitsProfile, EveryCommandEnds | QueryDotnet and an installation, one project with three profiles, one of them of another extension |
| `launch`, `folder`, `renewal` | one sentence of the documentation or of a comment each that the code does not keep, see below | minimal |

Bounds. Two paths let one file change or be locked while another is handled, and
two of one name meet in one dictionary; two contents tell an old version
from a new one and a torn one (`Garbage`) from both; contents are symmetric.
In `mirror` both paths have a name of their own; that a clash of other names does not
disturb them is left to the proof.
Three releases let an upgrade happen on top of a half-finished upgrade. In
`deploy`, `home` contains the application and `inner`, and the application a file and `inner`,
whose name begins with a dot; with them a later directory takes away the
application, a file and another directory, and a clean passes one over. The profiles are six of
the combinations, chosen so that every setting has every value and the pairs that
interact occur together (a clean with a directory inside, delta with a directory inside and
one around the application, `~` with a clean, self-contained with both); `ChangeProfile`
brings them together on one device. The proofs have all the others. `MaxBuild = 2`
tells new from old. In `install` two executions make OneCommand meaningful, two
versions show replacement, two projects the loop. In `keysetup` a key that
ssh-keygen creates meets one the developer has, so that the private key chosen need
not be that of the public key; two host keys are needed for a known host to become
another one, and two lines per key (`MaxLines`) for a key that is appended again.
`IdleLimit = 2` is `SshOverallTimeoutSeconds` in units of the first delay.
In `https` two instances are needed for a root to be created twice and for one
import to meet the other's file. `MaxEvents` bounds the time, the removed
roots and the failures of the store together (one event is enough for a root to be gone or expired, and
with it for a third and a fourth root), `MaxProjects` the projects of two overlapping
commands together. In `renewal` a root lives three units and a certificate two, so
that there is a time when the root is valid and cannot sign.
In `dotnet` two sessions and one payload make every meeting at one file happen,
and a session can meet itself in the second project; sessions with different payloads
do not share anything. In `rsync` one path is enough for the question (a file is
passed over or not by its own times), `MaxTime = 2` for a transfer, an edit and a
second transfer at three times, `Skews = {0, 1}` for a device that is in step or
ahead; that files do not disturb each other is left to the proof. In `profiles` two supported
profiles tell the right one from the wrong one, the third leaves the factory with an old
configuration, and `NoProfile` takes the project away; the projects of a command do not
share anything but its loop, and the proof covers any number of them.

No run disables deadlock checking: a request of the developer, or the next step of
a call, is always possible.

Fairness. `tools`, `deploy` and `install` assume weak fairness of the running
call (`Deployment`, `Step`, `CommandStep`, `LaunchStep`), never of the developer,
the device's program or of a particular outcome: calls are not cancelled, and a
command, upload or process they wait for ends or throws. Whether it does is up
to SSH.NET and the network; the code sets no timeout of its own on commands,
so the liveness properties say what the code does with calls that return.
`keysetup` assumes weak fairness of the command's steps and of time. Exceptions, which would
end a setup too, and ssh.exe have none: it may stay silent for ever, and
EverySetupEnds then rests on the timer. `dotnet` and `profiles` assume weak fairness
of each session's and each command's `Step`: downloads, connections and commands on
the device end, but no exception comes to help, so the ends the liveness
properties promise are those of the loops and of the waiting for one another. `https` and `rsync`
assume none and have no liveness property.

## What the runs found

- `launch`: the deploy provider reports a failed deployment as a success
  (`SecureShellDeployProvider.cs:74`) and Visual Studio starts the old version.
- `folder`: `mkdir -p "~/..."` does not create the folder in the home directory
  (`PackageConstants.cs:249`), and cleaning a folder that does not exist fails
  (`SecureShellRemoteOperationsService.cs:521`).
- `renewal`: a root is renewed only when it has expired, and until then it is to
  sign certificates that would outlive it (`CertificateService.cs:88`), which the
  library refuses: in the last year of a root no setup succeeds.

Seen while modelling, in the models, and without a run of its own:

- The list of files the local scan could not open is dropped
  (`DirectoryScannerComparer.cs:59`); such a file is deleted from the device or not
  copied, and the deployment succeeds. The same happens without any lock
  when two files of the device differ in case only.
- A session that ends after `version.json` and before `chmod` leaves tools
  that are never repaired and cannot run (`SecureShellRemoteBulkCopyDeltaSessionService.cs:143`).
  A torn `version.json` has the same effect: parsing it throws. Both are proved to last.
- `curl ... | sh` hides the failure of `curl`
  (`SecureShellRemoteOperationsService.cs:130`, and for .NET at 582 and 620), so
  the offline way is not tried.
- A .NET payload whose download broke off stays in the cache and is taken for
  complete until Microsoft names another one (`SecureShellRemoteOperationsService.cs:759`).
  `tar` then fails, so CompletedMeansUnpacked holds all the same.
- A `dotnet publish` that crashed or was killed ends with a negative code, which
  counts as a success (`DotnetPublishService.cs:142`): the device is then cleaned and given
  what is in the publish folder, an older version or half of one. The exit status of the
  `chmod` of a deployment is not looked at (`SecureShellRemoteOperationsService.cs:298`).
- A later directory of a profile takes away whatever its target contains, in delta mode all
  of it, with clean all but hidden names: the file, an earlier directory or the
  application. With clean, a relative directory below the application never completes, because the
  clean of the application has removed its folder and its own clean then fails, but for
  one whose name is hidden.
- The tools' version is compared for equality
  (`SecureShellRemoteBulkCopyDeltaSessionService.cs:143`). `Upgrade` goes to newer releases; a session of
  release 2 that ends between its binary and `version.json`, on a device with release
  1, followed by a session of release 1, would run the binary of 2.
- The script that downloads the debugger may write errors instead of throwing
  (`SecureShellRemoteOperationsService.cs:175`); the installation goes on with what the cache has.
- The `--check` of an HTTPS setup in Update mode accepts any valid certificate, also the one an SDK on
  the device has made itself (`SecureShellRemoteOperationsService.cs:437`): the setup completes and
  the browser still does not trust the device. A store that cannot be opened
  counts as one without a root (`CertificateService.cs:190`), and another root is created.
- `rsync -u` never deploys an older build, an edit made while its file is on its
  way, or anything while the clock of the device is ahead by more than the
  time since the last deployment. A killed rsync ends with a negative code, which `> 0` does not see
  (`SecureShellRemoteBulkCopyRsyncSessionService.cs:170`).
- QueryDotnet writes the path it found on one device into the profile that is
  active when it is done (`LaunchProfileEditor.cs:42`), which may name another device. A factory whose
  project has no supported profile keeps the configuration it had.

The properties of the passing runs are stated around these: MirrorOnSuccess leaves
out files that could not be read, ExtensionLaunchesTheBuild is about the deployment
the extension starts itself, CompleteHasAll, PublishedBeforeTouched and the refinement leave out what a
killed publish made doubtful (`Doubtful`), CompleteIsExecutable a failed `chmod`,
CompleteHasNoLeftovers the hidden names a clean passes over, OfflineInstalls is about the offline way without errors of its script,
RootsAreFew counts the times the store was not opened, SignedByTrustedRoot allows the device its own certificate until a setup
in Replace mode, RegisteredKeyWorks leaves `~/.ssh` to its permissions, UploadsWholeFiles leaves out
the payloads of `brokenOff`, BuiltFilesArrive the files of `odd` and the killed rsync,
PathFitsProfile the profiles of `marred`.

KeySetup has six things in it that no sentence of the repository denies, and that
its properties therefore leave room for: `known_hosts` is searched for the text of the host name
(`SecureShellKeySetupService.cs:149`), so a similar name or the key of an earlier system
counts as registered; a scan with exit code 0 that printed nothing counts as added; a public key appended to
a line that is not ended is lost (`SecureShellKeySetupService.cs:352`); `~/.ssh` keeps its permissions,
or gets those of the umask, so that sshd may refuse a key that was registered and every repeated
setup appends it again; `Validate` accepts an empty path of the private key, and
the command then ends with an exception; an ssh.exe that writes without end is never
given up, which the finite `output` leaves out.

## What is proved

`DeltaDeployProofs` begins with RemoteTools and proves, from `VersionAssumption` (versions are
positive numbers), that it keeps its type invariant, ReadyHasOwnBinary and
UsableStaysUsable, and that two things stay as they are for ever: a `version.json` that was cut
off (`TornStaysTornCorrect`) and, in one release, tools without their permission
(`StuckStaysStuck`). ReadyHasOwnBinary is not inductive: a skipped installation
relies on `version.json`. The inductive invariant `ToolsInv` adds: `version.json` never
names a newer release than the shipped one (which is where it needs that releases only grow); when it names the shipped one, the
binary is the shipped one; while an installation is under way `version.json` does not
name the shipped release; from its upload on, the binary is the shipped one.

About the comparison it proves, for any two dictionaries and every `Fold`, that no name
is on both lists (`ComparisonApart`) and that a path with a name of its own is
copied or deleted exactly when it should be, whatever other names clash
(`ComparisonExact`). About DeltaDeploy it proves, from `ContentAssumption` and also for
every `Fold`:

- `TypeCorrect` and `DeletesOnlyGoneFilesCorrect`. The
  invariant `GoneInv` follows a path from the scan (not in the dictionary and
  already scanned: it was gone or unreadable) to the list of deletions.
- `MirrorOnSuccessCorrect`, `OnlyDifferencesTravelCorrect` and
  `ImplementsFolderMirrorCorrect`, which speak of the paths in `OwnName`. `MirrorInv` has a
  part per step: after the hashes, what the device
  has of an untouched file is its hash; during the scan, an entry is a version
  seen since the start; after the comparison, a file in neither list has a version
  that was seen. `Apart` (no name on both lists, of any path) keeps an upload from
  bringing back what was deleted. Of the paths that share a name nothing
  is said: of two names of one fold the device may keep both.
- `FolderMirrorKeepsPromise`: MirrorOnSuccess follows from FolderMirror
  alone, so the abstract specification says no less than the invariant.
- `HashesByOwnToolsCorrect`: a DeltaDeploy behaviour is a RemoteTools behaviour
  (`DeltaDeployHasToolsSpec`), so the theorems of RemoteTools hold in it; with
  `ToolsFollow`, which relates the steps of the two, the hashes a deployment compares with
  come from a complete and executable `checksum` of its own release.

`KeySetupProofs` proves, from `KeySetupAssumption` (the keys, the host keys and the
two "none" values are different, `MaxLines` is positive), that KeySetup keeps its
type invariant, FingerprintIsKnown, RegisteredKeyWorks and AddsOnlyRefusedKeys. FingerprintIsKnown is not
inductive, for the loop never looks at `known_hosts`: it concludes from a prompt for
a password that ssh.exe has stored the host. The invariant `SetupInv` adds
`SshTells` (an ssh.exe that has reached authentication, or has written what follows
it, has the host in `known_hosts`), `HasScanned` (what a scan has to add is the device's
host key or nothing) and `ReadyToRegister` (until the key is appended, its lines are below the bound, which
the type invariant needs). RegisteredKeyWorks speaks of all keys that were ever registered on the system of the device and of
all steps of later setups: `RegisteredStays` says that none of them takes the line, the folder or the
permissions away, also one that breaks off in the middle of its registration, and needs
`NewFileHasNone` (a file that is not there yet holds no registered key) for the setup that creates
the file. AddsOnlyRefusedKeys compares a registration with a trial
two steps earlier; `Refused` says that nothing in between makes the device accept the key.
`FirstHostKeyStaysCorrect` adds that `known_hosts` never gets a second host key of the
device: who writes it has seen it without one, and ssh.exe and the code are not at it
together (`OneAtATime`).

`HttpsSetupProofs` proves, from `HttpsAssumption` (finitely many instances, a
certificate lives no longer than a root), that HttpsSetup keeps its type invariant,
SignedByTrustedRoot, RootsAreFew and CompletedMeansInstalled, for any number of
instances, lives and events. RootsAreFew is about a check followed by an act:
an instance that has found no valid root may create one after others have. Its
invariant counts them too: valid roots and instances about to create one are
together no more than the instances and the times the store could not be opened (`RootsToBe`). An instance comes to that point
only when there is no valid root, and the bound then holds trivially; a
creation turns the one into the other. SignedByTrustedRoot needs that the root
an instance signs with is trusted (`SignsWithTrusted`), that a certificate on its way
to the device was signed by such a root (`HasSigned`), that the device has no other but its own
(`SignedOrOwn`), and of a setup in Replace mode CompletedMeansInstalled. `InstalledEndsWithItsRootCorrect` follows
a certificate from its creation, where the library refuses one that would outlive its
root, to the device (`EndsInv`). The proofs assume, as the model does,
that the developer does not take back the trust.

`DeployServiceProofs` proves, from `DeployServiceAssumption` (the profiles are of
`AnyProfile`, there is a build, a folder contains its own content), all invariants of DeployService and
PublishedBeforeTouched, for any set of profiles with any sequences of files and directories,
any `Inside` and `Seen`, that is, any targets, and any number of builds. What a complete deployment
has is what its steps left, so the invariant `DeployInv` follows each place through them. What the
first n directories have taken is `Overrun(n)`; `Landed` says that what was brought so far
(`Brought`) is there, or is overrun and not there, also between the clean and the upload of the
next directory, where only what that one takes is excepted. `Cleaned` and `NoLeftovers` (`NothingElse(n)`)
say that in the first n targets nothing unwanted is left; a later directory must not bring anything
unwanted back into an earlier one. `Executable` goes from `chmod` to the end through all
directories, `WhichFolder` keeps the loops within their sequences, and `Published` says that publish comes before
every step on the device and that what it published, unless it was killed, is no older than the
deployment. `LaunchDeployed` says that a debugger that the
extension deploys for starts after a complete deployment.

That no step puts an older version in place of what the device has
(`NeverOlderCorrect`) is not a matter of one step: some read the publish folder, some the
build, and the developer builds between them. `VersionInv` bounds every version by the
build (`Bounded`) and says that what the device has of the application before a running deployment has
uploaded it is no newer than the build it began with (`NotReached`). With it DeployService is proved to
implement AppDeployment (`DeployImplementsAppDeployment`), and AppDeployment to imply that a
complete deployment has everything wanted (`AppDeploymentKeepsPromise`).

`DebuggerInstallProofs` proves, from `InstallAssumption`, the type invariant, OneCommand
and OfflineInstalls, for any number of executions, versions and projects.
OfflineInstalls is the end of a chain (`Progress`): what an undisturbed installation has
done at each of its steps, from the version in the cache to the permission.
`LostCommandStaysLost`: a field that is set while no execution runs stays set, so the command
does nothing until Visual Studio restarts (`InstallDebuggerCommand.cs:100`).

`DotnetInstallProofs` proves, from `DotnetAssumption`, the type invariant, UploadsWholeFiles and
CompletedMeansUnpacked, for any number of sessions and payloads. `CacheInv`: half a file
in the cache is being written by somebody or its write broke off, a session that
uploads has something to upload, and nobody writes a payload that another one reads or
writes. `Unpacked`: what a session has unpacked stays whole until another one damages it.

`RsyncDeployProofs` proves, from `RsyncAssumption`, the type invariant, DueLooksOlder,
BuiltFilesArrive and that RsyncDeploy implements FolderMirror, for any number of
files, any times and any skews; from FolderMirror alone follows what a success
promises of all the files that were not kept (`ArrivedUnlessKeptCorrect`). BuiltFilesArrive is about two deployments: a file that was not
read in time must be taken by the next one. DueLooksOlder, defined beside the proofs, is what carries over; `WayInv`
relates the time of a file on its way, of the list and of the last end to the clock, and
`ArrivalInv` says that what -u keeps is there already and what has had its turn has
arrived.

`LaunchProfilesProofs` proves, from `ProfileAssumption`, the type invariant,
WorksWithActiveProfile and PathFitsProfile, for any number of projects, profiles
and commands. A command has configured the factory itself, but others may have done so
since; the invariant says of every project a command still has to work for that its
factory has the active profile (`FactoryIsActive`) and of every profile that was read
that it is still the active one (`ReadIsActive`), unless the project was stirred.

Only model-checked: the liveness properties, which need ENABLED, out of the prover's
reach. No module that is proved about has a recursive operator.

## What is not modelled, and the plan

Not modelled: text output, dialogs, logging, status bar, JSON of the
launch configuration, browser selection, option pages: they keep no state that
another part reads. Contents are compared by identity (SHA256 has no collisions).
A missing exit status that counts as success is modelled in HttpsSetup and
DotnetInstall, where a result hangs on it. HttpsSetup has one
clock: the device's may differ. That the developer takes back the trust in a root is left out:
the device then keeps its certificate, and the code has no part in it.
A downgrade of the extension, or two computers with different releases at one device, is left out of RemoteTools.
In KeySetup an ssh.exe writes a bounded amount.
A `tar` or `rm` on the device that outlives the session that started it is left out of DotnetInstall.
LaunchProfiles leaves out the edits of a profile that are lost inside the one call that
updates it, and the factory of a configured project, which deploy and launch use one
after the other.

The extension and its tools are C#. The JavaScript and TypeScript files of the
repository belong to the sample applications (libraries of the ASP.NET templates,
and the scaffolding of a single-page application, which only starts a
development server); the extension never runs them, and nothing of them is modelled.

In this order:

1. **ConfigQueries** - where each setting comes from (profile, options, default), UnixPath
   and AdditionalDeploymentParser as operators checked against reference definitions.
2. **RemoteTools with several sessions** - two instances of Visual Studio install
   the tools of one device. `version.json` then says nothing of a binary the other
   instance is writing or has left torn: the properties have to name what overlapping
   sessions leave behind.
3. **Publish folder** - a set of assets in place of one version, so that the files
   that `EnsureClean` leaves behind can be told from the new ones.
