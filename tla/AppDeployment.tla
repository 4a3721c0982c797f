--------------------------- MODULE AppDeployment ---------------------------
(***************************************************************************)
(* What the deployment of an application promises, whatever its steps are  *)
(* and however it ends. The developer builds versions 1, 2, ...; the       *)
(* device has a version, or nothing (0), of each place of the application. *)
(* A deployment that is being prepared does not touch the device; at its   *)
(* end some places may be in doubt: nothing is promised of what comes      *)
(* there. One that has begun to touch the device only takes things away or *)
(* puts versions there that are no older than the build it began with, nor *)
(* than what they replace. It completes only with everything that was      *)
(* asked for.                                                              *)
(***************************************************************************)
EXTENDS Naturals

CONSTANT Place

VARIABLES
  build,        \* the last version
  device,       \* per place the version on the device, 0 if none
  wanted,       \* the places the application is to have
  phase,        \* "idle", "preparing" or "touching"
  began,        \* the build when the last deployment began
  doubtful,     \* the places the preparation left in doubt
  complete      \* the last deployment went through

appVars == <<build, device, wanted, phase, began, doubtful, complete>>

Init ==
  /\ build = 1
  /\ device = [p \in Place |-> 0]
  /\ wanted \in SUBSET Place
  /\ phase = "idle"
  /\ began = 0
  /\ doubtful = {}
  /\ complete = FALSE

Build ==
  /\ build' = build + 1
  /\ UNCHANGED <<device, wanted, phase, began, doubtful, complete>>

(***************************************************************************)
(* Between two deployments: other things are asked for, the device is      *)
(* cleaned, or the debugger starts without a deployment.                   *)
(***************************************************************************)
Ask ==
  /\ phase = "idle"
  /\ wanted' \in SUBSET Place
  /\ complete' = FALSE
  /\ UNCHANGED <<build, device, phase, began, doubtful>>

Clean ==
  /\ phase = "idle"
  /\ device' = [p \in Place |-> device'[p]]
  /\ \A p \in Place : device'[p] \in {0, device[p]}
  /\ complete' = FALSE
  /\ UNCHANGED <<build, wanted, phase, began, doubtful>>

Forget ==
  /\ phase = "idle"
  /\ began' = 0
  /\ doubtful' = {}
  /\ complete' = FALSE
  /\ UNCHANGED <<build, device, wanted, phase>>

Begin ==
  /\ phase = "idle"
  /\ phase' \in {"preparing", "touching"}
  /\ began' = build
  /\ doubtful' = {}
  /\ complete' = FALSE
  /\ UNCHANGED <<build, device, wanted>>

Prepared ==
  /\ phase = "preparing"
  /\ phase' = "touching"
  /\ doubtful' \in SUBSET Place
  /\ UNCHANGED <<build, device, wanted, began, complete>>

(***************************************************************************)
(* What a deployment may do to the device in one step.                     *)
(***************************************************************************)
Touch ==
  /\ device' = [p \in Place |-> device'[p]]
  /\ \A p \in Place \ doubtful :
       \/ device'[p] \in {device[p], 0}
       \/ device'[p] \in began..build /\ device'[p] >= device[p]

Transfer ==
  /\ phase = "touching"
  /\ Touch
  /\ UNCHANGED <<build, wanted, phase, began, doubtful, complete>>

Complete ==
  /\ phase = "touching"
  /\ Touch
  /\ \A p \in wanted \ doubtful : device'[p] >= began
  /\ phase' = "idle"
  /\ complete' = TRUE
  /\ UNCHANGED <<build, wanted, began, doubtful>>

Fail ==
  /\ \/ phase = "preparing" /\ device' = device
     \/ phase = "touching" /\ Touch
  /\ phase' = "idle"
  /\ UNCHANGED <<build, wanted, began, doubtful, complete>>

Next ==
  \/ Build \/ Ask \/ Clean \/ Forget
  \/ Begin \/ Prepared \/ Transfer \/ Complete \/ Fail

Spec == Init /\ [][Next]_appVars
=============================================================================
