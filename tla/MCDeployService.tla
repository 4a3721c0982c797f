-------------------------- MODULE MCDeployService --------------------------
(***************************************************************************)
(* Folders and launch profiles for TLC. The home directory contains the    *)
(* application's folder, and that a folder "inner", whose name begins with *)
(* ".", to which an additional file and an additional directory go.        *)
(***************************************************************************)
EXTENDS DeployService

Files == {"file"}

Directories == {"inner", "home"}

Contents ==
  [f \in {"app", "inner", "home"} |->
     CASE f = "app" -> {"main", "asset", "file", "inner"}
       [] f = "inner" -> {"file", "inner"}
       [] f = "home" -> {"main", "asset", "file", "inner", "home"}]

Names == [Contents EXCEPT !["app"] = @ \ {"file", "inner"}]

Plain ==
  [transfer |-> "full", clean |-> FALSE, publish |-> "no", deployOnStart |-> FALSE,
   files |-> <<>>, directories |-> <<>>, tilde |-> FALSE]

Profiles ==
  { [Plain EXCEPT !.publish = "framework", !.files = <<"file">>],
    [Plain EXCEPT !.transfer = "delta", !.publish = "self", !.deployOnStart = TRUE,
                  !.files = <<"file">>, !.directories = <<"inner">>],
    [Plain EXCEPT !.clean = TRUE, !.publish = "self", !.directories = <<"inner">>],
    [Plain EXCEPT !.transfer = "delta", !.deployOnStart = TRUE,
                  !.directories = <<"inner", "home">>],
    [Plain EXCEPT !.transfer = "delta", !.clean = TRUE, !.files = <<"file", "missing">>,
                  !.tilde = TRUE],
    [Plain EXCEPT !.directories = <<"missing">>] }

LaunchProfiles == { [Plain EXCEPT !.publish = "framework"] }

DefaultProfiles == { [Plain EXCEPT !.tilde = TRUE] }
=============================================================================
