----------------------------- MODULE MCDeployment -----------------------------
(***************************************************************************)
(* Three ways to run the script: all of it, all of it but the launch with  *)
(* the token already there, and dry.                                       *)
(***************************************************************************)
EXTENDS Deployment, TLC

Skip(b) == [skip |-> b]
Config(dryRun, launch, render, seed) ==
  [dryRun |-> dryRun, program |-> Skip(FALSE), launch |-> Skip(~launch), existing |-> ~launch,
   config |-> Skip(FALSE), render |-> [skip |-> ~render, triggerDeploy |-> TRUE],
   seedApps |-> Skip(~seed)]

MCConfigs == {Config(FALSE, TRUE, TRUE, FALSE), Config(FALSE, FALSE, TRUE, TRUE), Config(TRUE, TRUE, TRUE, TRUE)}
MCTagsOf == <<2, 0>>
================================================================================
