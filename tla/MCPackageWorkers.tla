-------------------------- MODULE MCPackageWorkers --------------------------
(* Two workers, all exit commands, conditions and outcomes.                *)
EXTENDS PackageWorkersProperties

AllCommands == ExitConditions
AllSignals  == {"Exit", "TermExit"}
=============================================================================
