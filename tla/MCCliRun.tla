------------------------------- MODULE MCCliRun -------------------------------
(* One process with every combination of flags and diagnostics; or two that   *)
(* are given the same output file.                                            *)
EXTENDS CliRun

CONSTANTS r1, r2

AllJobs ==
  [lint : BOOLEAN, strict : BOOLEAN, quiet : BOOLEAN, stdin : BOOLEAN,
   sidecar : {"none", "good", "bad"}, toFile : BOOLEAN, known : BOOLEAN,
   drafterSays : SUBSET {"warning", "error"},
   converterSays : SUBSET {"warning", "error"}, size : {2}]

SameOutputJobs ==
  [lint : {FALSE}, strict : {FALSE}, quiet : {FALSE}, stdin : {FALSE},
   sidecar : {"none"}, toFile : {TRUE}, known : BOOLEAN,
   drafterSays : {{}}, converterSays : {{}}, size : {1, 2}]

MCWorkloads == [{r1} -> AllJobs] \cup [{r1, r2} -> SameOutputJobs]
=============================================================================
