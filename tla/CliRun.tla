------------------------------- MODULE CliRun -------------------------------
(***************************************************************************)
(* Package cli and main: runs of `apib-to-oas convert` and `lint`, from the *)
(* first read to the exit code.  Runs are separate processes; they share   *)
(* the installed drafter binary (ToolInstall, which DrafterCache implements)*)
(* and may share an output file.  main turns the first SIGINT or SIGTERM    *)
(* into the cancellation of a context that only Parse looks at.             *)
(*                                                                          *)
(* What a document makes drafter and the converter say is part of the job;  *)
(* the operating system and drafter itself may fail at any call.            *)
(***************************************************************************)
EXTENDS Naturals, Sequences

CONSTANTS
  Runs,      \* the processes
  Workloads  \* which of them there are, and what each is asked to do

\* The output file before any run opened it.
OldFile == <<"old">>

\* Severities of annotations, as Annotation.Severity has them.
Severities == {"note", "warning", "error"}

\* The flags of a run, and what its document provokes.
Job == [lint : BOOLEAN, strict : BOOLEAN, quiet : BOOLEAN, stdin : BOOLEAN,
        sidecar : {"none", "good", "bad"}, toFile : BOOLEAN, known : BOOLEAN,
        drafterSays : SUBSET Severities, converterSays : SUBSET Severities,
        size : Nat \ {0}]

ASSUME WorkloadsAssumption == \A w \in Workloads : DOMAIN w \subseteq Runs /\ w \in [DOMAIN w -> Job]

VARIABLES
  job,        \* job[r]: flags and document of run r
  pc,         \* pc[r]: the call run r is about to make
  signalled,  \* signalled[r]: "no", "early" (before drafter started), "late"
  heard,      \* heard[r]: diagnostics run r was told of, by whom and how severe
  shown,      \* shown[r]: those of them it printed on stderr
  code,       \* code[r]: how run r ended
  file,       \* the output file: who wrote each of its parts
  pos,        \* pos[r]: parts run r has written
  opened,     \* opened[r]: run r has truncated the output file
  contended,  \* contended[r]: another run had it open at the same time
  installed, answer   \* the state of ToolInstall

cliVars == <<job, pc, signalled, heard, shown, code>>
outVars == <<file, pos, opened, contended>>
vars == <<cliVars, outVars, installed, answer>>

Main == "main"

Started == DOMAIN job

Tool == INSTANCE ToolInstall WITH Procs <- Runs, Callers <- {Main}

Init ==
  /\ job \in Workloads
  /\ pc = [r \in Runs |-> "read"]
  /\ signalled = [r \in Runs |-> "no"]
  /\ heard = [r \in Runs |-> {}]
  /\ shown = [r \in Runs |-> {}]
  /\ code = [r \in Runs |-> "running"]
  /\ file = OldFile
  /\ pos = [r \in Runs |-> 0]
  /\ opened = [r \in Runs |-> FALSE]
  /\ contended = [r \in Runs |-> FALSE]
  /\ Tool!Init

-----------------------------------------------------------------------------
Goto(r, from, to) ==
  /\ pc[r] = from
  /\ pc' = [pc EXCEPT ![r] = to]
  /\ UNCHANGED code

\* RunE returns, and main exits with ExitCode of the error.
Exit(r, from, with) ==
  /\ pc[r] = from
  /\ pc' = [pc EXCEPT ![r] = "exited"]
  /\ code' = [code EXCEPT ![r] = with]

Quietly == UNCHANGED <<job, signalled, heard, shown, outVars>>
NoTool == UNCHANGED <<installed, answer>>

\* readInput, then (convert only) LoadSecurityConfig.
ReadInput(r) ==
  /\ Goto(r, "read", IF job[r].lint THEN "new" ELSE "security")
  /\ Quietly /\ NoTool

ReadFails(r) == Exit(r, "read", "generic") /\ Quietly /\ NoTool

LoadSecurity(r) ==
  /\ \/ job[r].sidecar # "bad" /\ Goto(r, "security", "new")
     \/ job[r].sidecar = "bad" /\ Exit(r, "security", "generic")
  /\ Quietly /\ NoTool

\* drafter.New.
AskRunner(r) ==
  /\ Goto(r, "new", "answer")
  /\ Tool!Ask(r, Main)
  /\ Quietly

GetRunner(r) ==
  /\ \/ Tool!GivePath(r, Main) /\ Goto(r, "answer", "parse")
     \/ Tool!GiveError(r, Main) /\ Exit(r, "answer", "generic")
  /\ Quietly

\* Slip: exec.Command, which knows no context.
StartDrafterAnyway(r) ==
  /\ Goto(r, "parse", "drafter")
  /\ Tool!Use(r, Main)
  /\ Quietly

\* Runner.Parse: exec.CommandContext starts nothing once ctx is cancelled.
StartDrafter(r) ==
  /\ signalled[r] = "no"
  /\ Goto(r, "parse", "drafter")
  /\ Tool!Use(r, Main)
  /\ Quietly

StartFails(r) == Exit(r, "parse", "parse") /\ Quietly /\ NoTool

StartCancelled(r) == signalled[r] # "no" /\ StartFails(r)

\* What drafter and the converter have to say of the document of r.
Of(who, says) == {who} \X says

DrafterSays(r) == Of("drafter", job[r].drafterSays)
ConverterSays(r) == Of("converter", job[r].converterSays)

Hear(r, said) == heard' = [heard EXCEPT ![r] = @ \cup said]

\* drafter writes its AST and exits with 0, ...
DrafterAnswers(r) ==
  /\ Goto(r, "drafter", "annotations")
  /\ Hear(r, DrafterSays(r))
  /\ UNCHANGED <<job, signalled, shown, outVars>> /\ NoTool

\* ... or reports the errors of the document in its own exit status, and its
\* stderr becomes part of the error main prints, ...
DrafterRejects(r) ==
  /\ "error" \in job[r].drafterSays
  /\ Exit(r, "drafter", "parse")
  /\ Hear(r, DrafterSays(r))
  /\ shown' = [shown EXCEPT ![r] = @ \cup DrafterSays(r)]
  /\ UNCHANGED <<job, signalled, outVars>> /\ NoTool

\* ... or crashes, or is killed when ctx is cancelled.
DrafterDies(r) == Exit(r, "drafter", "parse") /\ Quietly /\ NoTool

\* Slip: the context is looked at only before drafter is started.
DrafterCancelledEarly(r) == signalled[r] = "early" /\ DrafterDies(r)

DrafterCancelled(r) == signalled[r] # "no" /\ DrafterDies(r)

Errors(said) == {d \in said : d[2] = "error"}

\* printAnnotations; lint has no --quiet.
Printed(r, said) == IF job[r].quiet /\ ~job[r].lint THEN Errors(said) ELSE said

Show(r, said) == shown' = [shown EXCEPT ![r] = @ \cup Printed(r, said)]

\* Slip: --strict is left to the converter's diagnostics.
CheckAnnotationsLax(r) ==
  LET says == job[r].drafterSays
      fails == "error" \in says
  IN  /\ Show(r, DrafterSays(r))
      /\ \/ fails /\ Exit(r, "annotations", "parse")
         \/ ~fails /\ job[r].lint /\ Exit(r, "annotations", "ok")
         \/ ~fails /\ ~job[r].lint /\ Goto(r, "annotations", "convert")
      /\ UNCHANGED <<job, signalled, heard, outVars>> /\ NoTool

\* ExtractAnnotations, the checks on its result; lint ends here.
CheckAnnotations(r) ==
  LET says == job[r].drafterSays
      fails == "error" \in says \/ (job[r].strict /\ says # {})
  IN  /\ Show(r, DrafterSays(r))
      /\ \/ fails /\ Exit(r, "annotations", "parse")
         \/ ~fails /\ job[r].lint /\ Exit(r, "annotations", "ok")
         \/ ~fails /\ ~job[r].lint /\ Goto(r, "annotations", "convert")
      /\ UNCHANGED <<job, signalled, heard, outVars>> /\ NoTool

\* RefractToOASWithOptions: its diagnostics are in the buffer it was given, ...
Convert(r) ==
  /\ Goto(r, "convert", "diagnostics")
  /\ Hear(r, ConverterSays(r))
  /\ UNCHANGED <<job, signalled, shown, outVars>> /\ NoTool

\* Slip: an error ends the run before the diagnostics are printed.
CheckDiagnosticsFirst(r) ==
  LET says == job[r].converterSays
  IN  /\ IF "error" \in says THEN UNCHANGED shown ELSE Show(r, ConverterSays(r))
      /\ \/ "error" \in says /\ Exit(r, "diagnostics", "convert")
         \/ "error" \notin says /\ job[r].strict /\ says # {} /\ Exit(r, "diagnostics", "parse")
         \/ "error" \notin says /\ (job[r].strict => says = {}) /\ Goto(r, "diagnostics", "marshal")
      /\ UNCHANGED <<job, signalled, heard, outVars>> /\ NoTool

\* ... and go through the same printing and the same checks as drafter's.
CheckDiagnostics(r) ==
  LET says == job[r].converterSays
  IN  /\ Show(r, ConverterSays(r))
      /\ \/ "error" \in says /\ Exit(r, "diagnostics", "convert")
         \/ "error" \notin says /\ job[r].strict /\ says # {} /\ Exit(r, "diagnostics", "parse")
         \/ "error" \notin says /\ (job[r].strict => says = {}) /\ Goto(r, "diagnostics", "marshal")
      /\ UNCHANGED <<job, signalled, heard, outVars>> /\ NoTool

\* The AST cannot be decoded, which is found before there is any diagnostic.
ConvertFails(r) == Exit(r, "convert", "convert") /\ Quietly /\ NoTool

\* Marshal rejects an unknown --format only here.
Marshal(r) ==
  /\ \/ ~job[r].known /\ Exit(r, "marshal", "convert")
     \/ job[r].known /\ Goto(r, "marshal", IF job[r].toFile THEN "mkdir" ELSE "stdout")
  /\ Quietly /\ NoTool

WriteStdout(r) ==
  /\ \E end \in {"ok", "generic"} : Exit(r, "stdout", end)
  /\ Quietly /\ NoTool

MkdirAll(r) == Goto(r, "mkdir", "open") /\ Quietly /\ NoTool

-----------------------------------------------------------------------------
(* os.WriteFile: the file is truncated, then written in place.              *)

Writing(r) == pc[r] = "write"

OpenTruncate(r) ==
  /\ Goto(r, "open", "write")
  /\ file' = <<>>
  /\ opened' = [opened EXCEPT ![r] = TRUE]
  /\ contended' = [q \in Runs |->
       \/ contended[q]
       \/ q # r /\ Writing(q)
       \/ q = r /\ \E s \in Started \ {r} : Writing(s)]
  /\ UNCHANGED <<job, signalled, heard, shown, pos>> /\ NoTool

\* Part k of the file becomes r's; parts skipped over read as zeros.
Put(r, k) ==
  [i \in 1..(IF Len(file) > k THEN Len(file) ELSE k) |->
     IF i = k THEN r ELSE IF i <= Len(file) THEN file[i] ELSE "hole"]

WritePart(r) ==
  /\ Writing(r)
  /\ file' = Put(r, pos[r] + 1)
  /\ pos' = [pos EXCEPT ![r] = @ + 1]
  /\ \/ pos[r] + 1 < job[r].size /\ Goto(r, "write", "write")
     \/ pos[r] + 1 = job[r].size /\ Exit(r, "write", "ok")
  /\ UNCHANGED <<job, signalled, heard, shown, opened, contended>> /\ NoTool

\* Slip: the error of the write is dropped.
OutputFailsQuietly(r) ==
  /\ \E call \in {"mkdir", "open", "write"} : Exit(r, call, "ok")
  /\ Quietly /\ NoTool

OutputFails(r) ==
  /\ \E call \in {"mkdir", "open", "write"} : Exit(r, call, "generic")
  /\ Quietly /\ NoTool

-----------------------------------------------------------------------------
(* The outside world.                                                       *)

\* SIGINT or SIGTERM: the context is cancelled and nothing else happens.
Signal(r) ==
  /\ code[r] = "running"
  /\ signalled[r] = "no"
  /\ signalled' = [signalled EXCEPT ![r] =
       IF pc[r] \in {"read", "security", "new", "answer", "parse"} THEN "early" ELSE "late"]
  /\ UNCHANGED <<job, pc, heard, shown, code, outVars>> /\ NoTool

Kill(r) == \E at \in {pc[r]} \ {"exited"} : Exit(r, at, "killed") /\ Quietly /\ NoTool

\* Some run has put the binary in place.
Install == ~installed /\ Tool!Install /\ UNCHANGED <<cliVars, outVars>>

AllExited == (\A r \in Started : code[r] # "running") /\ UNCHANGED vars

\* The calls that return by themselves; those that wait for stdin, stdout or
\* drafter need somebody else.
OwnStep(r) ==
  \/ (~job[r].stdin /\ ReadInput(r)) \/ LoadSecurity(r) \/ AskRunner(r) \/ GetRunner(r)
  \/ StartDrafter(r) \/ StartCancelled(r) \/ DrafterCancelled(r)
  \/ CheckAnnotations(r) \/ Convert(r) \/ CheckDiagnostics(r) \/ Marshal(r)
  \/ MkdirAll(r) \/ OpenTruncate(r) \/ WritePart(r)

OthersStep(r) ==
  \/ (job[r].stdin /\ ReadInput(r)) \/ DrafterAnswers(r) \/ DrafterRejects(r)
  \/ WriteStdout(r)

Failure(r) ==
  ReadFails(r) \/ StartFails(r) \/ DrafterDies(r) \/ ConvertFails(r) \/ OutputFails(r) \/ Kill(r)

Next ==
  \/ \E r \in Started : OwnStep(r) \/ OthersStep(r) \/ Failure(r) \/ Signal(r)
  \/ Install
  \/ AllExited

Spec == Init /\ [][Next]_vars

\* A process runs on as long as it waits for nobody.  Neither the end of the
\* input, nor an answer of drafter, nor a reader of stdout is promised.
FairSpec == Spec /\ \A r \in Runs : WF_vars(r \in Started /\ OwnStep(r))

-----------------------------------------------------------------------------
(* Properties.                                                               *)

Whole(r) == [k \in 1..job[r].size |-> r]

\* Exit status 0 is given only to a document without errors and, with
\* --strict, without a diagnostic of drafter or of the converter; lint judges
\* the former only.
OkMeansAccepted ==
  \A r \in Started : code[r] = "ok" =>
    LET all == job[r].drafterSays \cup (IF job[r].lint THEN {} ELSE job[r].converterSays)
    IN  /\ "error" \notin all
        /\ job[r].strict => all = {}

\* A run that ends by itself has printed every error it was told of, drafter's
\* ("errors always shown") and the converter's ("errors always print"),
\* whatever its flags and its exit status; only --quiet leaves out anything
\* else; and one that ends with 0 was told all there is to tell.
ErrorsShown ==
  \A r \in Started : code[r] \notin {"running", "killed"} =>
    /\ Errors(heard[r]) \subseteq shown[r]
    /\ shown[r] # heard[r] => job[r].quiet /\ ~job[r].lint
    /\ code[r] = "ok" =>
         heard[r] = DrafterSays(r) \cup (IF job[r].lint THEN {} ELSE ConverterSays(r))

\* A signal that arrives before drafter is started is never lost: the run
\* does not end well and touches no output.
EarlySignalStops ==
  \A r \in Started : signalled[r] = "early" => code[r] # "ok" /\ ~opened[r]

\* When nobody is writing, the output file is the old one, or the whole
\* output of one run that succeeded, unless a run failed or was killed while
\* writing it or two runs had it open at the same time.
OutputAccountedFor ==
  (\A r \in Started : ~Writing(r)) =>
    \/ file = OldFile
    \/ \E r \in Started : code[r] = "ok" /\ file = Whole(r)
    \/ \E r \in Started : opened[r] /\ (code[r] # "ok" \/ contended[r])

\* A run that was signalled ends, or is waiting for its input or for the
\* reader of its output, even if drafter hangs.
WaitsForInput(r) == r \in Started /\ pc[r] = "read" /\ job[r].stdin

SignalFreesRun ==
  \A r \in Runs :
    r \in Started /\ signalled[r] # "no" ~>
      code[r] # "running" \/ pc[r] = "stdout" \/ WaitsForInput(r)
=============================================================================
