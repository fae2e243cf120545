---------------------------- MODULE CliRunProofs ----------------------------
(***************************************************************************)
(* For any number of runs, whatever they are asked to do: exit status 0    *)
(* means what it says, no error is hidden, an early signal is obeyed, and  *)
(* the output file can always be accounted for.                            *)
(***************************************************************************)
EXTENDS CliRun, SequenceTheorems, TLAPS

USE WorkloadsAssumption

BeforeDrafter == {"read", "security", "new", "answer", "parse"}
Calls ==
  BeforeDrafter \cup {"drafter", "annotations", "convert", "diagnostics",
                      "marshal", "stdout", "mkdir", "open", "write", "exited"}
Codes == {"running", "ok", "generic", "parse", "convert", "killed"}

\* What a run can be told.
Said == {"drafter", "converter"} \X Severities

TypeOK ==
  /\ job \in Workloads
  /\ pc \in [Runs -> Calls]
  /\ signalled \in [Runs -> {"no", "early", "late"}]
  /\ heard \in [Runs -> SUBSET Said]
  /\ shown \in [Runs -> SUBSET Said]
  /\ code \in [Runs -> Codes]
  /\ file \in Seq(Runs \cup {"old", "hole"})
  /\ pos \in [Runs -> Nat]
  /\ opened \in [Runs -> BOOLEAN]
  /\ contended \in [Runs -> BOOLEAN]

\* Where a run is and what it has said and heard so far.
ExitedOnce(r) == pc[r] = "exited" <=> code[r] # "running"

DrafterContent(r) ==
  /\ ~job[r].lint
  /\ "error" \notin job[r].drafterSays
  /\ job[r].strict => job[r].drafterSays = {}

BothContent(r) ==
  /\ DrafterContent(r)
  /\ "error" \notin job[r].converterSays
  /\ job[r].strict => job[r].converterSays = {}

BothSay(r) == DrafterSays(r) \cup ConverterSays(r)

\* What a run has been told and has printed at each call, and what it must have
\* found to get there.
ToldSoFar(r) ==
  /\ pc[r] \in BeforeDrafter \cup {"drafter"} => heard[r] = {} /\ shown[r] = {}
  /\ pc[r] = "annotations" => heard[r] = DrafterSays(r) /\ shown[r] = {}
  /\ pc[r] \in {"convert", "diagnostics"} =>
       DrafterContent(r) /\ shown[r] = Printed(r, DrafterSays(r))
  /\ pc[r] = "convert" => heard[r] = DrafterSays(r)
  /\ pc[r] = "diagnostics" => heard[r] = BothSay(r)
  /\ pc[r] \in {"marshal", "stdout", "mkdir", "open", "write"} =>
       BothContent(r) /\ heard[r] = BothSay(r) /\ shown[r] = Printed(r, BothSay(r))

\* A run that ended by itself has printed what it was told, or what --quiet
\* leaves of it.
ToldInTheEnd(r) ==
  code[r] \notin {"running", "killed"} => shown[r] \in {heard[r], Printed(r, heard[r])}

OkAccepted(r) ==
  code[r] = "ok" =>
    LET all == job[r].drafterSays \cup (IF job[r].lint THEN {} ELSE job[r].converterSays)
    IN  /\ "error" \notin all
        /\ job[r].strict => all = {}
        /\ heard[r] = IF job[r].lint THEN DrafterSays(r) ELSE BothSay(r)

\* An early signal lets nothing past the start of drafter.
EarlyStops(r) ==
  /\ opened[r] => pc[r] \in {"write", "exited"}
  /\ signalled[r] = "early" =>
       ~opened[r] /\ (pc[r] \in BeforeDrafter \/ (pc[r] = "exited" /\ code[r] # "ok"))

\* How far a run has written.
Position(r) ==
  /\ ~opened[r] => pos[r] = 0
  /\ Writing(r) => opened[r] /\ pos[r] < job[r].size

Local(r) ==
  /\ ExitedOnce(r)
  /\ ToldSoFar(r)
  /\ ToldInTheEnd(r)
  /\ OkAccepted(r)
  /\ EarlyStops(r)
  /\ Position(r)

\* Runs that write at the same time know of it, ...
WritersContend ==
  \A r, s \in Started : r # s /\ Writing(r) /\ Writing(s) => contended[r]

\* ... and one that does not has the file to itself.
OwnFile ==
  \A r \in Started : Writing(r) /\ ~contended[r] => file = [k \in 1..pos[r] |-> r]

IInv ==
  /\ TypeOK
  /\ \A r \in Started : Local(r)
  /\ WritersContend
  /\ OwnFile
  /\ OutputAccountedFor

-----------------------------------------------------------------------------
(* A step of a run and the other runs.                                       *)

LEMMA StartedRuns ==
  ASSUME TypeOK, NEW r \in Started
  PROVE  r \in Runs /\ job[r] \in Job
BY DEF TypeOK, Started

\* A step of run r moves nothing of another run but `contended`.
Elsewhere(r) ==
  /\ job' = job
  /\ \A q \in Started \ {r} :
       /\ pc'[q] = pc[q]
       /\ code'[q] = code[q]
       /\ signalled'[q] = signalled[q]
       /\ shown'[q] = shown[q]
       /\ heard'[q] = heard[q]
       /\ pos'[q] = pos[q]
       /\ opened'[q] = opened[q]

\* A step of run r that leaves the output alone does not begin to write it,
\* does not end writing it well, and changes no verdict.
OutputQuiet(r) ==
  /\ UNCHANGED outVars
  /\ Writing(r)' => Writing(r)
  /\ Writing(r) /\ ~Writing(r)' => code'[r] # "ok"
  /\ pc[r] = "exited" => code'[r] = code[r]

Good(r) == TypeOK' /\ Elsewhere(r) /\ Local(r)'

\* What is known of a run stays known when another one moves.
LEMMA LocalElsewhere ==
  ASSUME NEW r \in Started, Elsewhere(r), NEW q \in Started \ {r}, Local(q)
  PROVE  Local(q)'
BY DEF Elsewhere, Local, ExitedOnce, ToldSoFar, DrafterContent,
       BothContent, DrafterSays, ConverterSays, BothSay,
             ToldInTheEnd, OkAccepted, EarlyStops, Position, Printed, Writing

\* A step that leaves the output alone keeps what is known of the output.
LEMMA OutputKept ==
  ASSUME NEW r \in Started, IInv, Elsewhere(r), OutputQuiet(r)
  PROVE  WritersContend' /\ OwnFile' /\ OutputAccountedFor'
<1>1. Started' = Started /\ job' = job BY DEF Elsewhere, Started
<1>2. \A q \in Started : Writing(q)' => Writing(q)
  BY DEF Elsewhere, OutputQuiet, Writing
<1>3. file' = file /\ pos' = pos /\ opened' = opened /\ contended' = contended
  BY DEF OutputQuiet, outVars
<1>4. WritersContend'
  BY <1>1, <1>2, <1>3 DEF IInv, WritersContend
<1>5. OwnFile'
  BY <1>1, <1>2, <1>3 DEF IInv, OwnFile
<1>6. OutputAccountedFor'
  <2> SUFFICES ASSUME \A q \in Started : ~Writing(q)'
               PROVE  \/ file = OldFile
                      \/ \E q \in Started : code'[q] = "ok" /\ file = Whole(q)
                      \/ \E q \in Started : opened[q] /\ (code'[q] # "ok" \/ contended[q])
    BY <1>1, <1>3 DEF OutputAccountedFor, Whole, OldFile
  <2>1. CASE Writing(r)
    BY <2>1 DEF OutputQuiet, IInv, Local, Position
  <2>2. CASE ~Writing(r)
    <3>1. \A q \in Started : ~Writing(q) BY <2>2 DEF Elsewhere, Writing
    <3>2. \A q \in Started : q # r => code'[q] = code[q] BY DEF Elsewhere
    <3>3. code[r] = "ok" => code'[r] = "ok"
      BY DEF OutputQuiet, IInv, Local, ExitedOnce
    <3>4. opened[r] => code'[r] = code[r]
      BY <2>2 DEF OutputQuiet, IInv, Local, EarlyStops, Writing
    <3> QED BY <3>1, <3>2, <3>3, <3>4 DEF IInv, OutputAccountedFor
  <2> QED BY <2>1, <2>2
<1> QED BY <1>4, <1>5, <1>6

-----------------------------------------------------------------------------
(* The calls that leave the output file alone.                                *)

\* Where a run may go, and how it may end.
LEMMA GotoType ==
  ASSUME TypeOK, NEW r \in Runs, NEW from, NEW to \in Calls, Goto(r, from, to)
  PROVE  pc' \in [Runs -> Calls] /\ code' \in [Runs -> Codes]
BY DEF TypeOK, Goto

LEMMA ExitType ==
  ASSUME TypeOK, NEW r \in Runs, NEW from, NEW with \in Codes, Exit(r, from, with)
  PROVE  pc' \in [Runs -> Calls] /\ code' \in [Runs -> Codes]
BY DEF TypeOK, Exit, Calls

\* What is said is a set of diagnostics, and what is printed of it is part of it.
LEMMA SaysType ==
  ASSUME TypeOK, NEW r \in Started
  PROVE  DrafterSays(r) \subseteq Said /\ ConverterSays(r) \subseteq Said
<1>1. job[r] \in Job BY StartedRuns
<1> QED BY <1>1 DEF DrafterSays, ConverterSays, Of, Said, Job

LEMMA PrintedType ==
  ASSUME NEW r, NEW said
  PROVE  Printed(r, said) \subseteq said /\ Errors(said) \subseteq Printed(r, said)
BY DEF Printed, Errors

\* Diagnostics printed in two goes are those printed in one.
LEMMA PrintedBoth ==
  ASSUME NEW r
  PROVE  Printed(r, BothSay(r)) = Printed(r, DrafterSays(r)) \cup Printed(r, ConverterSays(r))
<1>1. ASSUME NEW a, NEW b PROVE Errors(a \cup b) = Errors(a) \cup Errors(b)
  BY DEF Errors
<1> HIDE DEF Errors
<1> QED BY <1>1 DEF Printed, BothSay

\* The calls before drafter runs: nothing is known of the document yet.
LEMMA EarlyCalls ==
  ASSUME NEW r \in Started, TypeOK, Local(r),
         ReadInput(r) \/ LoadSecurity(r) \/ AskRunner(r) \/ GetRunner(r) \/ StartDrafter(r)
  PROVE  Good(r) /\ OutputQuiet(r)
<1>0. r \in Runs /\ job[r] \in Job BY StartedRuns
<1> USE <1>0 DEF TypeOK, Calls, Codes, BeforeDrafter, Elsewhere, OutputQuiet, Started,
             Quietly, NoTool, outVars, cliVars, Writing,
             Local, ExitedOnce, ToldSoFar, DrafterContent,
             BothContent, DrafterSays, ConverterSays, BothSay,
             ToldInTheEnd, OkAccepted, EarlyStops, Position
<1>1. CASE ReadInput(r)
  <2>1. TypeOK'
    <3>1. pc' \in [Runs -> Calls] /\ code' \in [Runs -> Codes]
      BY <1>1, GotoType, ExitType DEF ReadInput
    <3> QED BY <1>1, <3>1 DEF ReadInput
  <2>2. Elsewhere(r) /\ OutputQuiet(r)
    BY <1>1 DEF ReadInput, Goto, Exit
  <2>3. Local(r)'
    BY <1>1 DEF ReadInput, Goto, Exit, Job, Printed
  <2> QED BY <2>1, <2>2, <2>3 DEF Good
<1>2. CASE LoadSecurity(r)
  <2>1. TypeOK'
    <3>1. pc' \in [Runs -> Calls] /\ code' \in [Runs -> Codes]
      BY <1>2, GotoType, ExitType DEF LoadSecurity
    <3> QED BY <1>2, <3>1 DEF LoadSecurity
  <2>2. Elsewhere(r) /\ OutputQuiet(r)
    BY <1>2 DEF LoadSecurity, Goto, Exit
  <2>3. Local(r)'
    <3>1. ExitedOnce(r)' /\ EarlyStops(r)' /\ Position(r)'
      BY <1>2 DEF LoadSecurity, Goto, Exit, Job, Printed
    <3>2. ToldSoFar(r)'
      BY <1>2 DEF LoadSecurity, Goto, Exit, Job, Printed
    <3>3. ToldInTheEnd(r)'
      BY <1>2 DEF LoadSecurity, Goto, Exit, Job, Printed
    <3>4. OkAccepted(r)'
      BY <1>2 DEF LoadSecurity, Goto, Exit, Job, Printed
    <3> QED BY <3>1, <3>2, <3>3, <3>4
  <2> QED BY <2>1, <2>2, <2>3 DEF Good
<1>3. CASE AskRunner(r)
  <2>1. TypeOK'
    <3>1. pc' \in [Runs -> Calls] /\ code' \in [Runs -> Codes]
      BY <1>3, GotoType, ExitType DEF AskRunner
    <3> QED BY <1>3, <3>1 DEF AskRunner
  <2>2. Elsewhere(r) /\ OutputQuiet(r)
    BY <1>3 DEF AskRunner, Goto, Exit
  <2>3. Local(r)'
    BY <1>3 DEF AskRunner, Goto, Exit, Job, Printed
  <2> QED BY <2>1, <2>2, <2>3 DEF Good
<1>4. CASE GetRunner(r)
  <2>1. TypeOK'
    <3>1. pc' \in [Runs -> Calls] /\ code' \in [Runs -> Codes]
      BY <1>4, GotoType, ExitType DEF GetRunner
    <3> QED BY <1>4, <3>1 DEF GetRunner
  <2>2. Elsewhere(r) /\ OutputQuiet(r)
    BY <1>4 DEF GetRunner, Goto, Exit
  <2>3. Local(r)'
    <3>1. ExitedOnce(r)' /\ EarlyStops(r)' /\ Position(r)'
      BY <1>4 DEF GetRunner, Goto, Exit, Job, Printed
    <3>2. ToldSoFar(r)'
      BY <1>4 DEF GetRunner, Goto, Exit, Job, Printed
    <3>3. ToldInTheEnd(r)'
      BY <1>4 DEF GetRunner, Goto, Exit, Job, Printed
    <3>4. OkAccepted(r)'
      BY <1>4 DEF GetRunner, Goto, Exit, Job, Printed
    <3> QED BY <3>1, <3>2, <3>3, <3>4
  <2> QED BY <2>1, <2>2, <2>3 DEF Good
<1>5. CASE StartDrafter(r)
  <2>1. TypeOK'
    <3>1. pc' \in [Runs -> Calls] /\ code' \in [Runs -> Codes]
      BY <1>5, GotoType, ExitType DEF StartDrafter
    <3> QED BY <1>5, <3>1 DEF StartDrafter
  <2>2. Elsewhere(r) /\ OutputQuiet(r)
    BY <1>5 DEF StartDrafter, Goto, Exit
  <2>3. Local(r)'
    BY <1>5 DEF StartDrafter, Goto, Exit, Job, Printed
  <2> QED BY <2>1, <2>2, <2>3 DEF Good
<1> QED BY <1>1, <1>2, <1>3, <1>4, <1>5 DEF Good

\* From drafter's answer to the text of the document.
LEMMA DrafterCalls ==
  ASSUME NEW r \in Started, TypeOK, Local(r),
         \/ DrafterAnswers(r) \/ DrafterRejects(r) \/ CheckAnnotations(r)
         \/ Convert(r) \/ CheckDiagnostics(r) \/ Marshal(r)
  PROVE  Good(r) /\ OutputQuiet(r)
<1>0. r \in Runs /\ job[r] \in Job BY StartedRuns
<1> USE <1>0 DEF TypeOK, Calls, Codes, BeforeDrafter, Elsewhere, OutputQuiet, Started,
             Quietly, NoTool, outVars, cliVars, Writing,
             Local, ExitedOnce, ToldSoFar, DrafterContent,
             BothContent, DrafterSays, ConverterSays, BothSay,
             ToldInTheEnd, OkAccepted, EarlyStops, Position
<1>1. CASE DrafterAnswers(r)
  <2>1. TypeOK'
    <3>1. pc' \in [Runs -> Calls] /\ code' \in [Runs -> Codes]
      BY <1>1, GotoType, ExitType DEF DrafterAnswers
    <3>2. DrafterSays(r) \in SUBSET Said /\ ConverterSays(r) \in SUBSET Said
      BY SaysType
    <3> QED BY <1>1, <3>1, <3>2 DEF DrafterAnswers, Hear
  <2>2. Elsewhere(r) /\ OutputQuiet(r)
    BY <1>1 DEF DrafterAnswers, Goto, Exit, Hear
  <2>3. Local(r)'
    BY <1>1 DEF DrafterAnswers, Goto, Exit, Hear, Printed, Job
  <2> QED BY <2>1, <2>2, <2>3 DEF Good
<1>2. CASE DrafterRejects(r)
  <2>1. TypeOK'
    <3>1. pc' \in [Runs -> Calls] /\ code' \in [Runs -> Codes]
      BY <1>2, GotoType, ExitType DEF DrafterRejects
    <3>2. DrafterSays(r) \in SUBSET Said /\ ConverterSays(r) \in SUBSET Said
      BY SaysType
    <3> QED BY <1>2, <3>1, <3>2 DEF DrafterRejects, Hear
  <2>2. Elsewhere(r) /\ OutputQuiet(r)
    BY <1>2 DEF DrafterRejects, Goto, Exit, Hear
  <2>3. Local(r)'
    BY <1>2 DEF DrafterRejects, Goto, Exit, Hear, Printed, Job
  <2> QED BY <2>1, <2>2, <2>3 DEF Good
<1>3. CASE CheckAnnotations(r)
  <2>1. TypeOK'
    <3>1. pc' \in [Runs -> Calls] /\ code' \in [Runs -> Codes]
      BY <1>3, GotoType, ExitType DEF CheckAnnotations
    <3>2. DrafterSays(r) \in SUBSET Said /\ ConverterSays(r) \in SUBSET Said
      BY SaysType
    <3>3. /\ Printed(r, DrafterSays(r)) \in SUBSET Said
          /\ Printed(r, ConverterSays(r)) \in SUBSET Said
      BY <3>2, PrintedType
    <3> QED BY <1>3, <3>1, <3>2, <3>3 DEF CheckAnnotations, Show
  <2>2. Elsewhere(r) /\ OutputQuiet(r)
    BY <1>3 DEF CheckAnnotations, Goto, Exit, Show
  <2>3. Local(r)'
    BY <1>3 DEF CheckAnnotations, Goto, Exit, Show, Printed, Job
  <2> QED BY <2>1, <2>2, <2>3 DEF Good
<1>4. CASE Convert(r)
  <2>1. TypeOK'
    <3>1. pc' \in [Runs -> Calls] /\ code' \in [Runs -> Codes]
      BY <1>4, GotoType, ExitType DEF Convert
    <3>2. DrafterSays(r) \in SUBSET Said /\ ConverterSays(r) \in SUBSET Said
      BY SaysType
    <3> QED BY <1>4, <3>1, <3>2 DEF Convert, Hear
  <2>2. Elsewhere(r) /\ OutputQuiet(r)
    BY <1>4 DEF Convert, Goto, Exit, Hear
  <2>3. Local(r)'
    BY <1>4 DEF Convert, Goto, Exit, Hear, Printed, Job
  <2> QED BY <2>1, <2>2, <2>3 DEF Good
<1>5. CASE CheckDiagnostics(r)
  <2>1. TypeOK'
    <3>1. pc' \in [Runs -> Calls] /\ code' \in [Runs -> Codes]
      BY <1>5, GotoType, ExitType DEF CheckDiagnostics
    <3>2. DrafterSays(r) \in SUBSET Said /\ ConverterSays(r) \in SUBSET Said
      BY SaysType
    <3>3. /\ Printed(r, DrafterSays(r)) \in SUBSET Said
          /\ Printed(r, ConverterSays(r)) \in SUBSET Said
      BY <3>2, PrintedType
    <3> QED BY <1>5, <3>1, <3>2, <3>3 DEF CheckDiagnostics, Show
  <2>2. Elsewhere(r) /\ OutputQuiet(r)
    BY <1>5 DEF CheckDiagnostics, Goto, Exit, Show
  <2>3. Local(r)'
    <3>1. ExitedOnce(r)' /\ EarlyStops(r)' /\ Position(r)'
      BY <1>5 DEF CheckDiagnostics, Goto, Exit, Show, Printed, Job
    <3>2. ToldSoFar(r)'
      <4>1. job' = job /\ heard'[r] = BothSay(r) /\ pc'[r] \in {"marshal", "exited"}
        BY <1>5 DEF CheckDiagnostics, Goto, Exit
      <4>2. shown'[r] = Printed(r, BothSay(r))
        BY <1>5, PrintedBoth DEF CheckDiagnostics, Goto, Exit, Show
      <4>3. pc'[r] = "marshal" => BothContent(r)
        BY <1>5 DEF CheckDiagnostics, Goto, Exit
      <4> QED BY <4>1, <4>2, <4>3 DEF Printed
    <3>3. ToldInTheEnd(r)'
      BY <1>5, PrintedBoth DEF CheckDiagnostics, Goto, Exit, Show, Printed, Job
    <3>4. OkAccepted(r)'
      BY <1>5 DEF CheckDiagnostics, Goto, Exit, Show, Printed, Job
    <3> QED BY <3>1, <3>2, <3>3, <3>4
  <2> QED BY <2>1, <2>2, <2>3 DEF Good
<1>6. CASE Marshal(r)
  <2>1. TypeOK'
    <3>1. pc' \in [Runs -> Calls] /\ code' \in [Runs -> Codes]
      BY <1>6, GotoType, ExitType DEF Marshal
    <3> QED BY <1>6, <3>1 DEF Marshal
  <2>2. Elsewhere(r) /\ OutputQuiet(r)
    BY <1>6 DEF Marshal, Goto, Exit
  <2>3. Local(r)'
    <3>1. ExitedOnce(r)' /\ EarlyStops(r)' /\ Position(r)'
      BY <1>6 DEF Marshal, Goto, Exit, Printed, Job
    <3>2. ToldSoFar(r)'
      BY <1>6 DEF Marshal, Goto, Exit, Printed, Job
    <3>3. ToldInTheEnd(r)'
      BY <1>6 DEF Marshal, Goto, Exit, Printed, Job
    <3>4. OkAccepted(r)'
      BY <1>6 DEF Marshal, Goto, Exit, Printed, Job
    <3> QED BY <3>1, <3>2, <3>3, <3>4
  <2> QED BY <2>1, <2>2, <2>3 DEF Good
<1> QED BY <1>1, <1>2, <1>3, <1>4, <1>5, <1>6 DEF Good

\* Output other than to a file, and signals.
LEMMA WaitingCalls ==
  ASSUME NEW r \in Started, TypeOK, Local(r),
         WriteStdout(r) \/ MkdirAll(r) \/ Signal(r)
  PROVE  Good(r) /\ OutputQuiet(r)
<1>0. r \in Runs /\ job[r] \in Job BY StartedRuns
<1> USE <1>0 DEF TypeOK, Calls, Codes, BeforeDrafter, Elsewhere, OutputQuiet, Started,
             Quietly, NoTool, outVars, cliVars, Writing,
             Local, ExitedOnce, ToldSoFar, DrafterContent,
             BothContent, DrafterSays, ConverterSays, BothSay,
             ToldInTheEnd, OkAccepted, EarlyStops, Position
<1>1. CASE WriteStdout(r)
  <2>1. TypeOK'
    <3>1. pc' \in [Runs -> Calls] /\ code' \in [Runs -> Codes]
      BY <1>1, GotoType, ExitType DEF WriteStdout
    <3> QED BY <1>1, <3>1 DEF WriteStdout
  <2>2. Elsewhere(r) /\ OutputQuiet(r)
    BY <1>1 DEF WriteStdout, Goto, Exit
  <2>3. Local(r)'
    <3>1. ExitedOnce(r)' /\ EarlyStops(r)' /\ Position(r)'
      BY <1>1 DEF WriteStdout, Goto, Exit, Job, Printed
    <3>2. ToldSoFar(r)'
      BY <1>1 DEF WriteStdout, Goto, Exit, Job, Printed
    <3>3. ToldInTheEnd(r)'
      BY <1>1 DEF WriteStdout, Goto, Exit, Job, Printed
    <3>4. OkAccepted(r)'
      BY <1>1 DEF WriteStdout, Goto, Exit, Job, Printed
    <3> QED BY <3>1, <3>2, <3>3, <3>4
  <2> QED BY <2>1, <2>2, <2>3 DEF Good
<1>2. CASE MkdirAll(r)
  <2>1. TypeOK'
    <3>1. pc' \in [Runs -> Calls] /\ code' \in [Runs -> Codes]
      BY <1>2, GotoType, ExitType DEF MkdirAll
    <3> QED BY <1>2, <3>1 DEF MkdirAll
  <2>2. Elsewhere(r) /\ OutputQuiet(r)
    BY <1>2 DEF MkdirAll, Goto, Exit
  <2>3. Local(r)'
    BY <1>2 DEF MkdirAll, Goto, Exit, Job, Printed
  <2> QED BY <2>1, <2>2, <2>3 DEF Good
<1>3. CASE Signal(r)
  <2>1. TypeOK'
    <3>1. pc' \in [Runs -> Calls] /\ code' \in [Runs -> Codes]
      BY <1>3, GotoType, ExitType DEF Signal
    <3> QED BY <1>3, <3>1 DEF Signal
  <2>2. Elsewhere(r) /\ OutputQuiet(r)
    BY <1>3 DEF Signal, Goto, Exit
  <2>3. Local(r)'
    BY <1>3 DEF Signal, Goto, Exit, Job, Printed
  <2> QED BY <2>1, <2>2, <2>3 DEF Good
<1> QED BY <1>1, <1>2, <1>3 DEF Good

\* A failure ends the run with another status than 0.
LEMMA Failures ==
  ASSUME NEW r \in Started, TypeOK, Local(r),
         ReadFails(r) \/ StartFails(r) \/ DrafterDies(r) \/ ConvertFails(r) \/ OutputFails(r) \/ Kill(r)
  PROVE  Good(r) /\ OutputQuiet(r)
<1>0. r \in Runs /\ job[r] \in Job BY StartedRuns
<1> USE <1>0 DEF TypeOK, Calls, Codes, BeforeDrafter, Elsewhere, OutputQuiet, Started,
             Quietly, NoTool, outVars, cliVars, Writing,
             Local, ExitedOnce, ToldSoFar, DrafterContent,
             BothContent, DrafterSays, ConverterSays, BothSay,
             ToldInTheEnd, OkAccepted, EarlyStops, Position
<1>1. CASE ReadFails(r)
  <2>1. TypeOK'
    <3>1. pc' \in [Runs -> Calls] /\ code' \in [Runs -> Codes]
      BY <1>1, GotoType, ExitType DEF ReadFails
    <3> QED BY <1>1, <3>1 DEF ReadFails
  <2>2. Elsewhere(r) /\ OutputQuiet(r)
    BY <1>1 DEF ReadFails, Goto, Exit
  <2>3. Local(r)'
    BY <1>1 DEF ReadFails, Goto, Exit, Job, Printed
  <2> QED BY <2>1, <2>2, <2>3 DEF Good
<1>2. CASE StartFails(r)
  <2>1. TypeOK'
    <3>1. pc' \in [Runs -> Calls] /\ code' \in [Runs -> Codes]
      BY <1>2, GotoType, ExitType DEF StartFails
    <3> QED BY <1>2, <3>1 DEF StartFails
  <2>2. Elsewhere(r) /\ OutputQuiet(r)
    BY <1>2 DEF StartFails, Goto, Exit
  <2>3. Local(r)'
    BY <1>2 DEF StartFails, Goto, Exit, Job, Printed
  <2> QED BY <2>1, <2>2, <2>3 DEF Good
<1>3. CASE DrafterDies(r)
  <2>1. TypeOK'
    <3>1. pc' \in [Runs -> Calls] /\ code' \in [Runs -> Codes]
      BY <1>3, GotoType, ExitType DEF DrafterDies
    <3> QED BY <1>3, <3>1 DEF DrafterDies
  <2>2. Elsewhere(r) /\ OutputQuiet(r)
    BY <1>3 DEF DrafterDies, Goto, Exit
  <2>3. Local(r)'
    BY <1>3 DEF DrafterDies, Goto, Exit, Job, Printed
  <2> QED BY <2>1, <2>2, <2>3 DEF Good
<1>4. CASE ConvertFails(r)
  <2>1. TypeOK'
    <3>1. pc' \in [Runs -> Calls] /\ code' \in [Runs -> Codes]
      BY <1>4, GotoType, ExitType DEF ConvertFails
    <3> QED BY <1>4, <3>1 DEF ConvertFails
  <2>2. Elsewhere(r) /\ OutputQuiet(r)
    BY <1>4 DEF ConvertFails, Goto, Exit
  <2>3. Local(r)'
    BY <1>4 DEF ConvertFails, Goto, Exit, Job, Printed
  <2> QED BY <2>1, <2>2, <2>3 DEF Good
<1>5. CASE OutputFails(r)
  <2>1. TypeOK'
    <3>1. pc' \in [Runs -> Calls] /\ code' \in [Runs -> Codes]
      BY <1>5, GotoType, ExitType DEF OutputFails
    <3> QED BY <1>5, <3>1 DEF OutputFails
  <2>2. Elsewhere(r) /\ OutputQuiet(r)
    BY <1>5 DEF OutputFails, Goto, Exit
  <2>3. Local(r)'
    <3>1. ExitedOnce(r)' /\ EarlyStops(r)' /\ Position(r)'
      BY <1>5 DEF OutputFails, Goto, Exit, Job, Printed
    <3>2. ToldSoFar(r)'
      BY <1>5 DEF OutputFails, Goto, Exit, Job, Printed
    <3>3. ToldInTheEnd(r)'
      BY <1>5 DEF OutputFails, Goto, Exit, Job, Printed
    <3>4. OkAccepted(r)'
      BY <1>5 DEF OutputFails, Goto, Exit, Job, Printed
    <3> QED BY <3>1, <3>2, <3>3, <3>4
  <2> QED BY <2>1, <2>2, <2>3 DEF Good
<1>6. CASE Kill(r)
  <2>1. TypeOK'
    <3>1. pc' \in [Runs -> Calls] /\ code' \in [Runs -> Codes]
      BY <1>6, GotoType, ExitType DEF Kill
    <3> QED BY <1>6, <3>1 DEF Kill
  <2>2. Elsewhere(r) /\ OutputQuiet(r)
    BY <1>6 DEF Kill, Goto, Exit
  <2>3. Local(r)'
    BY <1>6 DEF Kill, Goto, Exit, Job, Printed
  <2> QED BY <2>1, <2>2, <2>3 DEF Good
<1> QED BY <1>1, <1>2, <1>3, <1>4, <1>5, <1>6 DEF Good

-----------------------------------------------------------------------------
(* The output file.                                                          *)

Parts == Runs \cup {"old", "hole"}

\* Writing a part keeps the file a file.
LEMMA PutType ==
  ASSUME TypeOK, NEW r \in Runs, NEW k \in Nat \ {0}
  PROVE  Put(r, k) \in Seq(Parts)
<1>1. Len(file) \in Nat /\ \A i \in 1..Len(file) : file[i] \in Parts
  BY LenProperties, ElementOfSeq DEF TypeOK, Parts
<1> DEFINE n == IF Len(file) > k THEN Len(file) ELSE k
<1>2. n \in Nat BY <1>1
<1>3. \A i \in 1..n : Put(r, k)[i] \in Parts BY <1>1 DEF Put, Parts
<1>4. Put(r, k) = [i \in 1..n |-> Put(r, k)[i]] BY DEF Put
<1> HIDE DEF n
<1> QED BY <1>2, <1>3, <1>4, IsASeq

\* The next part of a file that is all r's makes a longer file that is.
LEMMA PutNext ==
  ASSUME NEW r, NEW n \in Nat, file = [i \in 1..n |-> r]
  PROVE  Put(r, n + 1) = [i \in 1..(n + 1) |-> r]
<1>1. Len(file) = n OBVIOUS
<1>2. \A i \in 1..n : file[i] = r OBVIOUS
<1> QED BY <1>1, <1>2 DEF Put

\* Opening the file tells every other writer, and empties it.
LEMMA OpenTruncateIInv ==
  ASSUME NEW r \in Started, IInv, OpenTruncate(r)
  PROVE  IInv'
<1>0. r \in Runs /\ job[r] \in Job /\ Started \subseteq Runs /\ Started' = Started
  BY StartedRuns DEF IInv, TypeOK, Started, OpenTruncate
<1>1. /\ pc[r] = "open" /\ pc'[r] = "write" /\ code' = code /\ job' = job
      /\ \A q \in Runs : q # r => pc'[q] = pc[q]
      /\ file' = <<>> /\ pos' = pos /\ opened'[r] = TRUE
  BY <1>0 DEF OpenTruncate, Goto, IInv, TypeOK
<1>2. \A q \in Runs :
        contended'[q] <=> \/ contended[q]
                          \/ q # r /\ Writing(q)
                          \/ q = r /\ \E s \in Started \ {r} : Writing(s)
  BY Zenon DEF OpenTruncate
<1>3. TypeOK'
  <2>1. contended' \in [Runs -> BOOLEAN] BY DEF OpenTruncate, IInv, TypeOK
  <2>2. pc' \in [Runs -> Calls]
    BY <1>0, GotoType DEF OpenTruncate, IInv, Calls
  <2>3. <<>> \in Seq(Parts) BY EmptySeq
  <2> QED BY <1>0, <2>1, <2>2, <2>3 DEF OpenTruncate, Goto, NoTool, IInv, TypeOK, Parts
<1>4. Elsewhere(r)
  BY <1>0, <1>1 DEF OpenTruncate, Elsewhere, IInv, TypeOK
<1>5. Local(r)'
  <2>1. Local(r) BY DEF IInv
  <2> QED
    BY <1>0, <1>1, <2>1 DEF OpenTruncate, NoTool, Local, ExitedOnce, ToldSoFar, DrafterContent, BothContent, DrafterSays, ConverterSays, BothSay,
             ToldInTheEnd, OkAccepted, EarlyStops,
       Position, Printed, Writing, Job, BeforeDrafter, IInv, TypeOK
<1>6. \A q \in Started : Local(q)'
  BY <1>4, <1>5, LocalElsewhere DEF IInv
<1>7. \A q \in Started : Writing(q)' <=> q = r \/ Writing(q)
  BY <1>0, <1>1 DEF Writing
<1>8. WritersContend'
  BY <1>0, <1>2, <1>7 DEF WritersContend, IInv
<1>9. OwnFile'
  <2> SUFFICES ASSUME NEW q \in Started, Writing(q)', ~contended'[q]
               PROVE  file' = [k \in 1..pos'[q] |-> q]
    BY <1>0 DEF OwnFile
  <2>1. q = r BY <1>0, <1>2, <1>7
  <2>2. pos'[r] = 0 BY <1>1 DEF IInv, Local, EarlyStops, Position
  <2> QED BY <1>1, <2>1, <2>2
<1>10. OutputAccountedFor'
  BY <1>0, <1>7 DEF OutputAccountedFor
<1> QED BY <1>3, <1>6, <1>8, <1>9, <1>10, <1>0 DEF IInv

\* A run that has the file to itself ends with the whole of its output in it.
LEMMA WritePartIInv ==
  ASSUME NEW r \in Started, IInv, WritePart(r)
  PROVE  IInv'
<1>0. r \in Runs /\ job[r] \in Job /\ Started \subseteq Runs /\ Started' = Started
  BY StartedRuns DEF IInv, TypeOK, Started, WritePart
<1>1. pos[r] \in Nat /\ job[r].size \in Nat BY <1>0 DEF IInv, TypeOK, Job
<1>2. /\ pc[r] = "write" /\ job' = job
      /\ \A q \in Runs : q # r => pc'[q] = pc[q] /\ code'[q] = code[q] /\ pos'[q] = pos[q]
      /\ file' = Put(r, pos[r] + 1) /\ pos'[r] = pos[r] + 1
      /\ UNCHANGED <<signalled, heard, shown, opened, contended>>
  BY <1>0 DEF WritePart, Writing, Goto, Exit, IInv, TypeOK
<1>3. \/ pos[r] + 1 < job[r].size /\ pc'[r] = "write" /\ code'[r] = code[r]
      \/ pos[r] + 1 = job[r].size /\ pc'[r] = "exited" /\ code'[r] = "ok"
  BY <1>0, <1>2 DEF WritePart, Goto, Exit, IInv, TypeOK
<1>4. TypeOK'
  <2>1. pc' \in [Runs -> Calls] /\ code' \in [Runs -> Codes]
    BY <1>0, GotoType, ExitType DEF WritePart, IInv, Calls, Codes
  <2>2. file' \in Seq(Parts) BY <1>0, <1>1, <1>2, PutType DEF IInv
  <2>3. pos' \in [Runs -> Nat] BY <1>0, <1>1 DEF WritePart, IInv, TypeOK
  <2> QED BY <1>2, <2>1, <2>2, <2>3 DEF IInv, TypeOK, Parts
<1>5. Elsewhere(r)
  BY <1>0, <1>2 DEF Elsewhere
<1>6. Local(r)'
  <2>1. Local(r) BY DEF IInv
  <2> QED
    BY <1>0, <1>1, <1>2, <1>3, <2>1 DEF Local, ExitedOnce, ToldSoFar, DrafterContent, BothContent, DrafterSays, ConverterSays, BothSay,
             ToldInTheEnd, OkAccepted, EarlyStops,
       Position, Printed, Writing, Job, BeforeDrafter
<1>7. \A q \in Started : Local(q)'
  BY <1>5, <1>6, LocalElsewhere DEF IInv
<1>8. \A q \in Started : Writing(q)' => Writing(q)
  BY <1>0, <1>2 DEF Writing
<1>9. WritersContend'
  BY <1>0, <1>2, <1>8 DEF WritersContend, IInv
<1>10. ~contended[r] => file' = [k \in 1..(pos[r] + 1) |-> r]
  BY <1>1, <1>2, PutNext DEF IInv, OwnFile, Writing
<1>11. OwnFile'
  <2> SUFFICES ASSUME NEW q \in Started, Writing(q)', ~contended[q]
               PROVE  file' = [k \in 1..pos'[q] |-> q]
    BY <1>0, <1>2 DEF OwnFile
  <2>1. q = r BY <1>2, <1>8 DEF IInv, WritersContend, Writing
  <2> QED BY <1>2, <1>10, <2>1
<1>12. OutputAccountedFor'
  <2>1. CASE pc'[r] = "write" BY <1>0, <2>1 DEF OutputAccountedFor, Writing
  <2>2. CASE pc'[r] # "write" /\ contended[r]
    <3>1. opened'[r] /\ contended'[r]
      BY <1>2, <2>2 DEF IInv, Local, Position, Writing
    <3> QED BY <1>0, <3>1 DEF OutputAccountedFor
  <2>3. CASE pc'[r] # "write" /\ ~contended[r]
    <3>1. code'[r] = "ok" /\ file' = [k \in 1..job[r].size |-> r]
      BY <1>3, <1>10, <2>3
    <3> QED BY <1>0, <1>2, <3>1 DEF OutputAccountedFor, Whole
  <2> QED BY <2>1, <2>2, <2>3
<1> QED BY <1>0, <1>4, <1>7, <1>9, <1>11, <1>12 DEF IInv

-----------------------------------------------------------------------------
(* The theorems.                                                             *)

LEMMA InitIInv == Init => IInv
<1> SUFFICES ASSUME Init PROVE IInv OBVIOUS
<1>1. TypeOK
  <2>1. OldFile \in Seq(Parts) BY DEF OldFile, Parts
  <2> QED BY <2>1 DEF Init, TypeOK, Calls, BeforeDrafter, Codes, Parts
<1>2. Started \subseteq Runs BY <1>1 DEF TypeOK, Started
<1>3. \A r \in Started : Local(r)
  BY <1>2 DEF Init, Local, ExitedOnce, ToldSoFar, ToldInTheEnd, OkAccepted,
     EarlyStops, Position, Writing, BeforeDrafter
<1>4. WritersContend /\ OwnFile /\ OutputAccountedFor
  BY <1>2 DEF Init, WritersContend, OwnFile, OutputAccountedFor, Writing
<1> QED BY <1>1, <1>3, <1>4 DEF IInv

\* The step of a run, sorted by what it does to the output.
LEMMA RunIInv ==
  ASSUME NEW r \in Started, IInv,
         OwnStep(r) \/ OthersStep(r) \/ Failure(r) \/ Signal(r)
  PROVE  IInv'
<1>1. TypeOK /\ Local(r) BY DEF IInv
<1>2. ASSUME Good(r), OutputQuiet(r) PROVE IInv'
  <2>1. WritersContend' /\ OwnFile' /\ OutputAccountedFor' BY <1>2, OutputKept DEF Good
  <2>2. \A q \in Started : Local(q)' BY <1>2, LocalElsewhere DEF IInv, Good
  <2>3. Started' = Started BY <1>2 DEF Good, Elsewhere, Started
  <2> QED BY <1>2, <2>1, <2>2, <2>3 DEF IInv, Good
<1>3. CASE ReadInput(r) \/ LoadSecurity(r) \/ AskRunner(r) \/ GetRunner(r) \/ StartDrafter(r)
  BY <1>1, <1>2, <1>3, EarlyCalls
<1>4. CASE \/ DrafterAnswers(r) \/ DrafterRejects(r) \/ CheckAnnotations(r)
           \/ Convert(r) \/ CheckDiagnostics(r) \/ Marshal(r)
  BY <1>1, <1>2, <1>4, DrafterCalls
<1>5. CASE WriteStdout(r) \/ MkdirAll(r) \/ Signal(r)
  BY <1>1, <1>2, <1>5, WaitingCalls
<1>6. CASE \/ ReadFails(r) \/ StartFails(r) \/ DrafterDies(r) \/ ConvertFails(r)
           \/ OutputFails(r) \/ Kill(r)
  BY <1>1, <1>2, <1>6, Failures
<1>7. CASE OpenTruncate(r) BY <1>7, OpenTruncateIInv
<1>8. CASE WritePart(r) BY <1>8, WritePartIInv
<1> QED
  BY <1>3, <1>4, <1>5, <1>6, <1>7, <1>8
  DEF OwnStep, OthersStep, Failure, StartCancelled, DrafterCancelled

\* Whatever is not a step of a run leaves the runs and the file alone.
LEMMA RestIInv ==
  ASSUME IInv, UNCHANGED <<cliVars, outVars>>
  PROVE  IInv'
BY DEF IInv, cliVars, outVars, TypeOK, Started, Local, ExitedOnce, ToldSoFar, DrafterContent, BothContent, DrafterSays, ConverterSays, BothSay,
             ToldInTheEnd, OkAccepted, EarlyStops,
       Position, Writing, Printed, WritersContend, OwnFile, OutputAccountedFor, OldFile,
       Whole

\* In every reachable state each run has found what the call it is at relies
\* on, and a run that writes alone has written what the file holds.
THEOREM Invariance == Spec => []IInv
<1>1. IInv /\ [Next]_vars => IInv'
  <2> SUFFICES ASSUME IInv, [Next]_vars PROVE IInv' OBVIOUS
  <2>1. CASE \E r \in Started : OwnStep(r) \/ OthersStep(r) \/ Failure(r) \/ Signal(r)
    BY <2>1, RunIInv
  <2>2. CASE Install BY <2>2, RestIInv DEF Install
  <2>3. CASE AllExited \/ UNCHANGED vars BY <2>3, RestIInv DEF AllExited, vars
  <2> QED BY <2>1, <2>2, <2>3 DEF Next
<1> QED BY <1>1, InitIInv, PTL DEF Spec

\* A run that exits with 0 was given a document without errors and, with
\* --strict, without any diagnostic it is asked to judge.
THEOREM OkMeansAcceptedAlways == Spec => []OkMeansAccepted
<1>1. IInv => OkMeansAccepted BY DEF IInv, Local, OkAccepted, OkMeansAccepted
<1> QED BY <1>1, Invariance, PTL

\* No run that ends by itself has kept back an error that drafter or the
\* converter told it of, and only --quiet keeps back anything else.
THEOREM ErrorsShownAlways == Spec => []ErrorsShown
<1>1. IInv => ErrorsShown
  <2> SUFFICES ASSUME IInv, NEW r \in Started, code[r] \notin {"running", "killed"}
               PROVE  /\ Errors(heard[r]) \subseteq shown[r]
                      /\ shown[r] # heard[r] => job[r].quiet /\ ~job[r].lint
                      /\ code[r] = "ok" =>
                           heard[r] = DrafterSays(r) \cup
                                        (IF job[r].lint THEN {} ELSE ConverterSays(r))
    BY DEF ErrorsShown
  <2>1. shown[r] \in {heard[r], Printed(r, heard[r])} BY DEF IInv, Local, ToldInTheEnd
  <2>2. Errors(heard[r]) \subseteq shown[r] BY <2>1, PrintedType DEF Errors
  <2>3. shown[r] # heard[r] => job[r].quiet /\ ~job[r].lint BY <2>1 DEF Printed
  <2>4. code[r] = "ok" =>
          heard[r] = IF job[r].lint THEN DrafterSays(r) ELSE BothSay(r)
    BY DEF IInv, Local, OkAccepted
  <2> QED BY <2>2, <2>3, <2>4 DEF BothSay
<1> QED BY <1>1, Invariance, PTL

\* A run signalled before it started drafter neither ends well nor touches the
\* output file, whatever the other runs do.
THEOREM EarlySignalStopsAlways == Spec => []EarlySignalStops
<1>1. IInv => EarlySignalStops
  BY DEF IInv, Local, EarlyStops, ExitedOnce, BeforeDrafter, EarlySignalStops
<1> QED BY <1>1, Invariance, PTL

\* When nobody writes, the output file is the old one, the whole output of one
\* run that ended with 0, or the trace of a run that failed or had company.
THEOREM OutputAccountedForAlways == Spec => []OutputAccountedFor
<1>1. IInv => OutputAccountedFor BY DEF IInv
<1> QED BY <1>1, Invariance, PTL

=============================================================================
