---------------------------- MODULE DrafterCache ----------------------------
(***************************************************************************)
(* Package drafter: how the embedded drafter binary reaches the user cache  *)
(* directory and is run from there.  Several processes share the directory; *)
(* inside one process several goroutines may call New, which sync.Once      *)
(* funnels into a single call of materialize.  A process may be killed      *)
(* between any two system calls and any system call may fail.               *)
(*                                                                          *)
(* The operating system's part (a rename is atomic, CreateTemp returns a    *)
(* name nobody else uses) is an assumption of the model.                    *)
(***************************************************************************)
EXTENDS Naturals, FiniteSets

CONSTANTS
  Procs,      \* slots for processes; a slot is reused once its process ended
  Callers,    \* goroutines of a process that call New and Parse
  TmpNames,   \* the names CreateTemp may choose (a bound on the model)
  Dest,       \* the final path, named after the content's SHA-256
  NoTmp,      \* "this process has no temporary file"
  MaxFaults   \* bound: kills and failed system calls in one behaviour

ASSUME NamesAssumption ==
  /\ Dest \notin TmpNames
  /\ NoTmp \notin TmpNames \cup {Dest}
  /\ IsFiniteSet(TmpNames)

ASSUME CallersAssumption == Callers # {}

ASSUME FaultsAssumption == MaxFaults \in Nat

VARIABLES
  files,    \* the cache directory: files[n], Absent when there is none
  pc,       \* pc[p]: where process p is in once.Do(materialize)
  tmp,      \* tmp[p]: the temporary file process p is filling
  cache,    \* cache[p]: the package variables cached / errCache
  caller,   \* caller[p][c]: where goroutine c of process p is
  faults    \* faults so far

vars == <<files, pc, tmp, cache, caller, faults>>

Names == TmpNames \cup {Dest}

File == [bytes : {"absent", "none", "some", "all"}, exec : BOOLEAN]

Absent == [bytes |-> "absent", exec |-> FALSE]

Present(n) == files[n].bytes # "absent"

\* A file the kernel can execute as the drafter this build embeds.
Runnable(f) == f.bytes = "all" /\ f.exec

\* The system calls of materialize, in order.
Steps == {"mkdir", "stat", "create", "copy", "chmod", "close", "rename"}

Quiet == [c \in Callers |-> "idle"]

\* A caller has finished with the package: no Runner, or its Parse is over.
Finished == {"error", "parsed", "execFailed"}

TypeOK ==
  /\ files \in [Names -> File]
  /\ pc \in [Procs -> {"fresh", "done"} \cup Steps]
  /\ tmp \in [Procs -> TmpNames \cup {NoTmp}]
  /\ cache \in [Procs -> {"none", "path", "error"}]
  /\ caller \in [Procs -> [Callers -> {"idle", "waiting", "path"} \cup Finished]]
  /\ faults \in 0..MaxFaults

Init ==
  /\ files = [n \in Names |-> Absent]
  /\ pc = [p \in Procs |-> "fresh"]
  /\ tmp = [p \in Procs |-> NoTmp]
  /\ cache = [p \in Procs |-> "none"]
  /\ caller = [p \in Procs |-> Quiet]
  /\ faults = 0

-----------------------------------------------------------------------------
(* New: the first caller of a process starts the extraction, every caller   *)
(* blocks in once.Do until it is over and then reads the same two variables.*)

CallNew(p, c) ==
  /\ caller[p][c] = "idle"
  /\ caller' = [caller EXCEPT ![p][c] = "waiting"]
  /\ pc' = [pc EXCEPT ![p] = IF @ = "fresh" THEN "mkdir" ELSE @]
  /\ UNCHANGED <<files, tmp, cache, faults>>

ReturnNew(p, c) ==
  /\ caller[p][c] = "waiting"
  /\ pc[p] = "done"
  /\ caller' = [caller EXCEPT ![p][c] = cache[p]]
  /\ UNCHANGED <<files, pc, tmp, cache, faults>>

\* Parse executes whatever is at the path New returned, in one exec.
Parse(p, c) ==
  /\ caller[p][c] = "path"
  /\ caller' = [caller EXCEPT ![p][c] =
                  IF Runnable(files[Dest]) THEN "parsed" ELSE "execFailed"]
  /\ UNCHANGED <<files, pc, tmp, cache, faults>>

-----------------------------------------------------------------------------
(* materialize, one action per system call.                                 *)

Goto(p, from, to) ==
  /\ pc[p] = from
  /\ pc' = [pc EXCEPT ![p] = to]

\* materialize returns, and once.Do stores what it returned.
Finish(p, from, answer) ==
  /\ Goto(p, from, "done")
  /\ cache' = [cache EXCEPT ![p] = answer]

MkdirAll(p) ==
  /\ Goto(p, "mkdir", "stat")
  /\ UNCHANGED <<files, tmp, cache, caller, faults>>

\* os.Stat(dest) finds a file: it is trusted as it is.
StatFound(p) ==
  /\ Present(Dest)
  /\ Finish(p, "stat", "path")
  /\ UNCHANGED <<files, tmp, caller, faults>>

\* Slip: a temporary file is taken for an extraction to wait for.
StatMissingWaits(p) ==
  /\ ~Present(Dest)
  /\ IF \E n \in TmpNames : Present(n) THEN pc[p] = "stat" /\ UNCHANGED pc
     ELSE Goto(p, "stat", "create")
  /\ UNCHANGED <<files, tmp, cache, caller, faults>>

StatMissing(p) ==
  /\ ~Present(Dest)
  /\ Goto(p, "stat", "create")
  /\ UNCHANGED <<files, tmp, cache, caller, faults>>

CreateTemp(p) ==
  /\ Goto(p, "create", "copy")
  /\ \E n \in TmpNames :
       /\ ~Present(n)
       /\ files' = [files EXCEPT ![n] = [bytes |-> "none", exec |-> FALSE]]
       /\ tmp' = [tmp EXCEPT ![p] = n]
  /\ UNCHANGED <<cache, caller, faults>>

\* io.Copy writes the content in pieces; the others see it grow.
CopySome(p) ==
  /\ pc[p] = "copy"
  /\ files[tmp[p]].bytes = "none"
  /\ files' = [files EXCEPT ![tmp[p]].bytes = "some"]
  /\ UNCHANGED <<pc, tmp, cache, caller, faults>>

CopyRest(p) ==
  /\ Goto(p, "copy", "chmod")
  /\ files' = [files EXCEPT ![tmp[p]].bytes = "all"]
  /\ UNCHANGED <<tmp, cache, caller, faults>>

\* Slip: the mode of CreateTemp, 0600, is kept.
ChmodForgotten(p) ==
  /\ Goto(p, "chmod", "close")
  /\ UNCHANGED <<files, tmp, cache, caller, faults>>

Chmod(p) ==
  /\ Goto(p, "chmod", "close")
  /\ files' = [files EXCEPT ![tmp[p]] = [bytes |-> @.bytes, exec |-> TRUE]]
  /\ UNCHANGED <<tmp, cache, caller, faults>>

Close(p) ==
  /\ Goto(p, "close", "rename")
  /\ UNCHANGED <<files, tmp, cache, caller, faults>>

\* Slip: the file is copied to its place and the temporary one forgotten.
RenameCopies(p) ==
  /\ Finish(p, "rename", "path")
  /\ files' = [files EXCEPT ![Dest] = files[tmp[p]]]
  /\ tmp' = [tmp EXCEPT ![p] = NoTmp]
  /\ UNCHANGED <<caller, faults>>

\* os.Rename replaces dest, whether or not another process installed it first.
Rename(p) ==
  /\ Finish(p, "rename", "path")
  /\ files' = [files EXCEPT ![Dest] = files[tmp[p]], ![tmp[p]] = Absent]
  /\ tmp' = [tmp EXCEPT ![p] = NoTmp]
  /\ UNCHANGED <<caller, faults>>

-----------------------------------------------------------------------------
(* Faults.                                                                   *)

Fault == faults < MaxFaults /\ faults' = faults + 1

\* Stat fails for another reason than a missing file (EACCES, EIO): the code
\* only tests err == nil, so it extracts again.
StatFails(p) ==
  /\ Fault
  /\ Goto(p, "stat", "create")
  /\ UNCHANGED <<files, tmp, cache, caller>>

\* Slip: the cleanup removes the destination too.
CopyFailsRemovesDest(p) ==
  /\ Fault
  /\ Finish(p, "copy", "error")
  /\ files' = [files EXCEPT ![tmp[p]] = Absent, ![Dest] = Absent]
  /\ tmp' = [tmp EXCEPT ![p] = NoTmp]
  /\ UNCHANGED caller

\* Only a failed copy removes the temporary file.
CopyFails(p) ==
  /\ Fault
  /\ Finish(p, "copy", "error")
  /\ files' = [files EXCEPT ![tmp[p]] = Absent]
  /\ tmp' = [tmp EXCEPT ![p] = NoTmp]
  /\ UNCHANGED caller

\* Slip: the error of a call is dropped, and the path returned all the same.
CallFailsPath(p, step) ==
  /\ Fault
  /\ Finish(p, step, "path")
  /\ tmp' = [tmp EXCEPT ![p] = NoTmp]
  /\ UNCHANGED <<files, caller>>

\* A failure of any other call returns at once and leaves the file behind.
CallFails(p, step) ==
  /\ Fault
  /\ Finish(p, step, "error")
  /\ tmp' = [tmp EXCEPT ![p] = NoTmp]
  /\ UNCHANGED <<files, caller>>

\* The process is gone: its slot belongs to the next process started.
Vacate(p) ==
  /\ pc' = [pc EXCEPT ![p] = "fresh"]
  /\ tmp' = [tmp EXCEPT ![p] = NoTmp]
  /\ cache' = [cache EXCEPT ![p] = "none"]
  /\ caller' = [caller EXCEPT ![p] = Quiet]
  /\ UNCHANGED files

Kill(p) ==
  /\ Fault
  /\ pc[p] # "fresh"
  /\ Vacate(p)

Exit(p) ==
  /\ \A c \in Callers : caller[p][c] \in Finished
  /\ Vacate(p)
  /\ UNCHANGED faults

-----------------------------------------------------------------------------
Extract(p) ==
  \/ MkdirAll(p) \/ StatFound(p) \/ StatMissing(p) \/ CreateTemp(p)
  \/ CopySome(p) \/ CopyRest(p) \/ Chmod(p) \/ Close(p) \/ Rename(p)

Disturb(p) ==
  \/ StatFails(p) \/ CopyFails(p) \/ Kill(p)
  \/ \E step \in Steps \ {"stat", "copy"} : CallFails(p, step)

Next ==
  \E p \in Procs :
    \/ Extract(p) \/ Disturb(p) \/ Exit(p)
    \/ \E c \in Callers : CallNew(p, c) \/ ReturnNew(p, c) \/ Parse(p, c)

Spec == Init /\ [][Next]_vars

\* A process that is not stopped is scheduled: materialize goes on, and a
\* goroutine that once.Do released, or that holds a Runner, runs.
Fairness ==
  \A p \in Procs :
    /\ WF_vars(Extract(p))
    /\ \A c \in Callers : WF_vars(ReturnNew(p, c)) /\ WF_vars(Parse(p, c))

FairSpec == Spec /\ Fairness

-----------------------------------------------------------------------------
(* Properties.                                                               *)

\* The file at the final path is never a partial or a non-executable one,
\* whatever processes are killed while they write: os.Stat alone decides that
\* a binary found there is used, so this is what makes that decision right.
InstalledIsRunnable == Present(Dest) => Runnable(files[Dest])

\* No goroutine that was given a Runner ever executes a missing, partial or
\* non-executable binary: neither the one that extracted it nor one that
\* found it, nor one whose process was overtaken by another's rename.
NoFailedExec == \A p \in Procs, c \in Callers : caller[p][c] # "execFailed"

\* Two goroutines of one process are never given different answers by New.
Answered(p, c) == caller[p][c] \notin {"idle", "waiting"}
OneAnswer ==
  \A p \in Procs, c, d \in Callers :
    Answered(p, c) /\ Answered(p, d) => (caller[p][c] = "error") = (caller[p][d] = "error")

\* Two processes never fill the same temporary file.
PrivateTemp ==
  \A p, q \in Procs : tmp[p] = tmp[q] /\ tmp[p] # NoTmp => p = q

\* Temporary files left in the cache directory are paid for by faults: a run
\* in which nothing fails leaves none, and no fault leaves more than one.
Orphans == {n \in TmpNames : Present(n) /\ \A p \in Procs : tmp[p] # n}
OrphansPaidFor == Cardinality(Orphans) <= faults

\* Once installed, the binary is never replaced by anything but itself.
InstallIsFinal == [][Present(Dest) => files'[Dest] = files[Dest]]_vars

\* A goroutine blocked in New is answered, unless its process is killed.
EveryCallAnswered ==
  \A p \in Procs, c \in Callers :
    caller[p][c] = "waiting" ~> caller[p][c] # "waiting"

\* The callers' view of the package is that of an atomic installation.
Abstract == INSTANCE ToolInstall WITH
  installed <- Present(Dest),
  answer <- caller

AtomicInstall == Abstract!Spec
-----------------------------------------------------------------------------
(* Why the properties hold: the inductive invariant.                         *)

\* A process owns a temporary file exactly between CreateTemp and the end of
\* materialize, and the file is as far as the calls made on it.
TempOwned ==
  \A p \in Procs :
    /\ (tmp[p] # NoTmp) <=> (pc[p] \in {"copy", "chmod", "close", "rename"})
    /\ tmp[p] # NoTmp => Present(tmp[p])
    /\ pc[p] \in {"chmod", "close", "rename"} => files[tmp[p]].bytes = "all"
    /\ pc[p] \in {"close", "rename"} => files[tmp[p]].exec

\* once is over exactly when an answer is stored, and a stored path is real.
OnceDone ==
  \A p \in Procs :
    /\ pc[p] = "done" <=> cache[p] # "none"
    /\ cache[p] = "path" => Present(Dest)

\* A caller has an answer only once the process has one, and it is that one.
CallersAgree ==
  \A p \in Procs, c \in Callers :
    Answered(p, c) =>
      /\ pc[p] = "done"
      /\ (caller[p][c] = "error") = (cache[p] = "error")
      /\ caller[p][c] # "execFailed"

\* The inductive invariant behind InstalledIsRunnable: a file reaches the final
\* path only from a temporary file that its one owner has written, marked
\* executable and closed, and every path handed out leads there.
IInv ==
  /\ TypeOK
  /\ PrivateTemp
  /\ InstalledIsRunnable
  /\ TempOwned
  /\ OnceDone
  /\ CallersAgree
=============================================================================
