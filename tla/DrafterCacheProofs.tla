-------------------------- MODULE DrafterCacheProofs --------------------------
(***************************************************************************)
(* For every number of processes, goroutines, temporary names and faults:  *)
(* the installed binary is whole, no caller runs a broken one, and the      *)
(* package implements ToolInstall.                                          *)
(***************************************************************************)
EXTENDS DrafterCache, FiniteSetTheorems, TLAPS

USE NamesAssumption, FaultsAssumption

\* A cache without the binary, and no process at work, satisfy the invariant.
LEMMA InitIInv == Init => IInv
  BY DEF Init, IInv, TypeOK, PrivateTemp, InstalledIsRunnable, TempOwned,
         OnceDone, CallersAgree, Present, Absent, File, Names, Quiet, Answered

\* One step of materialize preserves the invariant.
LEMMA ExtractIInv == ASSUME NEW p \in Procs, IInv, Extract(p) PROVE IInv'
<1> USE DEF IInv, TypeOK, PrivateTemp, InstalledIsRunnable, TempOwned, OnceDone,
            CallersAgree, Present, Absent, File, Names, Runnable, Answered, Steps,
            Finished, Goto, Finish
<1>1. CASE MkdirAll(p) BY <1>1 DEF MkdirAll
<1>2. CASE StatFound(p) BY <1>2 DEF StatFound
<1>3. CASE StatMissing(p) BY <1>3 DEF StatMissing
<1>4. CASE CreateTemp(p) BY <1>4 DEF CreateTemp
<1>5. CASE CopySome(p) BY <1>5 DEF CopySome
<1>6. CASE CopyRest(p) BY <1>6 DEF CopyRest
<1>7. CASE Chmod(p)
  <2>1. tmp[p] \in TmpNames /\ tmp[p] # Dest /\ files[tmp[p]].bytes = "all"
    BY <1>7 DEF Chmod
  <2>2. files'[tmp[p]] = [bytes |-> "all", exec |-> TRUE]
    BY <1>7, <2>1 DEF Chmod
  <2>3. \A n \in Names : n # tmp[p] => files'[n] = files[n]
    BY <1>7 DEF Chmod
  <2>4. \A q \in Procs : q # p => tmp[q] = NoTmp \/ tmp[q] # tmp[p]
    BY <2>1
  <2>5. TypeOK'
    BY <1>7, <2>1 DEF Chmod
  <2>6. TempOwned'
    BY <1>7, <2>1, <2>2, <2>3, <2>4 DEF Chmod
  <2>7. (PrivateTemp /\ InstalledIsRunnable /\ OnceDone /\ CallersAgree)'
    BY <1>7, <2>1, <2>3 DEF Chmod
  <2> QED BY <2>5, <2>6, <2>7
<1>8. CASE Close(p) BY <1>8 DEF Close
<1>9. CASE Rename(p)
  <2>1. tmp[p] \in TmpNames /\ tmp[p] # Dest /\ Runnable(files[tmp[p]])
    BY <1>9 DEF Rename
  <2>2. files'[Dest] = files[tmp[p]] /\ files'[tmp[p]] = Absent
    BY <1>9, <2>1 DEF Rename
  <2>3. \A n \in Names : n # Dest /\ n # tmp[p] => files'[n] = files[n]
    BY <1>9 DEF Rename
  <2>4. \A q \in Procs : q # p => tmp[q] = NoTmp \/ tmp[q] # tmp[p]
    BY <2>1
  <2>5. TypeOK'
    BY <1>9, <2>1, <2>2, <2>3 DEF Rename
  <2>6. InstalledIsRunnable' /\ OnceDone'
    BY <1>9, <2>1, <2>2 DEF Rename
  <2>7. TempOwned'
    BY <1>9, <2>1, <2>2, <2>3, <2>4 DEF Rename
  <2>8. PrivateTemp' /\ CallersAgree'
    BY <1>9 DEF Rename
  <2> QED BY <2>5, <2>6, <2>7, <2>8
<1> QED BY <1>1, <1>2, <1>3, <1>4, <1>5, <1>6, <1>7, <1>8, <1>9 DEF Extract

\* A failed system call or a kill preserves it.
LEMMA DisturbIInv == ASSUME NEW p \in Procs, IInv, Disturb(p) PROVE IInv'
<1> USE DEF IInv, TypeOK, PrivateTemp, InstalledIsRunnable, TempOwned, OnceDone,
            CallersAgree, Present, Absent, File, Names, Runnable, Answered, Steps,
            Finished, Goto, Finish, Fault
<1>1. CASE StatFails(p) BY <1>1 DEF StatFails
<1>2. CASE CopyFails(p) BY <1>2 DEF CopyFails
<1>3. CASE Kill(p) BY <1>3 DEF Kill, Vacate, Quiet
<1>4. ASSUME NEW step \in Steps \ {"stat", "copy"}, CallFails(p, step) PROVE IInv'
  BY <1>4 DEF CallFails
<1> QED BY <1>1, <1>2, <1>3, <1>4 DEF Disturb

\* The callers' own steps and a normal exit preserve it.
LEMMA CallerIInv ==
  ASSUME NEW p \in Procs, IInv,
         \/ Exit(p)
         \/ \E c \in Callers : CallNew(p, c) \/ ReturnNew(p, c) \/ Parse(p, c)
  PROVE  IInv'
<1> USE DEF IInv, TypeOK, PrivateTemp, InstalledIsRunnable, TempOwned, OnceDone,
            CallersAgree, Present, Absent, File, Names, Runnable, Answered, Steps,
            Finished
<1>1. CASE Exit(p) BY <1>1 DEF Exit, Vacate, Quiet
<1>2. ASSUME NEW c \in Callers, CallNew(p, c) PROVE IInv' BY <1>2 DEF CallNew
<1>3. ASSUME NEW c \in Callers, ReturnNew(p, c) PROVE IInv' BY <1>3 DEF ReturnNew
<1>4. ASSUME NEW c \in Callers, Parse(p, c) PROVE IInv' BY <1>4 DEF Parse
<1> QED BY <1>1, <1>2, <1>3, <1>4

\* The strengthened invariant holds in every reachable state.
THEOREM Invariance == Spec => []IInv
<1>1. IInv /\ [Next]_vars => IInv'
  <2> SUFFICES ASSUME IInv, [Next]_vars PROVE IInv' OBVIOUS
  <2>1. CASE Next BY <2>1, ExtractIInv, DisturbIInv, CallerIInv DEF Next
  <2>2. CASE UNCHANGED vars
    BY <2>2 DEF vars, IInv, TypeOK, PrivateTemp, InstalledIsRunnable, TempOwned,
                OnceDone, CallersAgree, Present, Runnable, Answered
  <2> QED BY <2>1, <2>2
<1> QED BY InitIInv, <1>1, PTL DEF Spec

\* The installed binary is never partial and never lacks its mode bit.
THEOREM InstalledIsRunnableAlways == Spec => []InstalledIsRunnable
BY Invariance, PTL DEF IInv

\* No goroutine executes a partial, missing or non-executable binary.
THEOREM NoFailedExecAlways == Spec => []NoFailedExec
<1>1. IInv => NoFailedExec
  BY DEF IInv, TypeOK, CallersAgree, NoFailedExec, Answered, Finished
<1> QED BY <1>1, Invariance, PTL

\* All callers of one process get the same answer from New.
THEOREM OneAnswerAlways == Spec => []OneAnswer
<1>1. IInv => OneAnswer
  BY DEF IInv, TypeOK, CallersAgree, OneAnswer
<1> QED BY <1>1, Invariance, PTL

\* A second rename over the final path changes nothing anyone can see.
THEOREM InstallIsFinalAlways == Spec => InstallIsFinal
<1>1. ASSUME IInv, [Next]_vars, Present(Dest) PROVE files'[Dest] = files[Dest]
  <2>1. \A p \in Procs : tmp[p] # Dest
    BY <1>1 DEF IInv, TypeOK
  <2>2. ASSUME NEW p \in Procs, Rename(p) PROVE files'[Dest] = files[Dest]
    <3>1. Runnable(files[tmp[p]]) /\ tmp[p] \in TmpNames
      BY <1>1, <2>2 DEF IInv, TypeOK, TempOwned, Rename, Finish, Goto, Runnable
    <3>2. files'[Dest] = files[tmp[p]]
      BY <1>1, <2>1, <2>2, <3>1 DEF IInv, TypeOK, Rename, Names
    <3>3. Runnable(files[Dest])
      BY <1>1 DEF IInv, InstalledIsRunnable
    <3> QED BY <1>1, <3>1, <3>2, <3>3 DEF IInv, TypeOK, File, Names, Runnable
  <2>3. ASSUME NEW p \in Procs, Extract(p), ~Rename(p) PROVE files'[Dest] = files[Dest]
    BY <1>1, <2>1, <2>3 DEF Extract, MkdirAll, StatFound, StatMissing, CreateTemp,
       CopySome, CopyRest, Chmod, Close, IInv, TypeOK, Names
  <2>4. ASSUME NEW p \in Procs, Disturb(p) PROVE files'[Dest] = files[Dest]
    BY <1>1, <2>1, <2>4 DEF Disturb, StatFails, CopyFails, CallFails, Kill, Vacate,
       IInv, TypeOK, Names
  <2>5. ASSUME NEW p \in Procs,
               \/ Exit(p)
               \/ \E c \in Callers : CallNew(p, c) \/ ReturnNew(p, c) \/ Parse(p, c)
        PROVE  files'[Dest] = files[Dest]
    BY <2>5 DEF Exit, Vacate, CallNew, ReturnNew, Parse
  <2> QED BY <1>1, <2>2, <2>3, <2>4, <2>5 DEF Next, vars
<1>2. IInv /\ [Next]_vars => [Present(Dest) => files'[Dest] = files[Dest]]_vars
  BY <1>1
<1> QED BY <1>2, Invariance, PTL DEF Spec, InstallIsFinal

\* Every step of the cache is a step of the atomic installation or stutters.
THEOREM ImplementsToolInstall == Spec => AtomicInstall
<1>1. Init => Abstract!Init
  BY DEF Init, Abstract!Init, Present, Absent, Names, Quiet, Abstract!Quiet
<1>2. IInv /\ IInv' /\ [Next]_vars => [Abstract!Next]_(Abstract!vars)
  <2> SUFFICES ASSUME IInv, IInv', [Next]_vars,
                      ~ UNCHANGED <<Present(Dest), caller>>
               PROVE  Abstract!Next
    BY DEF Abstract!vars
  <2>1. Present(Dest) => Present(Dest)'
    <3>1. CASE \E p \in Procs : Extract(p)
      BY <3>1 DEF Extract, MkdirAll, StatFound, StatMissing, CreateTemp, CopySome,
         CopyRest, Chmod, Close, Rename, Finish, Goto, IInv, TypeOK, TempOwned, File,
         Names, Present
    <3>2. CASE \E p \in Procs : Disturb(p)
      BY <3>2 DEF Disturb, StatFails, CopyFails, CallFails, Kill, Vacate,
         IInv, TypeOK, TempOwned, Names, Present, Finish, Goto
    <3>3. CASE UNCHANGED files BY <3>3 DEF Present
    <3> QED BY <3>1, <3>2, <3>3 DEF Next, vars, Exit, Vacate, CallNew, ReturnNew, Parse
  <2>2. CASE UNCHANGED caller
    <3>1. Present(Dest)' \in BOOLEAN /\ Present(Dest) \in BOOLEAN BY DEF Present
    <3>2. Present(Dest)' = TRUE BY <2>1, <2>2, <3>1
    <3> QED BY <2>2, <3>2 DEF Abstract!Next, Abstract!Install
  <2>3. ASSUME NEW p \in Procs, Kill(p) \/ Exit(p) PROVE Abstract!Next
    BY <2>3 DEF Kill, Exit, Vacate, Abstract!Next, Abstract!End, Quiet,
       Abstract!Quiet, Present
  <2>4. ASSUME NEW p \in Procs, NEW c \in Callers, CallNew(p, c) PROVE Abstract!Next
    BY <2>4 DEF CallNew, Abstract!Next, Abstract!Ask, Abstract!Move, Present
  <2>5. ASSUME NEW p \in Procs, NEW c \in Callers, ReturnNew(p, c) PROVE Abstract!Next
    <3>1. cache[p] = "path" \/ cache[p] = "error"
      BY <2>5 DEF ReturnNew, IInv, OnceDone, TypeOK
    <3>2. CASE cache[p] = "path"
      BY <2>5, <3>2 DEF ReturnNew, IInv, OnceDone, Abstract!Next, Abstract!GivePath,
         Abstract!Move, Present
    <3>3. CASE cache[p] = "error"
      BY <2>5, <3>3 DEF ReturnNew, Abstract!Next, Abstract!GiveError, Abstract!Move, Present
    <3> QED BY <3>1, <3>2, <3>3
  <2>6. ASSUME NEW p \in Procs, NEW c \in Callers, Parse(p, c) PROVE Abstract!Next
    <3>1. Present(Dest) /\ Runnable(files[Dest])
      BY <2>6 DEF Parse, IInv, OnceDone, CallersAgree, InstalledIsRunnable, TypeOK, Answered
    <3> QED BY <2>6, <3>1 DEF Parse, Abstract!Next, Abstract!Use, Abstract!Move, Present
  <2> QED
    BY <2>2, <2>3, <2>4, <2>5, <2>6 DEF Next, vars, Extract, Disturb, MkdirAll, StatFound,
       StatMissing, CreateTemp, CopySome, CopyRest, Chmod, Close, Rename, StatFails,
       CopyFails, CallFails
<1> QED BY <1>1, <1>2, Invariance, PTL DEF Spec, AtomicInstall, Abstract!Spec

\* A fault leaves at most the temporary file of its own process behind.
LEMMA FaultOrphans ==
  ASSUME NEW p \in Procs, IInv, Disturb(p)
  PROVE  Orphans' \subseteq Orphans \cup {tmp[p]} /\ faults' = faults + 1
BY DEF Disturb, StatFails, CopyFails, CallFails, Kill, Vacate, Fault, Finish, Goto,
   Orphans, Present, Absent, IInv, TypeOK, Names

\* Without a fault no temporary file is orphaned.
LEMMA StepOrphans ==
  ASSUME NEW p \in Procs, IInv,
         \/ Extract(p) \/ Exit(p)
         \/ \E c \in Callers : CallNew(p, c) \/ ReturnNew(p, c) \/ Parse(p, c)
  PROVE  Orphans' \subseteq Orphans /\ faults' = faults
<1> USE DEF Orphans, Present, IInv, TypeOK
<1>1. CASE Extract(p)
  BY <1>1 DEF Extract, MkdirAll, StatFound, StatMissing, CreateTemp, CopySome,
     CopyRest, Chmod, Close, Rename, Finish, Goto, Absent, Names, TempOwned
<1>2. CASE Exit(p)
  <2>1. tmp[p] = NoTmp
    BY <1>2, CallersAssumption DEF Exit, TempOwned, CallersAgree, Answered, Finished
  <2> QED BY <1>2, <2>1 DEF Exit, Vacate
<1>3. CASE \E c \in Callers : CallNew(p, c) \/ ReturnNew(p, c) \/ Parse(p, c)
  BY <1>3 DEF CallNew, ReturnNew, Parse
<1> QED BY <1>1, <1>2, <1>3

\* The cache directory holds at most one abandoned temporary file per fault.
THEOREM OrphansPaidForAlways == Spec => []OrphansPaidFor
<1>1. Init => OrphansPaidFor
  <2> SUFFICES ASSUME Init PROVE OrphansPaidFor OBVIOUS
  <2>1. Orphans = {} BY DEF Init, Orphans, Present, Absent, Names
  <2> QED BY <2>1, FS_EmptySet DEF OrphansPaidFor, Init
<1>2. IInv /\ OrphansPaidFor /\ [Next]_vars => OrphansPaidFor'
  <2> SUFFICES ASSUME IInv, OrphansPaidFor, [Next]_vars PROVE OrphansPaidFor' OBVIOUS
  <2>1. IsFiniteSet(Orphans) /\ Cardinality(Orphans) \in Nat /\ faults \in Nat
    BY FS_Subset, FS_CardinalityType DEF Orphans, IInv, TypeOK
  <2>2. ASSUME NEW p \in Procs, Disturb(p) PROVE OrphansPaidFor'
    <3>1. IsFiniteSet(Orphans \cup {tmp[p]})
          /\ Cardinality(Orphans \cup {tmp[p]}) <= Cardinality(Orphans) + 1
          /\ Cardinality(Orphans \cup {tmp[p]}) \in Nat
      BY <2>1, FS_AddElement, FS_CardinalityType
    <3>2. Cardinality(Orphans') <= Cardinality(Orphans \cup {tmp[p]})
          /\ Cardinality(Orphans') \in Nat
      BY <2>2, <3>1, FaultOrphans, FS_Subset, FS_CardinalityType
    <3> QED BY <2>1, <2>2, <3>1, <3>2, FaultOrphans DEF OrphansPaidFor
  <2>3. CASE Orphans' \subseteq Orphans /\ faults' = faults
    BY <2>1, <2>3, FS_Subset, FS_CardinalityType DEF OrphansPaidFor
  <2>4. CASE UNCHANGED vars
    BY <2>3, <2>4 DEF vars, Orphans, Present
  <2> QED BY <2>2, <2>3, <2>4, StepOrphans DEF Next
<1> QED BY <1>1, <1>2, Invariance, PTL DEF Spec
=============================================================================
