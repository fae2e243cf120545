----------------------------- MODULE ToolInstall -----------------------------
(***************************************************************************)
(* What package drafter promises its callers, with the file system left    *)
(* out.  A machine either has a whole drafter binary or has none; a caller  *)
(* that asked for a Runner is answered with a path or with an error; a path *)
(* is handed out only once the whole binary is on the machine; and running  *)
(* it never meets a partial file.  DrafterCache implements this module.     *)
(***************************************************************************)
CONSTANTS
  Procs,      \* slots for operating-system processes running apib-to-oas
  Callers     \* goroutines of one process that may call drafter.New

VARIABLES
  installed,  \* the whole, executable binary is at its final path
  answer      \* answer[p][c]: where caller c of process p has got to

vars == <<installed, answer>>

Quiet == [c \in Callers |-> "idle"]

Init ==
  /\ installed = FALSE
  /\ answer = [p \in Procs |-> Quiet]

Move(p, c, from, to) ==
  /\ answer[p][c] = from
  /\ answer' = [answer EXCEPT ![p][c] = to]

Ask(p, c) == Move(p, c, "idle", "waiting") /\ UNCHANGED installed

GivePath(p, c) == installed /\ Move(p, c, "waiting", "path") /\ UNCHANGED installed

GiveError(p, c) == Move(p, c, "waiting", "error") /\ UNCHANGED installed

Use(p, c) == installed /\ Move(p, c, "path", "parsed") /\ UNCHANGED installed

\* The binary appears as a whole, in one step, and never disappears.
Install == installed' = TRUE /\ UNCHANGED answer

\* Process p ends, normally or not, and its slot is free for another one.
End(p) == answer' = [answer EXCEPT ![p] = Quiet] /\ UNCHANGED installed

Next ==
  \/ Install
  \/ \E p \in Procs :
        \/ End(p)
        \/ \E c \in Callers :
              Ask(p, c) \/ GivePath(p, c) \/ GiveError(p, c) \/ Use(p, c)

Spec == Init /\ [][Next]_vars
=============================================================================
