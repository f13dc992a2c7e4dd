-------------------------------- MODULE Jadx --------------------------------
(***************************************************************************)
(* extract/jadx.py: decompile_with_jadx runs jadx into a hidden staging    *)
(* directory, kills its process group when it takes too long, indexes what *)
(* it wrote and then swaps the staging directory for the old output.       *)
(*                                                                         *)
(* One action is one call with an effect others can see.  A tree is "old", *)
(* "part" (jadx is still writing it, or gave up), "full" (jadx exited with *)
(* status 0) or "new" (full, with its index of candidates in place).       *)
(***************************************************************************)
EXTENDS Command

VARIABLES
  had,       \* what the output path held when the call was made
  output,    \* what it holds now
  staging,   \* what the hidden staging directory holds
  backup,    \* what the hidden backup of the old output holds
  jadx,      \* the jadx process: none, running, exited or reaped
  status,    \* its exit status is 0
  gap,       \* an interrupt arrived where no handler covers the call
  jpc        \* the next call

trees == <<had, output, staging, backup>>
jadxVars == <<trees, jadx, status, gap, jpc>>

JadxEnded == {"returned", "raised"}

JadxInit ==
  /\ had \in {"none", "blocked", "old"}
  /\ output = had /\ staging = "none" /\ backup = "none"
  /\ jadx = "none" /\ status = FALSE /\ gap = FALSE
  /\ jpc = "check"

Goto(label) == jpc' = label

-----------------------------------------------------------------------------
(* decompile_with_jadx                                                     *)

\* No jadx, a symlink or a file at the output path: JadxError at once.
Check ==
  /\ jpc = "check" /\ Succeeds
  /\ \/ Goto("raised")
     \/ output # "blocked" /\ Goto("stage")
  /\ UNCHANGED <<trees, jadx, status, gap>>

MakeStaging ==
  /\ jpc = "stage"
  /\ \/ Succeeds /\ staging' = "empty" /\ Goto("spawn") /\ UNCHANGED gap
     \/ Fails /\ Goto("raised") /\ UNCHANGED <<staging, gap>>
     \/ Interrupted /\ staging' = "empty" /\ gap' = TRUE /\ Goto("raised")
  /\ UNCHANGED <<had, output, backup, jadx, status>>

\* Popen in a session of its own; the try that kills it begins one statement later.
Spawn ==
  /\ jpc = "spawn"
  /\ \/ Succeeds /\ jadx' = "running" /\ Goto("wait") /\ UNCHANGED gap
     \/ Fails /\ Goto("clean") /\ UNCHANGED <<jadx, gap>>
     \/ Interrupted /\ jadx' = "running" /\ gap' = TRUE /\ Goto("clean")
  /\ UNCHANGED <<trees, status>>

WaitTrusting ==   \* mutant: a tree is indexed whatever jadx returned
  /\ jpc = "wait"
  /\ \/ jadx = "exited" /\ Succeeds /\ jadx' = "reaped" /\ Goto("index")
     \/ Succeeds /\ UNCHANGED jadx /\ Goto("kill")
     \/ Interrupted /\ Goto("kill") /\ UNCHANGED jadx
  /\ UNCHANGED <<trees, status, gap>>

\* process.wait(timeout): the timer may fire as jadx exits, and an interrupt
\* gives it a moment more, in which it may be reaped.
Wait ==
  /\ jpc = "wait"
  /\ \/ jadx = "exited" /\ Succeeds /\ jadx' = "reaped" /\ Goto(IF status THEN "index" ELSE "clean")
     \/ Succeeds /\ UNCHANGED jadx /\ Goto("kill")
     \/ Interrupted /\ Goto("kill") /\ jadx' \in {jadx} \union (IF jadx = "exited" THEN {"reaped"} ELSE {})
  /\ UNCHANGED <<trees, status, gap>>

\* killpg, ProcessLookupError suppressed, and wait.
KillGroup ==
  /\ jpc = "kill"
  /\ \/ Succeeds /\ jadx' = "reaped" /\ UNCHANGED gap
     \/ Interrupted /\ gap' = TRUE /\ jadx' \in {jadx, "exited"} /\ jadx # "reaped"
  /\ Goto("clean")
  /\ UNCHANGED <<trees, status>>

\* _index_candidates: too many or too large sources and a candidates file
\* that cannot be written are errors; a source that cannot be read is not.
Index ==
  /\ jpc = "index"
  /\ \/ Succeeds /\ staging' = "new" /\ Goto("reserve")
     \/ (Fails \/ Interrupted) /\ Goto("clean") /\ UNCHANGED staging
  /\ UNCHANGED <<had, output, backup, jadx, status, gap>>

\* The finally block: rmtree(staging, ignore_errors=True).
CleanUp ==
  /\ jpc \in {"clean", "leave"}
  /\ LET next == IF jpc = "clean" THEN "raised" ELSE "returned" IN
     \/ Succeeds /\ staging' = "none" /\ Goto(next)
     \/ Fails /\ UNCHANGED staging /\ Goto(next)
     \/ Interrupted /\ staging' \in {staging, "none"} /\ Goto("raised")
  /\ UNCHANGED <<had, output, backup, jadx, status, gap>>

-----------------------------------------------------------------------------
(* _publish_directory                                                      *)

\* mkdtemp and rmdir reserve a name for the backup, if there is an old output.
Reserve ==
  /\ jpc = "reserve"
  /\ IF output = "none"
     THEN Succeeds /\ Goto("place") /\ UNCHANGED backup
     ELSE \/ Succeeds /\ Goto("retire") /\ UNCHANGED backup
          \/ (Fails \/ Interrupted) /\ backup' \in {"none", "empty"} /\ Goto("clean")
  /\ UNCHANGED <<had, output, staging, jadx, status, gap>>

\* output.replace(backup), one statement before the try.
Retire ==
  /\ jpc = "retire"
  /\ LET Moved == output' = "none" /\ backup' = output IN
     \/ Succeeds /\ Moved /\ Goto("place") /\ UNCHANGED gap
     \/ Fails /\ Goto("clean") /\ UNCHANGED <<output, backup, gap>>
     \/ Interrupted /\ Moved /\ gap' = TRUE /\ Goto("clean")
  /\ UNCHANGED <<had, staging, jadx, status>>

\* staging.replace(output)
Place ==
  /\ jpc = "place"
  /\ LET Moved == output' = staging /\ staging' = "none" IN
     \/ Succeeds /\ Moved /\ Goto("sync")
     \/ Interrupted /\ Moved /\ Goto("undo")
     \/ (Fails \/ Interrupted) /\ Goto("undo") /\ UNCHANGED <<output, staging>>
  /\ UNCHANGED <<had, backup, jadx, status, gap>>

SyncParent ==
  /\ jpc = "sync"
  /\ \/ Succeeds /\ Goto("prune")
     \/ (Fails \/ Interrupted) /\ Goto("undo")
  /\ UNCHANGED <<trees, jadx, status, gap>>

UndoForgetful ==   \* mutant: the new tree is left in the way of the backup
  /\ jpc = "undo" /\ Succeeds
  /\ Goto(IF output = "none" THEN "restore" ELSE "clean")
  /\ UNCHANGED <<trees, jadx, status, gap>>

\* The handler: output.replace(staging), if the new tree is in place.
Undo ==
  /\ jpc = "undo"
  /\ IF output = "none"
     THEN Succeeds /\ Goto("restore") /\ UNCHANGED <<output, staging, gap>>
     ELSE LET Moved == output' = "none" /\ staging' = output IN
          \/ Succeeds /\ Moved /\ Goto("restore") /\ UNCHANGED gap
          \/ Fails /\ Goto("clean") /\ UNCHANGED <<output, staging, gap>>
          \/ Interrupted /\ Moved /\ gap' = TRUE /\ Goto("clean")
  /\ UNCHANGED <<had, backup, jadx, status>>

\* backup.replace(output), if there is a backup, then the exception goes on.
Restore ==
  /\ jpc = "restore"
  /\ LET Moved == IF backup = "none" THEN UNCHANGED <<output, backup>>
                  ELSE output' = backup /\ backup' = "none"
     IN \/ (Succeeds \/ Interrupted) /\ Moved
        \/ Fails /\ UNCHANGED <<output, backup>>
  /\ Goto("clean")
  /\ UNCHANGED <<had, staging, jadx, status, gap>>

\* rmtree(backup, ignore_errors=True) of the old tree.
Prune ==
  /\ jpc = "prune"
  /\ \/ Succeeds /\ backup' = "none" /\ Goto("leave")
     \/ Fails /\ UNCHANGED backup /\ Goto("leave")
     \/ Interrupted /\ backup' \in {backup, "none"} /\ Goto("clean")
  /\ UNCHANGED <<had, output, staging, jadx, status, gap>>

-----------------------------------------------------------------------------
(* jadx itself                                                             *)

JadxWrites ==
  /\ jadx = "running" /\ staging \in {"none", "empty"}
  /\ staging' = "part"
  /\ UNCHANGED <<commandVars, had, output, backup, jadx, status, gap, jpc>>

JadxExits ==
  /\ jadx = "running"
  /\ jadx' = "exited"
  /\ status' \in BOOLEAN
  /\ staging' = IF status' THEN "full" ELSE staging
  /\ UNCHANGED <<commandVars, had, output, backup, gap, jpc>>

JadxCall ==
  \/ Check \/ MakeStaging \/ Spawn \/ Wait \/ KillGroup \/ Index \/ CleanUp
  \/ Reserve \/ Retire \/ Place \/ SyncParent \/ Undo \/ Restore \/ Prune

JadxNext == JadxCall \/ JadxWrites \/ JadxExits

-----------------------------------------------------------------------------
(* The old tree is nowhere deleted or lost before the new one is in place, *)
(* whatever call fails and wherever the command is interrupted or killed;  *)
(* and only a tree that jadx has finished, that its exit status vouches    *)
(* for and that has its index is ever put in place (_publish_directory).   *)
OldTreeKept ==
  /\ had = "old" => output = "new" \/ "old" \in {output, backup}
  /\ output = "new" => jadx = "reaped" /\ status

(* One failed call or one interrupt outside the three gaps leaves the old  *)
(* output or the new one, never neither: the old one if the call raised    *)
(* without an interrupt, the new one if it returned, and without a failure *)
(* nothing hidden stays behind (decompile_with_jadx).                      *)
OneFailure ==
  alive /\ ~gap /\ jpc \in JadxEnded /\ faults + interrupts <= 1 =>
    /\ output \in {had, "new"}
    /\ jpc = "returned" => output = "new"
    /\ jpc = "raised" /\ interrupts = 0 => output = had
    /\ faults + interrupts = 0 => staging = "none" /\ backup = "none"
=============================================================================
