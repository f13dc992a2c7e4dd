------------------------------ MODULE Publish ------------------------------
(***************************************************************************)
(* cli._publish_outputs: how a recovery writes its group of files.  Every  *)
(* payload is first staged in a hidden temporary file; then, path by path, *)
(* an existing file is renamed to a hidden backup and the staged file is   *)
(* renamed into place; any exception rolls the installed paths back in     *)
(* reverse order; the finally block removes what is left.                  *)
(*                                                                         *)
(* One action is one file-system call with the Python statements around    *)
(* it.  A call may succeed, fail with OSError (no effect), or be followed  *)
(* by a KeyboardInterrupt, which CPython delivers as the call returns: the *)
(* effect has happened and the statement after it has not.  Crash is the   *)
(* death of the process (SIGKILL, or the SIGTERM the TUI sends, for which  *)
(* the command installs no handler) between any two calls.                 *)
(***************************************************************************)
EXTENDS Naturals, FiniteSets

CONSTANTS
  N,              \* how many files are published together
  MaxFaults,      \* bound on the file-system calls that fail with OSError
  MaxInterrupts   \* bound on the KeyboardInterrupts delivered

ASSUME PublishAssumption ==
  /\ N \in Nat \ {0}
  /\ MaxFaults \in Nat
  /\ MaxInterrupts \in Nat

\* The distinct paths of `outputs`, numbered in their order.
Paths == 1..N

VARIABLES
  had,         \* [Paths -> content] the directory when the call was made
  dir,         \* [Paths -> content] what each path holds now
  tmp,         \* [Paths -> content] the hidden file staged for each path
  bak,         \* [Paths -> content] the hidden backup of each path
  staged,      \* keys of the dict `staged`
  backups,     \* keys of the dict `backups`
  installed,   \* length of the list `installed`, a prefix of the paths
  published,   \* the flag `published`
  unrestored,  \* paths named by `rollback_failures`
  pc, i,       \* next call, and the path its loop is at
  faults, interrupts

files == <<had, dir, tmp, bak>>
locals == <<staged, backups, installed, published, unrestored>>
control == <<pc, i>>
budget == <<faults, interrupts>>
vars == <<files, locals, control, budget>>

Ended == {"rejected", "returned", "raised", "crashed"}

-----------------------------------------------------------------------------
(* The three ways a call can end, and where an exception goes.             *)

Succeeds == UNCHANGED budget

Fails ==
  /\ faults < MaxFaults
  /\ faults' = faults + 1
  /\ UNCHANGED interrupts

Interrupted ==
  /\ interrupts < MaxInterrupts
  /\ interrupts' = interrupts + 1
  /\ UNCHANGED faults

Goto(label, index) == pc' = label /\ i' = index

\* `except BaseException`: roll back reversed(installed).
Raise == Goto("remove", installed)

-----------------------------------------------------------------------------
Init ==
  /\ had \in [Paths -> {"none", "old", "directory"}]
  /\ dir = had
  /\ tmp = [p \in Paths |-> "none"]
  /\ bak = [p \in Paths |-> "none"]
  /\ staged = {} /\ backups = {} /\ installed = 0
  /\ published = FALSE /\ unrestored = {}
  /\ pc = "validate" /\ i = 1
  /\ faults = 0 /\ interrupts = 0

\* A destination that exists and is not a file raises ValueError before
\* anything is touched.
Validate ==
  /\ pc = "validate"
  /\ IF \E p \in Paths : dir[p] = "directory" THEN Goto("rejected", i) ELSE Goto("stage", 1)
  /\ UNCHANGED <<files, locals, budget>>

\* _temporary_output(path) called by _stage_output.
CreateTemporary ==
  /\ pc = "stage"
  /\ \/ Succeeds /\ tmp' = [tmp EXCEPT ![i] = "partial"] /\ Goto("write", i)
     \/ Fails /\ UNCHANGED tmp /\ Raise
     \/ Interrupted /\ tmp' = [tmp EXCEPT ![i] = "partial"] /\ Raise
  /\ UNCHANGED <<had, dir, bak, locals>>

\* write, flush and fsync; a failure leaves the partial file to _stage_output's handler.
WriteTemporary ==
  /\ pc = "write"
  /\ \/ /\ Succeeds
        /\ tmp' = [tmp EXCEPT ![i] = "new"]
        /\ staged' = staged \union {i}
        /\ IF i = N THEN Goto("reserve", 1) ELSE Goto("stage", i + 1)
     \/ (Fails \/ Interrupted) /\ Goto("unstage", i) /\ UNCHANGED <<tmp, staged>>
  /\ UNCHANGED <<had, dir, bak, backups, installed, published, unrestored>>

\* _stage_output's handler: unlink the temporary and re-raise.
DiscardTemporary ==
  /\ pc = "unstage"
  /\ \/ (Succeeds \/ Interrupted) /\ tmp' = [tmp EXCEPT ![i] = "none"]
     \/ Fails /\ UNCHANGED tmp
  /\ UNCHANGED <<had, dir, bak, locals>>
  /\ Raise

\* If the path exists, reserve a name for its backup; otherwise install at once.
ReserveBackup ==
  /\ pc = "reserve"
  /\ \/ dir[i] = "none" /\ Succeeds /\ UNCHANGED bak /\ Goto("place", i)
     \/ /\ dir[i] # "none"
        /\ \/ Succeeds /\ bak' = [bak EXCEPT ![i] = "empty"] /\ Goto("release", i)
           \/ Fails /\ UNCHANGED bak /\ Raise
           \/ Interrupted /\ bak' = [bak EXCEPT ![i] = "empty"] /\ Raise
  /\ UNCHANGED <<had, dir, tmp, locals>>

\* os.close and backup.unlink(): the reserved name is free again.
ReleaseBackup ==
  /\ pc = "release"
  /\ \/ Succeeds /\ bak' = [bak EXCEPT ![i] = "none"] /\ Goto("retire", i)
     \/ (Fails \/ Interrupted) /\ UNCHANGED bak /\ Raise
     \/ Interrupted /\ bak' = [bak EXCEPT ![i] = "none"] /\ Raise
  /\ UNCHANGED <<had, dir, tmp, locals>>

\* path.replace(backup), then backups[path] = backup.
Retire ==
  /\ pc = "retire"
  /\ LET Moved == /\ dir' = [dir EXCEPT ![i] = "none"]
                  /\ bak' = [bak EXCEPT ![i] = "old"]
     IN \/ Succeeds /\ Moved /\ backups' = backups \union {i} /\ Goto("place", i)
        \/ Interrupted /\ Moved /\ UNCHANGED backups /\ Raise
        \/ Fails /\ UNCHANGED <<dir, bak, backups>> /\ Raise
  /\ UNCHANGED <<had, tmp, staged, installed, published, unrestored>>

PlaceUnnoted ==   \* mutant: the path is appended after the rename
  /\ pc = "place"
  /\ \/ /\ Succeeds
        /\ dir' = [dir EXCEPT ![i] = "new"] /\ tmp' = [tmp EXCEPT ![i] = "none"]
        /\ installed' = i
        /\ IF i = N THEN Goto("sync", i) ELSE Goto("reserve", i + 1)
     \/ (Fails \/ Interrupted) /\ UNCHANGED <<dir, tmp, installed>> /\ Raise
  /\ UNCHANGED <<had, bak, staged, backups, published, unrestored>>

\* installed.append(path), then staged[path].replace(path).
Place ==
  /\ pc = "place"
  /\ installed' = i
  /\ LET Moved == /\ dir' = [dir EXCEPT ![i] = "new"]
                  /\ tmp' = [tmp EXCEPT ![i] = "none"]
     IN \/ Succeeds /\ Moved /\ IF i = N THEN Goto("sync", i) ELSE Goto("reserve", i + 1)
        \/ Interrupted /\ Moved /\ Goto("remove", i)
        \/ (Fails \/ Interrupted) /\ UNCHANGED <<dir, tmp>> /\ Goto("remove", i)
  /\ UNCHANGED <<had, bak, staged, backups, published, unrestored>>

SyncPublished ==   \* mutant: published is set before the directories are synced
  /\ pc = "sync"
  /\ published' = TRUE
  /\ \/ Succeeds /\ Goto("tidy", 1)
     \/ (Fails \/ Interrupted) /\ Raise
  /\ UNCHANGED <<files, staged, backups, installed, unrestored>>

\* fsync every parent directory, then published = True.
SyncParents ==
  /\ pc = "sync"
  /\ \/ Succeeds /\ published' = TRUE /\ Goto("tidy", 1)
     \/ (Fails \/ Interrupted) /\ UNCHANGED published /\ Raise
  /\ UNCHANGED <<files, staged, backups, installed, unrestored>>

-----------------------------------------------------------------------------
(* The exception handler: for path in reversed(installed).                 *)

\* path.unlink(missing_ok=True); an OSError is noted and the loop goes on.
\* With no path left, the parents are synced and the exception re-raised.
RemoveInstalled ==
  /\ pc = "remove"
  /\ \/ i = 0 /\ (Succeeds \/ Fails \/ Interrupted) /\ Goto("tidy", 1) /\ UNCHANGED <<dir, unrestored>>
     \/ /\ i > 0
        /\ \/ Succeeds /\ dir' = [dir EXCEPT ![i] = "none"] /\ UNCHANGED unrestored /\ Goto("restore", i)
           \/ Fails /\ unrestored' = unrestored \union {i} /\ UNCHANGED dir /\ Goto("restore", i)
           \/ Interrupted /\ dir' = [dir EXCEPT ![i] = "none"] /\ UNCHANGED unrestored /\ Goto("tidy", 1)
  /\ UNCHANGED <<had, tmp, bak, staged, backups, installed, published>>

\* backups[path].replace(path), for a path that has a backup.
RestoreBackup ==
  /\ pc = "restore"
  /\ LET Moved == /\ dir' = [dir EXCEPT ![i] = "old"]
                  /\ bak' = [bak EXCEPT ![i] = "none"]
                  /\ UNCHANGED unrestored
     IN \/ i \in backups /\ Succeeds /\ Moved /\ Goto("remove", i - 1)
        \/ i \in backups /\ Interrupted /\ Moved /\ Goto("tidy", 1)
        \/ i \in backups /\ Fails /\ unrestored' = unrestored \union {i}
           /\ UNCHANGED <<dir, bak>> /\ Goto("remove", i - 1)
        \/ i \notin backups /\ Succeeds /\ UNCHANGED <<dir, bak, unrestored>> /\ Goto("remove", i - 1)
  /\ UNCHANGED <<had, tmp, staged, backups, installed, published>>

-----------------------------------------------------------------------------
(* The finally block.                                                      *)

NextTidy == IF i = N THEN Goto("drop", 1) ELSE Goto("tidy", i + 1)

TidyIfPublished ==   \* mutant: the temporaries are removed only when published, as the backups
  /\ pc = "tidy"
  /\ IF published /\ i \in staged THEN tmp' = [tmp EXCEPT ![i] = "none"] ELSE UNCHANGED tmp
  /\ Succeeds /\ NextTidy
  /\ UNCHANGED <<had, dir, bak, locals>>

\* Remove every staged temporary, suppressing OSError.
TidyStaged ==
  /\ pc = "tidy"
  /\ \/ i \in staged /\ Succeeds /\ tmp' = [tmp EXCEPT ![i] = "none"] /\ NextTidy
     \/ i \in staged /\ Fails /\ UNCHANGED tmp /\ NextTidy
     \/ i \in staged /\ Interrupted /\ tmp' = [tmp EXCEPT ![i] = "none"] /\ Goto("raised", i)
     \/ i \notin staged /\ Succeeds /\ UNCHANGED tmp /\ NextTidy
  /\ UNCHANGED <<had, dir, bak, locals>>

NextDrop ==
  IF i = N THEN Goto(IF published THEN "returned" ELSE "raised", i) ELSE Goto("drop", i + 1)

DropAlways ==   \* mutant: the backups go whether published or not
  /\ pc = "drop"
  /\ \/ i \in backups /\ Succeeds /\ bak' = [bak EXCEPT ![i] = "none"] /\ NextDrop
     \/ i \in backups /\ Fails /\ UNCHANGED bak /\ NextDrop
     \/ i \notin backups /\ Succeeds /\ UNCHANGED bak /\ NextDrop
  /\ UNCHANGED <<had, dir, tmp, locals>>

\* Only once published: remove every backup, suppressing OSError.
DropBackups ==
  /\ pc = "drop"
  /\ LET due == published /\ i \in backups IN
       \/ due /\ Succeeds /\ bak' = [bak EXCEPT ![i] = "none"] /\ NextDrop
       \/ due /\ Fails /\ UNCHANGED bak /\ NextDrop
       \/ due /\ Interrupted /\ bak' = [bak EXCEPT ![i] = "none"] /\ Goto("raised", i)
       \/ ~due /\ Succeeds /\ UNCHANGED bak /\ NextDrop
  /\ UNCHANGED <<had, dir, tmp, locals>>

Crash ==
  /\ pc \notin Ended
  /\ Goto("crashed", i)
  /\ UNCHANGED <<files, locals, budget>>

\* The call is over: nothing more happens.
Over == pc \in Ended /\ UNCHANGED vars

Next ==
  \/ Validate \/ CreateTemporary \/ WriteTemporary \/ DiscardTemporary
  \/ ReserveBackup \/ ReleaseBackup \/ Retire \/ Place \/ SyncParents
  \/ RemoveInstalled \/ RestoreBackup
  \/ TidyStaged \/ DropBackups
  \/ Crash \/ Over

Spec == Init /\ [][Next]_vars

-----------------------------------------------------------------------------
FileTypes ==
  /\ had \in [Paths -> {"none", "old", "directory"}]
  /\ dir \in [Paths -> {"none", "old", "new", "directory"}]
  /\ tmp \in [Paths -> {"none", "partial", "new"}]
  /\ bak \in [Paths -> {"none", "empty", "old"}]

LocalTypes ==
  /\ staged \subseteq Paths /\ backups \subseteq Paths /\ unrestored \subseteq Paths
  /\ installed \in 0..N
  /\ published \in BOOLEAN

ControlTypes ==
  /\ pc \in {"validate", "stage", "write", "unstage", "reserve", "release", "retire",
             "place", "sync", "remove", "restore", "tidy", "drop"} \union Ended
  /\ i \in 0..N /\ (pc \notin {"remove", "crashed"} => i \in Paths)
  /\ faults \in 0..MaxFaults
  /\ interrupts \in 0..MaxInterrupts

\* Only the rollback loop may run off the front of the paths.
TypeOK == FileTypes /\ LocalTypes /\ ControlTypes

(* No failure, interrupt or crash, at any step and in any combination,     *)
(* loses a file that was there before: until the whole group is published  *)
(* its content is under its own name or in the hidden backup beside it     *)
(* (_publish_outputs, and the finally block's test of `published`).        *)
NothingLost ==
  \A p \in Paths :
    had[p] = "old" => dir[p] = "old" \/ bak[p] = "old" \/ (published /\ dir[p] = "new")

(* A failed publication whose rollback hits no further failure leaves the  *)
(* directory as it found it, wherever among the calls it failed, and a     *)
(* published one shows every new file (the handler of _publish_outputs).   *)
AllOrNothing ==
  /\ pc \in {"raised", "rejected"} /\ unrestored = {} /\ interrupts = 0 => dir = had
  /\ published => \A p \in Paths : dir[p] = "new"

Leftovers == {p \in Paths : tmp[p] # "none"} \X {"tmp"} \union {p \in Paths : bak[p] # "none"} \X {"bak"}

(* When the call ends by itself, each hidden file left in the directory is *)
(* accounted for by a call that failed: no single failure leaves two files *)
(* behind, and a run without failures leaves none (the handler of          *)
(* _stage_output and the finally block of _publish_outputs).               *)
LeftoversHaveFaults ==
  pc \in Ended \ {"crashed"} /\ interrupts = 0 => Cardinality(Leftovers) <= faults

(* One KeyboardInterrupt before the group is published, with no failure in *)
(* the rollback, is rolled back like any other exception: the handler      *)
(* catches BaseException in order to restore every file.                   *)
InterruptRestores ==
  pc = "raised" /\ ~published /\ unrestored = {} /\ faults = 0 /\ interrupts = 1 => dir = had

-----------------------------------------------------------------------------
(* Publish implements Publication: what is shown and what is kept are the  *)
(* directory's files; the outcome is read off the flag and the exception.  *)
Outcome ==
  IF published THEN "committed"
  ELSE IF pc = "rejected" \/ (pc = "raised" /\ unrestored = {} /\ interrupts = 0) THEN "aborted"
  ELSE IF pc \in {"raised", "crashed"} THEN "abandoned" ELSE "open"

Promise == INSTANCE Publication WITH before <- had, shown <- dir, kept <- bak, outcome <- Outcome

(* Every step of the call is a step of the promise or invisible to it: the *)
(* commit makes every file new at once, nothing touches a file afterwards, *)
(* an abort restores the directory, and no step drops an old file before.  *)
Keeps == Promise!PubSpec
=============================================================================
