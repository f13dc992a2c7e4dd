--------------------------- MODULE Publish_proofs ---------------------------
(***************************************************************************)
(* Proofs about Publish, for every number of files and every number of     *)
(* failures and interrupts: no old file is ever lost, and a failure that   *)
(* the rollback survives leaves the directory as it was.                   *)
(***************************************************************************)
EXTENDS Publish, FiniteSetTheorems, TLAPS

Before == {"validate", "stage", "write", "unstage"}
Swapping == {"reserve", "release", "retire", "place"}
Undoing == {"remove", "restore"}
Finishing == {"tidy", "drop", "returned", "raised"}

\* Where the content a path had is to be found.
Safe(p) ==
  \/ dir[p] = had[p] /\ bak[p] # "old"
  \/ had[p] = "old" /\ bak[p] = "old" /\ dir[p] \in {"none", "new"}
  \/ had[p] = "none" /\ dir[p] = "new" /\ bak[p] # "old"
  \/ published /\ dir[p] = "new"

\* Nothing has gone wrong that the rollback could not undo.
Undoable == unrestored = {} /\ interrupts = 0

\* While paths are swapped, those before i are new, those after i untouched.
SwapInv ==
  pc \in Swapping =>
    /\ i \in Paths /\ installed = i - 1 /\ unrestored = {}
    /\ \A p \in Paths : p < i => dir[p] = "new" /\ (p \in backups <=> had[p] = "old")
    /\ \A p \in Paths : p > i => dir[p] = had[p] /\ bak[p] = "none" /\ p \notin backups
    /\ pc = "place" => dir[i] = "none" /\ (i \in backups <=> had[i] = "old")
    /\ pc # "place" => dir[i] = had[i] /\ bak[i] # "old" /\ i \notin backups
    /\ pc \in {"release", "retire"} => had[i] = "old"

\* While the rollback is at path i, the paths up to i are not yet restored.
UndoInv ==
  /\ pc \in Undoing =>
       /\ \A p \in Paths : p <= i => dir[p] \in {"none", "new"} /\ (p \in backups <=> had[p] = "old")
       /\ Undoable => \A p \in Paths : p > i => dir[p] = had[p]
  /\ pc = "restore" => i \in Paths /\ (Undoable => dir[i] = "none")

\* Past validation no path is a directory.
FilesInv == pc \notin {"validate", "rejected", "crashed"} => \A p \in Paths : had[p] # "directory"

\* Until the first swap no path has been touched.
BeforeInv ==
  /\ pc \in Before =>
       /\ installed = 0 /\ backups = {} /\ unrestored = {}
       /\ \A p \in Paths : dir[p] = had[p] /\ bak[p] = "none"
  /\ pc = "rejected" => dir = had

\* After the last swap every path is new.
SyncInv ==
  pc = "sync" =>
    /\ installed = N /\ unrestored = {}
    /\ \A p \in Paths : dir[p] = "new" /\ (p \in backups <=> had[p] = "old")

\* A rollback that met no further failure has restored every path.
DoneInv ==
  pc \in {"tidy", "drop", "raised"} /\ ~published /\ Undoable => \A p \in Paths : dir[p] = had[p]

\* A backup not yet restored holds the old file.
BackupInv ==
  \A p \in backups : pc \notin Finishing \union {"crashed"} /\ (pc \in Undoing => p <= i) => bak[p] = "old"

PublishedInv ==
  published =>
    /\ pc \in Finishing \union {"crashed"} /\ (pc = "raised" => interrupts > 0)
    /\ \A p \in Paths : dir[p] = "new"

SafeAll == \A p \in Paths : Safe(p)

IInv ==
  /\ SafeAll /\ FilesInv /\ BeforeInv /\ SwapInv /\ SyncInv /\ UndoInv
  /\ DoneInv /\ BackupInv /\ PublishedInv

-----------------------------------------------------------------------------
(* Every variable keeps its type (all of _publish_outputs). *)
THEOREM TypeCorrect == Spec => []TypeOK
<1> USE PublishAssumption DEF PublishAssumption
<1>1. Init => TypeOK
  <2> SUFFICES ASSUME Init PROVE TypeOK
    OBVIOUS
  <2>1. FileTypes
    <3>1. dir \in [Paths -> {"none", "old", "new", "directory"}]
      <4>1. /\ dir = had /\ had = [p \in Paths |-> had[p]]
            /\ \A p \in Paths : had[p] \in {"none", "old", "directory"}
        BY DEF Init
      <4>2. QED
        BY <4>1
    <3>2. QED
      BY <3>1 DEF Init, FileTypes
  <2>2. LocalTypes
    <3>1. installed \in 0..N
      BY DEF Init
    <3>2. staged \subseteq Paths /\ backups \subseteq Paths /\ unrestored \subseteq Paths
      BY DEF Init
    <3>3. QED
      BY <3>1, <3>2, Zenon DEF Init, LocalTypes
  <2>3. ControlTypes
    BY DEF Init, ControlTypes, Ended, Paths
  <2>4. QED
    BY <2>1, <2>2, <2>3 DEF TypeOK
<1>2. TypeOK /\ [Next]_vars => TypeOK'
  <2> SUFFICES ASSUME TypeOK, [Next]_vars PROVE TypeOK'
    OBVIOUS
  <2> USE DEF TypeOK, vars, files, locals, control, budget
  <2>1. CASE Validate
    <3>1. FileTypes'
      BY <2>1 DEF Validate, FileTypes
    <3>2. LocalTypes'
      BY <2>1 DEF Validate, LocalTypes, FileTypes, ControlTypes, Paths, Goto, Raise
    <3>3. ControlTypes'
      BY <2>1 DEF Validate, ControlTypes, LocalTypes, Ended, Paths, Succeeds, Fails, Interrupted, Goto, Raise
    <3>4. QED
      BY <3>1, <3>2, <3>3
  <2>2. CASE CreateTemporary
    <3>1. FileTypes'
      BY <2>2 DEF CreateTemporary, FileTypes
    <3>2. LocalTypes'
      BY <2>2 DEF CreateTemporary, LocalTypes, FileTypes, ControlTypes, Paths, Goto, Raise
    <3>3. ControlTypes'
      BY <2>2 DEF CreateTemporary, ControlTypes, LocalTypes, Ended, Paths, Succeeds, Fails, Interrupted, Goto, Raise
    <3>4. QED
      BY <3>1, <3>2, <3>3
  <2>3. CASE WriteTemporary
    <3>1. FileTypes'
      BY <2>3 DEF WriteTemporary, FileTypes
    <3>2. LocalTypes'
      BY <2>3 DEF WriteTemporary, LocalTypes, FileTypes, ControlTypes, Paths, Goto, Raise
    <3>3. ControlTypes'
      BY <2>3 DEF WriteTemporary, ControlTypes, LocalTypes, Ended, Paths, Succeeds, Fails, Interrupted, Goto, Raise
    <3>4. QED
      BY <3>1, <3>2, <3>3
  <2>4. CASE DiscardTemporary
    <3>1. FileTypes'
      BY <2>4 DEF DiscardTemporary, FileTypes
    <3>2. LocalTypes'
      BY <2>4 DEF DiscardTemporary, LocalTypes, FileTypes, ControlTypes, Paths, Goto, Raise
    <3>3. ControlTypes'
      BY <2>4 DEF DiscardTemporary, ControlTypes, LocalTypes, Ended, Paths, Succeeds, Fails, Interrupted, Goto, Raise
    <3>4. QED
      BY <3>1, <3>2, <3>3
  <2>5. CASE ReserveBackup
    <3>1. FileTypes'
      BY <2>5 DEF ReserveBackup, FileTypes
    <3>2. LocalTypes'
      BY <2>5 DEF ReserveBackup, LocalTypes, FileTypes, ControlTypes, Paths, Goto, Raise
    <3>3. ControlTypes'
      BY <2>5 DEF ReserveBackup, ControlTypes, LocalTypes, Ended, Paths, Succeeds, Fails, Interrupted, Goto, Raise
    <3>4. QED
      BY <3>1, <3>2, <3>3
  <2>6. CASE ReleaseBackup
    <3>1. FileTypes'
      BY <2>6 DEF ReleaseBackup, FileTypes
    <3>2. LocalTypes'
      BY <2>6 DEF ReleaseBackup, LocalTypes, FileTypes, ControlTypes, Paths, Goto, Raise
    <3>3. ControlTypes'
      BY <2>6 DEF ReleaseBackup, ControlTypes, LocalTypes, Ended, Paths, Succeeds, Fails, Interrupted, Goto, Raise
    <3>4. QED
      BY <3>1, <3>2, <3>3
  <2>7. CASE Retire
    <3>1. FileTypes'
      BY <2>7 DEF Retire, FileTypes
    <3>2. LocalTypes'
      BY <2>7 DEF Retire, LocalTypes, FileTypes, ControlTypes, Paths, Goto, Raise
    <3>3. ControlTypes'
      BY <2>7 DEF Retire, ControlTypes, LocalTypes, Ended, Paths, Succeeds, Fails, Interrupted, Goto, Raise
    <3>4. QED
      BY <3>1, <3>2, <3>3
  <2>8. CASE Place
    <3>1. FileTypes'
      BY <2>8 DEF Place, FileTypes
    <3>2. LocalTypes'
      BY <2>8 DEF Place, LocalTypes, FileTypes, ControlTypes, Paths, Goto, Raise
    <3>3. ControlTypes'
      BY <2>8 DEF Place, ControlTypes, LocalTypes, Ended, Paths, Succeeds, Fails, Interrupted, Goto, Raise
    <3>4. QED
      BY <3>1, <3>2, <3>3
  <2>9. CASE SyncParents
    <3>1. FileTypes'
      BY <2>9 DEF SyncParents, FileTypes
    <3>2. LocalTypes'
      BY <2>9 DEF SyncParents, LocalTypes, FileTypes, ControlTypes, Paths, Goto, Raise
    <3>3. ControlTypes'
      BY <2>9 DEF SyncParents, ControlTypes, LocalTypes, Ended, Paths, Succeeds, Fails, Interrupted, Goto, Raise
    <3>4. QED
      BY <3>1, <3>2, <3>3
  <2>10. CASE RemoveInstalled
    <3>1. FileTypes'
      BY <2>10 DEF RemoveInstalled, FileTypes
    <3>2. LocalTypes'
      <4>1. i > 0 => i \in Paths
        BY DEF ControlTypes, Paths
      <4>2. unrestored' \subseteq Paths
        BY <2>10, <4>1 DEF RemoveInstalled, LocalTypes
      <4>3. QED
        BY <2>10, <4>2 DEF RemoveInstalled, LocalTypes
    <3>3. ControlTypes'
      <4>1. faults' \in 0..MaxFaults /\ interrupts' \in 0..MaxInterrupts
        BY <2>10 DEF RemoveInstalled, ControlTypes, Succeeds, Fails, Interrupted
      <4>2. i \in 0..N /\ 1 \in Paths /\ (i > 0 => i \in Paths)
        BY DEF ControlTypes, Paths
      <4>3. \/ pc' = "tidy" /\ i' = 1
            \/ pc' = "restore" /\ i' = i /\ i > 0
        BY <2>10 DEF RemoveInstalled, Goto
      <4>4. i' \in 0..N /\ i' \in Paths /\ pc' \in {"tidy", "restore"}
        BY <4>2, <4>3 DEF Paths
      <4>5. QED
        BY <4>1, <4>4 DEF ControlTypes
    <3>4. QED
      BY <3>1, <3>2, <3>3
  <2>11. CASE RestoreBackup
    <3>1. FileTypes'
      BY <2>11 DEF RestoreBackup, FileTypes
    <3>2. LocalTypes'
      BY <2>11 DEF RestoreBackup, LocalTypes, FileTypes, ControlTypes, Paths, Goto, Raise
    <3>3. ControlTypes'
      BY <2>11 DEF RestoreBackup, ControlTypes, LocalTypes, Ended, Paths, Succeeds, Fails, Interrupted, Goto, Raise
    <3>4. QED
      BY <3>1, <3>2, <3>3
  <2>12. CASE TidyStaged
    <3>1. FileTypes'
      BY <2>12 DEF TidyStaged, FileTypes
    <3>2. LocalTypes'
      BY <2>12 DEF TidyStaged, LocalTypes, FileTypes, ControlTypes, Paths, Goto, Raise, NextTidy
    <3>3. ControlTypes'
      BY <2>12 DEF TidyStaged, ControlTypes, LocalTypes, Ended, Paths, Succeeds, Fails, Interrupted, Goto, Raise, NextTidy
    <3>4. QED
      BY <3>1, <3>2, <3>3
  <2>13. CASE DropBackups
    <3>1. FileTypes'
      BY <2>13 DEF DropBackups, FileTypes
    <3>2. LocalTypes'
      BY <2>13 DEF DropBackups, LocalTypes, FileTypes, ControlTypes, Paths, Goto, Raise, NextDrop
    <3>3. ControlTypes'
      BY <2>13 DEF DropBackups, ControlTypes, LocalTypes, Ended, Paths, Succeeds, Fails, Interrupted, Goto, Raise, NextDrop
    <3>4. QED
      BY <3>1, <3>2, <3>3
  <2>14. CASE Crash
    <3>1. FileTypes'
      BY <2>14 DEF Crash, FileTypes
    <3>2. LocalTypes'
      BY <2>14 DEF Crash, LocalTypes, FileTypes, ControlTypes, Paths, Goto, Raise
    <3>3. ControlTypes'
      BY <2>14 DEF Crash, ControlTypes, LocalTypes, Ended, Paths, Succeeds, Fails, Interrupted, Goto, Raise
    <3>4. QED
      BY <3>1, <3>2, <3>3
  <2>15. CASE Over
    <3>1. FileTypes'
      BY <2>15 DEF Over, FileTypes
    <3>2. LocalTypes'
      BY <2>15 DEF Over, LocalTypes, FileTypes, ControlTypes, Paths, Goto, Raise
    <3>3. ControlTypes'
      BY <2>15 DEF Over, ControlTypes, LocalTypes, Ended, Paths, Succeeds, Fails, Interrupted, Goto, Raise
    <3>4. QED
      BY <3>1, <3>2, <3>3
  <2>16. CASE UNCHANGED vars
    BY <2>16 DEF FileTypes, LocalTypes, ControlTypes
  <2>17. QED
    BY <2>1, <2>2, <2>3, <2>4, <2>5, <2>6, <2>7, <2>8, <2>9, <2>10, <2>11, <2>12, <2>13, <2>14, <2>15, <2>16 DEF Next
<1>3. QED
  BY <1>1, <1>2, PTL DEF Spec

-----------------------------------------------------------------------------
(* No step of _publish_outputs leads out of IInv. *)
LEMMA Inductive == TypeOK /\ TypeOK' /\ IInv /\ [Next]_vars => IInv'
<1> SUFFICES ASSUME TypeOK, TypeOK', IInv, [Next]_vars PROVE IInv'
  OBVIOUS
<1> USE PublishAssumption DEF PublishAssumption, TypeOK, IInv, files, locals, control, budget
<1>1. CASE Validate
  <2>1. SafeAll'
    BY <1>1 DEF Validate, SafeAll, Safe, Goto
  <2>2. FilesInv'
    BY <1>1 DEF Validate, FilesInv, Goto, Raise, BeforeInv, Before
  <2>3. BeforeInv'
    BY <1>1 DEF Validate, BeforeInv, Before, Goto, Raise, FileTypes, LocalTypes, ControlTypes,
       Paths, Succeeds, Fails, Interrupted, FilesInv, SafeAll, Safe, PublishedInv, Finishing,
       Undoable
  <2>4. SwapInv'
    BY <1>1 DEF Validate, SwapInv, Swapping, Goto
  <2>5. SyncInv'
    BY <1>1 DEF Validate, SyncInv, Goto
  <2>6. UndoInv'
    BY <1>1 DEF Validate, UndoInv, Undoing, Undoable, Goto
  <2>7. DoneInv'
    BY <1>1 DEF Validate, DoneInv, Undoable, Goto
  <2>8. BackupInv'
    BY <1>1 DEF Validate, BackupInv, Undoing, Finishing, Goto
  <2>9. PublishedInv'
    BY <1>1 DEF Validate, PublishedInv, Finishing, Goto
  <2>10. QED
    BY <2>1, <2>2, <2>3, <2>4, <2>5, <2>6, <2>7, <2>8, <2>9
<1>2. CASE CreateTemporary
  <2>1. SafeAll'
    BY <1>2 DEF CreateTemporary, SafeAll, Safe, Goto
  <2>2. FilesInv'
    BY <1>2 DEF CreateTemporary, FilesInv, Goto
  <2>3. BeforeInv'
    BY <1>2 DEF CreateTemporary, BeforeInv, Before, Goto, Raise
  <2>4. SwapInv'
    BY <1>2 DEF CreateTemporary, SwapInv, Swapping, Goto, Raise, BeforeInv, Before
  <2>5. SyncInv'
    BY <1>2 DEF CreateTemporary, SyncInv, Goto, Raise, BeforeInv, Before
  <2>6. UndoInv'
    BY <1>2 DEF CreateTemporary, UndoInv, Undoing, Undoable, Goto, Raise, BeforeInv, Before,
       FileTypes, LocalTypes, ControlTypes, Paths, Succeeds, Fails, Interrupted, FilesInv, SafeAll,
       Safe, PublishedInv, Finishing
  <2>7. DoneInv'
    BY <1>2 DEF CreateTemporary, DoneInv, Undoable, Goto, Raise, BeforeInv, Before
  <2>8. BackupInv'
    BY <1>2 DEF CreateTemporary, BackupInv, Undoing, Finishing, Goto
  <2>9. PublishedInv'
    BY <1>2 DEF CreateTemporary, PublishedInv, Finishing, Goto
  <2>10. QED
    BY <2>1, <2>2, <2>3, <2>4, <2>5, <2>6, <2>7, <2>8, <2>9
<1>3. CASE WriteTemporary
  <2>1. SafeAll'
    BY <1>3 DEF WriteTemporary, SafeAll, Safe, Goto
  <2>2. FilesInv'
    BY <1>3 DEF WriteTemporary, FilesInv, Goto
  <2>3. BeforeInv'
    BY <1>3 DEF WriteTemporary, BeforeInv, Before, Goto
  <2>4. SwapInv'
    BY <1>3 DEF WriteTemporary, SwapInv, Swapping, Goto, Raise, BeforeInv, Before, FileTypes,
       LocalTypes, ControlTypes, Paths, Succeeds, Fails, Interrupted, FilesInv, SafeAll, Safe,
       PublishedInv, Finishing, Undoable
  <2>5. SyncInv'
    BY <1>3 DEF WriteTemporary, SyncInv, Goto
  <2>6. UndoInv'
    BY <1>3 DEF WriteTemporary, UndoInv, Undoing, Undoable, Goto
  <2>7. DoneInv'
    BY <1>3 DEF WriteTemporary, DoneInv, Undoable, Goto
  <2>8. BackupInv'
    BY <1>3 DEF WriteTemporary, BackupInv, Undoing, Finishing, Goto
  <2>9. PublishedInv'
    BY <1>3 DEF WriteTemporary, PublishedInv, Finishing, Goto
  <2>10. QED
    BY <2>1, <2>2, <2>3, <2>4, <2>5, <2>6, <2>7, <2>8, <2>9
<1>4. CASE DiscardTemporary
  <2>1. SafeAll'
    BY <1>4 DEF DiscardTemporary, SafeAll, Safe, Goto
  <2>2. FilesInv'
    BY <1>4 DEF DiscardTemporary, FilesInv, Goto
  <2>3. BeforeInv'
    BY <1>4 DEF DiscardTemporary, BeforeInv, Before, Goto, Raise
  <2>4. SwapInv'
    BY <1>4 DEF DiscardTemporary, SwapInv, Swapping, Goto, Raise, BeforeInv, Before
  <2>5. SyncInv'
    BY <1>4 DEF DiscardTemporary, SyncInv, Goto, Raise, BeforeInv, Before
  <2>6. UndoInv'
    BY <1>4 DEF DiscardTemporary, UndoInv, Undoing, Undoable, Goto, Raise, BeforeInv, Before,
       FileTypes, LocalTypes, ControlTypes, Paths, Succeeds, Fails, Interrupted, FilesInv, SafeAll,
       Safe, PublishedInv, Finishing
  <2>7. DoneInv'
    BY <1>4 DEF DiscardTemporary, DoneInv, Undoable, Goto, Raise, BeforeInv, Before
  <2>8. BackupInv'
    BY <1>4 DEF DiscardTemporary, BackupInv, Undoing, Finishing, Goto
  <2>9. PublishedInv'
    BY <1>4 DEF DiscardTemporary, PublishedInv, Finishing, Goto
  <2>10. QED
    BY <2>1, <2>2, <2>3, <2>4, <2>5, <2>6, <2>7, <2>8, <2>9
<1>5. CASE ReserveBackup
  <2>1. SafeAll'
    BY <1>5 DEF ReserveBackup, SafeAll, Safe, Goto, Raise, SwapInv, Swapping, FileTypes, LocalTypes,
       ControlTypes, Paths, Succeeds, Fails, Interrupted, FilesInv, PublishedInv, Finishing,
       Undoable
  <2>2. FilesInv'
    BY <1>5 DEF ReserveBackup, FilesInv, Goto
  <2>3. BeforeInv'
    BY <1>5 DEF ReserveBackup, BeforeInv, Before, Goto, Raise, SwapInv, Swapping
  <2>4. SwapInv'
    <3>1. CASE pc' \notin Swapping
      BY <3>1 DEF SwapInv
    <3>2. CASE pc' \in Swapping
      <4>1. pc \in Swapping /\ pc' \in {"place", "release"} /\ i \in Paths
        BY <1>5, <3>2 DEF ReserveBackup, SwapInv, Swapping, Goto, Raise
      <4>2. i' = i /\ dir' = dir /\ had' = had /\ backups' = backups
            /\ installed' = installed /\ unrestored' = unrestored
        BY <1>5, <3>2 DEF ReserveBackup, Goto, Raise, Swapping
      <4>3. \A p \in Paths : p > i => bak'[p] = bak[p]
        BY <1>5, <4>1 DEF ReserveBackup, FileTypes, Paths
      <4>4. /\ pc' = "place" => dir[i] = "none" /\ had[i] # "old"
            /\ pc' = "release" => had[i] = "old" /\ bak'[i] # "old"
        BY <1>5, <3>2, <4>1 DEF ReserveBackup, SwapInv, FilesInv, FileTypes, Swapping, Goto, Raise
      <4>5. i \notin backups /\ dir[i] = had[i]
        BY <1>5, <4>1 DEF ReserveBackup, SwapInv
      <4>6. QED
        BY <4>1, <4>2, <4>3, <4>4, <4>5 DEF SwapInv
    <3>3. QED
      BY <3>1, <3>2
  <2>5. SyncInv'
    BY <1>5 DEF ReserveBackup, SyncInv, Goto, Raise, SwapInv, Swapping
  <2>6. UndoInv'
    BY <1>5 DEF ReserveBackup, UndoInv, Undoing, Undoable, Goto, Raise, SwapInv, Swapping,
       FileTypes, LocalTypes, ControlTypes, Paths, Succeeds, Fails, Interrupted, FilesInv, SafeAll,
       Safe, PublishedInv, Finishing
  <2>7. DoneInv'
    BY <1>5 DEF ReserveBackup, DoneInv, Undoable, Goto, Raise, SwapInv, Swapping
  <2>8. BackupInv'
    BY <1>5 DEF ReserveBackup, BackupInv, Undoing, Finishing, Goto, Raise, SwapInv, Swapping,
       FileTypes, LocalTypes, ControlTypes, Paths, Succeeds, Fails, Interrupted, FilesInv, SafeAll,
       Safe, PublishedInv, Undoable
  <2>9. PublishedInv'
    BY <1>5 DEF ReserveBackup, PublishedInv, Finishing, Goto
  <2>10. QED
    BY <2>1, <2>2, <2>3, <2>4, <2>5, <2>6, <2>7, <2>8, <2>9
<1>6. CASE ReleaseBackup
  <2>1. SafeAll'
    BY <1>6 DEF ReleaseBackup, SafeAll, Safe, Goto, Raise, SwapInv, Swapping, FileTypes, LocalTypes,
       ControlTypes, Paths, Succeeds, Fails, Interrupted, FilesInv, PublishedInv, Finishing,
       Undoable
  <2>2. FilesInv'
    BY <1>6 DEF ReleaseBackup, FilesInv, Goto
  <2>3. BeforeInv'
    BY <1>6 DEF ReleaseBackup, BeforeInv, Before, Goto, Raise, SwapInv, Swapping
  <2>4. SwapInv'
    <3>1. CASE pc' \notin Swapping
      BY <3>1 DEF SwapInv
    <3>2. CASE pc' \in Swapping
      <4>1. pc \in Swapping /\ pc = "release" /\ pc' = "retire" /\ i \in Paths
        BY <1>6, <3>2 DEF ReleaseBackup, SwapInv, Swapping, Goto, Raise
      <4>2. i' = i /\ dir' = dir /\ had' = had /\ backups' = backups
            /\ installed' = installed /\ unrestored' = unrestored
        BY <1>6, <3>2 DEF ReleaseBackup, Goto, Raise, Swapping
      <4>3. /\ bak'[i] # "old"
            /\ \A p \in Paths : p > i => bak'[p] = bak[p]
        BY <1>6, <4>1, <3>2 DEF ReleaseBackup, FileTypes, Paths, SwapInv, Goto, Raise, Swapping
      <4>4. QED
        BY <4>1, <4>2, <4>3 DEF SwapInv
    <3>3. QED
      BY <3>1, <3>2
  <2>5. SyncInv'
    BY <1>6 DEF ReleaseBackup, SyncInv, Goto, Raise, SwapInv, Swapping
  <2>6. UndoInv'
    BY <1>6 DEF ReleaseBackup, UndoInv, Undoing, Undoable, Goto, Raise, SwapInv, Swapping,
       FileTypes, LocalTypes, ControlTypes, Paths, Succeeds, Fails, Interrupted, FilesInv, SafeAll,
       Safe, PublishedInv, Finishing
  <2>7. DoneInv'
    BY <1>6 DEF ReleaseBackup, DoneInv, Undoable, Goto, Raise, SwapInv, Swapping
  <2>8. BackupInv'
    BY <1>6 DEF ReleaseBackup, BackupInv, Undoing, Finishing, Goto, Raise, SwapInv, Swapping,
       FileTypes, LocalTypes, ControlTypes, Paths, Succeeds, Fails, Interrupted, FilesInv, SafeAll,
       Safe, PublishedInv, Undoable
  <2>9. PublishedInv'
    BY <1>6 DEF ReleaseBackup, PublishedInv, Finishing, Goto
  <2>10. QED
    BY <2>1, <2>2, <2>3, <2>4, <2>5, <2>6, <2>7, <2>8, <2>9
<1>7. CASE Retire
  <2>1. SafeAll'
    BY <1>7 DEF Retire, SafeAll, Safe, Goto, Raise, SwapInv, Swapping, FileTypes, LocalTypes,
       ControlTypes, Paths, Succeeds, Fails, Interrupted, FilesInv, PublishedInv, Finishing,
       Undoable
  <2>2. FilesInv'
    BY <1>7 DEF Retire, FilesInv, Goto
  <2>3. BeforeInv'
    BY <1>7 DEF Retire, BeforeInv, Before, Goto, Raise, SwapInv, Swapping
  <2>4. SwapInv'
    <3>1. CASE pc' \notin Swapping
      BY <3>1 DEF SwapInv
    <3>2. CASE pc' \in Swapping
      <4>1. pc = "retire" /\ pc' = "place" /\ i \in Paths /\ i' = i
        BY <1>7, <3>2 DEF Retire, SwapInv, Swapping, Goto, Raise
      <4>2. had' = had /\ installed' = installed /\ unrestored' = unrestored
        BY <1>7 DEF Retire
      <4>3. dir' = [dir EXCEPT ![i] = "none"] /\ bak' = [bak EXCEPT ![i] = "old"]
            /\ backups' = backups \union {i}
        BY <1>7, <3>2 DEF Retire, Swapping, Goto, Raise
      <4>4. pc \in Swapping /\ had[i] = "old"
        BY <4>1 DEF SwapInv, Swapping
      <4>5. dir'[i] = "none" /\ i \in backups'
        BY <4>1, <4>3 DEF FileTypes
      <4>6. \A p \in Paths : p # i => dir'[p] = dir[p] /\ bak'[p] = bak[p] /\ (p \in backups' <=> p \in backups)
        BY <4>1, <4>3 DEF FileTypes
      <4>7. \A p \in Paths : (p < i => p # i) /\ (p > i => p # i)
        BY DEF Paths, ControlTypes
      <4>8. QED
        BY <4>1, <4>2, <4>4, <4>5, <4>6, <4>7 DEF SwapInv
    <3>3. QED
      BY <3>1, <3>2
  <2>5. SyncInv'
    BY <1>7 DEF Retire, SyncInv, Goto, Raise, SwapInv, Swapping
  <2>6. UndoInv'
    BY <1>7 DEF Retire, UndoInv, Undoing, Undoable, Goto, Raise, SwapInv, Swapping, FileTypes,
       LocalTypes, ControlTypes, Paths, Succeeds, Fails, Interrupted, FilesInv, SafeAll, Safe,
       PublishedInv, Finishing
  <2>7. DoneInv'
    BY <1>7 DEF Retire, DoneInv, Undoable, Goto, Raise, SwapInv, Swapping
  <2>8. BackupInv'
    BY <1>7 DEF Retire, BackupInv, Undoing, Finishing, Goto, Raise, SwapInv, Swapping, FileTypes,
       LocalTypes, ControlTypes, Paths, Succeeds, Fails, Interrupted, FilesInv, SafeAll, Safe,
       PublishedInv, Undoable
  <2>9. PublishedInv'
    BY <1>7 DEF Retire, PublishedInv, Finishing, Goto
  <2>10. QED
    BY <2>1, <2>2, <2>3, <2>4, <2>5, <2>6, <2>7, <2>8, <2>9
<1>8. CASE Place
  <2>1. SafeAll'
    BY <1>8 DEF Place, SafeAll, Safe, Goto, Raise, SwapInv, Swapping, FileTypes, LocalTypes,
       ControlTypes, Paths, Succeeds, Fails, Interrupted, FilesInv, PublishedInv, Finishing,
       Undoable
  <2>2. FilesInv'
    BY <1>8 DEF Place, FilesInv, Goto
  <2>3. BeforeInv'
    BY <1>8 DEF Place, BeforeInv, Before, Goto
  <2>4. SwapInv'
    <3>1. CASE pc' \notin Swapping
      BY <3>1 DEF SwapInv
    <3>2. CASE pc' \in Swapping
      <4>1. pc = "place" /\ pc' = "reserve" /\ i \in Paths /\ i # N
            /\ i' = i + 1 /\ installed' = i
        BY <1>8, <3>2 DEF Place, SwapInv, Swapping, Goto
      <4>2. had' = had /\ bak' = bak /\ backups' = backups /\ unrestored' = unrestored
        BY <1>8 DEF Place
      <4>3. dir' = [dir EXCEPT ![i] = "new"]
        BY <1>8, <3>2 DEF Place, Swapping, Goto
      <4>4. i' \in Paths /\ installed' = i' - 1
        BY <4>1 DEF Paths
      <4>5. dir'[i] = "new" /\ \A p \in Paths : p # i => dir'[p] = dir[p]
        BY <4>1, <4>3 DEF FileTypes
      <4>6. \A p \in Paths : (p < i' => p < i \/ p = i) /\ (p > i' => p > i) /\ (p > i => p # i) /\ (p < i => p # i)
        BY <4>1 DEF Paths
      <4>7. i' > i
        BY <4>1 DEF Paths
      <4>8. pc \in Swapping
        BY <4>1 DEF Swapping
      <4>9. \A p \in Paths : p < i' => dir'[p] = "new" /\ (p \in backups' <=> had'[p] = "old")
        BY <4>1, <4>2, <4>5, <4>6, <4>8 DEF SwapInv
      <4>10. \A p \in Paths : p > i => dir'[p] = had'[p] /\ bak'[p] = "none" /\ p \notin backups'
        BY <4>2, <4>5, <4>6, <4>8 DEF SwapInv
      <4>11. QED
        BY <4>1, <4>2, <4>4, <4>6, <4>7, <4>8, <4>9, <4>10 DEF SwapInv
    <3>3. QED
      BY <3>1, <3>2
  <2>5. SyncInv'
    BY <1>8 DEF Place, SyncInv, Goto, Raise, SwapInv, Swapping, FileTypes, LocalTypes, ControlTypes,
       Paths, Succeeds, Fails, Interrupted, FilesInv, SafeAll, Safe, PublishedInv, Finishing,
       Undoable
  <2>6. UndoInv'
    BY <1>8 DEF Place, UndoInv, Undoing, Undoable, Goto, Raise, SwapInv, Swapping, FileTypes,
       LocalTypes, ControlTypes, Paths, Succeeds, Fails, Interrupted, FilesInv, SafeAll, Safe,
       PublishedInv, Finishing
  <2>7. DoneInv'
    BY <1>8 DEF Place, DoneInv, Undoable, Goto
  <2>8. BackupInv'
    BY <1>8 DEF Place, BackupInv, Undoing, Finishing, Goto
  <2>9. PublishedInv'
    BY <1>8 DEF Place, PublishedInv, Finishing, Goto
  <2>10. QED
    BY <2>1, <2>2, <2>3, <2>4, <2>5, <2>6, <2>7, <2>8, <2>9
<1>9. CASE SyncParents
  <2>1. SafeAll'
    BY <1>9 DEF SyncParents, SafeAll, Safe, Goto
  <2>2. FilesInv'
    BY <1>9 DEF SyncParents, FilesInv, Goto
  <2>3. BeforeInv'
    BY <1>9 DEF SyncParents, BeforeInv, Before, Goto, Raise, SyncInv
  <2>4. SwapInv'
    BY <1>9 DEF SyncParents, SwapInv, Swapping, Goto, Raise, SyncInv
  <2>5. SyncInv'
    BY <1>9 DEF SyncParents, SyncInv, Goto
  <2>6. UndoInv'
    BY <1>9 DEF SyncParents, UndoInv, Undoing, Undoable, Goto, Raise, SyncInv, FileTypes,
       LocalTypes, ControlTypes, Paths, Succeeds, Fails, Interrupted, FilesInv, SafeAll, Safe,
       PublishedInv, Finishing
  <2>7. DoneInv'
    BY <1>9 DEF SyncParents, DoneInv, Undoable, Goto, Raise, SyncInv
  <2>8. BackupInv'
    BY <1>9 DEF SyncParents, BackupInv, Undoing, Finishing, Goto
  <2>9. PublishedInv'
    BY <1>9 DEF SyncParents, PublishedInv, Finishing, Goto, Raise, SyncInv
  <2>10. QED
    BY <2>1, <2>2, <2>3, <2>4, <2>5, <2>6, <2>7, <2>8, <2>9
<1>10. CASE RemoveInstalled
  <2>1. SafeAll'
    <3>1. CASE dir' = dir
      BY <1>10, <3>1 DEF RemoveInstalled, SafeAll, Safe
    <3>2. CASE dir' = [dir EXCEPT ![i] = "none"] /\ i > 0
      <4>1. i \in Paths /\ had' = had /\ bak' = bak /\ published' = published /\ ~published
        BY <1>10, <3>2 DEF RemoveInstalled, ControlTypes, Paths, PublishedInv, Finishing
      <4>2. \A p \in Paths : p # i => Safe(p)'
        BY <3>2, <4>1 DEF SafeAll, Safe, FileTypes
      <4>3. had[i] = "old" => bak[i] = "old"
        <5>1. i <= i /\ pc = "remove" /\ pc \in Undoing /\ pc \notin Finishing \union {"crashed"}
          BY <1>10, <4>1 DEF RemoveInstalled, Paths, Undoing, Finishing
        <5>2. QED
          BY <4>1, <5>1 DEF UndoInv, BackupInv
      <4>4. had[i] # "directory" /\ dir'[i] = "none"
        BY <1>10, <3>2, <4>1 DEF RemoveInstalled, FilesInv, FileTypes
      <4>5. had[i] = "none" => bak[i] # "old"
        BY <4>1, <1>10 DEF SafeAll, Safe
      <4>6. \A p \in Paths : p = i => Safe(p)'
        BY <4>1, <4>3, <4>4, <4>5 DEF Safe, FileTypes
      <4>7. QED
        BY <4>2, <4>6 DEF SafeAll
    <3>3. QED
      BY <1>10, <3>1, <3>2 DEF RemoveInstalled
  <2>2. FilesInv'
    BY <1>10 DEF RemoveInstalled, FilesInv, Goto
  <2>3. BeforeInv'
    BY <1>10 DEF RemoveInstalled, BeforeInv, Before, Goto
  <2>4. SwapInv'
    BY <1>10 DEF RemoveInstalled, SwapInv, Swapping, Goto
  <2>5. SyncInv'
    BY <1>10 DEF RemoveInstalled, SyncInv, Goto
  <2>6. UndoInv'
    BY <1>10 DEF RemoveInstalled, UndoInv, Undoing, Undoable, Goto, Raise, FileTypes, LocalTypes,
       ControlTypes, Paths, Succeeds, Fails, Interrupted, FilesInv, SafeAll, Safe, PublishedInv,
       Finishing
  <2>7. DoneInv'
    BY <1>10 DEF RemoveInstalled, DoneInv, Undoable, Goto, Raise, UndoInv, Undoing, FileTypes,
       LocalTypes, ControlTypes, Paths, Succeeds, Fails, Interrupted, FilesInv, SafeAll, Safe,
       PublishedInv, Finishing
  <2>8. BackupInv'
    BY <1>10 DEF RemoveInstalled, BackupInv, Undoing, Finishing, Goto
  <2>9. PublishedInv'
    BY <1>10 DEF RemoveInstalled, PublishedInv, Finishing, Goto
  <2>10. QED
    BY <2>1, <2>2, <2>3, <2>4, <2>5, <2>6, <2>7, <2>8, <2>9
<1>11. CASE RestoreBackup
  <2>1. SafeAll'
    BY <1>11 DEF RestoreBackup, SafeAll, Safe, Goto, Raise, UndoInv, Undoing, FileTypes, LocalTypes,
       ControlTypes, Paths, Succeeds, Fails, Interrupted, FilesInv, PublishedInv, Finishing,
       Undoable
  <2>2. FilesInv'
    BY <1>11 DEF RestoreBackup, FilesInv, Goto
  <2>3. BeforeInv'
    BY <1>11 DEF RestoreBackup, BeforeInv, Before, Goto
  <2>4. SwapInv'
    BY <1>11 DEF RestoreBackup, SwapInv, Swapping, Goto
  <2>5. SyncInv'
    BY <1>11 DEF RestoreBackup, SyncInv, Goto
  <2>6. UndoInv'
    BY <1>11 DEF RestoreBackup, UndoInv, Undoing, Undoable, Goto, Raise, FileTypes, LocalTypes,
       ControlTypes, Paths, Succeeds, Fails, Interrupted, FilesInv, SafeAll, Safe, PublishedInv,
       Finishing
  <2>7. DoneInv'
    BY <1>11 DEF RestoreBackup, DoneInv, Undoable, Goto, Raise, UndoInv, Undoing, FileTypes,
       LocalTypes, ControlTypes, Paths, Succeeds, Fails, Interrupted, FilesInv, SafeAll, Safe,
       PublishedInv, Finishing
  <2>8. BackupInv'
    BY <1>11 DEF RestoreBackup, BackupInv, Undoing, Finishing, Goto, Raise, UndoInv, FileTypes,
       LocalTypes, ControlTypes, Paths, Succeeds, Fails, Interrupted, FilesInv, SafeAll, Safe,
       PublishedInv, Undoable
  <2>9. PublishedInv'
    BY <1>11 DEF RestoreBackup, PublishedInv, Finishing, Goto
  <2>10. QED
    BY <2>1, <2>2, <2>3, <2>4, <2>5, <2>6, <2>7, <2>8, <2>9
<1>12. CASE TidyStaged
  <2>1. SafeAll'
    BY <1>12 DEF TidyStaged, NextTidy, SafeAll, Safe, Goto
  <2>2. FilesInv'
    BY <1>12 DEF TidyStaged, NextTidy, FilesInv, Goto
  <2>3. BeforeInv'
    BY <1>12 DEF TidyStaged, NextTidy, BeforeInv, Before, Goto
  <2>4. SwapInv'
    BY <1>12 DEF TidyStaged, NextTidy, SwapInv, Swapping, Goto
  <2>5. SyncInv'
    BY <1>12 DEF TidyStaged, NextTidy, SyncInv, Goto
  <2>6. UndoInv'
    BY <1>12 DEF TidyStaged, NextTidy, UndoInv, Undoing, Undoable, Goto
  <2>7. DoneInv'
    BY <1>12 DEF TidyStaged, NextTidy, DoneInv, Undoable, Goto, Raise, PublishedInv, FileTypes,
       LocalTypes, ControlTypes, Paths, Succeeds, Fails, Interrupted, FilesInv, SafeAll, Safe,
       Finishing
  <2>8. BackupInv'
    BY <1>12 DEF TidyStaged, NextTidy, BackupInv, Undoing, Finishing, Goto
  <2>9. PublishedInv'
    BY <1>12 DEF TidyStaged, NextTidy, PublishedInv, Finishing, Goto, Raise, DoneInv, FileTypes,
       LocalTypes, ControlTypes, Paths, Succeeds, Fails, Interrupted, FilesInv, SafeAll, Safe,
       Undoable, BeforeInv, SwapInv, SyncInv, UndoInv, BackupInv, Before, Swapping, Undoing, Ended
  <2>10. QED
    BY <2>1, <2>2, <2>3, <2>4, <2>5, <2>6, <2>7, <2>8, <2>9
<1>13. CASE DropBackups
  <2>1. SafeAll'
    BY <1>13 DEF DropBackups, NextDrop, SafeAll, Safe, Goto, Raise, DoneInv, PublishedInv
  <2>2. FilesInv'
    BY <1>13 DEF DropBackups, NextDrop, FilesInv, Goto
  <2>3. BeforeInv'
    BY <1>13 DEF DropBackups, NextDrop, BeforeInv, Before, Goto
  <2>4. SwapInv'
    BY <1>13 DEF DropBackups, NextDrop, SwapInv, Swapping, Goto
  <2>5. SyncInv'
    BY <1>13 DEF DropBackups, NextDrop, SyncInv, Goto
  <2>6. UndoInv'
    BY <1>13 DEF DropBackups, NextDrop, UndoInv, Undoing, Undoable, Goto
  <2>7. DoneInv'
    BY <1>13 DEF DropBackups, NextDrop, DoneInv, Undoable, Goto, Raise, PublishedInv, FileTypes,
       LocalTypes, ControlTypes, Paths, Succeeds, Fails, Interrupted, FilesInv, SafeAll, Safe,
       Finishing
  <2>8. BackupInv'
    BY <1>13 DEF DropBackups, NextDrop, BackupInv, Undoing, Finishing, Goto
  <2>9. PublishedInv'
    BY <1>13 DEF DropBackups, NextDrop, PublishedInv, Finishing, Goto, Raise, DoneInv, FileTypes,
       LocalTypes, ControlTypes, Paths, Succeeds, Fails, Interrupted, FilesInv, SafeAll, Safe,
       Undoable, BeforeInv, SwapInv, SyncInv, UndoInv, BackupInv, Before, Swapping, Undoing, Ended
  <2>10. QED
    BY <2>1, <2>2, <2>3, <2>4, <2>5, <2>6, <2>7, <2>8, <2>9
<1>14. CASE Crash
  <2>1. SafeAll'
    BY <1>14 DEF Crash, SafeAll, Safe, Goto
  <2>2. FilesInv'
    BY <1>14 DEF Crash, FilesInv, Goto
  <2>3. BeforeInv'
    BY <1>14 DEF Crash, BeforeInv, Before, Goto
  <2>4. SwapInv'
    BY <1>14 DEF Crash, SwapInv, Swapping, Goto
  <2>5. SyncInv'
    BY <1>14 DEF Crash, SyncInv, Goto
  <2>6. UndoInv'
    BY <1>14 DEF Crash, UndoInv, Undoing, Undoable, Goto
  <2>7. DoneInv'
    BY <1>14 DEF Crash, DoneInv, Undoable, Goto
  <2>8. BackupInv'
    BY <1>14 DEF Crash, BackupInv, Undoing, Finishing, Goto
  <2>9. PublishedInv'
    BY <1>14 DEF Crash, PublishedInv, Finishing, Goto
  <2>10. QED
    BY <2>1, <2>2, <2>3, <2>4, <2>5, <2>6, <2>7, <2>8, <2>9
<1>15. CASE Over
  <2>1. SafeAll'
    BY <1>15 DEF Over, SafeAll, Safe, Goto, vars
  <2>2. FilesInv'
    BY <1>15 DEF Over, FilesInv, Goto, vars
  <2>3. BeforeInv'
    BY <1>15 DEF Over, BeforeInv, Before, Goto, vars
  <2>4. SwapInv'
    BY <1>15 DEF Over, SwapInv, Swapping, Goto, vars
  <2>5. SyncInv'
    BY <1>15 DEF Over, SyncInv, Goto, vars
  <2>6. UndoInv'
    BY <1>15 DEF Over, UndoInv, Undoing, Undoable, Goto, vars
  <2>7. DoneInv'
    BY <1>15 DEF Over, DoneInv, Undoable, Goto, vars
  <2>8. BackupInv'
    BY <1>15 DEF Over, BackupInv, Undoing, Finishing, Goto, vars
  <2>9. PublishedInv'
    BY <1>15 DEF Over, PublishedInv, Finishing, Goto, vars
  <2>10. QED
    BY <2>1, <2>2, <2>3, <2>4, <2>5, <2>6, <2>7, <2>8, <2>9
<1>16. CASE UNCHANGED vars
  BY <1>16 DEF vars, SafeAll, Safe, FilesInv, BeforeInv, SwapInv, SyncInv, UndoInv, DoneInv,
     BackupInv, PublishedInv, Undoable
<1>17. QED
  BY <1>1, <1>2, <1>3, <1>4, <1>5, <1>6, <1>7, <1>8, <1>9, <1>10, <1>11, <1>12, <1>13, <1>14, <1>15,
     <1>16 DEF Next

(* A call of _publish_outputs starts in IInv. *)
LEMMA InitIInv == Init => IInv
<1> SUFFICES ASSUME Init PROVE IInv
  OBVIOUS
<1> USE PublishAssumption DEF PublishAssumption, Init
<1>1. \A p \in Paths : dir[p] = had[p] /\ bak[p] = "none"
  OBVIOUS
<1>2. SafeAll /\ BeforeInv /\ FilesInv
  BY <1>1 DEF SafeAll, Safe, BeforeInv, FilesInv
<1>3. SwapInv /\ SyncInv /\ UndoInv /\ DoneInv /\ BackupInv /\ PublishedInv
  BY DEF SwapInv, SyncInv, UndoInv, DoneInv, BackupInv, PublishedInv, Swapping, Undoing
<1>4. QED
  BY <1>2, <1>3 DEF IInv

(* IInv holds throughout every call of _publish_outputs. *)
LEMMA Invariant == Spec => []IInv
<1>1. TypeOK /\ TypeOK' /\ IInv /\ [Next]_vars => IInv'
  BY Inductive
<1>2. QED
  BY <1>1, InitIInv, TypeCorrect, PTL DEF Spec

(* No failure, interrupt or crash loses an old file, for any number of     *)
(* files and of failures (_publish_outputs).                               *)
THEOREM NothingEverLost == Spec => []NothingLost
<1>1. TypeOK /\ IInv => NothingLost
  BY DEF TypeOK, FileTypes, IInv, SafeAll, Safe, PublishedInv, NothingLost
<1>2. QED
  BY <1>1, TypeCorrect, Invariant, PTL

(* A publication that fails, and whose rollback does not, leaves the       *)
(* directory as it was; one that succeeds shows every new file.            *)
THEOREM PublishesAllOrNothing == Spec => []AllOrNothing
<1>1. TypeOK /\ IInv => AllOrNothing
  <2> SUFFICES ASSUME TypeOK, IInv PROVE AllOrNothing
    OBVIOUS
  <2>1. published => \A p \in Paths : dir[p] = "new"
    BY DEF IInv, PublishedInv
  <2>2. ASSUME pc \in {"raised", "rejected"}, unrestored = {}, interrupts = 0, ~published PROVE dir = had
    <3>1. CASE pc = "rejected"
      BY <3>1 DEF IInv, BeforeInv
    <3>2. CASE pc = "raised"
      <4>1. \A p \in Paths : dir[p] = had[p]
        BY <2>2, <3>2 DEF IInv, DoneInv, Undoable
      <4>2. QED
        BY <4>1 DEF TypeOK, FileTypes
    <3>3. QED
      BY <2>2, <3>1, <3>2
  <2>3. QED
    BY <2>1, <2>2 DEF AllOrNothing, IInv, PublishedInv, Finishing
<1>2. QED
  BY <1>1, TypeCorrect, Invariant, PTL

-----------------------------------------------------------------------------
(* What a step of _publish_outputs shows of the files once it is published: *)
(* nothing, whatever is tidied away beside them.                           *)
LEMMA CommittedStep ==
  TypeOK /\ IInv /\ [Next]_vars /\ published => published' /\ UNCHANGED <<had, dir>>
<1> SUFFICES ASSUME TypeOK, IInv, [Next]_vars, published PROVE published' /\ UNCHANGED <<had, dir>>
  OBVIOUS
<1>1. pc \in Finishing \union {"crashed"}
  BY DEF IInv, PublishedInv
<1>2. CASE TidyStaged
  BY <1>2 DEF TidyStaged, locals
<1>3. CASE DropBackups
  BY <1>3 DEF DropBackups, locals
<1>4. CASE Crash
  BY <1>4 DEF Crash, files, locals
<1>5. CASE UNCHANGED vars
  BY <1>5 DEF vars, files, locals
<1>6. QED
  BY <1>1, <1>2, <1>3, <1>4, <1>5 DEF Next, Finishing, Over, Validate, CreateTemporary, WriteTemporary,
     DiscardTemporary, ReserveBackup, ReleaseBackup, Retire, Place, SyncParents, RemoveInstalled, RestoreBackup

\* The call has ended without publishing.
Failed == ~published /\ pc \in {"raised", "rejected", "crashed"}

(* Nothing happens after a call that did not publish has ended. *)
LEMMA FailedStep == [Next]_vars /\ Failed => UNCHANGED vars
  BY DEF Next, Failed, Ended, Validate, CreateTemporary, WriteTemporary, DiscardTemporary, ReserveBackup,
     ReleaseBackup, Retire, Place, SyncParents, RemoveInstalled, RestoreBackup, TidyStaged, DropBackups,
     Crash, Over

(* The step by which a call ends without publishing touches no file. *)
LEMMA EndingStep == [Next]_vars /\ ~published /\ Failed' => UNCHANGED <<had, dir, bak>>
<1> SUFFICES ASSUME [Next]_vars, ~published, Failed' PROVE UNCHANGED <<had, dir, bak>>
  OBVIOUS
<1>1. pc' \in {"raised", "rejected", "crashed"}
  BY DEF Failed
<1>2. CASE Validate
  BY <1>2 DEF Validate, files
<1>3. CASE TidyStaged
  BY <1>3 DEF TidyStaged
<1>4. CASE DropBackups
  BY <1>4 DEF DropBackups
<1>5. CASE Crash
  BY <1>5 DEF Crash, files
<1>6. CASE UNCHANGED vars
  BY <1>6 DEF vars, files
<1>7. ~(CreateTemporary \/ WriteTemporary \/ DiscardTemporary \/ ReserveBackup \/ ReleaseBackup)
  BY <1>1 DEF CreateTemporary, WriteTemporary, DiscardTemporary, ReserveBackup, ReleaseBackup, Goto, Raise
<1>8. ~(Retire \/ Place \/ SyncParents \/ RemoveInstalled \/ RestoreBackup)
  BY <1>1 DEF Retire, Place, SyncParents, RemoveInstalled, RestoreBackup, Goto, Raise
<1>9. QED
  BY <1>2, <1>3, <1>4, <1>5, <1>6, <1>7, <1>8 DEF Next, Over

(* The step that publishes finds every file new already. *)
LEMMA CommitStep ==
  TypeOK /\ IInv /\ [Next]_vars /\ ~published /\ published' =>
    /\ UNCHANGED <<had, dir, bak>>
    /\ dir = [p \in Paths |-> "new"]
<1> SUFFICES ASSUME TypeOK, IInv, [Next]_vars, ~published, published'
             PROVE UNCHANGED <<had, dir, bak>> /\ dir = [p \in Paths |-> "new"]
  OBVIOUS
<1>1. published' # published
  OBVIOUS
<1>2. SyncParents
  <2>1. ~(CreateTemporary \/ WriteTemporary \/ DiscardTemporary \/ ReserveBackup \/ ReleaseBackup)
    BY <1>1 DEF CreateTemporary, WriteTemporary, DiscardTemporary, ReserveBackup, ReleaseBackup, locals
  <2>2. ~(Validate \/ Retire \/ Place \/ RemoveInstalled \/ RestoreBackup)
    BY <1>1 DEF Validate, Retire, Place, RemoveInstalled, RestoreBackup, locals
  <2>3. ~(TidyStaged \/ DropBackups \/ Crash \/ Over \/ UNCHANGED vars)
    BY <1>1 DEF TidyStaged, DropBackups, Crash, Over, vars, locals
  <2>4. QED
    BY <2>1, <2>2, <2>3 DEF Next
<1>3. \A p \in Paths : dir[p] = "new"
  BY <1>2 DEF SyncParents, IInv, SyncInv
<1>4. dir = [p \in Paths |-> "new"]
  BY <1>3 DEF TypeOK, FileTypes
<1>5. QED
  BY <1>2, <1>4 DEF SyncParents, files

(* No step changes what the directory held at the start. *)
LEMMA HadStays == [Next]_vars => had' = had
  BY DEF Next, Validate, CreateTemporary, WriteTemporary, DiscardTemporary, ReserveBackup, ReleaseBackup,
     Retire, Place, SyncParents, RemoveInstalled, RestoreBackup, TidyStaged, DropBackups, Crash, Over,
     vars, files

(* Every step of _publish_outputs is a step of Publication or a stutter. *)
LEMMA StepPromised ==
  TypeOK /\ TypeOK' /\ IInv /\ IInv' /\ [Next]_vars => [Promise!PubNext]_(Promise!pubVars)
<1> SUFFICES ASSUME TypeOK, TypeOK', IInv, IInv', [Next]_vars
             PROVE Promise!PubNext \/ UNCHANGED Promise!pubVars
  BY DEF Promise!pubVars
<1>1. had' = had
  BY HadStays
<1>2. /\ dir' \in [Paths -> Promise!Shown]
      /\ bak' \in [Paths -> Promise!Kept]
  BY DEF TypeOK, FileTypes, Promise!Shown, Promise!Kept
<1>3. CASE published
  <2>1. Outcome = "committed" /\ Outcome' = "committed" /\ UNCHANGED <<had, dir>>
    BY <1>3, CommittedStep DEF Outcome
  <2>2. Promise!Tidy
    BY <1>2, <2>1 DEF Promise!Tidy
  <2>3. QED
    BY <2>2 DEF Promise!PubNext
<1>4. CASE ~published /\ Failed
  <2>1. UNCHANGED vars
    BY <1>4, FailedStep
  <2>2. QED
    BY <2>1 DEF vars, files, locals, control, budget, Promise!pubVars, Outcome
<1>5. CASE ~published /\ ~Failed
  <2>1. Outcome = "open"
    BY <1>5 DEF Outcome, Failed
  <2>2. CASE published'
    <3>1. /\ UNCHANGED <<had, dir, bak>> /\ dir = [p \in Paths |-> "new"]
          /\ Outcome' = "committed"
      BY <1>5, <2>2, CommitStep DEF Outcome
    <3>2. Promise!Commit
      BY <2>1, <3>1 DEF Promise!Commit
    <3>3. QED
      BY <3>2 DEF Promise!PubNext
  <2>3. CASE ~published' /\ Failed'
    <3>1. UNCHANGED <<had, dir, bak>>
      BY <1>5, <2>3, EndingStep
    <3>2. CASE Outcome' = "abandoned"
      BY <2>1, <3>1, <3>2 DEF Promise!Abandon, Promise!PubNext
    <3>3. CASE pc' = "rejected" \/ (pc' = "raised" /\ unrestored' = {} /\ interrupts' = 0)
      <4>1. \A p \in Paths : dir'[p] = had'[p]
        BY <2>3, <3>3 DEF IInv, BeforeInv, DoneInv, Undoable
      <4>2. dir' = had
        BY <1>1, <4>1 DEF TypeOK, FileTypes
      <4>3. Outcome' = "aborted"
        BY <2>3, <3>3 DEF Outcome
      <4>4. Promise!Abort
        BY <1>1, <1>2, <2>1, <4>2, <4>3 DEF Promise!Abort
      <4>5. QED
        BY <4>4 DEF Promise!PubNext
    <3>4. QED
      BY <2>3, <3>2, <3>3 DEF Outcome, Failed
  <2>4. CASE ~published' /\ ~Failed'
    <3>1. Outcome' = "open"
      BY <2>4 DEF Outcome, Failed
    <3>2. Promise!Reachable(dir', bak')
      <4> SUFFICES ASSUME NEW p \in Paths, had[p] = "old" PROVE dir'[p] = "old" \/ bak'[p] = "old"
        BY DEF Promise!Reachable
      <4>1. Safe(p)'
        BY DEF IInv, SafeAll
      <4>2. QED
        BY <1>1, <2>4, <4>1 DEF Safe
    <3>3. Promise!Work
      BY <1>1, <1>2, <2>1, <3>1, <3>2 DEF Promise!Work
    <3>4. QED
      BY <3>3 DEF Promise!PubNext
  <2>5. QED
    BY <2>2, <2>3, <2>4
<1>6. QED
  BY <1>3, <1>4, <1>5

(* For any number of files, failures and interrupts _publish_outputs does  *)
(* what Publication promises to somebody who looks at the directory.       *)
THEOREM KeepsItsPromise == Spec => Keeps
<1>1. Init => Promise!PubInit
  <2> SUFFICES ASSUME Init PROVE Promise!PubInit
    OBVIOUS
  <2>1. had \in [Paths -> Promise!Shown \ {"new"}]
    BY DEF Init, Promise!Shown
  <2>2. Outcome = "open"
    BY DEF Init, Outcome
  <2>3. QED
    BY <2>1, <2>2 DEF Init, Promise!PubInit
<1>2. TypeOK /\ TypeOK' /\ IInv /\ IInv' /\ [Next]_vars => [Promise!PubNext]_(Promise!pubVars)
  BY StepPromised
<1>3. QED
  BY <1>1, <1>2, TypeCorrect, Invariant, PTL DEF Spec, Keeps, Promise!PubSpec

-----------------------------------------------------------------------------
(* Hidden files.  Each that is there is due to be removed by a later step, *)
(* or is a stray; a step adds one stray at most, and only by a call that   *)
(* fails.  At the end nothing is due and every hidden file is a stray.     *)

\* The temporary file of p is removed by the handler of _stage_output, or by
\* the finally block; or it is renamed into place before.
TemporaryDue(p) ==
  \/ pc \in {"write", "unstage"} /\ p = i
  \/ p \in staged /\ pc \notin {"drop"} \union Ended /\ (pc = "tidy" => i <= p)

\* The backup of p is unlinked when its name is reserved, renamed back by the
\* rollback, or removed by the finally block.
BackupDue(p) ==
  \/ pc = "release" /\ p = i
  \/ /\ p \in backups
     /\ \/ pc \in Swapping \union {"sync"}
        \/ pc \in Undoing /\ p <= i
        \/ published /\ (pc = "tidy" \/ (pc = "drop" /\ i <= p))

StrayTemporary(p) == tmp[p] # "none" /\ ~TemporaryDue(p)
StrayBackup(p) == bak[p] # "none" /\ ~BackupDue(p)

Strays == {p \in Paths : StrayTemporary(p)} \X {"tmp"} \union {p \in Paths : StrayBackup(p)} \X {"bak"}

StraysInv ==
  /\ pc = "validate" => \A p \in Paths : tmp[p] = "none"
  /\ pc # "crashed" /\ interrupts = 0 => IsFiniteSet(Strays) /\ Cardinality(Strays) <= faults

(* No new stray, or one. *)
NoStray == \A p \in Paths : (StrayTemporary(p)' => StrayTemporary(p)) /\ (StrayBackup(p)' => StrayBackup(p))
OneStray ==
  /\ faults' = faults + 1
  /\ \E q \in Paths :
       \/ \A p \in Paths : (StrayTemporary(p)' => StrayTemporary(p) \/ p = q) /\ (StrayBackup(p)' => StrayBackup(p))
       \/ \A p \in Paths : (StrayTemporary(p)' => StrayTemporary(p)) /\ (StrayBackup(p)' => StrayBackup(p) \/ p = q)

(* While the call stages files, only a handler that cannot unlink leaves a *)
(* stray.                                                                  *)
LEMMA StagingStrays ==
  ASSUME TypeOK, IInv, StraysInv, interrupts' = 0,
         Validate \/ CreateTemporary \/ WriteTemporary \/ DiscardTemporary
  PROVE  NoStray \/ OneStray
<1> USE DEF TypeOK, IInv, BeforeInv, Before
<1>1. ~Interrupted
  BY PublishAssumption DEF Interrupted, ControlTypes, PublishAssumption
<1>2. i \in 0..N /\ tmp \in [Paths -> {"none", "partial", "new"}]
  BY DEF ControlTypes, FileTypes
<1>3. CASE Validate
  BY <1>3 DEF Validate, Goto, StraysInv, files, locals, NoStray, OneStray, StrayTemporary, StrayBackup, TemporaryDue, BackupDue
<1>4. CASE CreateTemporary
  BY <1>1, <1>2, <1>4 DEF CreateTemporary, Goto, Raise, locals, Undoing, Ended, NoStray, OneStray, StrayTemporary, StrayBackup, TemporaryDue, BackupDue
<1>5. CASE WriteTemporary
  BY <1>1, <1>2, <1>5 DEF WriteTemporary, Goto, Swapping, Undoing, Ended, NoStray, OneStray, StrayTemporary, StrayBackup, TemporaryDue, BackupDue
<1>6. CASE DiscardTemporary
  <2>1. i \in Paths
    BY <1>6 DEF DiscardTemporary, ControlTypes, Ended
  <2>2. QED
    BY <1>1, <1>2, <1>6, <2>1 DEF DiscardTemporary, Goto, Raise, Fails, locals, Undoing, Ended, NoStray, OneStray, StrayTemporary, StrayBackup, TemporaryDue, BackupDue
<1>7. QED
  BY <1>3, <1>4, <1>5, <1>6

(* While the paths are swapped, only a reserved name that cannot be        *)
(* released leaves a stray.                                                *)
LEMMA SwappingStrays ==
  ASSUME TypeOK, IInv, interrupts' = 0,
         ReserveBackup \/ ReleaseBackup \/ Retire \/ Place \/ SyncParents
  PROVE  NoStray \/ OneStray
<1> USE DEF TypeOK, IInv
<1>1. ~Interrupted
  BY PublishAssumption DEF Interrupted, ControlTypes, PublishAssumption
<1>2. /\ i \in Paths /\ tmp \in [Paths -> {"none", "partial", "new"}]
      /\ bak \in [Paths -> {"none", "empty", "old"}]
  BY DEF ControlTypes, FileTypes, ReserveBackup, ReleaseBackup, Retire, Place, SyncParents
<1>3. /\ pc \in Swapping => installed = i - 1 /\ \A p \in backups : p <= i /\ (pc # "place" => p < i)
      /\ pc = "sync" => installed = N /\ \A p \in backups : p <= N
  BY DEF SwapInv, SyncInv, LocalTypes, Paths
<1>4. \A p \in Paths : p < i => p <= i - 1
  BY <1>2 DEF Paths
<1>5. CASE ReserveBackup
  BY <1>1, <1>2, <1>3, <1>4, <1>5 DEF ReserveBackup, Goto, Raise, locals, Swapping, Undoing, Ended, NoStray, OneStray, StrayTemporary, StrayBackup, TemporaryDue, BackupDue
<1>6. CASE ReleaseBackup
  BY <1>1, <1>2, <1>3, <1>4, <1>6 DEF ReleaseBackup, Goto, Raise, Fails, locals, Swapping, Undoing, Ended, NoStray, OneStray, StrayTemporary, StrayBackup, TemporaryDue, BackupDue
<1>7. CASE Retire
  BY <1>1, <1>2, <1>3, <1>4, <1>7 DEF Retire, Goto, Raise, Swapping, Undoing, Ended, NoStray, OneStray, StrayTemporary, StrayBackup, TemporaryDue, BackupDue
<1>8. CASE Place
  BY <1>1, <1>2, <1>3, <1>4, <1>8 DEF Place, Goto, Swapping, Undoing, Ended, NoStray, OneStray, StrayTemporary, StrayBackup, TemporaryDue, BackupDue
<1>9. CASE SyncParents
  BY <1>1, <1>2, <1>3, <1>4, <1>9 DEF SyncParents, Goto, Raise, files, Swapping, Undoing, Ended, Paths, LocalTypes, NoStray, OneStray, StrayTemporary, StrayBackup, TemporaryDue, BackupDue
<1>10. QED
  BY <1>5, <1>6, <1>7, <1>8, <1>9

(* While the call rolls back and tidies, only a failed rename or unlink    *)
(* leaves a stray.                                                         *)
LEMMA FinishingStrays ==
  ASSUME TypeOK, IInv, interrupts' = 0, RemoveInstalled \/ RestoreBackup \/ TidyStaged \/ DropBackups
  PROVE  NoStray \/ OneStray
<1> USE DEF TypeOK, IInv
<1>1. ~Interrupted
  BY PublishAssumption DEF Interrupted, ControlTypes, PublishAssumption
<1>2. /\ i \in 0..N /\ (pc # "remove" => i \in Paths) /\ tmp \in [Paths -> {"none", "partial", "new"}]
      /\ bak \in [Paths -> {"none", "empty", "old"}] /\ staged \subseteq Paths /\ backups \subseteq Paths
  BY DEF ControlTypes, FileTypes, LocalTypes, RemoveInstalled, RestoreBackup, TidyStaged, DropBackups
<1>3. published => pc \in Finishing
  BY DEF PublishedInv, RemoveInstalled, RestoreBackup, TidyStaged, DropBackups
<1>4. \A p \in Paths : /\ p <= i => p = i \/ p <= i - 1
                       /\ i <= p => p = i \/ i + 1 <= p
                       /\ i = 0 => ~(p <= i)
                       /\ i = N /\ i <= p => p = i
                       /\ 1 <= p
  BY <1>2, PublishAssumption DEF Paths, PublishAssumption
<1>5. CASE RemoveInstalled
  BY <1>1, <1>2, <1>3, <1>4, <1>5 DEF RemoveInstalled, Goto, Swapping, Undoing, Finishing, Ended, NoStray, OneStray, StrayTemporary, StrayBackup, TemporaryDue, BackupDue
<1>6. CASE RestoreBackup
  <2>1. /\ pc = "restore" /\ i \in Paths /\ pc' = "remove" /\ i' = i - 1 /\ ~published
        /\ UNCHANGED <<tmp, staged, backups, published>>
    BY <1>1, <1>2, <1>3, <1>6 DEF RestoreBackup, Goto, Finishing
  <2>2. \A p \in Paths : StrayTemporary(p)' => StrayTemporary(p)
    BY <2>1 DEF StrayTemporary, TemporaryDue, Ended
  <2>3. \A p \in Paths \ {i} : BackupDue(p) => BackupDue(p)'
    BY <1>4, <2>1 DEF BackupDue, Undoing, Swapping
  <2>4. \/ i \in backups /\ bak' = [bak EXCEPT ![i] = "none"]
        \/ i \in backups /\ faults' = faults + 1 /\ bak' = bak
        \/ i \notin backups /\ bak' = bak
    BY <1>1, <1>6 DEF RestoreBackup, Fails
  <2>5. i \notin backups => ~BackupDue(i)
    BY <2>1 DEF BackupDue
  <2>6. \A p \in Paths \ {i} : StrayBackup(p)' => StrayBackup(p)
    BY <1>2, <2>3, <2>4 DEF StrayBackup
  <2>7. \A p \in Paths : p = i /\ StrayBackup(p)' => StrayBackup(p) \/ faults' = faults + 1
    BY <1>2, <2>1, <2>4, <2>5 DEF StrayBackup
  <2>8. QED
    BY <2>1, <2>2, <2>6, <2>7 DEF NoStray, OneStray
<1>7. CASE TidyStaged
  <2>1. /\ pc = "tidy" /\ UNCHANGED <<bak, staged, backups, published>>
        /\ \/ i = N /\ pc' = "drop" /\ i' = 1
           \/ i # N /\ pc' = "tidy" /\ i' = i + 1
    BY <1>1, <1>7 DEF TidyStaged, NextTidy, Goto, locals
  <2>2. \A p \in Paths : StrayBackup(p)' => StrayBackup(p)
    BY <1>4, <2>1 DEF StrayBackup, BackupDue, Swapping, Undoing
  <2>3. \A p \in Paths \ {i} : TemporaryDue(p) => TemporaryDue(p)'
    BY <1>2, <1>4, <2>1 DEF TemporaryDue, Ended
  <2>4. \/ i \in staged /\ tmp' = [tmp EXCEPT ![i] = "none"]
        \/ i \in staged /\ faults' = faults + 1 /\ tmp' = tmp
        \/ i \notin staged /\ tmp' = tmp
    BY <1>1, <1>7 DEF TidyStaged, Fails
  <2>5. i \notin staged => ~TemporaryDue(i)
    BY <2>1 DEF TemporaryDue
  <2>6. \A p \in Paths \ {i} : StrayTemporary(p)' => StrayTemporary(p)
    BY <1>2, <2>3, <2>4 DEF StrayTemporary
  <2>7. \A p \in Paths : p = i /\ StrayTemporary(p)' => StrayTemporary(p) \/ faults' = faults + 1
    BY <1>2, <2>1, <2>4, <2>5 DEF StrayTemporary
  <2>8. QED
    BY <1>2, <2>2, <2>6, <2>7 DEF NoStray, OneStray
<1>8. CASE DropBackups
  BY <1>1, <1>2, <1>4, <1>8 DEF DropBackups, NextDrop, Goto, Fails, locals, Swapping, Undoing, Ended, NoStray, OneStray, StrayTemporary, StrayBackup, TemporaryDue, BackupDue
<1>9. QED
  BY <1>5, <1>6, <1>7, <1>8

(* A step leaves one stray more at most, and only by a call that fails. *)
LEMMA OneAtMost == NoStray \/ OneStray => Strays' \subseteq Strays \/ (faults' = faults + 1 /\ \E x : Strays' \subseteq Strays \union {x})
<1>1. CASE NoStray
  BY <1>1 DEF NoStray, Strays
<1>2. ASSUME NEW q \in Paths, \A p \in Paths : (StrayTemporary(p)' => StrayTemporary(p) \/ p = q) /\ (StrayBackup(p)' => StrayBackup(p))
      PROVE  Strays' \subseteq Strays \union {<<q, "tmp">>}
  BY <1>2 DEF Strays
<1>3. ASSUME NEW q \in Paths, \A p \in Paths : (StrayTemporary(p)' => StrayTemporary(p)) /\ (StrayBackup(p)' => StrayBackup(p) \/ p = q)
      PROVE  Strays' \subseteq Strays \union {<<q, "bak">>}
  BY <1>3 DEF Strays
<1>4. QED
  BY <1>1, <1>2, <1>3 DEF OneStray

(* The strays stay as few as the failures. *)
LEMMA StraysStep == TypeOK /\ TypeOK' /\ IInv /\ StraysInv /\ [Next]_vars => StraysInv'
<1> SUFFICES ASSUME TypeOK, TypeOK', IInv, StraysInv, [Next]_vars PROVE StraysInv'
  OBVIOUS
<1>1. /\ pc' # "validate" \/ UNCHANGED vars
      /\ faults' \in {faults, faults + 1} /\ interrupts' \in {interrupts, interrupts + 1}
      /\ pc = "crashed" => UNCHANGED vars
  BY DEF Next, Validate, CreateTemporary, WriteTemporary, DiscardTemporary, ReserveBackup, ReleaseBackup,
     Retire, Place, SyncParents, RemoveInstalled, RestoreBackup, TidyStaged, DropBackups, Crash, Over,
     Goto, Raise, NextTidy, NextDrop, Succeeds, Fails, Interrupted, vars, budget, Ended
<1>2. faults \in Nat /\ interrupts \in Nat
  BY PublishAssumption DEF TypeOK, ControlTypes, PublishAssumption
<1>3. CASE UNCHANGED vars
  BY <1>3 DEF StraysInv, Strays, StrayTemporary, StrayBackup, TemporaryDue, BackupDue, vars, files, locals, control, budget
<1>4. CASE ~UNCHANGED vars
  <2>1. SUFFICES ASSUME pc' # "crashed", interrupts' = 0 PROVE IsFiniteSet(Strays') /\ Cardinality(Strays') <= faults'
    BY <1>1, <1>4 DEF StraysInv
  <2>2. IsFiniteSet(Strays) /\ Cardinality(Strays) <= faults /\ Cardinality(Strays) \in Nat
    BY <1>1, <1>2, <1>4, <2>1, FS_CardinalityType DEF StraysInv
  <2>3. NoStray \/ OneStray
    BY <1>4, <2>1, StagingStrays, SwappingStrays, FinishingStrays DEF Next, Crash, Over, Goto
  <2>4. CASE Strays' \subseteq Strays
    <3>1. IsFiniteSet(Strays') /\ Cardinality(Strays') <= Cardinality(Strays)
      BY <2>2, <2>4, FS_Subset
    <3>2. Cardinality(Strays') \in Nat
      BY <3>1, FS_CardinalityType
    <3>3. QED
      BY <1>1, <1>2, <2>2, <3>1, <3>2
  <2>5. ASSUME faults' = faults + 1, NEW x, Strays' \subseteq Strays \union {x}
        PROVE  IsFiniteSet(Strays') /\ Cardinality(Strays') <= faults'
    <3>1. IsFiniteSet(Strays \union {x}) /\ Cardinality(Strays \union {x}) <= Cardinality(Strays) + 1
      <4>1. /\ IsFiniteSet(Strays \union {x})
            /\ Cardinality(Strays \union {x}) = IF x \in Strays THEN Cardinality(Strays) ELSE Cardinality(Strays) + 1
        BY <2>2, FS_AddElement
      <4>2. QED
        BY <2>2, <4>1
    <3>2. IsFiniteSet(Strays') /\ Cardinality(Strays') <= Cardinality(Strays \union {x})
      BY <2>5, <3>1, FS_Subset
    <3>3. Cardinality(Strays') \in Nat /\ Cardinality(Strays \union {x}) \in Nat
      BY <3>1, <3>2, FS_CardinalityType
    <3>4. QED
      BY <1>2, <2>2, <2>5, <3>1, <3>2, <3>3
  <2>6. QED
    BY <2>3, <2>4, <2>5, OneAtMost
<1>5. QED
  BY <1>3, <1>4

(* For any number of files and failures: each hidden file that is left     *)
(* when the call ends by itself is the trace of a call that failed.        *)
THEOREM NoStrayWithoutFault == Spec => []LeftoversHaveFaults
<1>1. Init => StraysInv
  <2> SUFFICES ASSUME Init PROVE StraysInv
    OBVIOUS
  <2>1. Strays = {}
    BY DEF Init, Strays, StrayTemporary, StrayBackup
  <2>2. QED
    BY <2>1, FS_EmptySet DEF Init, StraysInv
<1>2. TypeOK /\ TypeOK' /\ IInv /\ StraysInv /\ [Next]_vars => StraysInv'
  BY StraysStep
<1>3. StraysInv => LeftoversHaveFaults
  <2> SUFFICES ASSUME StraysInv, pc \in Ended \ {"crashed"}, interrupts = 0 PROVE Cardinality(Leftovers) <= faults
    BY DEF LeftoversHaveFaults
  <2>1. \A p \in Paths : ~TemporaryDue(p) /\ ~BackupDue(p)
    BY DEF TemporaryDue, BackupDue, Ended, Swapping, Undoing
  <2>2. Strays = Leftovers
    BY <2>1 DEF Strays, Leftovers, StrayTemporary, StrayBackup
  <2>3. QED
    BY <2>2 DEF StraysInv
<1>4. QED
  BY <1>1, <1>2, <1>3, TypeCorrect, Invariant, PTL DEF Spec
=============================================================================
