-------------------------- MODULE OutputDirectory --------------------------
(***************************************************************************)
(* cli.extract seen from its output directory, over repeated extractions:  *)
(* the artifacts of the previous one are read from recovery.json before    *)
(* the recovery starts, the new files are published, and the artifacts     *)
(* that are no longer produced are removed one by one.                     *)
(*                                                                         *)
(* Publishing is one step with the outcomes Publication allows: committed, *)
(* aborted with the directory as before, or cut short by the death of the  *)
(* process.  Between extractions, and while one is recovering, the user    *)
(* edits the directory.  A file system may ignore the case of names.       *)
(***************************************************************************)
EXTENDS Naturals, FiniteSets

CONSTANTS
  Bases,        \* names of the .proto and .desc files, up to case
  FoldsCase,    \* does the file system ignore case?
  MaxRuns,      \* bound on the extractions
  MaxEdits      \* bound on the changes the user makes

ASSUME DirectoryAssumption ==
  /\ FoldsCase \in BOOLEAN
  /\ MaxRuns \in Nat /\ MaxEdits \in Nat

Names == Bases \X {"lower", "upper"}
Casefold(n) == n[1]

\* The place a name stands for in the directory.
Slot(n) == IF FoldsCase THEN <<n[1], "lower">> ELSE n
SlotsOf(names) == {Slot(n) : n \in names}

\* What _output_names guarantees of the names of one extraction.
Outputs == {names \in (SUBSET Names) \ {{}} :
              \A n, m \in names : Casefold(n) = Casefold(m) => n = m}

Runs == 1..MaxRuns
Nothing == 0
User == MaxRuns + 1
Directory == MaxRuns + 2
Contents == Runs \union {Nothing, User, Directory}

VARIABLES
  dir,        \* [SlotsOf(Names) -> who wrote what is there]
  manifest,   \* recovery.json: who wrote it and the artifacts it lists
  pc, run,    \* the extraction under way
  names,      \* its output names
  previous,   \* what _previous_artifacts returned
  due,        \* stale artifacts it has yet to remove
  edits,
  claimed,    \* history: slots an extraction has published to
  cut         \* history: was an extraction cut short, or the manifest lost?

work == <<run, names, previous, due>>
vars == <<dir, manifest, pc, work, edits, claimed, cut>>

NoManifest == [by |-> Nothing, lists |-> {}]

Init ==
  /\ dir = [s \in SlotsOf(Names) |-> Nothing]
  /\ manifest = NoManifest
  /\ pc = "idle" /\ run = 0 /\ names = {} /\ previous = {} /\ due = {}
  /\ edits = 0 /\ claimed = {} /\ cut = FALSE

Blocked(outputs) == \E n \in outputs : dir[Slot(n)] = Directory

Begin ==
  /\ pc = "idle" /\ run < MaxRuns
  /\ run' = run + 1
  /\ previous' = manifest.lists
  /\ names' = {} /\ due' = {}
  /\ pc' = "recover"
  /\ UNCHANGED <<dir, manifest, edits, claimed, cut>>

RecoveredClashing ==   \* mutant: names that differ in case are not disambiguated
  /\ pc = "recover"
  /\ names' \in (SUBSET Names) \ {{}}
  /\ pc' = IF Blocked(names') THEN "idle" ELSE "publish"
  /\ UNCHANGED <<dir, manifest, run, previous, due, edits, claimed, cut>>

\* Schemas recovered, named and compiled; a directory in the way ends it.
Recovered ==
  /\ pc = "recover"
  /\ names' \in Outputs
  /\ pc' = IF Blocked(names') THEN "idle" ELSE "publish"
  /\ UNCHANGED <<dir, manifest, run, previous, due, edits, claimed, cut>>

\* Any error before the publication, an aborted publication, or the death of
\* the process before it: exit, with the directory as it is.
GiveUp ==
  /\ pc \in {"recover", "publish"}
  /\ pc' = "idle"
  /\ UNCHANGED <<dir, manifest, work, edits, claimed, cut>>

Written(slots) == [s \in DOMAIN dir |-> IF s \in slots THEN run ELSE dir[s]]
Listing == [by |-> run, lists |-> names]

StaleEverything(before, now) == before   \* mutant: what is still produced is stale too
StaleUnlisted(before, now) == Names \ now   \* mutant: whatever was not just published is stale

\* previous - current, in _remove_stale_artifacts.
Stale(before, now) == before \ now

CommitThenRead ==   \* mutant: the previous artifacts are read after the publication
  /\ pc = "publish"
  /\ dir' = Written(SlotsOf(names)) /\ manifest' = Listing
  /\ claimed' = claimed \union SlotsOf(names)
  /\ due' = Stale(manifest'.lists, names)
  /\ pc' = "remove"
  /\ UNCHANGED <<run, names, previous, edits, cut>>

\* _publish_outputs returns.
Commit ==
  /\ pc = "publish"
  /\ dir' = Written(SlotsOf(names)) /\ manifest' = Listing
  /\ claimed' = claimed \union SlotsOf(names)
  /\ due' = Stale(previous, names)
  /\ pc' = "remove"
  /\ UNCHANGED <<run, names, previous, edits, cut>>

\* Killed while publishing: some files are new, one may be under its hidden
\* name only; recovery.json is the last of the group.
Killed ==
  /\ pc = "publish"
  /\ \E placed \in SUBSET SlotsOf(names) :
       \/ /\ dir' = Written(placed) /\ UNCHANGED manifest
       \/ /\ \E gap \in SlotsOf(names) \ placed : dir' = [Written(placed) EXCEPT ![gap] = Nothing]
          /\ UNCHANGED manifest
       \/ /\ placed = SlotsOf(names) /\ dir' = Written(placed)
          /\ manifest' \in {NoManifest, Listing}
  /\ claimed' = claimed \union SlotsOf(names)
  /\ cut' = TRUE
  /\ pc' = "idle"
  /\ UNCHANGED <<work, edits>>

\* One turn of the loop: destination.unlink() if it is a file.
RemoveStale ==
  /\ pc = "remove"
  /\ \E n \in due :
       /\ due' = due \ {n}
       /\ dir' = IF dir[Slot(n)] = Directory THEN dir ELSE [dir EXCEPT ![Slot(n)] = Nothing]
  /\ UNCHANGED <<manifest, pc, run, names, previous, edits, claimed, cut>>

\* unlink raises OSError, or the process dies: what is left is not tried again.
RemoveFails ==
  /\ pc = "remove" /\ due # {}
  /\ pc' = "idle" /\ cut' = TRUE
  /\ UNCHANGED <<dir, manifest, work, edits, claimed>>

Finish ==
  /\ pc = "remove" /\ due = {}
  /\ pc' = "idle"
  /\ UNCHANGED <<dir, manifest, work, edits, claimed, cut>>

-----------------------------------------------------------------------------
\* The user, except in the moment between the publication and the last removal.
UserEdits ==
  /\ pc \in {"idle", "recover"} /\ edits < MaxEdits
  /\ edits' = edits + 1
  /\ \/ \E s \in DOMAIN dir : /\ dir[s] # Directory /\ dir' = [dir EXCEPT ![s] = User]
                              /\ UNCHANGED <<manifest, cut>>
     \/ \E s \in DOMAIN dir : /\ dir[s] # Nothing /\ dir' = [dir EXCEPT ![s] = Nothing]
                              /\ UNCHANGED <<manifest, cut>>
     \/ \E s \in DOMAIN dir : /\ dir[s] = Nothing /\ dir' = [dir EXCEPT ![s] = Directory]
                              /\ UNCHANGED <<manifest, cut>>
     \/ /\ manifest' = [by |-> User, lists |-> {}] /\ cut' = TRUE
        /\ UNCHANGED dir
  /\ UNCHANGED <<pc, work, claimed>>

Next ==
  \/ Begin \/ Recovered \/ GiveUp \/ Commit \/ Killed
  \/ RemoveStale \/ RemoveFails \/ Finish
  \/ UserEdits

Spec == Init /\ [][Next]_vars

-----------------------------------------------------------------------------
TypeOK ==
  /\ dir \in [SlotsOf(Names) -> Contents]
  /\ manifest \in [by : Runs \union {Nothing, User}, lists : Outputs \union {{}}]
  /\ pc \in {"idle", "recover", "publish", "remove"}
  /\ run \in 0..MaxRuns
  /\ names \in Outputs \union {{}} /\ previous \in Outputs \union {{}} /\ due \subseteq previous
  /\ edits \in 0..MaxEdits /\ claimed \subseteq SlotsOf(Names) /\ cut \in BOOLEAN

(* What `recovered X -> destination` announces is there: once published,   *)
(* the cleanup that follows removes none of the new files, whatever the    *)
(* previous extraction listed (extract and _remove_stale_artifacts).       *)
Delivered ==
  pc = "remove" => /\ manifest = Listing
                   /\ \A n \in names : dir[Slot(n)] = run

(* Extractions that were not cut short leave no stale file behind: every   *)
(* generated file belongs to the recovery the manifest describes, however  *)
(* many inputs went to one directory and whatever failed or was edited in  *)
(* between (_previous_artifacts is read before, used after publication).   *)
NoOrphans ==
  ~cut /\ pc # "remove" =>
    \A s \in DOMAIN dir : dir[s] \in Runs => s \in SlotsOf(manifest.lists)

(* "Removes only manifested stale artifacts": the user's own files stay, a *)
(* removal touches only places an extraction has published to.             *)
RemovesOnlyItsOwn ==
  [][pc = "remove" => \A s \in DOMAIN dir : dir'[s] # dir[s] => s \in claimed]_vars
=============================================================================
