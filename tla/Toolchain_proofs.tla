--------------------------- MODULE Toolchain_proofs ---------------------------
(***************************************************************************)
(* Theorems about Toolchain, for any number of schemas and threads and any *)
(* number of failing calls and interrupts.                                 *)
(***************************************************************************)
EXTENDS Toolchain, FiniteSetTheorems, TLAPS

-----------------------------------------------------------------------------
(* jadx                                                                    *)

Early == {"check", "stage", "spawn", "wait", "kill"}
Trusted == {"index", "reserve", "retire", "place", "sync", "undo", "restore", "prune", "leave", "returned"}

\* What the backup holds once the old output has been moved to it.
Retired == backup = IF had = "old" THEN "old" ELSE "none"

JadxTypes ==
  /\ had \in {"none", "blocked", "old"}
  /\ output \in {"none", "blocked", "old", "new"}
  /\ jpc \in Early \union Trusted \union {"clean", "raised"}
  /\ jadx \in {"none", "running", "exited", "reaped"}
  /\ faults \in Nat /\ interrupts \in Nat

\* Where the trees are at each call.  The old output leaves its place only
\* for the backup, and the tree that takes its place has been vouched for,
\* because everything from the index on happens after a successful exit.
Whereabouts ==
  /\ jpc \in Early \union {"index", "reserve", "retire"} => output = had /\ backup = "none"
  /\ jpc \in Trusted \union (Early \ {"check"}) => had # "blocked"
  /\ jpc \in Trusted => jadx = "reaped" /\ status
  /\ jpc \in {"reserve", "retire", "place"} => staging = "new"
  /\ jpc = "retire" => had = "old"
  /\ jpc \in {"place", "restore"} => output = "none" /\ Retired
  /\ jpc \in {"sync", "prune"} => output = "new" /\ Retired
  /\ jpc = "undo" => output \in {"none", "new"} /\ Retired
  /\ jpc \in {"leave", "returned"} => output = "new"
  /\ output = "new" => jadx = "reaped" /\ status
  /\ had = "old" => output = "new" \/ "old" \in {output, backup}

\* How many calls have failed by the time each handler runs, and what the
\* exception it passes on has seen happen.
Counted ==
  /\ jpc \in {"undo", "restore"} => faults + interrupts > 0
  /\ jpc \in {"sync", "prune", "leave", "returned"} /\ faults + interrupts = 0 => staging = "none"
  /\ jpc \in {"leave", "returned"} /\ faults + interrupts = 0 => backup = "none"
  /\ jpc \in {"check", "stage"} => staging = "none"
  /\ jpc \in {"check", "stage", "spawn"} => jadx = "none"
  /\ jpc \in {"clean", "raised"} /\ ~gap =>
       /\ jadx # "running"
       /\ faults + interrupts <= 1 => /\ output \in {had, "new"}
                                      /\ interrupts = 0 => output = had
       /\ faults + interrupts = 0 => backup = "none"
  /\ jpc = "raised" /\ ~gap /\ faults + interrupts = 0 => staging = "none"

JadxInv == JadxTypes /\ Whereabouts /\ Counted

(* decompile_with_jadx starts in its invariant. *)
LEMMA JadxStarts == Init => JadxInv
  BY DEF Init, CommandInit, JadxInit, JadxInv, JadxTypes, Whereabouts, Counted, Retired, Early, Trusted

\* Everything the rest of the toolchain does to jadx's part: nothing, except
\* that more calls fail.
LEMMA CompileCounts ==
  ASSUME JadxTypes, CompileNext \/ Terminated
  PROVE  faults' \in Nat /\ interrupts' \in Nat /\ faults' >= faults /\ interrupts' >= interrupts
<1> USE DEF JadxTypes, Succeeds, Fails, Interrupted, commandVars
<1>1. CASE Terminated
  BY <1>1 DEF Terminated
<1>2. CASE MainStep
  BY <1>2 DEF MainStep, Submit, Collect, Drain, CompileNextSchema
<1>3. ASSUME NEW s \in Schemas, Take(s) \/ CompileProto(s) \/ ProtocExits(s)
      PROVE  faults' \in Nat /\ interrupts' \in Nat /\ faults' >= faults /\ interrupts' >= interrupts
  <2>1. CASE Take(s) \/ ProtocExits(s)
    BY <2>1 DEF Take, ProtocExits
  <2>2. CASE Prepare(s) \/ StartProtoc(s) \/ Reap(s)
    BY <2>2 DEF Prepare, StartProtoc, Reap
  <2>3. CASE GiveUp(s) \/ KillProtoc(s) \/ RemoveTempdir(s)
    BY <2>3 DEF GiveUp, KillProtoc, RemoveTempdir
  <2> QED
    BY <1>3, <2>1, <2>2, <2>3 DEF CompileProto
<1> QED
  BY <1>1, <1>2, <1>3 DEF CompileNext

(* No call of decompile_with_jadx, no failure and no signal breaks the invariant. *)
LEMMA JadxSteps == JadxInv /\ [Next]_vars => JadxInv'
<1> SUFFICES ASSUME JadxInv, [Next]_vars PROVE JadxInv'
  OBVIOUS
<1> USE DEF JadxInv, JadxTypes, Whereabouts, Counted, Retired, Early, Trusted, Goto, trees,
            Succeeds, Fails, Interrupted, commandVars
<1>1. CASE UNCHANGED vars
  BY <1>1 DEF vars, jadxVars
<1>2. CASE CompileStep
  BY <1>2, CompileCounts DEF CompileStep, jadxVars
<1>3. CASE KilledFromOutside
  BY <1>3, CompileCounts DEF KilledFromOutside, jadxVars
<1>4. CASE JadxStep
  <2>1. CASE Check
    BY <2>1 DEF Check
  <2>2. CASE MakeStaging
    BY <2>2 DEF MakeStaging
  <2>3. CASE Spawn
    BY <2>3 DEF Spawn
  <2>4. CASE Wait
    BY <2>4 DEF Wait
  <2>5. CASE KillGroup
    BY <2>5 DEF KillGroup
  <2>6. CASE Index
    BY <2>6 DEF Index
  <2>7. CASE CleanUp
    BY <2>7 DEF CleanUp
  <2>8. CASE Reserve
    BY <2>8 DEF Reserve
  <2>9. CASE Retire
    BY <2>9 DEF Retire
  <2>10. CASE Place
    BY <2>10 DEF Place
  <2>11. CASE SyncParent
    BY <2>11 DEF SyncParent
  <2>12. CASE Undo
    BY <2>12 DEF Undo
  <2>13. CASE Restore
    BY <2>13 DEF Restore
  <2>14. CASE Prune
    BY <2>14 DEF Prune
  <2>15. CASE JadxWrites
    BY <2>15 DEF JadxWrites
  <2>16. CASE JadxExits
    BY <2>16 DEF JadxExits
  <2> QED
    BY <1>4, <2>1, <2>2, <2>3, <2>4, <2>5, <2>6, <2>7, <2>8, <2>9, <2>10, <2>11, <2>12, <2>13, <2>14, <2>15, <2>16
       DEF JadxStep, JadxNext, JadxCall
<1> QED
  BY <1>1, <1>2, <1>3, <1>4 DEF Next

(* The invariant of decompile_with_jadx holds throughout an extraction. *)
LEMMA JadxInvariant == Spec => []JadxInv
  BY JadxStarts, JadxSteps, PTL DEF Spec

(* However many calls fail, whenever the command is interrupted or killed: *)
(* the old sources are in their place or in the backup until new ones are  *)
(* there, and those come from a jadx that succeeded.                       *)
THEOREM SourcesNeverLost == Spec => []OldTreeKept
<1>1. JadxInv => OldTreeKept
  BY DEF JadxInv, Whereabouts, OldTreeKept
<1> QED
  BY JadxInvariant, <1>1, PTL

(* One failure or interrupt never leaves the user without sources, and     *)
(* what is reported is what happened.                                      *)
THEOREM FailureIsUndone == Spec => []OneFailure
<1>1. JadxInv => OneFailure
  BY DEF JadxInv, JadxTypes, Whereabouts, Counted, OneFailure, JadxEnded, Trusted
<1> QED
  BY JadxInvariant, <1>1, PTL

-----------------------------------------------------------------------------
(* protoc                                                                  *)

Jobs == Busy \union {"new", "queued", "cancelled", "ok", "bad"}

CompileTypes ==
  /\ job \in [Schemas -> Jobs]
  /\ protoc \in [Schemas -> {"none", "running", "exited", "reaped"}]
  /\ tempdir \in [Schemas -> BOOLEAN]
  /\ threads \in Nat
  /\ k \in Schemas
  /\ cpc \in {"submit", "collect", "drain", "serial"} \union CompileEnded
  /\ error \in {"none", "bad", "refused", "interrupt"}

\* How far the schemas are when the main thread is at k.
BeforeOk == \A s \in 1..(k - 1) : job[s] = "ok"
Progress ==
  /\ \A s \in Schemas : job[s] \in {"accepted", "ok"} => valid[s]
  /\ cpc = "submit" => error = "none" /\ \A s \in k..N : job[s] = "new"
  /\ cpc = "collect" => error = "none" /\ BeforeOk
  /\ cpc = "drain" /\ error = "none" => \A s \in Schemas : job[s] = "ok"
  /\ cpc = "returned" => \A s \in Schemas : job[s] = "ok"
  /\ cpc \in {"drain", "raised"} /\ error = "bad" => job[k] = "bad" /\ BeforeOk
  /\ cpc = "raised" /\ error = "refused" => job[k] = "bad" /\ BeforeOk
  /\ cpc = "raised" => error # "none"
  /\ Serial => /\ error = "refused" /\ BeforeOk
               /\ \A s \in (k + 1)..N : job[s] = "new"
               /\ job[k] \notin {"queued", "cancelled"}

\* A compiler runs only under a job that will wait for it or kill it, and
\* when the call ends no job is going on nor will one be taken.
Attended ==
  /\ ~stray =>
       /\ \A s \in Schemas : protoc[s] = "running" => tempdir[s] /\ job[s] \in {"waiting", "killing"}
       /\ cpc \in CompileEnded =>
            \A s \in Schemas : job[s] \notin Busy /\ (threads > 0 => job[s] # "queued")
  /\ faults = 0 => \A s \in Schemas : tempdir[s] => job[s] \in Busy

CompileInv == CompileTypes /\ Progress /\ Attended

(* The compilation starts in its invariant. *)
LEMMA CompileStarts == Init => CompileInv
  BY CompileAssumption
  DEF Init, CommandInit, CompileInit, CompileInv, CompileTypes, Progress, BeforeOk, Attended, Serial,
      Schemas, Jobs, Busy, CompileEnded

\* A thread takes a job only if threads were started.
LEMMA TakeNeedsThreads ==
  ASSUME CompileTypes, NEW s \in Schemas, Take(s)
  PROVE  threads > 0
<1>1. IsFiniteSet(Running)
  <2>1. IsFiniteSet(1..N) /\ Running \subseteq 1..N
    BY CompileAssumption, FS_Interval DEF Running, Schemas
  <2> QED
    BY <2>1, FS_Subset
<1>2. Cardinality(Running) \in Nat
  BY <1>1, FS_CardinalityType
<1> QED
  BY <1>2 DEF Take, CompileTypes

(* No step of the main thread, a worker or a compiler breaks the invariant. *)
LEMMA CompileSteps == JadxInv /\ CompileInv /\ [Next]_vars => CompileInv'
<1> SUFFICES ASSUME JadxInv, CompileInv, [Next]_vars PROVE CompileInv'
  OBVIOUS
<1>0. faults \in Nat
  BY DEF JadxInv, JadxTypes
<1> USE <1>0, CompileAssumption DEF CompileInv, CompileTypes, Progress, BeforeOk, Attended, Serial,
      Schemas, Jobs, Busy, CompileEnded, Succeeds, Fails, Interrupted, commandVars, Becomes, mainVars
<1>1. CASE UNCHANGED compileVars /\ (faults' = faults \/ faults' = faults + 1)
  BY <1>1 DEF compileVars
<1>2. CASE JadxStep
  <2>1. faults' = faults \/ faults' = faults + 1
    BY <1>2 DEF JadxStep, JadxNext, JadxCall, Check, MakeStaging, Spawn, Wait, KillGroup, Index, CleanUp,
         Reserve, Retire, Place, SyncParent, Undo, Restore, Prune, JadxWrites, JadxExits
  <2> QED
    BY <1>1, <1>2, <2>1 DEF JadxStep
<1>3. CASE KilledFromOutside
  BY <1>1, <1>3 DEF KilledFromOutside, Terminated
<1>4. CASE CompileNext
  <2>1. CASE Submit
    BY <2>1 DEF Submit
  <2>2. CASE Collect
    <3>1. CompileTypes'
      BY <2>2 DEF Collect, Cancelled
    <3>2. Progress'
      BY <2>2 DEF Collect, Cancelled
    <3>3. Attended'
      BY <2>2 DEF Collect, Cancelled
    <3> QED
      BY <3>1, <3>2, <3>3
  <2>3. CASE Drain
    BY <2>3 DEF Drain, Running, Queued
  <2>4. CASE CompileNextSchema
    BY <2>4 DEF CompileNextSchema
  <2>5. ASSUME NEW s \in Schemas, Take(s) PROVE CompileInv'
    <3>1. CompileTypes'
      BY <2>5 DEF Take, Queued
    <3>2. Progress'
      BY <2>5 DEF Take, Queued
    <3>3. Attended'
      BY <2>5, TakeNeedsThreads DEF Take, Queued
    <3> QED
      BY <3>1, <3>2, <3>3
  <2>6. ASSUME NEW s \in Schemas, Prepare(s) PROVE CompileInv'
    <3>1. CompileTypes'
      BY <2>6 DEF Prepare
    <3>2. Progress'
      BY <2>6 DEF Prepare
    <3>3. Attended'
      BY <2>6 DEF Prepare
    <3> QED
      BY <3>1, <3>2, <3>3
  <2>7. ASSUME NEW s \in Schemas, StartProtoc(s) PROVE CompileInv'
    <3>1. CompileTypes'
      BY <2>7 DEF StartProtoc
    <3>2. Progress'
      BY <2>7 DEF StartProtoc
    <3>3. Attended'
      BY <2>7 DEF StartProtoc
    <3> QED
      BY <3>1, <3>2, <3>3
  <2>8. ASSUME NEW s \in Schemas, Reap(s) PROVE CompileInv'
    BY <2>8 DEF Reap
  <2>9. ASSUME NEW s \in Schemas, GiveUp(s) PROVE CompileInv'
    BY <2>9 DEF GiveUp
  <2>10. ASSUME NEW s \in Schemas, KillProtoc(s) PROVE CompileInv'
    BY <2>10 DEF KillProtoc
  <2>11. ASSUME NEW s \in Schemas, RemoveTempdir(s) PROVE CompileInv'
    <3>1. CompileTypes'
      BY <2>11 DEF RemoveTempdir
    <3>2. Progress'
      BY <2>11 DEF RemoveTempdir
    <3>3. Attended'
      BY <2>11 DEF RemoveTempdir
    <3> QED
      BY <3>1, <3>2, <3>3
  <2>12. ASSUME NEW s \in Schemas, ProtocExits(s) PROVE CompileInv'
    BY <2>12 DEF ProtocExits
  <2> QED
    BY <1>4, <2>1, <2>2, <2>3, <2>4, <2>5, <2>6, <2>7, <2>8, <2>9, <2>10, <2>11, <2>12
       DEF CompileNext, MainStep, CompileProto
<1> QED
  BY <1>1, <1>2, <1>3, <1>4 DEF Next, CompileStep, vars

(* Both invariants hold throughout an extraction. *)
LEMMA ToolchainInvariant == Spec => [](JadxInv /\ CompileInv)
  BY JadxStarts, JadxSteps, CompileStarts, CompileSteps, PTL DEF Spec

(* For any number of schemas on any number of threads: what is raised is   *)
(* what compiling the schemas one by one would have raised.                *)
THEOREM FirstFailureReported == Spec => []FirstFailure
<1>1. CompileInv => FirstFailure
  BY DEF CompileInv, CompileTypes, Progress, BeforeOk, FirstFailure
<1> QED
  BY ToolchainInvariant, <1>1, PTL

(* No tool outlives the call that started it, and no serial compilation    *)
(* overlaps with the pool's.                                               *)
THEOREM NoToolsLeft == Spec => []NoStrays
<1>1. JadxInv /\ CompileInv => NoStrays
  <2> SUFFICES ASSUME JadxInv, CompileInv PROVE NoStrays
    OBVIOUS
  <2>1. ~gap /\ jpc \in JadxEnded => jadx # "running"
    BY DEF JadxInv, JadxTypes, Whereabouts, Counted, JadxEnded, Trusted
  <2>2. ASSUME ~stray, NEW s \in Schemas, Serial, s # k
        PROVE  job[s] \notin Busy
    BY <2>2, CompileAssumption DEF CompileInv, CompileTypes, Progress, BeforeOk, Schemas, Busy
  <2> QED
    BY <2>1, <2>2 DEF CompileInv, CompileTypes, Attended, NoStrays, Busy
<1> QED
  BY ToolchainInvariant, <1>1, PTL
=============================================================================
