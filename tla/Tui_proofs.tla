----------------------------- MODULE Tui_proofs -----------------------------
(***************************************************************************)
(* Theorems about Tui for any number of runs and cancellations and any     *)
(* size of the pipe, and a user who presses no key while `running` and the *)
(* state of the run disagree (~hasty; Tui says when that is).  Such a user *)
(* starts one run at a time, so that JobInv of ExtractionJob holds in the  *)
(* composed system, and TuiInv relates the screen to the run.              *)
(***************************************************************************)
EXTENDS Tui, ExtractionJob_proofs

\* No run ends in a way _run_job does not catch: no task of a run is dropped
\* and nothing makes a run clean up after an exception.
Caught ==
  \A r \in Runs : pc[r] # "cleanup" /\ result[r].kind \in {"none", "oserror", "returned"}

\* A run does not end before its child.
Outlives == \A p \in Runs : os[p] = "alive" => pc[p] = "starting" \/ pc[p] \in Attached

\* The loop has one thing to start for a run at most; the output of a child
\* is drained by its own run only, as it is rejected.
Sole(t) == \A j, k \in DOMAIN ready : ready[j][2] = t /\ ready[k][2] = t => j = k
Alone(r) ==
  /\ Sole(r)
  /\ r \in drained => pc[r] = "over" \/ (pc[r] = "rejecting" /\ ~Queued(r))
  /\ pc[r] = "rejecting" /\ ~Queued(r) => stop[r] = r /\ drain[r] = r
RunsAlone == \A r \in Runs : Alone(r)

RunInv == JobInv /\ Caught /\ Outlives /\ RunsAlone

\* Nobody leaves the running screen, or the program, while a run is left.
ScreenInv ==
  /\ SomeActive => screen = "running" /\ ~exiting
  /\ pending => SomeActive
  /\ screen = "running" /\ ~SomeActive /\ ~exiting => error # "none"
  /\ closed => exiting

TuiInv == ~hasty => RunInv /\ ScreenInv

\* A step at which no run ends, and one at which run r ends.
GoesOn == result' = result /\ \A r \in Runs : pc'[r] \in Active <=> pc[r] \in Active
Ends(r) ==
  /\ pc[r] \in Active \ {"queued"} /\ pc' = [pc EXCEPT ![r] = "over"]
  /\ \E value : result' = [result EXCEPT ![r] = value] /\ value.kind \in {"oserror", "returned"}

-----------------------------------------------------------------------------
(* The job says that it runs only if a run is left. *)
LEMMA RunningOne == ASSUME JobInv, Caught, Running PROVE \E r \in Runs : pc[r] \in Active \ {"queued"}
<1>1. CASE starting
  BY <1>1 DEF JobInv, StartsClean, Active
<1>2. CASE process # None
  <2>1. process \in Runs
    BY <1>2 DEF JobInv, JobTypes, ObjectTypes
  <2>2. pc[process] \in Attached
    BY <1>2, <2>1 DEF JobInv, ProcessOf, Caught
  <2> QED
    BY <2>1, <2>2 DEF Attached, Active
<1> QED
  BY <1>1, <1>2 DEF Running

(* Nothing is left to start for a task that reads, waits or is idle. *)
LEMMA NotQueued ==
  ASSUME JobInv, NEW t \in Tasks,
         pc[t] \in {"idle", "reading", "waiting"} \/ (pc[t] = "starting" /\ os[t] = "none")
  PROVE  ~Queued(t)
<1>1. ready \in Seq(Whats \X Tasks)
  BY DEF JobInv, JobTypes, LoopTypes
<1>2. Queued(t) => \E w \in Whats : Waits(<<w, t>>)
  <2> SUFFICES ASSUME NEW k \in DOMAIN ready, ready[k][2] = t PROVE \E w \in Whats : Waits(<<w, t>>)
    BY DEF Queued
  <2>1. ready[k] \in Whats \X Tasks
    BY <1>1
  <2>2. PICK w \in Whats, s \in Tasks : ready[k] = <<w, s>>
    BY <2>1
  <2> QED
    BY <2>2 DEF Waits
<1> QED
  BY <1>2 DEF JobInv, Entries, Whats, Stopping

-----------------------------------------------------------------------------
LEMMA SoleKept == ASSUME ready' = ready, NEW s PROVE (Sole(s)' <=> Sole(s)) /\ (Queued(s)' <=> Queued(s))
  BY DEF Sole, Queued

LEMMA SoleAppends ==
  ASSUME JobInv, NEW t \in Tasks, NEW what \in Whats, ready' = Append(ready, <<what, t>>), ~Queued(t),
         NEW s, Sole(s)
  PROVE  Sole(s)'
<1> DEFINE e == <<what, t>>
<1>0. ready \in Seq(Whats \X Tasks) /\ e \in Whats \X Tasks
  BY DEF JobInv, JobTypes, LoopTypes
<1>1. /\ \A k \in DOMAIN ready : k \in DOMAIN ready' /\ ready'[k] = ready[k] /\ k # Len(ready) + 1
      /\ DOMAIN ready' = DOMAIN ready \union {Len(ready) + 1} /\ ready'[Len(ready) + 1] = e
  BY <1>0, Grows
<1>2. e[2] = t
  OBVIOUS
<1> HIDE DEF e
<1>3. \A k \in DOMAIN ready : ready[k][2] # t
  BY DEF Queued
<1> QED
  BY <1>1, <1>2, <1>3 DEF Sole

LEMMA SoleLoses ==
  ASSUME JobInv, NEW t, NEW k \in 1..Len(ready), ready[k][2] = t,
         ready' \in Seq(Whats \X Tasks), Len(ready') = Len(ready) - 1,
         \A j \in 1..Len(ready') : ready'[j] = IF j < k THEN ready[j] ELSE ready[j + 1]
  PROVE  (\A s : Sole(s) => Sole(s)') /\ (Sole(t) => ~Queued(t)')
<1> DEFINE from(j) == IF j < k THEN j ELSE j + 1
<1>0. ready \in Seq(Whats \X Tasks) /\ Len(ready) \in Nat
  BY DEF JobInv, JobTypes, LoopTypes
<1>1. \A j \in DOMAIN ready' : from(j) \in DOMAIN ready /\ from(j) # k /\ ready'[j] = ready[from(j)]
  <2>1. DOMAIN ready' = 1..Len(ready') /\ DOMAIN ready = 1..Len(ready)
    BY <1>0
  <2>2. \A j \in 1..Len(ready') : j \in 1..Len(ready) /\ j + 1 \in 1..Len(ready)
    BY <1>0
  <2>3. \A j \in 1..Len(ready') : from(j) # k
    BY <1>0
  <2> QED
    BY <2>1, <2>2, <2>3
<1>2. \A i, j \in DOMAIN ready' : from(i) = from(j) => i = j
  BY <1>0
<1>3. k \in DOMAIN ready
  BY <1>0
<1> HIDE DEF from
<1>4. \A s : Sole(s) => Sole(s)'
  BY <1>1, <1>2 DEF Sole
<1>5. Sole(t) => ~Queued(t)'
  BY <1>1, <1>3 DEF Sole, Queued
<1> QED
  BY <1>4, <1>5

LEMMA SoleTurns ==
  ASSUME JobInv, NEW t \in Tasks, NEW what \in Whats, Turn(what, t)
  PROVE  (\A s : Sole(s) => Sole(s)') /\ (Sole(t) => ~Queued(t)') /\ Queued(t)
<1>1. ready \in Seq(Whats \X Tasks) /\ ready # <<>> /\ ready[1] = <<what, t>> /\ ready' = Tail(ready)
  BY DEF Turn, JobInv, JobTypes, LoopTypes
<1>2. /\ ready' \in Seq(Whats \X Tasks) /\ Len(ready') = Len(ready) - 1 /\ 1 \in 1..Len(ready)
      /\ \A j \in 1..Len(ready') : ready'[j] = ready[j + 1]
  BY <1>1
<1>3. \A j \in 1..Len(ready') : ready'[j] = IF j < 1 THEN ready[j] ELSE ready[j + 1]
  BY <1>2
<1>4. ready[1][2] = t
  BY <1>1
<1>5. Queued(t)
  BY <1>1, <1>2, <1>4 DEF Queued
<1> QED
  BY <1>2, <1>3, <1>4, <1>5, SoleLoses

LEMMA SoleWithout ==
  ASSUME JobInv, NEW t \in Tasks, NEW what \in Whats, Without(<<what, t>>)
  PROVE  \A s : Sole(s) => Sole(s)'
<1>0. ready \in Seq(Whats \X Tasks)
  BY DEF JobInv, JobTypes, LoopTypes
<1>1. PICK k \in 1..Len(ready) : ready[k] = <<what, t>> /\ ready' = RemoveAt(ready, k)
  BY <1>0 DEF Without
<1>2. /\ ready' \in Seq(Whats \X Tasks) /\ Len(ready') = Len(ready) - 1
      /\ \A j \in 1..Len(ready') : ready'[j] = IF j < k THEN ready[j] ELSE ready[j + 1]
  BY <1>0, <1>1, Removed
<1>3. ready[k][2] = t
  BY <1>1
<1> QED
  BY <1>2, <1>3, SoleLoses

LEMMA SolePasses ==
  ASSUME JobInv, NEW t \in Tasks, NEW what \in Whats, NEW next \in Whats,
         ready # <<>>, Head(ready) = <<what, t>>, ready' = Append(Tail(ready), <<next, t>>),
         NEW s, Sole(s)
  PROVE  Sole(s)'
<1>0. ready \in Seq(Whats \X Tasks) /\ <<next, t>> \in Whats \X Tasks /\ Len(ready) \in Nat \ {0}
  BY DEF JobInv, JobTypes, LoopTypes
<1>1. /\ Tail(ready) \in Seq(Whats \X Tasks) /\ Len(Tail(ready)) = Len(ready) - 1
      /\ \A j \in 1..Len(ready) - 1 : Tail(ready)[j] = ready[j + 1]
  BY <1>0
<1>2. /\ DOMAIN ready' = 1..Len(ready) /\ DOMAIN ready = 1..Len(ready)
      /\ \A j \in 1..Len(ready) - 1 : ready'[j] = ready[j + 1]
      /\ ready'[Len(ready)] = <<next, t>>
  BY <1>0, <1>1
<1>3. ready[1][2] = t /\ ready'[Len(ready)][2] = t
  BY <1>0, <1>2
<1> DEFINE from(j) == IF j = Len(ready) THEN 1 ELSE j + 1
<1>4. \A j \in DOMAIN ready' : from(j) \in DOMAIN ready /\ ready'[j][2] = ready[from(j)][2]
  <2> SUFFICES ASSUME NEW j \in 1..Len(ready) PROVE from(j) \in 1..Len(ready) /\ ready'[j][2] = ready[from(j)][2]
    BY <1>2
  <2>1. CASE j = Len(ready)
    BY <1>0, <1>3, <2>1
  <2>2. CASE j # Len(ready)
    <3>1. j \in 1..Len(ready) - 1
      BY <1>0, <2>2
    <3>2. from(j) = j + 1 /\ j + 1 \in 1..Len(ready)
      BY <1>0, <2>2
    <3>3. ready'[j] = ready[j + 1]
      BY <1>2, <3>1
    <3> QED
      BY <3>2, <3>3
  <2> QED
    BY <2>1, <2>2
<1>5. \A i, j \in DOMAIN ready' : from(i) = from(j) => i = j
  BY <1>0, <1>2
<1> HIDE DEF from
<1> QED
  BY <1>4, <1>5 DEF Sole

-----------------------------------------------------------------------------
(* A step of task t, for the others and for itself. *)
LEMMA AloneNext ==
  ASSUME JobInv, RunsAlone, NEW t \in Tasks, NEW label, pc' = [pc EXCEPT ![t] = label],
         NEW come, Moves(t, come), \A s \in Runs : Sole(s)',
         \A q \in Runs \ {t} : stop'[q] = stop[q] /\ drain'[q] = drain[q],
         drained' \subseteq drained \union {t}, t \in Runs => Alone(t)'
  PROVE  RunsAlone'
<1>1. \A q \in Runs \ {t} : pc'[q] = pc[q] /\ (Queued(q)' <=> Queued(q))
  BY TaskKinds DEF JobInv, JobTypes, LoopTypes, Moves
<1> QED
  BY <1>1 DEF RunsAlone, Alone

(* A step that keeps the run alive and its place before or after its child *)
(* keeps what is said of runs and their children.                          *)
LEMMA Goes ==
  ASSUME RunInv, NEW r \in Runs, NEW label, label \in Active \ {"queued", "cleanup"} \/ label = pc[r],
         pc[r] \in Active \/ label = pc[r], pc' = [pc EXCEPT ![r] = label], result' = result,
         \A p \in Runs : os'[p] = "alive" => os[p] = "alive" \/ pc[p] = "starting",
         NEW come, Moves(r, come), \A s \in Runs : Sole(s)',
         \A q \in Runs \ {r} : stop'[q] = stop[q] /\ drain'[q] = drain[q],
         drained' \subseteq drained \union {r}, Alone(r)'
  PROVE  Caught' /\ Outlives' /\ RunsAlone' /\ GoesOn
<1>1. pc \in [Tasks -> {"idle", "over"} \union Active] /\ r \in Tasks
  BY TaskKinds DEF RunInv, JobInv, JobTypes, LoopTypes
<1>2. Caught'
  BY <1>1 DEF RunInv, Caught
<1>3. Outlives'
  BY <1>1 DEF RunInv, Outlives, Attached, Active
<1>4. GoesOn
  BY <1>1 DEF GoesOn
<1>5. RunsAlone'
  BY <1>1, AloneNext DEF RunInv
<1> QED
  BY <1>2, <1>3, <1>4, <1>5

(* A run ends after its child. *)
LEMMA EndsOf ==
  ASSUME RunInv, NEW r \in Runs, pc[r] \in Active \ {"queued"}, os[r] # "alive",
         NEW value, Finish(r, value), value.kind \in {"oserror", "returned"}, os' = os,
         UNCHANGED <<ready, drain, stop, drained>>
  PROVE  Caught' /\ Outlives' /\ RunsAlone' /\ Ends(r)
<1>1. /\ pc \in [Tasks -> {"idle", "over"} \union Active] /\ r \in Tasks
      /\ result \in [Runs -> [kind : Kinds, code : Statuses, cancelled : BOOLEAN]]
  BY TaskKinds DEF RunInv, JobInv, JobTypes, LoopTypes
<1>2. pc' = [pc EXCEPT ![r] = "over"] /\ result' = [result EXCEPT ![r] = value]
  BY DEF Finish
<1>3. Caught'
  BY <1>1, <1>2 DEF RunInv, Caught
<1>4. Outlives'
  BY <1>1, <1>2 DEF RunInv, Outlives, Attached
<1>5. Ends(r)
  BY <1>2 DEF Ends
<1>6. RunsAlone'
  <2>1. \A s \in Runs : Sole(s)'
    BY SoleKept DEF RunInv, RunsAlone, Alone
  <2>2. Alone(r)'
    BY <1>1, <1>2, <2>1 DEF Alone
  <2> QED
    BY <1>1, <1>2, <2>1, <2>2, AloneNext, ReadyKept DEF RunInv
<1> QED
  BY <1>3, <1>4, <1>5, <1>6

(* What the loop and the children do when every coroutine stays where it is. *)
LEMMA Rests ==
  ASSUME RunInv, UNCHANGED <<coroutines, stop, drained>>,
         \A p \in Runs : os'[p] = "alive" => os[p] = "alive" \/ pc[p] = "starting"
  PROVE  Caught' /\ Outlives' /\ RunsAlone' /\ GoesOn
<1>1. UNCHANGED <<pc, result, drain, ready>>
  BY DEF coroutines
<1>2. RunsAlone'
  <2>1. \A s \in Runs : (Sole(s)' <=> Sole(s)) /\ (Queued(s)' <=> Queued(s))
    BY <1>1, SoleKept
  <2> QED
    BY <1>1, <2>1 DEF RunInv, RunsAlone, Alone
<1> QED
  BY <1>1, <1>2 DEF RunInv, Caught, Outlives, GoesOn

(* What happens to other tasks does not matter either. *)
LEMMA OthersMove ==
  ASSUME RunInv, NEW c \in Cancels, NEW label, pc' = [pc EXCEPT ![c] = label],
         UNCHANGED <<result, os, drain, drained>>, \A r \in Runs : stop'[r] = stop[r],
         NEW come, Moves(c, come), \A s \in Runs : Sole(s)'
  PROVE  Caught' /\ Outlives' /\ RunsAlone' /\ GoesOn
<1>1. \A r \in Runs : pc'[r] = pc[r]
  BY TaskKinds DEF RunInv, JobInv, JobTypes, LoopTypes
<1>2. RunsAlone'
  BY AloneNext, TaskKinds DEF RunInv
<1> QED
  BY <1>1, <1>2 DEF RunInv, Caught, Outlives, GoesOn

(* Nobody else reads from the child of a run that is not being rejected. *)
LEMMA NotTaken ==
  ASSUME RunInv, NEW r \in Runs, pc[r] \in {"stopping", "reading"} \/ (pc[r] = "rejecting" /\ Queued(r))
  PROVE  process = r /\ r # None /\ ~Taken(r, r)
<1>1. process = r /\ r # None
  BY TaskKinds DEF RunInv, JobInv, HasItsChild, Attached
<1>2. r \notin drained
  BY DEF RunInv, RunsAlone, Alone
<1>3. \A q \in Runs \ {r} : pc[q] # "reading"
  BY DEF RunInv, JobInv, OneActive, Active
<1> QED
  BY <1>1, <1>2, <1>3 DEF Taken

(* A run goes to its next readline(). *)
LEMMA ReadsOn ==
  ASSUME RunInv, NEW r \in Runs, pc[r] \in {"stopping", "reading"}, Readline(r), os' = os,
         UNCHANGED <<drain, stop, drained, result>>
  PROVE  Caught' /\ Outlives' /\ RunsAlone' /\ GoesOn
<1>1. pc' = [pc EXCEPT ![r] = "reading"] /\ ready' = ready
  BY NotTaken DEF Readline
<1>2. \A s \in Runs : Sole(s)'
  BY <1>1, SoleKept DEF RunInv, RunsAlone, Alone
<1>3. pc'[r] = "reading" /\ r \notin drained'
  BY <1>1, TaskKinds DEF RunInv, JobInv, JobTypes, LoopTypes, RunsAlone, Alone
<1>4. Alone(r)'
  BY <1>2, <1>3 DEF Alone
<1> QED
  BY <1>1, <1>2, <1>4, Goes, ReadyKept DEF RunInv, Active

(* Every step of a run that the user does not interfere with goes on with  *)
(* the run or ends it; none makes it clean up after an exception.          *)
LEMMA RunSteps ==
  ASSUME RunInv, NEW r \in Runs,
         \/ BeginRun(r) \/ Launch(r) \/ LaunchFails(r) \/ Attach(r) \/ AfterStop(r)
         \/ ReadLine(r) \/ ReadEnd(r) \/ Exited(r) \/ RejectDone(r) \/ CleanupDone(r)
  PROVE  Caught' /\ Outlives' /\ RunsAlone' /\ (GoesOn \/ Ends(r))
<1> USE TaskKinds
<1>0. /\ pc \in [Tasks -> {"idle", "over"} \union Active] /\ Alone(r)
      /\ JobInv /\ RunsAlone /\ \A s \in Runs : Sole(s)
  BY DEF RunInv, JobInv, JobTypes, LoopTypes, RunsAlone, Alone
<1>1. CASE BeginRun(r)
  <2>1. Turn("begin", r) /\ UNCHANGED <<drain, stop, drained, os>>
    BY <1>1 DEF BeginRun, children, signals
  <2>2. Moves(r, {}) /\ pc[r] = "queued" /\ \A s \in Runs : Sole(s)'
    BY <1>0, <2>1, ReadyTurns, SoleTurns DEF Whats, JobInv, Entries
  <2>3. ~Running
    BY <1>0, <2>2, RunningOne DEF RunInv, JobInv, OneActive, Active
  <2>4. pc' = [pc EXCEPT ![r] = "starting"] /\ result' = result
    BY <1>1, <2>3 DEF BeginRun
  <2>5. Alone(r)'
    BY <1>0, <2>1, <2>2, <2>4 DEF Alone
  <2> QED
    BY <2>1, <2>2, <2>4, <2>5, Goes DEF Active
<1>2. CASE Launch(r)
  <2>1. /\ pc[r] = "starting" /\ os[r] = "none" /\ ready' = Append(ready, <<"attach", r>>)
        /\ pc' = [pc EXCEPT ![r] = "starting"] /\ UNCHANGED <<pc, result, drain, stop, drained>>
    BY <1>0, <1>2 DEF Launch, signals
  <2>2. ~Queued(r) /\ \A s \in Runs : Sole(s)'
    BY <1>0, <2>1, NotQueued, SoleAppends DEF Whats
  <2>3. Moves(r, {<<"attach", r>>})
    BY <1>0, <2>1, ReadyAppends DEF Whats, JobInv, Entries
  <2>4. \A p \in Runs : os'[p] = "alive" => os[p] = "alive" \/ pc[p] = "starting"
    BY <1>0, <1>2 DEF Launch, JobInv, JobTypes, ChildTypes
  <2>5. Alone(r)'
    BY <1>0, <2>1, <2>2 DEF Alone
  <2> QED
    BY <2>1, <2>2, <2>3, <2>4, <2>5, Goes
<1>3. CASE LaunchFails(r)
  BY <1>3, EndsOf DEF LaunchFails, Raised, Active, children, signals
<1>4. CASE Attach(r)
  <2>1. /\ pc[r] = "starting" /\ ready # <<>> /\ Head(ready) = <<"attach", r>>
        /\ UNCHANGED <<drain, result, os, stop, drained>>
    BY <1>4 DEF Attach, children, signals
  <2>2. PICK label \in {"stopping", "reading"} : pc' = [pc EXCEPT ![r] = label]
    BY <1>4 DEF Attach
  <2>3. PICK come : Moves(r, come) /\ \A s \in Runs : Sole(s)'
    <3>1. CASE ready' = Tail(ready)
      BY <1>0, <2>1, <3>1, ReadyTurns, SoleTurns DEF Turn, Whats
    <3>2. CASE ready' = Append(Tail(ready), <<"stop", r>>)
      BY <1>0, <2>1, <3>2, ReadyPasses, SolePasses DEF Whats
    <3> QED
      BY <1>4, <3>1, <3>2 DEF Attach
  <2>4. Alone(r)'
    BY <1>0, <2>1, <2>2, <2>3 DEF Alone
  <2> QED
    BY <2>1, <2>2, <2>3, <2>4, Goes DEF Active
<1>5. CASE AfterStop(r)
  <2>1. pc[r] = "stopping" /\ UNCHANGED <<drain, stop, drained, os>>
    BY <1>5 DEF AfterStop, children, signals
  <2>2. Readline(r) /\ result' = result
    BY <1>5, <2>1, NotTaken DEF AfterStop
  <2> QED
    BY <2>1, <2>2, ReadsOn
<1>6. CASE ReadLine(r)
  <2>1. pc[r] = "reading" /\ UNCHANGED <<drain, result, os, stop, drained>>
    BY <1>6 DEF ReadLine, signals
  <2>2. CASE Readline(r)
    BY <2>1, <2>2, ReadsOn
  <2>3. CASE StopAndDrain(r, "rejecting")
    <3>1. pc' = [pc EXCEPT ![r] = "rejecting"] /\ ready' = Append(ready, <<"gather", r>>)
      BY <2>3 DEF StopAndDrain, StartStop
    <3>2. Moves(r, {<<"gather", r>>}) /\ \A s \in Runs : Sole(s)'
      BY <1>0, <2>1, <3>1, NotQueued, SoleAppends, ReadyAppends DEF Whats
    <3>3. Alone(r)'
      BY <1>0, <2>1, <3>1, <3>2 DEF Alone, Moves
    <3> QED
      BY <2>1, <3>1, <3>2, <3>3, Goes DEF Active
  <2> QED
    BY <1>6, <2>2, <2>3 DEF ReadLine
<1>7. CASE ReadEnd(r)
  <2>1. /\ pc[r] = "reading" /\ UNCHANGED <<drain, result, os, stop, drained>>
        /\ pc' = [pc EXCEPT ![r] = "waiting"] /\ ready' = ready
    BY <1>7, NotTaken DEF ReadEnd, children, signals
  <2>2. \A s \in Runs : Sole(s)'
    BY <1>0, <2>1, SoleKept
  <2>3. Alone(r)'
    BY <1>0, <2>1, <2>2 DEF Alone
  <2> QED
    BY <1>0, <2>1, <2>2, <2>3, Goes, ReadyKept DEF Active
<1>8. CASE Exited(r)
  <2>1. pc[r] = "waiting" /\ os[r] = "dead"
    BY <1>8 DEF Exited, RunInv, JobInv, OwnChild
  <2> QED
    BY <1>8, <2>1, EndsOf DEF Exited, Returned, Active, children, signals
<1>9. CASE RejectDone(r)
  <2>1. /\ pc[r] = "rejecting" /\ ~Queued(r) /\ Settled(r) /\ process = r
        /\ UNCHANGED <<drain, os, stop, drained>>
    BY <1>9 DEF RejectDone, RunInv, JobInv, HasItsChild, Attached, Settled, children, signals
  <2>2. stop[r] = r /\ drain[r] = r
    BY <1>0, <2>1 DEF Alone
  <2>3. known[r] /\ os[r] = "dead"
    BY <1>0, <2>1, <2>2 DEF Settled, Stopped, JobInv, OwnChild
  <2>4. Finish(r, Returned(process)) /\ ready' = ready
    BY <1>9, <2>1, <2>2, <2>3 DEF RejectDone, RejectAsserts
  <2> QED
    BY <2>1, <2>3, <2>4, EndsOf DEF Returned, Active
<1>10. CASE CleanupDone(r)
  BY <1>10 DEF CleanupDone, RunInv, Caught
<1> QED
  BY <1>1, <1>2, <1>3, <1>4, <1>5, <1>6, <1>7, <1>8, <1>9, <1>10

(* The tasks of a shielded call. *)
LEMMA ShieldedSteps ==
  ASSUME RunInv, NEW r \in Runs, Gather(r) \/ ShieldedStop(r) \/ ShieldedBoth(r)
  PROVE  Caught' /\ Outlives' /\ RunsAlone' /\ GoesOn
<1> USE TaskKinds
<1>0. /\ pc \in [Tasks -> {"idle", "over"} \union Active] /\ Alone(r)
      /\ stop \in [Tasks -> Runs \union {None}] /\ drain \in [Runs -> Runs \union {None, Broken}]
      /\ JobInv /\ RunsAlone /\ \A s \in Runs : Sole(s)
  BY DEF RunInv, JobInv, JobTypes, LoopTypes, SignalTypes, RunsAlone, Alone
<1>1. /\ pc' = pc /\ pc' = [pc EXCEPT ![r] = pc[r]] /\ result' = result /\ os' = os
  BY <1>0 DEF Gather, ShieldedStop, ShieldedBoth, children
<1>2. CASE Gather(r)
  <2>1. /\ Waits(<<"gather", r>>) /\ Moves(r, {<<"both", r>>}) /\ \A s \in Runs : Sole(s)'
        /\ UNCHANGED <<drain, stop, drained>>
    BY <1>0, <1>2, ReadyPasses, SolePasses DEF Gather, Whats, signals
  <2>2. pc[r] \in Stopping /\ Queued(r)' /\ Queued(r)
    <3>1. pc[r] \in Stopping
      BY <1>0, <2>1 DEF JobInv, Entries
    <3>2. Queued(r)'
      BY <2>1 DEF Moves
    <3>3. Queued(r)
      BY <2>1 DEF Waits, Queued
    <3> QED
      BY <3>1, <3>2, <3>3
  <2>3. Alone(r)'
    BY <1>0, <1>1, <2>1, <2>2 DEF Alone, Stopping
  <2> QED
    BY <1>1, <2>1, <2>3, Goes
<1>3. CASE ShieldedStop(r)
  <2>1. /\ Waits(<<"stop", r>>) /\ Moves(r, {}) /\ \A s \in Runs : Sole(s)'
        /\ UNCHANGED <<drain, drained>>
    BY <1>0, <1>3, ReadyTurns, SoleTurns DEF ShieldedStop, Whats
  <2>2. pc[r] \in {"stopping", "over"} /\ \A q \in Runs \ {r} : stop'[q] = stop[q]
    BY <1>0, <1>3, <2>1 DEF JobInv, Entries, ShieldedStop, BeginStop
  <2>3. Alone(r)'
    BY <1>0, <1>1, <2>1, <2>2 DEF Alone
  <2> QED
    BY <1>1, <2>1, <2>2, <2>3, Goes
<1>4. CASE ShieldedBoth(r)
  <2>1. /\ Waits(<<"both", r>>) /\ Moves(r, {}) /\ Queued(r) /\ ~Queued(r)' /\ \A s \in Runs : Sole(s)'
    BY <1>0, <1>4, ReadyTurns, SoleTurns DEF ShieldedBoth, Whats
  <2>2. pc[r] = "rejecting"
    BY <1>0, <2>1 DEF JobInv, Entries, Stopping, RunInv, Caught
  <2>3. process = r /\ r # None /\ ~Taken(r, r)
    BY <2>1, <2>2, NotTaken
  <2>4. /\ stop' = [stop EXCEPT ![r] = r] /\ drain' = [drain EXCEPT ![r] = r]
        /\ drained' = drained \union {r}
    BY <1>4, <2>3 DEF ShieldedBoth, BeginStop
  <2>5. Alone(r)'
    BY <1>0, <1>1, <2>1, <2>2, <2>4 DEF Alone
  <2> QED
    BY <1>0, <1>1, <2>1, <2>4, <2>5, Goes
<1> QED
  BY <1>2, <1>3, <1>4

(* What happens in the background ends one run or none. *)
LEMMA BackgroundSteps ==
  ASSUME RunInv, LoopStep \/ ChildStep
  PROVE  Caught' /\ Outlives' /\ RunsAlone' /\ (GoesOn \/ \E r \in Runs : Ends(r))
<1>1. ASSUME NEW c \in Cancels, BeginCancel(c) \/ CancelDone(c)
      PROVE  Caught' /\ Outlives' /\ RunsAlone' /\ GoesOn
  <2>1. UNCHANGED <<result, os, drain, drained>> /\ JobInv /\ c \in Tasks
    BY <1>1, TaskKinds DEF BeginCancel, CancelDone, children, signals, RunInv
  <2>2. \A r \in Runs : stop'[r] = stop[r]
    BY <1>1, TaskKinds DEF BeginCancel, CancelDone, BeginStop, signals, RunInv, JobInv, JobTypes, SignalTypes
  <2>3. PICK label : pc' = [pc EXCEPT ![c] = label]
    BY <1>1 DEF BeginCancel, CancelDone
  <2>4. PICK come : Moves(c, come) /\ \A s \in Runs : Sole(s)'
    <3>1. \A s \in Runs : Sole(s)
      BY DEF RunInv, RunsAlone, Alone
    <3>2. CASE BeginCancel(c)
      BY <2>1, <3>1, <3>2, ReadyTurns, SoleTurns DEF BeginCancel, Whats
    <3>3. CASE CancelDone(c)
      BY <2>1, <3>1, <3>3, ReadyKept, SoleKept DEF CancelDone
    <3> QED
      BY <1>1, <3>2, <3>3
  <2> QED
    BY <2>1, <2>2, <2>3, <2>4, OthersMove
<1>2. ASSUME NEW t \in Tasks, NEW p \in Runs, StopTimeout(t, p)
      PROVE  Caught' /\ Outlives' /\ RunsAlone' /\ GoesOn
  BY <1>2, Rests DEF StopTimeout, children
<1>3. ASSUME NEW p \in Runs, DrainOutput(p) \/ Reap(p) \/ WriteLine(p) \/ \E s \in {"zero", "nonzero"} : Exit(p, s)
      PROVE  Caught' /\ Outlives' /\ RunsAlone' /\ GoesOn
  <2>1. UNCHANGED <<coroutines, stop, drained>>
    BY <1>3 DEF DrainOutput, Reap, WriteLine, Exit, signals
  <2>2. \A q \in Runs : os'[q] = "alive" => os[q] = "alive"
    BY <1>3 DEF DrainOutput, Reap, WriteLine, Exit, RunInv, JobInv, JobTypes, ChildTypes
  <2> QED
    BY <2>1, <2>2, Rests
<1> QED
  BY <1>1, <1>2, <1>3, RunSteps, ShieldedSteps DEF LoopStep, ChildStep, Terminated, Killed

-----------------------------------------------------------------------------
(* With no run left no child is alive, and it does not matter to the job   *)
(* what becomes of what else the loop had to do.                           *)
LEMMA NobodyLeft ==
  ASSUME RunInv, ~SomeActive, UNCHANGED <<target, drain, result, object, children, stop, sig, history>>,
         LoopTypes', Entries', SignalTypes', \A r \in Runs : pc'[r] = pc[r],
         \A s \in Runs : Sole(s)', drained' \subseteq drained
  PROVE  RunInv' /\ ~SomeActive'
<1> USE TaskKinds DEF RunInv, JobInv, JobTypes, object, children, history
<1>1. ~SomeActive' /\ \A r \in Runs : pc[r] \notin Active
  BY DEF SomeActive
<1>2. ObjectTypes' /\ ChildTypes'
  BY DEF ObjectTypes, ChildTypes
<1>3. OneActive' /\ HasItsChild' /\ ProcessOf' /\ StartsClean' /\ OwnChild' /\ StopAsked'
  <2>1. ProcessOf' /\ StartsClean' /\ OwnChild' /\ OneActive' /\ HasItsChild'
    BY DEF ProcessOf, StartsClean, OwnChild, OneActive, HasItsChild, EndOfFile, ObjectTypes
  <2>2. StopAsked'
    BY <1>1 DEF StopAsked, Stopping, Active
  <2> QED
    BY <2>1, <2>2
<1>4. Flagged' /\ CancelIsReported' /\ OwnResult'
  BY DEF Flagged, CancelIsReported, OwnResult
<1>5. \A p \in Runs : os'[p] # "alive"
  BY <1>1 DEF Outlives, Attached, Active
<1>6. Tracked' /\ Outlives' /\ Caught'
  BY <1>5 DEF Tracked, Outlives, Caught
<1>7. RunsAlone'
  BY <1>1 DEF RunsAlone, Alone, Active
<1> QED
  BY <1>1, <1>2, <1>3, <1>4, <1>6, <1>7

(* A cancellation that exit drops leaves the queue and its _stop(). *)
LEMMA ExitCancelStep ==
  ASSUME RunInv, ~SomeActive, NEW c \in Cancels, ExitCancel(c) PROVE RunInv' /\ ~SomeActive'
<1>1. /\ pc[c] \in {"queued", "stopping"} /\ pc' = [pc EXCEPT ![c] = "over"] /\ c \in Tasks
      /\ timers' \subseteq timers
      /\ UNCHANGED <<target, drain, result, object, children, stop, drained, sig, history>>
      /\ JobInv /\ \A s \in Runs : Sole(s)
  BY TaskKinds DEF ExitCancel, RunInv, RunsAlone, Alone
<1>2. Moves(c, {}) /\ ~Waits(<<"begin", c>>)' /\ \A s \in Runs : Sole(s)'
  <2>1. CASE pc[c] = "queued"
    BY <1>1, <2>1, ReadyWithout, SoleWithout DEF ExitCancel, Whats
  <2>2. CASE pc[c] # "queued"
    BY <1>1, <2>2, ReadyKept, SoleKept DEF ExitCancel, JobInv, Entries
  <2> QED
    BY <2>1, <2>2
<1>3. LoopTypes' /\ SignalTypes'
  BY <1>1, <1>2 DEF JobInv, JobTypes, LoopTypes, SignalTypes, Moves, history
<1>4. Entries'
  <2>1. ~Waits(<<"attach", c>>) /\ ~Waits(<<"gather", c>>) /\ ~Waits(<<"both", c>>)
    BY <1>1, TaskKinds DEF JobInv, Entries, Stopping
  <2>2. ~Waits(<<"attach", c>>)' /\ ~Waits(<<"gather", c>>)' /\ ~Waits(<<"both", c>>)'
    BY <1>2, <2>1 DEF Moves
  <2>3. \A p \in Runs : os[p] # "none" => os'[p] # "none"
    BY <1>1 DEF children
  <2> QED
    BY <1>1, <1>2, <2>2, <2>3, EntriesNext
<1>5. \A r \in Runs : pc'[r] = pc[r]
  BY <1>1, TaskKinds DEF JobInv, JobTypes, LoopTypes
<1> QED
  BY <1>1, <1>2, <1>3, <1>4, <1>5, NobodyLeft

(* Nor does it matter to the job that the loop is gone. *)
LEMMA TeardownStep == ASSUME RunInv, ~SomeActive, Teardown PROVE RunInv' /\ ~SomeActive'
<1>1. /\ ready' = <<>> /\ timers' = {} /\ drained' = {} /\ pc' = pc
      /\ UNCHANGED <<target, drain, result, object, children, stop, sig, history>> /\ JobInv
  BY DEF Teardown, RunInv
<1>2. LoopTypes' /\ SignalTypes'
  BY <1>1 DEF JobInv, JobTypes, LoopTypes, SignalTypes, history
<1>3. Entries'
  BY <1>1 DEF Entries, Waits, Once
<1>4. \A s \in Runs : Sole(s)'
  BY <1>1 DEF Sole
<1> QED
  BY <1>1, <1>2, <1>3, <1>4, NobodyLeft

(* Queueing a run or a cancellation leaves the children alone. *)
LEMMA EnqueueMoves ==
  ASSUME RunInv, NEW t \in Tasks, Enqueue(t), t \in Runs => ~SomeActive
  PROVE  RunInv' /\ result' = result /\ (t \in Cancels => GoesOn)
<1>1. /\ pc' = [pc EXCEPT ![t] = "queued"] /\ pc[t] = "idle" /\ ready' = Append(ready, <<"begin", t>>)
      /\ UNCHANGED <<result, os, drain, stop, drained>>
  BY DEF Enqueue, children, signals
<1>2. pc \in [Tasks -> {"idle", "over"} \union Active] /\ JobInv /\ RunsAlone /\ \A s \in Runs : Alone(s)
  BY DEF RunInv, JobInv, JobTypes, LoopTypes, RunsAlone
<1>3. Caught'
  BY <1>1, <1>2, TaskKinds DEF RunInv, Caught
<1>4. Outlives'
  BY <1>1, <1>2, TaskKinds DEF RunInv, Outlives, Attached
<1>5. t \in Cancels => GoesOn
  BY <1>1, <1>2, TaskKinds DEF GoesOn
<1>6. JobInv'
  BY <1>2, EnqueueStep DEF SomeActive
<1>7. RunsAlone'
  <2>1. \A s \in Runs : Sole(s)'
    BY <1>1, <1>2, NotQueued, SoleAppends DEF Whats, Alone
  <2>2. Moves(t, {<<"begin", t>>})
    BY <1>1, <1>2, ReadyAppends DEF Whats, JobInv, Entries
  <2>3. t \in Runs => Alone(t)'
    BY <1>1, <1>2, <2>1 DEF Alone
  <2> QED
    BY <1>1, <1>2, <2>1, <2>2, <2>3, AloneNext
<1> QED
  BY <1>1, <1>3, <1>4, <1>5, <1>6, <1>7 DEF RunInv

-----------------------------------------------------------------------------
(* Whether a run is left changes only with the place of a run. *)
LEMMA ActiveStays == (\A r \in Runs : pc'[r] \in Active <=> pc[r] \in Active) => (SomeActive' <=> SomeActive)
  BY DEF SomeActive, Active

(* The end of a run leaves none: there was only one. *)
LEMMA NoneLeft == ASSUME RunInv, NEW r \in Runs, Ends(r) PROVE SomeActive /\ ~SomeActive'
  BY TaskKinds DEF Ends, SomeActive, RunInv, JobInv, JobTypes, LoopTypes, OneActive, Active

(* _run_job tells how the run ended and withdraws the question. *)
LEMMA RunJobTells ==
  ASSUME NEW r \in Runs, RunJobEnds(r), result'[r].kind \in {"oserror", "returned"}
  PROVE  ~pending' /\ (screen' = "results" \/ error' # "none")
  BY DEF RunJobEnds, Fail, Load, ShowResults, Show

(* Nothing in the background leaves the screen behind. *)
LEMMA BackgroundScreen == ASSUME RunInv, ScreenInv, Background PROVE RunInv' /\ ScreenInv'
<1>1. RunInv' /\ (GoesOn \/ \E r \in Runs : Ends(r))
  BY BackgroundSteps, LoopSteps, ChildSteps DEF Background, RunInv
<1>2. CASE GoesOn
  <2>1. UNCHANGED <<screen, error, pending, exiting, closed>> /\ (SomeActive' <=> SomeActive)
    BY <1>2, ActiveStays DEF GoesOn, Background
  <2> QED
    BY <1>1, <2>1 DEF ScreenInv
<1>3. ASSUME NEW r \in Runs, Ends(r) PROVE ScreenInv'
  <2>1. /\ result'[r] # result[r] /\ result'[r].kind \in {"oserror", "returned"}
        /\ \A q \in Runs \ {r} : result'[q] = result[q]
    <3>1. result \in [Runs -> [kind : Kinds, code : Statuses, cancelled : BOOLEAN]]
      BY DEF RunInv, JobInv, JobTypes, LoopTypes
    <3>2. result[r].kind = "none"
      BY <1>3 DEF RunInv, JobInv, Flagged, Ends, Active
    <3> QED
      BY <1>3, <3>1, <3>2 DEF Ends
  <2>2. RunJobEnds(r) /\ UNCHANGED <<exiting, closed>>
    BY <2>1 DEF Background
  <2>3. ~pending' /\ (screen' = "results" \/ error' # "none") /\ ~SomeActive'
    BY <1>3, <2>1, <2>2, RunJobTells, NoneLeft
  <2> QED
    BY <2>2, <2>3 DEF ScreenInv
<1> QED
  BY <1>1, <1>2, <1>3

(* A key that leaves the job alone keeps everything said of the job. *)
LEMMA JobRests == ASSUME RunInv, UNCHANGED jobVars PROVE RunInv' /\ (SomeActive' <=> SomeActive)
<1>1. JobInv'
  BY QuietSteps DEF RunInv
<1>2. UNCHANGED <<pc, result, os, coroutines, stop, drained>>
  BY DEF jobVars, coroutines, children, signals
<1>3. Caught' /\ Outlives' /\ RunsAlone'
  BY <1>2, Rests
<1> QED
  BY <1>1, <1>2, <1>3 DEF RunInv, SomeActive

(* A key pressed on another screen than the running one: no run is left.   *)
LEMMA KeyElsewhere ==
  ASSUME RunInv, ScreenInv, UNCHANGED jobVars, screen # "running", screen' # "running", pending' = pending,
         closed => exiting', closed' = closed
  PROVE  RunInv' /\ ScreenInv'
<1>1. ~SomeActive /\ ~SomeActive' /\ ~pending /\ RunInv'
  BY JobRests DEF ScreenInv
<1> QED
  BY <1>1 DEF ScreenInv

(* Enter on the Start button: the user starts no run before the last ended. *)
LEMMA StartScreen == ASSUME ~hasty, RunInv, ScreenInv, Start PROVE RunInv' /\ ScreenInv'
<1>1. ~SomeActive /\ ~exiting /\ UNCHANGED <<exiting, pending, closed>>
  BY DEF Start, Listening
<1>2. CASE Fail("input") /\ UNCHANGED jobVars
  <2>1. error' # "none" /\ screen' = screen /\ RunInv' /\ ~SomeActive'
    BY <1>1, <1>2, JobRests DEF Fail
  <2> QED
    BY <1>1, <2>1 DEF ScreenInv
<1>3. ASSUME NEW r \in Runs, Show("running"), Enqueue(r) PROVE RunInv' /\ ScreenInv'
  <2>1. RunInv'
    BY <1>1, <1>3, EnqueueMoves, TaskKinds
  <2>2. SomeActive' /\ screen' = "running"
    BY <1>3, TaskKinds DEF Enqueue, Show, SomeActive, Active, RunInv, JobInv, JobTypes, LoopTypes
  <2> QED
    BY <1>1, <2>1, <2>2 DEF ScreenInv
<1> QED
  BY <1>2, <1>3 DEF Start

(* A key on the running screen while the job is not running goes home. *)
LEMMA HomeScreen ==
  ASSUME ~hasty, RunInv, ScreenInv, Listening, ~Running, ShowHome, UNCHANGED <<jobVars, pending, exiting, closed>>
  PROVE  RunInv' /\ ScreenInv'
<1>1. ~SomeActive /\ ~SomeActive' /\ RunInv'
  BY JobRests DEF Listening
<1>2. ~pending /\ screen' = "home"
  BY <1>1 DEF ScreenInv, ShowHome, Show
<1> QED
  BY <1>1, <1>2 DEF ScreenInv

(* Ctrl-C: go home, ask, or cancel. *)
LEMMA CancelScreen == ASSUME ~hasty, RunInv, ScreenInv, CancelJob PROVE RunInv' /\ ScreenInv'
<1>1. Listening /\ screen = "running" /\ UNCHANGED <<exiting, closed>>
  BY DEF CancelJob
<1>2. CASE ~Running /\ ShowHome /\ UNCHANGED <<jobVars, pending, confirmed>>
  BY <1>1, <1>2, HomeScreen
<1>3. CASE Running /\ pending' = TRUE /\ UNCHANGED <<jobVars, screen, error, shown, onStart, confirmed>>
  <2>1. SomeActive /\ SomeActive' /\ RunInv'
    BY <1>3, RunningOne, JobRests DEF RunInv, SomeActive
  <2> QED
    BY <1>1, <1>3, <2>1 DEF ScreenInv
<1>4. ASSUME NEW c \in Cancels, Enqueue(c), UNCHANGED <<screen, error, pending>> PROVE RunInv' /\ ScreenInv'
  <2>1. RunInv' /\ (SomeActive' <=> SomeActive)
    BY <1>4, EnqueueMoves, ActiveStays, TaskKinds DEF GoesOn
  <2> QED
    BY <1>1, <1>4, <2>1 DEF ScreenInv
<1> QED
  BY <1>2, <1>3, <1>4 DEF CancelJob

(* Esc: go home or withdraw the question. *)
LEMMA KeepScreen == ASSUME ~hasty, RunInv, ScreenInv, KeepRunning PROVE RunInv' /\ ScreenInv'
<1>1. Listening /\ screen = "running" /\ UNCHANGED <<exiting, closed>> /\ UNCHANGED jobVars
  BY DEF KeepRunning
<1>2. CASE ~Running /\ ShowHome /\ UNCHANGED pending
  BY <1>1, <1>2, HomeScreen
<1>3. CASE pending' = FALSE /\ UNCHANGED <<screen, error, shown, onStart>>
  <2>1. RunInv' /\ (SomeActive' <=> SomeActive)
    BY <1>1, JobRests
  <2> QED
    BY <1>1, <1>3, <2>1 DEF ScreenInv
<1> QED
  BY <1>2, <1>3 DEF KeepRunning

(* Every key keeps the invariant. *)
LEMMA KeySteps == ASSUME ~hasty, RunInv, ScreenInv, Keys PROVE RunInv' /\ ScreenInv'
<1>1. CASE Choose \/ Back \/ OpenOutput \/ MoveFocus
  <2>1. UNCHANGED <<jobVars, pending, exiting, closed>> /\ screen # "running"
    BY <1>1 DEF Choose, Back, OpenOutput, MoveFocus
  <2>2. screen' # "running"
    BY <1>1 DEF Choose, Back, OpenOutput, MoveFocus, ShowHome, Load, ShowResults, Show, Fail
  <2> QED
    BY <2>1, <2>2, KeyElsewhere DEF ScreenInv
<1>2. CASE ToggleHelp
  <2>1. UNCHANGED <<jobVars, screen, error, pending, exiting, closed>>
    BY <1>2 DEF ToggleHelp
  <2> QED
    BY <2>1, JobRests DEF ScreenInv
<1>3. CASE Quit
  BY <1>3, KeyElsewhere DEF Quit
<1> QED
  BY <1>1, <1>2, <1>3, StartScreen, CancelScreen, KeepScreen DEF Keys

(* Exit finds no run to cancel: the home screen is left only without one. *)
LEMMA ExitSteps == ASSUME RunInv, ScreenInv, Exiting PROVE RunInv' /\ ScreenInv'
<1>1. ~SomeActive /\ exiting
  BY DEF Exiting, ExitRun, ExitCancel, Teardown, ScreenInv
<1>2. ASSUME NEW r \in Runs, ExitRun(r) PROVE FALSE
  BY <1>1, <1>2 DEF ExitRun, CancelTask, SomeActive
<1>3. ASSUME NEW c \in Cancels, ExitCancel(c) PROVE RunInv' /\ ScreenInv'
  <2>1. RunInv' /\ ~SomeActive' /\ UNCHANGED <<screen, error, pending, exiting, closed>>
    BY <1>1, <1>3, ExitCancelStep DEF ExitCancel, ui
  <2> QED
    BY <1>1, <2>1 DEF ScreenInv
<1>4. CASE Teardown
  <2>1. RunInv' /\ ~SomeActive' /\ UNCHANGED <<screen, error, pending, exiting>>
    BY <1>1, <1>4, TeardownStep DEF Teardown
  <2> QED
    BY <1>1, <2>1 DEF ScreenInv
<1> QED
  BY <1>2, <1>3, <1>4 DEF Exiting

(* With a user who waits for a run to end, the invariant of the job holds  *)
(* in the application and the screen belongs to the run.                   *)
LEMMA TuiInvariant == TuiSpec => []TuiInv
<1>1. TuiInit => TuiInv
  <2> SUFFICES ASSUME TuiInit PROVE RunInv /\ ScreenInv
    BY DEF TuiInv
  <2>1. JobInv
    BY JobStarts DEF TuiInit
  <2>2. Caught /\ Outlives
    BY TaskKinds DEF TuiInit, JobInit, Caught, Outlives, NoResult
  <2>3. RunsAlone
    BY TaskKinds DEF TuiInit, JobInit, RunsAlone, Alone, Sole
  <2>4. ~SomeActive
    BY TaskKinds DEF TuiInit, JobInit, SomeActive, Active
  <2> QED
    BY <2>1, <2>2, <2>3, <2>4 DEF TuiInit, RunInv, ScreenInv
<1>2. TuiInv /\ [TuiNext]_tuiVars => TuiInv'
  <2> SUFFICES ASSUME TuiInv, [TuiNext]_tuiVars, ~hasty' PROVE RunInv' /\ ScreenInv'
    BY DEF TuiInv
  <2>0. hasty' = hasty
    BY DEF TuiNext, Background, Keys, Choose, Back, OpenOutput, MoveFocus, Start, CancelJob, KeepRunning,
       ToggleHelp, Quit, Exiting, ExitRun, ExitCancel, Teardown, ui, tuiVars
  <2>1. ~hasty /\ RunInv /\ ScreenInv
    BY <2>0 DEF TuiInv
  <2>2. CASE UNCHANGED tuiVars
    <3>1. UNCHANGED <<jobVars, screen, error, pending, exiting, closed>>
      BY <2>2 DEF tuiVars, ui
    <3> QED
      BY <2>1, <3>1, JobRests DEF ScreenInv
  <2> QED
    BY <2>1, <2>2, BackgroundScreen, KeySteps, ExitSteps DEF TuiNext
<1> QED
  BY <1>1, <1>2, PTL DEF TuiSpec

-----------------------------------------------------------------------------
(* As long as an extraction is alive its screen is the one shown and the   *)
(* job admits to be running, so that Ctrl-C can cancel it (cancel_job).    *)
THEOREM AlwaysCancellable == TuiSpec => []Cancellable
<1>1. TuiInv => Cancellable
  <2> SUFFICES ASSUME RunInv, ScreenInv, NEW p \in Runs, os[p] = "alive" PROVE screen = "running" /\ Running
    BY DEF Cancellable, CtrlCWorks, TuiInv
  <2>1. pc[p] = "starting" \/ pc[p] \in Attached
    BY DEF RunInv, Outlives
  <2>2. screen = "running"
    BY <2>1 DEF ScreenInv, SomeActive, Active, Attached
  <2>3. CASE pc[p] = "starting"
    BY <2>2, <2>3 DEF RunInv, JobInv, StartsClean, Running
  <2>4. CASE pc[p] \in Attached
    <3>1. process = p /\ p # None /\ ~known[p]
      BY <2>4, TaskKinds DEF RunInv, JobInv, HasItsChild, OwnChild
    <3> QED
      BY <2>2, <3>1 DEF Running
  <2> QED
    BY <2>1, <2>3, <2>4
<1> QED
  BY TuiInvariant, <1>1, PTL

(* A run ends on its own screen, on every way it can end (_run_job and the *)
(* keys that leave the running screen).                                    *)
THEOREM EndsOnItsScreen == TuiSpec => []OnScreen
<1>1. TuiInv => OnScreen
  BY DEF TuiInv, ScreenInv, OnScreen
<1> QED
  BY TuiInvariant, <1>1, PTL

(* "Cancel extraction?" never outlives the run it was asked about: every   *)
(* end of a run that can happen withdraws the question (_run_job).         *)
THEOREM QuestionBelongsToRun == TuiSpec => []PendingBelongs
<1>1. TuiInv => PendingBelongs
  BY DEF TuiInv, ScreenInv, PendingBelongs
<1> QED
  BY TuiInvariant, <1>1, PTL

(* Once no run is left the running screen tells what happened (_run_job).  *)
THEOREM RunningScreenEnds == TuiSpec => []NoFrozenScreen
<1>1. TuiInv => NoFrozenScreen
  BY DEF TuiInv, ScreenInv, NoFrozenScreen
<1> QED
  BY TuiInvariant, <1>1, PTL

(* A user who does not type ahead starts one run at a time and leaves      *)
(* after it: the job of the application then forgets no child, reports     *)
(* every cancellation, returns the results of its own children, and is     *)
(* left with no child when the program ends.                               *)
THEOREM JobKeepsItsPromises == TuiSpec => [](~hasty => Tracked /\ CancelIsReported /\ OwnResult /\ QuitStops)
<1>1. TuiInv => (~hasty => Tracked /\ CancelIsReported /\ OwnResult /\ QuitStops)
  <2> SUFFICES ASSUME RunInv, ScreenInv PROVE Tracked /\ CancelIsReported /\ OwnResult /\ QuitStops
    BY DEF TuiInv
  <2>1. QuitStops
    BY DEF QuitStops, ScreenInv, RunInv, Outlives, SomeActive, Attached, Active
  <2> QED
    BY <2>1 DEF RunInv, JobInv
<1> QED
  BY TuiInvariant, <1>1, PTL
=============================================================================
