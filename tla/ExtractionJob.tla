--------------------------- MODULE ExtractionJob ---------------------------
(***************************************************************************)
(* tui.jobs.ExtractionJob: one object that runs an extraction in a child   *)
(* process, streams its output and cancels it.  All of it runs on one      *)
(* asyncio event loop, so a step of the model is what a coroutine does     *)
(* between two awaits; everything else may happen in between.              *)
(*                                                                         *)
(* Coroutines are numbered: 1..MaxRuns are calls of run(), the following   *)
(* MaxCancels are calls of cancel().  Process p is the child created by    *)
(* call p of run().  The loop starts what it is given in the order of      *)
(* creation (`ready`).  That order matters: asyncio.shield() makes a task  *)
(* of _stop_and_drain, whose gather() makes two more, so the process to    *)
(* stop is looked up two turns of the loop after the run asked for it.     *)
(*                                                                         *)
(* The module is the object with any caller that starts a run only when    *)
(* the previous one has ended; Tui composes it with the real caller, whose *)
(* keys keep no such promise.  Abrupt says whether that caller cancels a   *)
(* task in those two turns; the task then forgets a child nobody stops.    *)
(***************************************************************************)
EXTENDS Naturals, SequencesExt

CONSTANTS
  MaxRuns, MaxCancels,   \* bounds: calls of run() and of cancel()
  PipeSize,              \* lines that fit in the pipe between two reads
  Abrupt                 \* is a task cancelled as its child is about to be stopped?

ASSUME JobAssumption ==
  /\ MaxRuns \in Nat \ {0} /\ MaxCancels \in Nat
  /\ PipeSize \in Nat \ {0} /\ Abrupt \in BOOLEAN

Runs == 1..MaxRuns
Cancels == (MaxRuns + 1)..(MaxRuns + MaxCancels)
Tasks == Runs \union Cancels
None == 0
Broken == MaxRuns + MaxCancels + 1

VARIABLES
  ready,            \* what the loop has yet to start, oldest first: <<what, for whom>>
  pc,               \* [Tasks -> where the coroutine is suspended]
  target,           \* [Runs -> process whose stdout or exit the run awaits]
  drain,            \* [Runs -> process whose stdout its _drain_output reads, or Broken]
  result,           \* [Runs -> what run() returned or raised]
  stop,             \* [Tasks -> process that the task's last _stop() found]
  timers,           \* the _stop()s whose two seconds run: <<task, process>>
  drained,          \* processes that some _drain_output() reads
  process,          \* self._process
  starting, cancelled, cancelRequested,
  os, code, known,  \* of each process: its state, exit status, and whether
                    \* asyncio has seen it exit (returncode is not None)
  pipe, sig,        \* of each process: lines unread, strongest signal sent to it alive
  asked, dropped    \* history: runs a cancel() found running; tasks cancelled

coroutines == <<ready, pc, target, drain, result>>
object == <<process, starting, cancelled, cancelRequested>>
children == <<os, code, known, pipe>>
signals == <<stop, timers, drained, sig>>
history == <<asked, dropped>>
jobVars == <<coroutines, object, children, signals, history>>

NoResult == [kind |-> "none", code |-> "none", cancelled |-> FALSE]
Raised(kind) == [kind |-> kind, code |-> "none", cancelled |-> FALSE]
Active == {"queued", "starting", "stopping", "reading", "waiting", "rejecting", "cleanup"}

\* The property `running`.
Running == starting \/ (process # None /\ ~known[process])

EndOfFile(p) == os[p] = "dead" /\ pipe[p] = 0

\* StreamReader lets one coroutine wait for data: a second one that finds
\* none raises RuntimeError, and finds what the first was not yet given.
Taken(p, r) == p \in drained \/ \E q \in Runs \ {r} : pc[q] = "reading" /\ target[q] = p
Silent(p) == pipe[p] = 0 /\ os[p] = "alive"

JobInit ==
  /\ ready = <<>> /\ pc = [t \in Tasks |-> "idle"]
  /\ target = [r \in Runs |-> None]
  /\ drain = [r \in Runs |-> None] /\ result = [r \in Runs |-> NoResult]
  /\ stop = [t \in Tasks |-> None] /\ timers = {} /\ drained = {}
  /\ process = None /\ starting = FALSE /\ cancelled = FALSE /\ cancelRequested = FALSE
  /\ os = [p \in Runs |-> "none"] /\ code = [p \in Runs |-> "none"]
  /\ known = [p \in Runs |-> FALSE]
  /\ pipe = [p \in Runs |-> 0] /\ sig = [p \in Runs |-> "none"]
  /\ asked = {} /\ dropped = {}

-----------------------------------------------------------------------------
(* Parts of steps.                                                         *)

Finish(r, value) ==
  /\ pc' = [pc EXCEPT ![r] = "over"]
  /\ result' = [result EXCEPT ![r] = value]

BeginStopUnheard(t, p) ==   \* mutant: no signal reaches the child
  /\ stop' = [stop EXCEPT ![t] = p]
  /\ UNCHANGED <<sig, timers>>

\* _stop() of task t finds p: SIGTERM and two seconds, unless p is gone.
BeginStop(t, p) ==
  /\ stop' = [stop EXCEPT ![t] = p]
  /\ IF p = None \/ known[p] THEN UNCHANGED <<sig, timers>>
     ELSE /\ sig' = [sig EXCEPT ![p] = IF @ = "none" /\ os[p] = "alive" THEN "term" ELSE @]
          /\ timers' = timers \union {<<t, p>>}

\* The last _stop() of task t has returned.
Stopped(t) == stop[t] \in Runs => known[stop[t]]

\* Something of task t has yet to be started.
Queued(t) == \E k \in DOMAIN ready : ready[k][2] = t

StartStop(what, t) == ready' = Append(ready, <<what, t>>)

\* await asyncio.shield(self._stop_and_drain()).
StopAndDrain(r, label) ==
  /\ pc' = [pc EXCEPT ![r] = label]
  /\ StartStop("gather", r)

\* It returns when both are done, or raises when the drain does.
Settled(r) ==
  /\ ~Queued(r)
  /\ \/ drain[r] = Broken
     \/ Stopped(r) /\ (drain[r] \in Runs => EndOfFile(drain[r]))

\* await self._process.stdout.readline() with self._process as it is now.
Readline(r) ==
  \/ /\ process # None /\ ~(Taken(process, r) /\ Silent(process))
     /\ pc' = [pc EXCEPT ![r] = "reading"]
     /\ target' = [target EXCEPT ![r] = process]
     /\ UNCHANGED ready
  \/ /\ process = None \/ Taken(process, r)
     /\ StopAndDrain(r, "cleanup") /\ UNCHANGED target

-----------------------------------------------------------------------------
(* run().                                                                  *)

Enqueue(t) ==
  /\ pc[t] = "idle"
  /\ t \notin {1, MaxRuns + 1} => pc[t - 1] # "idle"
  /\ pc' = [pc EXCEPT ![t] = "queued"]
  /\ ready' = Append(ready, <<"begin", t>>)
  /\ UNCHANGED <<target, drain, result, object, children, signals, history>>

\* The loop's next turn is this one.
Turn(what, t) == ready # <<>> /\ Head(ready) = <<what, t>> /\ ready' = Tail(ready)

BeginRunStale(r) ==   \* mutant: the flags of the previous run stay
  /\ Turn("begin", r)
  /\ \/ Running /\ Finish(r, Raised("refused")) /\ UNCHANGED object
     \/ /\ ~Running
        /\ pc' = [pc EXCEPT ![r] = "starting"]
        /\ starting' = TRUE
        /\ UNCHANGED <<process, cancelled, cancelRequested, result>>
  /\ UNCHANGED <<target, drain, children, signals, history>>

BeginRun(r) ==
  /\ Turn("begin", r)
  /\ \/ Running /\ Finish(r, Raised("refused")) /\ UNCHANGED object
     \/ /\ ~Running
        /\ pc' = [pc EXCEPT ![r] = "starting"]
        /\ starting' = TRUE /\ cancelled' = FALSE /\ cancelRequested' = FALSE
        /\ UNCHANGED <<process, result>>
  /\ UNCHANGED <<target, drain, children, signals, history>>

Launch(r) ==
  /\ pc[r] = "starting" /\ os[r] = "none"
  /\ os' = [os EXCEPT ![r] = "alive"]
  /\ ready' = Append(ready, <<"attach", r>>)
  /\ UNCHANGED <<pc, target, drain, result, object, code, known, pipe, signals, history>>

\* create_subprocess_exec raises OSError.
LaunchFails(r) ==
  /\ pc[r] = "starting" /\ os[r] = "none"
  /\ Finish(r, Raised("oserror"))
  /\ starting' = FALSE
  /\ UNCHANGED <<ready, target, drain, process, cancelled, cancelRequested,
                 children, signals, history>>

\* create_subprocess_exec returns, some turns after it has made the child.
Attach(r) ==
  /\ pc[r] = "starting"
  /\ ready # <<>> /\ Head(ready) = <<"attach", r>>
  /\ starting' = FALSE /\ process' = r
  /\ IF cancelRequested
     THEN /\ pc' = [pc EXCEPT ![r] = "stopping"]
          /\ ready' = Append(Tail(ready), <<"stop", r>>) /\ UNCHANGED target
     ELSE /\ pc' = [pc EXCEPT ![r] = "reading"]
          /\ target' = [target EXCEPT ![r] = r] /\ ready' = Tail(ready)
  /\ UNCHANGED <<drain, result, cancelled, cancelRequested, children, signals, history>>

\* Line 76 is outside the try: with no process left, self._process.stdout raises.
AfterStop(r) ==
  /\ pc[r] = "stopping" /\ ~Queued(r) /\ Stopped(r)
  /\ \/ process = None /\ Finish(r, Raised("error")) /\ UNCHANGED <<ready, target>>
     \/ process # None /\ Readline(r) /\ UNCHANGED result
  /\ UNCHANGED <<drain, object, children, signals, history>>

\* A line is shown, or is beyond a limit (its length, or their number).
ReadLine(r) ==
  /\ pc[r] = "reading" /\ pipe[target[r]] > 0
  /\ \/ Readline(r)
     \/ StopAndDrain(r, "rejecting") /\ UNCHANGED target
  /\ pipe' = [pipe EXCEPT ![target[r]] = @ - 1]
  /\ UNCHANGED <<drain, result, object, os, code, known, signals, history>>

\* The callback on_line raises, for a line or for the message about a limit.
CallbackFails(r) ==
  /\ pc[r] = "reading" /\ pipe[target[r]] > 0
  /\ pipe' = [pipe EXCEPT ![target[r]] = @ - 1]
  /\ StopAndDrain(r, "cleanup")
  /\ UNCHANGED <<target, drain, result, object, os, code, known, signals, history>>

ReadEndOnExit(r) ==   \* mutant: stop reading as soon as the child has exited
  /\ pc[r] = "reading" /\ known[target[r]] /\ process # None
  /\ pc' = [pc EXCEPT ![r] = "waiting"]
  /\ target' = [target EXCEPT ![r] = process]
  /\ UNCHANGED <<ready, drain, result, object, children, signals, history>>

ReadEnd(r) ==
  /\ pc[r] = "reading" /\ EndOfFile(target[r])
  /\ IF process = None
     THEN StopAndDrain(r, "cleanup") /\ UNCHANGED target
     ELSE /\ pc' = [pc EXCEPT ![r] = "waiting"]
          /\ target' = [target EXCEPT ![r] = process]
          /\ UNCHANGED ready
  /\ UNCHANGED <<drain, result, object, children, signals, history>>

Returned(p) == [kind |-> "returned", code |-> code[p], cancelled |-> cancelled]

\* process.wait() returns; the finally block forgets the process.
Exited(r) ==
  /\ pc[r] = "waiting" /\ known[target[r]]
  /\ Finish(r, Returned(target[r]))
  /\ process' = None
  /\ UNCHANGED <<ready, target, drain, starting, cancelled, cancelRequested,
                 children, signals, history>>

\* The gather() of a shielded _stop_and_drain() makes its two tasks.
Gather(t) ==
  /\ ready # <<>> /\ Head(ready) = <<"gather", t>>
  /\ ready' = Append(Tail(ready), <<"both", t>>)
  /\ UNCHANGED <<pc, target, drain, result, object, children, signals, history>>

\* _stop() alone, shielded by line 75.
ShieldedStop(r) ==
  /\ Turn("stop", r)
  /\ BeginStop(r, process)
  /\ UNCHANGED <<pc, target, drain, result, object, children, drained, history>>

\* _stop() and, right after it, _drain_output(), each for self._process as it
\* is now.
ShieldedBoth(r) ==
  /\ Turn("both", r)
  /\ BeginStop(r, process)
  /\ \/ process = None /\ drain' = [drain EXCEPT ![r] = None] /\ UNCHANGED drained
     \/ /\ process # None /\ ~(Taken(process, r) /\ Silent(process))
        /\ drain' = [drain EXCEPT ![r] = process]
        /\ drained' = drained \union {process}
     \/ /\ process # None /\ Taken(process, r)
        /\ drain' = [drain EXCEPT ![r] = Broken] /\ UNCHANGED drained
  /\ UNCHANGED <<pc, target, result, object, children, history>>

DrainWhileAlive(p) ==   \* mutant: draining ends with the child, not with its output
  /\ p \in drained /\ pipe[p] > 0 /\ os[p] = "alive"
  /\ pipe' = [pipe EXCEPT ![p] = 0]
  /\ UNCHANGED <<coroutines, object, os, code, known, signals, history>>

DrainOutput(p) ==
  /\ p \in drained /\ pipe[p] > 0
  /\ pipe' = [pipe EXCEPT ![p] = 0]
  /\ UNCHANGED <<coroutines, object, os, code, known, signals, history>>

\* What _reject_output asserts at lines 141 and 142.
RejectAsserts == process # None /\ known[process]

RejectDone(r) ==
  /\ pc[r] = "rejecting" /\ Settled(r)
  /\ IF drain[r] # Broken /\ RejectAsserts
     THEN Finish(r, Returned(process)) /\ process' = None /\ UNCHANGED ready
     ELSE StopAndDrain(r, "cleanup") /\ UNCHANGED <<result, process>>
  /\ UNCHANGED <<target, drain, starting, cancelled, cancelRequested,
                 children, signals, history>>

CleanupDone(r) ==
  /\ pc[r] = "cleanup" /\ Settled(r)
  /\ Finish(r, Raised("error"))
  /\ process' = None
  /\ UNCHANGED <<ready, target, drain, starting, cancelled, cancelRequested,
                 children, signals, history>>

Without(entry) == \E k \in DOMAIN ready : ready[k] = entry /\ ready' = RemoveAt(ready, k)

InterruptedAtOnce(r) ==   \* mutant: CancelledError passes through
  /\ Finish(r, Raised("dropped"))
  /\ cancelled' = TRUE /\ process' = None
  /\ UNCHANGED ready

\* run()'s handler of CancelledError.
Interrupted(r) ==
  /\ StopAndDrain(r, "cleanup")
  /\ cancelled' = TRUE
  /\ UNCHANGED <<result, process>>

\* The task of run r is cancelled: CancelledError is raised where it waits,
\* and whatever it was shielded from goes on.
CancelTask(r) ==
  /\ r \in Runs \ dropped /\ pc[r] \in Active
  /\ dropped' = dropped \union {r}
  /\ \/ /\ pc[r] = "queued"
        /\ Finish(r, Raised("dropped"))
        /\ Without(<<"begin", r>>)
        /\ UNCHANGED <<object, os, code, known>>
     \/ /\ pc[r] = "starting"      \* asyncio closes the transport and kills the child
        /\ Finish(r, Raised("dropped"))
        /\ starting' = FALSE
        /\ IF os[r] = "none" THEN UNCHANGED ready ELSE Without(<<"attach", r>>)
        /\ os' = [os EXCEPT ![r] = IF @ = "alive" THEN "dead" ELSE @]
        /\ code' = [code EXCEPT ![r] = IF os[r] = "alive" THEN "nonzero" ELSE @]
        /\ known' = [known EXCEPT ![r] = os[r] # "none"]
        /\ UNCHANGED <<process, cancelled, cancelRequested>>
     \/ /\ pc[r] = "stopping"      \* outside the try
        /\ Finish(r, Raised("dropped"))
        /\ UNCHANGED <<ready, object, os, code, known>>
     \/ /\ pc[r] \in {"reading", "waiting", "rejecting"}
        /\ Interrupted(r)
        /\ UNCHANGED <<starting, cancelRequested, os, code, known>>
     \/ /\ pc[r] = "cleanup"       \* in the handler; the finally block still runs
        /\ Finish(r, Raised("dropped"))
        /\ process' = None
        /\ UNCHANGED <<ready, starting, cancelled, cancelRequested, os, code, known>>
  /\ UNCHANGED <<target, drain, pipe, signals, asked>>

-----------------------------------------------------------------------------
(* cancel() and _stop().                                                   *)

BeginCancelEarly(c) ==   \* mutant: a job that is still starting is not yet running
  /\ Turn("begin", c)
  /\ \/ /\ starting \/ ~Running
        /\ pc' = [pc EXCEPT ![c] = "over"]
        /\ UNCHANGED <<cancelled, signals, asked>>
     \/ /\ ~starting /\ Running
        /\ cancelled' = TRUE
        /\ asked' = asked \union {process}
        /\ pc' = [pc EXCEPT ![c] = "stopping"]
        /\ BeginStop(c, process) /\ UNCHANGED drained
  /\ UNCHANGED <<target, drain, result, process, starting, cancelRequested, children, dropped>>

BeginCancel(c) ==
  /\ Turn("begin", c)
  /\ \/ /\ starting
        /\ cancelled' = TRUE /\ cancelRequested' = TRUE
        /\ asked' = asked \union {r \in Runs : pc[r] = "starting"}
        /\ pc' = [pc EXCEPT ![c] = "over"]
        /\ UNCHANGED signals
     \/ /\ ~starting /\ ~Running
        /\ pc' = [pc EXCEPT ![c] = "over"]
        /\ UNCHANGED <<cancelled, cancelRequested, signals, asked>>
     \/ /\ ~starting /\ Running
        /\ cancelled' = TRUE
        /\ asked' = asked \union {process}
        /\ pc' = [pc EXCEPT ![c] = "stopping"]
        /\ BeginStop(c, process) /\ UNCHANGED drained
        /\ UNCHANGED cancelRequested
  /\ UNCHANGED <<target, drain, result, process, starting, children, dropped>>

CancelDone(c) ==
  /\ c \in Cancels /\ pc[c] = "stopping" /\ Stopped(c)
  /\ pc' = [pc EXCEPT ![c] = "over"]
  /\ UNCHANGED <<ready, target, drain, result, object, children, signals, history>>

StopTimeoutGivesUp(t, p) ==   \* mutant: no SIGKILL after SIGTERM
  /\ <<t, p>> \in timers
  /\ timers' = timers \ {<<t, p>>}
  /\ UNCHANGED <<coroutines, object, children, stop, drained, sig, history>>

\* wait_for gives up after two seconds: SIGKILL, and wait without a limit.
StopTimeout(t, p) ==
  /\ <<t, p>> \in timers
  /\ timers' = timers \ {<<t, p>>}
  /\ sig' = [sig EXCEPT ![p] = IF os[p] = "alive" THEN "kill" ELSE @]
  /\ UNCHANGED <<coroutines, object, children, stop, drained, history>>

-----------------------------------------------------------------------------
(* The child processes, as asyncio sees them.                              *)

WriteLine(p) ==
  /\ os[p] = "alive" /\ pipe[p] < PipeSize
  /\ pipe' = [pipe EXCEPT ![p] = @ + 1]
  /\ UNCHANGED <<coroutines, object, os, code, known, signals, history>>

Exit(p, status) ==
  /\ os[p] = "alive"
  /\ os' = [os EXCEPT ![p] = "dead"]
  /\ code' = [code EXCEPT ![p] = status]
  /\ sig' = [sig EXCEPT ![p] = "none"]
  /\ UNCHANGED <<coroutines, object, known, pipe, stop, timers, drained, history>>

Terminated(p) == sig[p] = "term" /\ Exit(p, "nonzero")
Killed(p) == sig[p] = "kill" /\ Exit(p, "nonzero")

\* asyncio learns that the child has exited: returncode is set, and every
\* _stop() of it returns.
Reap(p) ==
  /\ os[p] = "dead" /\ ~known[p]
  /\ known' = [known EXCEPT ![p] = TRUE]
  /\ timers' = {w \in timers : w[2] # p}
  /\ UNCHANGED <<coroutines, object, os, code, pipe, stop, drained, sig, history>>

-----------------------------------------------------------------------------
\* What the event loop and its timers do by themselves.
LoopStep ==
  \/ \E r \in Runs : \/ BeginRun(r) \/ Launch(r) \/ LaunchFails(r) \/ Attach(r) \/ AfterStop(r)
                     \/ ReadLine(r) \/ ReadEnd(r) \/ Exited(r) \/ RejectDone(r) \/ CleanupDone(r)
                     \/ Gather(r) \/ ShieldedStop(r) \/ ShieldedBoth(r)
  \/ \E c \in Cancels : BeginCancel(c) \/ CancelDone(c)
  \/ \E t \in Tasks, p \in Runs : StopTimeout(t, p)
  \/ \E p \in Runs : DrainOutput(p) \/ Reap(p)

\* What the children may do or not, and what the kernel does to them.
ChildStep ==
  \E p \in Runs : WriteLine(p) \/ Terminated(p) \/ Killed(p) \/ \E s \in {"zero", "nonzero"} : Exit(p, s)

\* The caller: one run at a time, a task cancelled once.
CallRun(r) == Enqueue(r) /\ \A q \in Runs : pc[q] \notin Active
CallerCancels(r) == CancelTask(r) /\ (Abrupt \/ ~(pc[r] = "cleanup" /\ Queued(r)))
Caller ==
  \/ \E r \in Runs : CallRun(r) \/ CallerCancels(r) \/ CallbackFails(r)
  \/ \E c \in Cancels : Enqueue(c)

JobNext == LoopStep \/ ChildStep \/ Caller

LoopFairness ==
  /\ \A r \in Runs :
       /\ WF_jobVars(BeginRun(r)) /\ WF_jobVars(Launch(r) \/ LaunchFails(r)) /\ WF_jobVars(Attach(r))
       /\ WF_jobVars(AfterStop(r)) /\ WF_jobVars(ReadLine(r)) /\ WF_jobVars(ReadEnd(r))
       /\ WF_jobVars(Exited(r)) /\ WF_jobVars(RejectDone(r)) /\ WF_jobVars(CleanupDone(r))
       /\ WF_jobVars(Gather(r)) /\ WF_jobVars(ShieldedStop(r)) /\ WF_jobVars(ShieldedBoth(r))
       /\ WF_jobVars(DrainOutput(r)) /\ WF_jobVars(Reap(r)) /\ WF_jobVars(Killed(r))
  /\ \A c \in Cancels : WF_jobVars(BeginCancel(c)) /\ WF_jobVars(CancelDone(c))
  /\ \A t \in Tasks, p \in Runs : WF_jobVars(StopTimeout(t, p))

JobSpec == JobInit /\ [][JobNext]_jobVars /\ LoopFairness

-----------------------------------------------------------------------------
(* No extraction is ever lost sight of: a live child is the one the object *)
(* tracks, or is being started, or it has been told to end and some _stop  *)
(* still waits to kill it or has done so (run, cancel, _stop and the       *)
(* finally block that forgets self._process).                              *)
Tracked ==
  \A p \in Runs : os[p] = "alive" =>
    \/ process = p
    \/ starting /\ pc[p] = "starting"
    \/ sig[p] = "kill"
    \/ sig[p] = "term" /\ \E t \in Tasks : <<t, p>> \in timers

(* A cancel() that found the job running is never lost, also not while the *)
(* child is being started, and a run nobody cancelled never says it was    *)
(* (the flags _cancelled and _cancel_requested).                           *)
CancelIsReported ==
  \A r \in Runs : result[r].kind = "returned" => (result[r].cancelled <=> r \in asked)

(* What run() returns is about its own child, which has exited, and when   *)
(* nothing cut the output short every line it printed has been shown.      *)
OwnResult ==
  \A r \in Runs : result[r].kind = "returned" =>
    /\ os[r] = "dead" /\ pipe[r] = 0
    /\ result[r].code = code[r]

(* Every cancelled extraction ends, child and coroutine, also when the     *)
(* child ignores SIGTERM (cancel, _stop and its escalation).               *)
CancelStops == \A r \in Runs : r \in asked \union dropped ~> pc[r] = "over" /\ os[r] # "alive"

(* A run whose child has exited returns or raises: no exit is missed, in   *)
(* whatever order asyncio reports the exit and the end of the output.      *)
RunEnds == \A r \in Runs : os[r] = "dead" ~> pc[r] = "over"

(* "extraction job is already running": a run() called before another has  *)
(* ended is refused (the first lines of run).                              *)
OneRun == \A q, r \in Runs : {pc[q], pc[r]} \subseteq Active \ {"queued"} => q = r
=============================================================================
