------------------------------ MODULE Compile ------------------------------
(***************************************************************************)
(* validate/compile.py and cli._compiled_descriptors_many: every schema is *)
(* compiled by a protoc of its own, in a temporary directory of its own,   *)
(* on a pool of threads that only wait.  A host that refuses a thread gets *)
(* the schemas compiled one at a time instead.                             *)
(*                                                                         *)
(* A job is one call of compile_proto; what the worker threads do and what *)
(* the main thread does interleave at every step.  Interrupts reach the    *)
(* main thread only.                                                       *)
(***************************************************************************)
EXTENDS Command

CONSTANTS
  N,         \* how many schemas are compiled
  Workers    \* the size of the pool (at most 32 in the code)

ASSUME CompileAssumption == N \in Nat \ {0} /\ Workers \in Nat \ {0}

Schemas == 1..N

VARIABLES
  valid,     \* [Schemas -> BOOLEAN] protoc accepts the schema
  job,       \* [Schemas -> the state of its compilation]
  protoc,    \* [Schemas -> none, running, exited or reaped]
  tempdir,   \* [Schemas -> its temporary directory exists]
  threads,   \* worker threads started
  cpc, k,    \* what the main thread does, and the schema it is at
  error,     \* the exception on its way out of the pool
  stray      \* an interrupt left threads or a protoc to themselves

compileVars == <<valid, job, protoc, tempdir, threads, cpc, k, error, stray>>

CompileEnded == {"returned", "raised"}
Busy == {"starting", "waiting", "killing", "accepted", "rejected"}
Serial == cpc = "serial"

CompileInit ==
  /\ valid \in [Schemas -> BOOLEAN]
  /\ job = [s \in Schemas |-> "new"]
  /\ protoc = [s \in Schemas |-> "none"]
  /\ tempdir = [s \in Schemas |-> FALSE]
  /\ threads = 0
  /\ cpc = "submit" /\ k = 1 /\ error = "none" /\ stray = FALSE

Becomes(s, state) == job' = [job EXCEPT ![s] = state]
mainVars == <<valid, threads, cpc, k, error>>

-----------------------------------------------------------------------------
(* compile_proto for schema s, on whichever thread runs it.                *)

\* TemporaryDirectory and the files in it.
Prepare(s) ==
  /\ job[s] = "starting" /\ ~tempdir[s]
  /\ \/ Succeeds /\ tempdir' = [tempdir EXCEPT ![s] = TRUE] /\ UNCHANGED job
     \/ Fails /\ Becomes(s, "bad") /\ UNCHANGED tempdir
  /\ UNCHANGED <<mainVars, protoc, stray>>

\* Popen; on the main thread an interrupt may come before the try.
StartProtoc(s) ==
  /\ job[s] = "starting" /\ tempdir[s]
  /\ \/ /\ Succeeds /\ Becomes(s, "waiting") /\ UNCHANGED stray
        /\ protoc' = [protoc EXCEPT ![s] = "running"]
     \/ Fails /\ Becomes(s, "rejected") /\ UNCHANGED <<protoc, stray>>
     \/ /\ Serial /\ Interrupted /\ Becomes(s, "rejected")
        /\ protoc' = [protoc EXCEPT ![s] = "running"] /\ stray' = TRUE
  /\ UNCHANGED <<mainVars, tempdir>>

\* process.wait returns: the exit status decides, and the diagnostic or the
\* descriptor that cannot be read rejects too.
Reap(s) ==
  /\ job[s] = "waiting" /\ protoc[s] = "exited"
  /\ \/ Succeeds /\ Becomes(s, IF valid[s] THEN "accepted" ELSE "rejected")
     \/ Fails /\ Becomes(s, "rejected")
  /\ protoc' = [protoc EXCEPT ![s] = "reaped"]
  /\ UNCHANGED <<mainVars, tempdir, stray>>

\* TimeoutExpired, also when protoc exits at that moment; or an interrupt of
\* the main thread, before which the process may have been reaped.
GiveUp(s) ==
  /\ job[s] = "waiting"
  /\ \/ Succeeds /\ UNCHANGED protoc
     \/ /\ Serial /\ Interrupted
        /\ protoc' \in {protoc} \union
             (IF protoc[s] = "exited" THEN {[protoc EXCEPT ![s] = "reaped"]} ELSE {})
  /\ Becomes(s, "killing")
  /\ UNCHANGED <<mainVars, tempdir, stray>>

KillAsync(s) ==   \* mutant: killed, and not waited for
  /\ job[s] = "killing"
  /\ Succeeds /\ UNCHANGED <<stray, protoc>>
  /\ Becomes(s, "rejected")
  /\ UNCHANGED <<mainVars, tempdir>>

\* _kill_process_group: SIGKILL to the group, then wait.
KillProtoc(s) ==
  /\ job[s] = "killing"
  /\ \/ /\ Succeeds /\ UNCHANGED stray
        /\ protoc' = [protoc EXCEPT ![s] = "reaped"]
     \/ /\ Serial /\ Interrupted /\ stray' = TRUE
        /\ protoc' \in {protoc, [protoc EXCEPT ![s] = "exited"]}
  /\ Becomes(s, "rejected")
  /\ UNCHANGED <<mainVars, tempdir>>

\* The with statement removes the temporary directory; if it cannot, that is raised.
RemoveTempdir(s) ==
  /\ job[s] \in {"accepted", "rejected"}
  /\ \/ /\ Succeeds /\ tempdir' = [tempdir EXCEPT ![s] = FALSE]
        /\ Becomes(s, IF job[s] = "accepted" THEN "ok" ELSE "bad")
     \/ Fails /\ Becomes(s, "bad") /\ UNCHANGED tempdir
  /\ UNCHANGED <<mainVars, protoc, stray>>

CompileProto(s) ==
  \/ Prepare(s) \/ StartProtoc(s) \/ Reap(s) \/ GiveUp(s) \/ KillProtoc(s) \/ RemoveTempdir(s)

ProtocExits(s) ==
  /\ protoc[s] = "running"
  /\ protoc' = [protoc EXCEPT ![s] = "exited"]
  /\ UNCHANGED <<commandVars, mainVars, job, tempdir, stray>>

-----------------------------------------------------------------------------
(* The pool.                                                               *)

Running == {s \in Schemas : job[s] \in Busy}
Queued == {s \in Schemas : job[s] = "queued"}

\* An idle thread takes the oldest job; the threads outlive a with statement
\* that an interrupt cut short.
Take(s) ==
  /\ alive /\ ~Serial
  /\ s \in Queued /\ \A t \in Queued : s <= t
  /\ Cardinality(Running) < threads
  /\ Becomes(s, "starting")
  /\ UNCHANGED <<commandVars, mainVars, protoc, tempdir, stray>>

\* pool.submit queues the job, then starts a thread if none is idle.  A refused
\* thread or an interrupt leaves what was submitted in the queue.
Submit ==
  /\ cpc = "submit"
  /\ Becomes(k, "queued")
  /\ \/ /\ Succeeds
        /\ \/ threads < Workers /\ threads' = threads + 1
           \/ threads > 0 /\ UNCHANGED threads
        /\ IF k = N THEN cpc' = "collect" /\ k' = 1 ELSE cpc' = cpc /\ k' = k + 1
        /\ UNCHANGED error
     \/ /\ threads < Workers /\ Fails /\ UNCHANGED <<threads, k>>
        /\ cpc' = "drain" /\ error' = "refused"
     \/ Interrupted /\ cpc' = "drain" /\ error' = "interrupt" /\ UNCHANGED <<threads, k>>
  /\ UNCHANGED <<valid, protoc, tempdir, stray>>

Cancelled == [s \in Schemas |-> IF job[s] = "queued" THEN "cancelled" ELSE job[s]]

CollectAny ==   \* mutant: results are taken as they come
  /\ cpc = "collect" /\ Succeeds
  /\ \E s \in Schemas : job[s] = "bad" /\ k' = s /\ cpc' = "drain" /\ error' = "bad" /\ job' = Cancelled
  /\ UNCHANGED <<valid, threads, protoc, tempdir, stray>>

\* The next result of pool.map, in the order of the schemas; an exception
\* cancels the jobs no thread has taken.
Collect ==
  /\ cpc = "collect"
  /\ \/ /\ Succeeds /\ job[k] = "ok" /\ UNCHANGED <<job, error>>
        /\ IF k = N THEN cpc' = "drain" /\ k' = k ELSE cpc' = cpc /\ k' = k + 1
     \/ /\ Succeeds /\ job[k] = "bad"
        /\ cpc' = "drain" /\ error' = "bad" /\ job' = Cancelled /\ UNCHANGED k
     \/ /\ Interrupted
        /\ cpc' = "drain" /\ error' = "interrupt" /\ job' = Cancelled /\ UNCHANGED k
  /\ UNCHANGED <<valid, threads, protoc, tempdir, stray>>

DrainQueue ==   \* mutant: the queue must empty, also when no thread was started
  /\ cpc = "drain" /\ Succeeds
  /\ Running = {} /\ Queued = {}
  /\ CASE error = "none" -> cpc' = "returned" /\ UNCHANGED <<job, k, protoc>>
       [] error = "refused" ->
            /\ cpc' = "serial" /\ k' = 1 /\ job' = [s \in Schemas |-> "new"]
            /\ protoc' = [s \in Schemas |-> "none"]
       [] OTHER -> cpc' = "raised" /\ UNCHANGED <<job, k, protoc>>
  /\ UNCHANGED <<valid, threads, tempdir, error, stray>>

\* shutdown(wait=True): the threads that were started finish every job left
\* in the queue, and only then the exception goes on; RuntimeError starts over.
Drain ==
  /\ cpc = "drain"
  /\ \/ /\ Succeeds
        /\ Running = {} /\ (threads > 0 => Queued = {})
        /\ CASE error = "none" -> cpc' = "returned" /\ UNCHANGED <<job, k, protoc>>
             [] error = "refused" ->
                  /\ cpc' = "serial" /\ k' = 1 /\ job' = [s \in Schemas |-> "new"]
                  /\ protoc' = [s \in Schemas |-> "none"]
             [] OTHER -> cpc' = "raised" /\ UNCHANGED <<job, k, protoc>>
        /\ UNCHANGED <<error, stray>>
     \/ /\ Interrupted /\ cpc' = "raised" /\ error' = "interrupt" /\ stray' = TRUE
        /\ UNCHANGED <<job, k, protoc>>
  /\ UNCHANGED <<valid, threads, tempdir>>

\* The fallback: the next schema, on the main thread.
CompileNextSchema ==
  /\ Serial /\ Succeeds
  /\ \/ job[k] = "new" /\ Becomes(k, "starting") /\ UNCHANGED <<cpc, k>>
     \/ job[k] = "ok" /\ UNCHANGED job /\ IF k = N THEN cpc' = "returned" /\ k' = k ELSE cpc' = cpc /\ k' = k + 1
     \/ job[k] = "bad" /\ cpc' = "raised" /\ UNCHANGED <<job, k>>
  /\ UNCHANGED <<valid, protoc, tempdir, threads, error, stray>>

MainStep == Submit \/ Collect \/ Drain \/ CompileNextSchema

CompileNext ==
  \/ MainStep
  \/ \E s \in Schemas : Take(s) \/ CompileProto(s) \/ ProtocExits(s)

-----------------------------------------------------------------------------
(* Whatever the order in which the compilers end, the call reports what    *)
(* compiling one schema after another would have: it returns when all are  *)
(* accepted, and raises for the first that is not ("Order is preserved     *)
(* (pool.map) so output and first-failure error messages stay identical"). *)
FirstFailure ==
  /\ cpc = "returned" => \A s \in Schemas : job[s] = "ok" /\ valid[s]
  /\ cpc = "raised" /\ error \in {"bad", "refused"} =>
       job[k] = "bad" /\ \A s \in 1..(k - 1) : job[s] = "ok"
=============================================================================
