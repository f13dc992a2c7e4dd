----------------------------- MODULE Toolchain -----------------------------
(***************************************************************************)
(* The tools one `protoloom extract --jadx` runs, one after the other:     *)
(* first jadx, then a protoc for every schema.  An extraction that asked   *)
(* for jadx and did not get it ends there.                                 *)
(***************************************************************************)
EXTENDS Jadx, Compile

vars == <<commandVars, jadxVars, compileVars>>

Init == CommandInit /\ JadxInit /\ CompileInit

JadxStep == JadxNext /\ UNCHANGED compileVars
CompileStep == jpc = "returned" /\ CompileNext /\ UNCHANGED jadxVars
KilledFromOutside == Terminated /\ UNCHANGED <<jadxVars, compileVars>>

Next == JadxStep \/ CompileStep \/ KilledFromOutside

\* Python goes on as long as the command lives; the two timers fire; protoc
\* and jadx are never assumed to end.
Fairness ==
  /\ WF_vars(JadxCall /\ UNCHANGED compileVars)
  /\ WF_vars(jpc = "returned" /\ MainStep /\ UNCHANGED jadxVars)
  /\ \A s \in Schemas :
       /\ WF_vars(jpc = "returned" /\ Take(s) /\ UNCHANGED jadxVars)
       /\ WF_vars(jpc = "returned" /\ CompileProto(s) /\ UNCHANGED jadxVars)

Spec == Init /\ [][Next]_vars /\ Fairness

-----------------------------------------------------------------------------
Over == jpc = "raised" \/ cpc \in CompileEnded

(* When the command goes on or reports, no tool of its is left running and *)
(* no temporary directory is left (a directory that could not be removed   *)
(* excepted); no compiler runs in a directory that is gone; and the serial *)
(* fallback does not start while a thread of the pool still compiles.      *)
NoStrays ==
  /\ ~gap /\ (jpc \in JadxEnded) => jadx # "running"
  /\ ~stray =>
       \A s \in Schemas :
         /\ protoc[s] = "running" => tempdir[s] /\ job[s] \in {"waiting", "killing"}
         /\ cpc \in CompileEnded => protoc[s] # "running" /\ (faults = 0 => ~tempdir[s])
         /\ Serial /\ s # k => protoc[s] # "running" /\ job[s] \notin Busy

(* The tools' timers, not the tools, bound the extraction: it ends even if *)
(* jadx or a protoc never does, and when threads are refused half way.     *)
ToolsEnd == <>(~alive \/ Over)
=============================================================================
