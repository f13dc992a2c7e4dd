# ProtoLoom in TLA+

ProtoLoom recovers Protocol Buffer schemas from compiled programs. These modules
model the parts of it where order, failure and interleaving decide whether it is
correct, TLC checks them on small instances, and TLAPS proves the properties that
must hold for every instance.

Paths below are relative to `src/src/protoloom/`.

## The system

| Component | State it keeps | Operations | Talks to | Hard behaviour |
| --- | --- | --- | --- | --- |
| **Extract command** (`cli.py`) | the output directory: one `.proto` per schema, `<input>.desc`, `report.md`, `dashboard/index.html`, `recovery.json` (which lists the artifacts) | `extract`, `_validate_output*`, `_previous_artifacts`, `_output_names`, `_remove_stale_artifacts` | finders, reconcile, compiler, emitters, publication | repeated and interrupted runs over one directory; file names that differ in case only |
| **Publication** (`cli.py: _publish_outputs`) | staged temporaries, hidden backups, `installed`, `published` | stage, retire, place, sync, roll back, tidy | the file system | any call fails, an interrupt arrives between a call and its bookkeeping, the process is killed, the rollback fails too |
| **Extraction job** (`tui/jobs.py`) | `_process`, `_starting`, `_cancelled`, `_cancel_requested` | `run`, `cancel`, `_stop`, `_drain_output`, `_reject_output` | the child process (`protoloom extract`), the TUI | coroutines interleaved at every await; exit and end of output in any order; SIGTERM, then SIGKILL; cancellation of the task itself |
| **TUI** (`tui/application.py`, `tui/state.py`) | screen, error, help, cancel question, focus | key handlers, `_start`, `_run_job`, exit | the job | keys between the steps of a background task |
| **Reconciliation** (`reconcile.py`, `model.py`) | merged schemas, conflicts | `reconcile` and one merge per kind of item | all finders feed it | the outcome is a fold in the order the finders ran |
| **Compile validation** (`validate/compile.py`, `cli.py: _compiled_descriptors_many`) | a temporary directory and a `protoc` process per schema | `compile_proto`, the thread pool and its fallback | protoc | timeout against a late exit; threads refused half way |
| **Round trip** (`validate/roundtrip.py`) | descriptor pool, pending files | dependency fixpoint | protobuf | termination, order independence |
| **jadx fallback** (`extract/jadx.py`) | staging directory, backup of the old output | run, time out, index, publish | jadx process group | kill on timeout; the publication of a directory; orphaned process when the command is killed |
| **Corpus and bench** (`bench/`) | cache of artifacts by SHA-256, directories of upstream sources | `materialize`, `materialize_source`, `run`, `score_target` | network, file system | two runs over one cache or one source; greedy matching |
| **Containers and archives** (`container/`) | none | readers of zip, DEX, ELF, Mach-O | finders | budgets shared by nested archives; numeric edges of headers |
| **Decoders, finders** (`decode/`, `extract/`) | none | bytes and instructions to schemas | reconcile | registers followed over branches; cursors that must stay in step; boundaries that are not marked |
| **Emitters** (`emit/`) | none | schemas to text, descriptors, JSON, HTML | extract | names that clash or capture one another; dependency order of descriptors |
| **Results, doctor, demo, inspect, scripts** | none | read-only reports | TUI, user | limits only |

`PROJECT.json` lists the components with what is and is not modelled, and the
hazards: the places in the code where something can go wrong that a test would
hardly reach. The properties below exist to cover those hazards.

## Modules

| Module | Models | Depends on |
| --- | --- | --- |
| `Publication` | what publishing a group of files promises to somebody who looks at the directory | |
| `Publish` | `_publish_outputs`, one action per file-system call; implements `Publication` | `Publication` |
| `Publish_proofs` | theorems about `Publish` for any number of files, failures and interrupts, its refinement of `Publication` among them | `Publish` |
| `OutputDirectory` | `extract` seen from its output directory, over repeated extractions | |
| `OutputDirectory_proofs` | theorems about `OutputDirectory` for any names, runs and edits | `OutputDirectory` |
| `ExtractionJob` | `tui.jobs.ExtractionJob`, one action per stretch between two awaits, and its children | |
| `ExtractionJob_proofs` | theorems about `ExtractionJob` for any number of runs, cancellations and lines | `ExtractionJob` |
| `Tui` | `TuiApplication` and `AppState` around the job | `ExtractionJob` |
| `Tui_proofs` | theorems about `Tui` for any number of runs and lines and a user who does not type ahead | `Tui`, `ExtractionJob_proofs` |
| `Reconcile` | the merge of fields, rpc methods and enums, with their evidence lists | |
| `Reconcile_proofs` | theorems about what becomes of the recoveries: the merge, the names and the descriptor files, for any of them | `Reconcile`, `OutputNames`, `DescriptorFiles` |
| `Command` | the process of an extraction as its tools see it: calls that fail, interrupts, SIGTERM | |
| `Jadx` | `decompile_with_jadx`, one action per call | `Command` |
| `Compile` | `compile_proto` on a pool of threads, with the serial fallback | `Command` |
| `Toolchain` | one extraction's tools: jadx, then protoc for every schema | `Jadx`, `Compile` |
| `Toolchain_proofs` | theorems about jadx and the compilations, for any schemas, threads and faults | `Toolchain` |
| `Corpus` | `materialize` by several processes over one cache | |
| `Upstream` | `materialize_source` by several processes | |
| `Metrics` | `score_target` | |
| `Bench` | the three parts of the benchmark in one run | `Corpus`, `Upstream`, `Metrics` |
| `Bench_proofs` | theorems about `Corpus`, `Upstream` and `Metrics` for any processes, artifacts, files and schemas | `Corpus`, `Upstream`, `Metrics` |
| `Gather` | archives read within limits, descriptors searched in bytes and gzip members | |
| `LiteScan` | `_scan_method`, and the method it scans | |
| `LiteInfo` | info strings and object arrays, as written and as decoded | |
| `WireScan` | the classes Square Wire generates, as written and as read | |
| `Nesting` | `_combined_lite_descriptors`: classes back to nested messages | |
| `OutputNames` | `_output_names` | |
| `ProtoNames` | the names of declarations, fields and enum values in the text | |
| `EmitProto` | `emit_proto`: declarations, fields and references of the text | `ProtoNames` |
| `DescriptorFiles` | `emit_descriptor_set` and the pool of the round trip | |
| `Recovery` | the sequential stages of an extraction, each on all its inputs | `Reconcile` and the nine above |
| `Recovery_proofs` | theorems about `Gather`, `LiteScan` and `ProtoNames`: any archives and bytes, any methods, any names | these three |

### Publish and Publication

`dir`, `tmp` and `bak` are what the output path, the hidden staged file and the
hidden backup of each path hold; `had` remembers the directory as it was.
`staged`, `backups`, `installed`, `published` and `unrestored` (for
`rollback_failures`) are the Python locals; `pc` and `i` say which call is next.
A content is `"old"`, `"new"`, `"partial"`, ... and never bytes.

Each call can succeed, fail with `OSError` without effect, or take effect and be
followed by a `KeyboardInterrupt`: CPython delivers the signal between bytecodes,
so the effect of the call is there and the assignment after it is not. `Crash` is
the death of the process between two calls. Two abstractions: a name reserved with
`O_EXCL` is never in use (the names carry 64 random bits), and nobody else
changes the directory during the call. Interrupts and failures are bounded
(`MaxInterrupts`, `MaxFaults`); the number of files is `N`.

`Publication` has five steps: Work (no old file may get out of reach), Commit
(every file new at once), Tidy, Abort (the directory as before), Abandon.
`Publish` maps to it with `before <- had, shown <- dir, kept <- bak` and the
outcome read off `published` and the exception. An exception counts as an abort
unless the rollback itself failed or was interrupted; those, and crashes, abandon.

### OutputDirectory

`dir` says for every place in the output directory who wrote what is there: a run,
the user, or nobody; `manifest` is `recovery.json`. `Begin` reads the previous
artifacts, `Recovered` is the pipeline up to the last validation, `Commit` is
`_publish_outputs`, and `RemoveStale` is one turn of the loop in
`_remove_stale_artifacts`. Publishing is one step because `Publish` implements
`Publication`: it commits, aborts (`GiveUp`) or is `Killed` half way; the files are
published in any order with `recovery.json` last, as in the code, and a kill hides at
most one of them. A publication abandoned because its rollback failed or was
interrupted is not followed into this module. The names of a run are a set of names
that differ when casefolded: that is what `_output_names` guarantees (`NamesFree`,
proved in `Reconcile_proofs`), and the only fact used of it. `report.md`, the dashboard and `recovery.json` are
published by every run and never stale, so only the last is followed.

The user may edit the directory at any time except between the publication and the
last removal, which follow each other at once. `Slot` is the file system:
with `FoldsCase` two names that differ in case are one place.

### ExtractionJob

asyncio runs one coroutine at a time, so an action is the code between two
awaits. `pc` is where each call of `run()` or `cancel()` waits. `process`, `starting`,
`cancelled` and `cancelRequested` are the object's attributes. The child is modelled by its
state as the kernel knows it (`os`), as asyncio knows it (`known`, that is `returncode is
not None`), its unread output (`pipe`) and the strongest signal it was sent (`sig`).

`ready` holds what the event loop has yet to start, oldest first: a task that was created
("begin"), the return of `create_subprocess_exec` ("attach"), and what `asyncio.shield` makes. That
order matters. `await asyncio.shield(self._stop_and_drain())` only makes a task ("gather", in
`StopAndDrain`); its `gather()` makes two more ("both", in `Gather`); and these look
`self._process` up when they start (`ShieldedBoth`), two turns of the loop after the run asked for
it. Whatever happens in between is seen by `BeginStop` and the drain: the child may
have been forgotten, or somebody else may be reading its output. What a shield protects goes on
when the task that awaited it is gone, so the process each task's `_stop()` found (`stop`), the two-second
timers (`timers`) and the output being drained (`drained`) are state of their own.

External behaviour modelled from its use: `StreamReader` refuses a second waiting
reader (`Taken`, `Silent`), which makes a run's own drain fail with `Broken` when another is under way;
the watcher may report an exit before or after the end of the
output; a child may ignore SIGTERM for ever but not SIGKILL; a task cancelled
inside `create_subprocess_exec` takes the child with it.

`JobSpec` is the object with a caller that starts a run when the previous one has ended and
cancels a task at most once. The constant `Abrupt` says whether that may be in the two turns
before the child is stopped. It must not: the
cancellation leaves the handler that waits for the shield, the finally block forgets the process, and the tasks that start
then find none to stop; the child goes on and nobody knows of it. With
`Abrupt = TRUE` TLC finds `Tracked` and `CancelStops` violated. The run `job` and the theorems
therefore speak of `Abrupt = FALSE`, and `Tui`, the only caller there is, does not use the constant.

### Tui

Extends `ExtractionJob` with the state of `AppState` that the properties need:
the screen, the kind of error shown, `cancel_pending`, help, whose output is shown,
whether the Start button has the focus. Each key handler is one action with the
filter under which prompt_toolkit calls it. `Background` is a step of the job; when
it makes `run()` end, the rest of `_run_job` is part of the same step, because
nothing is awaited in between. Quitting cancels the background tasks (`ExitRun`,
`ExitCancel`) and waits for them; then `Teardown` is the end of `asyncio.run`: what is left on
the loop is cancelled, shielded or not, and no task starts and no timer fires any more.

Two facts about prompt_toolkit matter. Keys that were typed ahead are handled
one after another before any task runs. And focus stays where it was when
the screen changes, so Enter still presses Start on the running screen. `hasty` says
whether the user does what these facts make harmful, that is, presses a key while `running` is
false and the run is not over, or starts a run before the last has ended. The promises about the
screen are made to the other kind of user, and the runs `tui_ahead` and `tui_overlap` show what becomes of them
without that. `HastyRuns` bounds the runs a hasty user starts: with two `Tracked` and `QuitStops` fail
as well, by the overlap that `tui_overlap` shows: a child that the first run's finally block forgot is not stopped on exit.

### Reconcile

One identity `(package, name)` is merged item by item, in order. An item is a
field at a number, a method with a name, or an enum with all its values. What it `says`
stands for the attributes the merge compares: of a field the seven that `_merge_fields` names, of
a method its two types. `flags` stands for those it does not: `proto3_optional`, `is_group`
and `type_is_enum` of fields, the two streaming flags of methods. Those go with the
winner, and what the loser had is gone without a conflict; `NothingDropped` makes no claim about them.
Confidence is its rank.

Evidence is a list with an address. `_merge_unique` remembers in `seen_lists`, under the `id()` of
the target list, what is in it (`cached`), removes duplicates when it first sees a list and
trusts the cache after that. `TakeEvidence` follows this: a new item brings a list of its
own, at an address that nothing holds (`Unheld`), which may be the one of a list that is gone; an item
that is there keeps its list also when its content is replaced (`replacement.evidence = evidence`). If the
replacement got a list of its own (`MergeFieldCopied`), the old address could be used
again for another list under a stale cache: `EvidenceComplete` is then violated.

A schema with several items is a sequence of items of the same
source; treating each as a source of its own loses nothing, since the three merges
share only the cache.

### Command, Jadx, Compile and Toolchain

A call succeeds, fails without effect, or takes effect and is followed by an
interrupt, as in `Publish`; `Terminated` is the TUI's SIGTERM, for which the command
has no handler and which its tools, in sessions of their own, do not get. `Jadx`
follows four trees (`had`, `output`, `staging`, `backup`), each `"old"`, `"part"`,
`"full"` or `"new"`; `gap` notes an interrupt that arrived where no handler covers
the call (after `Popen`, before its `try`; after the rename to the backup). In
`Compile` a job is one call of `compile_proto`; the main thread submits, collects in
order and leaves the pool by waiting for all of it, while each worker's call goes
through its process, its temporary directory, its two reads and its removal.
`Toolchain` runs the one and then the other and adds fairness.

Indexing the decompiled sources is one step of `Jadx` that may fail. Reading the
descriptor and the diagnostics is the step `Reap`.

### Corpus, Upstream, Metrics and Bench

`Corpus` has one action per access to the shared cache: the check of what is there,
the removal of a file with a wrong digest, the download into a temporary, its digest,
the rename, the second digest. Nothing locks, so the processes interleave anywhere; a
mishap is a failed call, an interrupt or a death. `Upstream` builds a staging directory from a list of
files or from an archive, with the paths, links and size limits of the members, and
swaps it in; `root` is the set of the at most one tree under the source's directory. `Metrics` is `score_target` as one operator over schemas that
`load_schema` accepts, with its reference definition in `FairlyScored`: a credit for a
field needs a partner of its own. The loop over the messages without a namesake is
a function from the number of a turn to the matches after it; `MaxMessages` bounds the schemas of the run, not of the theorem. `Bench` starts in one of the three, by `subject`.

### Gather, LiteScan, LiteInfo, WireScan

The reading side. Each module holds both halves: what a generator, compiler or
archiver writes (marked external in `PROJECT.json`) and what the code makes of it, and
its property compares the two.

`Gather`: bytes are tokens with a rank, because a serialised descriptor has no length of
its own and ends where its fields cease to follow each other; `Blobs` is the set of the bytes
there may be, which holds what its gzip members inflate to. The loops over offsets, members
and entries are functions from the number of a turn to the state after it, and `ScanGzip` is
one from the depth; a member that `zlib` rejects is one cut short before its first byte; `unread` holds the numbers of the selected entries still to be read, lowest
first. `LiteScan`: after the
scan the module runs the method, on every path, and compares what the registers hold
at a call with what the scan reported. `LiteInfo`: characters are numbers, with the
continuation bits of the format; an object is a name, a class, a verifier (the field
`INSTANCE` of a verifier's class), a map entry, or one the dex analysis says nothing of: unknown, the result of a call, or
another static field. `WireScan`: a register holds a number, a field of the
message, an adapter or nothing; both ways to read a class are there, by its
annotations with the nulls of its constructor, and by the calls of its write method.

Known gaps, each excluded by a named definition of the module or by a state the
scan marks, so that everything outside it is claimed:

- `LiteScan`, `lost`: a path that falls into a branch target with other registers, a
  case that is also branched to, a sparse switch (skipped), a loop, a register written by
  an instruction the scan has no case for, an array filled by two paths, two arrays
  that two paths hold and that looked the same (`_Array` is compared by content), a value
  put that is no object or into an array that is not known or is full, the result of an
  earlier call (`pending_result` outlives a virtual call). The scan then reports what it
  last saw. Each mark is needed: without any one of them TLC finds `ScanSound` violated on
  the methods of `Recovery`. Exception handlers are not modelled.
- `LiteInfo`, `Shifted`: the finding `recovery_high`. `Skipped`: an object that says nothing is taken
  for another. A map whose entry object says nothing is read as bytes, with HIGH. An enum whose name
  object is the result of a call or a static field is skipped over as a verifier
  (`decode/lite.py:128`, `145`); the cursor then stands at its verifier, which goes to the next enum, and that one
  is reported with a wrong type, HIGH.
- `WireScan`, `Unseen`: fields the write method does not show (of the message's own type,
  primitives boxed into another register, types only told by a renamed adapter). `Misread`: a move from an
  unknown register does not clear its destination (`extract/wire.py:317`), so with
  range calls and boxing elsewhere an earlier field is reported under the number of
  a later one. Also: the annotated path loses `[packed = true]` of proto2; map fields
  are not modelled (`keyAdapter` is not read).
- `Gather`: a descriptor with more than `MaxBoundaries` fields is cut short; the
  property speaks of blobs within their limits.

### Nesting, OutputNames, ProtoNames, EmitProto, DescriptorFiles, Recovery

The writing side. `Nesting` puts classes under the classes that enclose them and
renames references; `Lookup` is protoc's search from the inside out. `OutputNames` is the naming loop,
one form of a name per step, over abstract functions for casefolding, the package
prefix and the number. `ProtoNames` has the loops that make names unique
(`_unique_names`) and enum values fold apart (`_defold_enum_values`), as functions over the
values done so far; a name is its words, a form and the suffixes put behind it, since all that
matters of a spelling is what `_name` cleans it to and what protoc folds it to. `EmitProto` computes the declarations, fields and references of
the text, with the budget that refuses a schema, and `Compilable` states protoc's rules about
them. `DescriptorFiles` packs the set and adds its files to the pool until a
pass adds none; `Grounded` is the least fixpoint it must reach. `Recovery` extends them
all; `stage` says which one a behaviour is about, the others stand still.

Known gaps: `Nesting`, `Plain` and `InnerFirst` (a message below two others; a short name that
captures another; a map whose key words contain another name; a holder found before what it holds).
`EmitProto`, `Gap` (a group in a oneof; an enum alias that gets another value's number as a suffix; a
value that folds to the zero put before it; a field or oneof named like a type or an enum value in its
message; a type whose parent is missing; keywords as names of missing types; a `map<..., T>` whose value type nothing
declares: `emit_proto` skips references that start with `map<`, `emit/proto.py:534`, and makes no
stub for `T`). In these the text
may fail to compile, which the extraction then reports.

## Runs

| Run | Module | Shows | Bounds |
| --- | --- | --- | --- |
| `publish` | Publish | nothing lost, all or nothing, leftovers accounted for, implements Publication | 3 files, each absent, present or a directory; 2 failures, 1 interrupt, 1 crash |
| `publish_interrupt` | Publish | **violated**: an interrupt is rolled back like any exception | 2 files, 1 interrupt |
| `job` | ExtractionJob | children tracked, cancellations reported, results the child's own, cancelled runs stop, runs end | 2 runs, 1 cancel, each task cancelled once (not `Abrupt`), one unread line |
| `tui` | Tui | extraction cancellable, ends on its own screen, question and screen belong to the run, quitting stops it, second Ctrl-C lands | 2 runs, 1 cancel, either user, of whom the hasty one starts 1 run |
| `tui_ahead` | Tui | **violated**: Ctrl-C cancels a running extraction, whatever was typed ahead | 1 run, 1 cancel |
| `tui_overlap` | Tui | **violated**: a run is refused while another goes on | 2 runs, 1 cancel |
| `output_directory` | OutputDirectory | announced files stay, stale ones go, the user's own are never removed | 3 runs, 2 edits, 4 names in 2 cases, a file system that distinguishes case |
| `output_directory_case` | OutputDirectory | **violated**: what was announced is there | the same, ignoring case |
| `toolchain` | Toolchain | the old sources survive, one kind of error, the first failure reported, no strays, tools end | 3 schemas, 2 threads, 2 failures, 1 interrupt, SIGTERM anywhere |
| `bench` | Bench | good artifacts stay, success means all are there, sources appear whole, no field scored twice | 2 processes, 2 artifacts, 1 mishap; 2 builders, 1 trouble, up to 3 files or one of 9 archives (members that clash, link, exceed the limit, have two roots, are directories only); schemas of up to 2 messages; for those of one message, enums of the schema's own and 2 round trips |
| `recovery` | Recovery | nothing overlooked, scan sound, lite and Wire faithful, best field wins, nothing compared is dropped, evidence complete, references follow, names free, text compiles, files resolve | inputs enumerated in `Recovery`; limits in the configuration; merges of 3 items over 2 slots, 2 contents, 3 ranks, 2 places |
| `recovery_high` | Recovery | **violated**: HIGH is said of observed types only | as above |

Why the bounds are enough. OutputDirectory: the manifest carries what one run leaves
to the next, so a third run sees what a killed second one leaves; two base names in two cases
give a name that stays, one that goes and one that changes case. Publish: three files give a first, a middle and a last
path; the second failure is the one that hits the rollback; the proofs lift the
bounds altogether. ExtractionJob: the object remembers only the previous run, so
two runs show every effect one run has on the next; one unread line distinguishes
empty from full. `job` has 108,887 states, `tui` 72,668. Tui: the same; a second run of
a hasty user is the subject of `tui_overlap`. Reconcile: three items allow a winner that is later replaced and a tie
after it, and a list that is freed before a third is made; items at other slots meet in the cache
only, two show that.

Toolchain: a third schema waits for one of two threads, so submitting, collecting and
draining all happen with jobs queued; the second failure hits the handler of the
first. Bench: two processes suffice for a check by one and a change by the other; the
artifact that one lacks and the other has needs two; 173,324 states. Recovery (257,216 states): limits are scaled so that each is reached (three
entries, four tokens, gzip in gzip in gzip); lite messages have up to three fields of every
kind and presence, since the cursors carry only their position from one field to
the next, with one of the first two objects, or every verifier, hidden in any of three ways; Wire classes up to three fields; four classes nest two deep; three
descriptor files make every graph, cycles included. `MaxInt` is 2^31 - 1 where the
code has 2^32 - 1, because TLC's integers end there; the decoder's refusal beyond it
is the same.

Fairness. Only what the event loop, the timers and the kernel do by themselves is
fair (`LoopFairness`): started tasks proceed, an exit is reaped, the two-second
timer fires, SIGKILL kills. Once `Teardown` has closed the loop none of this is enabled any
more: `QuitStops` is a safety property of that moment and rests on no timer after it. On exit the background
tasks are cancelled. A child need never exit, print or obey SIGTERM, and no
key need ever be pressed. In `Toolchain` the command's own statements are fair while it lives, and so
the two timers: `process.wait(timeout)` returns. jadx and protoc need never exit, so
`ToolsEnd` rests on the kills. The other modules make no liveness claim.

Deadlock is checked for `Publish` (its end is the explicit step `Over`). It is off
elsewhere: an extract directory nobody uses, a job without calls, an application without keys, a reconciliation
without more sources, tools that are done, a finished benchmark and a recovered schema do stop.

### What the violated runs show

- `publish_interrupt`: Ctrl-C delivered as `path.replace(backup)` returns. The
  handler rolls back `installed`, which lacks this path; the old file remains, but
  under a hidden name the message does not mention. Nothing is lost
  (`NothingLost` is proved), but the directory is not restored.
- `output_directory_case`: the first run publishes `Types.proto`, the second
  `types.proto`. On a file system that ignores case the second file replaces the
  first and is then deleted, because `Types.proto` is in the previous artifacts and
  not in the current ones.
- `recovery_high`: a message of protobuf-lite with a singular message field and a
  oneof of message members. The format writes no object for the first, but
  `_field_objects` takes one for it: the first member's class. Each member but the last then gets
  the class of the next and is reported HIGH; the last gets none and is not.
- `tui_ahead`: Enter on Start and Ctrl-C (or Esc) typed in one go. `running` is still false, so the
  handler goes Home (`tui/application.py:356`); the extraction starts all the same and
  Ctrl-C does nothing on Home.
- `tui_overlap`: Enter on Start again after the child has exited, while its output is still being read.
  `running` is false, so the second `run()` is not refused (`tui/jobs.py:59`), and when the first ends its
  finally block forgets the second's child.

More disagreements are in the models and have no run:

- A run cancelled while it rejects output (a line or their number beyond its limit): a first `_drain_output()` goes on
  in the shield, the handler starts a second, and two readers of one stream raise
  `RuntimeError`. The run ends at once and forgets the child; the `_stop()` that has sent SIGTERM is
  cancelled with its timer when the loop ends, so a child that ignores SIGTERM survives the
  application. `src/tests/tui/test_jobs.py:352` (`test_task_cancellation_stops_process`) expects a cancelled task
  to stop its process. `QuitStops` excludes it by `Broken`.
- A task that is cancelled while it handles an exception or an earlier cancellation, before the tasks of its
  shield have started (`Abrupt`): the child is forgotten alive. The application, which cancels a task once and whose
  `on_line` does not raise, does not do that.
- Enter pressed again while an extraction runs: the log and clock are reset and a
  second `run()` raises `RuntimeError`, which `_run_job` does not catch
  (`tui/application.py:228`).
- Attributes that the merge does not compare: `Reconcile`, `flags`, above.
- Two signatures of one rpc method: the first is kept whatever its confidence
  (`reconcile.py:283`), and its confidence is raised to that of the rejected one.
- A proto3 enum whose first value is not zero gets a zero in front, `MODE_UNSPECIFIED`. If
  the enum has a value `mode_unspecified = 1` the two differ as strings and fold to one name,
  which protoc rejects; `_defold_enum_values` compares the enum's own values only
  (`emit/proto.py:263`). Without `ZeroApart` in `Gap` TLC finds `Compilable` violated, and `emit_proto`
  does emit both.
- A message with a nested message `a` and a field `a`: the names of fields are made unique
  among themselves (`emit/proto.py:357`), those of types among themselves, and protoc has
  them in one scope. Without `Clear` in `Gap` TLC finds `Compilable` violated, and `emit_proto` does
  emit both.

## Proofs

`Publish_proofs` proves, for every `N`, `MaxFaults` and `MaxInterrupts` under
`PublishAssumption` (positive, natural, natural):

- `TypeCorrect`: `Spec => []TypeOK`. The range of `i` depends on `pc`: only the
  rollback loop may run off the front of the paths, which is why `TypeOK` is
  inductive by itself.
- `NothingEverLost`: `Spec => []NothingLost`.
- `PublishesAllOrNothing`: `Spec => []AllOrNothing`.
- `KeepsItsPromise`: `Spec => Keeps`, the refinement of `Publication`.

The last three come from one inductive invariant `IInv`, which says for every path and
every `pc` where its old content is. Neither property is inductive: to know that the
rollback restores a path one must know that an old path at or below `installed` that
is not under its name has its backup noted in `backups`, that paths above it are
untouched except the one at `i`, and that the paths the rollback loop has passed are
as before or in `unrestored`. The lemma `Inductive` has one step per action, with
the conjuncts the action can disturb below it; `Invariant` adds the temporal step.
The refinement needs little more: `StepPromised` splits on the outcome before and
after a step. A step of an open publication is `Work` because `IInv'` keeps every old
file in reach; the step that sets `published` is `SyncParents`, which `IInv` says finds
every file new (`Commit`); a step that ends the call without publishing touches no file
(`EndingStep`), and is `Abort` when `IInv'` says the directory is as before; afterwards
only `Tidy` or nothing is left.

`NoStrayWithoutFault` (`[]LeftoversHaveFaults`) counts: `StraysInv` says that the temporaries
and backups nobody will remove any more are finitely many and no more than the failed
calls, as long as no interrupt came. Every step leaves no new one, or one and a failure.

`OutputDirectory_proofs` proves, under `DirectoryAssumption` (`FoldsCase` Boolean, the
bounds natural, `Bases` anything): `TypeCorrect`; `NothingOrphaned`
(`[]NoOrphans`); `UserFilesStay` (`RemovesOnlyItsOwn`); and
`DeliversWhenCaseMatters`, which is `[]Delivered` under `FoldsCase = FALSE`. The
invariant behind the second and the third has two parts: what a manifest lists and
what was read from one has been published (`ClaimedInv`), and every generated file is
listed or due for removal (`AccountInv`, which needs that while a run recovers
`previous` still is what the manifest lists). `Delivered` needs that what is due has no
name in common with the new names, and that different names are different places.

`Recovery_proofs` proves three things.

- `NothingIsOverlooked` (`GatherSpec(archives) => []NothingOverlooked`) under
  `GatherAssumption` (the limits are positive, as the code checks; what gzip members inflate to is
  bytes again), for any archives whose entries have a size and bytes (`Archive`, evaluated by TLC
  on those of `Recovery` as `ArchivesAssumption`). Three inductions lie under it. Over
  the offsets of one blob (`ScanGood`, `OfferedGood`): while no limit was met every descriptor that
  begins before the offset has been found, and each that was found is a whole one or one cut at `MaxBoundaries`
  (`Piece`); for one name this is `TriedFinds`, which says that the longest run that parses
  to itself is the only one that cannot be made longer (`OneEnd`). Over the gzip members of one blob
  (`MembersGood`, `InflatedGood`), with the budget that all levels share. And over the levels of gzip
  (`LevelGood`, `LevelFinds`): a level finds what is inside the bytes if the next does. The
  invariant `GatherInv` then says of the walk that what was opened is the archive or
  its one jar (`Walk`, `OneJar`), that what was read and what is unread make up the selected
  entries and the sizes read so far the sum up to there (`Reading`, `SumsGrow`), so that a budget checked
  before the first entry holds at each, and that every finding is a piece of some blob
  (`Founded`).
- `ScanReportsTruth` (`ScanSpec(programs) => []ScanSound`), for any methods that satisfy `Method`,
  which says what the verifier of class files guarantees: every instruction has the registers
  it reads and writes, and branches stay within the method. TLC evaluates the same condition
  on the methods of `Recovery` (`ProgramsAssumption`). The scan itself keeps only the
  present, so the invariant is about a trace: `LiteInv` says there is a `t` with what was known
  at each instruction (`ScanInv`), such that from one instruction to the next the knowledge
  flows as that instruction makes it (`Flows`), and at the target of a branch nothing is
  known that was not known where it starts (`Weaker`). Then the method's own run, which
  goes from one to the other, agrees at every step with what was known there (`RunInv`;
  `PlainSound`, `NewSound`, `FilledSound`, `PutSound`, `JumpSound`). Arrays are followed by the place
  that made them, and `Holds` says that an array nothing was guessed about has the size and the objects noted.
  Each exclusion in `lost` is used in the proof of the action that makes it.
- Of the names in the text (`ProtoNames`), whatever words and forms they are made of:
  `UniqueNamesDiffer`, `DeclarationsDiffer`, `MembersDiffer` and `EnumsCompile`, the parts of
  `Compilable` on names and enums. They are about operators, so they hold for every
  schema and not only along a behaviour. The loops look for a free suffix without a limit; that one comes up is a
  pigeonhole (`FirstFreeIs`): of more suffixes than names are taken or
  folded to, each taking one away (`Spelling`), one is left. `UniqueStep` and `FoldedStep` say what
  a turn keeps: in the second, that the values done so far that fold together have one number,
  and that none has become a reserved name. In `EnumsCompile` that the zero put
  first folds with none of the others is the premise `ZeroApart`, which is needed (see the disagreements above).

`ExtractionJob_proofs` proves, under `JobAssumption` (at least one run, a pipe that holds
a line) and `Abrupt = FALSE`, `NoChildForgotten` (`[]Tracked`), `CancellationIsReported` (`[]CancelIsReported`),
`ResultsAreTheirOwn` (`[]OwnResult`) and `NeverTwo` (`[]OneRun`) of `JobSpec`, whose caller starts a run only when
the last one has ended. They rest on `JobInv`. It says of the loop that whatever it has yet to start somebody waits
for, and that a task is begun and a child attached once (`Entries`); of the object that at most one run is active (`OneActive`), that a
run that has its child is the one `self._process` names (`HasItsChild`), and that
otherwise `self._process` is none or a child left behind by a run dropped while it was being
stopped (`ProcessOf`, `StartsClean`); and of the stops that a run whose `_stop_and_drain()` has begun has had its child told to end,
with SIGKILL sent or on its way, and its output read (`StopAsked`, `Told`). Up to there the child is safe because
`self._process` still names it: this is where `Abrupt = FALSE` is used, for a run that left its cleanup earlier
would forget it. The flag `_cancelled` of a run
that can still return says whether a `cancel()` found it (`Flagged`). One lemma per action.

`Tui_proofs` proves, under `JobAssumption` and for any number of runs and
cancellations, `AlwaysCancellable` (`[]Cancellable`), `EndsOnItsScreen` (`[]OnScreen`), `QuestionBelongsToRun`
(`[]PendingBelongs`), `RunningScreenEnds` (`[]NoFrozenScreen`) and
`JobKeepsItsPromises`: for a user who does not type ahead, `Tracked`, `CancelIsReported`, `OwnResult` and `QuitStops`,
in the application instead of under the caller `JobSpec` assumes and whatever `Abrupt` is. `TuiInv` says,
of that user, `JobInv`; that no run ends otherwise than
`_run_job` handles (`Caught`); that a run outlives its child (`Outlives`); that its output is drained by itself alone
(`RunsAlone`); and that while a run is left
the screen is the running one (`ScreenInv`): this is what `running` and the filters of
the key handlers are there for, and why a second run cannot start. Such a user can quit from Home only, so once
the application exits no run is left. That leaving it stops a hasty user's extraction is model-checked.

`Reconcile_proofs` proves `BestFieldKept`, `NothingDisappears` and `EveryoneIsEvidence` under
`ReconcileAssumption`, for any items in any order and any choice of free addresses. `MergeInv` joins the types, two of the
properties and `ListInv`: no two items have one list (`ListsApart`), every cached address is that of a list in
use and what is cached is what is in it, once each (`CacheTrue`), and each list holds what its sources brought
(`Evidenced`). `ListsApart` is what makes one
item's merge harmless to the others, and `CacheTrue` what makes a new list at a used address harmless: it
finds no cache there. And it proves:

- `NamesNeverClash` (`[]NamesFree`) with no assumption at all: for any `Key`, `Packaged`,
  `Numbered`, `Unsafe`, `Reserved` and `Requests`. The property is not inductive, because the
  code looks a name up in `seen`; the strengthening says that `seen` is the set of the keys
  of the names given so far.
- `OrderDecidesNothing` (`FilesSpec(inputs) => []FilesResolved`) under `FileNamesAssumption`
  (`FileNames` lists each name once), for any inputs that are sequences. `FilesInv`: the pool is
  within every closed set of names (`Founded`), the files pending, tried and deferred are those not
  in the pool, each once, and what was deferred still lacks a dependency unless
  the pool has grown in this pass (`Passing`). So a pass that defers everything leaves a closed
  pool, which is the least one.

`Toolchain_proofs` proves `SourcesNeverLost` and `FailureIsUndone` from `JadxInv`, and
`FirstFailureReported` and `NoToolsLeft` from `JadxInv` and `CompileInv`, under
`CommandAssumption` and `CompileAssumption`. `Whereabouts` says where the old and the new
sources are at each call and `Counted` how many calls have failed when a handler runs.
`Progress` says that jobs collected so far were accepted, in order, and `Attended` that a running
`protoc` has its directory and a thread that will wait for it or kill it.

`Bench_proofs` proves `CacheMaterialized` and `GoodForGood` (`CorpusSpec => GoodStays`, an action
property) under `CorpusAssumption`, for any set of processes. `HonestCache` says that with an
honest origin no process is ever about to discard an artifact, which is what makes
the unlocked check and removal harmless; `BehindGood` that a process that is alone
leaves good artifacts behind it. And it proves `SourceBuiltWhole` (`UpstreamSpec =>
[]SourceWhole`) under `SourceAssumption`, for any processes, manifests and archives. `SourceInv` says that a
staging directory holds the files before the step its process is at (`Staged`), so all of
them when it is swapped in; that at most one process has put it in place
(`PlacedOnce`); that without trouble a process is refused only when the source is there
(`OnlyLate`, which needs that a manifest without conflicts can always be written); and that whoever is past the
lookup has a good archive (`GoodArchive`).

It also proves `ScoredFairly` (`MetricsSpec => []FairlyScored`) under `MetricsAssumption` (the messages of
`Shapes` have finitely many fields and enum values), for schemas of any size. After any number
of turns the matches are one to one, hold all namesakes, and match beyond them only
equal signatures of truths come to so far (`GoodMatches`, `ProceedsGood`). So what is shared by matched
messages maps one to one into what the truth has, and into what the recovery has
(`SharedAtMost`): no metric exceeds 1. A schema whose messages all have names is matched with
itself along the identity (`MatchesItself`) and shares all with itself (`SharedWithItself`). The schema's own enums and
the round trips are parameters of the theorem; a round trip that failed lowers its metric for the truth
itself, so equality to the truth gives 1 there only if all passed.

`ScoredFairly`, and `NothingIsOverlooked` and the theorems on names above, reason about loops. A loop is a function on `0..n`; that it exists (`LoopRuns`) and
what holds after every turn (`Induction`) come from the least number of a set
(`LeastNumber`), which the library's theorem that `<` is well-founded gives. That is induction over
a set of numbers, and the provers do it; the library's induction theorems, which take an
operator as a parameter, they cannot use. The two modules state these lemmas each for itself.

Only model-checked: `LiteFaithful`, `WireFaithful`, `ReferencesFollow` and `Compilable`. Each
compares what a generator writes with what is read back, or text with protoc's rules about it,
through several recursions over nested data at once; the induction above would do it, with an
invariant per cursor, but the proofs are not written. Of `Compilable` the names and the enums are
proved as said; what is not is that the scopes of nested messages fit together and that
references find their types. And all liveness, since the prover has
no `ENABLED`.

## Not modelled

- `container/dex.py`, `elf.py`, `macho.py`: parsers of binary formats, one pass over
  bytes without state that outlives a header.
- `extract/gotags.py`, `extract/grpc.py`, `decode/grpc.py`, `decode/descpb.py`: translations of one
  item into one item. The heuristics for lite classes without an info string
  guess by design, so there is nothing to compare a guess with.
- The names, syntaxes and enums of Wire (`extract_wire_names`, `_syntaxes`, `_enums`),
  which are read off strings and annotations one by one.
- `emit/jsonout.py`, `report.py`, `dashboard.py`, `tui/render.py`, `tui/results.py`: wording and layout of
  what is already decided; options, defaults and comments of the `.proto` text.
- `doctor`, `demo`, `inspect` and the release scripts: reports and developer tooling.
- A `RuntimeError` raised by a compilation itself, which the command takes for a refused thread
  (`cli.py:457`).
- The reconciliation's budgets and two extractions into one directory at a time, for
  which the command takes no lock and promises nothing.

## Plan

In this order:

1. **Proofs** about the writing stages, as far as they do not recurse: `Nesting`, and that `EmitProto`'s
   references find their types.
2. **Reconciliation** of whole schemas with its budgets.
3. **Wire** maps and enums, in `WireScan`.
