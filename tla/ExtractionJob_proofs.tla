------------------------ MODULE ExtractionJob_proofs ------------------------
(***************************************************************************)
(* Theorems about ExtractionJob, for any number of runs and cancellations  *)
(* and any size of the pipe.                                               *)
(***************************************************************************)
EXTENDS ExtractionJob, TLAPS

Whats == {"begin", "attach", "gather", "both", "stop"}
Statuses == {"none", "zero", "nonzero"}
Kinds == {"none", "returned", "refused", "oserror", "error", "dropped"}
Attached == {"stopping", "reading", "waiting", "rejecting", "cleanup"}
Stopping == {"rejecting", "cleanup"}

LoopTypes ==
  /\ ready \in Seq(Whats \X Tasks)
  /\ pc \in [Tasks -> {"idle", "over"} \union Active]
  /\ target \in [Runs -> Runs \union {None}]
  /\ drain \in [Runs -> Runs \union {None, Broken}]
  /\ result \in [Runs -> [kind : Kinds, code : Statuses, cancelled : BOOLEAN]]

ObjectTypes ==
  /\ process \in Runs \union {None}
  /\ starting \in BOOLEAN /\ cancelled \in BOOLEAN /\ cancelRequested \in BOOLEAN

ChildTypes ==
  /\ os \in [Runs -> {"none", "alive", "dead"}]
  /\ code \in [Runs -> Statuses]
  /\ known \in [Runs -> BOOLEAN]
  /\ pipe \in [Runs -> Nat]

SignalTypes ==
  /\ stop \in [Tasks -> Runs \union {None}]
  /\ timers \subseteq Tasks \X Runs /\ drained \subseteq Runs
  /\ sig \in [Runs -> {"none", "term", "kill"}]
  /\ asked \subseteq Runs /\ dropped \subseteq Runs

JobTypes == LoopTypes /\ ObjectTypes /\ ChildTypes /\ SignalTypes

\* What the loop has yet to start, and what it has only once.
Waits(entry) == \E k \in DOMAIN ready : ready[k] = entry
Once(entry) == \A j, k \in DOMAIN ready : ready[j] = entry /\ ready[k] = entry => j = k

\* Whatever the loop has yet to start somebody is waiting for, but for the
\* _stop() of a task that was cancelled.
Entries ==
  \A t \in Tasks :
    /\ Waits(<<"begin", t>>) => pc[t] = "queued"
    /\ Waits(<<"attach", t>>) => t \in Runs /\ pc[t] = "starting" /\ os[t] # "none"
    /\ Waits(<<"gather", t>>) \/ Waits(<<"both", t>>) => pc[t] \in Stopping
    /\ Waits(<<"stop", t>>) => pc[t] \in {"stopping", "over"}
    /\ Once(<<"begin", t>>) /\ Once(<<"attach", t>>)

OneActive == \A q, r \in Runs : pc[q] \in Active /\ pc[r] \in Active => q = r

\* self._process is the child of the run that has one, or of a run that was
\* dropped while its child was being stopped; a run that starts finds none
\* or one that has exited.
HasItsChild == \A r \in Runs : pc[r] \in Attached => process = r
ProcessOf ==
  process # None => pc[process] \in Attached \/ (pc[process] = "over" /\ result[process].kind = "dropped")
StartsClean ==
  /\ starting <=> \E r \in Runs : pc[r] = "starting"
  /\ starting => process = None \/ known[process]

\* Each run looks at its own child.
OwnChild ==
  \A r \in Runs :
    /\ known[r] => os[r] = "dead"
    /\ pc[r] \in {"reading", "waiting"} => target[r] = r
    /\ pc[r] = "waiting" => EndOfFile(r)

\* SIGKILL has been sent, or a _stop() will send it after its two seconds.
Told(p) == sig[p] = "kill" \/ (sig[p] = "term" /\ \E t \in Tasks : <<t, p>> \in timers)

\* A run that waits for _stop_and_drain() has asked for it; once that has
\* begun its child has been told to end and its output is being read.
StopAsked ==
  \A r \in Runs : pc[r] \in Stopping /\ ~Queued(r) =>
    /\ os[r] = "alive" => Told(r)
    /\ drain[r] \in {r, Broken}

\* What the flag will say, as long as the run can still return.
Flagged ==
  \A r \in Runs :
    /\ pc[r] \in {"starting", "stopping", "reading", "waiting", "rejecting"} => (cancelled <=> r \in asked)
    /\ pc[r] \in {"idle", "queued"} => r \notin asked
    /\ pc[r] # "over" => result[r].kind = "none"

JobInv ==
  /\ JobTypes /\ Entries /\ OneActive /\ HasItsChild /\ ProcessOf /\ StartsClean /\ OwnChild /\ StopAsked
  /\ Flagged /\ Tracked /\ CancelIsReported /\ OwnResult

\* What a step does to `ready`: only entries of task t come and go.
Moves(t, come) ==
  /\ ready' \in Seq(Whats \X Tasks)
  /\ \A x : Waits(x)' => Waits(x) \/ x \in come
  /\ \A s \in Tasks \ {t} : Queued(s)' <=> Queued(s)
  /\ come # {} => Queued(t)'
  /\ \A s \in Tasks : Once(<<"begin", s>>)' /\ Once(<<"attach", s>>)'

-----------------------------------------------------------------------------
(* A fresh ExtractionJob satisfies the invariant. *)
LEMMA JobStarts == JobInit => JobInv
<1> SUFFICES ASSUME JobInit PROVE JobInv
  OBVIOUS
<1> USE JobAssumption DEF JobInit
<1>1. JobTypes
  <2>1. LoopTypes
    BY DEF LoopTypes, Statuses, Kinds, NoResult
  <2>2. ObjectTypes
    BY Zenon DEF ObjectTypes
  <2>3. ChildTypes
    BY DEF ChildTypes, Statuses
  <2>4. SignalTypes
    BY DEF SignalTypes
  <2> QED
    BY <2>1, <2>2, <2>3, <2>4 DEF JobTypes
<1>2. Entries
  BY DEF Entries, Waits, Once
<1>3. OneActive /\ HasItsChild /\ ProcessOf /\ StartsClean /\ OwnChild /\ StopAsked
  BY DEF OneActive, HasItsChild, ProcessOf, StartsClean, OwnChild, StopAsked, Attached, Stopping, Active,
     Runs, Tasks
<1>4. Flagged /\ Tracked /\ CancelIsReported /\ OwnResult
  BY DEF Flagged, Tracked, CancelIsReported, OwnResult, NoResult, Runs, Tasks
<1> QED
  BY <1>1, <1>2, <1>3, <1>4 DEF JobInv

(* Runs and cancellations are different tasks. *)
LEMMA TaskKinds == /\ Runs \subseteq Tasks /\ Cancels \subseteq Tasks
                   /\ \A r \in Runs : r \notin Cancels /\ r # None /\ r # Broken
                   /\ \A t \in Tasks : t \in Runs \/ t \in Cancels
  BY JobAssumption DEF Runs, Cancels, Tasks, None, Broken

(* Tracked, by what a child has been told. *)
LEMMA TrackedTold ==
  Tracked <=> \A p \in Runs : os[p] = "alive" => process = p \/ (starting /\ pc[p] = "starting") \/ Told(p)
  BY DEF Tracked, Told

-----------------------------------------------------------------------------
(* What becomes of `ready` when it is left alone. *)
LEMMA ReadyKept ==
  ASSUME JobInv, NEW t, ready' = ready
  PROVE  /\ Moves(t, {}) /\ \A x : Waits(x)' <=> Waits(x)
         /\ \A s \in Tasks : Queued(s)' <=> Queued(s)
<1>1. ready \in Seq(Whats \X Tasks)
  BY DEF JobInv, JobTypes, LoopTypes
<1>2. \A s \in Tasks : Once(<<"begin", s>>) /\ Once(<<"attach", s>>)
  BY DEF JobInv, Entries
<1>3. \A x : Waits(x)' <=> Waits(x)
  BY DEF Waits
<1>4. \A s \in Tasks : Queued(s)' <=> Queued(s)
  BY DEF Queued
<1>5. \A x : Once(x)' <=> Once(x)
  BY DEF Once
<1> QED
  BY <1>1, <1>2, <1>3, <1>4, <1>5 DEF Moves

(* A sequence that grows at its end. *)
LEMMA Grows ==
  ASSUME NEW S, NEW s \in Seq(S), NEW e \in S
  PROVE  /\ Append(s, e) \in Seq(S)
         /\ \A k \in DOMAIN s : k \in DOMAIN Append(s, e) /\ Append(s, e)[k] = s[k] /\ k # Len(s) + 1
         /\ DOMAIN Append(s, e) = DOMAIN s \union {Len(s) + 1} /\ Append(s, e)[Len(s) + 1] = e
  OBVIOUS

(* A task is put at the end. *)
LEMMA ReadyAppends ==
  ASSUME JobInv, NEW t \in Tasks, NEW what \in Whats, ready' = Append(ready, <<what, t>>),
         what \in {"begin", "attach"} => ~Waits(<<what, t>>)
  PROVE  Moves(t, {<<what, t>>})
<1> DEFINE e == <<what, t>>
<1>0. ready \in Seq(Whats \X Tasks) /\ e \in Whats \X Tasks
  BY DEF JobInv, JobTypes, LoopTypes
<1>1. /\ ready' \in Seq(Whats \X Tasks)
      /\ \A k \in DOMAIN ready : k \in DOMAIN ready' /\ ready'[k] = ready[k] /\ k # Len(ready) + 1
      /\ DOMAIN ready' = DOMAIN ready \union {Len(ready) + 1} /\ ready'[Len(ready) + 1] = e
  BY <1>0, Grows
<1>2. \A x : Waits(x)' => Waits(x) \/ x = e
  BY <1>1 DEF Waits
<1>3. e[2] = t
  OBVIOUS
<1> HIDE DEF e
<1>4. ASSUME NEW s \in Tasks \ {t} PROVE Queued(s)' <=> Queued(s)
  BY <1>1, <1>3 DEF Queued
<1>5. Queued(t)'
  BY <1>1, <1>3 DEF Queued
<1>6. ASSUME NEW x, Once(x), x = e => ~Waits(x) PROVE Once(x)'
  BY <1>1, <1>6 DEF Once, Waits
<1>7. ASSUME NEW s \in Tasks PROVE Once(<<"begin", s>>)' /\ Once(<<"attach", s>>)'
  <2>1. Once(<<"begin", s>>) /\ Once(<<"attach", s>>)
    BY DEF JobInv, Entries
  <2>2. \A w \in {"begin", "attach"} : <<w, s>> = e => ~Waits(<<w, s>>)
    BY DEF e
  <2> QED
    BY <1>6, <2>1, <2>2
<1> QED
  BY <1>1, <1>2, <1>4, <1>5, <1>7 DEF Moves, e

(* An entry of a task is taken out of `ready`; the others keep their order. *)
LEMMA ReadyLoses ==
  ASSUME JobInv, NEW t \in Tasks, NEW what \in Whats, NEW k \in 1..Len(ready), ready[k] = <<what, t>>,
         ready' \in Seq(Whats \X Tasks), Len(ready') = Len(ready) - 1,
         \A j \in 1..Len(ready') : ready'[j] = IF j < k THEN ready[j] ELSE ready[j + 1]
  PROVE  /\ Moves(t, {})
         /\ what \in {"begin", "attach"} => ~Waits(<<what, t>>)'
<1> DEFINE e == <<what, t>>
           from(j) == IF j < k THEN j ELSE j + 1
<1>0. ready \in Seq(Whats \X Tasks) /\ Len(ready) \in Nat
  BY DEF JobInv, JobTypes, LoopTypes
<1>1. \A j \in DOMAIN ready' : from(j) \in DOMAIN ready /\ from(j) # k /\ ready'[j] = ready[from(j)]
  <2>1. DOMAIN ready' = 1..Len(ready') /\ DOMAIN ready = 1..Len(ready)
    BY <1>0
  <2>2. \A j \in 1..Len(ready') : j \in 1..Len(ready) /\ j + 1 \in 1..Len(ready)
    BY <1>0
  <2>3. \A j \in 1..Len(ready') : from(j) # k
    BY <1>0
  <2> QED
    BY <2>1, <2>2, <2>3
<1>2. \A i, j \in DOMAIN ready' : from(i) = from(j) => i = j
  BY <1>0
<1>3. \A i \in DOMAIN ready \ {k} : \E j \in DOMAIN ready' : from(j) = i
  <2> SUFFICES ASSUME NEW i \in DOMAIN ready \ {k} PROVE \E j \in DOMAIN ready' : from(j) = i
    OBVIOUS
  <2>1. CASE i < k
    <3>1. i \in DOMAIN ready' /\ from(i) = i
      BY <1>0, <2>1
    <3> QED
      BY <3>1
  <2>2. CASE i > k
    <3>1. i - 1 \in DOMAIN ready' /\ from(i - 1) = i
      BY <1>0, <2>2
    <3> QED
      BY <3>1
  <2> QED
    BY <1>0, <2>1, <2>2
<1>4. k \in DOMAIN ready /\ ready[k] = e /\ e[2] = t
  BY <1>0
<1> HIDE DEF from, e
<1>5. \A x : Waits(x)' => Waits(x)
  BY <1>1 DEF Waits
<1>6. \A x : Once(x) => Once(x)'
  BY <1>1, <1>2 DEF Once
<1>7. Once(e) => ~Waits(e)'
  BY <1>1, <1>4 DEF Once, Waits
<1>8. ASSUME NEW s \in Tasks \ {t} PROVE Queued(s)' <=> Queued(s)
  BY <1>1, <1>3, <1>4 DEF Queued
<1>9. \A s \in Tasks : Once(<<"begin", s>>) /\ Once(<<"attach", s>>)
  BY DEF JobInv, Entries
<1>10. \A s \in Tasks : Once(<<"begin", s>>)' /\ Once(<<"attach", s>>)'
  BY <1>6, <1>9
<1>11. what \in {"begin", "attach"} => Once(e)
  BY <1>9 DEF e
<1>12. Moves(t, {})
  BY <1>5, <1>8, <1>10 DEF Moves
<1> QED
  BY <1>7, <1>11, <1>12 DEF e

(* The loop starts what is next. *)
LEMMA ReadyTurns ==
  ASSUME JobInv, NEW t \in Tasks, NEW what \in Whats, Turn(what, t)
  PROVE  /\ Waits(<<what, t>>) /\ Moves(t, {})
         /\ what \in {"begin", "attach"} => ~Waits(<<what, t>>)'
<1>1. ready \in Seq(Whats \X Tasks) /\ ready # <<>> /\ ready[1] = <<what, t>> /\ ready' = Tail(ready)
  BY DEF Turn, JobInv, JobTypes, LoopTypes
<1>2. /\ ready' \in Seq(Whats \X Tasks) /\ Len(ready') = Len(ready) - 1 /\ 1 \in 1..Len(ready)
      /\ \A j \in 1..Len(ready') : ready'[j] = ready[j + 1]
  BY <1>1
<1>3. \A j \in 1..Len(ready') : ready'[j] = IF j < 1 THEN ready[j] ELSE ready[j + 1]
  BY <1>2
<1>4. Waits(<<what, t>>)
  BY <1>1, <1>2 DEF Waits
<1> QED
  BY <1>1, <1>2, <1>3, <1>4, ReadyLoses

(* What RemoveAt leaves of a sequence. *)
LEMMA Removed ==
  ASSUME NEW S, NEW s \in Seq(S), NEW k \in 1..Len(s)
  PROVE  /\ RemoveAt(s, k) \in Seq(S) /\ Len(RemoveAt(s, k)) = Len(s) - 1
         /\ \A j \in 1..Len(s) - 1 : RemoveAt(s, k)[j] = IF j < k THEN s[j] ELSE s[j + 1]
<1> DEFINE left == SubSeq(s, 1, k - 1)
           right == SubSeq(s, k + 1, Len(s))
<1>1. left \in Seq(S) /\ Len(left) = k - 1 /\ \A j \in 1..k - 1 : left[j] = s[j]
  OBVIOUS
<1>2. right \in Seq(S) /\ Len(right) = Len(s) - k /\ \A j \in 1..Len(s) - k : right[j] = s[k + j]
  OBVIOUS
<1>3. RemoveAt(s, k) = left \o right
  BY DEF RemoveAt
<1> HIDE DEF left, right
<1> QED
  BY <1>1, <1>2, <1>3

(* A task is cancelled before the loop has started it. *)
LEMMA ReadyWithout ==
  ASSUME JobInv, NEW t \in Tasks, NEW what \in Whats, Without(<<what, t>>)
  PROVE  Moves(t, {}) /\ (what \in {"begin", "attach"} => ~Waits(<<what, t>>)')
<1>0. ready \in Seq(Whats \X Tasks)
  BY DEF JobInv, JobTypes, LoopTypes
<1>1. PICK k \in 1..Len(ready) : ready[k] = <<what, t>> /\ ready' = RemoveAt(ready, k)
  BY <1>0 DEF Without
<1>5. /\ ready' \in Seq(Whats \X Tasks) /\ Len(ready') = Len(ready) - 1
      /\ \A j \in 1..Len(ready') : ready'[j] = IF j < k THEN ready[j] ELSE ready[j + 1]
  BY <1>0, <1>1, Removed
<1> QED
  BY <1>1, <1>5, ReadyLoses

(* What is started asks for something in its turn. *)
LEMMA ReadyPasses ==
  ASSUME JobInv, NEW t \in Tasks, NEW what \in Whats, NEW next \in Whats \ {"begin", "attach"},
         ready # <<>>, Head(ready) = <<what, t>>, ready' = Append(Tail(ready), <<next, t>>)
  PROVE  /\ Waits(<<what, t>>) /\ Moves(t, {<<next, t>>})
         /\ what \in {"begin", "attach"} => ~Waits(<<what, t>>)'
<1> DEFINE e == <<what, t>>
           f == <<next, t>>
<1>0. ready \in Seq(Whats \X Tasks) /\ f \in Whats \X Tasks /\ Len(ready) \in Nat \ {0}
  BY DEF JobInv, JobTypes, LoopTypes
<1>1. /\ Tail(ready) \in Seq(Whats \X Tasks) /\ Len(Tail(ready)) = Len(ready) - 1
      /\ \A j \in 1..Len(ready) - 1 : Tail(ready)[j] = ready[j + 1]
  BY <1>0
<1>2. /\ ready' \in Seq(Whats \X Tasks) /\ DOMAIN ready' = 1..Len(ready) /\ DOMAIN ready = 1..Len(ready)
      /\ \A j \in 1..Len(ready) - 1 : ready'[j] = ready[j + 1]
      /\ ready'[Len(ready)] = f
  BY <1>0, <1>1
<1>3. ready[1] = e /\ e[2] = t /\ f[2] = t
  BY <1>0
<1>4. what \in {"begin", "attach"} => e # f
  OBVIOUS
<1> HIDE DEF e, f
<1>5. \A j \in DOMAIN ready' : ready'[j] = f \/ (j + 1 \in DOMAIN ready /\ j + 1 # 1 /\ ready'[j] = ready[j + 1])
  BY <1>0, <1>2
<1>6. \A x : Waits(x)' => Waits(x) \/ x = f
  BY <1>5 DEF Waits
<1>7. ASSUME NEW s \in Tasks \ {t} PROVE Queued(s)' <=> Queued(s)
  <2>1. Queued(s)' => Queued(s)
    BY <1>3, <1>5 DEF Queued
  <2>2. ASSUME NEW k \in DOMAIN ready, ready[k][2] = s PROVE Queued(s)'
    <3>1. k # 1 /\ k - 1 \in 1..Len(ready) - 1 /\ k - 1 \in DOMAIN ready'
      BY <1>0, <1>2, <1>3, <2>2
    <3>2. ready'[k - 1] = ready[k]
      BY <1>0, <1>2, <3>1
    <3> QED
      BY <2>2, <3>1, <3>2 DEF Queued
  <2> QED
    BY <2>1, <2>2 DEF Queued
<1>8. Queued(t)'
  BY <1>0, <1>2, <1>3 DEF Queued
<1>9. ASSUME NEW x, x # f, Once(x) PROVE Once(x)'
  <2> SUFFICES ASSUME NEW i \in DOMAIN ready', NEW j \in DOMAIN ready', ready'[i] = x, ready'[j] = x PROVE i = j
    BY DEF Once
  <2>1. i + 1 \in DOMAIN ready /\ j + 1 \in DOMAIN ready /\ ready[i + 1] = x /\ ready[j + 1] = x
    BY <1>5, <1>9
  <2>2. i + 1 = j + 1
    BY <1>9, <2>1 DEF Once
  <2> QED
    BY <1>2, <2>2
<1>10. e # f /\ Once(e) => ~Waits(e)'
  <2> SUFFICES ASSUME e # f, Once(e), NEW k \in DOMAIN ready', ready'[k] = e PROVE FALSE
    BY DEF Waits
  <2>1. k + 1 \in DOMAIN ready /\ k + 1 # 1 /\ ready[k + 1] = e
    BY <1>5
  <2>2. 1 \in DOMAIN ready /\ ready[1] = e
    BY <1>0, <1>2, <1>3
  <2> QED
    BY <2>1, <2>2 DEF Once
<1>11. \A s \in Tasks : Once(<<"begin", s>>) /\ Once(<<"attach", s>>)
  BY DEF JobInv, Entries
<1>12. \A s \in Tasks : <<"begin", s>> # f /\ <<"attach", s>> # f
  BY DEF f
<1>13. \A s \in Tasks : Once(<<"begin", s>>)' /\ Once(<<"attach", s>>)'
  BY <1>9, <1>11, <1>12
<1>14. what \in {"begin", "attach"} => Once(e)
  BY <1>11 DEF e
<1>15. Waits(e)
  BY <1>0, <1>2, <1>3 DEF Waits
<1> QED
  BY <1>2, <1>4, <1>6, <1>7, <1>8, <1>10, <1>13, <1>14, <1>15 DEF Moves, e, f

-----------------------------------------------------------------------------
(* What the loop has yet to start, after a step of task t. *)
LEMMA EntriesNext ==
  ASSUME JobInv, NEW t \in Tasks, NEW label, pc' = [pc EXCEPT ![t] = label],
         NEW come, Moves(t, come), come \subseteq {<<w, t>> : w \in Whats},
         \A p \in Runs : os[p] # "none" => os'[p] # "none",
         Waits(<<"begin", t>>)' => label = "queued",
         Waits(<<"attach", t>>)' => t \in Runs /\ label = "starting" /\ os'[t] # "none",
         Waits(<<"gather", t>>)' \/ Waits(<<"both", t>>)' => label \in Stopping,
         Waits(<<"stop", t>>)' => label \in {"stopping", "over"}
  PROVE  Entries'
<1>1. DOMAIN pc = Tasks
  BY DEF JobInv, JobTypes, LoopTypes
<1>2. \A s \in Tasks \ {t}, w \in Whats : Waits(<<w, s>>)' => Waits(<<w, s>>)
  <2>1. \A s \in Tasks \ {t}, w \in Whats : <<w, s>> \notin come
    OBVIOUS
  <2> QED
    BY <2>1 DEF Moves
<1>3. \A s \in Tasks \ {t} : pc'[s] = pc[s]
  BY <1>1
<1>4. pc'[t] = label
  BY <1>1
<1> QED
  BY <1>2, <1>3, <1>4 DEF JobInv, Entries, Whats, Moves

(* Tracked after a step, by what a child has been told. *)
LEMMA TrackedNext ==
  ASSUME \A p \in Runs : os'[p] = "alive" => process' = p \/ (starting' /\ pc'[p] = "starting") \/ Told(p)'
  PROVE  Tracked'
  BY DEF Tracked, Told

-----------------------------------------------------------------------------
\* What may happen to the children while the object stays as it is.
ChildrenMove ==
  /\ ChildTypes'
  /\ \A p \in Runs :
       /\ os[p] = "dead" => os'[p] = "dead" /\ code'[p] = code[p] /\ (pipe[p] = 0 => pipe'[p] = 0)
       /\ os[p] # "none" => os'[p] # "none"
       /\ known[p] => known'[p]
       /\ known'[p] => os'[p] = "dead"
       /\ os'[p] = "alive" => os[p] = "alive"

\* What a child has been told stays told as long as it lives.
ToldStays ==
  /\ SignalTypes' /\ \A p \in Runs : os'[p] = "alive" /\ Told(p) => Told(p)'

(* The children, their pipes and the two seconds of a _stop() go on by     *)
(* themselves.                                                             *)
LEMMA QuietStep ==
  ASSUME JobInv, UNCHANGED <<coroutines, object, asked>>, ChildrenMove, ToldStays
  PROVE  JobInv'
<1> USE TaskKinds DEF JobInv, JobTypes, coroutines, object
<1>0. ready' = ready /\ UNCHANGED <<pc, target, drain, result, process, starting, cancelled, cancelRequested, asked>>
  OBVIOUS
<1>1. JobTypes'
  BY DEF ChildrenMove, ToldStays, LoopTypes, ObjectTypes
<1>2. Entries'
  <2>1. \A x : (Waits(x)' <=> Waits(x)) /\ (Once(x)' <=> Once(x))
    BY DEF Waits, Once
  <2> QED
    BY <2>1 DEF Entries, ChildrenMove
<1>3. OneActive' /\ HasItsChild' /\ ProcessOf'
  BY DEF OneActive, HasItsChild, ProcessOf
<1>4. StartsClean'
  BY DEF StartsClean, ObjectTypes, ChildrenMove
<1>5. OwnChild'
  BY DEF OwnChild, ChildrenMove, EndOfFile
<1>6. StopAsked'
  <2>1. \A s \in Tasks : Queued(s)' <=> Queued(s)
    BY DEF Queued
  <2> QED
    BY <2>1 DEF StopAsked, ChildrenMove, ToldStays
<1>7. Flagged' /\ CancelIsReported'
  BY DEF Flagged, CancelIsReported
<1>8. Tracked'
  <2>1. \A p \in Runs : os'[p] = "alive" => process' = p \/ (starting' /\ pc'[p] = "starting") \/ Told(p)'
    BY TrackedTold DEF ChildrenMove, ToldStays
  <2> QED
    BY <2>1, TrackedNext
<1>9. OwnResult'
  BY DEF OwnResult, ChildrenMove
<1> QED
  BY <1>1, <1>2, <1>3, <1>4, <1>5, <1>6, <1>7, <1>8, <1>9

(* A run ends, with a result about its own child if it returns.            *)
LEMMA EndsStep ==
  ASSUME JobInv, NEW r \in Runs, pc[r] \in Active, NEW value, Finish(r, value), Moves(r, {}),
         value \in [kind : Kinds \ {"none"}, code : Statuses, cancelled : BOOLEAN],
         value.kind = "returned" =>
           value = Returned(r) /\ pc[r] \in {"waiting", "rejecting"} /\ EndOfFile(r),
         pc[r] = "queued" => ~Waits(<<"begin", r>>)',
         pc[r] = "starting" => ~Waits(<<"attach", r>>)',
         pc[r] \in Stopping => ~Queued(r) /\ ready' = ready,
         \/ process' = process /\ (pc[r] \in Attached => value.kind = "dropped")
         \/ process' = None /\ pc[r] \in Attached /\ (os[r] = "alive" => Told(r)),
         starting' = IF pc[r] = "starting" THEN FALSE ELSE starting,
         UNCHANGED <<target, drain, cancelled, cancelRequested, asked>>,
         ChildrenMove, ToldStays, pc[r] = "starting" => os'[r] # "alive"
  PROVE  JobInv'
<1> USE TaskKinds DEF JobInv, JobTypes
<1>0. /\ pc' = [pc EXCEPT ![r] = "over"] /\ result' = [result EXCEPT ![r] = value]
      /\ pc \in [Tasks -> {"idle", "over"} \union Active] /\ pc' \in [Tasks -> {"idle", "over"} \union Active]
      /\ r \in Tasks /\ DOMAIN result = Runs
  BY DEF Finish, LoopTypes
<1>1. JobTypes'
  <2>1. LoopTypes'
    BY <1>0 DEF Moves, LoopTypes
  <2>2. ObjectTypes'
    BY DEF ObjectTypes
  <2> QED
    BY <2>1, <2>2 DEF ChildrenMove, ToldStays
<1>2. Entries'
  <2>1. \A x : Waits(x)' => Waits(x)
    BY DEF Moves
  <2>2. pc[r] \in Stopping => ~Waits(<<"gather", r>>) /\ ~Waits(<<"both", r>>)
    BY DEF Queued, Waits
  <2>3. /\ ~Waits(<<"begin", r>>)' /\ ~Waits(<<"attach", r>>)'
        /\ ~Waits(<<"gather", r>>)' /\ ~Waits(<<"both", r>>)'
    BY <1>0, <2>1, <2>2 DEF Entries
  <2> QED
    BY <1>0, <2>3, EntriesNext DEF ChildrenMove
<1>3. OneActive' /\ HasItsChild'
  BY <1>0 DEF OneActive, HasItsChild, Attached, Active
<1>4. ProcessOf'
  BY <1>0 DEF ProcessOf, ObjectTypes, Attached, Active
<1>5. StartsClean'
  BY <1>0 DEF StartsClean, ObjectTypes, ChildrenMove, OneActive, Active, Attached
<1>6. OwnChild'
  BY <1>0 DEF OwnChild, ChildrenMove, EndOfFile
<1>7. StopAsked'
  BY <1>0 DEF StopAsked, ChildrenMove, ToldStays, Moves, Stopping
<1>8. Flagged'
  BY <1>0 DEF Flagged
<1>9. CancelIsReported'
  <2>1. value.kind = "returned" => (value.cancelled <=> r \in asked)
    BY DEF Returned, Flagged
  <2> QED
    BY <1>0, <2>1 DEF CancelIsReported
<1>10. Tracked'
  <2>1. ASSUME NEW p \in Runs, os'[p] = "alive"
        PROVE  process' = p \/ (starting' /\ pc'[p] = "starting") \/ Told(p)'
    <3>1. os[p] = "alive" /\ (Told(p) => Told(p)')
      BY <2>1 DEF ChildrenMove, ToldStays
    <3>2. process = p \/ (starting /\ pc[p] = "starting") \/ Told(p)
      BY <3>1, TrackedTold
    <3>3. process # process' => process = r /\ (os[r] = "alive" => Told(r))
      BY DEF HasItsChild
    <3>4. pc[p] = "starting" /\ p # r => pc'[p] = "starting" /\ pc[r] # "starting"
      BY <1>0 DEF OneActive, Active
    <3> QED
      BY <2>1, <3>1, <3>2, <3>3, <3>4
  <2> QED
    BY <2>1, TrackedNext
<1>11. OwnResult'
  <2>1. value.kind = "returned" => os[r] = "dead" /\ pipe[r] = 0 /\ value.code = code[r]
    BY DEF Returned, EndOfFile
  <2> QED
    BY <1>0, <2>1 DEF OwnResult, ChildrenMove
<1> QED
  BY <1>1, <1>2, <1>3, <1>4, <1>5, <1>6, <1>7, <1>8, <1>9, <1>10, <1>11

(* A run asks for its child to be stopped and its output to be read.       *)
LEMMA StopsStep ==
  ASSUME JobInv, NEW r \in Runs, NEW label \in Stopping, StopAndDrain(r, label), pc[r] \in Attached,
         label = "rejecting" => pc[r] \in {"stopping", "reading", "waiting"} /\ cancelled' = cancelled,
         pc[r] = "stopping" => ~Queued(r),
         cancelled' \in BOOLEAN, ToldStays, ChildrenMove,
         UNCHANGED <<target, drain, result, process, starting, cancelRequested, asked>>
  PROVE  JobInv'
<1> USE TaskKinds DEF JobInv, JobTypes
<1>0. /\ pc' = [pc EXCEPT ![r] = label] /\ r \in Tasks
      /\ pc \in [Tasks -> {"idle", "over"} \union Active] /\ pc' \in [Tasks -> {"idle", "over"} \union Active]
  BY DEF StopAndDrain, LoopTypes, Stopping, Active
<1>a. Moves(r, {<<"gather", r>>})
  BY ReadyAppends DEF StopAndDrain, StartStop, Whats
<1>1. JobTypes'
  <2>1. LoopTypes'
    BY <1>0, <1>a DEF Moves, LoopTypes
  <2>2. ObjectTypes'
    BY DEF ObjectTypes
  <2> QED
    BY <2>1, <2>2 DEF ToldStays, ChildrenMove
<1>2. Entries'
  <2>1. \A x : Waits(x)' => Waits(x) \/ x = <<"gather", r>>
    BY <1>a DEF Moves
  <2>2. ~Waits(<<"begin", r>>) /\ ~Waits(<<"attach", r>>)
    BY DEF Entries, Attached
  <2>3. ~Waits(<<"stop", r>>)
    <3>1. Waits(<<"stop", r>>) => Queued(r)
      BY DEF Queued, Waits
    <3>2. Waits(<<"stop", r>>) => pc[r] \in {"stopping", "over"}
      BY <1>0 DEF Entries
    <3> QED
      BY <3>1, <3>2 DEF Attached
  <2>4. ~Waits(<<"begin", r>>)' /\ ~Waits(<<"attach", r>>)' /\ ~Waits(<<"stop", r>>)'
    BY <2>1, <2>2, <2>3
  <2>5. {<<"gather", r>>} \subseteq {<<w, r>> : w \in Whats}
    BY DEF Whats
  <2> QED
    BY <1>0, <1>a, <2>4, <2>5, EntriesNext DEF ChildrenMove
<1>3. OneActive' /\ HasItsChild' /\ ProcessOf'
  BY <1>0 DEF OneActive, HasItsChild, ProcessOf, Attached, Stopping, Active, ObjectTypes
<1>4. StartsClean'
  BY <1>0 DEF StartsClean, ObjectTypes, ChildrenMove, Attached, Stopping
<1>5. OwnChild'
  BY <1>0 DEF OwnChild, ChildrenMove, EndOfFile, Stopping
<1>6. StopAsked'
  BY <1>0, <1>a DEF StopAsked, ChildrenMove, ToldStays, Moves
<1>7. Flagged'
  BY <1>0 DEF Flagged, Attached, Stopping, OneActive, Active
<1>8. CancelIsReported'
  BY DEF CancelIsReported
<1>9. Tracked'
  <2>1. ASSUME NEW p \in Runs, os'[p] = "alive"
        PROVE  process' = p \/ (starting' /\ pc'[p] = "starting") \/ Told(p)'
    BY <1>0, <2>1, TrackedTold DEF ChildrenMove, ToldStays, Attached
  <2> QED
    BY <2>1, TrackedNext
<1>10. OwnResult'
  BY DEF OwnResult, ChildrenMove
<1> QED
  BY <1>1, <1>2, <1>3, <1>4, <1>5, <1>6, <1>7, <1>8, <1>9, <1>10

-----------------------------------------------------------------------------
\* The children are left alone, and what they were told.
LEMMA Untouched ==
  ASSUME JobInv, UNCHANGED <<children, signals>>, asked' \subseteq Runs, dropped' \subseteq Runs
  PROVE  ChildrenMove /\ ToldStays
<1>1. ChildTypes /\ SignalTypes /\ \A p \in Runs : known[p] => os[p] = "dead"
  BY DEF JobInv, JobTypes, OwnChild
<1>2. ChildTypes' /\ UNCHANGED <<os, code, known, pipe>>
  BY <1>1 DEF ChildTypes, children
<1>3. ChildrenMove
  BY <1>1, <1>2 DEF ChildrenMove
<1>4. \A p \in Runs : Told(p) => Told(p)'
  BY DEF Told, signals
<1>5. SignalTypes'
  BY <1>1 DEF SignalTypes, signals
<1> QED
  BY <1>3, <1>4, <1>5 DEF ToldStays

(* What a _stop() finds has been told to end. *)
LEMMA BeginStopTells ==
  ASSUME JobInv, NEW t \in Tasks, NEW p \in Runs \union {None}, BeginStop(t, p),
         UNCHANGED children, drained' \subseteq Runs, asked' \subseteq Runs, dropped' \subseteq Runs
  PROVE  ChildrenMove /\ ToldStays /\ (p # None /\ os[p] = "alive" => Told(p)')
<1> USE TaskKinds
<1>1. ChildTypes /\ SignalTypes /\ \A q \in Runs : known[q] => os[q] = "dead"
  BY DEF JobInv, JobTypes, OwnChild
<1>2. ChildTypes' /\ UNCHANGED <<os, code, known, pipe>>
  BY <1>1 DEF ChildTypes, children
<1>3. ChildrenMove
  BY <1>1, <1>2 DEF ChildrenMove
<1>4. SignalTypes'
  BY <1>1 DEF SignalTypes, BeginStop
<1>5. \A q \in Runs : Told(q) => Told(q)'
  BY <1>1 DEF Told, BeginStop, SignalTypes
<1>6. p # None /\ os[p] = "alive" => Told(p)'
  <2> SUFFICES ASSUME p \in Runs, os[p] = "alive" PROVE Told(p)'
    OBVIOUS
  <2>1. ~known[p]
    BY <1>1
  <2>2. <<t, p>> \in timers' /\ sig'[p] \in {"term", "kill"}
    BY <1>1, <2>1 DEF BeginStop, SignalTypes
  <2> QED
    BY <2>2 DEF Told
<1> QED
  BY <1>3, <1>4, <1>5, <1>6 DEF ToldStays

(* A run that has its child goes on reading, or waits for its exit.        *)
LEMMA ReadsStep ==
  ASSUME JobInv, NEW r \in Runs, NEW label \in {"reading", "waiting"}, pc[r] \in {"stopping", "reading"},
         pc[r] = "stopping" => ~Queued(r), label = "waiting" => EndOfFile(r),
         pc' = [pc EXCEPT ![r] = label], target' = [target EXCEPT ![r] = r],
         UNCHANGED <<ready, drain, result, object, signals, history>>, ChildrenMove
  PROVE  JobInv'
<1> USE TaskKinds DEF JobInv, JobTypes
<1>0. /\ r \in Tasks /\ pc \in [Tasks -> {"idle", "over"} \union Active]
      /\ pc' \in [Tasks -> {"idle", "over"} \union Active]
      /\ UNCHANGED <<process, starting, cancelled, cancelRequested, asked, dropped>>
  BY DEF LoopTypes, Active, object, history
<1>a. Moves(r, {}) /\ \A x : Waits(x)' <=> Waits(x)
  BY ReadyKept
<1>b. ToldStays
  BY DEF ToldStays, SignalTypes, signals, history, Told
<1>1. JobTypes'
  BY <1>0, <1>a, <1>b DEF LoopTypes, ObjectTypes, Moves, ToldStays, ChildrenMove
<1>2. Entries'
  <2>1. Waits(<<"stop", r>>) => Queued(r)
    BY DEF Queued, Waits
  <2>2. /\ ~Waits(<<"begin", r>>) /\ ~Waits(<<"attach", r>>) /\ ~Waits(<<"stop", r>>)
        /\ ~Waits(<<"gather", r>>) /\ ~Waits(<<"both", r>>)
    BY <1>0, <2>1 DEF Entries, Stopping
  <2> QED
    BY <1>0, <1>a, <2>2, EntriesNext DEF ChildrenMove
<1>3. OneActive' /\ HasItsChild' /\ ProcessOf'
  BY <1>0 DEF OneActive, HasItsChild, ProcessOf, Attached, Active, ObjectTypes
<1>4. StartsClean'
  BY <1>0 DEF StartsClean, ObjectTypes, ChildrenMove
<1>5. OwnChild'
  BY <1>0 DEF OwnChild, ChildrenMove, EndOfFile, LoopTypes
<1>6. StopAsked'
  BY <1>0, <1>a, <1>b DEF StopAsked, ChildrenMove, ToldStays, Moves, Stopping
<1>7. Flagged'
  BY <1>0 DEF Flagged
<1>8. CancelIsReported'
  BY <1>0 DEF CancelIsReported
<1>9. Tracked'
  <2>1. ASSUME NEW p \in Runs, os'[p] = "alive"
        PROVE  process' = p \/ (starting' /\ pc'[p] = "starting") \/ Told(p)'
    BY <1>0, <1>b, <2>1, TrackedTold DEF ChildrenMove, ToldStays
  <2> QED
    BY <2>1, TrackedNext
<1>10. OwnResult'
  BY DEF OwnResult, ChildrenMove
<1> QED
  BY <1>1, <1>2, <1>3, <1>4, <1>5, <1>6, <1>7, <1>8, <1>9, <1>10

(* The tasks of a shielded _stop_and_drain(), or of a shielded _stop().    *)
LEMMA ShieldedStep ==
  ASSUME JobInv, NEW r \in Runs, NEW come \in {{}, {<<"both", r>>}}, Moves(r, come),
         come # {} => pc[r] \in Stopping,
         UNCHANGED <<pc, target, result, object, children, history>>,
         drain' \in [Runs -> Runs \union {None, Broken}], \A q \in Runs \ {r} : drain'[q] = drain[q],
         pc[r] \in Stopping /\ ~Queued(r)' => (os[r] = "alive" => Told(r)') /\ drain'[r] \in {r, Broken},
         ToldStays
  PROVE  JobInv'
<1> USE TaskKinds DEF JobInv, JobTypes
<1>0. /\ r \in Tasks /\ pc \in [Tasks -> {"idle", "over"} \union Active] /\ pc' = [pc EXCEPT ![r] = pc[r]]
      /\ UNCHANGED <<process, starting, cancelled, cancelRequested, asked, dropped, os, code, known, pipe>>
  BY DEF LoopTypes, object, history, children
<1>a. ChildrenMove
  BY <1>0 DEF ChildrenMove, OwnChild, ChildTypes
<1>1. JobTypes'
  BY <1>0, <1>a DEF LoopTypes, ObjectTypes, Moves, ToldStays, ChildrenMove
<1>2. Entries'
  <2>1. \A x : Waits(x)' => Waits(x) \/ x \in come
    BY DEF Moves
  <2>2. come \subseteq {<<w, r>> : w \in Whats}
    BY DEF Whats
  <2>3. /\ Waits(<<"begin", r>>)' => Waits(<<"begin", r>>)
        /\ Waits(<<"attach", r>>)' => Waits(<<"attach", r>>)
        /\ Waits(<<"gather", r>>)' => Waits(<<"gather", r>>)
        /\ Waits(<<"both", r>>)' => Waits(<<"both", r>>) \/ pc[r] \in Stopping
        /\ Waits(<<"stop", r>>)' => Waits(<<"stop", r>>)
    BY <2>1
  <2> QED
    BY <1>0, <2>2, <2>3, EntriesNext DEF Entries
<1>3. OneActive' /\ HasItsChild' /\ ProcessOf' /\ StartsClean' /\ OwnChild'
  BY <1>0 DEF OneActive, HasItsChild, ProcessOf, StartsClean, OwnChild, EndOfFile
<1>4. StopAsked'
  BY <1>0 DEF StopAsked, ToldStays, Moves
<1>5. Flagged' /\ CancelIsReported' /\ OwnResult'
  BY <1>0 DEF Flagged, CancelIsReported, OwnResult
<1>6. Tracked'
  <2>1. ASSUME NEW p \in Runs, os'[p] = "alive"
        PROVE  process' = p \/ (starting' /\ pc'[p] = "starting") \/ Told(p)'
    BY <1>0, <2>1, TrackedTold DEF ToldStays
  <2> QED
    BY <2>1, TrackedNext
<1> QED
  BY <1>1, <1>2, <1>3, <1>4, <1>5, <1>6

(* A cancel() begins or ends: if it sets the flag, then for the run that   *)
(* is under way, which it names in `asked`.                                *)
LEMMA CancelStep ==
  ASSUME JobInv, NEW c \in Cancels, NEW label \in {"over", "stopping"}, pc[c] \in {"queued", "stopping"},
         pc' = [pc EXCEPT ![c] = label], Moves(c, {}), ~Waits(<<"begin", c>>)',
         UNCHANGED <<target, drain, result, process, starting, children, dropped>>,
         cancelRequested' \in BOOLEAN, NEW found \in SUBSET Runs,
         asked' = asked \union found, cancelled' = (cancelled \/ found # {}),
         \A r \in found : pc[r] \notin {"idle", "queued"} /\ result[r].kind # "returned",
         found # {} => \A r \in Runs :
           pc[r] \in {"starting", "stopping", "reading", "waiting", "rejecting"} => r \in found,
         ToldStays
  PROVE  JobInv'
<1> USE TaskKinds DEF JobInv, JobTypes
<1>0. /\ c \in Tasks /\ pc \in [Tasks -> {"idle", "over"} \union Active]
      /\ pc' \in [Tasks -> {"idle", "over"} \union Active] /\ cancelled \in BOOLEAN
      /\ UNCHANGED <<os, code, known, pipe>>
      /\ \A r \in Runs : pc'[r] = pc[r]
  BY DEF LoopTypes, ObjectTypes, children, Active
<1>a. ChildrenMove
  BY <1>0 DEF ChildrenMove, OwnChild, ChildTypes
<1>1. JobTypes'
  <2>1. LoopTypes'
    BY <1>0 DEF LoopTypes, Moves
  <2>2. ObjectTypes'
    BY <1>0 DEF ObjectTypes
  <2> QED
    BY <1>a, <2>1, <2>2 DEF ToldStays, ChildrenMove
<1>2. Entries'
  <2>1. \A x : Waits(x)' => Waits(x)
    BY DEF Moves
  <2>2. ~Waits(<<"attach", c>>) /\ ~Waits(<<"gather", c>>) /\ ~Waits(<<"both", c>>)
    BY <1>0 DEF Entries, Stopping
  <2> QED
    BY <1>0, <2>1, <2>2, EntriesNext
<1>3. OneActive' /\ HasItsChild' /\ ProcessOf' /\ StartsClean' /\ OwnChild'
  BY <1>0 DEF OneActive, HasItsChild, ProcessOf, StartsClean, OwnChild, EndOfFile, ObjectTypes
<1>4. StopAsked'
  BY <1>0 DEF StopAsked, ToldStays, Moves
<1>5. Flagged'
  BY <1>0 DEF Flagged
<1>6. CancelIsReported' /\ OwnResult'
  BY <1>0 DEF CancelIsReported, OwnResult
<1>7. Tracked'
  <2>1. ASSUME NEW p \in Runs, os'[p] = "alive"
        PROVE  process' = p \/ (starting' /\ pc'[p] = "starting") \/ Told(p)'
    BY <1>0, <2>1, TrackedTold DEF ToldStays
  <2> QED
    BY <2>1, TrackedNext
<1> QED
  BY <1>1, <1>2, <1>3, <1>4, <1>5, <1>6, <1>7

-----------------------------------------------------------------------------
(* The caller makes a task: of a run only if there is none. *)
LEMMA EnqueueStep ==
  ASSUME JobInv, NEW t \in Tasks, Enqueue(t), t \in Runs => \A q \in Runs : pc[q] \notin Active
  PROVE  JobInv'
<1> USE TaskKinds DEF JobInv, JobTypes
<1>0. /\ pc' = [pc EXCEPT ![t] = "queued"] /\ pc[t] = "idle"
      /\ pc \in [Tasks -> {"idle", "over"} \union Active] /\ pc' \in [Tasks -> {"idle", "over"} \union Active]
      /\ UNCHANGED <<target, drain, result, process, starting, cancelled, cancelRequested, asked, dropped>>
      /\ UNCHANGED <<os, code, known, pipe>>
  BY DEF Enqueue, LoopTypes, Active, object, history, children
<1>a. Moves(t, {<<"begin", t>>})
  <2>1. ~Waits(<<"begin", t>>)
    BY <1>0 DEF Entries
  <2> QED
    BY <2>1, ReadyAppends DEF Enqueue, Whats
<1>b. ChildrenMove /\ ToldStays
  BY <1>0, Untouched DEF Enqueue, SignalTypes
<1>1. JobTypes'
  BY <1>0, <1>a, <1>b DEF LoopTypes, ObjectTypes, Moves, ToldStays, ChildrenMove
<1>2. Entries'
  <2>1. \A x : Waits(x)' => Waits(x) \/ x = <<"begin", t>>
    BY <1>a DEF Moves
  <2>2. /\ ~Waits(<<"attach", t>>) /\ ~Waits(<<"stop", t>>)
        /\ ~Waits(<<"gather", t>>) /\ ~Waits(<<"both", t>>)
    BY <1>0 DEF Entries, Stopping
  <2>3. /\ ~Waits(<<"attach", t>>)' /\ ~Waits(<<"stop", t>>)'
        /\ ~Waits(<<"gather", t>>)' /\ ~Waits(<<"both", t>>)'
    BY <2>1, <2>2
  <2>4. {<<"begin", t>>} \subseteq {<<w, t>> : w \in Whats}
    BY DEF Whats
  <2> QED
    BY <1>0, <1>a, <2>3, <2>4, EntriesNext
<1>3. OneActive' /\ HasItsChild' /\ ProcessOf' /\ StartsClean' /\ OwnChild'
  BY <1>0 DEF OneActive, HasItsChild, ProcessOf, StartsClean, OwnChild, EndOfFile, Attached, ObjectTypes
<1>4. StopAsked'
  BY <1>0, <1>a, <1>b DEF StopAsked, ToldStays, Moves, Stopping
<1>5. Flagged' /\ CancelIsReported' /\ OwnResult'
  BY <1>0 DEF Flagged, CancelIsReported, OwnResult
<1>6. Tracked'
  <2>1. ASSUME NEW p \in Runs, os'[p] = "alive"
        PROVE  process' = p \/ (starting' /\ pc'[p] = "starting") \/ Told(p)'
    BY <1>0, <1>b, <2>1, TrackedTold DEF ToldStays
  <2> QED
    BY <2>1, TrackedNext
<1> QED
  BY <1>1, <1>2, <1>3, <1>4, <1>5, <1>6

\* The types of results.
LEMMA Results ==
  ASSUME JobInv
  PROVE  /\ \A kind \in Kinds : Raised(kind) \in [kind : Kinds, code : Statuses, cancelled : BOOLEAN]
         /\ \A kind : Raised(kind).kind = kind
         /\ \A p \in Runs : /\ Returned(p) \in [kind : Kinds \ {"none"}, code : Statuses, cancelled : BOOLEAN]
                            /\ Returned(p).kind = "returned"
  BY DEF Raised, Returned, Kinds, Statuses, JobInv, JobTypes, ChildTypes, ObjectTypes

LEMMA RaisedTyped ==
  ASSUME NEW kind \in Kinds \ {"none"}
  PROVE  Raised(kind) \in [kind : Kinds \ {"none"}, code : Statuses, cancelled : BOOLEAN] /\ Raised(kind).kind = kind
  BY DEF Raised, Kinds, Statuses

(* A run begins, or is refused. *)
LEMMA BeginRunStep == ASSUME JobInv, NEW r \in Runs, BeginRun(r) PROVE JobInv'
<1> USE TaskKinds DEF JobInv, JobTypes
<1>0. UNCHANGED <<target, drain, os, code, known, pipe, signals, asked, dropped>> /\ UNCHANGED <<children, history>>
  BY DEF BeginRun, children, history
<1>a. Moves(r, {}) /\ ~Waits(<<"begin", r>>)' /\ Waits(<<"begin", r>>)
  BY ReadyTurns DEF BeginRun, Whats
<1>b. pc[r] = "queued" /\ r \in Tasks /\ DOMAIN pc = Tasks
  BY <1>a DEF Entries, LoopTypes
<1>c. ChildrenMove /\ ToldStays
  BY <1>0, Untouched DEF SignalTypes
<1>1. CASE Finish(r, Raised("refused")) /\ UNCHANGED object
  <2>1. /\ Raised("refused") \in [kind : Kinds \ {"none"}, code : Statuses, cancelled : BOOLEAN]
        /\ Raised("refused").kind = "refused"
    BY RaisedTyped DEF Kinds
  <2> QED
    BY <1>0, <1>a, <1>b, <1>c, <1>1, <2>1, EndsStep DEF object, Active, Attached, Stopping
<1>2. CASE /\ ~Running /\ pc' = [pc EXCEPT ![r] = "starting"]
           /\ starting' = TRUE /\ cancelled' = FALSE /\ cancelRequested' = FALSE /\ UNCHANGED <<process, result>>
  <2>0. pc' \in [Tasks -> {"idle", "over"} \union Active]
    BY <1>2 DEF LoopTypes, Active
  <2>1. JobTypes'
    BY <1>0, <1>2, <1>a, <1>c, <2>0 DEF LoopTypes, ObjectTypes, Moves, ToldStays, ChildrenMove
  <2>2. Entries'
    <3>1. \A x : Waits(x)' => Waits(x)
      BY <1>a DEF Moves
    <3>2. /\ ~Waits(<<"attach", r>>) /\ ~Waits(<<"stop", r>>)
          /\ ~Waits(<<"gather", r>>) /\ ~Waits(<<"both", r>>)
      BY <1>b DEF Entries, Stopping
    <3> QED
      BY <1>0, <1>2, <1>a, <1>b, <3>1, <3>2, EntriesNext
  <2>3. OneActive' /\ HasItsChild' /\ ProcessOf'
    BY <1>b, <1>2 DEF OneActive, HasItsChild, ProcessOf, Attached, Active, ObjectTypes
  <2>4. StartsClean'
    BY <1>0, <1>b, <1>2 DEF StartsClean, Running
  <2>5. OwnChild'
    BY <1>0, <1>b, <1>2 DEF OwnChild, EndOfFile
  <2>6. StopAsked'
    BY <1>0, <1>2, <1>a, <1>b, <1>c DEF StopAsked, ToldStays, Moves, Stopping
  <2>7. Flagged' /\ CancelIsReported' /\ OwnResult'
    BY <1>0, <1>2, <1>b DEF Flagged, CancelIsReported, OwnResult, OneActive, Active
  <2>8. Tracked'
    <3>1. ASSUME NEW p \in Runs, os'[p] = "alive"
          PROVE  process' = p \/ (starting' /\ pc'[p] = "starting") \/ Told(p)'
      BY <1>0, <1>2, <1>b, <1>c, <3>1, TrackedTold DEF ToldStays, Running
    <3> QED
      BY <3>1, TrackedNext
  <2> QED
    BY <2>1, <2>2, <2>3, <2>4, <2>5, <2>6, <2>7, <2>8
<1> QED
  BY <1>1, <1>2 DEF BeginRun

(* The child of a run comes to life. *)
LEMMA LaunchStep == ASSUME JobInv, NEW r \in Runs, Launch(r) PROVE JobInv'
<1> USE TaskKinds DEF JobInv, JobTypes
<1>0. /\ UNCHANGED <<pc, target, drain, result, process, starting, cancelled, cancelRequested, code, known, pipe>>
      /\ UNCHANGED <<signals, asked, dropped>>
      /\ pc[r] = "starting" /\ os[r] = "none" /\ os' = [os EXCEPT ![r] = "alive"] /\ starting
      /\ os \in [Runs -> {"none", "alive", "dead"}] /\ r \in Tasks /\ pc' = [pc EXCEPT ![r] = "starting"]
      /\ DOMAIN pc = Tasks
  BY DEF Launch, object, history, StartsClean, ChildTypes, LoopTypes
<1>a. Moves(r, {<<"attach", r>>})
  <2>1. ~Waits(<<"attach", r>>)
    BY <1>0 DEF Entries
  <2> QED
    BY <2>1, ReadyAppends DEF Launch, Whats
<1>1. JobTypes'
  <2>1. LoopTypes' /\ ObjectTypes'
    BY <1>0, <1>a DEF LoopTypes, ObjectTypes, Moves
  <2>2. ChildTypes' /\ SignalTypes'
    BY <1>0 DEF ChildTypes, SignalTypes, signals
  <2> QED
    BY <2>1, <2>2
<1>2. Entries'
  <2>1. \A x : Waits(x)' => Waits(x) \/ x = <<"attach", r>>
    BY <1>a DEF Moves
  <2>2. /\ ~Waits(<<"begin", r>>) /\ ~Waits(<<"stop", r>>)
        /\ ~Waits(<<"gather", r>>) /\ ~Waits(<<"both", r>>)
    BY <1>0 DEF Entries, Stopping
  <2>3. /\ ~Waits(<<"begin", r>>)' /\ ~Waits(<<"stop", r>>)'
        /\ ~Waits(<<"gather", r>>)' /\ ~Waits(<<"both", r>>)'
    BY <2>1, <2>2
  <2>4. {<<"attach", r>>} \subseteq {<<w, r>> : w \in Whats} /\ os'[r] # "none"
        /\ \A p \in Runs : os[p] # "none" => os'[p] # "none"
    BY <1>0 DEF Whats
  <2> QED
    BY <1>0, <1>a, <2>3, <2>4, EntriesNext
<1>3. OneActive' /\ HasItsChild' /\ ProcessOf' /\ StartsClean'
  BY <1>0 DEF OneActive, HasItsChild, ProcessOf, StartsClean
<1>4. OwnChild'
  BY <1>0 DEF OwnChild, EndOfFile
<1>5. StopAsked'
  <2>1. \A p \in Runs : Told(p)' <=> Told(p)
    BY <1>0 DEF Told, signals
  <2> QED
    BY <1>0, <1>a, <2>1 DEF StopAsked, Moves, Stopping
<1>6. Flagged' /\ CancelIsReported'
  BY <1>0 DEF Flagged, CancelIsReported
<1>7. Tracked'
  <2>1. ASSUME NEW p \in Runs, os'[p] = "alive"
        PROVE  process' = p \/ (starting' /\ pc'[p] = "starting") \/ Told(p)'
    <3>1. Told(p)' <=> Told(p)
      BY <1>0 DEF Told, signals
    <3> QED
      BY <1>0, <2>1, <3>1, TrackedTold
  <2> QED
    BY <2>1, TrackedNext
<1>8. OwnResult'
  BY <1>0 DEF OwnResult
<1> QED
  BY <1>1, <1>2, <1>3, <1>4, <1>5, <1>6, <1>7, <1>8

(* A run gets its child, to read from or to stop at once. *)
LEMMA AttachStep == ASSUME JobInv, NEW r \in Runs, Attach(r) PROVE JobInv'
<1> USE TaskKinds DEF JobInv, JobTypes
<1>0. /\ UNCHANGED <<drain, result, cancelled, cancelRequested, os, code, known, pipe, signals, asked, dropped>>
      /\ UNCHANGED <<children, history>>
      /\ pc[r] = "starting" /\ process' = r /\ starting' = FALSE /\ r \in Tasks
  BY DEF Attach, children, history
<1>1. PICK label \in {"stopping", "reading"} :
        /\ pc' = [pc EXCEPT ![r] = label]
        /\ target' = IF label = "reading" THEN [target EXCEPT ![r] = r] ELSE target
        /\ ready' = IF label = "reading" THEN Tail(ready) ELSE Append(Tail(ready), <<"stop", r>>)
  BY DEF Attach
<1>2. PICK come \in {{}, {<<"stop", r>>}} :
        /\ come # {} => label = "stopping"
        /\ Moves(r, come) /\ ~Waits(<<"attach", r>>)'
  <2>1. CASE label = "reading"
    BY <1>1, <2>1, ReadyTurns DEF Attach, Turn, Whats
  <2>2. CASE label = "stopping"
    BY <1>1, <2>2, ReadyPasses DEF Attach, Whats
  <2> QED
    BY <2>1, <2>2
<1>c. ChildrenMove /\ ToldStays
  BY <1>0, Untouched DEF SignalTypes
<1>d. pc \in [Tasks -> {"idle", "over"} \union Active] /\ pc' \in [Tasks -> {"idle", "over"} \union Active]
  BY <1>0, <1>1 DEF LoopTypes, Active
<1>3. JobTypes'
  <2>1. LoopTypes'
    BY <1>0, <1>1, <1>2, <1>d DEF LoopTypes, Moves
  <2>2. ObjectTypes'
    BY <1>0 DEF ObjectTypes
  <2> QED
    BY <1>c, <2>1, <2>2 DEF ToldStays, ChildrenMove
<1>4. Entries'
  <2>1. \A x : Waits(x)' => Waits(x) \/ x \in come
    BY <1>2 DEF Moves
  <2>2. /\ ~Waits(<<"begin", r>>) /\ ~Waits(<<"stop", r>>)
        /\ ~Waits(<<"gather", r>>) /\ ~Waits(<<"both", r>>)
    BY <1>0 DEF Entries, Stopping
  <2>3. /\ ~Waits(<<"begin", r>>)' /\ (Waits(<<"stop", r>>)' => come # {})
        /\ ~Waits(<<"gather", r>>)' /\ ~Waits(<<"both", r>>)'
    BY <2>1, <2>2
  <2>4. come \subseteq {<<w, r>> : w \in Whats}
    BY DEF Whats
  <2> QED
    BY <1>0, <1>1, <1>2, <2>3, <2>4, EntriesNext
<1>5. OneActive' /\ HasItsChild' /\ ProcessOf'
  BY <1>0, <1>1, <1>d DEF OneActive, HasItsChild, ProcessOf, Attached, Active, ObjectTypes
<1>6. StartsClean'
  BY <1>0, <1>1, <1>d DEF StartsClean, OneActive, Active
<1>7. OwnChild'
  BY <1>0, <1>1, <1>d DEF OwnChild, EndOfFile, LoopTypes
<1>8. StopAsked'
  BY <1>0, <1>1, <1>2, <1>c, <1>d DEF StopAsked, ToldStays, Moves, Stopping
<1>9. Flagged' /\ CancelIsReported' /\ OwnResult'
  BY <1>0, <1>1, <1>d DEF Flagged, CancelIsReported, OwnResult
<1>10. Tracked'
  <2>1. ASSUME NEW p \in Runs, os'[p] = "alive"
        PROVE  process' = p \/ (starting' /\ pc'[p] = "starting") \/ Told(p)'
    <3>1. os[p] = "alive" /\ (Told(p) => Told(p)')
      BY <1>0, <1>c, <2>1 DEF ToldStays
    <3>2. process # p
      BY <1>0, <3>1 DEF StartsClean, OwnChild
    <3>3. pc[p] = "starting" => p = r
      BY <1>0 DEF OneActive, Active
    <3> QED
      BY <1>0, <3>1, <3>2, <3>3, TrackedTold
  <2> QED
    BY <2>1, TrackedNext
<1> QED
  BY <1>3, <1>4, <1>5, <1>6, <1>7, <1>8, <1>9, <1>10


(* The child does not start. *)
LEMMA LaunchFailsStep == ASSUME JobInv, NEW r \in Runs, LaunchFails(r) PROVE JobInv'
<1>1. /\ UNCHANGED <<children, signals, asked, dropped>> /\ UNCHANGED <<os, ready>>
      /\ UNCHANGED <<target, drain, process, cancelled, cancelRequested>>
      /\ pc[r] = "starting" /\ os[r] = "none" /\ starting' = FALSE /\ Finish(r, Raised("oserror"))
  BY DEF LaunchFails, children, history
<1>2. ChildrenMove /\ ToldStays
  BY <1>1, Untouched DEF JobInv, JobTypes, SignalTypes
<1>3. Moves(r, {}) /\ ~Waits(<<"attach", r>>)'
  BY <1>1, ReadyKept, TaskKinds DEF JobInv, Entries
<1>4. /\ Raised("oserror") \in [kind : Kinds \ {"none"}, code : Statuses, cancelled : BOOLEAN]
      /\ Raised("oserror").kind = "oserror"
  BY RaisedTyped DEF Kinds
<1> QED
  BY <1>1, <1>2, <1>3, <1>4, EndsStep DEF Active, Attached, Stopping

(* A run goes to its next readline(), or that one raises. *)
LEMMA ReadlineStep ==
  ASSUME JobInv, NEW r \in Runs, pc[r] \in {"stopping", "reading"}, pc[r] = "stopping" => ~Queued(r),
         Readline(r), UNCHANGED <<drain, result, object, signals, history>>, ChildrenMove
  PROVE  JobInv'
<1>1. process = r
  BY DEF JobInv, HasItsChild, Attached
<1>2. CASE pc' = [pc EXCEPT ![r] = "reading"] /\ target' = [target EXCEPT ![r] = process] /\ UNCHANGED ready
  BY <1>1, <1>2, ReadsStep
<1>3. CASE StopAndDrain(r, "cleanup") /\ UNCHANGED target
  <2>1. ToldStays /\ cancelled' \in BOOLEAN
    BY DEF JobInv, JobTypes, SignalTypes, ObjectTypes, ToldStays, Told, signals, history, object
  <2> QED
    BY <1>3, <2>1, StopsStep DEF Attached, Stopping, object, history
<1> QED
  BY <1>2, <1>3 DEF Readline

LEMMA AfterStopStep == ASSUME JobInv, NEW r \in Runs, AfterStop(r) PROVE JobInv'
<1>1. process = r /\ r # None
  BY TaskKinds DEF JobInv, HasItsChild, Attached, AfterStop
<1>2. Readline(r) /\ UNCHANGED <<drain, result, object, children, signals, history>>
  BY <1>1 DEF AfterStop
<1>3. ChildrenMove
  BY <1>2, Untouched DEF JobInv, JobTypes, SignalTypes, history
<1> QED
  BY <1>2, <1>3, ReadlineStep DEF AfterStop

(* A line is taken from the pipe. *)
LEMMA LineTaken ==
  ASSUME JobInv, NEW r \in Runs, pc[r] = "reading", pipe[target[r]] > 0,
         pipe' = [pipe EXCEPT ![target[r]] = @ - 1], UNCHANGED <<os, code, known, signals, history>>
  PROVE  ChildrenMove /\ ToldStays
<1>1. target[r] = r
  BY DEF JobInv, OwnChild
<1>2. ChildTypes /\ SignalTypes
  BY DEF JobInv, JobTypes
<1>3. pipe' \in [Runs -> Nat] /\ \A p \in Runs : pipe[p] = 0 => pipe'[p] = 0
  BY <1>1, <1>2 DEF ChildTypes
<1>4. ChildTypes'
  BY <1>2, <1>3 DEF ChildTypes
<1>5. ChildrenMove
  BY <1>3, <1>4 DEF ChildrenMove, JobInv, OwnChild
<1>6. ToldStays
  BY <1>2 DEF ToldStays, SignalTypes, signals, history, Told
<1> QED
  BY <1>5, <1>6

LEMMA ReadLineStep == ASSUME JobInv, NEW r \in Runs, ReadLine(r) PROVE JobInv'
<1>1. /\ pc[r] = "reading" /\ UNCHANGED <<drain, result, object, signals, history>>
      /\ ChildrenMove /\ ToldStays
  BY LineTaken DEF ReadLine
<1>2. CASE Readline(r)
  BY <1>1, <1>2, ReadlineStep
<1>3. CASE StopAndDrain(r, "rejecting") /\ UNCHANGED target
  <2>1. cancelled' \in BOOLEAN /\ cancelled' = cancelled
    BY <1>1 DEF JobInv, JobTypes, ObjectTypes, object
  <2> QED
    BY <1>1, <1>3, <2>1, StopsStep DEF Attached, Stopping, object, history
<1> QED
  BY <1>2, <1>3 DEF ReadLine

LEMMA CallbackFailsStep == ASSUME JobInv, NEW r \in Runs, CallbackFails(r) PROVE JobInv'
<1>1. /\ pc[r] = "reading" /\ UNCHANGED <<target, drain, result, object, signals, history>>
      /\ ChildrenMove /\ ToldStays /\ StopAndDrain(r, "cleanup")
  BY LineTaken DEF CallbackFails
<1>2. cancelled' \in BOOLEAN
  BY <1>1 DEF JobInv, JobTypes, ObjectTypes, object
<1> QED
  BY <1>1, <1>2, StopsStep DEF Attached, Stopping, object, history

LEMMA ReadEndStep == ASSUME JobInv, NEW r \in Runs, ReadEnd(r) PROVE JobInv'
<1>1. process = r /\ r # None /\ target[r] = r
  BY TaskKinds DEF JobInv, HasItsChild, OwnChild, Attached, ReadEnd
<1>2. /\ pc[r] = "reading" /\ EndOfFile(r) /\ pc' = [pc EXCEPT ![r] = "waiting"]
      /\ target' = [target EXCEPT ![r] = r]
      /\ UNCHANGED <<ready, drain, result, object, children, signals, history>>
  BY <1>1 DEF ReadEnd
<1>3. ChildrenMove
  BY <1>2, Untouched DEF JobInv, JobTypes, SignalTypes, history
<1> QED
  BY <1>2, <1>3, ReadsStep

LEMMA ExitedStep == ASSUME JobInv, NEW r \in Runs, Exited(r) PROVE JobInv'
<1>1. /\ pc[r] = "waiting" /\ target[r] = r /\ EndOfFile(r)
      /\ Finish(r, Returned(r)) /\ process' = None /\ ready' = ready
      /\ UNCHANGED <<target, drain, starting, cancelled, cancelRequested, children, signals, asked, dropped>>
  BY DEF Exited, JobInv, OwnChild, history
<1>2. ChildrenMove /\ ToldStays
  BY <1>1, Untouched DEF JobInv, JobTypes, SignalTypes
<1>3. Moves(r, {})
  BY <1>1, ReadyKept
<1>4. Returned(r) \in [kind : Kinds \ {"none"}, code : Statuses, cancelled : BOOLEAN]
  BY Results
<1>5. os[r] = "dead"
  BY <1>1 DEF EndOfFile
<1> QED
  BY <1>1, <1>2, <1>3, <1>4, <1>5, EndsStep DEF Active, Attached, Stopping

LEMMA RejectDoneStep == ASSUME JobInv, NEW r \in Runs, RejectDone(r) PROVE JobInv'
<1>1. /\ pc[r] = "rejecting" /\ ~Queued(r) /\ Settled(r) /\ process = r
      /\ UNCHANGED <<target, drain, starting, cancelled, cancelRequested, children, signals, asked, dropped>>
  BY DEF RejectDone, Settled, JobInv, HasItsChild, Attached, history
<1>2. ChildrenMove /\ ToldStays /\ cancelled' \in BOOLEAN
  BY <1>1, Untouched DEF JobInv, JobTypes, SignalTypes, ObjectTypes
<1>3. CASE drain[r] # Broken /\ RejectAsserts /\ Finish(r, Returned(process)) /\ process' = None /\ ready' = ready
  <2>1. drain[r] = r
    BY <1>1, <1>3 DEF JobInv, StopAsked, Stopping
  <2>2. EndOfFile(r)
    BY <1>1, <1>3, <2>1 DEF Settled
  <2>3. Moves(r, {})
    BY <1>3, ReadyKept
  <2>4. Returned(r) \in [kind : Kinds \ {"none"}, code : Statuses, cancelled : BOOLEAN]
    BY Results
  <2>5. os[r] = "dead"
    BY <2>2 DEF EndOfFile
  <2> QED
    BY <1>1, <1>2, <1>3, <2>2, <2>3, <2>4, <2>5, EndsStep DEF Active, Attached, Stopping
<1>4. CASE StopAndDrain(r, "cleanup") /\ UNCHANGED <<result, process>>
  BY <1>1, <1>2, <1>4, StopsStep DEF Attached, Stopping
<1> QED
  BY <1>3, <1>4 DEF RejectDone

LEMMA CleanupDoneStep == ASSUME JobInv, NEW r \in Runs, CleanupDone(r) PROVE JobInv'
<1>1. /\ pc[r] = "cleanup" /\ ~Queued(r) /\ ready' = ready
      /\ Finish(r, Raised("error")) /\ process' = None
      /\ UNCHANGED <<target, drain, starting, cancelled, cancelRequested, children, signals, asked, dropped>>
  BY DEF CleanupDone, Settled, history
<1>2. ChildrenMove /\ ToldStays
  BY <1>1, Untouched DEF JobInv, JobTypes, SignalTypes
<1>3. Moves(r, {})
  BY <1>1, ReadyKept
<1>4. os[r] = "alive" => Told(r)
  BY <1>1 DEF JobInv, StopAsked, Stopping
<1>5. /\ Raised("error") \in [kind : Kinds \ {"none"}, code : Statuses, cancelled : BOOLEAN]
      /\ Raised("error").kind = "error"
  BY RaisedTyped DEF Kinds
<1> QED
  BY <1>1, <1>2, <1>3, <1>4, <1>5, EndsStep DEF Active, Attached, Stopping

-----------------------------------------------------------------------------
LEMMA GatherStep == ASSUME JobInv, NEW t \in Runs, Gather(t) PROVE JobInv'
<1>1. /\ ready # <<>> /\ Head(ready) = <<"gather", t>> /\ ready' = Append(Tail(ready), <<"both", t>>)
      /\ UNCHANGED <<pc, target, drain, result, object, children, signals, history>>
  BY DEF Gather
<1>2. Waits(<<"gather", t>>) /\ Moves(t, {<<"both", t>>})
  BY <1>1, TaskKinds, ReadyPasses DEF Whats
<1>3. pc[t] \in Stopping
  BY <1>2, TaskKinds DEF JobInv, Entries
<1>4. Queued(t)'
  BY <1>2 DEF Moves
<1>5. ToldStays
  BY <1>1, Untouched DEF JobInv, JobTypes, SignalTypes, history
<1>6. drain' \in [Runs -> Runs \union {None, Broken}]
  BY <1>1 DEF JobInv, JobTypes, LoopTypes
<1>7. {<<"both", t>>} \in {{}, {<<"both", t>>}}
  OBVIOUS
<1> QED
  BY <1>1, <1>2, <1>3, <1>4, <1>5, <1>6, <1>7, ShieldedStep

LEMMA ShieldedStopStep == ASSUME JobInv, NEW r \in Runs, ShieldedStop(r) PROVE JobInv'
<1>1. /\ Turn("stop", r) /\ BeginStop(r, process) /\ r \in Tasks /\ process \in Runs \union {None}
      /\ UNCHANGED <<pc, target, drain, result, object, children, drained, history>>
      /\ UNCHANGED <<asked, dropped>>
  BY TaskKinds DEF ShieldedStop, JobInv, JobTypes, ObjectTypes, history
<1>2. Waits(<<"stop", r>>) /\ Moves(r, {})
  BY <1>1, ReadyTurns DEF Whats
<1>3. pc[r] \notin Stopping
  BY <1>1, <1>2 DEF JobInv, Entries, Stopping
<1>4. /\ drained' \subseteq Runs /\ asked' \subseteq Runs /\ dropped' \subseteq Runs
      /\ drain' \in [Runs -> Runs \union {None, Broken}]
  BY <1>1 DEF JobInv, JobTypes, LoopTypes, SignalTypes
<1>5. ToldStays
  BY <1>1, <1>4, BeginStopTells
<1> QED
  BY <1>1, <1>2, <1>3, <1>4, <1>5, ShieldedStep

LEMMA ShieldedBothStep == ASSUME JobInv, NEW r \in Runs, ShieldedBoth(r) PROVE JobInv'
<1>1. /\ Turn("both", r) /\ BeginStop(r, process) /\ r \in Tasks
      /\ UNCHANGED <<pc, target, result, object, children, history>> /\ UNCHANGED <<asked, dropped>>
      /\ asked' \subseteq Runs /\ dropped' \subseteq Runs
      /\ drained \subseteq Runs /\ drain \in [Runs -> Runs \union {None, Broken}]
  BY TaskKinds DEF ShieldedBoth, history, JobInv, JobTypes, LoopTypes, SignalTypes
<1>2. Waits(<<"both", r>>) /\ Moves(r, {})
  BY <1>1, ReadyTurns DEF Whats
<1>3. pc[r] \in Stopping
  BY <1>1, <1>2 DEF JobInv, Entries
<1>4. process = r /\ r # None
  BY <1>3, TaskKinds DEF JobInv, HasItsChild, Attached, Stopping
<1>5. /\ drained' \subseteq Runs /\ drain' \in [Runs -> Runs \union {None, Broken}]
      /\ drain'[r] \in {r, Broken} /\ \A q \in Runs \ {r} : drain'[q] = drain[q]
  BY <1>1, <1>4 DEF ShieldedBoth
<1>6. ToldStays /\ (os[r] = "alive" => Told(r)')
  BY <1>1, <1>4, <1>5, BeginStopTells
<1> QED
  BY <1>1, <1>2, <1>5, <1>6, ShieldedStep

-----------------------------------------------------------------------------
(* The task of a run is cancelled, at any of its awaits but the first two  *)
(* turns of a shielded _stop_and_drain().                                  *)
LEMMA CancelTaskStep ==
  ASSUME JobInv, NEW r \in Runs, CancelTask(r), ~(pc[r] = "cleanup" /\ Queued(r)) PROVE JobInv'
<1>0. /\ UNCHANGED <<target, drain, pipe, signals, asked>> /\ dropped' \subseteq Runs /\ asked' \subseteq Runs
      /\ ChildTypes /\ SignalTypes /\ ready \in Seq(Whats \X Tasks) /\ r \in Tasks
      /\ \A p \in Runs : known[p] => os[p] = "dead"
  BY TaskKinds DEF CancelTask, JobInv, JobTypes, SignalTypes, LoopTypes, OwnChild
<1>1. ToldStays
  BY <1>0 DEF ToldStays, SignalTypes, signals, Told
<1>2. ASSUME UNCHANGED <<os, code, known>> PROVE ChildrenMove
  BY <1>0, <1>2 DEF ChildrenMove, ChildTypes
<1>3. /\ Raised("dropped") \in [kind : Kinds \ {"none"}, code : Statuses, cancelled : BOOLEAN]
      /\ Raised("dropped").kind = "dropped"
  BY RaisedTyped DEF Kinds
<1>4. CASE /\ pc[r] = "queued" /\ Finish(r, Raised("dropped")) /\ Without(<<"begin", r>>)
           /\ UNCHANGED <<object, os, code, known>>
  <2>1. Moves(r, {}) /\ ~Waits(<<"begin", r>>)'
    BY <1>0, <1>4, ReadyWithout DEF Whats
  <2> QED
    BY <1>0, <1>1, <1>2, <1>3, <1>4, <2>1, EndsStep DEF Active, Attached, Stopping, object
<1>5. CASE /\ pc[r] = "starting" /\ Finish(r, Raised("dropped")) /\ starting' = FALSE
           /\ IF os[r] = "none" THEN UNCHANGED ready ELSE Without(<<"attach", r>>)
           /\ os' = [os EXCEPT ![r] = IF @ = "alive" THEN "dead" ELSE @]
           /\ code' = [code EXCEPT ![r] = IF os[r] = "alive" THEN "nonzero" ELSE @]
           /\ known' = [known EXCEPT ![r] = os[r] # "none"]
           /\ UNCHANGED <<process, cancelled, cancelRequested>>
  <2>1. Moves(r, {}) /\ ~Waits(<<"attach", r>>)'
    <3>1. CASE os[r] = "none"
      BY <1>0, <1>5, <3>1, ReadyKept DEF JobInv, Entries
    <3>2. CASE os[r] # "none"
      BY <1>0, <1>5, <3>2, ReadyWithout DEF Whats
    <3> QED
      BY <3>1, <3>2
  <2>2. ChildTypes'
    BY <1>0, <1>5 DEF ChildTypes, Statuses
  <2>3. ChildrenMove /\ os'[r] # "alive"
    BY <1>0, <1>5, <2>2 DEF ChildrenMove, ChildTypes
  <2> QED
    BY <1>0, <1>1, <1>3, <1>5, <2>1, <2>3, EndsStep DEF Active, Attached, Stopping
<1>6. CASE pc[r] = "stopping" /\ Finish(r, Raised("dropped")) /\ UNCHANGED <<ready, object, os, code, known>>
  <2>1. Moves(r, {})
    BY <1>6, ReadyKept
  <2> QED
    BY <1>0, <1>1, <1>2, <1>3, <1>6, <2>1, EndsStep DEF Active, Attached, Stopping, object
<1>7. CASE /\ pc[r] \in {"reading", "waiting", "rejecting"} /\ Interrupted(r)
           /\ UNCHANGED <<starting, cancelRequested, os, code, known>>
  BY <1>0, <1>1, <1>2, <1>7, StopsStep DEF Interrupted, Attached, Stopping
<1>8. CASE /\ pc[r] = "cleanup" /\ Finish(r, Raised("dropped")) /\ process' = None
           /\ UNCHANGED <<ready, starting, cancelled, cancelRequested, os, code, known>>
  <2>1. Moves(r, {}) /\ ready' = ready
    BY <1>8, ReadyKept
  <2>2. ~Queued(r) /\ (os[r] = "alive" => Told(r))
    BY <1>8 DEF JobInv, StopAsked, Stopping
  <2> QED
    BY <1>0, <1>1, <1>2, <1>3, <1>8, <2>1, <2>2, EndsStep DEF Active, Attached, Stopping
<1> QED
  BY <1>4, <1>5, <1>6, <1>7, <1>8 DEF CancelTask

-----------------------------------------------------------------------------
LEMMA BeginCancelStep == ASSUME JobInv, NEW c \in Cancels, BeginCancel(c) PROVE JobInv'
<1>0. /\ Turn("begin", c) /\ c \in Tasks /\ UNCHANGED <<target, drain, result, process, starting, children, dropped>>
  BY TaskKinds DEF BeginCancel
<1>1. Moves(c, {}) /\ ~Waits(<<"begin", c>>)' /\ pc[c] = "queued"
  <2>1. Moves(c, {}) /\ ~Waits(<<"begin", c>>)' /\ Waits(<<"begin", c>>)
    BY <1>0, ReadyTurns DEF Whats
  <2> QED
    BY <1>0, <2>1 DEF JobInv, Entries
<1>2. ObjectTypes /\ SignalTypes /\ pc \in [Tasks -> {"idle", "over"} \union Active]
  BY DEF JobInv, JobTypes, LoopTypes
<1>3. CASE /\ starting /\ cancelled' = TRUE /\ cancelRequested' = TRUE
           /\ asked' = asked \union {r \in Runs : pc[r] = "starting"}
           /\ pc' = [pc EXCEPT ![c] = "over"] /\ UNCHANGED signals
  <2> DEFINE found == {r \in Runs : pc[r] = "starting"}
  <2>1. found \in SUBSET Runs /\ found # {}
    BY <1>3 DEF JobInv, StartsClean
  <2>2. \A r \in found : pc[r] \notin {"idle", "queued"} /\ result[r].kind # "returned"
    BY DEF JobInv, Flagged
  <2>3. \A r \in Runs : pc[r] \in {"starting", "stopping", "reading", "waiting", "rejecting"} => r \in found
    BY <2>1 DEF JobInv, OneActive, Active
  <2>4. ToldStays
    BY <1>0, <1>2, <1>3, Untouched DEF SignalTypes
  <2>5. cancelRequested' \in BOOLEAN /\ asked' = asked \union found /\ cancelled' = (cancelled \/ found # {})
    BY <1>3, <2>1
  <2> HIDE DEF found
  <2> QED
    BY <1>0, <1>1, <1>3, <2>1, <2>2, <2>3, <2>4, <2>5, CancelStep
<1>4. CASE /\ ~starting /\ ~Running /\ pc' = [pc EXCEPT ![c] = "over"]
           /\ UNCHANGED <<cancelled, cancelRequested, signals, asked>>
  <2>1. ToldStays
    BY <1>0, <1>2, <1>4, Untouched DEF SignalTypes
  <2>2. cancelRequested' \in BOOLEAN /\ asked' = asked \union {} /\ cancelled' = (cancelled \/ {} # {})
    BY <1>2, <1>4 DEF ObjectTypes
  <2>3. PICK found \in SUBSET Runs : found = {}
    OBVIOUS
  <2> QED
    BY <1>0, <1>1, <1>4, <2>1, <2>2, <2>3, CancelStep
<1>5. CASE /\ ~starting /\ Running /\ cancelled' = TRUE /\ asked' = asked \union {process}
           /\ pc' = [pc EXCEPT ![c] = "stopping"]
           /\ BeginStop(c, process) /\ UNCHANGED drained /\ UNCHANGED cancelRequested
  <2>1. process \in Runs
    BY <1>2, <1>5 DEF ObjectTypes, Running
  <2>2. pc[process] \notin {"idle", "queued"} /\ result[process].kind # "returned"
    <3>1. pc[process] \in Attached => result[process].kind = "none"
      BY <2>1 DEF JobInv, Flagged, Attached
    <3> QED
      BY <2>1, <3>1, TaskKinds DEF JobInv, ProcessOf, Attached
  <2>3. \A r \in Runs : pc[r] \in {"starting", "stopping", "reading", "waiting", "rejecting"} => r \in {process}
    BY <1>5 DEF JobInv, HasItsChild, StartsClean, Attached
  <2>4. drained' \subseteq Runs /\ asked' \subseteq Runs /\ dropped' \subseteq Runs
    BY <1>0, <1>2, <1>5, <2>1 DEF SignalTypes
  <2>5. ToldStays
    BY <1>0, <1>5, <2>1, <2>4, BeginStopTells
  <2>6. cancelRequested' \in BOOLEAN /\ cancelled' = (cancelled \/ {process} # {})
    BY <1>2, <1>5 DEF ObjectTypes
  <2>7. {process} \in SUBSET Runs
    BY <2>1
  <2> QED
    BY <1>0, <1>1, <1>5, <2>2, <2>3, <2>5, <2>6, <2>7, CancelStep
<1> QED
  BY <1>3, <1>4, <1>5 DEF BeginCancel

LEMMA CancelDoneStep == ASSUME JobInv, NEW c \in Cancels, CancelDone(c) PROVE JobInv'
<1>1. /\ pc[c] = "stopping" /\ pc' = [pc EXCEPT ![c] = "over"] /\ c \in Tasks /\ ready' = ready
      /\ UNCHANGED <<target, drain, result, process, starting, children, dropped>>
      /\ UNCHANGED <<cancelled, cancelRequested, asked, signals>>
  BY TaskKinds DEF CancelDone, object, history
<1>2. Moves(c, {}) /\ ~Waits(<<"begin", c>>)'
  BY <1>1, ReadyKept DEF JobInv, Entries
<1>3. ToldStays
  BY <1>1, Untouched DEF JobInv, JobTypes, SignalTypes
<1>4. cancelRequested' \in BOOLEAN /\ asked' = asked \union {} /\ cancelled' = (cancelled \/ {} # {})
  BY <1>1 DEF JobInv, JobTypes, ObjectTypes
<1>5. PICK found \in SUBSET Runs : found = {}
  OBVIOUS
<1> QED
  BY <1>1, <1>2, <1>3, <1>4, <1>5, CancelStep

-----------------------------------------------------------------------------
(* Steps that leave the coroutines alone. *)
LEMMA QuietSteps ==
  ASSUME JobInv,
         \/ \E t \in Tasks, p \in Runs : StopTimeout(t, p)
         \/ \E p \in Runs : DrainOutput(p) \/ Reap(p) \/ WriteLine(p) \/ Terminated(p) \/ Killed(p)
         \/ \E p \in Runs, s \in {"zero", "nonzero"} : Exit(p, s)
         \/ UNCHANGED jobVars
  PROVE  JobInv'
<1>0. ChildTypes /\ SignalTypes /\ \A p \in Runs : known[p] => os[p] = "dead"
  BY DEF JobInv, JobTypes, OwnChild
<1>a. ASSUME UNCHANGED <<children, stop, drained, history>>,
             timers' \subseteq Tasks \X Runs, sig' \in [Runs -> {"none", "term", "kill"}],
             \A p \in Runs : os[p] = "alive" /\ Told(p) => Told(p)'
      PROVE  ChildrenMove /\ ToldStays
  BY <1>0, <1>a DEF ChildrenMove, ToldStays, ChildTypes, SignalTypes, children, history
<1>b. ASSUME ChildTypes', UNCHANGED <<os, code, known>>, \A p \in Runs : os[p] = "dead" /\ pipe[p] = 0 => pipe'[p] = 0
      PROVE  ChildrenMove
  BY <1>0, <1>b DEF ChildrenMove
<1>c. ASSUME UNCHANGED <<signals, history>> PROVE ToldStays
  BY <1>0, <1>c DEF ToldStays, SignalTypes, signals, history, Told
<1>1. ASSUME NEW t \in Tasks, NEW p \in Runs, StopTimeout(t, p) PROVE JobInv'
  <2>1. \A q \in Runs : os[q] = "alive" /\ Told(q) => Told(q)'
    BY <1>0, <1>1 DEF StopTimeout, Told, SignalTypes
  <2>2. timers' \subseteq Tasks \X Runs /\ sig' \in [Runs -> {"none", "term", "kill"}]
    BY <1>0, <1>1 DEF StopTimeout, SignalTypes
  <2> QED
    BY <1>1, <1>a, <2>1, <2>2, QuietStep DEF StopTimeout, history
<1>2. ASSUME NEW p \in Runs, DrainOutput(p) \/ WriteLine(p) PROVE JobInv'
  <2>1. UNCHANGED <<coroutines, object, os, code, known, signals, history>>
    BY <1>2 DEF DrainOutput, WriteLine
  <2>2. pipe' \in [Runs -> Nat] /\ \A q \in Runs : os[q] = "dead" /\ pipe[q] = 0 => pipe'[q] = 0
    BY <1>0, <1>2 DEF DrainOutput, WriteLine, ChildTypes
  <2>3. ChildTypes'
    BY <1>0, <2>1, <2>2 DEF ChildTypes
  <2> QED
    BY <1>b, <1>c, <2>1, <2>2, <2>3, QuietStep DEF history
<1>3. ASSUME NEW p \in Runs, NEW s \in {"zero", "nonzero"}, Exit(p, s) PROVE JobInv'
  <2>1. ChildTypes'
    BY <1>0, <1>3 DEF Exit, ChildTypes, Statuses
  <2>2. ChildrenMove
    BY <1>0, <1>3, <2>1 DEF Exit, ChildrenMove, ChildTypes
  <2>3. ToldStays
    BY <1>0, <1>3 DEF Exit, ToldStays, SignalTypes, ChildTypes, history, Told
  <2> QED
    BY <1>3, <2>2, <2>3, QuietStep DEF Exit, history
<1>4. ASSUME NEW p \in Runs, Reap(p) PROVE JobInv'
  <2>1. ChildTypes'
    BY <1>0, <1>4 DEF Reap, ChildTypes
  <2>2. ChildrenMove
    BY <1>0, <1>4, <2>1 DEF Reap, ChildrenMove, ChildTypes
  <2>3. ToldStays
    BY <1>0, <1>4 DEF Reap, ToldStays, SignalTypes, history, Told
  <2> QED
    BY <1>4, <2>2, <2>3, QuietStep DEF Reap, history
<1>5. ASSUME UNCHANGED jobVars PROVE JobInv'
  <2>1. ChildTypes'
    BY <1>0, <1>5 DEF jobVars, children, ChildTypes
  <2>2. ChildrenMove /\ ToldStays
    BY <1>0, <1>5, <1>b, <1>c, <2>1 DEF jobVars, children
  <2> QED
    BY <1>5, <2>2, QuietStep DEF jobVars, history
<1> QED
  BY <1>1, <1>2, <1>3, <1>4, <1>5 DEF Terminated, Killed

(* What the loop does by itself keeps the invariant. *)
LEMMA LoopSteps == ASSUME JobInv, LoopStep PROVE JobInv'
<1>1. ASSUME NEW r \in Runs,
             \/ BeginRun(r) \/ Launch(r) \/ LaunchFails(r) \/ Attach(r) \/ AfterStop(r)
             \/ ReadLine(r) \/ ReadEnd(r) \/ Exited(r) \/ RejectDone(r) \/ CleanupDone(r)
             \/ Gather(r) \/ ShieldedStop(r) \/ ShieldedBoth(r)
      PROVE  JobInv'
  BY <1>1, BeginRunStep, LaunchStep, LaunchFailsStep, AttachStep, AfterStopStep, ReadLineStep, ReadEndStep,
     ExitedStep, RejectDoneStep, CleanupDoneStep, GatherStep, ShieldedStopStep, ShieldedBothStep
<1>2. ASSUME NEW c \in Cancels, BeginCancel(c) \/ CancelDone(c) PROVE JobInv'
  BY <1>2, BeginCancelStep, CancelDoneStep
<1> QED
  BY <1>1, <1>2, QuietSteps DEF LoopStep

(* What the children do keeps it. *)
LEMMA ChildSteps == ASSUME JobInv, ChildStep PROVE JobInv'
  BY QuietSteps DEF ChildStep

(* What the caller does keeps it, if it cancels no task as its child is    *)
(* about to be stopped.                                                    *)
LEMMA CallerSteps == ASSUME JobInv, Caller, Abrupt = FALSE PROVE JobInv'
<1>1. ASSUME NEW r \in Runs, CallRun(r) PROVE JobInv'
  BY <1>1, EnqueueStep, TaskKinds DEF CallRun
<1>2. ASSUME NEW c \in Cancels, Enqueue(c) PROVE JobInv'
  BY <1>2, EnqueueStep, TaskKinds
<1>3. ASSUME NEW r \in Runs, CallerCancels(r) PROVE JobInv'
  BY <1>3, CancelTaskStep DEF CallerCancels
<1> QED
  BY <1>1, <1>2, <1>3, CallbackFailsStep DEF Caller

LEMMA JobInvariant == ASSUME Abrupt = FALSE PROVE JobSpec => []JobInv
<1>1. JobInv /\ [JobNext]_jobVars => JobInv'
  <2> SUFFICES ASSUME JobInv, [JobNext]_jobVars PROVE JobInv'
    OBVIOUS
  <2>1. CASE JobNext
    BY <2>1, LoopSteps, ChildSteps, CallerSteps DEF JobNext
  <2>2. CASE UNCHANGED jobVars
    BY <2>2, QuietSteps
  <2> QED
    BY <2>1, <2>2
<1> QED
  BY <1>1, JobStarts, PTL DEF JobSpec

-----------------------------------------------------------------------------
(* No extraction is ever lost sight of, for any number of runs and of      *)
(* cancellations: a live child is the one the object tracks, or is being   *)
(* started, or has been told to end and will be killed if it does not.     *)
(* The caller may cancel the task of a run at each of its awaits, but not  *)
(* in the two turns of the loop that a shielded _stop_and_drain() needs to *)
(* find its child (run, cancel, _stop, _stop_and_drain).                   *)
THEOREM NoChildForgotten == ASSUME Abrupt = FALSE PROVE JobSpec => []Tracked
  BY JobInvariant, PTL DEF JobInv

(* A cancellation that found the job running is in the result of that run, *)
(* and in no other (the flags, set by cancel and reset by run).            *)
THEOREM CancellationIsReported == ASSUME Abrupt = FALSE PROVE JobSpec => []CancelIsReported
  BY JobInvariant, PTL DEF JobInv

(* A result is about the run's own child, which has exited, and no line it *)
(* printed is left unread (run, _reject_output).                           *)
THEOREM ResultsAreTheirOwn == ASSUME Abrupt = FALSE PROVE JobSpec => []OwnResult
  BY JobInvariant, PTL DEF JobInv

(* A caller that starts a run only when the previous one has ended never   *)
(* has two under way, whatever is cancelled and however a run ends.        *)
THEOREM NeverTwo == ASSUME Abrupt = FALSE PROVE JobSpec => []OneRun
<1>1. JobInv => OneRun
  BY DEF JobInv, OneActive, OneRun
<1> QED
  BY <1>1, JobInvariant, PTL
=============================================================================
