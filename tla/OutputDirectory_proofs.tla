----------------------- MODULE OutputDirectory_proofs -----------------------
(***************************************************************************)
(* Theorems about OutputDirectory, for any file names, any number of       *)
(* extractions and of edits by the user.                                   *)
(***************************************************************************)
EXTENDS OutputDirectory, TLAPS

Working == {"recover", "publish", "remove"}

RunInv == pc \in Working => run \in Runs

\* What a manifest lists, and what was read from one, some run has published to.
ClaimedInv ==
  /\ SlotsOf(manifest.lists) \subseteq claimed
  /\ SlotsOf(previous) \subseteq claimed
  /\ pc \in {"publish", "remove"} => names # {}

Generated(s) == dir[s] \in Runs

\* Every generated file is accounted for, unless something was cut short: by
\* the manifest, or while stale files are being removed by the removals due.
AccountInv ==
  ~cut =>
    /\ pc # "remove" => \A s \in DOMAIN dir : Generated(s) => s \in SlotsOf(manifest.lists)
    /\ pc \in {"recover", "publish"} => previous = manifest.lists
    /\ pc = "remove" => /\ manifest.lists = names
                        /\ \A s \in DOMAIN dir : Generated(s) => s \in SlotsOf(names) \union SlotsOf(due)

IInv == RunInv /\ ClaimedInv /\ AccountInv

-----------------------------------------------------------------------------
\* Who wrote a file is never confused.
LEMMA Writers == /\ Nothing \notin Runs /\ User \notin Runs /\ Directory \notin Runs
                 /\ Runs \subseteq Contents /\ {Nothing, User, Directory} \subseteq Contents
  BY DirectoryAssumption DEF DirectoryAssumption, Runs, Nothing, User, Directory, Contents

(* Places of a union of names (_previous_artifacts and its difference).    *)
LEMMA SlotsOfSplit ==
  ASSUME NEW before, NEW now
  PROVE  SlotsOf(before) \subseteq SlotsOf(now) \union SlotsOf(Stale(before, now))
  BY DEF SlotsOf, Stale

(* What _output_names yields are names, each in its place.                 *)
LEMMA SlotsInDirectory ==
  ASSUME NEW outputs, outputs \in Outputs \union {{}}
  PROVE  SlotsOf(outputs) \subseteq SlotsOf(Names)
  BY DEF SlotsOf, Outputs

(* Every variable keeps its type, and while an extraction is under way its *)
(* number is that of a run (extract).                                      *)
LEMMA TypeInductive == TypeOK /\ RunInv /\ [Next]_vars => TypeOK' /\ RunInv'
<1> SUFFICES ASSUME TypeOK, RunInv, [Next]_vars PROVE TypeOK' /\ RunInv'
  OBVIOUS
<1> USE DirectoryAssumption, Writers DEF DirectoryAssumption, TypeOK, RunInv, Working, work, NoManifest
<1>1. CASE Begin
  BY <1>1 DEF Begin, Runs
<1>2. CASE Recovered
  BY <1>2 DEF Recovered
<1>3. CASE GiveUp
  BY <1>3 DEF GiveUp
<1>4. CASE Commit
  <2>1. run \in Runs /\ names \in Outputs \union {{}}
    BY <1>4 DEF Commit
  <2>2. dir' \in [SlotsOf(Names) -> Contents]
    BY <1>4, <2>1 DEF Commit, Written
  <2>3. manifest' \in [by : Runs \union {Nothing, User}, lists : Outputs \union {{}}]
    BY <1>4, <2>1 DEF Commit, Listing
  <2>4. due' \subseteq previous'
    BY <1>4 DEF Commit, Stale
  <2>5. claimed' \subseteq SlotsOf(Names)
    BY <1>4, <2>1, SlotsInDirectory DEF Commit
  <2>6. QED
    BY <1>4, <2>1, <2>2, <2>3, <2>4, <2>5 DEF Commit
<1>5. CASE Killed
  <2>1. run \in Runs /\ names \in Outputs \union {{}}
    BY <1>5 DEF Killed
  <2>2. \A slots : Written(slots) \in [SlotsOf(Names) -> Contents]
    BY <2>1 DEF Written
  <2>3. dir' \in [SlotsOf(Names) -> Contents]
    BY <1>5, <2>2 DEF Killed
  <2>4. manifest' \in [by : Runs \union {Nothing, User}, lists : Outputs \union {{}}]
    BY <1>5, <2>1 DEF Killed, Listing
  <2>5. claimed' \subseteq SlotsOf(Names)
    BY <1>5, <2>1, SlotsInDirectory DEF Killed
  <2>6. QED
    BY <1>5, <2>3, <2>4, <2>5 DEF Killed
<1>6. CASE RemoveStale
  BY <1>6 DEF RemoveStale
<1>7. CASE RemoveFails
  BY <1>7 DEF RemoveFails
<1>8. CASE Finish
  BY <1>8 DEF Finish
<1>9. CASE UserEdits
  <2>1. dir' \in [SlotsOf(Names) -> Contents]
    <3>1. \A s \in SlotsOf(Names), c \in Contents : [dir EXCEPT ![s] = c] \in [SlotsOf(Names) -> Contents]
      OBVIOUS
    <3>2. DOMAIN dir = SlotsOf(Names)
      OBVIOUS
    <3>3. \/ dir' = dir
          \/ \E s \in SlotsOf(Names) : \E c \in {Nothing, User, Directory} : dir' = [dir EXCEPT ![s] = c]
      BY <1>9, <3>2 DEF UserEdits
    <3>4. QED
      BY <3>1, <3>3
  <2>2. manifest' \in [by : Runs \union {Nothing, User}, lists : Outputs \union {{}}]
    BY <1>9 DEF UserEdits
  <2>3. edits' \in 0..MaxEdits
    <3>1. edits < MaxEdits /\ edits' = edits + 1
      BY <1>9 DEF UserEdits
    <3>2. QED
      BY <3>1
  <2>4. cut' \in BOOLEAN
    BY <1>9 DEF UserEdits
  <2>5. QED
    BY <1>9, <2>1, <2>2, <2>3, <2>4 DEF UserEdits
<1>10. CASE UNCHANGED vars
  BY <1>10 DEF vars
<1>11. QED
  BY <1>1, <1>2, <1>3, <1>4, <1>5, <1>6, <1>7, <1>8, <1>9, <1>10 DEF Next

(* A directory nobody has extracted to satisfies the invariant.            *)
LEMMA InitIInv == Init => TypeOK /\ IInv
<1> SUFFICES ASSUME Init PROVE TypeOK /\ IInv
  OBVIOUS
<1> USE DirectoryAssumption, Writers DEF DirectoryAssumption, Init, NoManifest, Working
<1>1. dir \in [SlotsOf(Names) -> Contents]
  OBVIOUS
<1>2. TypeOK
  <2>1. manifest \in [by : Runs \union {Nothing, User}, lists : Outputs \union {{}}]
    OBVIOUS
  <2>2. run \in 0..MaxRuns /\ edits \in 0..MaxEdits
    OBVIOUS
  <2>3. names = {} /\ previous = {} /\ due = {} /\ claimed = {} /\ pc = "idle" /\ cut = FALSE
    OBVIOUS
  <2>4. QED
    BY <1>1, <2>1, <2>2, <2>3 DEF TypeOK
<1>3. SlotsOf({}) = {}
  BY DEF SlotsOf
<1>4. RunInv /\ ClaimedInv
  BY <1>3 DEF RunInv, ClaimedInv
<1>5. \A s \in DOMAIN dir : ~Generated(s)
  BY DEF Generated
<1>6. AccountInv
  BY <1>5 DEF AccountInv
<1>7. QED
  BY <1>2, <1>4, <1>6 DEF IInv

(* Every variable keeps its type (extract and _remove_stale_artifacts).    *)
THEOREM TypeCorrect == Spec => []TypeOK
<1>1. Init => TypeOK /\ RunInv
  BY InitIInv DEF IInv
<1>2. QED
  BY <1>1, TypeInductive, PTL DEF Spec

-----------------------------------------------------------------------------
(* What an extraction will take for its predecessor's artifacts, some      *)
(* extraction has published (_previous_artifacts).                         *)
LEMMA ClaimedInductive == TypeOK /\ ClaimedInv /\ [Next]_vars => ClaimedInv'
<1> SUFFICES ASSUME TypeOK, ClaimedInv, [Next]_vars PROVE ClaimedInv'
  OBVIOUS
<1> USE DEF TypeOK, ClaimedInv, work
<1>0. SlotsOf({}) = {}
  BY DEF SlotsOf
<1>1. CASE Begin
  BY <1>1 DEF Begin
<1>2. CASE Recovered
  <2>1. names' # {}
    BY <1>2 DEF Recovered, Outputs
  <2>2. QED
    BY <1>2, <2>1 DEF Recovered
<1>3. CASE GiveUp
  BY <1>3 DEF GiveUp
<1>4. CASE Commit
  <2>1. manifest'.lists = names /\ claimed' = claimed \union SlotsOf(names)
    BY <1>4 DEF Commit, Listing
  <2>2. QED
    BY <1>4, <2>1 DEF Commit
<1>5. CASE Killed
  <2>1. manifest' = manifest \/ manifest'.lists = {} \/ manifest'.lists = names
    <3>1. manifest' = manifest \/ manifest' \in {NoManifest, Listing}
      BY <1>5 DEF Killed
    <3>2. NoManifest.lists = {} /\ Listing.lists = names
      BY DEF NoManifest, Listing
    <3>3. QED
      BY <3>1, <3>2
  <2>2. claimed' = claimed \union SlotsOf(names) /\ previous' = previous /\ pc' = "idle"
    BY <1>5 DEF Killed
  <2>3. SlotsOf(manifest'.lists) \subseteq claimed'
    BY <1>0, <2>1, <2>2
  <2>4. QED
    BY <2>2, <2>3
<1>6. CASE RemoveStale
  BY <1>6 DEF RemoveStale
<1>7. CASE RemoveFails
  BY <1>7 DEF RemoveFails
<1>8. CASE Finish
  BY <1>8 DEF Finish
<1>9. CASE UserEdits
  <2>1. manifest' = manifest \/ manifest'.lists = {}
    BY <1>9 DEF UserEdits
  <2>2. claimed' = claimed /\ previous' = previous /\ pc' = pc /\ names' = names
    BY <1>9 DEF UserEdits
  <2>3. SlotsOf(manifest'.lists) \subseteq claimed'
    BY <1>0, <2>1, <2>2
  <2>4. QED
    BY <2>2, <2>3
<1>10. CASE UNCHANGED vars
  BY <1>10 DEF vars
<1>11. QED
  BY <1>1, <1>2, <1>3, <1>4, <1>5, <1>6, <1>7, <1>8, <1>9, <1>10 DEF Next

(* No step loses account of a generated file (extract).                    *)
LEMMA AccountInductive ==
  TypeOK /\ RunInv /\ ClaimedInv /\ AccountInv /\ [Next]_vars => AccountInv'
<1> SUFFICES ASSUME TypeOK, RunInv, ClaimedInv, AccountInv, [Next]_vars, ~cut' PROVE AccountInv'
  BY DEF AccountInv
<1> USE Writers DEF TypeOK, AccountInv, Generated, work
<1>1. CASE Begin
  BY <1>1 DEF Begin
<1>2. CASE Recovered
  BY <1>2 DEF Recovered
<1>3. CASE GiveUp
  BY <1>3 DEF GiveUp
<1>4. CASE Commit
  <2>1. ~cut /\ previous = manifest.lists
    BY <1>4 DEF Commit
  <2>2. \A s \in DOMAIN dir : Generated(s) => s \in SlotsOf(previous)
    BY <1>4, <2>1 DEF Commit
  <2>3. SlotsOf(previous) \subseteq SlotsOf(names) \union SlotsOf(due')
    BY <1>4, SlotsOfSplit DEF Commit
  <2>4. DOMAIN dir' = DOMAIN dir /\ \A s \in DOMAIN dir : dir'[s] = IF s \in SlotsOf(names) THEN run ELSE dir[s]
    BY <1>4 DEF Commit, Written
  <2>5. \A s \in DOMAIN dir' : Generated(s)' => s \in SlotsOf(names) \union SlotsOf(due')
    BY <2>2, <2>3, <2>4
  <2>6. manifest'.lists = names /\ names' = names /\ pc' = "remove"
    BY <1>4 DEF Commit, Listing
  <2>7. QED
    BY <2>5, <2>6
<1>5. CASE Killed
  BY <1>5 DEF Killed
<1>6. CASE RemoveStale
  <2>1. PICK n \in due :
          /\ due' = due \ {n}
          /\ dir' = IF dir[Slot(n)] = Directory THEN dir ELSE [dir EXCEPT ![Slot(n)] = Nothing]
    BY <1>6 DEF RemoveStale
  <2>2. ~cut /\ pc = "remove" /\ pc' = "remove" /\ manifest' = manifest /\ names' = names
    BY <1>6 DEF RemoveStale
  <2>3. DOMAIN dir' = DOMAIN dir
    BY <2>1
  <2>4. \A s \in DOMAIN dir : dir'[s] \in Runs => dir[s] \in Runs /\ s # Slot(n)
    BY <2>1
  <2>5. SlotsOf(due) \subseteq SlotsOf(due') \union {Slot(n)}
    BY <2>1 DEF SlotsOf
  <2>6. \A s \in DOMAIN dir' : Generated(s)' => s \in SlotsOf(names) \union SlotsOf(due')
    BY <2>2, <2>3, <2>4, <2>5
  <2>7. QED
    BY <2>2, <2>6
<1>7. CASE RemoveFails
  BY <1>7 DEF RemoveFails
<1>8. CASE Finish
  <2>1. SlotsOf(due) = {}
    BY <1>8 DEF Finish, SlotsOf
  <2>2. QED
    BY <1>8, <2>1 DEF Finish
<1>9. CASE UserEdits
  <2>1. ~cut /\ pc # "remove" /\ pc' = pc /\ manifest' = manifest /\ previous' = previous
    BY <1>9 DEF UserEdits
  <2>2. \E t \in DOMAIN dir : \E c \in {Nothing, User, Directory} : dir' = [dir EXCEPT ![t] = c]
    BY <1>9, <2>1 DEF UserEdits
  <2>3. DOMAIN dir' = DOMAIN dir /\ \A s \in DOMAIN dir : dir'[s] \in Runs => dir[s] \in Runs
    BY <2>2
  <2>4. QED
    BY <2>1, <2>3
<1>10. CASE UNCHANGED vars
  BY <1>10 DEF vars
<1>11. QED
  BY <1>1, <1>2, <1>3, <1>4, <1>5, <1>6, <1>7, <1>8, <1>9, <1>10 DEF Next

(* The invariant holds throughout (extract).                               *)
LEMMA Invariant == Spec => [](TypeOK /\ IInv)
<1>1. TypeOK /\ IInv /\ [Next]_vars => TypeOK' /\ IInv'
  BY TypeInductive, ClaimedInductive, AccountInductive DEF IInv
<1>2. QED
  BY <1>1, InitIInv, PTL DEF Spec

(* Whatever is edited or fails, extractions that are not cut short leave   *)
(* no generated file the manifest does not list.                           *)
THEOREM NothingOrphaned == Spec => []NoOrphans
<1>1. TypeOK /\ IInv => NoOrphans
  BY DEF IInv, AccountInv, NoOrphans, Generated
<1>2. QED
  BY <1>1, Invariant, PTL

(* The cleanup removes nothing an extraction has not published there,      *)
(* whether or not the file system ignores case.                            *)
THEOREM UserFilesStay == Spec => RemovesOnlyItsOwn
<1>1. TypeOK /\ IInv /\ [Next]_vars =>
        [pc = "remove" => \A s \in DOMAIN dir : dir'[s] # dir[s] => s \in claimed]_vars
  <2> SUFFICES ASSUME TypeOK, IInv, [Next]_vars, pc = "remove",
                      NEW s \in DOMAIN dir, dir'[s] # dir[s]
               PROVE  s \in claimed
    OBVIOUS
  <2>1. SlotsOf(due) \subseteq claimed
    BY DEF TypeOK, IInv, ClaimedInv, SlotsOf
  <2>2. RemoveStale
    BY DEF Next, Begin, Recovered, GiveUp, Commit, Killed, RemoveFails, Finish, UserEdits, vars
  <2>3. PICK n \in due :
          dir' = IF dir[Slot(n)] = Directory THEN dir ELSE [dir EXCEPT ![Slot(n)] = Nothing]
    BY <2>2 DEF RemoveStale
  <2>4. s = Slot(n)
    BY <2>3 DEF TypeOK
  <2>5. QED
    BY <2>1, <2>4 DEF SlotsOf
<1>2. QED
  BY <1>1, Invariant, PTL DEF Spec, RemovesOnlyItsOwn

-----------------------------------------------------------------------------
\* While stale files go, the new ones and what is due have no name in common.
DeliveredInv == Delivered /\ (pc = "remove" => names \intersect due = {})

(* On a file system that distinguishes case every announced file is there: *)
(* `previous - current` then compares places, not only names.              *)
THEOREM DeliversWhenCaseMatters ==
  ASSUME FoldsCase = FALSE
  PROVE  Spec => []Delivered
<1>1. \A n \in Names : Slot(n) = n
  BY DEF Slot
<1>2. Init => DeliveredInv
  BY DEF Init, DeliveredInv, Delivered
<1>3. TypeOK /\ DeliveredInv /\ [Next]_vars => DeliveredInv'
  <2> SUFFICES ASSUME TypeOK, DeliveredInv, [Next]_vars, pc' = "remove" PROVE DeliveredInv'
    BY DEF DeliveredInv, Delivered
  <2>0. names \subseteq Names /\ due \subseteq Names
    BY DEF TypeOK, Outputs
  <2>1. CASE Commit
    <3>1. \A n \in names : Slot(n) \in DOMAIN dir /\ Slot(n) \in SlotsOf(names)
      BY <2>0 DEF TypeOK, SlotsOf
    <3>2. \A n \in names : dir'[Slot(n)] = run
      BY <2>1, <3>1 DEF Commit, Written
    <3>3. manifest' = Listing /\ run' = run /\ names' = names /\ names \intersect due' = {}
      BY <2>1 DEF Commit, Stale
    <3>4. QED
      BY <3>2, <3>3 DEF DeliveredInv, Delivered, Listing
  <2>2. CASE RemoveStale
    <3>1. PICK n \in due :
            /\ due' = due \ {n}
            /\ dir' = IF dir[Slot(n)] = Directory THEN dir ELSE [dir EXCEPT ![Slot(n)] = Nothing]
      BY <2>2 DEF RemoveStale
    <3>2. pc = "remove" /\ manifest' = manifest /\ run' = run /\ names' = names
      BY <2>2 DEF RemoveStale, work
    <3>3. \A m \in names : dir'[Slot(m)] = dir[Slot(m)]
      <4>1. \A m \in names : Slot(m) # Slot(n)
        BY <1>1, <2>0, <3>1, <3>2 DEF DeliveredInv
      <4>2. QED
        BY <3>1, <4>1 DEF TypeOK
    <3>4. QED
      BY <3>1, <3>2, <3>3 DEF DeliveredInv, Delivered, Listing
  <2>3. CASE UNCHANGED vars
    BY <2>3 DEF vars, work, DeliveredInv, Delivered, Listing
  <2>4. QED
    BY <2>1, <2>2, <2>3 DEF Next, Begin, Recovered, GiveUp, Killed, RemoveFails, Finish, UserEdits
<1>4. DeliveredInv => Delivered
  BY DEF DeliveredInv
<1>5. QED
  BY <1>2, <1>3, <1>4, TypeCorrect, PTL DEF Spec
=============================================================================
