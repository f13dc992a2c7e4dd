---------------------------- MODULE Publication ----------------------------
(***************************************************************************)
(* What publishing a group of output files promises, seen by somebody who  *)
(* looks only at the output directory: the files shown under their final   *)
(* names and the hidden copies kept beside them.  While the publication is *)
(* open the directory may show any mixture of old and new files, but no    *)
(* old file is ever out of reach.  It then either commits, every file new, *)
(* or aborts, every file as before, or is abandoned half way with the old  *)
(* files still recoverable by hand.                                        *)
(*                                                                         *)
(* Publish.tla is the implementation (cli._publish_outputs) and shows that *)
(* it has this behaviour.                                                  *)
(***************************************************************************)
CONSTANT Paths

VARIABLES
  before,    \* [Paths -> Shown] the directory when publication started
  shown,     \* [Paths -> Shown] what each final name holds now
  kept,      \* [Paths -> Kept] the hidden copy kept beside each name
  outcome

pubVars == <<before, shown, kept, outcome>>

Shown == {"none", "old", "new", "directory"}
Kept == {"none", "empty", "old"}

Reachable(s, k) == \A p \in Paths : before[p] = "old" => s[p] = "old" \/ k[p] = "old"

PubInit ==
  /\ before \in [Paths -> Shown \ {"new"}]
  /\ shown = before
  /\ kept = [p \in Paths |-> "none"]
  /\ outcome = "open"

Work ==
  /\ outcome = "open"
  /\ shown' \in [Paths -> Shown]
  /\ kept' \in [Paths -> Kept]
  /\ Reachable(shown', kept')
  /\ UNCHANGED <<before, outcome>>

Commit ==
  /\ outcome = "open"
  /\ outcome' = "committed"
  /\ shown' = [p \in Paths |-> "new"]
  /\ kept' = kept
  /\ UNCHANGED before

Tidy ==
  /\ outcome = "committed"
  /\ kept' \in [Paths -> Kept]
  /\ UNCHANGED <<before, shown, outcome>>

Abort ==
  /\ outcome = "open"
  /\ outcome' = "aborted"
  /\ shown' = before
  /\ kept' \in [Paths -> Kept]
  /\ UNCHANGED before

Abandon ==
  /\ outcome = "open"
  /\ outcome' = "abandoned"
  /\ UNCHANGED <<before, shown, kept>>

PubNext == Work \/ Commit \/ Tidy \/ Abort \/ Abandon

PubSpec == PubInit /\ [][PubNext]_pubVars
=============================================================================
