------------------------------ MODULE Command ------------------------------
(***************************************************************************)
(* The process of one `protoloom extract` as its tools see it.  A call it  *)
(* makes succeeds, fails without effect (OSError or an error of the tool)  *)
(* or is followed by a KeyboardInterrupt, delivered as it returns.  The    *)
(* TUI ends the command with SIGTERM, for which it installs no handler:    *)
(* no finally block runs, and the tools, which have sessions of their own, *)
(* do not get the signal.                                                  *)
(***************************************************************************)
EXTENDS Naturals, FiniteSets

CONSTANTS
  MaxFaults,      \* bound on the calls that fail
  MaxInterrupts   \* bound on the KeyboardInterrupts delivered

ASSUME CommandAssumption == MaxFaults \in Nat /\ MaxInterrupts \in Nat

VARIABLES alive, faults, interrupts

commandVars == <<alive, faults, interrupts>>

CommandInit == alive = TRUE /\ faults = 0 /\ interrupts = 0

Succeeds == alive /\ UNCHANGED commandVars

Fails ==
  /\ alive /\ faults < MaxFaults
  /\ faults' = faults + 1
  /\ UNCHANGED <<alive, interrupts>>

Interrupted ==
  /\ alive /\ interrupts < MaxInterrupts
  /\ interrupts' = interrupts + 1
  /\ UNCHANGED <<alive, faults>>

\* SIGTERM or SIGKILL from the TUI's _stop.
Terminated == alive /\ alive' = FALSE /\ UNCHANGED <<faults, interrupts>>
=============================================================================
