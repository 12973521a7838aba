------------------------------ MODULE MCOperator ------------------------------
(* Finite instances of the modules about guarded operations, updates and declared
   actions, each by itself: Init chooses the part of the system that runs.  x1 to x10 are the
   variables of a second instance of the guarded operations: one call, in which
   more can go wrong. *)
EXTENDS GuardedOperations, ServiceUpdates, ActionRuns, TLC

VARIABLES
  component,  \* the part of the system that runs
  x1, x2, x3, x4, x5, x6, x7, x8, x9, x10

(* The first archive has a tag of its own, the second and the third share one. *)
TagOfArchive(a) == IF a = 1 THEN "a" ELSE "b"

Recovery == INSTANCE GuardedOperations WITH
  Call <- {"c"}, Key <- {"k"}, Confirmation <- {"f"}, MaxFaults <- 3, confirmations <- x1,
  journal <- x2, operations <- x3, plan <- x4, calls <- x5, recovered <- x6, dead <- x7,
  performed <- x8, issued <- x9, faults <- x10

others == <<x1, x2, x3, x4, x5, x6, x7, x8, x9, x10>>

Unused(x) == x = "unused"

Init ==
  /\ GuardedInit /\ UpdatesInit /\ ActionInit
  /\ \/ /\ component \in {"guarded operations", "updates", "actions"}
        /\ Unused(x1) /\ Unused(x2) /\ Unused(x3) /\ Unused(x4) /\ Unused(x5)
        /\ Unused(x6) /\ Unused(x7) /\ Unused(x8) /\ Unused(x9) /\ Unused(x10)
     \/ component = "recovery" /\ Recovery!GuardedInit
  /\ component # "updates" =>
       policy.mode = "notify" /\ policy.runningService = "skip" /\ installed = 0 /\ ~running
  /\ component # "actions" => ~serviceUp

GuardedSteps ==
  /\ component = "guarded operations" /\ GuardedNext
  /\ UNCHANGED <<component, others, updateVars, actionVars>>

UpdateSteps ==
  /\ component = "updates" /\ UpdatesNext
  /\ UNCHANGED <<component, others, guardedVars, actionVars>>

RecoverySteps ==
  /\ component = "recovery" /\ Recovery!GuardedNext
  /\ UNCHANGED <<component, guardedVars, updateVars, actionVars>>

ActionSteps ==
  /\ component = "actions" /\ ActionNext
  /\ UNCHANGED <<component, others, guardedVars, updateVars>>

Next ==
  \/ ActionSteps \/ GuardedSteps \/ UpdateSteps \/ RecoverySteps

vars == <<component, others, guardedVars, updateVars, actionVars>>

Spec == Init /\ [][Next]_vars

-----------------------------------------------------------------------------
(* KeepsItsEnd of every step: of two calls with few faults, and of one call with more. *)
SettledStays ==
  [][/\ KeepsItsEnd
     /\ component = "recovery" => Recovery!KeepsItsEnd]_vars

Symmetry == Permutations(Call) \cup Permutations(Key) \cup Permutations(Confirmation)
              \cup Permutations(Process)
=============================================================================
