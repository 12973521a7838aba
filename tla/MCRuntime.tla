------------------------------ MODULE MCRuntime ------------------------------
(* Finite instances of the modules about the processes of a host, each by
   itself: Init chooses the part of the system that runs, and the variables of
   the others stay as they are. *)
EXTENDS RuntimeStartup, WorkspaceLock, EndpointAllocation, EndpointCutover, TLC

VARIABLE component  \* the part of the system that runs

(* Dependencies, and those of them that refer to the endpoint: a chain, of which all or the end
   refer; two consumers of one provider, one behind the other; a consumer of two; a cycle.  The
   order of the services is in most against that of their numbers. *)
Chain == {<<1, 2>>, <<2, 3>>}

ServiceGraphs ==
  LET Fan == {<<1, 3>>, <<2, 3>>}
      Pair == {<<3, 1>>, <<3, 2>>}
  IN {<<Chain, Chain>>, <<Chain, {<<2, 3>>}>>, <<Fan \cup {<<2, 1>>}, Fan>>, <<Pair, Pair>>,
      <<Chain \cup {<<3, 1>>}, Chain>>}

Init ==
  /\ StartupInit /\ LockInit /\ PortInit /\ CutoverInit
  /\ component \in {"startup", "workspace lock", "ports", "endpoints"}
  /\ component # "workspace lock" => scheme = "host"
  /\ component # "endpoints" => <<needs, refers>> = <<Chain, Chain>>

StartupSteps ==
  /\ component = "startup" /\ StartupNext
  /\ UNCHANGED <<component, lockVars, portVars, cutoverVars>>

LockSteps ==
  /\ component = "workspace lock" /\ LockNext
  /\ UNCHANGED <<component, startupVars, portVars, cutoverVars>>

PortSteps ==
  /\ component = "ports" /\ PortNext
  /\ UNCHANGED <<component, startupVars, lockVars, cutoverVars>>

CutoverSteps ==
  /\ component = "endpoints" /\ CutoverNext
  /\ UNCHANGED <<component, startupVars, lockVars, portVars>>

Next ==
  \/ StartupSteps \/ LockSteps \/ PortSteps \/ CutoverSteps

Spec == Init /\ [][Next]_<<component, startupVars, lockVars, portVars, cutoverVars>>

(* Nothing tells processes or ports apart. *)
Symmetry == Permutations(Process) \cup Permutations(Port)
=============================================================================
