---------------------- MODULE MCStartupMaterialization ----------------------
(* Finite instances of StartupMaterialization for TLC. *)
EXTENDS StartupMaterialization, TLC

CONSTANTS configFile, setupFile, Configured, SetupDone

OneFilePerUnit == (configFile :> Configured @@ setupFile :> SetupDone)
OneFile        == (configFile :> Configured)

(* Some of the behaviours of Spec: a start writes one file, then the other twice; its rollback is
   held up by edits of the first and cut off while it reconciles; and what can come after that.
   A counterexample among them is one of Spec. *)
Order == <<configFile, setupFile, setupFile, setupFile>>
HeldUp ==
  /\ pc' \notin {"untracked", "cleanup"}
  /\ \A k \in DOMAIN sidecar' : sidecar'[k].file = Order[k]
  /\ pc = "write" /\ disk' # disk => \E id \in step.open : disk' = [disk EXCEPT ![id.file] = disk'[id.file]]
                                   /\ disk[id.file] = sidecar[id.index].preimage
  /\ pc' = "rollback" /\ pc # "rollback" => pc \in {"open", "down"}
  /\ budget'.edits # budget.edits =>
       pc \in {"rollback", "down"} /\ disk'[setupFile] = disk[setupFile]
  /\ budget'.crashes # budget.crashes => pc = "reconcile"
HeldUpSpec == Init /\ disk = [f \in File |-> Missing] /\ claims = {} /\ [][Next /\ HeldUp]_vars

ContentSymmetry == Permutations(Content)
=============================================================================
