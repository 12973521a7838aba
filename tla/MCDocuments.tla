------------------------------ MODULE MCDocuments ------------------------------
(* Finite instances of the modules about files that outlive the runtime, each
   by itself: Init chooses the part of the system that runs, and the variables
   of the others stay as they are. *)
EXTENDS StagedTransfer, FileLock, Confirmations, LifecycleDocument, SecretRotation, AuditLog,
        OperatorQueue, TLC

VARIABLE component  \* the part of the system that runs

Init ==
  /\ StagedInit /\ FileLockInit /\ ConfirmationInit /\ DocInit /\ RotationInit
  /\ AuditInit /\ QueueInit
  /\ component \in {"staged transfer", "file lock", "confirmations", "document",
                    "rotation", "audit", "queue"}
  /\ component # "confirmations" => ~running
  /\ component # "rotation" => \A c \in Consumer : consumers[c].up
  /\ component # "document" => primary = Missing /\ ~windows
  /\ component # "audit" => log = <<>>

StagedSteps ==
  /\ component = "staged transfer" /\ StagedNext
  /\ UNCHANGED <<component, fileLockVars, confirmationVars, docVars,
                 rotationVars, auditVars, queueVars>>

FileLockSteps ==
  /\ component = "file lock" /\ FileLockNext
  /\ UNCHANGED <<component, stagedVars, confirmationVars, docVars,
                 rotationVars, auditVars, queueVars>>

ConfirmationSteps ==
  /\ component = "confirmations" /\ ConfirmationNext
  /\ UNCHANGED <<component, stagedVars, fileLockVars, docVars,
                 rotationVars, auditVars, queueVars>>

DocumentSteps ==
  /\ component = "document" /\ DocNext
  /\ UNCHANGED <<component, stagedVars, fileLockVars, confirmationVars,
                 rotationVars, auditVars, queueVars>>

RotationSteps ==
  /\ component = "rotation" /\ RotationNext
  /\ UNCHANGED <<component, stagedVars, fileLockVars, confirmationVars,
                 docVars, auditVars, queueVars>>

AuditSteps ==
  /\ component = "audit" /\ AuditNext
  /\ UNCHANGED <<component, stagedVars, fileLockVars, confirmationVars,
                 docVars, rotationVars, queueVars>>

QueueSteps ==
  /\ component = "queue" /\ QueueNext
  /\ UNCHANGED <<component, stagedVars, fileLockVars, confirmationVars,
                 docVars, rotationVars, auditVars>>

Next ==
  \/ StagedSteps \/ AuditSteps \/ RotationSteps
  \/ FileLockSteps \/ ConfirmationSteps \/ DocumentSteps \/ QueueSteps

vars == <<component, stagedVars, fileLockVars, confirmationVars, docVars, rotationVars,
          auditVars, queueVars>>

Spec == Init /\ [][Next]_vars

Symmetry == Permutations(Stage) \cup Permutations(Key) \cup Permutations(Call)
=============================================================================
