--------------------------- MODULE StartupOutcome ---------------------------
(***************************************************************************)
(* What a startup promises about the generated files, with no journal and  *)
(* no sidecar: until it commits, every file it changed can still come back *)
(* to what it was; once it has committed, nothing but an edit by someone   *)
(* else changes a file before the next startup begins.                     *)
(***************************************************************************)
CONSTANTS File, Image

VARIABLES
  files,     \* [File -> Image]
  outcome,   \* of the latest startup
  saved,     \* the files when it began
  touched    \* the files someone else edited since then

vars == <<files, outcome, saved, touched>>

Init ==
  /\ files \in [File -> Image]
  /\ outcome = "idle"
  /\ saved = files
  /\ touched = {}

Begin ==
  /\ outcome # "open"
  /\ outcome' = "open"
  /\ saved' = files
  /\ touched' = {}
  /\ UNCHANGED files

Write(f, image) ==
  /\ outcome = "open"
  /\ files' = [files EXCEPT ![f] = image]
  /\ UNCHANGED <<outcome, saved, touched>>

Commit ==
  /\ outcome = "open"
  /\ outcome' = "committed"
  /\ UNCHANGED <<files, saved, touched>>

RollBack ==
  /\ outcome = "open"
  /\ \A f \in File \ touched : files[f] = saved[f]
  /\ outcome' = "rolled_back"
  /\ UNCHANGED <<files, saved, touched>>

(* Someone else takes some files over. *)
Edit(some) ==
  /\ files' \in [File -> Image]
  /\ \A f \in File \ some : files'[f] = files[f]
  /\ touched' = touched \cup some
  /\ UNCHANGED <<outcome, saved>>

Next ==
  \/ Begin \/ Commit \/ RollBack
  \/ \E f \in File, image \in Image : Write(f, image)
  \/ \E some \in SUBSET File : Edit(some)

Spec == Init /\ [][Next]_vars
=============================================================================
