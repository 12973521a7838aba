-------------------------- MODULE LifecycleDocument --------------------------
(***************************************************************************)
(* The lifecycle documents of a workspace (runtime/state/lifecycle-        *)
(* persistence): a write keeps the previous document as a backup and       *)
(* replaces the primary; the first write over a document of the legacy     *)
(* version goes through a journal and a candidate file.  Writers hold the  *)
(* workspace lock, readers do not, and a reader that finds a journal       *)
(* finishes the migration it describes.                                    *)
(***************************************************************************)
EXTENDS Naturals

CONSTANTS
  MaxWrites,      \* bounds the writes
  MaxDocTroubles  \* bounds crashes and damage to the primary

VARIABLES
  primary, backup, legacyBackup, candidate,  \* the files: what they hold, and in which version
  journal,     \* the migration journal's phase
  windows,     \* whether the host replaces a file by removing it when a rename is refused
  actors,      \* the writer and a reader: where they are, and the value they carry
  acked,       \* history: the value of the last write that was answered
  before,      \* history: the value of the one before it
  tried,       \* history: the value of the last write that was begun
  reply,       \* history: what the last read returned, and what had been answered when it began
  raced,       \* history: a reader carried out a migration while a writer was at work
  damaged,     \* history: the primary was damaged
  docTroubles  \* the bound already used

docVars == <<primary, backup, legacyBackup, candidate, journal, windows, actors,
             acked, before, tried, reply, raced, damaged, docTroubles>>
files == <<primary, backup, legacyBackup, candidate, journal>>
history == <<windows, acked, before, tried, reply, raced, damaged, docTroubles>>

Contents(form, value) == [form |-> form, value |-> value]
Missing == Contents("missing", 0)
IdleActor == [at |-> "idle", value |-> 0, floor |-> 0, before |-> 0]

DocInit ==
  /\ primary \in {Missing, Contents("legacy", 0), Contents("current", 0), Contents("newer", 0)}
  /\ backup = Missing /\ legacyBackup = Missing /\ candidate = Missing /\ journal = "none"
  /\ windows \in BOOLEAN /\ actors = [writer |-> IdleActor, reader |-> IdleActor]
  /\ acked = 0 /\ before = 0 /\ tried = 0 /\ reply = [floor |-> 0, before |-> 0, got |-> Missing]
  /\ raced = FALSE /\ damaged = FALSE /\ docTroubles = 0

Actor == {"writer", "reader"}
ActorAt(a, place) == actors[a].at = place
ActorGoes(a, to) == actors' = [actors EXCEPT ![a].at = to]
ActorEnds(a) == actors' = [actors EXCEPT ![a] = IdleActor]
Answers == acked' = actors.writer.value /\ before' = acked
Migrating(a) == actors[a].at \in {"recandidate", "rejournal", "rejournalled", "recommit"}
WriterBusy == ~ActorAt("writer", "idle")

-----------------------------------------------------------------------------
(* writeLifecycleDocument and readLifecycleDocument begin with an interrupted migration. *)
BeginWrite ==
  /\ ActorAt("writer", "idle") /\ tried < MaxWrites /\ tried' = tried + 1
  /\ actors' = [actors EXCEPT !.writer = [IdleActor EXCEPT !.at = "recover", !.value = tried']]
  /\ raced' = (raced \/ Migrating("reader"))
  /\ UNCHANGED files /\ UNCHANGED <<windows, acked, before, reply, damaged, docTroubles>>

BeginRead ==
  /\ ActorAt("reader", "idle")
  /\ actors' = [actors EXCEPT !.reader = [at |-> "recover", value |-> 0, floor |-> acked, before |-> before]]
  /\ UNCHANGED files /\ UNCHANGED history

Proceeds(a) == IF a = "writer" THEN ActorGoes(a, "prepare") ELSE ActorGoes(a, "read")

(* The legacy document a migration starts from: its backup, else the primary. *)
LegacySource == IF legacyBackup.form = "legacy" THEN legacyBackup ELSE primary

(* recoverInterruptedLifecycleMigration: the writer's own document is kept for its own write. *)
Recover(a) ==
  /\ ActorAt(a, "recover") /\ UNCHANGED files
  /\ UNCHANGED <<windows, acked, before, tried, reply, damaged, docTroubles>>
  /\ CASE journal = "none" -> Proceeds(a) /\ UNCHANGED raced
       [] journal # "none" /\ primary.form = "current" -> ActorGoes(a, "clean") /\ UNCHANGED raced
       [] journal # "none" /\ primary.form \notin {"current", "newer"} /\ LegacySource.form = "legacy" ->
            ActorGoes(a, "recandidate") /\ raced' = (raced \/ (a = "reader" /\ WriterBusy))
       [] OTHER -> ActorEnds(a) /\ UNCHANGED raced

Recandidate(a) ==
  /\ ActorAt(a, "recandidate") /\ ActorGoes(a, "rejournal")
  /\ candidate' = Contents("current", LegacySource.value)
  /\ UNCHANGED <<primary, backup, legacyBackup, journal>> /\ UNCHANGED history

(* writeMigrationJournal removes the journal before it replaces it. *)
JournalPlace(a) == CASE ActorAt(a, "journal") -> "journalled"
                     [] ActorAt(a, "rejournal") -> "rejournalled"
                     [] ActorAt(a, "revalidate") -> "revalidated"

JournalRemoved(a) ==
  /\ actors[a].at \in {"journal", "rejournal", "revalidate"}
  /\ ActorGoes(a, JournalPlace(a)) /\ journal' = "none"
  /\ UNCHANGED <<primary, backup, legacyBackup, candidate>> /\ UNCHANGED history

JournalWritten(a) ==
  /\ \/ ActorAt(a, "journalled") /\ journal' = "backup_written" /\ ActorGoes(a, "candidate")
     \/ ActorAt(a, "rejournalled") /\ journal' = "candidate_validated" /\ ActorGoes(a, "recommit")
     \/ ActorAt(a, "revalidated") /\ journal' = "candidate_validated" /\ ActorGoes(a, "commit")
  /\ UNCHANGED <<primary, backup, legacyBackup, candidate>> /\ UNCHANGED history

(* commitRenamedFile of the candidate; one that is gone fails the write, and lets a read go on. *)
Commit(a) ==
  /\ actors[a].at \in {"commit", "recommit"}
  /\ IF candidate = Missing
     THEN /\ IF a = "reader" THEN ActorGoes(a, "read") ELSE ActorEnds(a)
          /\ UNCHANGED <<primary, candidate>>
     ELSE /\ primary' = candidate /\ candidate' = Missing
          /\ ActorGoes(a, IF ActorAt(a, "commit") THEN "residue" ELSE "clean")
  /\ UNCHANGED <<backup, legacyBackup, journal>> /\ UNCHANGED history

(* removeMigrationResidue: the journal, then the candidate. *)
CleanJournal(a) ==
  /\ actors[a].at \in {"clean", "residue"} /\ journal' = "none"
  /\ ActorGoes(a, IF ActorAt(a, "clean") THEN "cleaned" ELSE "residued")
  /\ UNCHANGED <<primary, backup, legacyBackup, candidate>> /\ UNCHANGED history

CleanCandidate(a) ==
  /\ candidate' = Missing
  /\ \/ ActorAt(a, "cleaned") /\ Proceeds(a) /\ UNCHANGED <<acked, before>>
     \/ ActorAt(a, "residued") /\ Answers /\ ActorEnds(a)
  /\ UNCHANGED <<primary, backup, legacyBackup, journal>>
  /\ UNCHANGED <<windows, tried, reply, raced, damaged, docTroubles>>

-----------------------------------------------------------------------------
(* A newer document is never replaced; a current one is backed up first; a corrupt or missing one
   is replaced as it is. *)
PrepareWrite ==
  /\ ActorAt("writer", "prepare") /\ UNCHANGED files /\ UNCHANGED history
  /\ CASE primary.form = "newer" -> ActorEnds("writer")
       [] primary.form = "legacy" -> ActorGoes("writer", "preserve")
       [] primary.form = "current" -> ActorGoes("writer", "backup")
       [] OTHER -> ActorGoes("writer", "replace")

(* copyVerifiedPrimaryToMigrationBackup *)
Preserve ==
  /\ ActorAt("writer", "preserve") /\ ActorGoes("writer", "journal") /\ legacyBackup' = primary
  /\ UNCHANGED <<primary, backup, candidate, journal>> /\ UNCHANGED history

WriteCandidate ==
  /\ ActorAt("writer", "candidate") /\ ActorGoes("writer", "revalidate")
  /\ candidate' = Contents("current", actors.writer.value)
  /\ UNCHANGED <<primary, backup, legacyBackup, journal>> /\ UNCHANGED history

(* mutant: only the first document is backed up. *)
SavesFirst == backup' = IF backup = Missing THEN primary ELSE backup

Saves == backup' = primary

BackUp ==
  /\ ActorAt("writer", "backup") /\ ActorGoes("writer", "replace") /\ Saves
  /\ UNCHANGED <<primary, legacyBackup, candidate, journal>> /\ UNCHANGED history

(* replaceRegularFile renames a synced temporary file over the primary. *)
Replace ==
  /\ ActorAt("writer", "replace") /\ primary' = Contents("current", actors.writer.value)
  /\ Answers /\ ActorEnds("writer")
  /\ UNCHANGED <<backup, legacyBackup, candidate, journal>>
  /\ UNCHANGED <<windows, tried, reply, raced, damaged, docTroubles>>

(* On Windows a refused rename removes the destination before it is tried again; it is given up
   after a second. *)
Refused(a) ==
  /\ windows /\ actors[a].at \in {"replace", "commit", "recommit"}
  /\ primary' = Missing
  /\ \/ UNCHANGED actors
     \/ ActorEnds(a)
  /\ UNCHANGED <<backup, legacyBackup, candidate, journal>> /\ UNCHANGED history

-----------------------------------------------------------------------------
(* A primary that is missing reads as no document; one that does not parse as its backup, or as
   what was saved before the migration. *)
Readable(file) == file.form \in {"current", "legacy"}
Reading == CASE primary.form # "corrupt" -> primary
             [] primary.form = "corrupt" /\ Readable(backup) -> backup
             [] primary.form = "corrupt" /\ ~Readable(backup) /\ Readable(legacyBackup) -> legacyBackup
             [] OTHER -> primary

Read ==
  /\ ActorAt("reader", "read") /\ ActorEnds("reader")
  /\ reply' = [floor |-> actors.reader.floor, before |-> actors.reader.before, got |-> Reading]
  /\ UNCHANGED files /\ UNCHANGED <<windows, acked, before, tried, raced, damaged, docTroubles>>

DocTrouble == docTroubles < MaxDocTroubles /\ docTroubles' = docTroubles + 1

ActorDies(a) ==
  /\ ~ActorAt(a, "idle") /\ DocTrouble /\ ActorEnds(a)
  /\ UNCHANGED files /\ UNCHANGED <<windows, acked, before, tried, reply, raced, damaged>>

(* Only between writes: one that has judged the primary copies its bytes to the backup unread. *)
DamagePrimary ==
  /\ Readable(primary) /\ ~damaged /\ ~WriterBusy /\ DocTrouble
  /\ primary' = Contents("corrupt", 0) /\ damaged' = TRUE
  /\ UNCHANGED <<backup, legacyBackup, candidate, journal>>
  /\ UNCHANGED <<windows, actors, acked, before, tried, reply, raced>>

DocNext ==
  \/ BeginWrite \/ BeginRead
  \/ \E a \in Actor :
       \/ Recover(a) \/ Recandidate(a) \/ JournalRemoved(a) \/ JournalWritten(a) \/ Commit(a)
       \/ CleanJournal(a) \/ CleanCandidate(a) \/ Refused(a) \/ ActorDies(a)
  \/ PrepareWrite \/ Preserve \/ WriteCandidate \/ BackUp \/ Replace \/ Read \/ DamagePrimary

DocSpec == DocInit /\ [][DocNext]_docVars

-----------------------------------------------------------------------------
(* A read that began after a write was answered returns that write or a later one, whatever crash
   came between; after damage to the primary it returns at worst the write before.  This is so on
   hosts that replace a file in one step, unless a reader took over a migration whose writer was
   still at work.  (writeLifecycleDocument, readLifecycleDocument) *)
ReadsGoForward ==
  ~windows /\ ~raced =>
    /\ ~damaged /\ reply.floor > 0 => Readable(reply.got) /\ reply.got.value >= reply.floor
    /\ reply.before > 0 => Readable(reply.got) /\ reply.got.value >= reply.before

(* docs/reference/process-ownership-registry.md:61: a legacy document migrates atomically on the
   next trusted write.  It does not hold, and no run lists it: a reader that takes over a migration
   finishes it with the legacy document. *)
MigratesAtomically ==
  ~windows /\ ~damaged /\ reply.floor > 0 => Readable(reply.got) /\ reply.got.value >= reply.floor

(* docs/reference/process-ownership-registry.md:65: readers use the backup if an interrupted
   primary write is invalid.  It does not hold, and no run lists it: a primary that was removed for
   its replacement is missing, not invalid, and reads as no document. *)
InterruptedIsRead == ~damaged /\ reply.floor > 0 => Readable(reply.got)
==============================================================================
