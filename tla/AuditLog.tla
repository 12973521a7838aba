-------------------------------- MODULE AuditLog --------------------------------
(***************************************************************************)
(* One Audit directory (runtime/audit/store): a file of events per day,    *)
(* each event chained to the one before it.  A call takes its timestamp    *)
(* first, then waits for the lock (FileLock) under which it reads every    *)
(* file, chains its event to the last one and appends a line.  An event    *)
(* that is there already is answered as it is.                             *)
(*                                                                         *)
(* The log is the lines of all files as they are read, one file after the  *)
(* other.  File 0 is events.jsonl, which comes first and is no longer      *)
(* written; file d is the one of day d.                                    *)
(***************************************************************************)
EXTENDS Naturals, Sequences, SequencesExt, FiniteSetsExt

CONSTANTS
  Appender,  \* calls of appendAuditEvent
  Event,     \* event ids; a caller that repeats itself uses the same
  LastDay,   \* the last day of the instance
  MaxUpsets  \* bounds the crashes and the steps of the clock backwards

ASSUME AuditAssumption == LastDay \in Nat \ {0} /\ MaxUpsets \in Nat

VARIABLES
  log,       \* the lines
  today,     \* the clock
  appends,   \* per call: where it is, its event and the day of its timestamp
  recorded,  \* history: the events a call was answered for
  torn,      \* history: a writer died within an append
  upsets     \* the bound already used

auditVars == <<log, today, appends, recorded, torn, upsets>>

Day == 1..LastDay
NoAppend == [at |-> "idle", event |-> "none", day |-> 0]
Line(file, event, sequence, previous) ==
  [file |-> file, event |-> event, sequence |-> sequence, previous |-> previous,
   parses |-> TRUE, ends |-> TRUE]
Legacy == Line(0, "legacy", 1, "none")

AuditInit ==
  /\ log \in {<<>>, <<Legacy>>} /\ today = 1
  /\ appends = [c \in Appender |-> NoAppend] /\ recorded = {} /\ torn = FALSE /\ upsets = 0

(* appendAuditEvent: the timestamp, before the queue and the lock. *)
AskAppend(c, e) ==
  /\ appends[c].at = "idle"
  /\ appends' = [appends EXCEPT ![c] = [at |-> "append", event |-> e, day |-> today]]
  /\ UNCHANGED <<log, today, recorded, torn, upsets>>

(* readAuditFile skips what does not parse. *)
Existing == {i \in DOMAIN log : log[i].parses}

Known(e) == \E i \in Existing : log[i].event = e

(* mutant: an event goes to the file of its own day. *)
BucketOfEvent(day) == day

(* An event that waited past midnight, or a clock that was set back, goes to the latest file. *)
Bucket(day) == Max({day} \cup {log[i].file : i \in DOMAIN log})

Chained(e, day) ==
  IF Existing = {} THEN Line(Bucket(day), e, 1, "none")
  ELSE Line(Bucket(day), e, log[Max(Existing)].sequence + 1, log[Max(Existing)].event)

(* appendFile: a line that has no end yet becomes one with what follows it. *)
Appended(line) ==
  LET n == Cardinality({i \in DOMAIN log : log[i].file <= line.file}) IN
    IF n > 0 /\ log[n].file = line.file /\ ~log[n].ends
    THEN [log EXCEPT ![n] = [line EXCEPT !.parses = FALSE]]
    ELSE InsertAt(log, n + 1, line)

AppendLine(c) ==
  /\ appends[c].at = "append"
  /\ log' = IF Known(appends[c].event) THEN log ELSE Appended(Chained(appends[c].event, appends[c].day))
  /\ recorded' = recorded \cup {appends[c].event}
  /\ appends' = [appends EXCEPT ![c] = NoAppend]
  /\ UNCHANGED <<today, torn, upsets>>

(* The process dies within the append: some of the line is there, or all but its end. *)
AppendDies(c) ==
  /\ appends[c].at = "append" /\ upsets < MaxUpsets /\ ~Known(appends[c].event)
  /\ \E parses \in BOOLEAN :
       log' = Appended([Chained(appends[c].event, appends[c].day) EXCEPT
                          !.parses = parses, !.ends = FALSE])
  /\ appends' = [appends EXCEPT ![c] = NoAppend]
  /\ torn' = TRUE /\ upsets' = upsets + 1
  /\ UNCHANGED <<today, recorded>>

Clock ==
  /\ \/ today < LastDay /\ today' = today + 1 /\ UNCHANGED upsets
     \/ today > 1 /\ today' = today - 1 /\ upsets < MaxUpsets /\ upsets' = upsets + 1
  /\ UNCHANGED <<log, appends, recorded, torn>>

AuditNext ==
  \/ \E c \in Appender : AppendLine(c) \/ AppendDies(c) \/ \E e \in Event : AskAppend(c, e)
  \/ Clock

AuditSpec == AuditInit /\ [][AuditNext]_auditVars

-----------------------------------------------------------------------------
(* verifyAuditFiles *)
Verified ==
  \A i \in DOMAIN log :
    /\ log[i].parses /\ log[i].sequence = i
    /\ log[i].previous = IF i = 1 THEN "none" ELSE log[i - 1].event

(* The chain verifies unless a writer died within an append; and a chain that verifies holds
   every answered event once, whatever crossed midnight, was repeated or was cut short.
   docs/reference/audit.md, "Tamper Evidence".  (appendAuditLine, verifyAuditFiles) *)
VerifiedIsComplete ==
  /\ ~torn => Verified
  /\ Verified => \A e \in recorded :
       \E i \in DOMAIN log : \A j \in DOMAIN log : log[j].event = e <=> j = i
================================================================================
