------------------------ MODULE GuardedOperationsProofs ------------------------
(***************************************************************************)
(* For any calls, keys, confirmations, processes and faults: a key and a   *)
(* confirmation act once, an operation keeps its end, and what is said of  *)
(* a call is true.                                                         *)
(***************************************************************************)
EXTENDS GuardedOperations, FiniteSetTheorems, TLAPS

Places == {"admitting", "auditing", "reading", "claiming", "authorizing", "executing", "recording",
           "finalizing", "staging", "settling", "done"}
Word == {"none", "running", "cancelling", "succeeded", "failed", "cancelled", "skipped",
         "unknown_after_crash", "replayed", "existing", "error"}
Plans == [revision : Nat, executable : BOOLEAN]
Asking == [at : Places, process : Process, via : Adapter, key : Key,
           confirmation : Confirmation \cup {"none"}, approved : Plans, aborted : BOOLEAN,
           result : Word]
Entries == [call : Call \cup {"none"}, pending : Word, response : Word]
Records == [status : Word, pending : Word, fresh : BOOLEAN, expired : BOOLEAN]

CallsTyped == calls \in [Call -> {Unasked} \cup Asking]
OperationsTyped == operations \in [Call -> Records]

GuardedTypeOK ==
  /\ CallsTyped
  /\ OperationsTyped
  /\ plan \in Plans
  /\ journal \in [Key -> Entries]
  /\ performed \in [Call -> Word]
  /\ recovered \in [Call -> Word]

(* A call that may act, or has acted, is the one its key's entry names. *)
Holds(c) == calls[c].at \in {"authorizing", "executing", "recording"} \/ performed[c] # "none"
KeyIsTaken == \A c \in Call : Holds(c) => Asked(c) /\ journal[calls[c].key].call = c

(* An operation has no record before it is admitted, and nothing to settle after its end. *)
RecordFollows ==
  \A c \in Call :
    /\ calls[c].at \in {"idle", "admitting"} =>
         operations[c].status = "none" /\ operations[c].pending = "none"
    /\ IsTerminal(operations[c].status) => operations[c].pending = "none"

GuardedInv == GuardedTypeOK /\ KeyIsTaken /\ RecordFollows

-----------------------------------------------------------------------------
(* What the steps have in common. *)

(* A call goes on, and the others stay. *)
Advances(c, to) ==
  /\ CallsTyped'
  /\ calls'[c].at = to
  /\ calls'[c].key = calls[c].key
  /\ \A d \in Call : d # c => calls'[d] = calls[d]

LEMMA AskedIsRecord ==
  ASSUME CallsTyped, NEW c \in Call, calls[c].at # "idle"
  PROVE  calls[c] \in Asking
BY DEF CallsTyped, Unasked

LEMMA GoesAdvances ==
  ASSUME CallsTyped, NEW c \in Call, Asked(c), NEW to \in Places, Goes(c, to)
  PROVE  Advances(c, to)
<1>1. calls[c] \in Asking
  BY AskedIsRecord DEF Asked
<1>2. calls' = [calls EXCEPT ![c] = [calls[c] EXCEPT !.at = to]]
  BY DEF Goes
<1>3. [calls[c] EXCEPT !.at = to] \in Asking
  BY <1>1 DEF Asking
<1>4. [calls[c] EXCEPT !.at = to].at = to /\ [calls[c] EXCEPT !.at = to].key = calls[c].key
  BY <1>1 DEF Asking
<1> QED
  BY <1>2, <1>3, <1>4 DEF Advances, CallsTyped

LEMMA EndsAdvances ==
  ASSUME CallsTyped, NEW c \in Call, Asked(c), NEW to \in Places, NEW result \in Word,
         Ends(c, to, result)
  PROVE  Advances(c, to)
<1> DEFINE r == [calls[c] EXCEPT !.at = to, !.result = result, !.approved = NoPlan]
<1>1. calls[c] \in Asking
  BY AskedIsRecord DEF Asked
<1>2. calls' = [calls EXCEPT ![c] = r]
  BY <1>1 DEF Ends, CallsTyped
<1>3. NoPlan \in Plans
  BY DEF NoPlan, Plans
<1>4. r \in Asking /\ r.at = to /\ r.key = calls[c].key
  BY <1>1, <1>3 DEF Asking
<1> QED
  BY <1>2, <1>4 DEF Advances, CallsTyped

(* A step of a call that keeps every entry's call and does not bring the call to where it may act. *)
LEMMA KeyStaysTaken ==
  ASSUME KeyIsTaken, NEW c \in Call, Asked(c), NEW to \in Places, Advances(c, to),
         to \in {"authorizing", "executing", "recording"} =>
           calls[c].at \in {"authorizing", "executing", "recording"},
         \A k \in Key : journal'[k].call = journal[k].call,
         performed' = performed, CallsTyped
  PROVE  KeyIsTaken'
<1> SUFFICES ASSUME NEW d \in Call, Holds(d)' PROVE Asked(d)' /\ journal'[calls'[d].key].call = d
  BY DEF KeyIsTaken
<1>1. Holds(d) /\ calls'[d].key = calls[d].key /\ (Asked(d) => Asked(d)')
  <2>1. CASE d = c
    BY <2>1 DEF Advances, Holds, Asked, Places
  <2>2. CASE d # c
    BY <2>2 DEF Advances, Holds, Asked
  <2> QED
    BY <2>1, <2>2
<1>2. Asked(d) /\ journal[calls[d].key].call = d
  BY <1>1 DEF KeyIsTaken
<1>3. calls[d].key \in Key
  BY <1>2, AskedIsRecord DEF Asked, Asking
<1> QED
  BY <1>1, <1>2, <1>3

(* A step that leaves the calls alone. *)
LEMMA KeyStaysTakenQuietly ==
  ASSUME KeyIsTaken, CallsTyped, calls' = calls, performed' = performed,
         \A k \in Key : journal'[k].call = journal[k].call
  PROVE  KeyIsTaken'
<1> SUFFICES ASSUME NEW d \in Call, Holds(d)' PROVE Asked(d)' /\ journal'[calls'[d].key].call = d
  BY DEF KeyIsTaken
<1>1. Asked(d) /\ journal[calls[d].key].call = d
  BY DEF KeyIsTaken, Holds
<1>2. calls[d].key \in Key
  BY <1>1, AskedIsRecord DEF Asked, Asking
<1> QED
  BY <1>1, <1>2 DEF Asked

(* What may happen to an operation's record. *)
RecordMoves(d) ==
  /\ \/ /\ operations'[d].status = operations[d].status
        /\ operations'[d].pending = operations[d].pending
     \/ operations'[d].status = "none" /\ operations'[d].pending = "none"
     \/ /\ calls'[d].at \notin {"idle", "admitting"}
        /\ IsTerminal(operations'[d].status) => operations'[d].pending = "none"
  /\ calls'[d].at \in {"idle", "admitting"} => calls[d].at \in {"idle", "admitting"}
  /\ IsTerminal(operations[d].status) => operations'[d].status \in {operations[d].status, "none"}

LEMMA RecordsFollow ==
  ASSUME RecordFollows, \A d \in Call : RecordMoves(d)
  PROVE  RecordFollows' /\ KeepsItsEnd
<1>1. RecordFollows'
  BY DEF RecordFollows, RecordMoves, IsTerminal
<1>2. KeepsItsEnd
  BY DEF KeepsItsEnd, RecordMoves
<1> QED
  BY <1>1, <1>2

(* Nothing of the calls, the entries and the records changes. *)
LEMMA QuietStep ==
  ASSUME GuardedInv, UNCHANGED <<calls, journal, operations, performed, recovered>>, plan' \in Plans
  PROVE  GuardedInv' /\ KeepsItsEnd
<1>1. GuardedTypeOK'
  BY DEF GuardedInv, GuardedTypeOK, CallsTyped, OperationsTyped
<1>2. KeyIsTaken'
  BY KeyStaysTakenQuietly DEF GuardedInv, GuardedTypeOK
<1>3. RecordFollows' /\ KeepsItsEnd
  BY RecordsFollow DEF GuardedInv, RecordMoves
<1> QED
  BY <1>1, <1>2, <1>3 DEF GuardedInv

(* A call goes on; the entries keep the calls they name, and the records stay. *)
LEMMA CallStep ==
  ASSUME GuardedInv, NEW c \in Call, Asked(c), NEW to \in Places \ {"admitting"}, Advances(c, to),
         to \in {"authorizing", "executing", "recording"} =>
           calls[c].at \in {"authorizing", "executing", "recording"},
         journal' \in [Key -> Entries], \A k \in Key : journal'[k].call = journal[k].call,
         plan' \in Plans, UNCHANGED <<operations, performed, recovered>>
  PROVE  GuardedInv' /\ KeepsItsEnd
<1>1. GuardedTypeOK'
  BY DEF GuardedInv, GuardedTypeOK, OperationsTyped, Advances
<1>2. KeyIsTaken'
  BY KeyStaysTaken DEF GuardedInv, GuardedTypeOK
<1>3. RecordFollows' /\ KeepsItsEnd
  <2>1. ASSUME NEW d \in Call PROVE RecordMoves(d)
    BY DEF RecordMoves, Advances, Places
  <2> QED
    BY <2>1, RecordsFollow DEF GuardedInv
<1> QED
  BY <1>1, <1>2, <1>3 DEF GuardedInv

(* The records change, and at most one call goes on towards its end. *)
LEMMA RecordStep ==
  ASSUME GuardedInv, UNCHANGED <<journal, performed, plan>>, OperationsTyped',
         recovered' \in [Call -> Word], CallsTyped',
         \A d \in Call : RecordMoves(d),
         \A d \in Call : /\ calls'[d].key = calls[d].key
                         /\ calls'[d].at = "idle" => calls[d].at = "idle"
                         /\ calls'[d].at \in {"authorizing", "executing", "recording"} =>
                              calls[d].at \in {"authorizing", "executing", "recording"}
  PROVE  GuardedInv' /\ KeepsItsEnd
<1>1. GuardedTypeOK'
  BY DEF GuardedInv, GuardedTypeOK
<1>2. KeyIsTaken'
  BY DEF GuardedInv, KeyIsTaken, Holds, Asked
<1> QED
  BY <1>1, <1>2, RecordsFollow DEF GuardedInv

(* The steps that close or mark an entry leave the call it names. *)
LEMMA EntryChanges ==
  ASSUME journal \in [Key -> Entries], NEW k \in Key, NEW e \in Entries, e.call = journal[k].call,
         journal' = [journal EXCEPT ![k] = e]
  PROVE  journal' \in [Key -> Entries] /\ \A l \in Key : journal'[l].call = journal[l].call
OBVIOUS

LEMMA ClosedIsEntry ==
  ASSUME NEW e \in Entries
  PROVE  Closed(e) \in Entries /\ Closed(e).call = e.call
<1>1. Closed(e) = [call |-> e.call, pending |-> "none", response |-> e.pending]
  <2>1. e = [call |-> e.call, pending |-> e.pending, response |-> e.response]
    BY DEF Entries
  <2>2. [e EXCEPT !.response = e.pending] =
          [call |-> e.call, pending |-> e.pending, response |-> e.pending]
    BY <2>1
  <2>3. [[call |-> e.call, pending |-> e.pending, response |-> e.pending] EXCEPT !.pending = "none"]
          = [call |-> e.call, pending |-> "none", response |-> e.pending]
    OBVIOUS
  <2>4. Closed(e) = [[e EXCEPT !.response = e.pending] EXCEPT !.pending = "none"]
    BY DEF Closed
  <2> QED
    BY <2>2, <2>3, <2>4
<1>2. e.call \in Call \cup {"none"} /\ e.pending \in Word
  BY DEF Entries
<1> QED
  BY <1>1, <1>2 DEF Entries, Word

LEMMA CloseEntryKeepsCalls ==
  ASSUME journal \in [Key -> Entries], NEW k \in Key, CloseEntry(k)
  PROVE  journal' \in [Key -> Entries] /\ \A l \in Key : journal'[l].call = journal[l].call
BY ClosedIsEntry, EntryChanges DEF CloseEntry

-----------------------------------------------------------------------------

LEMMA InitIsSound == GuardedInit => GuardedInv
<1> SUFFICES ASSUME GuardedInit PROVE GuardedInv
  OBVIOUS
<1>1. NoEntry \in Entries /\ NoOperation \in Records /\ plan \in Plans
  BY DEF NoEntry, Entries, NoOperation, Records, GuardedInit, Plans, Word
<1>2. GuardedTypeOK
  <2>1. CallsTyped /\ OperationsTyped
    BY <1>1 DEF GuardedInit, CallsTyped, OperationsTyped
  <2>2. journal \in [Key -> Entries]
    BY <1>1 DEF GuardedInit
  <2>3. performed \in [Call -> Word] /\ recovered \in [Call -> Word]
    BY DEF GuardedInit, Word
  <2> QED
    BY <1>1, <2>1, <2>2, <2>3 DEF GuardedTypeOK
<1>3. KeyIsTaken
  BY DEF GuardedInit, KeyIsTaken, Holds, Unasked
<1>4. RecordFollows
  BY DEF GuardedInit, RecordFollows, NoOperation, IsTerminal
<1> QED
  BY <1>2, <1>3, <1>4 DEF GuardedInv

LEMMA AskIsSound ==
  ASSUME GuardedInv, NEW c \in Call, NEW p \in Process, NEW via \in Adapter, NEW k \in Key,
         NEW id \in Confirmation \cup {"none"}, Ask(c, p, via, k, id)
  PROVE  GuardedInv' /\ KeepsItsEnd
<1> DEFINE r == [at |-> "admitting", process |-> p, via |-> via, key |-> k, confirmation |-> id,
                 approved |-> NoPlan, aborted |-> FALSE, result |-> "none"]
<1>1. r \in Asking
  <2>1. NoPlan \in Plans
    BY DEF NoPlan, Plans
  <2> QED
    BY <2>1 DEF Asking, Places, Word
<1>2. CallsTyped /\ calls' = [calls EXCEPT ![c] = r] /\ calls[c].at = "idle"
  BY DEF Ask, Asked, GuardedInv, GuardedTypeOK
<1>3. CallsTyped' /\ calls'[c] = r /\ \A d \in Call : d # c => calls'[d] = calls[d]
  BY <1>1, <1>2 DEF CallsTyped
<1>4. GuardedTypeOK'
  BY <1>3 DEF Ask, GuardedInv, GuardedTypeOK, OperationsTyped
<1>5. ~Holds(c) /\ ~Holds(c)'
  BY <1>2, <1>3 DEF GuardedInv, KeyIsTaken, Holds, Asked, Ask
<1>6. KeyIsTaken'
  BY <1>3, <1>5 DEF GuardedInv, KeyIsTaken, Holds, Asked, Ask
<1>7. \A d \in Call : RecordMoves(d)
  BY <1>2, <1>3 DEF RecordMoves, Ask
<1> QED
  BY <1>4, <1>6, <1>7, RecordsFollow DEF GuardedInv

LEMMA AtIsAsked ==
  ASSUME NEW c \in Call, NEW place \in Places, At(c, place)
  PROVE  Asked(c) /\ calls[c].at = place
BY DEF At, Lives, Running, Asked

(* The types of what a step reads of a call and of its entry. *)
LEMMA CallFacts ==
  ASSUME GuardedInv, NEW c \in Call, Asked(c)
  PROVE  /\ calls[c].key \in Key /\ Entry(c) \in Entries
         /\ calls[c].result \in Word /\ calls[c].approved \in Plans
<1>1. calls[c] \in Asking
  BY AskedIsRecord DEF GuardedInv, GuardedTypeOK, Asked
<1> QED
  BY <1>1 DEF GuardedInv, GuardedTypeOK, Entry, Asking

(* A step of a call that reads, without writing an entry. *)
LEMMA ReadingStep ==
  ASSUME GuardedInv, NEW c \in Call, Asked(c), NEW to \in Places \ {"admitting"}, Advances(c, to),
         to \in {"authorizing", "executing", "recording"} =>
           calls[c].at \in {"authorizing", "executing", "recording"},
         UNCHANGED <<journal, plan, operations, performed, recovered>>
  PROVE  GuardedInv' /\ KeepsItsEnd
BY CallStep DEF GuardedInv, GuardedTypeOK

LEMMA EndsIsSound ==
  ASSUME GuardedInv, NEW c \in Call, Asked(c), NEW result \in Word, Ends(c, "staging", result),
         UNCHANGED <<journal, plan, operations, performed, recovered>>
  PROVE  GuardedInv' /\ KeepsItsEnd
<1>1. Advances(c, "staging")
  BY EndsAdvances DEF Places, GuardedInv, GuardedTypeOK
<1> QED
  BY <1>1, ReadingStep DEF Places

LEMMA ReadJournalIsSound ==
  ASSUME GuardedInv, NEW c \in Call, ReadJournal(c)
  PROVE  GuardedInv' /\ KeepsItsEnd
<1>1. Asked(c) /\ UNCHANGED <<journal, plan, operations, performed, recovered>>
  BY AtIsAsked DEF ReadJournal, Places
<1>2. CASE calls' = [calls EXCEPT ![c].at = "claiming", ![c].approved = plan]
  <2> DEFINE r == [calls[c] EXCEPT !.at = "claiming", !.approved = plan]
  <2>1. calls[c] \in Asking /\ plan \in Plans /\ CallsTyped
    BY <1>1, AskedIsRecord DEF GuardedInv, GuardedTypeOK, Asked
  <2>2. calls' = [calls EXCEPT ![c] = r]
    BY <1>2, <2>1 DEF CallsTyped
  <2>3. r \in Asking /\ r.at = "claiming" /\ r.key = calls[c].key
    BY <2>1 DEF Asking, Places
  <2>4. Advances(c, "claiming")
    BY <2>1, <2>2, <2>3 DEF Advances, CallsTyped
  <2> QED
    BY <1>1, <2>4, ReadingStep DEF Places
<1>3. CASE Goes(c, "finalizing")
  BY <1>1, <1>3, GoesAdvances, ReadingStep DEF Places, GuardedInv, GuardedTypeOK
<1>4. CASE Ends(c, "staging", "error") \/ Ends(c, "staging", "replayed")
  BY <1>1, <1>4, EndsIsSound DEF Word
<1> QED
  BY <1>2, <1>3, <1>4 DEF ReadJournal

(* A free entry names no call, so whoever opens it takes it from nobody. *)
LEMMA OpeningIsSound ==
  ASSUME GuardedInv, NEW c \in Call, Asked(c), Free(Entry(c)), NEW pending \in Word,
         NEW to \in Places \ {"admitting"}, Advances(c, to),
         journal' = [journal EXCEPT ![calls[c].key] = Opened(c, pending)],
         UNCHANGED <<plan, operations, performed, recovered>>
  PROVE  GuardedInv' /\ KeepsItsEnd
<1>1. calls[c].key \in Key /\ journal \in [Key -> Entries]
  BY CallFacts DEF GuardedInv, GuardedTypeOK
<1>2. Opened(c, pending) \in Entries /\ Opened(c, pending).call = c
  BY DEF Opened, Entries, Word
<1>3. journal' \in [Key -> Entries] /\ journal'[calls[c].key] = Opened(c, pending)
      /\ \A k \in Key : k # calls[c].key => journal'[k] = journal[k]
  BY <1>1, <1>2
<1>4. journal[calls[c].key].call \notin Call
  BY CallAssumption DEF Free, Entry, NoEntry
<1>5. GuardedTypeOK'
  BY <1>3 DEF GuardedInv, GuardedTypeOK, OperationsTyped, Advances
<1>6. KeyIsTaken'
  <2> SUFFICES ASSUME NEW d \in Call, Holds(d)' PROVE Asked(d)' /\ journal'[calls'[d].key].call = d
    BY DEF KeyIsTaken
  <2>1. CASE d = c
    BY <2>1, <1>2, <1>3 DEF Advances, Asked, Places
  <2>2. CASE d # c
    <3>1. Asked(d) /\ journal[calls[d].key].call = d /\ calls'[d] = calls[d]
      BY <2>2 DEF Advances, GuardedInv, KeyIsTaken, Holds
    <3>2. calls[d].key \in Key /\ calls[d].key # calls[c].key
      BY <3>1, <1>4, CallFacts
    <3> QED
      BY <3>1, <3>2, <1>3 DEF Asked
  <2> QED
    BY <2>1, <2>2
<1>7. \A d \in Call : RecordMoves(d)
  BY DEF RecordMoves, Advances, Places
<1> QED
  BY <1>5, <1>6, <1>7, RecordsFollow DEF GuardedInv

LEMMA ClaimIsSound ==
  ASSUME GuardedInv, NEW c \in Call, Claim(c)
  PROVE  GuardedInv' /\ KeepsItsEnd
<1>1. Asked(c) /\ UNCHANGED <<plan, operations, performed, recovered>>
  BY AtIsAsked DEF Claim, Places
<1>2. ASSUME NEW result \in Word, Ends(c, "staging", result), UNCHANGED journal
      PROVE  GuardedInv' /\ KeepsItsEnd
  BY <1>1, <1>2, EndsIsSound
<1>3. ASSUME NEW pending \in Word, NEW to \in {"authorizing", "finalizing"}, Goes(c, to),
             Free(Entry(c)), journal' = [journal EXCEPT ![calls[c].key] = Opened(c, pending)]
      PROVE  GuardedInv' /\ KeepsItsEnd
  <2>1. Advances(c, to)
    BY <1>1, <1>3, GoesAdvances DEF Places, GuardedInv, GuardedTypeOK
  <2> QED
    BY <1>1, <1>3, <2>1, OpeningIsSound DEF Places
<1>4. ASSUME UNCHANGED <<journal, calls>>
      PROVE  GuardedInv' /\ KeepsItsEnd
  BY <1>1, <1>4, QuietStep DEF GuardedInv, GuardedTypeOK
<1>5. \/ \E result \in {"replayed", "error"} : Ends(c, "staging", result) /\ UNCHANGED journal
      \/ \E pending \in {"skipped", "none"}, to \in {"authorizing", "finalizing"} :
           /\ Goes(c, to) /\ Free(Entry(c))
           /\ journal' = [journal EXCEPT ![calls[c].key] = Opened(c, pending)]
      \/ UNCHANGED <<journal, calls>>
  BY DEF Claim
<1> QED
  BY <1>2, <1>3, <1>4, <1>5 DEF Word

LEMMA AuthorizeIsSound ==
  ASSUME GuardedInv, NEW c \in Call, Authorize(c)
  PROVE  GuardedInv' /\ KeepsItsEnd
<1>1. Asked(c) /\ calls[c].at = "authorizing"
      /\ UNCHANGED <<journal, plan, operations, performed, recovered>>
  BY AtIsAsked DEF Authorize, Places
<1>2. CASE Goes(c, "executing")
  BY <1>1, <1>2, GoesAdvances, ReadingStep DEF Places, GuardedInv, GuardedTypeOK
<1>3. CASE Ends(c, "staging", "error")
  BY <1>1, <1>3, EndsIsSound DEF Word
<1> QED
  BY <1>2, <1>3 DEF Authorize

LEMMA ChangedIsPlan ==
  ASSUME plan \in Plans, plan' \in Changed
  PROVE  plan' \in Plans
BY DEF Changed, Plans

LEMMA ExecuteIsSound ==
  ASSUME GuardedInv, NEW c \in Call, Execute(c)
  PROVE  GuardedInv' /\ KeepsItsEnd
<1>1. /\ Asked(c) /\ calls[c].at = "executing"
      /\ UNCHANGED <<journal, operations, recovered>>
  BY AtIsAsked DEF Execute, Places
<1>2. Advances(c, "recording")
  BY <1>1, EndsAdvances DEF Execute, Places, Word, GuardedInv, GuardedTypeOK
<1>3. plan' \in Plans
  BY ChangedIsPlan DEF Execute, GuardedInv, GuardedTypeOK
<1>4. performed' \in [Call -> Word] /\ \A d \in Call : d # c => performed'[d] = performed[d]
  BY DEF Execute, GuardedInv, GuardedTypeOK, Word
<1>5. GuardedTypeOK'
  BY <1>1, <1>2, <1>3, <1>4 DEF GuardedInv, GuardedTypeOK, OperationsTyped, Advances
<1>6. KeyIsTaken'
  <2> SUFFICES ASSUME NEW d \in Call, Holds(d)' PROVE Asked(d)' /\ journal'[calls'[d].key].call = d
    BY DEF KeyIsTaken
  <2>1. Holds(d) /\ calls'[d].key = calls[d].key /\ (Asked(d) => Asked(d)')
    BY <1>1, <1>2, <1>4 DEF Advances, Holds, Asked
  <2> QED
    BY <1>1, <2>1 DEF GuardedInv, KeyIsTaken
<1>7. \A d \in Call : RecordMoves(d)
  BY <1>1, <1>2 DEF RecordMoves, Advances
<1> QED
  BY <1>5, <1>6, <1>7, RecordsFollow DEF GuardedInv

LEMMA RecordResultIsSound ==
  ASSUME GuardedInv, NEW c \in Call, RecordResult(c)
  PROVE  GuardedInv' /\ KeepsItsEnd
<1>1. Asked(c) /\ UNCHANGED <<plan, operations, performed, recovered>>
  BY AtIsAsked DEF RecordResult, Places
<1>2. Advances(c, "finalizing")
  BY <1>1, GoesAdvances DEF RecordResult, Places, GuardedInv, GuardedTypeOK
<1>3. calls[c].key \in Key /\ Entry(c) \in Entries /\ calls[c].result \in Word
  BY <1>1, CallFacts
<1> DEFINE e == [journal[calls[c].key] EXCEPT !.pending = calls[c].result]
<1>4. e \in Entries /\ e.call = journal[calls[c].key].call
  BY <1>3 DEF Entry, Entries
<1>5. journal \in [Key -> Entries] /\ journal' = [journal EXCEPT ![calls[c].key] = e]
  BY <1>3 DEF RecordResult, GuardedInv, GuardedTypeOK
<1>6. journal' \in [Key -> Entries] /\ \A k \in Key : journal'[k].call = journal[k].call
  BY <1>3, <1>4, <1>5, EntryChanges
<1> QED
  BY <1>1, <1>2, <1>6, CallStep DEF Places, GuardedInv, GuardedTypeOK

LEMMA FinalizeIsSound ==
  ASSUME GuardedInv, NEW c \in Call, Finalize(c)
  PROVE  GuardedInv' /\ KeepsItsEnd
<1>1. Asked(c) /\ UNCHANGED <<plan, operations, performed, recovered>>
  BY AtIsAsked DEF Finalize, Places
<1>2. calls[c].key \in Key /\ Entry(c) \in Entries /\ ResultFor(c) \in Word
  BY <1>1, CallFacts DEF ResultFor, Entries, Word
<1>3. journal \in [Key -> Entries] /\ plan \in Plans
  BY DEF GuardedInv, GuardedTypeOK
<1>4. CASE CloseEntry(calls[c].key) /\ Ends(c, "staging", ResultFor(c))
  <2>1. Advances(c, "staging")
    BY <1>1, <1>2, <1>4, EndsAdvances DEF Places, GuardedInv, GuardedTypeOK
  <2> QED
    BY <1>1, <1>2, <1>3, <1>4, <2>1, CloseEntryKeepsCalls, CallStep DEF Places
<1>5. ASSUME NEW result \in Word, Ends(c, "staging", result), UNCHANGED journal
      PROVE  GuardedInv' /\ KeepsItsEnd
  BY <1>1, <1>5, EndsIsSound
<1>6. CASE UNCHANGED <<journal, calls>>
  BY <1>1, <1>3, <1>6, QuietStep
<1> QED
  BY <1>2, <1>4, <1>5, <1>6 DEF Finalize, Word

-----------------------------------------------------------------------------
(* The steps on operation records. *)

(* A record whose fields change keeps its type. *)
LEMMA RecordChanges ==
  ASSUME OperationsTyped, NEW c \in Call, NEW r \in Records,
         operations' = [operations EXCEPT ![c] = r]
  PROVE  /\ OperationsTyped' /\ operations'[c] = r
         /\ \A d \in Call : d # c => operations'[d] = operations[d]
BY DEF OperationsTyped

(* Staging and settling, whoever does it. *)
LEMMA StagedRecord ==
  ASSUME GuardedInv, NEW c \in Call, NEW outcome \in Word, operations' = Staged(c, outcome),
         calls[c].at \notin {"idle", "admitting"} \/ operations[c].status = "none",
         \A d \in Call : /\ calls'[d].at \in {"idle", "admitting"} => calls'[d] = calls[d]
                         /\ calls[d].at \notin {"idle", "admitting"} =>
                              calls'[d].at \notin {"idle", "admitting"}
  PROVE  OperationsTyped' /\ \A d \in Call : RecordMoves(d)
<1>1. CASE operations' = operations
  BY <1>1 DEF RecordMoves, GuardedInv, GuardedTypeOK, OperationsTyped
<1>2. CASE operations' # operations
  <2> DEFINE r == [operations[c] EXCEPT !.pending = outcome]
  <2>1. operations[c] \in Records /\ OperationsTyped
    BY DEF GuardedInv, GuardedTypeOK, OperationsTyped
  <2>2. operations' = [operations EXCEPT ![c] = r] /\ ~IsTerminal(operations[c].status)
        /\ operations[c].status # "none"
    BY <1>2, <2>1 DEF Staged, OperationsTyped
  <2>3. r \in Records /\ r.status = operations[c].status /\ r.pending = outcome
    BY <2>1 DEF Records
  <2>4. /\ OperationsTyped' /\ operations'[c] = r
        /\ \A d \in Call : d # c => operations'[d] = operations[d]
    BY <2>1, <2>2, <2>3, RecordChanges
  <2>5. \A d \in Call : RecordMoves(d)
    BY <2>2, <2>3, <2>4 DEF RecordMoves
  <2> QED
    BY <2>4, <2>5
<1> QED
  BY <1>1, <1>2

LEMMA SettledRecord ==
  ASSUME GuardedInv, NEW c \in Call, operations[c].pending # "none", operations' = Settled(c),
         \A d \in Call : calls'[d].at \in {"idle", "admitting"} => calls'[d] = calls[d]
  PROVE  OperationsTyped' /\ \A d \in Call : RecordMoves(d)
<1> DEFINE r == [operations[c] EXCEPT !.status = operations[c].pending, !.pending = "none",
                                      !.expired = FALSE]
<1>1. operations[c] \in Records /\ OperationsTyped
  BY DEF GuardedInv, GuardedTypeOK, OperationsTyped
<1>2. /\ ~IsTerminal(operations[c].status)
      /\ calls[c].at \notin {"idle", "admitting"}
  BY DEF GuardedInv, RecordFollows
<1>3. operations' = [operations EXCEPT ![c] = r]
  BY <1>1 DEF Settled, OperationsTyped
<1>4. r \in Records /\ r.pending = "none"
  BY <1>1 DEF Records, Word
<1>5. /\ OperationsTyped' /\ operations'[c] = r
      /\ \A d \in Call : d # c => operations'[d] = operations[d]
  BY <1>1, <1>3, <1>4, RecordChanges
<1>6. \A d \in Call : RecordMoves(d)
  BY <1>2, <1>4, <1>5 DEF RecordMoves
<1> QED
  BY <1>5, <1>6

(* A record that is open takes another status that is no end, or another flag. *)
LEMMA OpenRecord ==
  ASSUME GuardedInv, NEW c \in Call, NEW r \in Records, operations' = [operations EXCEPT ![c] = r],
         r.pending = operations[c].pending,
         \/ r.status = operations[c].status
         \/ operations[c].status \in {"running", "cancelling"} /\ r.status \in {"running", "cancelling"},
         \A d \in Call : calls'[d].at = calls[d].at
  PROVE  OperationsTyped' /\ \A d \in Call : RecordMoves(d)
<1>1. /\ OperationsTyped' /\ operations'[c] = r
      /\ \A d \in Call : d # c => operations'[d] = operations[d]
  BY RecordChanges DEF GuardedInv, GuardedTypeOK
<1>2. ASSUME NEW d \in Call PROVE RecordMoves(d)
  BY <1>1 DEF RecordMoves, GuardedInv, RecordFollows, IsTerminal
<1> QED
  BY <1>1, <1>2

(* What a call that goes on leaves of the calls. *)
LEMMA AdvancesFits ==
  ASSUME NEW c \in Call, NEW to \in {"auditing", "reading", "settling", "done"}, Advances(c, to)
  PROVE  /\ CallsTyped'
         /\ \A d \in Call : /\ calls'[d].key = calls[d].key
                            /\ calls'[d].at = "idle" => calls[d].at = "idle"
                            /\ calls'[d].at \in {"idle", "admitting"} => calls'[d] = calls[d]
                            /\ calls'[d].at \in {"authorizing", "executing", "recording"} =>
                                 calls[d].at \in {"authorizing", "executing", "recording"}
BY DEF Advances

LEMMA CleanedIsTyped ==
  ASSUME OperationsTyped
  PROVE  /\ Cleaned \in [Call -> Records] /\ NoOperation \in Records
         /\ \A d \in Call : Cleaned[d] = operations[d] \/ Cleaned[d] = NoOperation
<1>1. NoOperation \in Records
  BY DEF NoOperation, Records, Word
<1> QED
  BY <1>1 DEF Cleaned, OperationsTyped

LEMMA AdmitIsSound ==
  ASSUME GuardedInv, NEW c \in Call, Admit(c)
  PROVE  GuardedInv' /\ KeepsItsEnd
<1>1. /\ Asked(c) /\ calls[c].at = "admitting"
      /\ UNCHANGED <<journal, plan, performed, recovered>>
  BY AtIsAsked DEF Admit, Places
<1>2. /\ Cleaned \in [Call -> Records] /\ NoOperation \in Records
      /\ \A d \in Call : Cleaned[d] = operations[d] \/ Cleaned[d] = NoOperation
  BY CleanedIsTyped DEF GuardedInv, GuardedTypeOK
<1>3. CASE Admitted(c)
  <2> DEFINE r == [NoOperation EXCEPT !.status = "running", !.fresh = TRUE]
  <2>1. r \in Records /\ r.status = "running" /\ r.pending = "none"
    BY DEF NoOperation, Records, Word
  <2>2. operations' = [Cleaned EXCEPT ![c] = r] /\ Goes(c, "auditing")
    BY <1>3 DEF Admit
  <2>3. OperationsTyped' /\ operations'[c] = r /\ \A d \in Call : d # c => operations'[d] = Cleaned[d]
    BY <1>2, <2>1, <2>2 DEF OperationsTyped
  <2>4. Advances(c, "auditing")
    BY <1>1, <2>2, GoesAdvances DEF Places, GuardedInv, GuardedTypeOK
  <2>5. operations[c].status = "none" /\ ~IsTerminal("none")
    BY <1>1 DEF GuardedInv, RecordFollows, IsTerminal
  <2>6. ASSUME NEW d \in Call PROVE RecordMoves(d)
    <3>1. CASE d = c
      BY <3>1, <2>1, <2>3, <2>4, <2>5 DEF RecordMoves, Advances, IsTerminal
    <3>2. CASE d # c
      BY <3>2, <1>2, <2>3, <2>4 DEF RecordMoves, Advances, NoOperation
    <3> QED
      BY <3>1, <3>2
  <2> QED
    BY <1>1, <2>3, <2>4, <2>6, AdvancesFits, RecordStep DEF GuardedInv, GuardedTypeOK
<1>4. CASE ~Admitted(c)
  <2>1. operations' = Cleaned /\ Ends(c, "done", "existing")
    BY <1>4 DEF Admit
  <2>2. Advances(c, "done")
    BY <1>1, <2>1, EndsAdvances DEF Places, Word, GuardedInv, GuardedTypeOK
  <2>3. ASSUME NEW d \in Call PROVE RecordMoves(d)
    BY <1>2, <2>1, <2>2 DEF RecordMoves, Advances, NoOperation
  <2> QED
    BY <1>1, <1>2, <2>1, <2>2, <2>3, AdvancesFits, RecordStep DEF OperationsTyped, GuardedInv, GuardedTypeOK
<1> QED
  BY <1>3, <1>4

LEMMA AuditAdmissionIsSound ==
  ASSUME GuardedInv, NEW c \in Call, AuditAdmission(c)
  PROVE  GuardedInv' /\ KeepsItsEnd
<1>1. Asked(c) /\ UNCHANGED <<journal, plan, performed, recovered>>
  BY AtIsAsked DEF AuditAdmission, Places
<1>2. CASE Goes(c, "reading") /\ UNCHANGED operations
  BY <1>1, <1>2, GoesAdvances, ReadingStep DEF Places, GuardedInv, GuardedTypeOK
<1>3. CASE Ends(c, "done", "error") /\ operations' = [operations EXCEPT ![c] = NoOperation]
  <2>1. Advances(c, "done")
    BY <1>1, <1>3, EndsAdvances DEF Places, Word, GuardedInv, GuardedTypeOK
  <2>2. /\ OperationsTyped' /\ operations'[c] = NoOperation
        /\ \A d \in Call : d # c => operations'[d] = operations[d]
    BY <1>3, CleanedIsTyped, RecordChanges DEF GuardedInv, GuardedTypeOK
  <2>3. ASSUME NEW d \in Call PROVE RecordMoves(d)
    BY <2>1, <2>2 DEF RecordMoves, Advances, NoOperation
  <2> QED
    BY <1>1, <2>1, <2>2, <2>3, AdvancesFits, RecordStep DEF GuardedInv, GuardedTypeOK
<1> QED
  BY <1>2, <1>3 DEF AuditAdmission

LEMMA StageIsSound ==
  ASSUME GuardedInv, NEW c \in Call, Stage(c)
  PROVE  GuardedInv' /\ KeepsItsEnd
<1>1. /\ Asked(c) /\ calls[c].at = "staging"
      /\ UNCHANGED <<journal, plan, performed, recovered>>
  BY AtIsAsked DEF Stage, Places
<1>2. Advances(c, "settling")
  BY <1>1, GoesAdvances DEF Stage, Places, GuardedInv, GuardedTypeOK
<1>3. OutcomeOf(c) \in Word
  BY <1>1, CallFacts DEF OutcomeOf, Word
<1>4. OperationsTyped' /\ \A d \in Call : RecordMoves(d)
  BY <1>1, <1>2, <1>3, StagedRecord DEF Stage, Advances
<1> QED
  BY <1>1, <1>2, <1>4, AdvancesFits, RecordStep DEF GuardedInv, GuardedTypeOK

LEMMA SettleIsSound ==
  ASSUME GuardedInv, NEW c \in Call, Settle(c)
  PROVE  GuardedInv' /\ KeepsItsEnd
<1>1. Asked(c) /\ UNCHANGED <<journal, plan, performed, recovered>>
  BY AtIsAsked DEF Settle, Places
<1>2. Advances(c, "done")
  BY <1>1, GoesAdvances DEF Settle, Places, GuardedInv, GuardedTypeOK
<1>3. CASE operations[c].pending # "none" /\ operations' = Settled(c)
  <2>1. OperationsTyped' /\ \A d \in Call : RecordMoves(d)
    BY <1>2, <1>3, AdvancesFits, SettledRecord
  <2> QED
    BY <1>1, <1>2, <2>1, AdvancesFits, RecordStep DEF GuardedInv, GuardedTypeOK
<1>4. CASE UNCHANGED operations
  BY <1>1, <1>2, <1>4, ReadingStep DEF Places
<1> QED
  BY <1>3, <1>4 DEF Settle

LEMMA RecoverIsSound ==
  ASSUME GuardedInv, NEW c \in Call, Recover(c)
  PROVE  GuardedInv' /\ KeepsItsEnd
<1>1. UNCHANGED <<operations, plan, calls, performed>>
  BY DEF Recover
<1>2. calls[c].at # "idle"
  BY DEF Recover, Abandoned, Open, GuardedInv, RecordFollows
<1>3. /\ calls[c].key \in Key /\ Entry(c) \in Entries /\ journal \in [Key -> Entries]
  BY <1>2, CallFacts DEF Asked, GuardedInv, GuardedTypeOK
<1>4. journal' \in [Key -> Entries] /\ \A k \in Key : journal'[k].call = journal[k].call
  BY <1>3, CloseEntryKeepsCalls DEF Recover
<1>5. recovered' \in [Call -> Word]
  BY <1>3 DEF Recover, GuardedInv, GuardedTypeOK, Entries, Word
<1>6. GuardedTypeOK'
  BY <1>1, <1>4, <1>5 DEF GuardedInv, GuardedTypeOK, CallsTyped, OperationsTyped
<1>7. KeyIsTaken'
  BY <1>1, <1>4, KeyStaysTakenQuietly DEF GuardedInv, GuardedTypeOK
<1>8. \A d \in Call : RecordMoves(d)
  BY <1>1 DEF RecordMoves
<1> QED
  BY <1>6, <1>7, <1>8, RecordsFollow DEF GuardedInv

LEMMA StageRecoveredIsSound ==
  ASSUME GuardedInv, NEW c \in Call, StageRecovered(c)
  PROVE  GuardedInv' /\ KeepsItsEnd
<1>1. UNCHANGED <<journal, plan, calls, performed>> /\ operations' = Staged(c, recovered[c])
  BY DEF StageRecovered
<1>2. recovered[c] \in Word /\ recovered' \in [Call -> Word]
  BY DEF StageRecovered, GuardedInv, GuardedTypeOK, Word
<1>3. calls[c].at \notin {"idle", "admitting"} \/ operations[c].status = "none"
  BY DEF GuardedInv, RecordFollows
<1>4. OperationsTyped' /\ \A d \in Call : RecordMoves(d)
  BY <1>1, <1>2, <1>3, StagedRecord
<1> QED
  BY <1>1, <1>2, <1>4, RecordStep DEF GuardedInv, GuardedTypeOK, CallsTyped

LEMMA SettleForOtherIsSound ==
  ASSUME GuardedInv, NEW c \in Call, SettleForOther(c)
  PROVE  GuardedInv' /\ KeepsItsEnd
<1>1. UNCHANGED <<journal, plan, calls, performed, recovered>>
  BY DEF SettleForOther
<1>2. OperationsTyped' /\ \A d \in Call : RecordMoves(d)
  BY <1>1, SettledRecord DEF SettleForOther
<1> QED
  BY <1>1, <1>2, RecordStep DEF GuardedInv, GuardedTypeOK, CallsTyped

(* The requests to cancel, the heartbeat that fails and the passing of time touch one record. *)
LEMMA FlagIsSound ==
  ASSUME GuardedInv, NEW c \in Call, Cancel(c) \/ Restore(c) \/ Stall(c) \/ Expire(c)
  PROVE  GuardedInv' /\ KeepsItsEnd
<1> DEFINE cancelling == [operations[c] EXCEPT !.status = "cancelling"]
           running == [operations[c] EXCEPT !.status = "running"]
           stale == [operations[c] EXCEPT !.fresh = FALSE]
           old == [operations[c] EXCEPT !.expired = TRUE]
<1>1. UNCHANGED <<journal, plan, calls, performed, recovered>>
  BY DEF Cancel, Restore, Stall, Expire
<1>2. operations[c] \in Records
  BY DEF GuardedInv, GuardedTypeOK, OperationsTyped
<1>3. CASE Cancel(c)
  <2>1. /\ cancelling \in Records /\ cancelling.status = "cancelling"
        /\ cancelling.pending = operations[c].pending
    BY <1>2 DEF Records, Word
  <2>2. operations' = [operations EXCEPT ![c] = cancelling]
        /\ operations[c].status \in {"running", "cancelling"}
    BY <1>3 DEF Cancel
  <2> QED
    BY <1>1, <2>1, <2>2, OpenRecord, RecordStep DEF GuardedInv, GuardedTypeOK, CallsTyped
<1>4. CASE Restore(c)
  <2>1. /\ running \in Records /\ running.status = "running"
        /\ running.pending = operations[c].pending
    BY <1>2 DEF Records, Word
  <2>2. operations' = [operations EXCEPT ![c] = running]
        /\ operations[c].status \in {"running", "cancelling"}
    BY <1>4 DEF Restore
  <2> QED
    BY <1>1, <2>1, <2>2, OpenRecord, RecordStep DEF GuardedInv, GuardedTypeOK, CallsTyped
<1>5. CASE Stall(c)
  <2>1. /\ stale \in Records /\ stale.status = operations[c].status
        /\ stale.pending = operations[c].pending
    BY <1>2 DEF Records
  <2>2. operations' = [operations EXCEPT ![c] = stale]
    BY <1>5 DEF Stall
  <2> QED
    BY <1>1, <2>1, <2>2, OpenRecord, RecordStep DEF GuardedInv, GuardedTypeOK, CallsTyped
<1>6. CASE Expire(c)
  <2>1. /\ old \in Records /\ old.status = operations[c].status
        /\ old.pending = operations[c].pending
    BY <1>2 DEF Records
  <2>2. operations' = [operations EXCEPT ![c] = old]
    BY <1>6 DEF Expire
  <2> QED
    BY <1>1, <2>1, <2>2, OpenRecord, RecordStep DEF GuardedInv, GuardedTypeOK, CallsTyped
<1> QED
  BY <1>3, <1>4, <1>5, <1>6

LEMMA BeatIsSound ==
  ASSUME GuardedInv, NEW c \in Call, Beat(c)
  PROVE  GuardedInv' /\ KeepsItsEnd
<1> DEFINE r == [operations[c] EXCEPT !.fresh = TRUE]
           aborted == calls[c].aborted \/ operations[c].status = "cancelling"
           call == [calls[c] EXCEPT !.aborted = aborted]
<1>1. UNCHANGED <<journal, plan, performed, recovered>>
      /\ operations' = [operations EXCEPT ![c] = r]
  BY DEF Beat
<1>2. operations[c] \in Records /\ calls[c] \in Asking /\ CallsTyped
  BY AskedIsRecord DEF Beat, Lives, Running, GuardedInv, GuardedTypeOK, OperationsTyped
<1>3. r \in Records /\ r.status = operations[c].status /\ r.pending = operations[c].pending
  BY <1>2 DEF Records
<1>4. call \in Asking /\ call.at = calls[c].at /\ call.key = calls[c].key
  BY <1>2 DEF Asking
<1>5. calls' = [calls EXCEPT ![c] = call]
  BY <1>2 DEF Beat
<1>6. CallsTyped' /\ \A d \in Call : calls'[d].at = calls[d].at /\ calls'[d].key = calls[d].key
  BY <1>2, <1>4, <1>5 DEF CallsTyped
<1>7. OperationsTyped' /\ \A d \in Call : RecordMoves(d)
  BY <1>1, <1>3, <1>6, OpenRecord
<1> QED
  BY <1>1, <1>6, <1>7, RecordStep DEF GuardedInv, GuardedTypeOK

-----------------------------------------------------------------------------

LEMMA StepIsSound ==
  ASSUME GuardedInv, [GuardedNext]_guardedVars
  PROVE  GuardedInv' /\ [KeepsItsEnd]_guardedVars
<1>1. CASE Drift \/ \E p \in Process : Crash(p)
  BY <1>1, QuietStep, ChangedIsPlan DEF Drift, Crash, GuardedInv, GuardedTypeOK
<1>2. CASE \E id \in Confirmation : Issue(id) \/ Refuse(id) \/ Lapse(id)
  BY <1>2, QuietStep DEF Issue, Refuse, Lapse, GuardedInv, GuardedTypeOK
<1>3. CASE \E c \in Call, p \in Process, via \in Adapter, k \in Key,
              id \in Confirmation \cup {"none"} : Ask(c, p, via, k, id)
  BY <1>3, AskIsSound
<1>4. CASE \E c \in Call :
             \/ Admit(c) \/ AuditAdmission(c) \/ ReadJournal(c) \/ Claim(c) \/ Authorize(c)
             \/ Execute(c) \/ RecordResult(c) \/ Finalize(c) \/ Stage(c) \/ Settle(c)
  BY <1>4, AdmitIsSound, AuditAdmissionIsSound, ReadJournalIsSound, ClaimIsSound,
     AuthorizeIsSound, ExecuteIsSound, RecordResultIsSound, FinalizeIsSound, StageIsSound,
     SettleIsSound
<1>5. CASE \E c \in Call :
             \/ Recover(c) \/ StageRecovered(c) \/ SettleForOther(c) \/ Cancel(c) \/ Restore(c)
             \/ Beat(c) \/ Stall(c) \/ Expire(c)
  BY <1>5, RecoverIsSound, StageRecoveredIsSound, SettleForOtherIsSound, FlagIsSound, BeatIsSound
<1>6. CASE UNCHANGED guardedVars
  BY <1>6, QuietStep DEF guardedVars, GuardedInv, GuardedTypeOK
<1> QED
  BY <1>1, <1>2, <1>3, <1>4, <1>5, <1>6 DEF GuardedNext

(* Confirmations are spent once. *)

Slips == [status : {"none", "pending", "claimed", "completed", "expired"}, lapsed : BOOLEAN,
          revision : Nat, number : Nat]

ConfirmationsTyped == confirmations \in [Confirmation -> Slips] /\ IsFiniteSet(issued)

(* The file names only ids that were issued, and an id is issued once. *)
FiledAreIssued == \A id \in Confirmation : confirmations[id].status # "none" => id \in issued

(* Whoever may act, or has acted, has spent its confirmation, and nobody else has. *)
ConfirmationIsSpent ==
  \A c \in Call : Holds(c) =>
    /\ calls[c].confirmation \in Confirmation \cap issued
    /\ confirmations[calls[c].confirmation].status # "pending"
SpentByOne ==
  \A c, d \in Call : Holds(c) /\ Holds(d) /\ c # d => calls[c].confirmation # calls[d].confirmation

SpendingInv == ConfirmationsTyped /\ FiledAreIssued /\ ConfirmationIsSpent /\ SpentByOne

(* What a step that lets nobody act leaves of the calls, and what most steps do to the file. *)
NobodyStarts ==
  \A c \in Call : Holds(c)' => Holds(c) /\ calls'[c].confirmation = calls[c].confirmation
NoneRevives ==
  /\ ConfirmationsTyped' /\ FiledAreIssued' /\ issued \subseteq issued'
  /\ \A id \in Confirmation \cap issued :
       confirmations'[id].status = "pending" => confirmations[id].status = "pending"

LEMMA SpentStays ==
  ASSUME SpendingInv, NobodyStarts, NoneRevives
  PROVE  SpendingInv'
<1>1. ConfirmationIsSpent'
  BY DEF SpendingInv, NobodyStarts, NoneRevives, ConfirmationIsSpent
<1>2. SpentByOne'
  BY DEF SpendingInv, NobodyStarts, SpentByOne
<1> QED
  BY <1>1, <1>2 DEF SpendingInv, NoneRevives

LEMMA FileStays ==
  ASSUME SpendingInv, UNCHANGED <<confirmations, issued>>
  PROVE  NoneRevives
BY DEF SpendingInv, NoneRevives, ConfirmationsTyped, FiledAreIssued

LEMMA MarkedRevivesNone ==
  ASSUME SpendingInv, NEW id, NEW status \in {"claimed", "completed", "expired"},
         confirmations' = Marked(id, status), UNCHANGED issued
  PROVE  NoneRevives
<1>1. CASE confirmations' = confirmations
  BY <1>1, FileStays
<1>2. CASE confirmations' # confirmations
  <2> DEFINE slip == [confirmations[id] EXCEPT !.status = status]
  <2>1. id \in Confirmation /\ confirmations[id].status # "none"
        /\ confirmations \in [Confirmation -> Slips]
    BY <1>2 DEF Marked, Holding, SpendingInv, ConfirmationsTyped
  <2>2. slip \in Slips /\ slip.status = status
    BY <2>1 DEF Slips
  <2>3. confirmations' = [confirmations EXCEPT ![id] = slip]
    BY <1>2, <2>1 DEF Marked
  <2>4. confirmations' \in [Confirmation -> Slips] /\ confirmations'[id].status = status
        /\ \A o \in Confirmation : o # id => confirmations'[o] = confirmations[o]
    BY <2>1, <2>2, <2>3
  <2> QED
    BY <2>1, <2>4 DEF SpendingInv, NoneRevives, ConfirmationsTyped, FiledAreIssued
<1> QED
  BY <1>1, <1>2

LEMMA TrimmedKeepsOrDrops ==
  ASSUME NEW file \in [Confirmation -> Slips]
  PROVE  /\ Trimmed(file) \in [Confirmation -> Slips]
         /\ \A id \in Confirmation : Trimmed(file)[id] \in {file[id], NoConfirmation}
<1>1. NoConfirmation \in Slips
  BY DEF NoConfirmation, Slips
<1> QED
  BY <1>1 DEF Trimmed

LEMMA IssueRevivesNone ==
  ASSUME SpendingInv, GuardedInv, NEW id \in Confirmation, Issue(id)
  PROVE  NoneRevives
<1> DEFINE Over(f) == f.status = "pending" /\ f.lapsed
           kept == [o \in Confirmation |-> IF Over(confirmations[o]) THEN NoConfirmation
                                           ELSE confirmations[o]]
           new == [status |-> "pending", lapsed |-> FALSE, revision |-> plan.revision,
                   number |-> Cardinality(issued) + 1]
           file == [kept EXCEPT ![id] = new]
<1>1. confirmations \in [Confirmation -> Slips] /\ IsFiniteSet(issued)
  BY DEF SpendingInv, ConfirmationsTyped
<1>2. NoConfirmation \in Slips /\ NoConfirmation.status = "none"
  BY DEF NoConfirmation, Slips
<1>3. new \in Slips
  <2>1. Cardinality(issued) + 1 \in Nat
    BY <1>1, FS_CardinalityType
  <2>2. plan.revision \in Nat
    BY DEF GuardedInv, GuardedTypeOK, Plans
  <2> QED
    BY <2>1, <2>2 DEF Slips
<1>4. kept \in [Confirmation -> Slips]
      /\ \A o \in Confirmation : kept[o] \in {confirmations[o], NoConfirmation}
  BY <1>1, <1>2
<1>5. file \in [Confirmation -> Slips]
      /\ \A o \in Confirmation : o # id => file[o] \in {confirmations[o], NoConfirmation}
  <2> HIDE DEF kept, new
  <2> QED
    BY <1>3, <1>4
<1>6. confirmations' = Trimmed(file) /\ issued' = issued \cup {id} /\ id \notin issued
  BY DEF Issue
<1>7. confirmations' \in [Confirmation -> Slips]
      /\ \A o \in Confirmation : o # id => confirmations'[o] \in {confirmations[o], NoConfirmation}
  <2> HIDE DEF file
  <2> QED
    BY <1>5, <1>6, TrimmedKeepsOrDrops
<1>8. IsFiniteSet(issued')
  BY <1>1, <1>6, FS_AddElement
<1>9. \A o \in Confirmation : o # id =>
        /\ confirmations'[o].status # "none" => confirmations[o].status # "none"
        /\ confirmations'[o].status = "pending" => confirmations[o].status = "pending"
  <2> HIDE DEF kept, new, file
  <2> QED
    BY <1>2, <1>7
<1> QED
  <2> HIDE DEF kept, new, file
  <2> QED
    BY <1>6, <1>7, <1>8, <1>9 DEF SpendingInv, NoneRevives, ConfirmationsTyped, FiledAreIssued

LEMMA LapseRevivesNone ==
  ASSUME SpendingInv, NEW id \in Confirmation, Lapse(id)
  PROVE  NoneRevives
<1> DEFINE slip == [confirmations[id] EXCEPT !.lapsed = TRUE]
<1>1. confirmations \in [Confirmation -> Slips] /\ confirmations' = [confirmations EXCEPT ![id] = slip]
      /\ issued' = issued
  BY DEF Lapse, SpendingInv, ConfirmationsTyped
<1>2. slip \in Slips /\ slip.status = confirmations[id].status
  BY <1>1 DEF Slips
<1>3. confirmations' \in [Confirmation -> Slips]
      /\ \A o \in Confirmation : confirmations'[o].status = confirmations[o].status
  <2> HIDE DEF slip
  <2> QED
    BY <1>1, <1>2
<1> QED
  BY <1>1, <1>3 DEF SpendingInv, NoneRevives, ConfirmationsTyped, FiledAreIssued

-----------------------------------------------------------------------------
(* What is said of a call is true. *)

Past(c) == calls[c].at \in {"recording", "finalizing", "staging", "settling", "done"}

TrueOf(c, word) ==
  /\ word = "succeeded" => performed[c] = "succeeded"
  /\ word \in {"skipped", "replayed"} => performed[c] = "none" /\ Past(c)

EntriesTrue ==
  \A k \in Key :
    /\ journal[k].call \in Call =>
         TrueOf(journal[k].call, journal[k].pending) /\ TrueOf(journal[k].call, journal[k].response)
    /\ journal[k].call = "none" => journal[k].pending = "none" /\ journal[k].response = "none"
RecordsTrue ==
  \A c \in Call : TrueOf(c, operations[c].status) /\ TrueOf(c, operations[c].pending)
RecoveredTrue == \A c \in Call : TrueOf(c, recovered[c])
ResultsTrue == \A c \in Call : Asked(c) => TrueOf(c, calls[c].result)

(* A call acts before it has its result, and the result tells how. *)
ActsInTime ==
  \A c \in Call :
    /\ performed[c] # "none" => Past(c)
    /\ calls[c].at = "recording" => calls[c].result \in {"succeeded", "failed"}

TruthInv == EntriesTrue /\ RecordsTrue /\ RecoveredTrue /\ ResultsTrue /\ ActsInTime

(* A call goes on with a result. *)
Moves(c, to, result) ==
  /\ calls'[c].at = to /\ calls'[c].result = result
  /\ calls'[c].key = calls[c].key /\ calls'[c].confirmation = calls[c].confirmation
  /\ \A d \in Call : d # c => calls'[d] = calls[d]

LEMMA GoesMoves ==
  ASSUME CallsTyped, NEW c \in Call, Asked(c), NEW to, Goes(c, to)
  PROVE  Moves(c, to, calls[c].result)
<1> DEFINE r == [calls[c] EXCEPT !.at = to]
<1>1. calls[c] \in Asking
  BY AskedIsRecord DEF Asked
<1>2. calls' = [calls EXCEPT ![c] = r]
  BY DEF Goes
<1>3. r.at = to /\ r.result = calls[c].result /\ r.key = calls[c].key
      /\ r.confirmation = calls[c].confirmation
  BY <1>1 DEF Asking
<1> QED
  BY <1>2, <1>3 DEF Moves, CallsTyped

LEMMA EndsMoves ==
  ASSUME CallsTyped, NEW c \in Call, Asked(c), NEW to, NEW result, Ends(c, to, result)
  PROVE  Moves(c, to, result)
<1> DEFINE r == [calls[c] EXCEPT !.at = to, !.result = result, !.approved = NoPlan]
<1>1. calls[c] \in Asking
  BY AskedIsRecord DEF Asked
<1>2. calls' = [calls EXCEPT ![c] = r]
  BY DEF Ends, CallsTyped
<1>3. r.at = to /\ r.result = result /\ r.key = calls[c].key
      /\ r.confirmation = calls[c].confirmation
  BY <1>1 DEF Asking
<1> QED
  BY <1>2, <1>3 DEF Moves, CallsTyped

(* Whoever goes to a place where nobody acts lets nobody act. *)
LEMMA MovingStartsNone ==
  ASSUME NEW c \in Call, NEW to, NEW result, Moves(c, to, result), UNCHANGED performed,
         to \in {"authorizing", "executing", "recording"} =>
           calls[c].at \in {"authorizing", "executing", "recording"}
  PROVE  NobodyStarts
BY DEF NobodyStarts, Moves, Holds

(* What was true stays true while nobody acts and calls go forward. *)
Forward == UNCHANGED performed /\ \A c \in Call : Past(c) => Past(c)'

TrueLater(c, word) ==
  /\ word = "succeeded" => performed'[c] = "succeeded"
  /\ word \in {"skipped", "replayed"} => performed'[c] = "none" /\ Past(c)'

LEMMA TruthStays ==
  ASSUME Forward, TruthInv
  PROVE  /\ journal' = journal => EntriesTrue'
         /\ operations' = operations => RecordsTrue'
         /\ recovered' = recovered => RecoveredTrue'
         /\ \A c \in Call : performed'[c] # "none" => Past(c)'
<1>1. ASSUME NEW c \in Call, NEW word, TrueOf(c, word) PROVE TrueLater(c, word)
  BY <1>1 DEF TrueOf, TrueLater, Forward
<1>2. journal' = journal => EntriesTrue'
  BY <1>1 DEF TruthInv, EntriesTrue, TrueOf, TrueLater
<1>3. operations' = operations => RecordsTrue'
  BY <1>1 DEF TruthInv, RecordsTrue, TrueOf, TrueLater
<1>4. recovered' = recovered => RecoveredTrue'
  BY <1>1 DEF TruthInv, RecoveredTrue, TrueOf, TrueLater
<1> QED
  BY <1>2, <1>3, <1>4 DEF Forward, TruthInv, ActsInTime

(* Calls that stay where they are, with the result they have. *)
LEMMA ResultsStay ==
  ASSUME TruthInv, UNCHANGED performed,
         \A c \in Call : calls'[c].at = calls[c].at /\ calls'[c].result = calls[c].result
  PROVE  Forward /\ ResultsTrue' /\ ActsInTime'
<1>1. Forward
  BY DEF Forward, Past
<1>2. ResultsTrue'
  BY DEF TruthInv, ResultsTrue, TrueOf, Asked, Past
<1>3. ActsInTime'
  BY DEF TruthInv, ActsInTime, Past
<1> QED
  BY <1>1, <1>2, <1>3

(* A call that goes on, nobody acting. *)
LEMMA MovesForward ==
  ASSUME TruthInv, NEW c \in Call, NEW to, NEW result, Moves(c, to, result), UNCHANGED performed,
         Past(c) => to \in {"recording", "finalizing", "staging", "settling", "done"},
         to # "recording", Asked(c), TrueLater(c, result)
  PROVE  Forward /\ ResultsTrue' /\ ActsInTime'
<1>1. Forward
  BY DEF Forward, Past, Moves
<1>2. ASSUME NEW d \in Call, Asked(d)' PROVE TrueOf(d, calls[d].result)'
  BY <1>2, <1>1 DEF TruthInv, ResultsTrue, TrueOf, TrueLater, Asked, Moves, Forward
<1>3. ASSUME NEW d \in Call PROVE /\ performed'[d] # "none" => Past(d)'
                                  /\ calls'[d].at = "recording" => calls'[d].result \in {"succeeded", "failed"}
  BY <1>3, <1>1 DEF TruthInv, ActsInTime, Moves, Forward
<1>4. ResultsTrue'
  BY <1>2 DEF ResultsTrue
<1>5. ActsInTime'
  BY <1>3 DEF ActsInTime
<1> QED
  BY <1>1, <1>4, <1>5

-----------------------------------------------------------------------------
OutcomeInv == GuardedInv /\ SpendingInv /\ TruthInv

LEMMA OutcomeFacts ==
  ASSUME OutcomeInv
  PROVE  GuardedInv /\ SpendingInv /\ TruthInv /\ CallsTyped
BY DEF OutcomeInv, GuardedInv, GuardedTypeOK

(* Calls, entries and records stay. *)
LEMMA QuietOutcome ==
  ASSUME OutcomeInv, NoneRevives, UNCHANGED <<calls, journal, operations, performed, recovered>>
  PROVE  SpendingInv' /\ TruthInv'
<1>1. NobodyStarts
  BY DEF NobodyStarts, Holds
<1>2. Forward /\ ResultsTrue' /\ ActsInTime'
  BY ResultsStay, OutcomeFacts
<1> QED
  BY <1>1, <1>2, SpentStays, TruthStays, OutcomeFacts DEF TruthInv

(* A call goes on without acting; what else it does to the truth is left to show. *)
LEMMA MovingOutcome ==
  ASSUME OutcomeInv, NoneRevives, UNCHANGED performed, NEW c \in Call, Asked(c), NEW to, NEW result,
         Moves(c, to, result), TrueLater(c, result), to # "recording",
         to \in {"authorizing", "executing"} => calls[c].at \in {"authorizing", "executing"},
         Past(c) => to \in {"finalizing", "staging", "settling", "done"}
  PROVE  SpendingInv' /\ Forward /\ ResultsTrue' /\ ActsInTime'
<1>1. NobodyStarts
  BY MovingStartsNone
<1>2. Forward /\ ResultsTrue' /\ ActsInTime'
  BY MovesForward, OutcomeFacts
<1> QED
  BY <1>1, <1>2, SpentStays, OutcomeFacts

LEMMA ReadingOutcome ==
  ASSUME OutcomeInv, UNCHANGED <<confirmations, issued, journal, operations, performed, recovered>>,
         NEW c \in Call, Asked(c), NEW to, NEW result,
         Moves(c, to, result), TrueLater(c, result), to # "recording",
         to \in {"authorizing", "executing"} => calls[c].at \in {"authorizing", "executing"},
         Past(c) => to \in {"finalizing", "staging", "settling", "done"}
  PROVE  SpendingInv' /\ TruthInv'
<1>1. NoneRevives
  BY FileStays, OutcomeFacts
<1>2. SpendingInv' /\ Forward /\ ResultsTrue' /\ ActsInTime'
  BY <1>1, MovingOutcome
<1> QED
  BY <1>2, TruthStays, OutcomeFacts DEF TruthInv

(* The result a call has stays true as it goes on. *)
LEMMA SameResult ==
  ASSUME OutcomeInv, NEW c \in Call, Asked(c), NEW to, Moves(c, to, calls[c].result),
         UNCHANGED performed, Past(c) => to \in {"finalizing", "staging", "settling", "done"}
  PROVE  TrueLater(c, calls[c].result)
BY DEF OutcomeInv, TruthInv, ResultsTrue, TrueOf, TrueLater, Past, Moves

(* Records take over words that are true. *)
LEMMA RecordsStayTrue ==
  ASSUME Forward, TruthInv,
         \A d \in Call :
           /\ operations'[d].status \in
                {operations[d].status, operations[d].pending, "none", "running", "cancelling"}
           /\ operations'[d].pending \in {operations[d].pending, "none"}
                \/ TrueLater(d, operations'[d].pending)
  PROVE  RecordsTrue'
<1> SUFFICES ASSUME NEW d \in Call
             PROVE  TrueOf(d, operations[d].status)' /\ TrueOf(d, operations[d].pending)'
  BY DEF RecordsTrue
<1>1. TrueOf(d, operations[d].status) /\ TrueOf(d, operations[d].pending)
  BY DEF TruthInv, RecordsTrue
<1>2. TrueOf(d, operations[d].status)'
  BY <1>1 DEF TrueOf, Forward
<1>3. TrueOf(d, operations[d].pending)'
  BY <1>1 DEF TrueOf, TrueLater, Forward
<1> QED
  BY <1>2, <1>3

LEMMA AskOutcome ==
  ASSUME OutcomeInv, NEW c \in Call, NEW p \in Process, NEW via \in Adapter, NEW k \in Key,
         NEW id \in Confirmation \cup {"none"}, Ask(c, p, via, k, id)
  PROVE  SpendingInv' /\ TruthInv'
<1> DEFINE r == [at |-> "admitting", process |-> p, via |-> via, key |-> k, confirmation |-> id,
                 approved |-> NoPlan, aborted |-> FALSE, result |-> "none"]
<1>1. /\ calls[c].at = "idle" /\ calls'[c] = r
      /\ \A d \in Call : d # c => calls'[d] = calls[d]
      /\ UNCHANGED <<confirmations, journal, operations, performed, recovered, issued>>
  BY OutcomeFacts DEF Ask, Asked, CallsTyped
<1>2. performed[c] = "none" /\ ~Past(c)
  BY <1>1 DEF OutcomeInv, TruthInv, ActsInTime, Past
<1>3. NobodyStarts
  BY <1>1, <1>2 DEF NobodyStarts, Holds
<1>4. Forward
  BY <1>1, <1>2 DEF Forward, Past
<1>5. ResultsTrue'
  BY <1>1, <1>4 DEF OutcomeInv, TruthInv, ResultsTrue, TrueOf, Asked, Forward
<1>6. ActsInTime'
  BY <1>1, <1>2, <1>4 DEF OutcomeInv, TruthInv, ActsInTime, Forward
<1> QED
  BY <1>1, <1>3, <1>4, <1>5, <1>6, FileStays, SpentStays, TruthStays, OutcomeFacts DEF TruthInv

LEMMA AdmitOutcome ==
  ASSUME OutcomeInv, NEW c \in Call, Admit(c)
  PROVE  SpendingInv' /\ TruthInv'
<1>1. /\ Asked(c) /\ calls[c].at = "admitting" /\ ~Past(c)
      /\ UNCHANGED <<confirmations, journal, performed, recovered, issued>>
  BY AtIsAsked DEF Admit, Places, Past
<1>2. CASE Admitted(c)
  <2>1. Moves(c, "auditing", calls[c].result)
    BY <1>1, <1>2, GoesMoves, OutcomeFacts DEF Admit
  <2>2. SpendingInv' /\ Forward /\ ResultsTrue' /\ ActsInTime'
    BY <1>1, <2>1, SameResult, FileStays, MovingOutcome, OutcomeFacts
  <2>3. \A d \in Call : /\ operations'[d].status \in {operations[d].status, "none", "running"}
                        /\ operations'[d].pending \in {operations[d].pending, "none"}
    <3> DEFINE r == [NoOperation EXCEPT !.status = "running", !.fresh = TRUE]
    <3>1. operations' = [Cleaned EXCEPT ![c] = r] /\ r.status = "running" /\ r.pending = "none"
          /\ NoOperation.status = "none" /\ NoOperation.pending = "none"
      BY <1>2 DEF Admit, NoOperation
    <3>2. /\ Cleaned \in [Call -> Records]
          /\ \A d \in Call : Cleaned[d] = operations[d] \/ Cleaned[d] = NoOperation
      BY CleanedIsTyped DEF OutcomeInv, GuardedInv, GuardedTypeOK
    <3> HIDE DEF r
    <3> QED
      BY <3>1, <3>2
  <2> QED
    BY <1>1, <2>2, <2>3, RecordsStayTrue, TruthStays, OutcomeFacts DEF TruthInv
<1>3. CASE ~Admitted(c)
  <2>1. Moves(c, "done", "existing") /\ operations' = Cleaned
    BY <1>1, <1>3, EndsMoves, OutcomeFacts DEF Admit
  <2>2. SpendingInv' /\ Forward /\ ResultsTrue' /\ ActsInTime'
    BY <1>1, <2>1, FileStays, MovingOutcome, OutcomeFacts DEF TrueLater
  <2>3. \A d \in Call : /\ operations'[d].status \in {operations[d].status, "none"}
                        /\ operations'[d].pending \in {operations[d].pending, "none"}
    BY <2>1, CleanedIsTyped DEF OutcomeInv, GuardedInv, GuardedTypeOK, NoOperation
  <2> QED
    BY <1>1, <2>2, <2>3, RecordsStayTrue, TruthStays, OutcomeFacts DEF TruthInv
<1> QED
  BY <1>2, <1>3

LEMMA AuditAdmissionOutcome ==
  ASSUME OutcomeInv, NEW c \in Call, AuditAdmission(c)
  PROVE  SpendingInv' /\ TruthInv'
<1>1. /\ Asked(c) /\ ~Past(c)
      /\ UNCHANGED <<confirmations, journal, performed, recovered, issued>>
  BY AtIsAsked DEF AuditAdmission, Places, Past
<1>2. CASE Goes(c, "reading") /\ UNCHANGED operations
  <2>1. Moves(c, "reading", calls[c].result)
    BY <1>1, <1>2, GoesMoves, OutcomeFacts
  <2> QED
    BY <1>1, <1>2, <2>1, SameResult, ReadingOutcome
<1>3. CASE Ends(c, "done", "error") /\ operations' = [operations EXCEPT ![c] = NoOperation]
  <2>1. Moves(c, "done", "error")
    BY <1>1, <1>3, EndsMoves, OutcomeFacts
  <2>2. SpendingInv' /\ Forward /\ ResultsTrue' /\ ActsInTime'
    BY <1>1, <2>1, FileStays, MovingOutcome, OutcomeFacts DEF TrueLater
  <2>3. \A d \in Call : /\ operations'[d].status \in {operations[d].status, "none"}
                        /\ operations'[d].pending \in {operations[d].pending, "none"}
    BY <1>3, OutcomeFacts DEF OutcomeInv, GuardedInv, GuardedTypeOK, OperationsTyped, NoOperation
  <2> QED
    BY <1>1, <2>2, <2>3, RecordsStayTrue, TruthStays, OutcomeFacts DEF TruthInv
<1> QED
  BY <1>2, <1>3 DEF AuditAdmission

(* A call that has not come to act has done nothing, so a skip or a replay is the truth of it. *)
LEMMA UnactedResult ==
  ASSUME OutcomeInv, NEW c \in Call, ~Past(c), UNCHANGED performed, NEW to, NEW result,
         Moves(c, to, result), result # "succeeded",
         to \in {"finalizing", "staging", "settling", "done"}
  PROVE  TrueLater(c, result)
BY DEF OutcomeInv, TruthInv, ActsInTime, TrueLater, Past, Moves

LEMMA ReadJournalOutcome ==
  ASSUME OutcomeInv, NEW c \in Call, ReadJournal(c)
  PROVE  SpendingInv' /\ TruthInv'
<1>1. /\ Asked(c) /\ ~Past(c)
      /\ UNCHANGED <<confirmations, journal, operations, performed, recovered, issued>>
  BY AtIsAsked DEF ReadJournal, Places, Past
<1>2. CASE calls' = [calls EXCEPT ![c].at = "claiming", ![c].approved = plan]
  <2> DEFINE r == [calls[c] EXCEPT !.at = "claiming", !.approved = plan]
  <2>1. calls[c] \in Asking
    BY <1>1, AskedIsRecord, OutcomeFacts DEF Asked
  <2>2. calls' = [calls EXCEPT ![c] = r]
    BY <1>2, OutcomeFacts DEF CallsTyped
  <2>3. r.at = "claiming" /\ r.result = calls[c].result /\ r.key = calls[c].key
        /\ r.confirmation = calls[c].confirmation
    BY <2>1 DEF Asking
  <2>4. Moves(c, "claiming", calls[c].result)
    BY <2>2, <2>3, OutcomeFacts DEF Moves, CallsTyped
  <2> QED
    BY <1>1, <2>4, SameResult, ReadingOutcome
<1>3. CASE Goes(c, "finalizing")
  <2>1. Moves(c, "finalizing", calls[c].result)
    BY <1>1, <1>3, GoesMoves, OutcomeFacts
  <2> QED
    BY <1>1, <2>1, SameResult, ReadingOutcome
<1>4. ASSUME NEW result \in {"error", "replayed"}, Ends(c, "staging", result)
      PROVE  SpendingInv' /\ TruthInv'
  <2>1. Moves(c, "staging", result)
    BY <1>1, <1>4, EndsMoves, OutcomeFacts
  <2>2. TrueLater(c, result)
    BY <1>1, <2>1, UnactedResult
  <2> QED
    BY <1>1, <2>1, <2>2, ReadingOutcome
<1> QED
  BY <1>2, <1>3, <1>4 DEF ReadJournal

(* An entry that is opened says nothing, or that what it is opened for is skipped. *)
LEMMA OpenedIsTrue ==
  ASSUME OutcomeInv, NEW c \in Call, Asked(c), ~Past(c), Forward, NEW pending \in {"skipped", "none"},
         pending = "skipped" => Past(c)',
         journal' = [journal EXCEPT ![calls[c].key] = Opened(c, pending)]
  PROVE  EntriesTrue'
<1>1. calls[c].key \in Key /\ journal \in [Key -> Entries]
  BY CallFacts, OutcomeFacts DEF GuardedInv, GuardedTypeOK
<1>2. journal'[calls[c].key] = Opened(c, pending)
      /\ \A k \in Key : k # calls[c].key => journal'[k] = journal[k]
  BY <1>1
<1>3. performed'[c] = "none"
  BY DEF OutcomeInv, TruthInv, ActsInTime, Forward
<1>4. TrueOf(c, pending)' /\ TrueOf(c, "none")'
  BY <1>3 DEF TrueOf
<1> SUFFICES ASSUME NEW k \in Key
             PROVE  /\ journal'[k].call \in Call =>
                         /\ TrueOf(journal[k].call, journal[k].pending)'
                         /\ TrueOf(journal[k].call, journal[k].response)'
                    /\ journal'[k].call = "none" =>
                         journal'[k].pending = "none" /\ journal'[k].response = "none"
  BY DEF EntriesTrue
<1>5. CASE k = calls[c].key
  BY <1>2, <1>3, <1>5, CallAssumption DEF Opened, TrueOf
<1>6. CASE k # calls[c].key
  BY <1>2, <1>6 DEF OutcomeInv, TruthInv, EntriesTrue, TrueOf, Forward
<1> QED
  BY <1>5, <1>6

LEMMA ClaimOutcome ==
  ASSUME OutcomeInv, NEW c \in Call, Claim(c)
  PROVE  SpendingInv' /\ TruthInv'
<1> DEFINE id == calls[c].confirmation
<1>1. /\ Asked(c) /\ ~Past(c) /\ calls[c].at = "claiming"
      /\ UNCHANGED <<operations, performed, recovered, issued>>
  BY AtIsAsked DEF Claim, Places, Past
<1>2. NoneRevives
  BY <1>1, FileStays, MarkedRevivesNone, OutcomeFacts DEF Claim
<1>3. ASSUME NEW result \in {"error", "replayed"}, Ends(c, "staging", result), UNCHANGED journal
      PROVE  SpendingInv' /\ TruthInv'
  <2>1. Moves(c, "staging", result)
    BY <1>1, <1>3, EndsMoves, OutcomeFacts
  <2>2. TrueLater(c, result)
    BY <1>1, <2>1, UnactedResult
  <2>3. SpendingInv' /\ Forward /\ ResultsTrue' /\ ActsInTime'
    BY <1>1, <1>2, <2>1, <2>2, MovingOutcome
  <2> QED
    BY <1>1, <1>3, <2>3, TruthStays, OutcomeFacts DEF TruthInv
<1>4. ASSUME Goes(c, "finalizing"), journal' = [journal EXCEPT ![calls[c].key] = Opened(c, "skipped")]
      PROVE  SpendingInv' /\ TruthInv'
  <2>1. Moves(c, "finalizing", calls[c].result)
    BY <1>1, <1>4, GoesMoves, OutcomeFacts
  <2>2. SpendingInv' /\ Forward /\ ResultsTrue' /\ ActsInTime'
    BY <1>1, <1>2, <2>1, SameResult, MovingOutcome
  <2>3. EntriesTrue'
    BY <1>1, <1>4, <2>1, <2>2, OpenedIsTrue DEF Past, Moves
  <2> QED
    BY <1>1, <2>2, <2>3, TruthStays, OutcomeFacts DEF TruthInv
<1>5. ASSUME Goes(c, "authorizing"), Holding(id, "pending"), confirmations' = Marked(id, "claimed"),
             journal' = [journal EXCEPT ![calls[c].key] = Opened(c, "none")]
      PROVE  SpendingInv' /\ TruthInv'
  <2>1. Moves(c, "authorizing", calls[c].result)
    BY <1>1, <1>5, GoesMoves, OutcomeFacts
  <2>2. Forward /\ ResultsTrue' /\ ActsInTime'
    BY <1>1, <2>1, SameResult, MovesForward, OutcomeFacts
  <2>3. EntriesTrue'
    BY <1>1, <1>5, <2>2, OpenedIsTrue
  <2>4. id \in Confirmation \cap issued /\ confirmations[id].status = "pending"
        /\ confirmations'[id].status # "pending"
    BY <1>5 DEF Holding, Marked, OutcomeInv, SpendingInv, FiledAreIssued, ConfirmationsTyped, Slips
  <2>5. \A d \in Call : Holds(d) => calls[d].confirmation # id
    BY <2>4 DEF OutcomeInv, SpendingInv, ConfirmationIsSpent
  <2>6. \A d \in Call : d # c /\ Holds(d)' => Holds(d) /\ calls'[d] = calls[d]
    BY <1>1, <2>1 DEF Moves, Holds
  <2>7. ConfirmationIsSpent'
    BY <1>2, <2>1, <2>4, <2>6 DEF Moves, NoneRevives, OutcomeInv, SpendingInv, ConfirmationIsSpent
  <2>8. SpentByOne'
    BY <2>1, <2>5, <2>6 DEF Moves, OutcomeInv, SpendingInv, SpentByOne
  <2> QED
    BY <1>1, <1>2, <2>2, <2>3, <2>7, <2>8, TruthStays, OutcomeFacts DEF TruthInv, SpendingInv, NoneRevives
<1>6. ASSUME UNCHANGED <<journal, calls>>
      PROVE  SpendingInv' /\ TruthInv'
  BY <1>1, <1>2, <1>6, QuietOutcome
<1>7. \/ \E result \in {"error", "replayed"} : Ends(c, "staging", result) /\ UNCHANGED journal
      \/ Goes(c, "finalizing") /\ journal' = [journal EXCEPT ![calls[c].key] = Opened(c, "skipped")]
      \/ /\ Goes(c, "authorizing") /\ Holding(id, "pending") /\ confirmations' = Marked(id, "claimed")
         /\ journal' = [journal EXCEPT ![calls[c].key] = Opened(c, "none")]
      \/ UNCHANGED <<journal, calls>>
  BY DEF Claim, IsValid
<1> QED
  BY <1>3, <1>4, <1>5, <1>6, <1>7

LEMMA AuthorizeOutcome ==
  ASSUME OutcomeInv, NEW c \in Call, Authorize(c)
  PROVE  SpendingInv' /\ TruthInv'
<1>1. /\ Asked(c) /\ ~Past(c) /\ calls[c].at = "authorizing"
      /\ UNCHANGED <<confirmations, journal, operations, performed, recovered, issued>>
  BY AtIsAsked DEF Authorize, Places, Past
<1>2. CASE Goes(c, "executing")
  <2>1. Moves(c, "executing", calls[c].result)
    BY <1>1, <1>2, GoesMoves, OutcomeFacts
  <2> QED
    BY <1>1, <2>1, SameResult, ReadingOutcome
<1>3. CASE Ends(c, "staging", "error")
  <2>1. Moves(c, "staging", "error")
    BY <1>1, <1>3, EndsMoves, OutcomeFacts
  <2> QED
    BY <1>1, <2>1, ReadingOutcome DEF TrueLater
<1> QED
  BY <1>2, <1>3 DEF Authorize

LEMMA ExecuteOutcome ==
  ASSUME OutcomeInv, NEW c \in Call, Execute(c)
  PROVE  SpendingInv' /\ TruthInv'
<1>1. /\ Asked(c) /\ calls[c].at = "executing"
      /\ UNCHANGED <<confirmations, journal, operations, recovered, issued>>
  BY AtIsAsked DEF Execute, Places
<1>2. PICK outcome \in {"succeeded", "failed"} :
        /\ Ends(c, "recording", outcome)
        /\ \/ performed' = [performed EXCEPT ![c] = outcome]
           \/ outcome = "failed" /\ performed' = performed
  BY DEF Execute
<1>3. Moves(c, "recording", outcome)
  BY <1>1, <1>2, EndsMoves, OutcomeFacts
<1>4. performed[c] = "none" /\ ~Past(c) /\ Past(c)'
  BY <1>1, <1>3 DEF OutcomeInv, TruthInv, ActsInTime, Past, Moves
<1>5. /\ outcome = "succeeded" => performed'[c] = "succeeded"
      /\ \A d \in Call : d # c => performed'[d] = performed[d] /\ Past(d)' = Past(d)
  BY <1>2, <1>3, OutcomeFacts DEF Past, Moves, GuardedInv, GuardedTypeOK
<1>6. ASSUME NEW d \in Call, NEW word, TrueOf(d, word) PROVE TrueLater(d, word)
  BY <1>4, <1>5, <1>6 DEF TrueOf, TrueLater
<1>7. EntriesTrue'
  BY <1>1, <1>6 DEF OutcomeInv, TruthInv, EntriesTrue, TrueOf, TrueLater
<1>8. RecordsTrue' /\ RecoveredTrue'
  BY <1>1, <1>6 DEF OutcomeInv, TruthInv, RecordsTrue, RecoveredTrue, TrueOf, TrueLater
<1>9. ResultsTrue'
  BY <1>1, <1>3, <1>5, <1>6 DEF OutcomeInv, TruthInv, ResultsTrue, TrueOf, TrueLater, Asked, Moves
<1>10. ActsInTime'
  BY <1>3, <1>4, <1>5 DEF OutcomeInv, TruthInv, ActsInTime, Moves
<1>11. NobodyStarts
  BY <1>1, <1>3, <1>5 DEF NobodyStarts, Holds, Moves
<1> QED
  BY <1>1, <1>7, <1>8, <1>9, <1>10, <1>11, FileStays, SpentStays, OutcomeFacts DEF TruthInv

(* The entry takes the result of the call it names: nobody else comes to record. *)
LEMMA RecordResultOutcome ==
  ASSUME OutcomeInv, NEW c \in Call, RecordResult(c)
  PROVE  SpendingInv' /\ TruthInv'
<1> DEFINE k == calls[c].key
           e == [journal[k] EXCEPT !.pending = calls[c].result]
<1>1. /\ Asked(c) /\ calls[c].at = "recording"
      /\ UNCHANGED <<confirmations, operations, performed, recovered, issued>>
  BY AtIsAsked DEF RecordResult, Places
<1>2. Moves(c, "finalizing", calls[c].result)
  BY <1>1, GoesMoves, OutcomeFacts DEF RecordResult
<1>3. SpendingInv' /\ Forward /\ ResultsTrue' /\ ActsInTime'
  BY <1>1, <1>2, SameResult, FileStays, MovingOutcome, OutcomeFacts
<1>4. k \in Key /\ journal[k] \in Entries /\ journal \in [Key -> Entries] /\ journal[k].call = c
  BY <1>1, CallFacts DEF Entry, OutcomeInv, GuardedInv, GuardedTypeOK, KeyIsTaken, Holds
<1>5. e.call = c /\ e.pending = calls[c].result /\ e.response = journal[k].response
  BY <1>4 DEF Entries
<1>6. journal' = [journal EXCEPT ![k] = e]
  BY <1>4 DEF RecordResult
<1>7. journal'[k] = e /\ \A l \in Key : l # k => journal'[l] = journal[l]
  BY <1>4, <1>6
<1>8. TrueOf(c, calls[c].result) /\ TrueOf(c, journal[k].response)
  BY <1>1, <1>4 DEF OutcomeInv, TruthInv, ResultsTrue, EntriesTrue
<1>9. EntriesTrue'
  <2> SUFFICES ASSUME NEW l \in Key
               PROVE  /\ journal'[l].call \in Call =>
                           /\ TrueOf(journal[l].call, journal[l].pending)'
                           /\ TrueOf(journal[l].call, journal[l].response)'
                      /\ journal'[l].call = "none" =>
                           journal'[l].pending = "none" /\ journal'[l].response = "none"
    BY DEF EntriesTrue
  <2>1. CASE l = k
    <3> HIDE DEF e, k
    <3> QED
      BY <2>1, <1>3, <1>5, <1>7, <1>8, CallAssumption DEF TrueOf, Forward
  <2>2. CASE l # k
    BY <2>2, <1>3, <1>7 DEF OutcomeInv, TruthInv, EntriesTrue, TrueOf, Forward
  <2> QED
    BY <2>1, <2>2
<1> QED
  BY <1>1, <1>3, <1>9, TruthStays, OutcomeFacts DEF TruthInv

(* Closing an entry moves its word from one field to the other. *)
LEMMA ClosedIsTrue ==
  ASSUME OutcomeInv, NEW k \in Key, CloseEntry(k), Forward
  PROVE  EntriesTrue'
<1>1. journal[k] \in Entries /\ journal \in [Key -> Entries]
  BY OutcomeFacts DEF GuardedInv, GuardedTypeOK
<1>2. /\ Closed(journal[k]).call = journal[k].call
      /\ Closed(journal[k]).pending = "none" /\ Closed(journal[k]).response = journal[k].pending
  BY <1>1 DEF Closed, Entries
<1>3. journal'[k] = Closed(journal[k]) /\ \A l \in Key : l # k => journal'[l] = journal[l]
  BY <1>1 DEF CloseEntry
<1> SUFFICES ASSUME NEW l \in Key
             PROVE  /\ journal'[l].call \in Call =>
                         /\ TrueOf(journal[l].call, journal[l].pending)'
                         /\ TrueOf(journal[l].call, journal[l].response)'
                    /\ journal'[l].call = "none" =>
                         journal'[l].pending = "none" /\ journal'[l].response = "none"
  BY DEF EntriesTrue
<1>4. CASE l = k
  BY <1>2, <1>3, <1>4 DEF OutcomeInv, TruthInv, EntriesTrue, TrueOf, Forward
<1>5. CASE l # k
  BY <1>3, <1>5 DEF OutcomeInv, TruthInv, EntriesTrue, TrueOf, Forward
<1> QED
  BY <1>4, <1>5

LEMMA CompletedRevivesNone ==
  ASSUME OutcomeInv, NEW k \in Key, confirmations' = Completed(k), UNCHANGED issued
  PROVE  NoneRevives
BY MarkedRevivesNone, FileStays, OutcomeFacts DEF Completed

(* What a call is answered at the end: its own result, or that another's was replayed, and then it
   did nothing, since whoever acts holds the entry. *)
LEMMA AnswerIsTrue ==
  ASSUME OutcomeInv, NEW c \in Call, Asked(c), calls[c].at = "finalizing", UNCHANGED performed,
         NEW result, result = ResultFor(c), Moves(c, "staging", result)
  PROVE  TrueLater(c, result)
<1>1. Entry(c) \in Entries /\ calls[c].key \in Key
  BY CallFacts, OutcomeFacts
<1>2. CASE Entry(c).call # c
  <2>1. performed[c] = "none" /\ result = "replayed"
    BY <1>2, OutcomeFacts DEF GuardedInv, KeyIsTaken, Holds, Entry, ResultFor
  <2> QED
    BY <2>1 DEF TrueLater, Past, Moves
<1>3. CASE Entry(c).call = c
  <2>1. result \in {Entry(c).response, Entry(c).pending}
    BY <1>3 DEF ResultFor
  <2>2. TrueOf(c, Entry(c).response) /\ TrueOf(c, Entry(c).pending)
    BY <1>1, <1>3 DEF OutcomeInv, TruthInv, EntriesTrue, Entry
  <2> QED
    BY <2>1, <2>2 DEF TrueOf, TrueLater, Past, Moves
<1> QED
  BY <1>2, <1>3

LEMMA FinalizeOutcome ==
  ASSUME OutcomeInv, NEW c \in Call, Finalize(c)
  PROVE  SpendingInv' /\ TruthInv'
<1>1. /\ Asked(c) /\ calls[c].at = "finalizing" /\ calls[c].key \in Key
      /\ UNCHANGED <<operations, performed, recovered, issued>>
  BY AtIsAsked, CallFacts, OutcomeFacts DEF Finalize, Places
<1>2. CASE CloseEntry(calls[c].key) /\ Ends(c, "staging", ResultFor(c))
  <2>1. Moves(c, "staging", ResultFor(c))
    BY <1>1, <1>2, EndsMoves, OutcomeFacts
  <2>2. TrueLater(c, ResultFor(c))
    BY <1>1, <2>1, AnswerIsTrue
  <2>3. NoneRevives
    BY <1>1, <1>2, CompletedRevivesNone DEF CloseEntry
  <2>4. SpendingInv' /\ Forward /\ ResultsTrue' /\ ActsInTime'
    BY <1>1, <2>1, <2>2, <2>3, MovingOutcome
  <2>5. EntriesTrue'
    BY <1>1, <1>2, <2>4, ClosedIsTrue
  <2> QED
    BY <1>1, <2>4, <2>5, TruthStays, OutcomeFacts DEF TruthInv
<1>3. CASE Ends(c, "staging", "error") /\ UNCHANGED <<confirmations, journal>>
  <2>1. Moves(c, "staging", "error")
    BY <1>1, <1>3, EndsMoves, OutcomeFacts
  <2> QED
    BY <1>1, <1>3, <2>1, ReadingOutcome DEF TrueLater
<1>4. CASE confirmations' \in {confirmations, Completed(calls[c].key)} /\ UNCHANGED <<journal, calls>>
  <2>1. NoneRevives
    BY <1>1, <1>4, CompletedRevivesNone, FileStays, OutcomeFacts
  <2> QED
    BY <1>1, <1>4, <2>1, QuietOutcome
<1>5. CASE Ends(c, "staging", ResultFor(c)) /\ UNCHANGED <<confirmations, journal>>
  <2>1. Moves(c, "staging", ResultFor(c))
    BY <1>1, <1>5, EndsMoves, OutcomeFacts
  <2>2. TrueLater(c, ResultFor(c))
    BY <1>1, <2>1, AnswerIsTrue
  <2> QED
    BY <1>1, <1>5, <2>1, <2>2, ReadingOutcome
<1> QED
  BY <1>2, <1>3, <1>4, <1>5 DEF Finalize

-----------------------------------------------------------------------------
(* The records say what the calls, the entries and the recoveries say. *)

LEMMA StagedFields ==
  ASSUME OperationsTyped, NEW c \in Call, NEW outcome \in Word
  PROVE  \A d \in Call :
           /\ Staged(c, outcome)[d].status = operations[d].status
           /\ \/ Staged(c, outcome)[d].pending = operations[d].pending
              \/ d = c /\ Staged(c, outcome)[d].pending = outcome
<1> DEFINE r == [operations[c] EXCEPT !.pending = outcome]
<1>1. operations[c] \in Records
  BY DEF OperationsTyped
<1>2. r.status = operations[c].status /\ r.pending = outcome
  BY <1>1 DEF Records
<1>3. Staged(c, outcome) \in {operations, [operations EXCEPT ![c] = r]}
  BY DEF Staged, OperationsTyped
<1> HIDE DEF r
<1> QED
  BY <1>2, <1>3 DEF OperationsTyped

LEMMA SettledFields ==
  ASSUME OperationsTyped, NEW c \in Call
  PROVE  \A d \in Call :
           /\ Settled(c)[d].status \in {operations[d].status, operations[d].pending}
           /\ Settled(c)[d].pending \in {operations[d].pending, "none"}
<1> DEFINE r == [operations[c] EXCEPT !.status = operations[c].pending, !.pending = "none",
                                      !.expired = FALSE]
<1>1. operations[c] \in Records
  BY DEF OperationsTyped
<1>2. r.status = operations[c].pending /\ r.pending = "none"
  BY <1>1 DEF Records
<1>3. Settled(c) = [operations EXCEPT ![c] = r]
  BY DEF Settled, OperationsTyped
<1> HIDE DEF r
<1> QED
  BY <1>2, <1>3 DEF OperationsTyped

LEMMA StageOutcome ==
  ASSUME OutcomeInv, NEW c \in Call, Stage(c)
  PROVE  SpendingInv' /\ TruthInv'
<1>1. /\ Asked(c) /\ calls[c].at = "staging" /\ Past(c) /\ OperationsTyped
      /\ UNCHANGED <<confirmations, journal, performed, recovered, issued>>
  BY AtIsAsked, OutcomeFacts DEF Stage, Places, Past, GuardedInv, GuardedTypeOK
<1>2. Moves(c, "settling", calls[c].result)
  BY <1>1, GoesMoves, OutcomeFacts DEF Stage
<1>3. SpendingInv' /\ Forward /\ ResultsTrue' /\ ActsInTime'
  BY <1>1, <1>2, SameResult, FileStays, MovingOutcome, OutcomeFacts
<1>4. OutcomeOf(c) \in Word
  BY <1>1, CallFacts, OutcomeFacts DEF OutcomeOf, Word
<1>5. TrueLater(c, OutcomeOf(c))
  <2>1. TrueOf(c, calls[c].result)
    BY <1>1 DEF OutcomeInv, TruthInv, ResultsTrue
  <2> QED
    BY <1>1, <1>3, <2>1 DEF OutcomeOf, TrueOf, TrueLater, Forward
<1>6. RecordsTrue'
  BY <1>1, <1>3, <1>4, <1>5, StagedFields, RecordsStayTrue, OutcomeFacts DEF Stage
<1> QED
  BY <1>1, <1>3, <1>6, TruthStays, OutcomeFacts DEF TruthInv

LEMMA SettleOutcome ==
  ASSUME OutcomeInv, NEW c \in Call, Settle(c)
  PROVE  SpendingInv' /\ TruthInv'
<1>1. /\ Asked(c) /\ OperationsTyped
      /\ UNCHANGED <<confirmations, journal, performed, recovered, issued>>
  BY AtIsAsked, OutcomeFacts DEF Settle, Places, GuardedInv, GuardedTypeOK
<1>2. Moves(c, "done", calls[c].result)
  BY <1>1, GoesMoves, OutcomeFacts DEF Settle
<1>3. SpendingInv' /\ Forward /\ ResultsTrue' /\ ActsInTime'
  BY <1>1, <1>2, SameResult, FileStays, MovingOutcome, OutcomeFacts
<1>4. RecordsTrue'
  BY <1>1, <1>3, SettledFields, RecordsStayTrue, OutcomeFacts DEF Settle
<1> QED
  BY <1>1, <1>3, <1>4, TruthStays, OutcomeFacts DEF TruthInv

LEMMA RecoverOutcome ==
  ASSUME OutcomeInv, NEW c \in Call, Recover(c)
  PROVE  SpendingInv' /\ TruthInv'
<1>1. /\ Asked(c) /\ calls[c].key \in Key /\ journal \in [Key -> Entries]
      /\ UNCHANGED <<operations, calls, performed, issued>>
  BY CallFacts, OutcomeFacts DEF Recover, Abandoned, Open, GuardedInv, GuardedTypeOK, RecordFollows, Asked
<1>2. NoneRevives
  BY <1>1, CompletedRevivesNone, FileStays, OutcomeFacts DEF Recover, CloseEntry
<1>3. NobodyStarts /\ Forward /\ ResultsTrue' /\ ActsInTime'
  BY <1>1, ResultsStay, OutcomeFacts DEF NobodyStarts, Holds
<1>4. EntriesTrue'
  BY <1>1, <1>3, ClosedIsTrue, TruthStays, OutcomeFacts DEF Recover
<1>5. PICK word : TrueOf(c, word) /\ recovered' = [recovered EXCEPT ![c] = word]
  <2>1. IsOwn(c) => TrueOf(c, Entry(c).response) /\ TrueOf(c, Entry(c).pending)
    BY <1>1 DEF IsOwn, Entry, OutcomeInv, TruthInv, EntriesTrue
  <2>2. TrueOf(c, "unknown_after_crash") /\ TrueOf(c, "failed")
    BY DEF TrueOf
  <2> QED
    BY <2>1, <2>2 DEF Recover
<1>6. RecoveredTrue'
  BY <1>1, <1>3, <1>5, OutcomeFacts
     DEF GuardedInv, GuardedTypeOK, TruthInv, RecoveredTrue, TrueOf, Forward
<1> QED
  BY <1>1, <1>2, <1>3, <1>4, <1>6, SpentStays, TruthStays, OutcomeFacts DEF TruthInv

LEMMA StageRecoveredOutcome ==
  ASSUME OutcomeInv, NEW c \in Call, StageRecovered(c)
  PROVE  SpendingInv' /\ TruthInv'
<1>1. /\ OperationsTyped /\ recovered[c] \in Word /\ recovered \in [Call -> Word]
      /\ UNCHANGED <<confirmations, calls, journal, performed, issued>>
  BY OutcomeFacts DEF StageRecovered, GuardedInv, GuardedTypeOK
<1>2. NobodyStarts /\ Forward /\ ResultsTrue' /\ ActsInTime'
  BY <1>1, ResultsStay, OutcomeFacts DEF NobodyStarts, Holds
<1>3. TrueLater(c, recovered[c])
  BY <1>2, OutcomeFacts DEF TruthInv, RecoveredTrue, TrueOf, TrueLater, Forward
<1>4. RecordsTrue'
  BY <1>1, <1>2, <1>3, StagedFields, RecordsStayTrue, OutcomeFacts DEF StageRecovered
<1>5. RecoveredTrue'
  BY <1>1, <1>2, OutcomeFacts DEF StageRecovered, TruthInv, RecoveredTrue, TrueOf, Forward
<1> QED
  BY <1>1, <1>2, <1>4, <1>5, FileStays, SpentStays, TruthStays, OutcomeFacts DEF TruthInv

(* Steps on the records alone. *)
LEMMA RecordOutcome ==
  ASSUME OutcomeInv, NEW c \in Call,
         SettleForOther(c) \/ Cancel(c) \/ Restore(c) \/ Stall(c) \/ Expire(c) \/ Beat(c)
  PROVE  SpendingInv' /\ TruthInv'
<1>1. /\ OperationsTyped
      /\ UNCHANGED <<confirmations, journal, performed, recovered, issued>>
  BY OutcomeFacts DEF GuardedInv, GuardedTypeOK, SettleForOther, Cancel, Restore, Stall, Expire, Beat
<1>2. \A d \in Call : /\ calls'[d].at = calls[d].at /\ calls'[d].result = calls[d].result
                      /\ calls'[d].confirmation = calls[d].confirmation
  <2>1. CASE Beat(c)
    <3> DEFINE call == [calls[c] EXCEPT !.aborted = @ \/ operations[c].status = "cancelling"]
    <3>1. calls[c] \in Asking /\ CallsTyped
      BY <2>1, AskedIsRecord, OutcomeFacts DEF Beat, Lives, Running
    <3>2. calls' = [calls EXCEPT ![c] = call]
      BY <2>1, <3>1 DEF Beat, CallsTyped
    <3>3. call.at = calls[c].at /\ call.result = calls[c].result
          /\ call.confirmation = calls[c].confirmation
      BY <3>1 DEF Asking
    <3> HIDE DEF call
    <3> QED
      BY <3>1, <3>2, <3>3 DEF CallsTyped
  <2>2. CASE ~Beat(c)
    BY <2>2 DEF SettleForOther, Cancel, Restore, Stall, Expire
  <2> QED
    BY <2>1, <2>2
<1>3. NobodyStarts /\ Forward /\ ResultsTrue' /\ ActsInTime'
  BY <1>1, <1>2, ResultsStay, OutcomeFacts DEF NobodyStarts, Holds
<1>4. \A d \in Call :
        /\ operations'[d].status \in
             {operations[d].status, operations[d].pending, "none", "running", "cancelling"}
        /\ operations'[d].pending \in {operations[d].pending, "none"}
  <2>1. CASE SettleForOther(c)
    BY <1>1, <2>1, SettledFields DEF SettleForOther
  <2>2. CASE ~SettleForOther(c)
    <3>1. operations[c] \in Records
      BY <1>1 DEF OperationsTyped
    <3>2. PICK r : /\ operations' = [operations EXCEPT ![c] = r]
                   /\ r.status \in {operations[c].status, "running", "cancelling"}
                   /\ r.pending = operations[c].pending
      <4> DEFINE marked(status) == [operations[c] EXCEPT !.status = status]
                 beating(fresh) == [operations[c] EXCEPT !.fresh = fresh]
                 old == [operations[c] EXCEPT !.expired = TRUE]
      <4>1. \A status : marked(status).status = status
                        /\ marked(status).pending = operations[c].pending
        BY <3>1 DEF Records
      <4>2. \A fresh : beating(fresh).status = operations[c].status
                       /\ beating(fresh).pending = operations[c].pending
        BY <3>1 DEF Records
      <4>3. old.status = operations[c].status /\ old.pending = operations[c].pending
        BY <3>1 DEF Records
      <4>4. \E r \in {marked("running"), marked("cancelling"), beating(TRUE), beating(FALSE), old} :
              operations' = [operations EXCEPT ![c] = r]
        BY <2>2 DEF Cancel, Restore, Stall, Expire, Beat
      <4>5. PICK r \in {marked("running"), marked("cancelling"), beating(TRUE), beating(FALSE), old} :
              operations' = [operations EXCEPT ![c] = r]
        BY <4>4
      <4>6. r.status \in {operations[c].status, "running", "cancelling"}
            /\ r.pending = operations[c].pending
        <5> HIDE DEF marked, beating, old
        <5> QED
          BY <4>1, <4>2, <4>3, <4>5
      <4> QED
        BY <4>5, <4>6
    <3> QED
      BY <1>1, <3>2 DEF OperationsTyped
  <2> QED
    BY <2>1, <2>2
<1>5. RecordsTrue'
  BY <1>3, <1>4, RecordsStayTrue, OutcomeFacts
<1> QED
  BY <1>1, <1>3, <1>5, FileStays, SpentStays, TruthStays, OutcomeFacts DEF TruthInv

LEMMA OutcomeInit == GuardedInit => OutcomeInv
<1> SUFFICES ASSUME GuardedInit PROVE SpendingInv /\ TruthInv
  BY InitIsSound DEF OutcomeInv
<1>1. NoConfirmation \in Slips /\ NoConfirmation.status = "none"
  BY DEF NoConfirmation, Slips
<1>2. ConfirmationsTyped /\ FiledAreIssued
  BY <1>1, FS_EmptySet DEF GuardedInit, ConfirmationsTyped, FiledAreIssued
<1>3. \A c \in Call : ~Holds(c) /\ ~Asked(c)
  BY DEF GuardedInit, Holds, Asked, Unasked
<1>4. ConfirmationIsSpent /\ SpentByOne
  BY <1>3 DEF ConfirmationIsSpent, SpentByOne
<1>5. EntriesTrue
  BY DEF GuardedInit, EntriesTrue, NoEntry, TrueOf
<1>6. RecordsTrue /\ RecoveredTrue
  BY DEF GuardedInit, RecordsTrue, RecoveredTrue, NoOperation, TrueOf
<1>7. ResultsTrue /\ ActsInTime
  BY <1>3 DEF GuardedInit, ResultsTrue, ActsInTime, Unasked
<1> QED
  BY <1>2, <1>4, <1>5, <1>6, <1>7 DEF SpendingInv, TruthInv

LEMMA OutcomeStep ==
  ASSUME OutcomeInv, [GuardedNext]_guardedVars
  PROVE  OutcomeInv'
<1>1. GuardedInv'
  BY StepIsSound, OutcomeFacts
<1> SUFFICES SpendingInv' /\ TruthInv'
  BY <1>1 DEF OutcomeInv
<1>2. CASE Drift \/ (\E p \in Process : Crash(p)) \/ UNCHANGED guardedVars
  BY <1>2, QuietOutcome, FileStays, OutcomeFacts DEF Drift, Crash, guardedVars
<1>3. CASE \E id \in Confirmation : Issue(id) \/ Refuse(id) \/ Lapse(id)
  <2>1. NoneRevives
    BY <1>3, IssueRevivesNone, LapseRevivesNone, MarkedRevivesNone, OutcomeFacts DEF Refuse
  <2> QED
    BY <1>3, <2>1, QuietOutcome DEF Issue, Refuse, Lapse
<1>4. CASE \E c \in Call, p \in Process, via \in Adapter, k \in Key,
              id \in Confirmation \cup {"none"} : Ask(c, p, via, k, id)
  BY <1>4, AskOutcome
<1>5. CASE \E c \in Call :
             \/ Admit(c) \/ AuditAdmission(c) \/ ReadJournal(c) \/ Claim(c) \/ Authorize(c)
             \/ Execute(c) \/ RecordResult(c) \/ Finalize(c) \/ Stage(c) \/ Settle(c)
  BY <1>5, AdmitOutcome, AuditAdmissionOutcome, ReadJournalOutcome, ClaimOutcome,
     AuthorizeOutcome, ExecuteOutcome, RecordResultOutcome, FinalizeOutcome, StageOutcome,
     SettleOutcome
<1>6. CASE \E c \in Call :
             \/ Recover(c) \/ StageRecovered(c) \/ SettleForOther(c) \/ Cancel(c) \/ Restore(c)
             \/ Beat(c) \/ Stall(c) \/ Expire(c)
  BY <1>6, RecoverOutcome, StageRecoveredOutcome, RecordOutcome
<1> QED
  BY <1>2, <1>3, <1>4, <1>5, <1>6 DEF GuardedNext

-----------------------------------------------------------------------------
(* Every state of the guarded operations is typed, whoever acts holds the entry of its key, and a
   record that has its end has nothing to settle. *)
THEOREM GuardedIsInvariant == GuardedSpec => []GuardedInv
<1>1. GuardedInv /\ [GuardedNext]_guardedVars => GuardedInv'
  BY StepIsSound
<1> QED
  BY <1>1, InitIsSound, PTL DEF GuardedSpec

(* One idempotency key acts once, whatever crashes, stalls or is retried. *)
THEOREM KeyActsOnce == GuardedSpec => []OncePerKey
<1>1. GuardedInv => OncePerKey
  BY DEF GuardedInv, KeyIsTaken, Holds, OncePerKey, Performers
<1> QED
  BY <1>1, GuardedIsInvariant, PTL

(* Once an operation has its end, no step gives it another. *)
THEOREM EndsAreKept == GuardedSpec => [][KeepsItsEnd]_guardedVars
<1>1. GuardedInv /\ [GuardedNext]_guardedVars => [KeepsItsEnd]_guardedVars
  BY StepIsSound
<1> QED
  BY <1>1, GuardedIsInvariant, PTL DEF GuardedSpec

(* Every state is sound, each confirmation is spent by one call, and what is said of a call is true. *)
THEOREM OutcomeIsInvariant == GuardedSpec => []OutcomeInv
<1>1. OutcomeInv /\ [GuardedNext]_guardedVars => OutcomeInv'
  BY OutcomeStep
<1> QED
  BY <1>1, OutcomeInit, PTL DEF GuardedSpec

(* Two calls never act on one confirmation, whatever was trimmed, lapsed, replayed or retried. *)
THEOREM ConfirmationActsOnce == GuardedSpec => []OncePerConfirmation
<1>1. OutcomeInv => OncePerConfirmation
  BY DEF OutcomeInv, SpendingInv, SpentByOne, Holds, OncePerConfirmation, Performers
<1> QED
  BY <1>1, OutcomeIsInvariant, PTL

(* What the journal, the records and the answers say was done was done, by the call it is said of,
   and what they call skipped was not. *)
THEOREM ReportsAreTrueAlways == GuardedSpec => []ReportsAreTrue
<1>1. OutcomeInv => ReportsAreTrue
  <2> SUFFICES ASSUME OutcomeInv PROVE ReportsAreTrue
    OBVIOUS
  <2>1. ASSUME NEW k \in Key, "succeeded" \in {journal[k].pending, journal[k].response}
        PROVE  performed[journal[k].call] = "succeeded"
    <3>1. journal[k].call \in Call
      BY <2>1, OutcomeFacts DEF GuardedInv, GuardedTypeOK, Entries, TruthInv, EntriesTrue
    <3> QED
      BY <2>1, <3>1, OutcomeFacts DEF TruthInv, EntriesTrue, TrueOf
  <2>2. ASSUME NEW c \in Call
        PROVE  /\ operations[c].status = "succeeded" => performed[c] = "succeeded"
               /\ operations[c].status = "skipped" => performed[c] = "none"
               /\ Asked(c) /\ calls[c].result = "succeeded" => performed[c] = "succeeded"
    BY OutcomeFacts DEF TruthInv, RecordsTrue, ResultsTrue, TrueOf
  <2> QED
    BY <2>1, <2>2 DEF ReportsAreTrue
<1> QED
  BY <1>1, OutcomeIsInvariant, PTL
================================================================================
