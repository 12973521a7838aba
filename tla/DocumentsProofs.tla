---------------------------- MODULE DocumentsProofs ----------------------------
(***************************************************************************)
(* The files that calls of one runtime read, extend and write back.        *)
(*                                                                         *)
(* For any records, calls, commands and troubles: what runs was confirmed, *)
(* and meets the service as it was when the record was issued.  The file   *)
(* may go back to an older copy at any write, so what holds is said of     *)
(* every copy, in the file or with a call (Sound).                         *)
(*                                                                         *)
(* For any runs, actions and deaths: an answered run is in the file of its *)
(* service until later ones push it out.  A file that is being written is  *)
(* torn, a call that wrote without overlapping had the file to itself      *)
(* (WritesAlone), and every file and copy of it is in order (InOrder).     *)
(*                                                                         *)
(* For any writes and troubles: a lifecycle document never reads as older  *)
(* than what was answered.  No migration is under way once a write was     *)
(* answered, and the backup is never more than one answer behind.          *)
(*                                                                         *)
(* For any operations, consumers and mishaps: a rotation that settled is   *)
(* everywhere.  RotationInv says where a call can be with what its copy    *)
(* and its file say (CallFits, CallFitsFile), what an operation that is    *)
(* open has brought about (IsLive), and what an undoing that nothing       *)
(* interrupted has brought back (Reverted).                                *)
(*                                                                         *)
(* For any days, calls, events and upsets: an Audit chain that verifies    *)
(* holds every answered event once.  An event that was answered is read as *)
(* long as every line is (RecordedIsRead), and no event is read twice.     *)
(*                                                                         *)
(* For any limit, conditions, processes and calls: what is owed waits in   *)
(* the queue.  A call that found the other process idle, and that no other *)
(* call has met, will write and owe what fits together (WorkFits).         *)
(***************************************************************************)
EXTENDS Confirmations, ActionRuns, LifecycleDocument, SecretRotation, AuditLog, OperatorQueue,
        FiniteSetTheorems, SequenceTheorems, WellFoundedInduction, TLAPS


Words == {"absent", "pending", "confirmed", "executed", "expired", "denied"}

(* A copy of the file, new or old, calls confirmed only what was confirmed. *)
Shaped(copy) == copy = [order |-> copy.order, status |-> copy.status] /\ copy.status \in [Record -> Words]
IsTrue(copy) == \A r \in Record : copy.status[r] = "confirmed" => r \in confirmed
Sound(copy) == Shaped(copy) /\ IsTrue(copy)

(* What a call is, and has read. *)
CallHolds(x) ==
  /\ x = [at |-> x.at, kind |-> x.kind, record |-> x.record, copy |-> x.copy]
  /\ x.at # "idle" => x.record \in Record
  /\ x.at = "read" => issued[x.record] # Unissued
  /\ Sound(x.copy)

Shapes ==
  /\ running \in BOOLEAN
  /\ issued \in [Record -> [command : Command \cup {"none"}, running : BOOLEAN]]
  /\ executions \in [Record -> [met : SUBSET BOOLEAN, again : BOOLEAN]]
  /\ requests = [c \in Asker |-> requests[c]]

ConfirmationInv ==
  /\ Shapes /\ Sound(store) /\ \A c \in Asker : CallHolds(requests[c])
  /\ \A r \in confirmed : issued[r] # Unissued
  /\ RunsOnlyAsConfirmed

-----------------------------------------------------------------------------
LEMMA MarkedSound ==
  ASSUME NEW copy, Sound(copy), NEW r \in Record, NEW word \in Words, word = "confirmed" => r \in confirmed
  PROVE  Sound(Marked(copy, r, word))
<1> DEFINE m == Marked(copy, r, word)
<1>1. /\ copy = [order |-> copy.order, status |-> copy.status] /\ copy.status \in [Record -> Words]
      /\ \A o \in Record : copy.status[o] = "confirmed" => o \in confirmed
  BY DEF Sound, Shaped, IsTrue
<1>2. m = [order |-> copy.order, status |-> [copy.status EXCEPT ![r] = word]]
  BY <1>1 DEF Marked
<1> HIDE DEF m
<1>3. m = [order |-> m.order, status |-> m.status] /\ m.status = [copy.status EXCEPT ![r] = word]
  BY <1>2
<1>4. m.status \in [Record -> Words]
  BY <1>1, <1>3
<1>5. \A o \in Record : m.status[o] = "confirmed" => o \in confirmed
  BY <1>1, <1>3
<1> QED
  BY <1>3, <1>4, <1>5 DEF m, Sound, Shaped, IsTrue

LEMMA EmptySound == Sound(Empty)
BY DEF Sound, Shaped, IsTrue, Empty, Words

LEMMA NewSound ==
  ASSUME Sound(store), NEW r
  PROVE  Sound(WithNew(r))
<1>1. store.status \in [Record -> Words] /\ \A o \in Record : StatusOf(o) = "confirmed" => o \in confirmed
  BY DEF Sound, Shaped, IsTrue, StatusOf
<1> DEFINE m == WithNew(r)
<1>2. m = [order |-> Newest(r),
         status |-> [o \in Record |-> IF o = r THEN "pending"
                                     ELSE IF o \in ToSet(Newest(r)) THEN StatusOf(o) ELSE "absent"]]
  BY DEF WithNew
<1> HIDE DEF m
<1>3. m = [order |-> m.order, status |-> m.status]
  BY <1>2
<1>4. ASSUME NEW o \in Record PROVE m.status[o] \in {"pending", "absent", StatusOf(o)}
  BY <1>2
<1>5. m.status \in [Record -> Words]
  <2>1. \A o \in Record : StatusOf(o) \in Words
    BY <1>1 DEF StatusOf
  <2>2. m.status = [o \in Record |-> m.status[o]]
    BY <1>2
  <2> QED
    BY <1>4, <2>1, <2>2 DEF Words
<1>6. \A o \in Record : m.status[o] = "confirmed" => o \in confirmed
  BY <1>1, <1>4
<1> QED
  BY <1>3, <1>5, <1>6 DEF m, Sound, Shaped, IsTrue

(* Records are issued and confirmed for good. *)
Grows == confirmed \subseteq confirmed' /\ \A r \in Record : issued[r] # Unissued => issued'[r] = issued[r]

LEMMA SoundStays ==
  ASSUME NEW copy, Sound(copy), Grows
  PROVE  Sound(copy)'
BY DEF Sound, Shaped, IsTrue, Grows

LEMMA CallStays ==
  ASSUME NEW x, CallHolds(x), Grows
  PROVE  CallHolds(x)'
<1>1. Sound(x.copy)'
  BY SoundStays DEF CallHolds
<1> QED
  BY <1>1 DEF CallHolds, Grows

(* One call goes on. *)
LEMMA CallsStep ==
  ASSUME ConfirmationInv, Grows, NEW c \in Asker, NEW x, requests' = [requests EXCEPT ![c] = x], CallHolds(x)'
  PROVE  requests' = [o \in Asker |-> requests'[o]] /\ \A o \in Asker : CallHolds(requests[o])'
<1>1. requests = [o \in Asker |-> requests[o]]
  BY DEF ConfirmationInv, Shapes
<1>2. requests'[c] = x /\ \A o \in Asker : o # c => requests'[o] = requests[o]
  BY <1>1
<1>3. requests' = [o \in Asker |-> requests'[o]]
  BY <1>1
<1>4. ASSUME NEW o \in Asker PROVE CallHolds(requests[o])'
  <2>1. CASE o = c
    BY <1>2, <2>1 DEF CallHolds, Sound, Shaped, IsTrue
  <2>2. CASE o # c
    <3>1. CallHolds(requests[o])
      BY DEF ConfirmationInv
    <3>2. \A y : CallHolds(y) => CallHolds(y)'
      BY CallStays
    <3> QED
      BY <1>2, <2>2, <3>1, <3>2 DEF CallHolds, Sound, Shaped, IsTrue
  <2> QED
    BY <2>1, <2>2
<1> QED
  BY <1>3, <1>4

Becomes(c, x) == requests' = [requests EXCEPT ![c] = x]

LEMMA PlainStep ==
  ASSUME ConfirmationInv, NEW c \in Asker, NEW x, Becomes(c, x), CallHolds(x),
         UNCHANGED <<issued, confirmed, executions>>, running' \in BOOLEAN, UNCHANGED store
  PROVE  ConfirmationInv'
<1>1. Grows
  BY DEF Grows
<1>2. requests' = [o \in Asker |-> requests'[o]] /\ \A o \in Asker : CallHolds(requests[o])'
  BY <1>1, CallStays, CallsStep DEF Becomes
<1>3. Sound(store)'
  BY DEF ConfirmationInv, Sound, Shaped, IsTrue
<1>4. Shapes'
  BY <1>2 DEF ConfirmationInv, Shapes
<1>5. (\A r \in confirmed : issued[r] # Unissued)' /\ RunsOnlyAsConfirmed'
  BY DEF ConfirmationInv, RunsOnlyAsConfirmed, Unissued
<1> QED
  BY <1>2, <1>3, <1>4, <1>5 DEF ConfirmationInv

LEMMA IdleHolds == CallHolds(NoRequest)
BY EmptySound DEF CallHolds, NoRequest

LEMMA ReturnStep ==
  ASSUME ConfirmationInv, NEW c \in Asker, RequestEnds(c), UNCHANGED <<issued, confirmed, executions, running, store>>
  PROVE  ConfirmationInv'
<1>1. running' \in BOOLEAN
  BY DEF ConfirmationInv, Shapes
<1>2. PICK x : x = NoRequest
  OBVIOUS
<1>3. Becomes(c, x) /\ CallHolds(x)
  BY <1>2, IdleHolds DEF RequestEnds, Becomes
<1> QED
  BY <1>1, <1>3, PlainStep

LEMMA CallFacts ==
  ASSUME ConfirmationInv, NEW c \in Asker
  PROVE  /\ running \in BOOLEAN /\ CallHolds(requests[c]) /\ Sound(requests[c].copy)
         /\ requests[c] = [at |-> requests[c].at, kind |-> requests[c].kind, record |-> Rec(c), copy |-> requests[c].copy]
         /\ requests[c].at # "idle" => Rec(c) \in Record
         /\ requests[c].at = "read" => issued[Rec(c)] # Unissued
BY DEF ConfirmationInv, Shapes, CallHolds, Rec

LEMMA OneRecord ==
  ASSUME NEW a, NEW b, NEW d, NEW e, NEW y, y \in [at : {a}, kind : {b}, record : {d}, copy : {e}]
  PROVE  y = [at |-> a, kind |-> b, record |-> d, copy |-> e]
OBVIOUS

(* A call that carries a copy on. *)
LEMMA CarriesOn ==
  ASSUME ConfirmationInv, NEW c \in Asker, requests[c].at # "idle",
         NEW place \in {"executor", "write", "writing"}, NEW copy,
         requests' = [requests EXCEPT ![c].at = place, ![c].copy = copy]
  PROVE  \E x : /\ Becomes(c, x) /\ x = [at |-> place, kind |-> requests[c].kind, record |-> Rec(c), copy |-> copy]
                /\ Sound(copy) => CallHolds(x)
<1> DEFINE x == [at |-> place, kind |-> requests[c].kind, record |-> Rec(c), copy |-> copy]
<1>0. /\ requests = [o \in Asker |-> requests[o]] /\ Rec(c) \in Record
      /\ requests[c] = [at |-> requests[c].at, kind |-> requests[c].kind, record |-> Rec(c), copy |-> requests[c].copy]
  BY CallFacts DEF ConfirmationInv, Shapes
<1>1. [requests[c] EXCEPT !.at = place, !.copy = copy] = x
  <2>1. requests[c] \in [at : {requests[c].at}, kind : {requests[c].kind}, record : {Rec(c)}, copy : {requests[c].copy}]
    BY <1>0
  <2>2. [requests[c] EXCEPT !.at = place, !.copy = copy]
          \in [at : {place}, kind : {requests[c].kind}, record : {Rec(c)}, copy : {copy}]
    BY <2>1
  <2>3. PICK y : y = [requests[c] EXCEPT !.at = place, !.copy = copy]
    OBVIOUS
  <2>4. y \in [at : {place}, kind : {requests[c].kind}, record : {Rec(c)}, copy : {copy}]
    BY <2>2, <2>3
  <2>5. y = [at |-> place, kind |-> requests[c].kind, record |-> Rec(c), copy |-> copy]
    BY <2>4, OneRecord
  <2> QED
    BY <2>3, <2>5
<1>2. requests' = [requests EXCEPT ![c] = [requests[c] EXCEPT !.at = place, !.copy = copy]]
  BY <1>0
<1>3. Becomes(c, x)
  BY <1>1, <1>2 DEF Becomes
<1>4. Sound(copy) => CallHolds(x)
  BY <1>0 DEF CallHolds
<1> QED
  BY <1>3, <1>4

-----------------------------------------------------------------------------
LEMMA AskKeeps ==
  ASSUME ConfirmationInv, NEW c \in Asker, NEW r \in Record, NEW kind, Ask(c, r, kind)
  PROVE  ConfirmationInv'
<1>1. PICK x : x = [NoRequest EXCEPT !.at = "read", !.kind = kind, !.record = r]
  OBVIOUS
<1>2. x = [at |-> "read", kind |-> kind, record |-> r, copy |-> Empty]
  BY <1>1 DEF NoRequest
<1>3. CallHolds(x)
  BY <1>2, EmptySound DEF CallHolds, Ask
<1>4. Becomes(c, x) /\ UNCHANGED <<issued, confirmed, executions, running, store>> /\ running \in BOOLEAN
  BY <1>1 DEF Becomes, Ask, ConfirmationInv, Shapes
<1> QED
  BY <1>3, <1>4, PlainStep

(* A record that is issued for the first time was never confirmed, and never ran. *)
LEMMA AskIssueKeeps ==
  ASSUME ConfirmationInv, NEW c \in Asker, NEW r \in Record, NEW command \in Command,
         AskIssue(c, r, command)
  PROVE  ConfirmationInv'
<1>0. /\ issued[r] = Unissued /\ UNCHANGED <<store, running, confirmed, executions>> /\ running \in BOOLEAN
      /\ issued \in [Record -> [command : Command \cup {"none"}, running : BOOLEAN]]
      /\ issued' = [issued EXCEPT ![r] = [command |-> command, running |-> running]]
  BY DEF AskIssue, ConfirmationInv, Shapes
<1>1. PICK x : x = [NoRequest EXCEPT !.at = "read", !.kind = "issue", !.record = r]
  OBVIOUS
<1>2. x = [at |-> "read", kind |-> "issue", record |-> r, copy |-> Empty]
  BY <1>1 DEF NoRequest
<1>3. /\ issued'[r] # Unissued /\ \A o \in Record : o # r => issued'[o] = issued[o]
      /\ issued' \in [Record -> [command : Command \cup {"none"}, running : BOOLEAN]]
  BY <1>0, CommandAssumption DEF Unissued
<1>4. Grows
  BY <1>0, <1>3 DEF Grows
<1>5. Sound(Empty)' /\ Sound(store)'
  BY <1>0, <1>4, EmptySound DEF ConfirmationInv, Sound, Shaped, IsTrue, Empty
<1>6. CallHolds(x)'
  BY <1>2, <1>3, <1>5 DEF CallHolds, Empty
<1>7. requests' = [o \in Asker |-> requests'[o]] /\ \A o \in Asker : CallHolds(requests[o])'
  BY <1>1, <1>4, <1>6, CallsStep DEF AskIssue
<1>8. Shapes'
  BY <1>0, <1>3, <1>7 DEF ConfirmationInv, Shapes
<1>9. (\A o \in confirmed : issued[o] # Unissued)'
  BY <1>0, <1>4 DEF ConfirmationInv, Grows, Sound
<1>10. RunsOnlyAsConfirmed'
  BY <1>0, <1>3 DEF ConfirmationInv, RunsOnlyAsConfirmed
<1> QED
  BY <1>5, <1>7, <1>8, <1>9, <1>10 DEF ConfirmationInv

LEMMA ReadIssueKeeps ==
  ASSUME ConfirmationInv, NEW c \in Asker, ReadIssue(c)
  PROVE  ConfirmationInv'
<1>1. /\ requests[c].at # "idle" /\ UNCHANGED <<store, issued, running, confirmed, executions>> /\ running \in BOOLEAN
      /\ requests' = [requests EXCEPT ![c].at = "write", ![c].copy = WithNew(Rec(c))]
  BY CallFacts DEF ReadIssue, RequestAt, Writes
<1>2. Sound(WithNew(Rec(c)))
  BY NewSound DEF ConfirmationInv
<1>3. PICK x : Becomes(c, x) /\ CallHolds(x)
  BY <1>1, <1>2, CarriesOn
<1> QED
  BY <1>1, <1>3, PlainStep

LEMMA RefusalIs ==
  ASSUME NEW c, NEW same
  PROVE  /\ Refusal(c, same) \in {"expired", "denied", "none"}
         /\ Refusal(c, same) = "none" => running = issued[Rec(c)].running
BY DEF Refusal, Drifted

LEMMA ReadConfirmKeeps ==
  ASSUME ConfirmationInv, NEW c \in Asker, NEW same \in BOOLEAN, ReadConfirm(c, same)
  PROVE  ConfirmationInv'
<1>0. /\ requests[c].at = "read" /\ UNCHANGED <<store, issued, running, executions>> /\ running \in BOOLEAN
      /\ Rec(c) \in Record /\ issued[Rec(c)] # Unissued /\ Sound(store)
  BY CallFacts DEF ReadConfirm, RequestAt, ConfirmationInv
<1>1. CASE RequestEnds(c) /\ UNCHANGED confirmed
  BY <1>0, <1>1, ReturnStep
<1>2. CASE Refusal(c, same) # "none" /\ Writes(c, Marked(store, Rec(c), Refusal(c, same))) /\ UNCHANGED confirmed
  <2>1. Sound(Marked(store, Rec(c), Refusal(c, same)))
    BY <1>0, <1>2, RefusalIs, MarkedSound DEF Words
  <2>2. PICK x : Becomes(c, x) /\ CallHolds(x)
    BY <1>0, <1>2, <2>1, CarriesOn DEF Writes
  <2> QED
    BY <1>0, <1>2, <2>2, PlainStep
<1>3. CASE Writes(c, Marked(store, Rec(c), "confirmed")) /\ confirmed' = confirmed \cup {Rec(c)}
  <2>1. Grows
    BY <1>0, <1>3 DEF Grows
  <2>2. Sound(store)'
    BY <1>0, <2>1 DEF Sound, Shaped, IsTrue, Grows
  <2>3. PICK m : m = Marked(store, Rec(c), "confirmed")
    OBVIOUS
  <2>4. Sound(m)'
    <3>1. /\ store = [order |-> store.order, status |-> store.status] /\ store.status \in [Record -> Words]
          /\ \A o \in Record : store.status[o] = "confirmed" => o \in confirmed
      BY <1>0 DEF Sound, Shaped, IsTrue
    <3>2. m = [order |-> store.order, status |-> [store.status EXCEPT ![Rec(c)] = "confirmed"]]
      BY <2>3, <3>1 DEF Marked
    <3>3. m = [order |-> m.order, status |-> m.status] /\ m.status = [store.status EXCEPT ![Rec(c)] = "confirmed"]
      BY <3>2
    <3>4. m.status \in [Record -> Words]
      BY <3>1, <3>3 DEF Words
    <3>5. \A o \in Record : m.status[o] = "confirmed" => o \in confirmed'
      BY <1>3, <3>1, <3>3
    <3> QED
      BY <3>3, <3>4, <3>5 DEF Sound, Shaped, IsTrue
  <2>5. PICK x : Becomes(c, x) /\ x = [at |-> "write", kind |-> requests[c].kind, record |-> Rec(c), copy |-> m]
    BY <1>0, <1>3, <2>3, CarriesOn DEF Writes
  <2>6. CallHolds(x)'
    BY <1>0, <2>4, <2>5 DEF CallHolds
  <2>7. requests' = [o \in Asker |-> requests'[o]] /\ \A o \in Asker : CallHolds(requests[o])'
    BY <2>1, <2>5, <2>6, CallsStep DEF Becomes
  <2>8. Shapes'
    BY <1>0, <2>7 DEF ConfirmationInv, Shapes
  <2>9. (\A o \in confirmed : issued[o] # Unissued)' /\ RunsOnlyAsConfirmed'
    BY <1>0, <1>3 DEF ConfirmationInv, RunsOnlyAsConfirmed, Unissued
  <2> QED
    BY <2>2, <2>7, <2>8, <2>9 DEF ConfirmationInv
<1> QED
  BY <1>1, <1>2, <1>3 DEF ReadConfirm

(* What runs was read as confirmed, by a call that has seen the service as it was issued. *)
LEMMA ReadExecuteKeeps ==
  ASSUME ConfirmationInv, NEW c \in Asker, NEW same \in BOOLEAN, ReadExecute(c, same)
  PROVE  ConfirmationInv'
<1>0. /\ requests[c].at = "read" /\ UNCHANGED <<store, issued, running, confirmed>> /\ running \in BOOLEAN
      /\ Rec(c) \in Record /\ issued[Rec(c)] # Unissued /\ Sound(store)
  BY CallFacts DEF ReadExecute, RequestAt, ConfirmationInv
<1>1. CASE RequestEnds(c) /\ UNCHANGED executions
  BY <1>0, <1>1, ReturnStep
<1>2. CASE Refusal(c, same) # "none" /\ Writes(c, Marked(store, Rec(c), Refusal(c, same))) /\ UNCHANGED executions
  <2>1. Sound(Marked(store, Rec(c), Refusal(c, same)))
    BY <1>0, <1>2, RefusalIs, MarkedSound DEF Words
  <2>2. PICK x : Becomes(c, x) /\ CallHolds(x)
    BY <1>0, <1>2, <2>1, CarriesOn DEF Writes
  <2> QED
    BY <1>0, <1>2, <2>2, PlainStep
<1>3. CASE /\ StatusOf(Rec(c)) = "confirmed" /\ Refusal(c, same) = "none"
           /\ requests' = [requests EXCEPT ![c].at = "executor", ![c].copy = store]
           /\ executions' = [executions EXCEPT ![Rec(c)] = [met |-> @.met \cup {running}, again |-> @ # NotRun]]
  <2>1. Grows
    BY <1>0 DEF Grows
  <2>2. PICK x : Becomes(c, x) /\ CallHolds(x)
    BY <1>0, <1>3, CarriesOn
  <2>3. requests' = [o \in Asker |-> requests'[o]] /\ \A o \in Asker : CallHolds(requests[o])'
    BY <2>1, <2>2, CallStays, CallsStep DEF Becomes
  <2>4. Rec(c) \in confirmed /\ running = issued[Rec(c)].running
    BY <1>0, <1>3, RefusalIs DEF StatusOf, Sound, IsTrue
  <2>5. PICK again \in BOOLEAN : executions' = [executions EXCEPT ![Rec(c)] = [met |-> @.met \cup {running}, again |-> again]]
    BY <1>3
  <2>6. /\ executions' \in [Record -> [met : SUBSET BOOLEAN, again : BOOLEAN]]
        /\ executions'[Rec(c)].met = executions[Rec(c)].met \cup {running}
        /\ \A o \in Record : o # Rec(c) => executions'[o] = executions[o]
    BY <1>0, <2>5 DEF ConfirmationInv, Shapes
  <2>7. RunsOnlyAsConfirmed'
    BY <1>0, <2>4, <2>6 DEF ConfirmationInv, RunsOnlyAsConfirmed
  <2>8. Shapes'
    BY <1>0, <2>3, <2>6 DEF ConfirmationInv, Shapes
  <2>9. (\A o \in confirmed : issued[o] # Unissued)' /\ Sound(store)'
    BY <1>0 DEF ConfirmationInv, Unissued, Sound, Shaped, IsTrue
  <2> QED
    BY <2>3, <2>7, <2>8, <2>9 DEF ConfirmationInv
<1> QED
  BY <1>1, <1>2, <1>3 DEF ReadExecute

LEMMA ExecutorKeeps ==
  ASSUME ConfirmationInv, NEW c \in Asker, Executor(c)
  PROVE  ConfirmationInv'
<1>0. /\ requests[c].at # "idle" /\ UNCHANGED <<store, issued, confirmed, executions>>
      /\ running' \in BOOLEAN /\ Rec(c) \in Record /\ Sound(requests[c].copy)
  BY CallFacts DEF Executor, RequestAt
<1>1. Sound(Marked(requests[c].copy, Rec(c), "executed"))
  BY <1>0, MarkedSound DEF Words
<1>2. PICK x : Becomes(c, x) /\ CallHolds(x)
  BY <1>0, <1>1, CarriesOn DEF Executor, Writes
<1> QED
  BY <1>0, <1>2, PlainStep

LEMMA WriteKeeps ==
  ASSUME ConfirmationInv, NEW c \in Asker, WriteBegins(c) \/ WriteEnds(c)
  PROVE  ConfirmationInv'
<1>0. requests[c].at # "idle" /\ running \in BOOLEAN /\ Sound(requests[c].copy) /\ UNCHANGED <<issued, confirmed, executions, running>>
  BY CallFacts DEF WriteBegins, WriteEnds, RequestAt
<1>1. CASE WriteBegins(c)
  <2>1. requests' = [requests EXCEPT ![c].at = "writing", ![c].copy = requests[c].copy]
    <3>1. requests = [o \in Asker |-> requests[o]] /\ requests' = [requests EXCEPT ![c].at = "writing"]
      BY <1>1 DEF WriteBegins, ConfirmationInv, Shapes
    <3>2. requests[c] = [at |-> requests[c].at, kind |-> requests[c].kind, record |-> Rec(c), copy |-> requests[c].copy]
      BY CallFacts
    <3>3. requests[c] \in [at : {requests[c].at}, kind : {requests[c].kind}, record : {Rec(c)}, copy : {requests[c].copy}]
      BY <3>2
    <3>4. [requests[c] EXCEPT !.at = "writing"] = [requests[c] EXCEPT !.at = "writing", !.copy = requests[c].copy]
      BY <3>3
    <3> QED
      BY <3>1, <3>4
  <2>2. PICK x : Becomes(c, x) /\ CallHolds(x)
    BY <1>0, <2>1, CarriesOn
  <2> QED
    BY <1>0, <1>1, <2>2, PlainStep DEF WriteBegins
<1>2. CASE WriteEnds(c)
  <2>1. store' = requests[c].copy /\ RequestEnds(c)
    BY <1>2 DEF WriteEnds
  <2>2. Grows
    BY <1>0 DEF Grows
  <2>3. Sound(store)'
    BY <1>0, <2>1 DEF Sound, Shaped, IsTrue
  <2>4. CallHolds(NoRequest)'
    BY <1>0, IdleHolds DEF CallHolds, Sound, Shaped, IsTrue, NoRequest, Empty
  <2>5. PICK x : x = NoRequest
    OBVIOUS
  <2>6. requests' = [o \in Asker |-> requests'[o]] /\ \A o \in Asker : CallHolds(requests[o])'
    BY <2>1, <2>2, <2>5, IdleHolds, CallStays, CallsStep DEF RequestEnds
  <2>7. Shapes'
    BY <1>0, <2>6 DEF ConfirmationInv, Shapes
  <2>8. (\A o \in confirmed : issued[o] # Unissued)' /\ RunsOnlyAsConfirmed'
    BY <1>0 DEF ConfirmationInv, Unissued, RunsOnlyAsConfirmed
  <2> QED
    BY <2>3, <2>6, <2>7, <2>8 DEF ConfirmationInv
<1> QED
  BY <1>1, <1>2

(* A record lapses, the service changes, or the runtime dies. *)
LEMMA OutsideKeeps ==
  ASSUME ConfirmationInv, running' \in BOOLEAN, UNCHANGED <<store, issued, confirmed, executions>>,
         UNCHANGED requests \/ requests' = [c \in Asker |-> NoRequest]
  PROVE  ConfirmationInv'
<1>1. Grows
  BY DEF Grows
<1>2. ASSUME NEW c \in Asker PROVE CallHolds(requests[c])'
  <2>1. CallHolds(requests[c]) /\ CallHolds(NoRequest)
    BY IdleHolds DEF ConfirmationInv
  <2>2. requests'[c] = requests[c] \/ requests'[c] = NoRequest
    OBVIOUS
  <2>3. \A y : CallHolds(y) => CallHolds(y)'
    BY <1>1, CallStays
  <2> QED
    BY <2>1, <2>2, <2>3 DEF CallHolds, Sound, Shaped, IsTrue
<1>3. Shapes'
  BY DEF ConfirmationInv, Shapes
<1>4. Sound(store)'
  BY DEF ConfirmationInv, Sound, Shaped, IsTrue
<1>5. (\A o \in confirmed : issued[o] # Unissued)' /\ RunsOnlyAsConfirmed'
  BY DEF ConfirmationInv, Unissued, RunsOnlyAsConfirmed
<1> QED
  BY <1>2, <1>3, <1>4, <1>5 DEF ConfirmationInv

LEMMA InitConfirmations == ConfirmationInit => ConfirmationInv
<1> SUFFICES ASSUME ConfirmationInit PROVE ConfirmationInv
  OBVIOUS
<1>1. Shapes
  BY DEF ConfirmationInit, Shapes, Unissued, NotRun
<1>2. Sound(store) /\ \A c \in Asker : CallHolds(requests[c])
  BY EmptySound, IdleHolds DEF ConfirmationInit
<1>3. RunsOnlyAsConfirmed /\ confirmed = {}
  BY DEF ConfirmationInit, RunsOnlyAsConfirmed, NotRun
<1> QED
  BY <1>1, <1>2, <1>3 DEF ConfirmationInv

LEMMA ConfirmationsStay ==
  ConfirmationInv /\ [ConfirmationNext]_confirmationVars => ConfirmationInv'
<1> SUFFICES ASSUME ConfirmationInv, [ConfirmationNext]_confirmationVars
             PROVE  ConfirmationInv'
  OBVIOUS
<1>0. running \in BOOLEAN
  BY DEF ConfirmationInv, Shapes
<1>1. CASE UNCHANGED confirmationVars
  BY <1>0, <1>1, OutsideKeeps DEF confirmationVars
<1>2. CASE \E c \in Asker, r \in Record :
             \/ \E command \in Command : AskIssue(c, r, command)
             \/ \E kind \in {"confirm", "execute"} : Ask(c, r, kind)
  BY <1>2, AskKeeps, AskIssueKeeps
<1>3. CASE \E c \in Asker, same \in BOOLEAN : ReadConfirm(c, same) \/ ReadExecute(c, same)
  BY <1>3, ReadConfirmKeeps, ReadExecuteKeeps
<1>4. CASE \E c \in Asker : ReadIssue(c) \/ Executor(c) \/ WriteBegins(c) \/ WriteEnds(c)
  BY <1>4, ReadIssueKeeps, ExecutorKeeps, WriteKeeps
<1>5. CASE \E c \in Asker : Unreadable(c)
  BY <1>5, ReturnStep DEF Unreadable
<1>6. CASE (\E r \in Record : Lapse(r)) \/ Drift \/ RuntimeEnds
  BY <1>0, <1>6, OutsideKeeps DEF Lapse, Drift, RuntimeEnds
<1> QED
  BY <1>1, <1>2, <1>3, <1>4, <1>5, <1>6 DEF ConfirmationNext

(* However many calls write older copies of the file over newer ones, nothing runs that its actor
   did not confirm, nor in another state of the service than the one it was issued for.
   (executeOperatorCommandConfirmation) *)
THEOREM RunsAreConfirmed == ConfirmationSpec => []RunsOnlyAsConfirmed
<1>1. ConfirmationInit => ConfirmationInv
  BY InitConfirmations
<1>2. ConfirmationInv /\ [ConfirmationNext]_confirmationVars => ConfirmationInv'
  BY ConfirmationsStay
<1>3. ConfirmationInv => RunsOnlyAsConfirmed
  BY DEF ConfirmationInv
<1> QED
  BY <1>1, <1>2, <1>3, PTL DEF ConfirmationSpec

-----------------------------------------------------------------------------
RunPlaces ==
  {"none", "payload", "refused", "prepare", "failed", "running", "read", "write", "writing", "answered"}

Shown(file) == {file[i] : i \in DOMAIN file}

(* What a file may lack: nothing, or what later runs pushed out. *)
Names(file, r) == r \in Shown(file) \/ (Len(file) = KeptRuns /\ Shown(file) \subseteq newer[r])

(* A file shows answered runs, the older first. *)
InOrder(file) ==
  /\ Shown(file) \subseteq Answered
  /\ \A i, j \in DOMAIN file : i < j => file[j] \in newer[file[i]]

Serving == {"running", "read", "write", "writing"}

ActionTypes ==
  /\ runs = [r \in Run |-> runs[r]] /\ interfered \subseteq Run /\ newer \in [Run -> SUBSET Run]
  /\ \A r \in Run : /\ runs[r] = [at |-> runs[r].at, action |-> runs[r].action,
                                  status |-> runs[r].status, read |-> runs[r].read]
                    /\ runs[r].at \in RunPlaces /\ runs[r].read \in Seq(Run)
  /\ records # "torn" => records \in Seq(Run)

(* The file, and the copy of it that a call has still to write, name every run that was answered
   and did not overlap. *)
FileNames ==
  records # "torn" => InOrder(records) /\ \A r \in Answered \ interfered : Names(records, r)

CopyNames ==
  \A q \in Run : runs[q].at \in {"write", "writing"} =>
    InOrder(runs[q].read) /\ \A r \in Answered \ interfered : Names(runs[q].read, r)

(* A call that is alone at its write has the file to itself. *)
WritesAlone ==
  \A q \in Run : RunAt(q, "writing") =>
    /\ q \notin interfered => records = "torn"
    /\ Holders(q) # {} => q \in interfered

MarkIsServed == \A a \in activeRuns : \E r \in Run : runs[r].action = a /\ runs[r].at \in Serving

ActionInv == ActionTypes /\ FileNames /\ CopyNames /\ WritesAlone /\ MarkIsServed

NewestRuns(all) == IF Len(all) > KeptRuns THEN SubSeq(all, Len(all) - KeptRuns + 1, Len(all)) ELSE all

(* A run is appended to a copy: the copy's runs are now older than it, and those a full file drops
   are older than all that stay. *)
LEMMA ExtendedNames ==
  ASSUME ActionTypes, NEW read \in Seq(Run), NEW q \in Run, InOrder(read), ~RunAt(q, "answered"),
         Answered' = Answered \cup {q},
         newer' = [o \in Run |-> IF RunAt(o, "answered") THEN newer[o] \cup {q} ELSE newer[o]],
         NEW kept, kept = NewestRuns(Append(read, q))
  PROVE  /\ kept \in Seq(Run)
         /\ Shown(kept) \subseteq Answered'
         /\ \A i, j \in DOMAIN kept : i < j => kept[j] \in newer'[kept[i]]
         /\ q \in Shown(kept) \/ (Len(kept) = KeptRuns /\ Shown(kept) = {})
         /\ \A r \in Answered : Names(read, r) =>
              r \in Shown(kept) \/ (Len(kept) = KeptRuns /\ Shown(kept) \subseteq newer'[r])
<1> DEFINE all == Append(read, q)
           drop == IF Len(all) > KeptRuns THEN Len(all) - KeptRuns ELSE 0
<1>1. /\ all \in Seq(Run) /\ Len(all) = Len(read) + 1 /\ all[Len(all)] = q /\ DOMAIN all = 1..Len(all)
      /\ DOMAIN read = 1..Len(read) /\ Len(read) \in Nat
  OBVIOUS
<1>2. \A i \in 1..Len(read) : all[i] = read[i]
  OBVIOUS
<1>3. Answered \subseteq Run /\ newer \in [Run -> SUBSET Run]
  BY DEF Answered, ActionTypes
<1>4. \A r \in Answered : r \in Run /\ q \in newer'[r] /\ newer[r] \subseteq newer'[r]
  BY <1>3 DEF Answered
<1>5. \A i \in 1..Len(all) : all[i] \in Answered'
  BY <1>1, <1>2 DEF InOrder, Shown
<1>6. ASSUME NEW i \in 1..Len(all), NEW j \in 1..Len(all), i < j PROVE all[j] \in newer'[all[i]]
  <2>1. i \in 1..Len(read) /\ all[i] = read[i] /\ all[i] \in Answered
    BY <1>1, <1>2, <1>6 DEF InOrder, Shown
  <2>2. CASE j = Len(all)
    BY <1>1, <1>4, <2>1, <2>2
  <2>3. CASE j # Len(all)
    <3>1. j \in 1..Len(read) /\ all[j] = read[j]
      BY <1>1, <1>2, <2>3
    <3> QED
      BY <1>1, <1>4, <1>6, <2>1, <3>1 DEF InOrder
  <2> QED
    BY <2>2, <2>3
<1> HIDE DEF all
<1>7. /\ drop \in Nat /\ kept \in Seq(Run) /\ Len(kept) = Len(all) - drop
      /\ DOMAIN kept = 1..Len(kept) /\ Len(kept) \in Nat
      /\ \A i \in 1..Len(kept) : drop + i \in 1..Len(all) /\ kept[i] = all[drop + i]
  <2>1. kept = IF Len(all) > KeptRuns THEN SubSeq(all, Len(all) - KeptRuns + 1, Len(all)) ELSE all
    BY DEF NewestRuns, all
  <2>2. CASE Len(all) > KeptRuns
    <3>1. drop = Len(all) - KeptRuns /\ drop \in Nat /\ kept = SubSeq(all, drop + 1, Len(all))
          /\ KeptRuns \in Nat
      BY <1>1, <2>1, <2>2, KeptAssumption
    <3>2. drop + 1 \in 1..Len(all) + 1 /\ Len(all) \in Nat /\ drop \in Nat
      BY <1>1, <2>2, <3>1
    <3>3. /\ kept \in Seq(Run) /\ Len(kept) = Len(all) - drop
          /\ \A i \in 1..Len(all) - drop : kept[i] = all[drop + i]
      <4>1. \A i \in drop + 1..Len(all) : all[i] \in Run
        BY <1>1, <3>2, ElementOfSeq
      <4> HIDE DEF drop
      <4>2. drop + 1 \in Int /\ Len(all) \in Int
        BY <3>2
      <4>3. /\ kept \in Seq(Run)
            /\ Len(kept) = IF drop + 1 <= Len(all) THEN Len(all) - (drop + 1) + 1 ELSE 0
            /\ \A i \in 1..Len(all) - (drop + 1) + 1 : kept[i] = all[drop + 1 + i - 1]
        BY <3>1, <4>1, <4>2, SubSeqProperties
      <4>4. Len(all) - (drop + 1) + 1 = Len(all) - drop /\ drop + 1 <= Len(all) + 1
        BY <3>2
      <4>5. \A i \in Nat : drop + 1 + i - 1 = drop + i
        BY <3>2
      <4>6. Len(all) - drop \in Nat /\ (drop + 1 > Len(all) => Len(all) - drop = 0)
        BY <3>2
      <4>7. kept \in Seq(Run) /\ Len(kept) = Len(all) - drop
        <5>1. CASE drop + 1 <= Len(all)
          BY <4>3, <4>4, <5>1
        <5>2. CASE ~(drop + 1 <= Len(all))
          <6>1. drop + 1 > Len(all)
            BY <3>2, <5>2
          <6> QED
            BY <4>3, <4>6, <5>2, <6>1
        <5> QED
          BY <5>1, <5>2
      <4>8. \A i \in 1..Len(all) - drop : i \in Nat /\ kept[i] = all[drop + 1 + i - 1]
        BY <4>3, <4>4, <4>6
      <4> QED
        BY <4>5, <4>7, <4>8
    <3>4. DOMAIN kept = 1..Len(kept) /\ Len(kept) \in Nat
      BY <3>3
    <3> HIDE DEF drop
    <3>5. \A i \in 1..Len(kept) : drop + i \in 1..Len(all)
      BY <3>2, <3>3
    <3> QED
      BY <3>2, <3>3, <3>4, <3>5
  <2>3. CASE ~(Len(all) > KeptRuns)
    <3>1. drop = 0 /\ kept = all
      BY <2>1, <2>3
    <3> QED
      BY <1>1, <3>1
  <2> QED
    BY <2>2, <2>3
<1>8. drop # 0 => Len(kept) = KeptRuns
  BY <1>1, <1>7, KeptAssumption
<1> HIDE DEF drop
<1>9. Shown(kept) \subseteq Answered' /\ \A i, j \in DOMAIN kept : i < j => kept[j] \in newer'[kept[i]]
  <2>1. Shown(kept) \subseteq Answered'
    BY <1>5, <1>7 DEF Shown
  <2>2. ASSUME NEW i \in DOMAIN kept, NEW j \in DOMAIN kept, i < j PROVE kept[j] \in newer'[kept[i]]
    <3>1. drop + i \in 1..Len(all) /\ drop + j \in 1..Len(all) /\ drop + i < drop + j
      BY <1>7, <2>2
    <3> QED
      BY <1>6, <1>7, <2>2, <3>1
  <2> QED
    BY <2>1, <2>2
<1>10. q \in Shown(kept) \/ (Len(kept) = KeptRuns /\ Shown(kept) = {})
  <2>1. CASE Len(kept) = 0
    BY <1>1, <1>7, <1>8, <2>1 DEF Shown
  <2>2. CASE Len(kept) # 0
    <3>1. Len(kept) \in DOMAIN kept /\ kept[Len(kept)] = all[Len(all)]
      BY <1>1, <1>7, <2>2
    <3> QED
      BY <1>1, <3>1 DEF Shown
  <2> QED
    BY <2>1, <2>2
<1>11. ASSUME NEW r \in Answered, Names(read, r), r \notin Shown(kept)
       PROVE  Len(kept) = KeptRuns /\ Shown(kept) \subseteq newer'[r]
  <2>1. CASE r \in Shown(read)
    <3>1. PICK i \in 1..Len(read) : read[i] = r
      BY <1>1, <2>1 DEF Shown
    <3>2. i \in 1..Len(all) /\ all[i] = r
      BY <1>1, <1>2, <3>1
    <3>3. i <= drop
      <4>1. ASSUME i > drop PROVE FALSE
        <5>1. i - drop \in 1..Len(kept) /\ drop + (i - drop) = i
          BY <1>1, <1>7, <3>2, <4>1
        <5>2. kept[i - drop] = r
          BY <1>7, <3>2, <5>1
        <5> QED
          BY <1>7, <1>11, <5>1, <5>2 DEF Shown
      <4>2. i \in Nat /\ drop \in Nat
        BY <1>1, <1>7, <3>1
      <4> QED
        BY <4>1, <4>2
    <3>4. ASSUME NEW k \in 1..Len(kept) PROVE kept[k] \in newer'[r]
      <4>1. drop + k \in 1..Len(all) /\ i < drop + k /\ kept[k] = all[drop + k]
        BY <1>1, <1>7, <3>1, <3>3
      <4> QED
        BY <1>6, <3>2, <4>1
    <3>5. drop # 0
      BY <1>1, <1>7, <3>1, <3>3
    <3> QED
      BY <1>7, <1>8, <3>4, <3>5 DEF Shown
  <2>2. CASE Len(read) = KeptRuns /\ Shown(read) \subseteq newer[r]
    <3>1. Len(all) > KeptRuns
      BY <1>1, <2>2, KeptAssumption
    <3>2. Len(kept) = KeptRuns
      BY <1>1, <1>7, <3>1, KeptAssumption DEF drop
    <3>3. \A i \in 1..Len(all) : all[i] \in newer'[r]
      <4>1. ASSUME NEW i \in 1..Len(all) PROVE all[i] \in newer'[r]
        <5>0. q \in newer'[r] /\ newer[r] \subseteq newer'[r]
          BY <1>4
        <5>1. CASE i = Len(all)
          BY <1>1, <5>0, <5>1
        <5>2. CASE i # Len(all)
          <6>1. i \in 1..Len(read) /\ all[i] = read[i]
            BY <1>1, <1>2, <5>2
          <6>2. read[i] \in Shown(read)
            BY <1>1, <6>1 DEF Shown
          <6> QED
            BY <2>2, <5>0, <6>1, <6>2
        <5> QED
          BY <5>1, <5>2
      <4> QED
        BY <4>1
    <3>4. \A k \in DOMAIN kept : kept[k] \in newer'[r]
      BY <1>7, <3>3
    <3> QED
      BY <3>2, <3>4 DEF Shown
  <2> QED
    BY <1>11, <2>1, <2>2 DEF Names
<1> QED
  BY <1>7, <1>9, <1>10, <1>11

-----------------------------------------------------------------------------
RunBecomes(r, x) == runs' = [runs EXCEPT ![r] = x]

IsRun(x) ==
  /\ x = [at |-> x.at, action |-> x.action, status |-> x.status, read |-> x.read]
  /\ x.at \in RunPlaces /\ x.read \in Seq(Run)

LEMMA OthersStay ==
  ASSUME ActionTypes, NEW r \in Run, NEW x, RunBecomes(r, x)
  PROVE  /\ runs'[r] = x /\ \A o \in Run : o # r => runs'[o] = runs[o]
         /\ runs' = [o \in Run |-> runs'[o]]
BY DEF ActionTypes, RunBecomes

(* The step of a call that is not at its write, before or after. *)
LEMMA FileStays ==
  ASSUME ActionInv, NEW r \in Run, NEW x, RunBecomes(r, x), IsRun(x),
         x.at \notin {"write", "writing", "answered"},
         ~RunAt(r, "answered"), UNCHANGED <<records, interfered, newer>>
  PROVE  (ActionTypes /\ FileNames /\ CopyNames /\ WritesAlone)'
<1>0. ActionTypes
  BY DEF ActionInv
<1>1. /\ runs'[r] = x /\ \A o \in Run : o # r => runs'[o] = runs[o]
      /\ runs' = [o \in Run |-> runs'[o]]
  BY <1>0, OthersStay
<1>2. ActionTypes'
  <2>1. \A o \in Run : IsRun(runs'[o])
    BY <1>0, <1>1 DEF ActionTypes, IsRun
  <2> QED
    BY <1>0, <1>1, <2>1 DEF ActionTypes, IsRun
<1>3. Answered' = Answered
  BY <1>1 DEF Answered, RunAt
<1>4. FileNames' /\ CopyNames'
  BY <1>1, <1>3 DEF ActionInv, FileNames, CopyNames, Names, InOrder
<1>5. \A q \in Run : RunAt(q, "writing")' => q # r /\ RunAt(q, "writing")
  BY <1>1 DEF RunAt
<1>6. \A q \in Run : Holders(q)' \subseteq Holders(q)
  BY <1>1 DEF Holders, RunAt
<1>7. WritesAlone'
  BY <1>5, <1>6 DEF ActionInv, WritesAlone
<1> QED
  BY <1>2, <1>4, <1>7

LEMMA MarkStays ==
  ASSUME ActionInv, NEW r \in Run, NEW x, RunBecomes(r, x),
         \/ activeRuns' \subseteq activeRuns \ {runs[r].action}
         \/ /\ activeRuns' \subseteq activeRuns \cup {x.action} /\ x.at \in Serving
            /\ x.action = runs[r].action
         \/ activeRuns' = activeRuns /\ runs[r].at \notin Serving
  PROVE  MarkIsServed'
<1>0. ActionTypes
  BY DEF ActionInv
<1>1. runs'[r] = x /\ \A o \in Run : o # r => runs'[o] = runs[o]
  BY <1>0, OthersStay
<1> SUFFICES ASSUME NEW a \in activeRuns'
             PROVE  \E o \in Run : (runs[o].action)' = a /\ (runs[o].at)' \in Serving
  BY DEF MarkIsServed, Serving
<1>2. CASE a \in activeRuns
  <2>1. PICK o \in Run : runs[o].action = a /\ runs[o].at \in Serving
    BY <1>2 DEF ActionInv, MarkIsServed
  <2> QED
    BY <1>1, <2>1
<1>3. CASE a \notin activeRuns
  BY <1>1, <1>3
<1> QED
  BY <1>2, <1>3

LEMMA GoesRun ==
  ASSUME ActionTypes, NEW r \in Run, NEW to \in RunPlaces, RunGoes(r, to)
  PROVE  \E x : /\ RunBecomes(r, x) /\ IsRun(x) /\ x.at = to /\ x.action = runs[r].action
                /\ x.read = runs[r].read
<1>1. PICK x : x = [runs[r] EXCEPT !.at = to]
  OBVIOUS
<1>2. RunBecomes(r, x)
  BY <1>1 DEF RunBecomes, ActionTypes, RunGoes
<1>3. IsRun(runs[r])
  BY DEF ActionTypes, IsRun
<1>4. IsRun(x) /\ x.at = to /\ x.action = runs[r].action /\ x.read = runs[r].read
  BY <1>1, <1>3 DEF IsRun
<1> QED
  BY <1>2, <1>4

LEMMA QuietStep ==
  ASSUME ActionInv, NEW r \in Run, NEW x, RunBecomes(r, x), IsRun(x),
         x.at \notin {"write", "writing", "answered"}, ~RunAt(r, "answered"),
         UNCHANGED <<records, interfered, newer>>,
         \/ activeRuns' \subseteq activeRuns \ {runs[r].action}
         \/ /\ activeRuns' \subseteq activeRuns \cup {x.action} /\ x.at \in Serving
            /\ x.action = runs[r].action
         \/ activeRuns' = activeRuns /\ runs[r].at \notin Serving
  PROVE  ActionInv'
BY FileStays, MarkStays DEF ActionInv

LEMMA RequestKeeps ==
  ASSUME ActionInv, NEW r \in Run, NEW a \in Action, Request(r, a)
  PROVE  ActionInv'
<1>0. IsRun(runs[r]) /\ runs[r].at = "none" /\ runs = [o \in Run |-> runs[o]]
  BY DEF ActionInv, ActionTypes, IsRun, Request, RunAt
<1>1. PICK x : x = [runs[r] EXCEPT !.at = "payload", !.action = a]
  OBVIOUS
<1>2. RunBecomes(r, x)
  BY <1>0, <1>1 DEF Request, RunBecomes
<1>3. IsRun(x) /\ x.at = "payload"
  BY <1>0, <1>1 DEF IsRun, RunPlaces
<1> QED
  BY <1>0, <1>2, <1>3, QuietStep DEF Request, RunAt, Serving

LEMMA AdmitKeeps ==
  ASSUME ActionInv, NEW r \in Run, AdmitRun(r)
  PROVE  ActionInv'
<1>1. PICK to \in {"refused", "prepare"} : RunGoes(r, to)
  BY DEF AdmitRun
<1>2. PICK x : RunBecomes(r, x) /\ IsRun(x) /\ x.at = to
  BY <1>1, GoesRun DEF ActionInv, RunPlaces
<1> QED
  BY <1>2, QuietStep DEF AdmitRun, RunAt, Serving

LEMMA PrepareRunKeeps ==
  ASSUME ActionInv, NEW r \in Run, PrepareRun(r)
  PROVE  ActionInv'
<1>1. CASE RunGoes(r, "running") /\ activeRuns' = activeRuns \cup {runs[r].action}
  <2>1. PICK x : RunBecomes(r, x) /\ IsRun(x) /\ x.at = "running" /\ x.action = runs[r].action
    BY <1>1, GoesRun DEF ActionInv, RunPlaces
  <2> QED
    BY <1>1, <2>1, QuietStep DEF PrepareRun, RunAt, Serving
<1>2. CASE RunGoes(r, "failed") /\ UNCHANGED activeRuns
  <2>1. PICK x : RunBecomes(r, x) /\ IsRun(x) /\ x.at = "failed"
    BY <1>2, GoesRun DEF ActionInv, RunPlaces
  <2> QED
    BY <1>2, <2>1, QuietStep DEF PrepareRun, RunAt, Serving
<1> QED
  BY <1>1, <1>2 DEF PrepareRun

(* A call that fails unmarks its action. *)
LEMMA FailsKeeps ==
  ASSUME ActionInv, NEW r \in Run, ~RunAt(r, "answered"), RunEnds(r, "failed"),
         UNCHANGED <<records, interfered, newer>>
  PROVE  ActionInv'
<1>1. PICK x : RunBecomes(r, x) /\ IsRun(x) /\ x.at = "failed"
  BY GoesRun DEF ActionInv, RunPlaces, RunEnds
<1> QED
  BY <1>1, QuietStep DEF RunEnds, Unmarks

LEMMA ChildEndsKeeps ==
  ASSUME ActionInv, NEW r \in Run, ChildEnds(r)
  PROVE  ActionInv'
<1>0. IsRun(runs[r]) /\ runs[r].at = "running" /\ runs = [o \in Run |-> runs[o]]
  BY DEF ActionInv, ActionTypes, IsRun, ChildEnds, RunAt
<1>1. PICK status \in {"succeeded", "failed", "timeout"} :
        runs' = [runs EXCEPT ![r].at = "read", ![r].status = status]
  BY DEF ChildEnds
<1>2. PICK x : x = [runs[r] EXCEPT !.at = "read", !.status = status]
  OBVIOUS
<1>3. RunBecomes(r, x)
  BY <1>0, <1>1, <1>2 DEF RunBecomes
<1>4. IsRun(x) /\ x.at = "read" /\ x.action = runs[r].action
  BY <1>0, <1>2 DEF IsRun, RunPlaces
<1> QED
  BY <1>0, <1>3, <1>4, QuietStep DEF ChildEnds, RunAt, Serving

-----------------------------------------------------------------------------
LEMMA ReadRecordsKeeps ==
  ASSUME ActionInv, NEW r \in Run, ReadRecords(r)
  PROVE  ActionInv'
<1>1. CASE records = "torn" /\ RunEnds(r, "failed")
  BY <1>1, FailsKeeps DEF ReadRecords, RunAt
<1>2. CASE /\ records # "torn" /\ UNCHANGED activeRuns
           /\ runs' = [runs EXCEPT ![r].at = "write", ![r].read = records]
  <2>0. /\ IsRun(runs[r]) /\ runs[r].at = "read" /\ runs = [o \in Run |-> runs[o]] /\ records \in Seq(Run)
        /\ UNCHANGED <<records, interfered, newer>> /\ ActionTypes
    BY <1>2 DEF ActionInv, ActionTypes, IsRun, ReadRecords, RunAt
  <2>1. PICK x : x = [runs[r] EXCEPT !.at = "write", !.read = records]
    OBVIOUS
  <2>2. RunBecomes(r, x)
    BY <1>2, <2>0, <2>1 DEF RunBecomes
  <2>3. IsRun(x) /\ x.at = "write" /\ x.action = runs[r].action /\ x.read = records
    BY <2>0, <2>1 DEF IsRun, RunPlaces
  <2>4. MarkIsServed'
    BY <1>2, <2>2, <2>3, MarkStays DEF Serving
  <2>5. /\ runs'[r] = x /\ \A o \in Run : o # r => runs'[o] = runs[o]
        /\ runs' = [o \in Run |-> runs'[o]]
    BY <2>0, <2>2, OthersStay
  <2>6. ActionTypes'
    BY <2>0, <2>3, <2>5 DEF ActionTypes, IsRun
  <2>7. Answered' = Answered
    BY <2>0, <2>3, <2>5 DEF Answered, RunAt
  <2>8. FileNames' /\ CopyNames'
    BY <1>2, <2>0, <2>3, <2>5, <2>7 DEF ActionInv, FileNames, CopyNames, Names, InOrder
  <2>9. \A q \in Run : RunAt(q, "writing")' => q # r /\ RunAt(q, "writing") /\ q \in interfered
    BY <1>2, <2>3, <2>5 DEF ActionInv, WritesAlone, RunAt
  <2>10. WritesAlone'
    BY <2>0, <2>9 DEF WritesAlone
  <2> QED
    BY <2>4, <2>6, <2>8, <2>10 DEF ActionInv
<1> QED
  BY <1>1, <1>2 DEF ReadRecords

LEMMA AppendBeginsKeeps ==
  ASSUME ActionInv, NEW r \in Run, AppendBegins(r)
  PROVE  ActionInv'
<1>0. /\ runs[r].at = "write" /\ RunGoes(r, "writing") /\ records' = "torn" /\ UNCHANGED <<activeRuns, newer>>
      /\ interfered' = IF Holders(r) = {} THEN interfered ELSE interfered \cup Holders(r) \cup {r}
      /\ ActionTypes
  BY DEF AppendBegins, RunAt, ActionInv
<1>1. PICK x : /\ RunBecomes(r, x) /\ IsRun(x) /\ x.at = "writing" /\ x.action = runs[r].action
               /\ x.read = runs[r].read
  BY <1>0, GoesRun DEF RunPlaces
<1>2. MarkIsServed'
  BY <1>0, <1>1, MarkStays DEF Serving
<1>3. /\ runs'[r] = x /\ \A o \in Run : o # r => runs'[o] = runs[o]
      /\ runs' = [o \in Run |-> runs'[o]]
  BY <1>0, <1>1, OthersStay
<1>4. interfered \subseteq interfered' /\ interfered' \subseteq Run
  BY <1>0 DEF ActionTypes, Holders
<1>5. ActionTypes'
  BY <1>0, <1>1, <1>3, <1>4 DEF ActionTypes, IsRun
<1>6. Answered' = Answered
  BY <1>0, <1>1, <1>3 DEF Answered, RunAt
<1>7. FileNames'
  BY <1>0 DEF FileNames
<1>8. CopyNames'
  <2>1. ASSUME NEW q \in Run, (runs[q].at \in {"write", "writing"})'
        PROVE  InOrder(runs[q].read)' /\ \A o \in Answered' \ interfered' : Names(runs[q].read, o)'
    <3>1. runs[q].at \in {"write", "writing"} /\ runs'[q].read = runs[q].read
      BY <1>0, <1>1, <1>3, <2>1
    <3>2. \A o \in Answered' \ interfered' : o \in Answered \ interfered
      BY <1>4, <1>6
    <3> QED
      BY <1>0, <1>6, <3>1, <3>2 DEF ActionInv, CopyNames, Names, InOrder
  <2> QED
    BY <2>1 DEF CopyNames
<1>9. WritesAlone'
  <2>1. ASSUME NEW q \in Run, RunAt(q, "writing")', (Holders(q) # {})', q # r PROVE q \in interfered'
    <3>1. RunAt(q, "writing")
      BY <1>3, <2>1 DEF RunAt
    <3>2. r \in Holders(q)
      BY <1>0, <2>1 DEF Holders, RunAt
    <3> QED
      BY <1>4, <3>1, <3>2 DEF ActionInv, WritesAlone
  <2>2. Holders(r)' = Holders(r)
    BY <1>3 DEF Holders, RunAt
  <2>3. (Holders(r) # {})' => r \in interfered'
    BY <1>0, <2>2
  <2> QED
    BY <1>0, <2>1, <2>3 DEF WritesAlone
<1> QED
  BY <1>2, <1>5, <1>7, <1>8, <1>9 DEF ActionInv

LEMMA AppendEndsKeeps ==
  ASSUME ActionInv, NEW r \in Run, AppendEnds(r)
  PROVE  ActionInv'
<1>0. /\ runs[r].at = "writing" /\ RunGoes(r, "answered") /\ records' = Extended(r)
      /\ activeRuns' = activeRuns \ {runs[r].action} /\ UNCHANGED interfered
      /\ newer' = [o \in Run |-> IF RunAt(o, "answered") THEN newer[o] \cup {r} ELSE newer[o]]
      /\ ActionTypes
  BY DEF AppendEnds, RunEnds, Unmarks, RunAt, ActionInv
<1>1. PICK x : RunBecomes(r, x) /\ IsRun(x) /\ x.at = "answered"
  BY <1>0, GoesRun DEF RunPlaces
<1>2. MarkIsServed'
  BY <1>0, <1>1, MarkStays
<1>3. /\ runs'[r] = x /\ \A o \in Run : o # r => runs'[o] = runs[o]
      /\ runs' = [o \in Run |-> runs'[o]]
  BY <1>0, <1>1, OthersStay
<1>4. runs[r].read \in Seq(Run)
  BY <1>0 DEF ActionTypes
<1>5. Answered' = Answered \cup {r} /\ Answered \subseteq Run
  BY <1>0, <1>1, <1>3 DEF Answered, RunAt
<1>6. \A o \in Answered : Names(runs[r].read, o) \/ o \in interfered
  BY <1>0 DEF ActionInv, CopyNames
<1>7. /\ records' \in Seq(Run) /\ InOrder(records)'
      /\ \A o \in (Answered \ interfered)' : Names(records, o)'
  <2>1. records' = NewestRuns(Append(runs[r].read, r))
    BY <1>0 DEF Extended, NewestRuns
  <2>2. InOrder(runs[r].read) /\ ~RunAt(r, "answered")
    BY <1>0 DEF ActionInv, CopyNames, RunAt
  <2>3. /\ records' \in Seq(Run)
        /\ Shown(records') \subseteq Answered'
        /\ \A i, j \in DOMAIN records' : i < j => records'[j] \in newer'[records'[i]]
        /\ r \in Shown(records') \/ (Len(records') = KeptRuns /\ Shown(records') = {})
        /\ \A o \in Answered : Names(runs[r].read, o) =>
             o \in Shown(records') \/ (Len(records') = KeptRuns /\ Shown(records') \subseteq newer'[o])
    BY <1>0, <1>4, <1>5, <2>1, <2>2, ExtendedNames
  <2>4. ASSUME NEW o \in (Answered \ interfered)' PROVE Names(records, o)'
    <3>1. CASE o = r
      BY <2>3, <3>1 DEF Names, Shown
    <3>2. CASE o # r
      <4>1. o \in Answered /\ Names(runs[r].read, o)
        BY <1>0, <1>5, <1>6, <2>4, <3>2
      <4> QED
        BY <2>3, <4>1 DEF Names, Shown
    <3> QED
      BY <3>1, <3>2
  <2> QED
    BY <2>3, <2>4 DEF InOrder, Shown
<1>8. ActionTypes' /\ FileNames'
  <2>1. newer' \in [Run -> SUBSET Run]
    BY <1>0 DEF ActionTypes
  <2>2. ActionTypes'
    BY <1>0, <1>1, <1>3, <1>7, <2>1 DEF ActionTypes, IsRun
  <2> QED
    BY <1>7, <2>2 DEF FileNames
(* Whoever else holds a copy has interfered with this call. *)
<1>9. CopyNames'
  <2>0. \A o \in Answered : newer[o] \subseteq newer'[o]
    BY <1>0, <1>5 DEF ActionTypes
  <2>1. ASSUME NEW q \in Run, (runs[q].at \in {"write", "writing"})'
        PROVE  InOrder(runs[q].read)' /\ \A o \in (Answered \ interfered)' : Names(runs[q].read, o)'
    <3>1. q # r /\ runs'[q] = runs[q] /\ runs[q].at \in {"write", "writing"}
      BY <1>1, <1>3, <2>1
    <3>2. q \in Holders(r)
      BY <3>1 DEF Holders, RunAt
    <3>3. r \in interfered
      BY <1>0, <3>2 DEF ActionInv, WritesAlone, RunAt
    <3>4. \A o \in (Answered \ interfered)' : o \in Answered \ interfered
      BY <1>0, <1>5, <3>3
    <3>5. InOrder(runs[q].read) /\ \A o \in Answered \ interfered : Names(runs[q].read, o)
      BY <3>1 DEF ActionInv, CopyNames
    <3>6. InOrder(runs[q].read)'
      <4>1. \A i \in DOMAIN runs[q].read : runs[q].read[i] \in Answered
        BY <3>5 DEF InOrder, Shown
      <4> QED
        BY <1>5, <2>0, <3>1, <3>5, <4>1 DEF InOrder, Shown
    <3>7. \A o \in (Answered \ interfered)' : Names(runs[q].read, o)'
      BY <2>0, <3>1, <3>4, <3>5 DEF Names, Shown
    <3> QED
      BY <3>6, <3>7
  <2> QED
    BY <2>1 DEF CopyNames
<1>10. WritesAlone'
  <2>1. ASSUME NEW q \in Run, RunAt(q, "writing")' PROVE q \in interfered
    <3>1. q # r /\ RunAt(q, "writing")
      BY <1>1, <1>3, <2>1 DEF RunAt
    <3>2. r \in Holders(q)
      BY <1>0, <3>1 DEF Holders, RunAt
    <3> QED
      BY <3>1, <3>2 DEF ActionInv, WritesAlone
  <2> QED
    BY <1>0, <2>1 DEF WritesAlone
<1> QED
  BY <1>2, <1>8, <1>9, <1>10 DEF ActionInv

(* A death leaves no call at its write; the file and the answers stay. *)
LEMMA RuntimeStopsKeeps ==
  ASSUME ActionInv, RuntimeStops
  PROVE  ActionInv'
<1>0. /\ ActionTypes /\ activeRuns' = {} /\ UNCHANGED <<records, interfered, newer>>
      /\ runs' = [r \in Run |-> IF runs[r].at \in {"none", "refused", "failed", "answered"} THEN runs[r]
                                ELSE [runs[r] EXCEPT !.at = "failed"]]
  BY DEF ActionInv, RuntimeStops
<1>1. ASSUME NEW r \in Run
      PROVE  /\ IsRun(runs'[r]) /\ runs'[r].at \notin {"write", "writing"}
             /\ RunAt(r, "answered")' <=> RunAt(r, "answered")
  <2>1. IsRun(runs[r])
    BY <1>0 DEF ActionTypes, IsRun
  <2>2. CASE runs[r].at \in {"none", "refused", "failed", "answered"}
    <3>1. runs'[r] = runs[r]
      BY <1>0, <2>2
    <3> QED
      BY <2>1, <2>2, <3>1 DEF RunAt
  <2>3. CASE runs[r].at \notin {"none", "refused", "failed", "answered"}
    <3>1. runs'[r] = [runs[r] EXCEPT !.at = "failed"]
      BY <1>0, <2>3
    <3>2. IsRun(runs'[r]) /\ runs'[r].at = "failed"
      BY <2>1, <3>1 DEF IsRun, RunPlaces
    <3> QED
      BY <2>3, <3>2 DEF RunAt
  <2> QED
    BY <2>2, <2>3
<1>2. ActionTypes'
  BY <1>0, <1>1 DEF ActionTypes, IsRun
<1>3. Answered' = Answered
  BY <1>1 DEF Answered
<1>4. FileNames' /\ CopyNames' /\ WritesAlone' /\ MarkIsServed'
  BY <1>0, <1>1, <1>3 DEF ActionInv, FileNames, CopyNames, WritesAlone, MarkIsServed, Names, InOrder, RunAt
<1> QED
  BY <1>2, <1>4 DEF ActionInv

-----------------------------------------------------------------------------
LEMMA ActionInvInit == ActionInit => ActionInv
<1> SUFFICES ASSUME ActionInit PROVE ActionInv
  OBVIOUS
<1>1. \A r \in Run : runs[r] = NoRun
  BY DEF ActionInit
<1>2. IsRun(NoRun) /\ NoRun.at = "none"
  <2>1. <<>> \in Seq(Run)
    OBVIOUS
  <2> QED
    BY <2>1 DEF NoRun, IsRun, RunPlaces
<1>3. \A r \in Run : RunAt(r, "none") /\ IsRun(runs[r])
  BY <1>1, <1>2 DEF RunAt
<1>4. ActionTypes
  BY <1>3 DEF ActionInit, ActionTypes, IsRun
<1> QED
  BY <1>3, <1>4 DEF ActionInit, ActionInv, FileNames, CopyNames, WritesAlone, MarkIsServed, Answered, RunAt,
     InOrder, Shown

LEMMA ActionInvStep == ActionInv /\ [ActionNext]_actionVars => ActionInv'
<1> SUFFICES ASSUME ActionInv, [ActionNext]_actionVars PROVE ActionInv'
  OBVIOUS
<1>1. CASE UNCHANGED actionVars
  BY <1>1 DEF actionVars, ActionInv, ActionTypes, FileNames, CopyNames, WritesAlone, MarkIsServed, Answered,
     RunAt, Holders, Names, InOrder
<1>2. CASE ServiceChanges
  BY <1>2 DEF ServiceChanges, ActionInv, ActionTypes, FileNames, CopyNames, WritesAlone, MarkIsServed, Answered,
     RunAt, Holders, Names, InOrder
<1>3. ASSUME NEW r \in Run, AdmitRun(r) \/ PrepareRun(r) \/ ChildEnds(r) PROVE ActionInv'
  BY <1>3, AdmitKeeps, PrepareRunKeeps, ChildEndsKeeps
<1>4. ASSUME NEW r \in Run, SpawnFails(r) PROVE ActionInv'
  BY <1>4, FailsKeeps DEF SpawnFails, RunAt
<1>5. ASSUME NEW r \in Run, ReadRecords(r) \/ AppendBegins(r) \/ AppendEnds(r) PROVE ActionInv'
  BY <1>5, ReadRecordsKeeps, AppendBeginsKeeps, AppendEndsKeeps
<1> QED
  BY <1>1, <1>2, <1>3, <1>4, <1>5, RequestKeeps, RuntimeStopsKeeps DEF ActionNext

LEMMA ActionInvShows == ActionInv => RunsAreAccountedFor
BY DEF ActionInv, FileNames, MarkIsServed, Names, Shown, RecordedRuns, Serving, RunsAreAccountedFor

(* Whatever calls run, fail, overlap or are cut short by the death of the runtime: a run that was
   answered is in the file, unless later runs pushed it out or it interfered with another, and no
   action stays marked that nothing serves.  (appendActionRun, runServiceAction) *)
THEOREM RunsStayAccountedFor == ActionSpec => []RunsAreAccountedFor
<1>1. ActionSpec => []ActionInv
  BY ActionInvInit, ActionInvStep, PTL DEF ActionSpec
<1> QED
  BY <1>1, ActionInvShows, PTL

-----------------------------------------------------------------------------
WriterPlaces ==
  {"idle", "recover", "prepare", "backup", "replace", "preserve", "journal", "journalled", "candidate",
   "revalidate", "revalidated", "commit", "residue", "residued", "recandidate", "rejournal", "rejournalled",
   "recommit", "clean", "cleaned"}
ReaderPlaces ==
  {"idle", "recover", "read", "recandidate", "rejournal", "rejournalled", "recommit", "clean", "cleaned"}

IsActor(x, places) ==
  /\ x = [at |-> x.at, value |-> x.value, floor |-> x.floor, before |-> x.before]
  /\ x.at \in places /\ x.value \in Nat /\ x.floor \in Nat /\ x.before \in Nat

IsFile(file) == file = Contents(file.form, file.value) /\ file.value \in Nat

(* A document of this version that is at least as new as a value. *)
Keeps(file, value) == file.form = "current" /\ file.value >= value

DocTypes ==
  /\ actors = [writer |-> actors.writer, reader |-> actors.reader]
  /\ IsActor(actors.writer, WriterPlaces) /\ IsActor(actors.reader, ReaderPlaces)
  /\ IsFile(primary) /\ IsFile(backup) /\ IsFile(legacyBackup) /\ IsFile(candidate)
  /\ acked \in Nat /\ before \in Nat /\ tried \in Nat

(* Values only grow, and a writer carries the newest. *)
ValuesGrow ==
  /\ before <= acked /\ acked <= tried
  /\ WriterBusy => actors.writer.value = tried /\ acked < tried
  /\ actors.reader.floor <= acked /\ actors.reader.before <= before

(* What was answered is in the primary, or, once that was damaged, the one before is in the backup. *)
DocumentKept ==
  /\ acked > 0 => \/ Keeps(primary, acked)
                  \/ primary.form = "corrupt" /\ damaged /\ (before > 0 => Keeps(backup, before))
  /\ before > 0 /\ ~damaged => Keeps(backup, before)

(* After an answer there is no migration any more; and none by a reader beside a writer. *)
MigrationIsOver ==
  /\ acked > 0 => /\ journal = "none" /\ ~Migrating("reader")
                  /\ actors.writer.at \in {"idle", "recover", "prepare", "backup", "replace"}
  /\ Migrating("reader") => ~WriterBusy
  /\ actors.writer.at \in {"cleaned", "prepare", "backup", "replace", "residued"} => journal = "none"

WriterFits ==
  /\ actors.writer.at \in {"revalidate", "revalidated", "commit"} =>
       candidate = Missing \/ candidate = Contents("current", actors.writer.value)
  /\ actors.writer.at \in {"residue", "residued"} => primary = Contents("current", actors.writer.value)
  /\ actors.writer.at = "backup" => primary.form = "current"
  /\ actors.writer.at = "replace" /\ primary.form = "current" /\ acked > 0 => Keeps(backup, acked)

ReplyFits ==
  /\ ~damaged /\ reply.floor > 0 => Readable(reply.got) /\ reply.got.value >= reply.floor
  /\ reply.before > 0 => Readable(reply.got) /\ reply.got.value >= reply.before

DocInv ==
  ~windows /\ ~raced =>
    DocTypes /\ ValuesGrow /\ DocumentKept /\ MigrationIsOver /\ WriterFits /\ ReplyFits

-----------------------------------------------------------------------------
DocSound == DocInv /\ ~windows /\ ~raced

LEMMA DocFacts ==
  ASSUME DocSound
  PROVE  DocTypes /\ ValuesGrow /\ DocumentKept /\ MigrationIsOver /\ WriterFits /\ ReplyFits
BY DEF DocSound, DocInv

LEMMA WriterMoves ==
  ASSUME DocTypes, NEW to \in WriterPlaces, ActorGoes("writer", to)
  PROVE  /\ actors' = [writer |-> actors'.writer, reader |-> actors'.reader]
         /\ actors'.reader = actors.reader /\ IsActor(actors'.writer, WriterPlaces)
         /\ actors'.writer.at = to /\ actors'.writer.value = actors.writer.value
<1>1. PICK x : x = [actors.writer EXCEPT !.at = to]
  OBVIOUS
<1>2. actors' = [writer |-> x, reader |-> actors.reader]
  BY <1>1 DEF ActorGoes, DocTypes
<1>3. IsActor(x, WriterPlaces) /\ x.at = to /\ x.value = actors.writer.value
  BY <1>1 DEF DocTypes, IsActor
<1> QED
  BY <1>2, <1>3

LEMMA ReaderMoves ==
  ASSUME DocTypes, NEW to \in ReaderPlaces, ActorGoes("reader", to)
  PROVE  /\ actors' = [writer |-> actors'.writer, reader |-> actors'.reader]
         /\ actors'.writer = actors.writer /\ IsActor(actors'.reader, ReaderPlaces)
         /\ actors'.reader.at = to /\ actors'.reader.floor = actors.reader.floor
         /\ actors'.reader.before = actors.reader.before
<1>1. PICK x : x = [actors.reader EXCEPT !.at = to]
  OBVIOUS
<1>2. actors' = [writer |-> actors.writer, reader |-> x]
  BY <1>1 DEF ActorGoes, DocTypes
<1>3. IsActor(x, ReaderPlaces) /\ x.at = to /\ x.floor = actors.reader.floor /\ x.before = actors.reader.before
  BY <1>1 DEF DocTypes, IsActor
<1> QED
  BY <1>2, <1>3

LEMMA Ended ==
  ASSUME DocTypes, NEW a \in Actor, ActorEnds(a)
  PROVE  /\ actors' = [writer |-> actors'.writer, reader |-> actors'.reader]
         /\ IsActor(actors'.writer, WriterPlaces) /\ IsActor(actors'.reader, ReaderPlaces)
         /\ a = "writer" => actors'.writer.at = "idle" /\ actors'.reader = actors.reader
         /\ a = "reader" => /\ actors'.reader.at = "idle" /\ actors'.reader.floor = 0 /\ actors'.reader.before = 0
                            /\ actors'.writer = actors.writer
<1>0. IdleActor.at = "idle" /\ IdleActor.floor = 0 /\ IdleActor.before = 0
  BY DEF IdleActor
<1>1. IsActor(IdleActor, WriterPlaces) /\ IsActor(IdleActor, ReaderPlaces)
  BY DEF IdleActor, IsActor, WriterPlaces, ReaderPlaces
<1>2. PICK x : x = IdleActor
  OBVIOUS
<1>3. CASE a = "writer"
  <2>1. actors' = [writer |-> x, reader |-> actors.reader]
    BY <1>2, <1>3 DEF ActorEnds, DocTypes
  <2> QED
    BY <1>0, <1>1, <1>2, <1>3, <2>1 DEF DocTypes
<1>4. CASE a = "reader"
  <2>1. actors' = [writer |-> actors.writer, reader |-> x]
    BY <1>2, <1>4 DEF ActorEnds, DocTypes
  <2> QED
    BY <1>0, <1>1, <1>2, <1>4, <2>1 DEF DocTypes
<1> QED
  BY <1>3, <1>4 DEF Actor

(* A step of the writer that changes no file and ends no read. *)
LEMMA WriterGoesOn ==
  ASSUME DocSound, NEW to \in WriterPlaces, ActorGoes("writer", to), WriterBusy, UNCHANGED files,
         UNCHANGED <<acked, before, tried, reply, damaged>>,
         to \notin {"idle", "revalidate", "revalidated", "commit", "residue", "residued", "backup", "replace"},
         to \in {"cleaned", "prepare"} => journal = "none",
         to \notin {"recover", "prepare"} => acked = 0
  PROVE  DocInv'
<1>0. DocTypes /\ ValuesGrow /\ DocumentKept /\ MigrationIsOver /\ WriterFits /\ ReplyFits
  BY DocFacts
<1>1. /\ actors' = [writer |-> actors'.writer, reader |-> actors'.reader]
      /\ actors'.reader = actors.reader /\ IsActor(actors'.writer, WriterPlaces)
      /\ actors'.writer.at = to /\ actors'.writer.value = actors.writer.value
  BY <1>0, WriterMoves
<1>2. /\ UNCHANGED <<primary, backup, legacyBackup, candidate, journal>>
      /\ UNCHANGED <<acked, before, tried, reply, damaged>>
  BY DEF files, history
<1>3. DocTypes'
  BY <1>0, <1>1, <1>2 DEF DocTypes, IsFile
<1>4. ValuesGrow'
  BY <1>0, <1>1, <1>2 DEF ValuesGrow, WriterBusy, ActorAt
<1>5. DocumentKept' /\ ReplyFits'
  BY <1>0, <1>2 DEF DocumentKept, ReplyFits, Keeps
<1>6. MigrationIsOver'
  BY <1>0, <1>1, <1>2 DEF MigrationIsOver, WriterBusy, ActorAt, Migrating, DocTypes
<1>7. WriterFits'
  BY <1>0, <1>1, <1>2 DEF WriterFits
<1> QED
  BY <1>3, <1>4, <1>5, <1>6, <1>7 DEF DocInv

LEMMA ActorStops ==
  ASSUME DocSound, NEW a \in Actor, ActorEnds(a), UNCHANGED files,
         UNCHANGED <<acked, before, tried, reply, damaged>>
  PROVE  DocInv'
<1>0. DocTypes /\ ValuesGrow /\ DocumentKept /\ MigrationIsOver /\ WriterFits /\ ReplyFits
  BY DocFacts
<1>1. /\ actors' = [writer |-> actors'.writer, reader |-> actors'.reader]
      /\ IsActor(actors'.writer, WriterPlaces) /\ IsActor(actors'.reader, ReaderPlaces)
      /\ a = "writer" => actors'.writer.at = "idle" /\ actors'.reader = actors.reader
      /\ a = "reader" => /\ actors'.reader.at = "idle" /\ actors'.reader.floor = 0 /\ actors'.reader.before = 0
                         /\ actors'.writer = actors.writer
  BY <1>0, Ended
<1>2. UNCHANGED <<primary, backup, legacyBackup, candidate, journal>>
  BY DEF files
<1>3. DocTypes'
  BY <1>0, <1>1, <1>2 DEF DocTypes, IsFile
<1>4. ValuesGrow'
  BY <1>0, <1>1, <1>2 DEF ValuesGrow, WriterBusy, ActorAt, Actor, DocTypes
<1>5. DocumentKept' /\ ReplyFits'
  BY <1>0, <1>2 DEF DocumentKept, ReplyFits, Keeps
<1>6. MigrationIsOver'
  BY <1>0, <1>1, <1>2 DEF MigrationIsOver, WriterBusy, ActorAt, Migrating, Actor
<1>7. WriterFits'
  BY <1>0, <1>1, <1>2 DEF WriterFits, Actor
<1> QED
  BY <1>3, <1>4, <1>5, <1>6, <1>7 DEF DocInv

(* A step of the reader that changes at most the journal, to none, or a file that matters no more. *)
LEMMA ReaderGoesOn ==
  ASSUME DocSound, NEW to \in ReaderPlaces \ {"idle"}, ActorGoes("reader", to), UNCHANGED <<primary, backup, legacyBackup>>,
         UNCHANGED <<acked, before, tried, reply, damaged>>,
         IsFile(candidate)', candidate' \in {candidate, Missing} \/ ~WriterBusy,
         journal' \in {journal, "none"} \/ (~WriterBusy /\ acked = 0),
         to \in {"recandidate", "rejournal", "rejournalled", "recommit"} => acked = 0 /\ ~WriterBusy
  PROVE  DocInv'
<1>0. DocTypes /\ ValuesGrow /\ DocumentKept /\ MigrationIsOver /\ WriterFits /\ ReplyFits
  BY DocFacts
<1>1. /\ actors' = [writer |-> actors'.writer, reader |-> actors'.reader]
      /\ actors'.writer = actors.writer /\ IsActor(actors'.reader, ReaderPlaces)
      /\ actors'.reader.at = to /\ actors'.reader.floor = actors.reader.floor
      /\ actors'.reader.before = actors.reader.before
  BY <1>0, ReaderMoves
<1>3. DocTypes'
  BY <1>0, <1>1 DEF DocTypes, IsFile
<1>4. ValuesGrow'
  BY <1>0, <1>1 DEF ValuesGrow, WriterBusy, ActorAt
<1>5. DocumentKept' /\ ReplyFits'
  BY <1>0 DEF DocumentKept, ReplyFits, Keeps
<1>6. MigrationIsOver'
  BY <1>0, <1>1 DEF MigrationIsOver, WriterBusy, ActorAt, Migrating, DocTypes
<1>7. WriterFits'
  BY <1>0, <1>1 DEF WriterFits, WriterBusy, ActorAt
<1> QED
  BY <1>3, <1>4, <1>5, <1>6, <1>7 DEF DocInv

-----------------------------------------------------------------------------
LEMMA BeginWriteKeeps ==
  ASSUME DocSound, BeginWrite, ~raced'
  PROVE  DocInv'
<1>0. DocTypes /\ ValuesGrow /\ DocumentKept /\ MigrationIsOver /\ WriterFits /\ ReplyFits
  BY DocFacts
<1>1. PICK x : x = [IdleActor EXCEPT !.at = "recover", !.value = tried']
  OBVIOUS
<1>2. tried' = tried + 1 /\ tried' \in Nat /\ actors' = [writer |-> x, reader |-> actors.reader]
  BY <1>0, <1>1 DEF BeginWrite, DocTypes
<1>3. IsActor(x, WriterPlaces) /\ x.at = "recover" /\ x.value = tried'
  BY <1>1, <1>2 DEF IdleActor, IsActor, WriterPlaces
<1>4. /\ UNCHANGED <<primary, backup, legacyBackup, candidate, journal>>
      /\ UNCHANGED <<acked, before, reply, damaged>> /\ ~Migrating("reader")
  BY DEF files, BeginWrite
<1>5. actors'.writer = x /\ actors'.reader = actors.reader
  BY <1>2
<1>6. DocTypes'
  BY <1>0, <1>2, <1>3, <1>4, <1>5 DEF DocTypes, IsFile
<1>7. ValuesGrow'
  BY <1>0, <1>2, <1>3, <1>4, <1>5 DEF ValuesGrow, WriterBusy, ActorAt, DocTypes
<1>8. DocumentKept' /\ ReplyFits'
  BY <1>0, <1>4 DEF DocumentKept, ReplyFits, Keeps
<1>9. MigrationIsOver' /\ WriterFits'
  BY <1>0, <1>3, <1>4, <1>5 DEF MigrationIsOver, WriterFits, WriterBusy, ActorAt, Migrating
<1> QED
  BY <1>6, <1>7, <1>8, <1>9 DEF DocInv

LEMMA BeginReadKeeps ==
  ASSUME DocSound, BeginRead
  PROVE  DocInv'
<1>0. DocTypes /\ ValuesGrow /\ DocumentKept /\ MigrationIsOver /\ WriterFits /\ ReplyFits
  BY DocFacts
<1>1. PICK x : x = [at |-> "recover", value |-> 0, floor |-> acked, before |-> before]
  OBVIOUS
<1>2. actors' = [writer |-> actors.writer, reader |-> x]
  BY <1>0, <1>1 DEF BeginRead, DocTypes
<1>3. IsActor(x, ReaderPlaces) /\ x.at = "recover" /\ x.floor = acked /\ x.before = before
  BY <1>0, <1>1 DEF IsActor, ReaderPlaces, DocTypes
<1>4. /\ UNCHANGED <<primary, backup, legacyBackup, candidate, journal>>
      /\ UNCHANGED <<acked, before, tried, reply, damaged>>
  BY DEF files, history, BeginRead
<1>5. actors'.reader = x /\ actors'.writer = actors.writer
  BY <1>2
<1>6. DocTypes'
  BY <1>0, <1>2, <1>3, <1>4, <1>5 DEF DocTypes, IsFile
<1>7. ValuesGrow'
  BY <1>0, <1>3, <1>4, <1>5 DEF ValuesGrow, WriterBusy, ActorAt, DocTypes
<1>8. DocumentKept' /\ ReplyFits'
  BY <1>0, <1>4 DEF DocumentKept, ReplyFits, Keeps
<1>9. MigrationIsOver' /\ WriterFits'
  BY <1>0, <1>3, <1>4, <1>5 DEF MigrationIsOver, WriterFits, WriterBusy, ActorAt, Migrating
<1> QED
  BY <1>6, <1>7, <1>8, <1>9 DEF DocInv

LEMMA RecoverKeeps ==
  ASSUME DocSound, NEW a \in Actor, Recover(a), ~raced'
  PROVE  DocInv'
<1>0. DocTypes /\ ValuesGrow /\ DocumentKept /\ MigrationIsOver /\ WriterFits /\ ReplyFits
  BY DocFacts
<1>1. /\ ActorAt(a, "recover") /\ UNCHANGED files
      /\ UNCHANGED <<acked, before, tried, reply, damaged>>
  BY DEF Recover
<1>2. CASE ActorEnds(a)
  BY <1>1, <1>2, ActorStops
<1>3. CASE journal = "none" /\ Proceeds(a)
  <2>1. CASE a = "writer"
    BY <1>1, <1>3, <2>1, WriterGoesOn DEF Proceeds, WriterPlaces, WriterBusy, ActorAt, history
  <2>2. CASE a = "reader"
    BY <1>0, <1>1, <1>3, <2>2, ReaderGoesOn DEF Proceeds, ReaderPlaces, files, DocTypes, IsFile
  <2> QED
    BY <2>1, <2>2 DEF Actor
<1>4. CASE journal # "none" /\ ActorGoes(a, "clean")
  <2>0. acked = 0
    BY <1>0, <1>4 DEF MigrationIsOver, DocTypes
  <2>1. CASE a = "writer"
    BY <1>1, <1>4, <2>0, <2>1, WriterGoesOn DEF WriterPlaces, WriterBusy, ActorAt, history
  <2>2. CASE a = "reader"
    BY <1>0, <1>1, <1>4, <2>2, ReaderGoesOn DEF ReaderPlaces, files, DocTypes, IsFile
  <2> QED
    BY <2>1, <2>2 DEF Actor
<1>5. CASE /\ journal # "none" /\ ActorGoes(a, "recandidate")
           /\ raced' = (raced \/ (a = "reader" /\ WriterBusy))
  <2>0. acked = 0
    BY <1>0, <1>5 DEF MigrationIsOver, DocTypes
  <2>1. CASE a = "writer"
    BY <1>1, <1>5, <2>0, <2>1, WriterGoesOn DEF WriterPlaces, WriterBusy, ActorAt, history
  <2>2. CASE a = "reader"
    BY <1>0, <1>1, <1>5, <2>0, <2>2, ReaderGoesOn DEF ReaderPlaces, files, DocTypes, IsFile
  <2> QED
    BY <2>1, <2>2 DEF Actor
<1> QED
  BY <1>2, <1>3, <1>4, <1>5 DEF Recover

-----------------------------------------------------------------------------
(* A step of the writer that goes on and changes a file. *)
LEMMA WriterWrites ==
  ASSUME DocSound, NEW to \in WriterPlaces \ {"idle"}, ActorGoes("writer", to), WriterBusy,
         UNCHANGED <<acked, before, tried, reply, damaged>>,
         IsFile(primary)', IsFile(backup)', IsFile(legacyBackup)', IsFile(candidate)',
         DocumentKept', WriterFits',
         acked > 0 => journal' = "none" /\ to \in {"recover", "prepare", "backup", "replace"},
         to \in {"cleaned", "prepare", "backup", "replace", "residued"} => journal' = "none"
  PROVE  DocInv'
<1>0. DocTypes /\ ValuesGrow /\ DocumentKept /\ MigrationIsOver /\ WriterFits /\ ReplyFits
  BY DocFacts
<1>1. /\ actors' = [writer |-> actors'.writer, reader |-> actors'.reader]
      /\ actors'.reader = actors.reader /\ IsActor(actors'.writer, WriterPlaces)
      /\ actors'.writer.at = to /\ actors'.writer.value = actors.writer.value
  BY <1>0, WriterMoves
<1>2. DocTypes'
  BY <1>0, <1>1 DEF DocTypes
<1>3. ValuesGrow'
  BY <1>0, <1>1 DEF ValuesGrow, WriterBusy, ActorAt
<1>4. ReplyFits'
  BY <1>0 DEF ReplyFits
<1>5. MigrationIsOver'
  BY <1>0, <1>1 DEF MigrationIsOver, WriterBusy, ActorAt, Migrating
<1> QED
  BY <1>2, <1>3, <1>4, <1>5 DEF DocInv

LEMMA RecandidateKeeps ==
  ASSUME DocSound, NEW a \in Actor, Recandidate(a)
  PROVE  DocInv'
<1>0. DocTypes /\ ValuesGrow /\ DocumentKept /\ MigrationIsOver /\ WriterFits /\ ReplyFits
  BY DocFacts
<1>1. /\ actors[a].at = "recandidate" /\ ActorGoes(a, "rejournal")
      /\ UNCHANGED <<primary, backup, legacyBackup, journal>> /\ UNCHANGED <<acked, before, tried, reply, damaged>>
  BY DEF Recandidate, ActorAt, history
<1>2. LegacySource.value \in Nat
  BY <1>0 DEF LegacySource, DocTypes, IsFile
<1>3. IsFile(candidate)'
  BY <1>2 DEF Recandidate, IsFile, Contents
<1>4. CASE a = "writer"
  <2>1. actors'.writer.at = "rejournal" /\ acked = 0
    BY <1>0, <1>1, <1>4, WriterMoves DEF WriterPlaces, MigrationIsOver, DocTypes
  <2>2. DocumentKept' /\ WriterFits'
    BY <1>0, <1>1, <2>1 DEF DocumentKept, WriterFits, Keeps
  <2> QED
    BY <1>0, <1>1, <1>3, <1>4, <2>1, <2>2, WriterWrites DEF WriterPlaces, WriterBusy, ActorAt, DocTypes, IsFile
<1>5. CASE a = "reader"
  <2>1. ~WriterBusy /\ acked = 0
    BY <1>0, <1>1, <1>5 DEF MigrationIsOver, Migrating, DocTypes
  <2> QED
    BY <1>0, <1>1, <1>3, <1>5, <2>1, ReaderGoesOn DEF ReaderPlaces
<1> QED
  BY <1>4, <1>5 DEF Actor

(* The journal is removed, or written while no write was answered yet. *)
LEMMA JournalStep ==
  ASSUME DocSound, NEW a \in Actor, NEW from, NEW to, actors[a].at = from, ActorGoes(a, to),
         <<from, to>> \in {<<"journal", "journalled">>, <<"rejournal", "rejournalled">>,
                           <<"revalidate", "revalidated">>, <<"journalled", "candidate">>,
                           <<"rejournalled", "recommit">>, <<"revalidated", "commit">>},
         UNCHANGED <<primary, backup, legacyBackup, candidate>>, UNCHANGED <<acked, before, tried, reply, damaged>>
  PROVE  DocInv'
<1>0. DocTypes /\ ValuesGrow /\ DocumentKept /\ MigrationIsOver /\ WriterFits /\ ReplyFits
  BY DocFacts
<1>1. CASE a = "writer"
  <2>1. to \in WriterPlaces \ {"idle"} /\ acked = 0
    BY <1>0, <1>1 DEF WriterPlaces, MigrationIsOver, DocTypes
  <2>2. actors'.writer.at = to /\ actors'.writer.value = actors.writer.value
    BY <1>0, <1>1, <2>1, WriterMoves
  <2>3. DocumentKept'
    BY <1>0 DEF DocumentKept, Keeps
  <2>4. WriterFits'
    BY <1>0, <1>1, <2>1, <2>2 DEF WriterFits
  <2> QED
    BY <1>0, <1>1, <2>1, <2>3, <2>4, WriterWrites DEF WriterBusy, ActorAt, DocTypes, IsFile
<1>2. CASE a = "reader"
  <2>1. from \in {"rejournal", "rejournalled"} /\ ~WriterBusy /\ acked = 0
    BY <1>0, <1>2 DEF ReaderPlaces, DocTypes, IsActor, MigrationIsOver, Migrating
  <2>2. to \in ReaderPlaces \ {"idle"}
    BY <2>1 DEF ReaderPlaces
  <2> QED
    BY <1>0, <1>2, <2>1, <2>2, ReaderGoesOn DEF DocTypes, IsFile
<1> QED
  BY <1>1, <1>2 DEF Actor

LEMMA JournalKeeps ==
  ASSUME DocSound, NEW a \in Actor, JournalRemoved(a) \/ JournalWritten(a)
  PROVE  DocInv'
<1>1. UNCHANGED <<primary, backup, legacyBackup, candidate>> /\ UNCHANGED <<acked, before, tried, reply, damaged>>
  BY DEF JournalRemoved, JournalWritten, history
<1>2. CASE JournalRemoved(a)
  <2>1. actors[a].at \in {"journal", "rejournal", "revalidate"} /\ ActorGoes(a, JournalPlace(a))
    BY <1>2 DEF JournalRemoved
  <2>2. CASE actors[a].at = "journal"
    BY <1>1, <2>1, <2>2, JournalStep DEF JournalPlace, ActorAt
  <2>3. CASE actors[a].at = "rejournal"
    BY <1>1, <2>1, <2>3, JournalStep DEF JournalPlace, ActorAt
  <2>4. CASE actors[a].at = "revalidate"
    BY <1>1, <2>1, <2>4, JournalStep DEF JournalPlace, ActorAt
  <2> QED
    BY <2>1, <2>2, <2>3, <2>4
<1>3. CASE JournalWritten(a)
  BY <1>1, <1>3, JournalStep DEF JournalWritten, ActorAt
<1> QED
  BY <1>2, <1>3

LEMMA CommitKeeps ==
  ASSUME DocSound, NEW a \in Actor, Commit(a)
  PROVE  DocInv'
<1>0. DocTypes /\ ValuesGrow /\ DocumentKept /\ MigrationIsOver /\ WriterFits /\ ReplyFits
  BY DocFacts
<1>1. /\ actors[a].at \in {"commit", "recommit"} /\ UNCHANGED <<backup, legacyBackup, journal>>
      /\ UNCHANGED <<acked, before, tried, reply, damaged>> /\ acked = 0
  BY <1>0 DEF Commit, history, MigrationIsOver, Actor, DocTypes, IsActor, ReaderPlaces, Migrating
<1>2. CASE candidate = Missing
  <2>1. UNCHANGED <<primary, candidate>>
    BY <1>2 DEF Commit
  <2>2. CASE ActorEnds(a)
    BY <1>1, <2>1, <2>2, ActorStops DEF files
  <2>3. CASE a = "reader" /\ ActorGoes(a, "read")
    BY <1>0, <1>1, <2>1, <2>3, ReaderGoesOn DEF ReaderPlaces, DocTypes, IsFile
  <2> QED
    BY <1>2, <2>2, <2>3 DEF Commit
<1>3. CASE candidate # Missing
  <2>1. primary' = candidate /\ candidate' = Missing
    BY <1>3 DEF Commit
  <2>2. IsFile(primary)' /\ IsFile(candidate)' /\ IsFile(backup)' /\ IsFile(legacyBackup)'
    BY <1>0, <1>1, <2>1 DEF DocTypes, IsFile, Missing, Contents
  <2>3. DocumentKept'
    BY <1>0, <1>1, <2>1 DEF DocumentKept, ValuesGrow, DocTypes
  <2>4. CASE a = "writer"
    <3>1. PICK to \in {"residue", "clean"} : ActorGoes("writer", to) /\ (to = "residue" <=> actors.writer.at = "commit")
      BY <1>1, <1>3, <2>4 DEF Commit, ActorAt
    <3>2. actors'.writer.at = to /\ actors'.writer.value = actors.writer.value
      BY <1>0, <3>1, WriterMoves DEF WriterPlaces
    <3>3. WriterFits'
      BY <1>0, <1>1, <1>3, <2>1, <2>4, <3>1, <3>2 DEF WriterFits
    <3> QED
      BY <1>1, <2>2, <2>3, <2>4, <3>1, <3>3, WriterWrites DEF WriterPlaces, WriterBusy, ActorAt
  <2>5. CASE a = "reader"
    <3>1. actors.reader.at = "recommit" /\ ActorGoes("reader", "clean") /\ ~WriterBusy
      BY <1>0, <1>1, <1>3, <2>5 DEF Commit, ActorAt, DocTypes, IsActor, ReaderPlaces, MigrationIsOver, Migrating
    <3>2. /\ actors' = [writer |-> actors'.writer, reader |-> actors'.reader]
          /\ actors'.writer = actors.writer /\ IsActor(actors'.reader, ReaderPlaces)
          /\ actors'.reader.at = "clean" /\ actors'.reader.floor = actors.reader.floor
          /\ actors'.reader.before = actors.reader.before
      BY <1>0, <3>1, ReaderMoves DEF ReaderPlaces
    <3>3. DocTypes'
      BY <1>0, <1>1, <2>2, <3>2 DEF DocTypes
    <3>4. ValuesGrow' /\ ReplyFits'
      BY <1>0, <1>1, <3>2 DEF ValuesGrow, WriterBusy, ActorAt, ReplyFits
    <3>5. MigrationIsOver' /\ WriterFits'
      BY <1>0, <1>1, <3>1, <3>2 DEF MigrationIsOver, WriterFits, WriterBusy, ActorAt, Migrating
    <3> QED
      BY <2>3, <3>3, <3>4, <3>5 DEF DocInv
  <2> QED
    BY <2>4, <2>5 DEF Actor
<1> QED
  BY <1>2, <1>3

LEMMA CleanJournalKeeps ==
  ASSUME DocSound, NEW a \in Actor, CleanJournal(a)
  PROVE  DocInv'
<1>0. DocTypes /\ ValuesGrow /\ DocumentKept /\ MigrationIsOver /\ WriterFits /\ ReplyFits
  BY DocFacts
<1>1. /\ actors[a].at \in {"clean", "residue"} /\ journal' = "none"
      /\ ActorGoes(a, IF ActorAt(a, "clean") THEN "cleaned" ELSE "residued")
      /\ UNCHANGED <<primary, backup, legacyBackup, candidate>> /\ UNCHANGED <<acked, before, tried, reply, damaged>>
  BY DEF CleanJournal, history
<1>2. CASE a = "writer"
  <2>1. PICK to \in {"cleaned", "residued"} : ActorGoes("writer", to) /\ (to = "residued" <=> actors.writer.at = "residue")
    BY <1>1, <1>2 DEF ActorAt
  <2>2. actors'.writer.at = to /\ actors'.writer.value = actors.writer.value
    BY <1>0, <2>1, WriterMoves DEF WriterPlaces
  <2>3. DocumentKept' /\ WriterFits'
    BY <1>0, <1>1, <1>2, <2>1, <2>2 DEF DocumentKept, WriterFits, Keeps
  <2>4. acked = 0
    BY <1>0, <1>1, <1>2 DEF MigrationIsOver, DocTypes
  <2> QED
    BY <1>0, <1>1, <1>2, <2>1, <2>3, <2>4, WriterWrites DEF WriterPlaces, WriterBusy, ActorAt, DocTypes, IsFile
<1>3. CASE a = "reader"
  <2>1. ActorGoes("reader", "cleaned")
    BY <1>0, <1>1, <1>3 DEF ActorAt, DocTypes, IsActor, ReaderPlaces
  <2> QED
    BY <1>0, <1>1, <2>1, ReaderGoesOn DEF ReaderPlaces, DocTypes, IsFile
<1> QED
  BY <1>2, <1>3 DEF Actor

(* The writer has answered: what it wrote is in the primary, and what was there in the backup. *)
LEMMA AnswersKeeps ==
  ASSUME DocSound, WriterBusy, Answers, ActorEnds("writer"), journal = "none",
         UNCHANGED <<backup, legacyBackup, journal>>, UNCHANGED <<tried, reply, damaged>>,
         primary' = Contents("current", actors.writer.value), IsFile(candidate)',
         acked > 0 /\ ~damaged => Keeps(backup, acked)
  PROVE  DocInv'
<1>0. DocTypes /\ ValuesGrow /\ DocumentKept /\ MigrationIsOver /\ WriterFits /\ ReplyFits
  BY DocFacts
<1>1. /\ actors' = [writer |-> actors'.writer, reader |-> actors'.reader]
      /\ IsActor(actors'.writer, WriterPlaces) /\ IsActor(actors'.reader, ReaderPlaces)
      /\ actors'.writer.at = "idle" /\ actors'.reader = actors.reader
  BY <1>0, Ended DEF Actor
<1>2. /\ acked' = actors.writer.value /\ acked' = tried /\ before' = acked /\ acked < tried
      /\ acked' \in Nat /\ before' \in Nat
  BY <1>0 DEF Answers, ValuesGrow, DocTypes, IsActor
<1>3. Keeps(primary, acked)' /\ IsFile(primary)'
  BY <1>2 DEF Keeps, Contents, IsFile
<1>4. DocTypes'
  BY <1>0, <1>1, <1>2, <1>3 DEF DocTypes, IsFile
<1>5. ValuesGrow'
  BY <1>0, <1>1, <1>2 DEF ValuesGrow, WriterBusy, ActorAt, DocTypes, IsActor
<1>6. DocumentKept'
  BY <1>2, <1>3 DEF DocumentKept, Keeps
<1>7. MigrationIsOver' /\ WriterFits' /\ ReplyFits'
  BY <1>0, <1>1 DEF MigrationIsOver, WriterFits, ReplyFits, WriterBusy, ActorAt, Migrating
<1> QED
  BY <1>4, <1>5, <1>6, <1>7 DEF DocInv

LEMMA CleanCandidateKeeps ==
  ASSUME DocSound, NEW a \in Actor, CleanCandidate(a)
  PROVE  DocInv'
<1>0. DocTypes /\ ValuesGrow /\ DocumentKept /\ MigrationIsOver /\ WriterFits /\ ReplyFits
  BY DocFacts
<1>1. /\ candidate' = Missing /\ UNCHANGED <<primary, backup, legacyBackup, journal>>
      /\ UNCHANGED <<tried, reply, damaged>> /\ IsFile(candidate)'
  BY DEF CleanCandidate, Missing, IsFile, Contents
<1>2. CASE ActorAt(a, "residued") /\ Answers /\ ActorEnds(a)
  <2>1. a = "writer" /\ WriterBusy
    BY <1>0, <1>2 DEF ActorAt, Actor, DocTypes, IsActor, ReaderPlaces, WriterBusy
  <2>2. /\ journal = "none" /\ acked = 0 /\ primary' = Contents("current", actors.writer.value)
    BY <1>0, <1>1, <1>2, <2>1 DEF ActorAt, MigrationIsOver, WriterFits, DocTypes
  <2> QED
    BY <1>1, <1>2, <2>1, <2>2, AnswersKeeps
<1>3. CASE ActorAt(a, "cleaned") /\ Proceeds(a) /\ UNCHANGED <<acked, before>>
  <2>1. CASE a = "writer"
    <3>1. ActorGoes("writer", "prepare") /\ journal = "none" /\ acked = 0
      BY <1>0, <1>3, <2>1 DEF Proceeds, ActorAt, MigrationIsOver, DocTypes
    <3>2. actors'.writer.at = "prepare"
      BY <1>0, <3>1, WriterMoves DEF WriterPlaces
    <3>3. DocumentKept' /\ WriterFits'
      BY <1>0, <1>1, <1>3, <3>2 DEF DocumentKept, WriterFits, Keeps
    <3> QED
      BY <1>0, <1>1, <1>3, <2>1, <3>1, <3>3, WriterWrites DEF WriterPlaces, WriterBusy, ActorAt, DocTypes, IsFile
  <2>2. CASE a = "reader"
    BY <1>1, <1>3, <2>2, ReaderGoesOn DEF Proceeds, ReaderPlaces
  <2> QED
    BY <2>1, <2>2 DEF Actor
<1> QED
  BY <1>2, <1>3 DEF CleanCandidate

-----------------------------------------------------------------------------
LEMMA PrepareKeeps ==
  ASSUME DocSound, PrepareWrite
  PROVE  DocInv'
<1>0. DocTypes /\ ValuesGrow /\ DocumentKept /\ MigrationIsOver /\ WriterFits /\ ReplyFits
  BY DocFacts
<1>1. /\ actors.writer.at = "prepare" /\ UNCHANGED <<acked, before, tried, reply, damaged>>
      /\ UNCHANGED <<primary, backup, legacyBackup, candidate, journal>> /\ UNCHANGED files
      /\ journal = "none"
  BY <1>0 DEF PrepareWrite, ActorAt, files, history, MigrationIsOver
<1>2. CASE ActorEnds("writer")
  BY <1>1, <1>2, ActorStops DEF Actor
<1>3. CASE primary.form = "legacy" /\ ActorGoes("writer", "preserve")
  <2>1. acked = 0
    BY <1>0, <1>3 DEF DocumentKept, Keeps, DocTypes
  <2> QED
    BY <1>1, <1>3, <2>1, WriterGoesOn DEF WriterPlaces, WriterBusy, ActorAt
<1>4. ASSUME NEW to \in {"backup", "replace"}, ActorGoes("writer", to),
             IF to = "backup" THEN primary.form = "current" ELSE primary.form # "current"
      PROVE  DocInv'
  <2>1. actors'.writer.at = to
    BY <1>0, <1>4, WriterMoves DEF WriterPlaces
  <2>2. DocumentKept' /\ WriterFits'
    BY <1>0, <1>1, <1>4, <2>1 DEF DocumentKept, WriterFits, Keeps
  <2> QED
    BY <1>0, <1>1, <1>4, <2>2, WriterWrites DEF WriterPlaces, WriterBusy, ActorAt, DocTypes, IsFile
<1> QED
  BY <1>2, <1>3, <1>4 DEF PrepareWrite

LEMMA PreserveKeeps ==
  ASSUME DocSound, Preserve
  PROVE  DocInv'
<1>0. DocTypes /\ ValuesGrow /\ DocumentKept /\ MigrationIsOver /\ WriterFits /\ ReplyFits
  BY DocFacts
<1>1. /\ actors.writer.at = "preserve" /\ ActorGoes("writer", "journal") /\ legacyBackup' = primary
      /\ UNCHANGED <<primary, backup, candidate, journal>> /\ UNCHANGED <<acked, before, tried, reply, damaged>>
  BY DEF Preserve, ActorAt, history
<1>2. actors'.writer.at = "journal" /\ acked = 0
  BY <1>0, <1>1, WriterMoves DEF WriterPlaces, MigrationIsOver, DocTypes
<1>3. DocumentKept' /\ WriterFits'
  BY <1>0, <1>1, <1>2 DEF DocumentKept, WriterFits, Keeps
<1> QED
  BY <1>0, <1>1, <1>2, <1>3, WriterWrites DEF WriterPlaces, WriterBusy, ActorAt, DocTypes, IsFile

LEMMA WriteCandidateKeeps ==
  ASSUME DocSound, WriteCandidate
  PROVE  DocInv'
<1>0. DocTypes /\ ValuesGrow /\ DocumentKept /\ MigrationIsOver /\ WriterFits /\ ReplyFits
  BY DocFacts
<1>1. /\ actors.writer.at = "candidate" /\ ActorGoes("writer", "revalidate")
      /\ candidate' = Contents("current", actors.writer.value)
      /\ UNCHANGED <<primary, backup, legacyBackup, journal>> /\ UNCHANGED <<acked, before, tried, reply, damaged>>
  BY DEF WriteCandidate, ActorAt, history
<1>2. actors'.writer.at = "revalidate" /\ actors'.writer.value = actors.writer.value /\ acked = 0
  BY <1>0, <1>1, WriterMoves DEF WriterPlaces, MigrationIsOver, DocTypes
<1>3. IsFile(candidate)'
  BY <1>0, <1>1 DEF DocTypes, IsActor, IsFile, Contents
<1>4. DocumentKept' /\ WriterFits'
  BY <1>0, <1>1, <1>2 DEF DocumentKept, WriterFits, Keeps
<1> QED
  BY <1>0, <1>1, <1>2, <1>3, <1>4, WriterWrites DEF WriterPlaces, WriterBusy, ActorAt, DocTypes, IsFile

LEMMA BackUpKeeps ==
  ASSUME DocSound, BackUp
  PROVE  DocInv'
<1>0. DocTypes /\ ValuesGrow /\ DocumentKept /\ MigrationIsOver /\ WriterFits /\ ReplyFits
  BY DocFacts
<1>1. /\ actors.writer.at = "backup" /\ ActorGoes("writer", "replace") /\ backup' = primary
      /\ UNCHANGED <<primary, legacyBackup, candidate, journal>> /\ UNCHANGED <<acked, before, tried, reply, damaged>>
  BY DEF BackUp, Saves, ActorAt, history
<1>2. actors'.writer.at = "replace"
  BY <1>0, <1>1, WriterMoves DEF WriterPlaces
<1>3. primary.form = "current" /\ journal = "none"
  BY <1>0, <1>1 DEF WriterFits, MigrationIsOver
<1>4. acked > 0 => Keeps(primary, acked)
  BY <1>0, <1>3 DEF DocumentKept, Keeps
<1>5. DocumentKept' /\ WriterFits'
  BY <1>0, <1>1, <1>2, <1>4 DEF DocumentKept, WriterFits, Keeps, ValuesGrow, DocTypes, IsFile
<1> QED
  BY <1>0, <1>1, <1>3, <1>5, WriterWrites DEF WriterPlaces, WriterBusy, ActorAt, DocTypes, IsFile

LEMMA ReplaceKeeps ==
  ASSUME DocSound, Replace
  PROVE  DocInv'
<1>0. DocTypes /\ ValuesGrow /\ DocumentKept /\ MigrationIsOver /\ WriterFits /\ ReplyFits
  BY DocFacts
<1>1. WriterBusy /\ journal = "none" /\ actors.writer.at = "replace"
  BY <1>0 DEF Replace, ActorAt, WriterBusy, MigrationIsOver
<1>2. acked > 0 /\ ~damaged => Keeps(backup, acked)
  BY <1>0, <1>1 DEF DocumentKept, Keeps, WriterFits
<1>3. IsFile(candidate)'
  BY <1>0 DEF Replace, DocTypes, IsFile
<1> QED
  BY <1>1, <1>2, <1>3, AnswersKeeps DEF Replace

LEMMA ReadKeeps ==
  ASSUME DocSound, Read
  PROVE  DocInv'
<1>0. DocTypes /\ ValuesGrow /\ DocumentKept /\ MigrationIsOver /\ WriterFits /\ ReplyFits
  BY DocFacts
<1>1. /\ ActorEnds("reader") /\ UNCHANGED <<primary, backup, legacyBackup, candidate, journal>>
      /\ UNCHANGED <<acked, before, tried, damaged>>
      /\ reply' = [floor |-> actors.reader.floor, before |-> actors.reader.before, got |-> Reading]
  BY DEF Read, files
<1>2. /\ actors' = [writer |-> actors'.writer, reader |-> actors'.reader]
      /\ IsActor(actors'.writer, WriterPlaces) /\ IsActor(actors'.reader, ReaderPlaces)
      /\ actors'.reader.at = "idle" /\ actors'.reader.floor = 0 /\ actors'.reader.before = 0
      /\ actors'.writer = actors.writer
  BY <1>0, <1>1, Ended DEF Actor
<1>3. DocTypes'
  BY <1>0, <1>1, <1>2 DEF DocTypes, IsFile
<1>4. ValuesGrow'
  BY <1>0, <1>1, <1>2 DEF ValuesGrow, WriterBusy, ActorAt, DocTypes
<1>5. DocumentKept' /\ MigrationIsOver' /\ WriterFits'
  BY <1>0, <1>1, <1>2 DEF DocumentKept, MigrationIsOver, WriterFits, WriterBusy, ActorAt, Migrating, Keeps
<1>6. PICK got : got = Reading
  OBVIOUS
<1>7. actors.reader.floor \in Nat /\ actors.reader.before \in Nat /\ before \in Nat /\ acked \in Nat
      /\ actors.reader.floor <= acked /\ actors.reader.before <= before /\ before <= acked
  BY <1>0 DEF DocTypes, IsActor, ValuesGrow
<1>8. reply'.floor = actors.reader.floor /\ reply'.before = actors.reader.before /\ reply'.got = got
  BY <1>1, <1>6
<1>9. ~damaged /\ actors.reader.floor > 0 => Readable(got) /\ got.value >= actors.reader.floor
  BY <1>0, <1>6, <1>7 DEF Reading, Readable, DocumentKept, Keeps, DocTypes, IsFile
<1>10. actors.reader.before > 0 => Readable(got) /\ got.value >= actors.reader.before
  BY <1>0, <1>6, <1>7 DEF Reading, Readable, DocumentKept, Keeps, DocTypes, IsFile
<1>11. ReplyFits'
  BY <1>1, <1>8, <1>9, <1>10 DEF ReplyFits, Readable
<1> QED
  BY <1>3, <1>4, <1>5, <1>11 DEF DocInv

LEMMA DamageKeeps ==
  ASSUME DocSound, DamagePrimary
  PROVE  DocInv'
<1>0. DocTypes /\ ValuesGrow /\ DocumentKept /\ MigrationIsOver /\ WriterFits /\ ReplyFits
  BY DocFacts
<1>1. /\ ~damaged /\ damaged' = TRUE /\ primary' = Contents("corrupt", 0) /\ actors.writer.at = "idle"
      /\ UNCHANGED <<backup, legacyBackup, candidate, journal, actors, acked, before, tried, reply>>
  BY DEF DamagePrimary, WriterBusy, ActorAt
<1>2. DocTypes'
  BY <1>0, <1>1 DEF DocTypes, IsFile, Contents
<1>3. ValuesGrow' /\ MigrationIsOver' /\ WriterFits'
  BY <1>0, <1>1 DEF ValuesGrow, MigrationIsOver, WriterFits, WriterBusy, ActorAt, Migrating
<1>4. primary'.form = "corrupt"
  BY <1>1 DEF Contents
<1>5. DocumentKept'
  BY <1>0, <1>1, <1>4 DEF DocumentKept, Keeps
<1>6. ReplyFits'
  BY <1>0, <1>1 DEF ReplyFits, Readable
<1> QED
  BY <1>2, <1>3, <1>5, <1>6 DEF DocInv

-----------------------------------------------------------------------------
LEMMA DocInvInit == DocInit => DocInv
<1> SUFFICES ASSUME DocInit PROVE DocInv
  OBVIOUS
<1>1. /\ IsActor(IdleActor, WriterPlaces) /\ IsActor(IdleActor, ReaderPlaces) /\ IdleActor.at = "idle"
      /\ IdleActor.floor = 0 /\ IdleActor.before = 0
  BY DEF IsActor, IdleActor, WriterPlaces, ReaderPlaces
<1>2. actors.writer = IdleActor /\ actors.reader = IdleActor
      /\ actors = [writer |-> actors.writer, reader |-> actors.reader]
  BY DEF DocInit
<1>3. IsFile(primary) /\ IsFile(backup) /\ IsFile(legacyBackup) /\ IsFile(candidate)
  BY DEF DocInit, IsFile, Contents, Missing
<1>4. DocTypes
  BY <1>1, <1>2, <1>3 DEF DocInit, DocTypes
<1>5. acked = 0 /\ before = 0 /\ tried = 0 /\ reply.floor = 0 /\ reply.before = 0
  BY DEF DocInit
<1>6. ValuesGrow /\ DocumentKept /\ MigrationIsOver /\ WriterFits /\ ReplyFits
  BY <1>1, <1>2, <1>5 DEF ValuesGrow, DocumentKept, MigrationIsOver, WriterFits, ReplyFits, WriterBusy, ActorAt,
     Migrating
<1> QED
  BY <1>4, <1>6 DEF DocInv

(* A race that was noted stays noted, and a host stays of its kind. *)
LEMMA RacedStays ==
  ASSUME [DocNext]_docVars
  PROVE  windows' = windows /\ (raced => raced')
<1>1. ASSUME UNCHANGED docVars \/ BeginRead \/ PrepareWrite \/ Preserve \/ WriteCandidate \/ BackUp \/ Replace
             \/ Read \/ DamagePrimary
      PROVE  windows' = windows /\ (raced => raced')
  BY <1>1 DEF docVars, BeginRead, PrepareWrite, Preserve, WriteCandidate, BackUp, Replace, Read, DamagePrimary,
     history
<1>2. ASSUME NEW a \in Actor,
             \/ Recandidate(a) \/ JournalRemoved(a) \/ JournalWritten(a) \/ Commit(a)
             \/ CleanJournal(a) \/ CleanCandidate(a) \/ Refused(a) \/ ActorDies(a)
      PROVE  windows' = windows /\ (raced => raced')
  BY <1>2 DEF Recandidate, JournalRemoved, JournalWritten, Commit, CleanJournal, CleanCandidate, Refused, ActorDies,
     history
<1>3. ASSUME BeginWrite PROVE windows' = windows /\ (raced => raced')
  <2>1. windows' = windows
    BY <1>3 DEF BeginWrite
  <2>2. raced' = (raced \/ Migrating("reader"))
    BY <1>3 DEF BeginWrite
  <2>3. ASSUME raced PROVE raced'
    BY <2>2, <2>3, Zenon
  <2> QED
    BY <2>1, <2>3
<1>4. ASSUME NEW a \in Actor, Recover(a) PROVE windows' = windows /\ (raced => raced')
  <2>1. windows' = windows
    BY <1>4 DEF Recover
  <2>2. raced' = raced \/ raced' = (raced \/ (a = "reader" /\ WriterBusy))
    BY <1>4 DEF Recover
  <2>3. ASSUME raced PROVE raced'
    BY <2>2, <2>3, Zenon
  <2> QED
    BY <2>1, <2>3
<1> QED
  BY <1>1, <1>2, <1>3, <1>4 DEF DocNext

LEMMA DocInvStep == DocInv /\ [DocNext]_docVars => DocInv'
<1> SUFFICES ASSUME DocInv, [DocNext]_docVars, ~windows', ~raced' PROVE DocInv'
  BY DEF DocInv
<1>0. DocSound
  BY RacedStays DEF DocSound
<1>1. CASE UNCHANGED docVars
  BY <1>1 DEF docVars, DocInv, DocTypes, IsFile, ValuesGrow, DocumentKept, MigrationIsOver, WriterFits, ReplyFits,
     Keeps, Readable, WriterBusy, ActorAt, Migrating
<1>2. ASSUME NEW a \in Actor, Recover(a) \/ Recandidate(a) \/ JournalRemoved(a) \/ JournalWritten(a) PROVE DocInv'
  BY <1>0, <1>2, RecoverKeeps, RecandidateKeeps, JournalKeeps
<1>3. ASSUME NEW a \in Actor, Commit(a) \/ CleanJournal(a) \/ CleanCandidate(a) PROVE DocInv'
  BY <1>0, <1>3, CommitKeeps, CleanJournalKeeps, CleanCandidateKeeps
<1>4. ASSUME NEW a \in Actor, Refused(a) PROVE DocInv'
  BY <1>0, <1>4 DEF Refused, DocSound
<1>5. ASSUME NEW a \in Actor, ActorDies(a) PROVE DocInv'
  BY <1>0, <1>5, ActorStops DEF ActorDies
<1> QED
  BY <1>0, <1>1, <1>2, <1>3, <1>4, <1>5, BeginWriteKeeps, BeginReadKeeps, PrepareKeeps, PreserveKeeps,
     WriteCandidateKeeps, BackUpKeeps, ReplaceKeeps, ReadKeeps, DamageKeeps DEF DocNext

(* For any number of writes, deaths at any step and a damaged primary: a read that began after an
   answer returns that write or a later one, and after damage at worst the one before.
   (writeLifecycleDocument, readLifecycleDocument) *)
THEOREM ReadsNeverGoBack == DocSpec => []ReadsGoForward
<1>1. DocSpec => []DocInv
  BY DocInvInit, DocInvStep, PTL DEF DocSpec
<1>2. DocInv => ReadsGoForward
  BY DEF DocInv, ReplyFits, ReadsGoForward
<1> QED
  BY <1>1, <1>2, PTL

-----------------------------------------------------------------------------
Early == {"planned", "staged", "consumers_stopped"}
Late == {"activated", "converging"}
OpenPhase == Early \cup Late \cup {"rolling_back"}
RotationPhases == OpenPhase \cup Terminal \cup {"none"}
MishapTotal == mishaps.crashes + mishaps.faults
OwnerDid(o) == <<o, "owner">> \in ownerRuns
OwnerUndid(o) == <<o, "rollback">> \in ownerRuns
CallUnderWay == ~CallIsAt("idle")

IsOp(m) ==
  /\ m = [phase |-> m.phase, previous |-> m.previous, initial |-> m.initial, stopped |-> m.stopped,
          done |-> m.done, undone |-> m.undone, ownerDone |-> m.ownerDone, ownerUndone |-> m.ownerUndone]
  /\ m.phase \in RotationPhases /\ m.initial \subseteq Consumer /\ m.done \subseteq Consumer /\ m.undone \subseteq Consumer
  /\ m.ownerDone \in BOOLEAN /\ m.ownerUndone \in BOOLEAN

IsCall(x) ==
  /\ x = [at |-> x.at, op |-> x.op, then |-> x.then, mem |-> x.mem, was |-> x.was]
  /\ x.at # "idle" /\ x.op \in Op /\ IsOp(x.mem)

(* The consumers and the mishaps. *)
RotationWorld ==
  /\ consumers = [c \in Consumer |-> consumers[c]]
  /\ \A c \in Consumer : /\ consumers[c] = [up |-> consumers[c].up, version |-> consumers[c].version]
                         /\ consumers[c].up \in BOOLEAN
  /\ mishaps = [crashes |-> mishaps.crashes, faults |-> mishaps.faults]
  /\ mishaps.crashes \in Nat /\ mishaps.faults \in Nat

RotationTypes ==
  /\ ops = [o \in Op |-> ops[o]] /\ \A o \in Op : IsOp(ops[o])
  /\ IF CallUnderWay THEN IsCall(call) ELSE call = NoCall
  /\ last \in Op \cup {"none"} /\ (last # "none" => ops[last].phase \in Terminal)
  /\ RotationWorld

(* One operation is open, and it is the one a call works on. *)
IsOpen(o) == ops[o].phase \in OpenPhase
OneOpen ==
  /\ \A o, p \in Op : IsOpen(o) /\ IsOpen(p) => o = p
  /\ CallUnderWay => \A o \in Op \ {call.op} : ~IsOpen(o)

(* An operation that was never begun has left no trace. *)
Fresh ==
  \A o \in Op : ops[o].phase = "none" =>
    /\ broker # o /\ ~OwnerDid(o) /\ ~OwnerUndid(o)
    /\ \A p \in Op : ops[p].previous # o
    /\ CallUnderWay => mem.previous # o

(* What is true of every copy of an operation's record. *)
IsRecord(o, m) ==
  /\ m.ownerDone => OwnerDid(o)
  /\ m.ownerUndone => OwnerUndid(o)
  /\ m.undone # {} => m.ownerUndone
  /\ m.phase \notin {"none", "planned", "blocked"} => m.ownerDone
  /\ m.phase \in Early \cup {"none"} => m.done = {}
  /\ m.phase = "rolled_back" => m.ownerUndone

(* The consumers that run use a version, and all do when the runtime never died. *)
Follow(C, version) ==
  \A c \in C : (consumers[c].up => consumers[c].version = version) /\ (mishaps.crashes = 0 => consumers[c].up)

(* What an operation has brought about, as long as its owner's action was not undone. *)
IsLive(o, m) ==
  ~OwnerUndid(o) =>
    /\ OwnerDid(o) => owner = o
    /\ m.phase \in Late \cup {"committed"} => broker = o /\ Follow(m.done \cap m.initial, o)

OperationFiles ==
  \A o \in Op :
    /\ IsRecord(o, ops[o])
    /\ IsOpen(o) => IsLive(o, ops[o])
    /\ IsOpen(o) /\ (CallUnderWay => call.op # o) => MishapTotal >= 1 /\ (MishapTotal <= 1 => ~OwnerUndid(o))

(* Where a call is: going forward, undoing what was activated, or what was not. *)
Forward(at, then, m) ==
  \/ at \in {"preview", "owner"} /\ m.phase = "planned"
  \/ at = "stage" /\ m.phase = "planned" /\ m.ownerDone
  \/ at = "stop" /\ m.phase = "staged"
  \/ at = "activate" /\ m.phase = "consumers_stopped"
  \/ at = "converging" /\ m.phase \in Late
  \/ at = "converge" /\ m.phase = "converging"
  \/ at = "catch" /\ m.phase \in Early \cup Late \cup {"committed"}
  \/ at = "write" /\ \/ then = "preview" /\ m.phase = "planned"
                     \/ then = "stage" /\ m.phase = "planned" /\ m.ownerDone
                     \/ then = "stop" /\ m.phase = "staged"
                     \/ then = "activate" /\ m.phase = "consumers_stopped"
                     \/ then = "converging" /\ m.phase = "activated"
                     \/ then = "converge" /\ m.phase = "converging"
                     \/ then = "idle" /\ m.phase = "committed" /\ m.done = Consumer

Back(at, then, m) ==
  \/ at \in {"brokerRollback", "ownerRollback"} /\ m.phase = "rolling_back"
  \/ at = "converge" /\ m.phase = "rolling_back" /\ m.ownerUndone
  \/ at = "blocked" /\ m.phase \in {"rolling_back", "rolled_back"}
  \/ at = "write" /\ \/ then = "brokerRollback" /\ m.phase = "rolling_back"
                     \/ then = "converge" /\ m.phase = "rolling_back" /\ m.ownerUndone
                     \/ then = "idle" /\ m.phase = "rolled_back" /\ m.undone = Consumer
                     \/ then = "idle" /\ m.phase = "blocked"

Unactivated(at, then, m) ==
  \/ /\ m.phase \in Early \cup {"committed"} /\ m.ownerDone
     /\ \/ at \in {"ownerRollback", "blocked"}
        \/ at = "converge" /\ m.ownerUndone
        \/ at = "write" /\ then \in {"converge", "blocked"} /\ m.ownerUndone
  \/ at = "write" /\ then = "idle" /\ m.phase = "blocked"

CallFits(x) ==
  \/ x.was = "none" /\ Forward(x.at, x.then, x.mem)
  \/ x.was = "activated" /\ Back(x.at, x.then, x.mem)
  \/ x.was = "not_activated" /\ Unactivated(x.at, x.then, x.mem)
  \/ x.was = "failed" /\ x.at = "write" /\ x.then = "idle" /\ x.mem.phase = "planned" /\ ~x.mem.ownerDone

(* What the file of a call says: nothing yet, or, too early, that it was committed, or no more than the copy. *)
CallFitsFile(x) ==
  /\ ops[x.op].phase = "none" =>
       /\ x.mem.phase = "planned" /\ ~x.mem.ownerDone
       /\ x.at = "catch" \/ (x.at = "write" /\ (x.was = "failed" \/ x.then = "preview"))
  /\ ops[x.op].phase \in Terminal =>
       /\ ops[x.op].phase = "committed" /\ x.was = "not_activated" /\ x.mem.phase \in {"committed", "blocked"}
       /\ OwnerUndid(x.op) /\ last = x.op
  /\ x.mem.phase \in Early => ops[x.op].phase \in Early \cup {"none"}
  /\ x.was = "none" => ops[x.op].done \subseteq x.mem.done
  /\ x.at = "brokerRollback" => ops[x.op].phase = "rolling_back"

(* Before anything went wrong. *)
Untroubled(x) ==
  /\ x.was = "none" /\ x.at # "catch"
  /\ x.mem.phase \in Early => broker # x.op
  /\ \A c \in x.mem.initial \ Restarted : consumers[c].up

(* The owner's action was not undone yet. *)
BeforeUndo(x) ==
  \/ x.was \in {"none", "failed"}
  \/ x.at \in {"brokerRollback", "ownerRollback"}
  \/ x.at = "write" /\ x.then = "brokerRollback"

(* What an undoing that nothing interrupts has brought back. *)
Reverted(x) ==
  x.was = "activated" =>
    /\ x.at = "ownerRollback" => broker = x.mem.previous
    /\ x.mem.phase # "blocked" /\ (x.at = "converge" \/ (x.at = "write" /\ x.then # "brokerRollback")) =>
         /\ broker = x.mem.previous /\ owner = x.mem.previous
         /\ Follow(x.mem.undone \cap x.mem.initial, x.mem.previous)

(* All of it, for a call that is under way. *)
CallKept(x) ==
  /\ IsRecord(x.op, x.mem) /\ CallFits(x) /\ CallFitsFile(x)
  /\ x.was = "none" => IsLive(x.op, x.mem)
  /\ MishapTotal = 0 => Untroubled(x)
  /\ x.was # "none" \/ x.at = "catch" => MishapTotal >= 1
  /\ MishapTotal <= 1 => (BeforeUndo(x) => ~OwnerUndid(x.op)) /\ Reverted(x)

(* What SettledIsEverywhere says, of one operation. *)
IsSettled(o) ==
  (MishapTotal <= 1 \/ ~OwnerUndid(o)) =>
    /\ ops[o].phase = "committed" => IsEverywhere(ops[o], o)
    /\ ops[o].phase = "rolled_back" => IsEverywhere(ops[o], ops[o].previous)

(* Nothing is open, and no call works on an operation that was begun. *)
AtRest == (~CallUnderWay \/ ops[call.op].phase = "none") /\ \A o \in Op : ~IsOpen(o)
LastIsSettled == AtRest /\ last # "none" => IsSettled(last)

RotationInv == RotationTypes /\ OneOpen /\ Fresh /\ OperationFiles /\ (CallUnderWay => CallKept(call)) /\ LastIsSettled

-----------------------------------------------------------------------------
LEMMA RotationParts ==
  ASSUME RotationInv
  PROVE  /\ RotationTypes /\ OneOpen /\ Fresh /\ OperationFiles /\ RotationWorld
         /\ CallUnderWay => CallKept(call)
         /\ LastIsSettled
BY DEF RotationInv, RotationTypes

LEMMA AtWork ==
  ASSUME RotationInv, CallUnderWay
  PROVE  /\ IsCall(call) /\ CallKept(call) /\ call.op \in Op /\ IsOp(mem) /\ IsOp(ops[call.op])
         /\ \A o \in Op \ {call.op} : ~IsOpen(o)
BY RotationParts DEF RotationTypes, IsCall, mem, OneOpen

(* What a step of a call makes of it. *)
LEMMA CallMoved ==
  ASSUME RotationInv, CallUnderWay, NEW to, CallGoes(to)
  PROVE  call' = [at |-> to, op |-> call.op, then |-> call.then, mem |-> mem, was |-> call.was]
BY AtWork DEF CallGoes, IsCall, mem

LEMMA CallSaved ==
  ASSUME RotationInv, CallUnderWay, NEW m, NEW to, SavesOp(m, to)
  PROVE  call' = [at |-> "write", op |-> call.op, then |-> to, mem |-> m, was |-> call.was]
BY AtWork DEF SavesOp, IsCall, mem

LEMMA CallThrown ==
  ASSUME RotationInv, CallUnderWay, Throws
  PROVE  \E to \in {"catch", "blocked"} :
           /\ to = "catch" <=> call.was = "none"
           /\ call' = [at |-> to, op |-> call.op, then |-> call.then, mem |-> mem, was |-> call.was]
<1>1. CallGoes(IF Undoing THEN "blocked" ELSE "catch")
  BY DEF Throws
<1>2. CASE Undoing
  <2>1. CallGoes("blocked")
    BY <1>1, <1>2
  <2> QED
    BY <1>2, <2>1, CallMoved DEF Undoing
<1>3. CASE ~Undoing
  <2>1. CallGoes("catch")
    BY <1>1, <1>3
  <2> QED
    BY <1>3, <2>1, CallMoved DEF Undoing
<1> QED
  BY <1>2, <1>3

LEMMA FaultCounts ==
  ASSUME RotationWorld, Fault
  PROVE  /\ mishaps' = [crashes |-> mishaps'.crashes, faults |-> mishaps'.faults]
         /\ mishaps'.crashes = mishaps.crashes /\ mishaps'.faults \in Nat /\ mishaps'.crashes \in Nat
         /\ MishapTotal \in Nat /\ MishapTotal' = MishapTotal + 1
BY DEF RotationWorld, Fault, MishapTotal

(* The counts of a step, and the consumers when it leaves them alone. *)
MishapsCount ==
  /\ mishaps' = [crashes |-> mishaps'.crashes, faults |-> mishaps'.faults]
  /\ mishaps'.crashes = mishaps.crashes /\ mishaps'.faults \in Nat /\ mishaps'.crashes \in Nat
  /\ MishapTotal \in Nat /\ MishapTotal' \in Nat /\ MishapTotal' >= MishapTotal

LEMMA CountsKept ==
  ASSUME RotationWorld, UNCHANGED mishaps \/ Fault
  PROVE  MishapsCount
<1>1. CASE UNCHANGED mishaps
  BY <1>1 DEF RotationWorld, MishapsCount, MishapTotal
<1>2. CASE Fault
  BY <1>2, FaultCounts DEF MishapsCount
<1> QED
  BY <1>1, <1>2

LEMMA SettledStays ==
  ASSUME NEW o \in Op, IsSettled(o), UNCHANGED <<ops, outside>>, MishapsCount
  PROVE  IsSettled(o)'
BY DEF IsSettled, IsEverywhere, MishapsCount, OwnerUndid, outside

-----------------------------------------------------------------------------
(* A step within a call that writes no file. *)
Traces ==
  /\ ownerRuns \subseteq ownerRuns'
  /\ \A o \in Op \ {call.op} : (OwnerDid(o)' => OwnerDid(o)) /\ (OwnerUndid(o)' => OwnerUndid(o))
  /\ broker' \in {broker, call.op, mem.previous}

LEMMA BusyStep ==
  ASSUME RotationInv, CallUnderWay, UNCHANGED <<ops, last>>, NEW x, call' = x, IsCall(x), x.op = call.op,
         MishapsCount, RotationWorld', Traces, x.mem.previous \in {mem.previous, broker},
         CallKept(x)', IsOpen(call.op) => IsLive(call.op, ops[call.op])',
         ops[call.op].phase = "none" => UNCHANGED outside
  PROVE  RotationInv'
<1>0. /\ RotationTypes /\ OneOpen /\ Fresh /\ OperationFiles /\ LastIsSettled
      /\ call.op \in Op /\ \A o \in Op \ {call.op} : ~IsOpen(o)
  BY RotationParts, AtWork
<1>1. CallUnderWay' /\ call'.op = call.op /\ mem' = x.mem
  BY DEF CallUnderWay, CallIsAt, IsCall, mem
<1>2. RotationTypes'
  BY <1>0, <1>1 DEF RotationTypes, IsCall, IsOp
<1>3. \A o \in Op : IsOpen(o)' = IsOpen(o)
  BY DEF IsOpen
<1>4. OneOpen'
  BY <1>0, <1>1, <1>3 DEF OneOpen
<1>5. Fresh'
  <2> SUFFICES ASSUME NEW o \in Op, ops[o].phase = "none"
               PROVE  /\ broker' # o /\ ~OwnerDid(o)' /\ ~OwnerUndid(o)'
                      /\ \A p \in Op : ops[p].previous # o
                      /\ x.mem.previous # o
    BY <1>1 DEF Fresh
  <2>1. broker # o /\ ~OwnerDid(o) /\ ~OwnerUndid(o) /\ (\A p \in Op : ops[p].previous # o) /\ mem.previous # o
    BY <1>0 DEF Fresh
  <2>2. CASE o = call.op
    BY <2>1, <2>2 DEF outside, OwnerDid, OwnerUndid
  <2>3. CASE o # call.op
    BY <2>1, <2>3 DEF Traces
  <2> QED
    BY <2>2, <2>3
<1>6. OperationFiles'
  <2> SUFFICES ASSUME NEW o \in Op
               PROVE  /\ IsRecord(o, ops[o])' /\ (IsOpen(o) => IsLive(o, ops[o])')
                      /\ (IsOpen(o) /\ (CallUnderWay' => call.op # o) => FALSE)
    BY <1>1, <1>3 DEF OperationFiles
  <2>1. IsRecord(o, ops[o])
    BY <1>0 DEF OperationFiles
  <2>2. IsRecord(o, ops[o])'
    BY <2>1 DEF IsRecord, Traces, OwnerDid, OwnerUndid
  <2> QED
    BY <1>0, <1>1, <2>2
<1>7. LastIsSettled'
  <2> SUFFICES ASSUME AtRest', last # "none" PROVE IsSettled(last)'
    BY DEF LastIsSettled
  <2>1. ops[call.op].phase = "none" /\ \A o \in Op : ~IsOpen(o)
    BY <1>1, <1>3 DEF AtRest
  <2>2. IsSettled(last) /\ last \in Op
    BY <1>0, <2>1 DEF LastIsSettled, AtRest, RotationTypes
  <2> QED
    BY <2>1, <2>2, SettledStays
<1>8. CallKept(call)'
  OBVIOUS
<1> QED
  BY <1>2, <1>4, <1>5, <1>6, <1>7, <1>8 DEF RotationInv

LEMMA OutsideStays ==
  ASSUME RotationWorld, UNCHANGED outside, MishapsCount
  PROVE  /\ RotationWorld' /\ broker' = broker /\ owner' = owner
         /\ \A o, m : (IsRecord(o, m)' <=> IsRecord(o, m)) /\ (IsLive(o, m)' <=> IsLive(o, m))
         /\ \A x : Reverted(x)' <=> Reverted(x)
         /\ \A o : (OwnerUndid(o)' <=> OwnerUndid(o)) /\ (OwnerDid(o)' <=> OwnerDid(o))
<1>1. RotationWorld' /\ broker' = broker /\ owner' = owner /\ ownerRuns' = ownerRuns /\ consumers' = consumers
  BY DEF outside, RotationWorld, MishapsCount
<1>2. \A C, v : Follow(C, v)' <=> Follow(C, v)
  BY <1>1 DEF Follow, MishapsCount
<1> QED
  BY <1>1, <1>2 DEF IsRecord, IsLive, Reverted, OwnerUndid, OwnerDid

(* One that leaves the world outside the call alone. *)
LEMMA QuietCallStep ==
  ASSUME RotationInv, CallUnderWay, UNCHANGED <<ops, last, outside>>, MishapsCount,
         NEW x, call' = x, IsCall(x), x.op = call.op,
         x.mem.previous \in {mem.previous, broker}, x.mem.initial = mem.initial,
         IsRecord(x.op, x.mem), CallFits(x), CallFitsFile(x), x.was = "none" => IsLive(x.op, x.mem),
         MishapTotal' = 0 => x.was = "none" /\ x.at # "catch" /\ (x.mem.phase \in Early => mem.phase \in Early),
         x.was # "none" \/ x.at = "catch" => MishapTotal' >= 1,
         BeforeUndo(x) => BeforeUndo(call),
         MishapTotal' <= 1 => Reverted(x)
  PROVE  RotationInv'
<1>0. CallKept(call) /\ OperationFiles /\ RotationWorld /\ call.op \in Op
  BY RotationParts, AtWork
<1>1. /\ RotationWorld' /\ broker' = broker
      /\ \A o, m : (IsRecord(o, m)' <=> IsRecord(o, m)) /\ (IsLive(o, m)' <=> IsLive(o, m))
      /\ Reverted(x)' <=> Reverted(x)
      /\ \A o : (OwnerUndid(o)' <=> OwnerUndid(o)) /\ (OwnerDid(o)' <=> OwnerDid(o))
  BY <1>0, OutsideStays
<1>2. Traces
  BY <1>1 DEF Traces, outside
<1>3. CallFitsFile(x)'
  BY <1>1 DEF CallFitsFile
<1>4. MishapTotal' = 0 => Untroubled(x)'
  <2> SUFFICES ASSUME MishapTotal' = 0 PROVE Untroubled(x)'
    OBVIOUS
  <2>1. MishapTotal = 0 /\ Untroubled(call)
    BY <1>0 DEF MishapsCount, CallKept
  <2> QED
    BY <1>1, <2>1 DEF Untroubled, outside, mem
<1>5. MishapTotal' <= 1 => (BeforeUndo(x) => ~OwnerUndid(x.op)')
  <2> SUFFICES ASSUME MishapTotal' <= 1, BeforeUndo(x) PROVE ~OwnerUndid(x.op)
    BY <1>1
  <2>1. MishapTotal <= 1
    BY DEF MishapsCount
  <2> QED
    BY <1>0, <2>1 DEF CallKept
<1>6. CallKept(x)'
  BY <1>1, <1>3, <1>4, <1>5 DEF CallKept, CallFits, Forward, Back, Unactivated, BeforeUndo
<1>7. IsOpen(call.op) => IsLive(call.op, ops[call.op])'
  <2>1. IsOpen(call.op) => IsLive(call.op, ops[call.op])
    BY <1>0 DEF OperationFiles
  <2>2. IsLive(call.op, ops[call.op])' <=> IsLive(call.op, ops[call.op])
    BY <1>1, <2>1 DEF IsLive, Follow, outside, MishapsCount, OwnerUndid, OwnerDid
  <2> QED
    BY <2>1, <2>2
<1> QED
  BY <1>1, <1>2, <1>6, <1>7, BusyStep

-----------------------------------------------------------------------------
(* A step that throws. *)
MayThrow == call.at # "blocked" /\ ~(call.at = "write" /\ call.then = "idle" /\ call.was # "none"
                                     /\ mem.phase # "rolled_back")

LEMMA ThrowFits ==
  ASSUME RotationInv, CallUnderWay, call.at # "catch", MayThrow, NEW to, to \in {"catch", "blocked"},
         to = "catch" <=> call.was = "none",
         NEW x, x = [at |-> to, op |-> call.op, then |-> call.then, mem |-> mem, was |-> call.was]
  PROVE  /\ IsCall(x) /\ x.op = call.op /\ x.mem = mem /\ x.was = call.was /\ x.at = to
         /\ CallFits(x) /\ CallFitsFile(x) /\ (BeforeUndo(x) => BeforeUndo(call))
<1>0. CallKept(call) /\ call.op \in Op /\ IsOp(mem)
  BY AtWork
<1>1. x.op = call.op /\ x.mem = mem /\ x.was = call.was /\ x.at = to /\ x.then = call.then
  OBVIOUS
<1>2. IsCall(x)
  BY <1>0 DEF IsCall
<1>3. CallFits(x)
  <2>0. CallFits(call)
    BY <1>0 DEF CallKept
  <2>1. CASE call.was = "none"
    <3>1. mem.phase \in Early \cup Late \cup {"committed"}
      BY <2>0, <2>1 DEF CallFits, Forward, Early, Late, mem
    <3>2. Forward(x.at, x.then, x.mem) /\ x.was = "none"
      BY <1>1, <2>1, <3>1 DEF Forward
    <3> QED
      BY <3>2 DEF CallFits
  <2>2. CASE call.was = "activated"
    <3>1. mem.phase \in {"rolling_back", "rolled_back"}
      BY <2>0, <2>2 DEF CallFits, Back, MayThrow, mem
    <3>2. Back(x.at, x.then, x.mem) /\ x.was = "activated"
      BY <1>1, <2>2, <3>1 DEF Back
    <3> QED
      BY <3>2 DEF CallFits
  <2>3. CASE call.was = "not_activated"
    <3>1. mem.phase \in Early \cup {"committed"} /\ mem.ownerDone
      BY <2>0, <2>3 DEF CallFits, Unactivated, MayThrow, mem
    <3>2. Unactivated(x.at, x.then, x.mem) /\ x.was = "not_activated"
      BY <1>1, <2>3, <3>1 DEF Unactivated
    <3> QED
      BY <3>2 DEF CallFits
  <2>4. call.was \in {"none", "activated", "not_activated"}
    BY <2>0 DEF CallFits, MayThrow, mem
  <2> QED
    BY <2>1, <2>2, <2>3, <2>4
<1>4. CallFitsFile(x)
  <2>1. CallFitsFile(call) /\ CallFits(call)
    BY <1>0 DEF CallKept
  <2>2. ASSUME ops[call.op].phase = "none" PROVE call.was = "none"
    BY <2>1, <2>2 DEF CallFitsFile, CallFits, Back, Unactivated, MayThrow, mem
  <2>3. ops[call.op].phase = "none" => x.at = "catch"
    BY <1>1, <2>2
  <2> QED
    BY <1>1, <2>1, <2>3 DEF CallFitsFile, mem
<1>5. x.was # "failed"
  BY <1>0, <1>1 DEF CallKept, CallFits, MayThrow, mem
<1>6. BeforeUndo(x) => BeforeUndo(call)
  BY <1>1, <1>5 DEF BeforeUndo
<1> QED
  BY <1>1, <1>2, <1>3, <1>4, <1>6

LEMMA ThrowStep ==
  ASSUME RotationInv, CallUnderWay, call.at # "catch", MayThrow, Throws, UNCHANGED <<ops, last, owner, ownerRuns>>,
         Fault \/ (UNCHANGED mishaps /\ MishapTotal >= 1), RotationWorld', broker' \in {broker, call.op, mem.previous},
         ops[call.op].phase = "none" => UNCHANGED outside,
         call.was = "none" => IsLive(call.op, mem)',
         IsOpen(call.op) => IsLive(call.op, ops[call.op])'
  PROVE  RotationInv'
<1>0. CallKept(call) /\ RotationWorld
  BY RotationParts, AtWork
<1>1. PICK to \in {"catch", "blocked"} :
           /\ to = "catch" <=> call.was = "none"
           /\ call' = [at |-> to, op |-> call.op, then |-> call.then, mem |-> mem, was |-> call.was]
  BY CallThrown
<1>2. PICK x : x = [at |-> to, op |-> call.op, then |-> call.then, mem |-> mem, was |-> call.was]
  OBVIOUS
<1>3. /\ IsCall(x) /\ x.op = call.op /\ x.mem = mem /\ x.was = call.was /\ x.at = to
      /\ CallFits(x) /\ CallFitsFile(x) /\ (BeforeUndo(x) => BeforeUndo(call))
  BY <1>1, <1>2, ThrowFits
<1>4. call' = x
  BY <1>1, <1>2
<1>5. MishapsCount /\ MishapTotal' >= 1 /\ MishapTotal' >= MishapTotal
  <2>1. CASE Fault
    BY <1>0, <2>1, FaultCounts DEF MishapsCount
  <2>2. CASE UNCHANGED mishaps /\ MishapTotal >= 1
    <3>1. MishapsCount /\ MishapTotal' = MishapTotal
      BY <1>0, <2>2, CountsKept DEF MishapTotal
    <3> QED
      BY <2>2, <3>1 DEF MishapsCount
  <2> QED
    BY <2>1, <2>2
<1>6. Traces
  BY DEF Traces, OwnerDid, OwnerUndid
<1>7. CallKept(x)'
  <2>1. IsRecord(x.op, x.mem)'
    BY <1>0, <1>3 DEF CallKept, IsRecord, OwnerDid, OwnerUndid, mem
  <2>2. CallFits(x)' /\ CallFitsFile(x)'
    BY <1>3 DEF CallFits, Forward, Back, Unactivated, CallFitsFile, OwnerUndid
  <2>3. x.was = "none" => IsLive(x.op, x.mem)'
    BY <1>3, <1>4 DEF IsLive, Follow, mem
  <2>4. MishapTotal' <= 1 => (BeforeUndo(x) => ~OwnerUndid(x.op)')
    BY <1>0, <1>3, <1>5 DEF CallKept, OwnerUndid, MishapsCount
  <2>5. Reverted(x)'
    BY <1>1, <1>3 DEF Reverted
  <2>6. MishapTotal' # 0
    BY <1>5 DEF MishapsCount
  <2>7. BeforeUndo(x)' <=> BeforeUndo(x)
    BY DEF BeforeUndo
  <2> QED
    BY <1>5, <2>1, <2>2, <2>3, <2>4, <2>5, <2>6, <2>7 DEF CallKept
<1> QED
  BY <1>3, <1>4, <1>5, <1>6, <1>7, BusyStep

(* The same, when the world outside the call is left alone. *)
LEMMA QuietThrow ==
  ASSUME RotationInv, CallUnderWay, call.at # "catch", MayThrow, Throws, UNCHANGED <<ops, last, outside>>,
         Fault \/ (UNCHANGED mishaps /\ MishapTotal >= 1)
  PROVE  RotationInv'
<1>0. CallKept(call) /\ RotationWorld /\ OperationFiles /\ call.op \in Op
  BY RotationParts, AtWork
<1>1. MishapsCount
  BY <1>0, CountsKept
<1>2. /\ RotationWorld' /\ broker' = broker
      /\ \A o, m : IsLive(o, m)' <=> IsLive(o, m)
  BY <1>0, <1>1, OutsideStays
<1>3. call'.op = call.op /\ mem' = mem
  BY CallThrown DEF mem
<1>4. call.was = "none" => IsLive(call.op, mem)'
  <2>1. call.was = "none" => IsLive(call.op, mem)
    BY <1>0 DEF CallKept, mem
  <2> QED
    BY <1>1, <1>3, <2>1 DEF IsLive, Follow, outside, MishapsCount, OwnerUndid, OwnerDid
<1>5. IsOpen(call.op) => IsLive(call.op, ops[call.op])'
  <2>1. IsOpen(call.op) => IsLive(call.op, ops[call.op])
    BY <1>0 DEF OperationFiles
  <2> QED
    BY <1>1, <1>3, <2>1 DEF IsLive, Follow, outside, MishapsCount, OwnerUndid, OwnerDid
<1> QED
  BY <1>2, <1>4, <1>5, ThrowStep DEF outside

-----------------------------------------------------------------------------
(* The steps forward *)

LEMMA ForwardStep ==
  ASSUME RotationInv, CallUnderWay, call.was = "none", UNCHANGED <<ops, last, outside, mishaps>>,
         NEW at, NEW then, NEW m, IsOp(m), at \notin {"idle", "catch", "brokerRollback"},
         call' = [at |-> at, op |-> call.op, then |-> then, mem |-> m, was |-> call.was],
         m.previous \in {mem.previous, broker}, m.initial = mem.initial, mem.done \subseteq m.done,
         IsRecord(call.op, m), Forward(at, then, m), IsLive(call.op, m), m.phase \in Early => mem.phase \in Early,
         ops[call.op].phase # "none"
  PROVE  RotationInv'
<1> DEFINE x == [at |-> at, op |-> call.op, then |-> then, mem |-> m, was |-> call.was]
<1>0. CallKept(call) /\ call.op \in Op /\ RotationWorld
  BY RotationParts, AtWork
<1>1. x.at = at /\ x.op = call.op /\ x.then = then /\ x.mem = m /\ x.was = call.was
  OBVIOUS
<1> HIDE DEF x
<1>2. call' = x
  BY DEF x
<1>3. IsCall(x)
  BY <1>0, <1>1 DEF IsCall, x
<1>4. MishapsCount
  BY <1>0, CountsKept
<1>5. CallFits(x)
  BY <1>1 DEF CallFits
<1>6. CallFitsFile(x)
  <2>1. CallFitsFile(call)
    BY <1>0 DEF CallKept
  <2>2. ops[call.op].phase \notin Terminal
    BY <2>1 DEF CallFitsFile
  <2>3. m.phase \in Early => ops[call.op].phase \in Early
    BY <2>1 DEF CallFitsFile, mem
  <2>4. ops[call.op].done \subseteq m.done
    BY <2>1 DEF CallFitsFile, mem
  <2> QED
    BY <1>1, <2>2, <2>3, <2>4 DEF CallFitsFile
<1>7. BeforeUndo(x) => BeforeUndo(call)
  BY DEF BeforeUndo
<1>8. Reverted(x)
  BY <1>1 DEF Reverted
<1>9. IsRecord(x.op, x.mem) /\ IsLive(x.op, x.mem)
  BY <1>1
<1>10. ~(x.was # "none" \/ x.at = "catch")
  BY <1>1
<1>11. UNCHANGED <<ops, last, outside>>
  OBVIOUS
<1> QED
  BY <1>1, <1>2, <1>3, <1>4, <1>5, <1>6, <1>7, <1>8, <1>9, <1>10, <1>11, QuietCallStep

LEMMA OnItsWay ==
  ASSUME RotationInv, CallUnderWay, call.at \notin {"write", "catch"}, call.was = "none"
  PROVE  /\ CallKept(call) /\ IsRecord(call.op, mem) /\ Forward(call.at, call.then, mem) /\ IsLive(call.op, mem)
         /\ ops[call.op].phase # "none" /\ IsOpen(call.op) /\ IsOp(mem) /\ call.op \in Op
<1>0. CallKept(call) /\ call.op \in Op /\ IsOp(mem) /\ IsOp(ops[call.op])
  BY AtWork
<1>1. IsRecord(call.op, mem) /\ Forward(call.at, call.then, mem) /\ IsLive(call.op, mem)
  BY <1>0 DEF CallKept, CallFits, mem
<1>2. ops[call.op].phase # "none" /\ ops[call.op].phase \notin Terminal
  BY <1>0 DEF CallKept, CallFitsFile
<1>3. IsOpen(call.op)
  BY <1>0, <1>2 DEF IsOp, RotationPhases, IsOpen
<1> QED
  BY <1>0, <1>1, <1>2, <1>3

LEMMA PreviewKeeps ==
  ASSUME RotationInv, Preview
  PROVE  RotationInv'
<1>0. call.at = "preview" /\ CallUnderWay /\ UNCHANGED <<ops, last, outside>>
  BY DEF Preview, CallIsAt, CallUnderWay
<1>1. CASE Fault /\ Throws
  BY <1>0, <1>1, QuietThrow DEF MayThrow
<1>2. CASE call' = [call EXCEPT !.mem.previous = broker, !.at = "owner"] /\ UNCHANGED mishaps
  <2>1. call.was = "none"
    BY <1>0, AtWork DEF CallKept, CallFits, Back, Unactivated
  <2>2. /\ IsRecord(call.op, mem) /\ Forward(call.at, call.then, mem) /\ IsLive(call.op, mem)
        /\ ops[call.op].phase # "none" /\ IsOp(mem) /\ call.op \in Op
    BY <1>0, <2>1, OnItsWay
  <2>3. PICK m : m = [mem EXCEPT !.previous = broker]
    OBVIOUS
  <2>4. /\ IsOp(m) /\ m.previous = broker /\ m.initial = mem.initial /\ m.phase = mem.phase
        /\ m.ownerDone = mem.ownerDone /\ m.ownerUndone = mem.ownerUndone /\ m.done = mem.done
        /\ m.undone = mem.undone
    BY <2>2, <2>3 DEF IsOp
  <2>5. call' = [at |-> "owner", op |-> call.op, then |-> call.then, mem |-> m, was |-> call.was]
    BY <1>0, <1>2, <2>3, AtWork DEF IsCall, mem
  <2>6. IsRecord(call.op, m) /\ IsLive(call.op, m)
    BY <2>2, <2>4 DEF IsRecord, IsLive
  <2>7. Forward("owner", call.then, m) /\ m.phase = "planned"
    BY <1>0, <2>2, <2>4 DEF Forward
  <2> QED
    BY <1>0, <1>2, <2>1, <2>2, <2>4, <2>5, <2>6, <2>7, ForwardStep
<1> QED
  BY <1>1, <1>2 DEF Preview

LEMMA StageKeeps ==
  ASSUME RotationInv, StageVersion
  PROVE  RotationInv'
<1>0. call.at = "stage" /\ CallUnderWay /\ UNCHANGED <<ops, last, outside>>
  BY DEF StageVersion, CallIsAt, CallUnderWay
<1>1. CASE Fault /\ Throws
  BY <1>0, <1>1, QuietThrow DEF MayThrow
<1>2. CASE SavesOp([mem EXCEPT !.phase = "staged"], "stop") /\ UNCHANGED mishaps
  <2>1. call.was = "none"
    BY <1>0, AtWork DEF CallKept, CallFits, Back, Unactivated
  <2>2. /\ IsRecord(call.op, mem) /\ Forward(call.at, call.then, mem) /\ IsLive(call.op, mem)
        /\ ops[call.op].phase # "none" /\ IsOp(mem) /\ call.op \in Op
    BY <1>0, <2>1, OnItsWay
  <2>3. PICK m : m = [mem EXCEPT !.phase = "staged"]
    OBVIOUS
  <2>4. /\ IsOp(m) /\ m.previous = mem.previous /\ m.initial = mem.initial /\ m.phase = "staged"
        /\ m.ownerDone = mem.ownerDone /\ m.ownerUndone = mem.ownerUndone /\ m.done = mem.done
        /\ m.undone = mem.undone
    BY <2>2, <2>3 DEF IsOp, RotationPhases, OpenPhase, Early
  <2>5. call' = [at |-> "write", op |-> call.op, then |-> "stop", mem |-> m, was |-> call.was]
    BY <1>0, <1>2, <2>3, CallSaved
  <2>6. mem.phase = "planned" /\ mem.ownerDone
    BY <1>0, <2>2 DEF Forward
  <2>7. IsRecord(call.op, m) /\ IsLive(call.op, m)
    BY <2>2, <2>4, <2>6 DEF IsRecord, IsLive, Early, Late
  <2>8. Forward("write", "stop", m) /\ mem.phase \in Early
    BY <2>4, <2>6 DEF Forward, Early
  <2> QED
    BY <1>0, <1>2, <2>1, <2>2, <2>4, <2>5, <2>7, <2>8, ForwardStep
<1> QED
  BY <1>1, <1>2 DEF StageVersion

LEMMA ConsumersStoppedKeeps ==
  ASSUME RotationInv, ConsumersStopped
  PROVE  RotationInv'
<1>0. call.at = "stop" /\ CallUnderWay /\ UNCHANGED <<ops, last, outside, mishaps>>
      /\ SavesOp([mem EXCEPT !.phase = "consumers_stopped"], "activate")
  BY DEF ConsumersStopped, CallIsAt, CallUnderWay
<1>1. call.was = "none"
  BY <1>0, AtWork DEF CallKept, CallFits, Back, Unactivated
<1>2. /\ IsRecord(call.op, mem) /\ Forward(call.at, call.then, mem) /\ IsLive(call.op, mem)
      /\ ops[call.op].phase # "none" /\ IsOp(mem) /\ call.op \in Op
  BY <1>0, <1>1, OnItsWay
<1>3. PICK m : m = [mem EXCEPT !.phase = "consumers_stopped"]
  OBVIOUS
<1>4. /\ IsOp(m) /\ m.previous = mem.previous /\ m.initial = mem.initial /\ m.phase = "consumers_stopped"
      /\ m.ownerDone = mem.ownerDone /\ m.ownerUndone = mem.ownerUndone /\ m.done = mem.done
      /\ m.undone = mem.undone
  BY <1>2, <1>3 DEF IsOp, RotationPhases, OpenPhase, Early
<1>5. call' = [at |-> "write", op |-> call.op, then |-> "activate", mem |-> m, was |-> call.was]
  BY <1>0, <1>3, CallSaved
<1>6. mem.phase = "staged"
  BY <1>0, <1>2 DEF Forward
<1>7. IsRecord(call.op, m) /\ IsLive(call.op, m)
  BY <1>2, <1>4, <1>6 DEF IsRecord, IsLive, Early, Late
<1>8. Forward("write", "activate", m) /\ mem.phase \in Early
  BY <1>4, <1>6 DEF Forward, Early
<1> QED
  BY <1>0, <1>1, <1>2, <1>4, <1>5, <1>7, <1>8, ForwardStep

LEMMA ConvergingKeeps ==
  ASSUME RotationInv, Converging
  PROVE  RotationInv'
<1>0. call.at = "converging" /\ CallUnderWay /\ UNCHANGED <<ops, last, outside, mishaps>>
      /\ SavesOp([mem EXCEPT !.phase = "converging"], "converge")
  BY DEF Converging, CallIsAt, CallUnderWay
<1>1. call.was = "none"
  BY <1>0, AtWork DEF CallKept, CallFits, Back, Unactivated
<1>2. /\ IsRecord(call.op, mem) /\ Forward(call.at, call.then, mem) /\ IsLive(call.op, mem)
      /\ ops[call.op].phase # "none" /\ IsOp(mem) /\ call.op \in Op
  BY <1>0, <1>1, OnItsWay
<1>3. PICK m : m = [mem EXCEPT !.phase = "converging"]
  OBVIOUS
<1>4. /\ IsOp(m) /\ m.previous = mem.previous /\ m.initial = mem.initial /\ m.phase = "converging"
      /\ m.ownerDone = mem.ownerDone /\ m.ownerUndone = mem.ownerUndone /\ m.done = mem.done
      /\ m.undone = mem.undone
  BY <1>2, <1>3 DEF IsOp, RotationPhases, OpenPhase, Late
<1>5. call' = [at |-> "write", op |-> call.op, then |-> "converge", mem |-> m, was |-> call.was]
  BY <1>0, <1>3, CallSaved
<1>6. mem.phase \in Late
  BY <1>0, <1>2 DEF Forward
<1>7. IsRecord(call.op, m) /\ IsLive(call.op, m)
  BY <1>2, <1>4, <1>6 DEF IsRecord, IsLive, Early, Late
<1>8. Forward("write", "converge", m) /\ m.phase \notin Early
  BY <1>4, <1>6 DEF Forward, Early
<1> QED
  BY <1>0, <1>1, <1>2, <1>4, <1>5, <1>7, <1>8, ForwardStep

(* The owner takes the new version once, and keeps it while the operation goes forward. *)
LEMMA OwnerActionKeeps ==
  ASSUME RotationInv, RunOwnerAction
  PROVE  RotationInv'
<1>0. call.at = "owner" /\ CallUnderWay /\ UNCHANGED <<ops, broker, consumers, last>>
  BY DEF RunOwnerAction, CallIsAt, CallUnderWay
<1>1. call.was = "none"
  BY <1>0, AtWork DEF CallKept, CallFits, Back, Unactivated
<1>2. /\ IsRecord(call.op, mem) /\ Forward(call.at, call.then, mem) /\ IsLive(call.op, mem) /\ CallKept(call)
      /\ ops[call.op].phase # "none" /\ IsOp(mem) /\ call.op \in Op /\ RotationWorld /\ OperationFiles
      /\ IsOpen(call.op)
  BY <1>0, <1>1, OnItsWay, RotationParts
<1>3. mem.phase = "planned"
  BY <1>0, <1>2 DEF Forward
<1>4. CASE ~mem.ownerDone /\ Fault /\ Throws /\ UNCHANGED <<owner, ownerRuns>>
  BY <1>0, <1>4, QuietThrow DEF MayThrow, outside
<1>5. CASE mem.ownerDone /\ CallGoes("stage") /\ UNCHANGED <<owner, ownerRuns, mishaps>>
  <2>1. call' = [at |-> "stage", op |-> call.op, then |-> call.then, mem |-> mem, was |-> call.was]
    BY <1>0, <1>5, CallMoved
  <2>2. Forward("stage", call.then, mem) /\ mem.phase \in Early
    BY <1>3, <1>5 DEF Forward, Early
  <2>3. UNCHANGED <<ops, last, outside, mishaps>>
    BY <1>0, <1>5 DEF outside
  <2>4. PICK m : m = mem
    OBVIOUS
  <2> QED
    BY <1>0, <1>1, <1>2, <2>1, <2>2, <2>3, <2>4, ForwardStep
<1>6. CASE /\ ~mem.ownerDone /\ OwnerActs("owner", call.op) /\ SavesOp([mem EXCEPT !.ownerDone = TRUE], "stage")
           /\ UNCHANGED mishaps
  <2>1. PICK m : m = [mem EXCEPT !.ownerDone = TRUE]
    OBVIOUS
  <2>2. /\ IsOp(m) /\ m.previous = mem.previous /\ m.initial = mem.initial /\ m.phase = mem.phase
        /\ m.ownerDone /\ m.ownerUndone = mem.ownerUndone /\ m.done = mem.done /\ m.undone = mem.undone
    BY <1>2, <2>1 DEF IsOp
  <2>3. PICK x : x = [at |-> "write", op |-> call.op, then |-> "stage", mem |-> m, was |-> call.was]
    OBVIOUS
  <2>4. call' = x
    BY <1>0, <1>6, <2>1, <2>3, CallSaved
  <2>5. x.at = "write" /\ x.op = call.op /\ x.then = "stage" /\ x.mem = m /\ x.was = "none" /\ IsCall(x)
    BY <1>1, <1>2, <2>2, <2>3 DEF IsCall
  <2>6. /\ ownerRuns' = ownerRuns \cup {<<call.op, "owner">>}
        /\ owner' = IF OwnerDid(call.op) THEN owner ELSE call.op
    BY <1>6 DEF OwnerActs, OwnerDid
  <2>7. /\ OwnerDid(call.op)' /\ \A o : OwnerUndid(o)' = OwnerUndid(o)
        /\ \A o : o # call.op => OwnerDid(o)' = OwnerDid(o)
    BY <2>4, <2>5, <2>6 DEF OwnerDid, OwnerUndid
  <2>8. ~OwnerUndid(call.op) => owner' = call.op
    BY <1>2, <2>6 DEF IsLive
  <2>9. Traces
    BY <1>0, <2>6, <2>7 DEF Traces
  <2>10. MishapsCount /\ MishapTotal' = MishapTotal /\ RotationWorld'
    BY <1>0, <1>2, <1>6, CountsKept DEF MishapTotal, RotationWorld
  <2>11. IsRecord(x.op, x.mem)' /\ IsLive(x.op, x.mem)'
    BY <1>2, <1>3, <2>2, <2>5, <2>6, <2>7, <2>8 DEF IsRecord, IsLive, Early, Late, OwnerDid, OwnerUndid
  <2>12. CallFits(x)' /\ CallFitsFile(x)'
    <3>1. Forward("write", "stage", m)
      BY <1>3, <2>2 DEF Forward
    <3>2. CallFits(x)
      BY <2>5, <3>1 DEF CallFits
    <3>3. CallFitsFile(call) /\ ops[call.op].phase \in Early /\ x.mem.done = mem.done
      BY <1>2, <1>3, <2>2, <2>5 DEF CallFitsFile, CallKept, Early, mem
    <3>4. CallFitsFile(x)
      BY <1>1, <2>5, <3>3 DEF CallFitsFile, Early, Terminal, mem
    <3>5. CallFitsFile(x)'
      BY <1>0, <1>1, <2>5, <3>3, <3>4 DEF CallFitsFile, Early, Terminal
    <3> QED
      BY <3>2, <3>5 DEF CallFits, Forward, Back, Unactivated
  <2>13. MishapTotal' = 0 => Untroubled(x)'
    BY <1>0, <1>2, <1>3, <2>2, <2>5, <2>10 DEF CallKept, Untroubled, Early, mem
  <2>14. MishapTotal' <= 1 => (BeforeUndo(x) => ~OwnerUndid(x.op)') /\ Reverted(x)'
    BY <1>1, <1>2, <2>5, <2>7, <2>10 DEF CallKept, BeforeUndo, Reverted
  <2>15. CallKept(x)'
    BY <2>5, <2>11, <2>12, <2>13, <2>14 DEF CallKept, BeforeUndo
  <2>16. IsLive(call.op, ops[call.op])'
    <3>1. IsLive(call.op, ops[call.op])
      BY <1>2 DEF OperationFiles
    <3>2. UNCHANGED <<ops, broker, consumers, mishaps>> /\ call'.op = call.op
      BY <1>0, <1>6, <2>4, <2>5
    <3> QED
      BY <2>7, <2>8, <3>1, <3>2 DEF IsLive, Follow
  <2> QED
    BY <1>0, <1>2, <2>2, <2>4, <2>5, <2>9, <2>10, <2>15, <2>16, BusyStep
<1> QED
  BY <1>4, <1>5, <1>6 DEF RunOwnerAction

-----------------------------------------------------------------------------
(* A step that changes the broker or the consumers. *)
LEMMA WorldStep ==
  ASSUME RotationInv, CallUnderWay, UNCHANGED <<ops, last, ownerRuns, mishaps>>, broker' \in {broker, call.op, mem.previous},
         RotationWorld', NEW x, call' = x, IsCall(x), x.op = call.op, x.was = call.was, x.at # "catch",
         x.mem.previous = mem.previous, IsRecord(x.op, x.mem), CallFits(x), CallFitsFile(x),
         x.was = "none" => IsLive(x.op, x.mem)', IsOpen(call.op) => IsLive(call.op, ops[call.op])',
         MishapTotal = 0 => Untroubled(x)', BeforeUndo(x) => BeforeUndo(call), MishapTotal <= 1 => Reverted(x)',
         ops[call.op].phase # "none"
  PROVE  RotationInv'
<1>0. CallKept(call) /\ RotationWorld
  BY RotationParts, AtWork
<1>1. MishapsCount /\ MishapTotal' = MishapTotal
  BY <1>0, CountsKept DEF MishapTotal
<1>2. Traces
  BY DEF Traces, OwnerDid, OwnerUndid
<1>3. CallKept(x)'
  <2>1. IsRecord(x.op, x.mem)' /\ CallFits(x)' /\ CallFitsFile(x)'
    BY DEF IsRecord, CallFits, Forward, Back, Unactivated, CallFitsFile, OwnerDid, OwnerUndid
  <2>2. x.was # "none" => MishapTotal >= 1
    BY <1>0 DEF CallKept
  <2>3. MishapTotal <= 1 => (BeforeUndo(x) => ~OwnerUndid(x.op)')
    BY <1>0 DEF CallKept, OwnerUndid
  <2>4. BeforeUndo(x)' <=> BeforeUndo(x)
    BY DEF BeforeUndo
  <2> QED
    BY <1>1, <2>1, <2>2, <2>3, <2>4 DEF CallKept
<1> QED
  BY <1>1, <1>2, <1>3, BusyStep

LEMMA StopKeeps ==
  ASSUME RotationInv, NEW c \in Consumer, StopConsumer(c)
  PROVE  RotationInv'
<1>0. call.at = "stop" /\ CallUnderWay /\ UNCHANGED <<ops, broker, owner, ownerRuns, last>> /\ c \in Restarted
  BY DEF StopConsumer, CallIsAt, CallUnderWay, ToStop
<1>1. call.was = "none"
  BY <1>0, AtWork DEF CallKept, CallFits, Back, Unactivated
<1>2. /\ IsRecord(call.op, mem) /\ Forward(call.at, call.then, mem) /\ IsLive(call.op, mem) /\ CallKept(call)
      /\ ops[call.op].phase # "none" /\ IsOp(mem) /\ call.op \in Op /\ RotationWorld /\ OperationFiles
      /\ IsOpen(call.op)
  BY <1>0, <1>1, OnItsWay, RotationParts
<1>3. mem.phase = "staged"
  BY <1>0, <1>2 DEF Forward
<1>4. CASE Fault /\ Throws /\ UNCHANGED consumers
  BY <1>0, <1>4, QuietThrow DEF MayThrow, outside
<1>5. CASE /\ consumers' = [consumers EXCEPT ![c].up = FALSE] /\ UNCHANGED mishaps
           /\ SavesOp([mem EXCEPT !.stopped = @ \cup {c}], "stop")
  <2>1. PICK m : m = [mem EXCEPT !.stopped = @ \cup {c}]
    OBVIOUS
  <2>2. /\ IsOp(m) /\ m.previous = mem.previous /\ m.initial = mem.initial /\ m.phase = mem.phase
        /\ m.ownerDone = mem.ownerDone /\ m.ownerUndone = mem.ownerUndone /\ m.done = mem.done
        /\ m.undone = mem.undone
    BY <1>2, <2>1 DEF IsOp
  <2>3. PICK x : x = [at |-> "write", op |-> call.op, then |-> "stop", mem |-> m, was |-> call.was]
    OBVIOUS
  <2>4. call' = x
    BY <1>0, <1>5, <2>1, <2>3, CallSaved
  <2>5. x.at = "write" /\ x.op = call.op /\ x.then = "stop" /\ x.mem = m /\ x.was = "none" /\ IsCall(x)
    BY <1>1, <1>2, <2>2, <2>3 DEF IsCall
  <2>6. RotationWorld' /\ \A d \in Consumer : d # c => consumers'[d] = consumers[d]
    BY <1>2, <1>5 DEF RotationWorld
  <2>7. IsRecord(x.op, x.mem)
    BY <1>2, <2>2, <2>5 DEF IsRecord
  <2>8. Forward("write", "stop", m)
    BY <1>3, <2>2 DEF Forward
  <2>9. CallFits(x)
    BY <2>5, <2>8 DEF CallFits
  <2>10. CallFitsFile(call) /\ ops[call.op].phase \in Early
    BY <1>2, <1>3 DEF CallFitsFile, CallKept, Early, mem
  <2>11. CallFitsFile(x)
    BY <1>1, <2>2, <2>5, <2>10 DEF CallFitsFile, Early, Terminal, mem
  <2>12. IsLive(x.op, x.mem)'
    BY <1>0, <1>2, <1>3, <2>2, <2>4, <2>5 DEF IsLive, Late, OwnerDid, OwnerUndid
  <2>13. IsLive(call.op, ops[call.op])'
    <3>1. IsLive(call.op, ops[call.op])
      BY <1>2 DEF OperationFiles
    <3> QED
      BY <1>0, <2>4, <2>5, <2>10, <3>1 DEF IsLive, Early, Late, OwnerDid, OwnerUndid
  <2>14. MishapTotal = 0 => Untroubled(x)'
    BY <1>0, <1>2, <1>3, <2>2, <2>5, <2>6 DEF CallKept, Untroubled, mem, IsOp
  <2>15. Reverted(x)' /\ (BeforeUndo(x) => BeforeUndo(call))
    BY <1>1, <2>5 DEF Reverted, BeforeUndo
  <2>16. UNCHANGED <<ops, last, ownerRuns, mishaps>> /\ broker' = broker
    BY <1>0, <1>5
  <2> QED
    BY <1>0, <1>1, <1>2, <2>2, <2>4, <2>5, <2>6, <2>7, <2>9, <2>11, <2>12, <2>13, <2>14, <2>15, <2>16, WorldStep
<1> QED
  BY <1>4, <1>5 DEF StopConsumer

(* The version becomes active once, and the file has not said so before. *)
LEMMA ActivateKeeps ==
  ASSUME RotationInv, Activate
  PROVE  RotationInv'
<1>0. call.at = "activate" /\ CallUnderWay /\ UNCHANGED <<ops, owner, ownerRuns, consumers, last>>
  BY DEF Activate, CallIsAt, CallUnderWay
<1>1. call.was = "none"
  BY <1>0, AtWork DEF CallKept, CallFits, Back, Unactivated
<1>2. /\ IsRecord(call.op, mem) /\ Forward(call.at, call.then, mem) /\ IsLive(call.op, mem) /\ CallKept(call)
      /\ ops[call.op].phase # "none" /\ IsOp(mem) /\ call.op \in Op /\ RotationWorld /\ OperationFiles
      /\ IsOpen(call.op)
  BY <1>0, <1>1, OnItsWay, RotationParts
<1>3. mem.phase = "consumers_stopped" /\ mem.ownerDone
  BY <1>0, <1>2 DEF Forward, IsRecord
<1>4. CallFitsFile(call) /\ ops[call.op].phase \in Early
  BY <1>2, <1>3 DEF CallFitsFile, CallKept, Early, mem
<1>5. IsLive(call.op, ops[call.op])
  BY <1>2 DEF OperationFiles
<1>6. CASE Throws /\ (Fault \/ (UNCHANGED mishaps /\ broker = call.op)) /\ broker' \in {broker, call.op}
  <2>1. call'.op = call.op /\ mem' = mem
    BY <1>0, <1>6, CallThrown DEF mem
  <2>2. IsLive(call.op, mem)' /\ IsLive(call.op, ops[call.op])'
    BY <1>0, <1>2, <1>3, <1>4, <1>5, <2>1 DEF IsLive, Late, Early, OwnerDid, OwnerUndid
  <2>3. RotationWorld'
    <3>1. MishapsCount
      BY <1>2, <1>6, CountsKept
    <3> QED
      BY <1>0, <1>2, <3>1 DEF MishapsCount, RotationWorld
  <2>4. broker = call.op => MishapTotal >= 1
    <3>1. MishapTotal \in Nat
      BY <1>2 DEF RotationWorld, MishapTotal
    <3>2. MishapTotal = 0 => broker # call.op
      BY <1>2, <1>3 DEF CallKept, Untroubled, Early, mem
    <3> QED
      BY <3>1, <3>2
  <2>5. MayThrow
    BY <1>0 DEF MayThrow
  <2> QED
    BY <1>0, <1>2, <1>6, <2>2, <2>3, <2>4, <2>5, ThrowStep
<1>7. CASE SavesOp([mem EXCEPT !.phase = "activated"], "converging") /\ UNCHANGED mishaps /\ broker' = call.op
  <2>1. PICK m : m = [mem EXCEPT !.phase = "activated"]
    OBVIOUS
  <2>2. /\ IsOp(m) /\ m.previous = mem.previous /\ m.initial = mem.initial /\ m.phase = "activated"
        /\ m.ownerDone = mem.ownerDone /\ m.ownerUndone = mem.ownerUndone /\ m.done = mem.done
        /\ m.undone = mem.undone
    BY <1>2, <2>1 DEF IsOp, RotationPhases, OpenPhase, Late
  <2>3. PICK x : x = [at |-> "write", op |-> call.op, then |-> "converging", mem |-> m, was |-> call.was]
    OBVIOUS
  <2>4. call' = x
    BY <1>0, <1>7, <2>1, <2>3, CallSaved
  <2>5. x.at = "write" /\ x.op = call.op /\ x.then = "converging" /\ x.mem = m /\ x.was = "none" /\ IsCall(x)
    BY <1>1, <1>2, <2>2, <2>3 DEF IsCall
  <2>6. RotationWorld'
    BY <1>0, <1>2, <1>7 DEF RotationWorld
  <2>7. IsRecord(x.op, x.mem) /\ m.done = {}
    BY <1>2, <1>3, <2>2, <2>5 DEF IsRecord, Early
  <2>8. Forward("write", "converging", m)
    BY <2>2 DEF Forward
  <2>9. CallFits(x)
    BY <2>5, <2>8 DEF CallFits
  <2>10. CallFitsFile(x)
    BY <1>1, <1>4, <2>2, <2>5 DEF CallFitsFile, Early, Terminal, mem
  <2>11. IsLive(x.op, x.mem)'
    <3>1. Follow(m.done \cap m.initial, call.op)'
      BY <2>4, <2>5, <2>7 DEF Follow
    <3> QED
      BY <1>0, <1>2, <1>7, <2>2, <2>4, <2>5, <3>1 DEF IsLive, OwnerDid, OwnerUndid
  <2>12. IsLive(call.op, ops[call.op])'
    BY <1>0, <1>4, <1>5, <2>4, <2>5 DEF IsLive, Early, Late, OwnerDid, OwnerUndid
  <2>13. MishapTotal = 0 => Untroubled(x)'
    BY <1>0, <1>2, <2>2, <2>5 DEF CallKept, Untroubled, mem, Early
  <2>14. Reverted(x)' /\ (BeforeUndo(x) => BeforeUndo(call))
    BY <1>1, <2>5 DEF Reverted, BeforeUndo
  <2> QED
    BY <1>0, <1>1, <1>2, <1>7, <2>2, <2>4, <2>5, <2>6, <2>7, <2>9, <2>10, <2>11, <2>12, <2>13, <2>14, WorldStep
<1> QED
  BY <1>6, <1>7 DEF Activate

-----------------------------------------------------------------------------
(* The consumers, forward and back *)

(* Where a call that converges stands: going forward, or with the owner's action undone. *)
LEMMA AtConverge ==
  ASSUME RotationInv, call.at = "converge"
  PROVE  /\ CallUnderWay /\ CallKept(call) /\ IsRecord(call.op, mem) /\ CallFitsFile(call) /\ RotationWorld /\ OperationFiles
         /\ IsOp(mem) /\ call.op \in Op /\ ops[call.op].phase # "none"
         /\ \/ call.was = "none" /\ mem.phase = "converging" /\ IsLive(call.op, mem)
            \/ call.was = "activated" /\ mem.phase = "rolling_back" /\ mem.ownerUndone
            \/ /\ call.was = "not_activated" /\ mem.phase \in Early \cup {"committed"}
               /\ mem.ownerDone /\ mem.ownerUndone
<1>0. CallUnderWay
  BY DEF CallUnderWay, CallIsAt
<1>1. CallKept(call) /\ RotationWorld /\ OperationFiles /\ IsOp(mem) /\ call.op \in Op
  BY <1>0, AtWork, RotationParts
<1>2. IsRecord(call.op, mem) /\ CallFitsFile(call) /\ CallFits(call) /\ (call.was = "none" => IsLive(call.op, mem))
  BY <1>1 DEF CallKept, mem
<1>3. ops[call.op].phase # "none"
  BY <1>2 DEF CallFitsFile
<1>4. \/ call.was = "none" /\ mem.phase = "converging"
      \/ call.was = "activated" /\ mem.phase = "rolling_back" /\ mem.ownerUndone
      \/ /\ call.was = "not_activated" /\ mem.phase \in Early \cup {"committed"}
         /\ mem.ownerDone /\ mem.ownerUndone
  <2>1. CASE call.was = "none"
    BY <1>2, <2>1 DEF CallFits, Forward, mem
  <2>2. CASE call.was = "activated"
    BY <1>2, <2>2 DEF CallFits, Back, mem
  <2>3. CASE call.was = "not_activated"
    BY <1>2, <2>3 DEF CallFits, Unactivated, mem
  <2> QED
    BY <1>2, <2>1, <2>2, <2>3 DEF CallFits
<1> QED
  BY <1>0, <1>1, <1>2, <1>3, <1>4

LEMMA FollowStays ==
  ASSUME NEW C, NEW v, mishaps'.crashes = mishaps.crashes, \A d \in C : consumers'[d] = consumers[d], Follow(C, v)
  PROVE  Follow(C, v)'
BY DEF Follow

(* One more that uses the version. *)
LEMMA FollowGrows ==
  ASSUME NEW C, NEW v, NEW c, mishaps'.crashes = mishaps.crashes, \A d \in C : d # c => consumers'[d] = consumers[d],
         consumers'[c].up, consumers'[c].version = v, Follow(C, v)
  PROVE  Follow(C \cup {c}, v)'
BY DEF Follow

(* What a consumer that failed to follow leaves: it was not counted as one that does. *)
LEMMA ConvergeThrows ==
  ASSUME RotationInv, call.at = "converge", NEW c \in Consumer, c \notin Completed, c \in mem.initial,
         IF c \in Restarted \/ consumers[c].up THEN Fault ELSE UNCHANGED mishaps,
         consumers' \in {consumers, [consumers EXCEPT ![c].up = c \notin Restarted /\ @]},
         Throws, UNCHANGED <<ops, broker, owner, ownerRuns, last>>
  PROVE  RotationInv'
<1>0. /\ CallUnderWay /\ CallKept(call) /\ IsRecord(call.op, mem) /\ CallFitsFile(call) /\ RotationWorld /\ OperationFiles
      /\ IsOp(mem) /\ call.op \in Op /\ ops[call.op].phase # "none"
  BY AtConverge
<1>1. CASE call.was = "none"
  <2>1. mem.phase = "converging" /\ IsLive(call.op, mem) /\ c \notin mem.done
    BY <1>1, AtConverge DEF Completed, Undoing
  <2>2. MishapsCount
    BY <1>0, CountsKept
  <2>3. RotationWorld' /\ \A d \in Consumer : d # c => consumers'[d] = consumers[d]
    BY <1>0, <2>2 DEF RotationWorld, MishapsCount
  <2>4. call'.op = call.op /\ mem' = mem
    BY <1>0, CallThrown DEF mem
  <2>5. PICK o, m : o = call.op /\ m = mem
    OBVIOUS
  <2>6. IsLive(call.op, mem)'
    <3>1. ~OwnerUndid(o) => Follow(m.done \cap m.initial, o)'
      <4>1. ~OwnerUndid(o) => Follow(m.done \cap m.initial, o)
        BY <2>1, <2>5 DEF IsLive, Late
      <4>2. \A d \in m.done \cap m.initial : consumers'[d] = consumers[d]
        BY <1>0, <2>1, <2>3, <2>5 DEF IsOp
      <4> QED
        BY <2>2, <4>1, <4>2, FollowStays DEF MishapsCount
    <3>2. IsLive(o, m)'
      BY <2>1, <2>5, <3>1 DEF IsLive, OwnerDid, OwnerUndid
    <3> QED
      BY <2>4, <2>5, <3>2 DEF IsLive, Follow, OwnerDid, OwnerUndid
  <2>7. IsOpen(call.op) => IsLive(call.op, ops[call.op])'
    <3>1. IsOpen(o) => IsLive(o, ops[o])
      BY <1>0, <2>5 DEF OperationFiles
    <3>2. PICK C : C = ops[o].done \cap ops[o].initial
      OBVIOUS
    <3>3. \A d \in C : consumers'[d] = consumers[d]
      BY <1>0, <1>1, <2>1, <2>3, <2>5, <3>2, AtWork DEF IsOp, CallFitsFile, mem
    <3>4. Follow(C, o) => Follow(C, o)'
      BY <2>2, <3>3, FollowStays DEF MishapsCount
    <3> QED
      BY <2>4, <2>5, <3>1, <3>2, <3>4 DEF IsLive, OwnerDid, OwnerUndid
  <2>8. Fault \/ (UNCHANGED mishaps /\ MishapTotal >= 1)
    <3>1. MishapTotal \in Nat
      BY <1>0 DEF RotationWorld, MishapTotal
    <3>2. MishapTotal = 0 => \A d \in mem.initial \ Restarted : consumers[d].up
      BY <1>0 DEF CallKept, Untroubled, mem
    <3> QED
      BY <3>1, <3>2
  <2>9. MayThrow
    BY DEF MayThrow
  <2> QED
    BY <1>0, <1>1, <2>3, <2>6, <2>7, <2>8, <2>9, ThrowStep
<1>2. CASE call.was # "none"
  <2>1. OwnerUndid(call.op) /\ MishapTotal >= 1
    BY <1>0, <1>2, AtConverge DEF IsRecord, CallKept
  <2>2. MishapsCount
    BY <1>0, CountsKept
  <2>3. RotationWorld'
    BY <1>0, <2>2 DEF RotationWorld, MishapsCount
  <2>4. call'.op = call.op
    BY <1>0, CallThrown
  <2>5. IsLive(call.op, ops[call.op])'
    BY <2>1, <2>4 DEF IsLive, OwnerUndid
  <2>6. MayThrow
    BY DEF MayThrow
  <2> QED
    BY <1>0, <1>2, <2>1, <2>3, <2>5, <2>6, ThrowStep
<1> QED
  BY <1>1, <1>2

(* What a consumer that follows leaves. *)
LEMMA ConvergeDone ==
  ASSUME RotationInv, call.at = "converge", NEW c \in Consumer, c \notin Completed,
         consumers' = IF c \in mem.initial
                      THEN [consumers EXCEPT ![c] = [up |-> TRUE, version |-> broker]] ELSE consumers,
         SavesOp(Completes(c), "converge"), UNCHANGED <<ops, broker, owner, ownerRuns, last, mishaps>>
  PROVE  RotationInv'
<1>0. /\ CallUnderWay /\ CallKept(call) /\ IsRecord(call.op, mem) /\ CallFitsFile(call) /\ RotationWorld /\ OperationFiles
      /\ IsOp(mem) /\ call.op \in Op /\ ops[call.op].phase # "none"
  BY AtConverge
<1>1. PICK m : m = Completes(c)
  OBVIOUS
<1>2. /\ IsOp(m) /\ m.previous = mem.previous /\ m.initial = mem.initial /\ m.phase = mem.phase
      /\ m.ownerDone = mem.ownerDone /\ m.ownerUndone = mem.ownerUndone
      /\ m.done = IF Undoing THEN mem.done ELSE mem.done \cup {c}
      /\ m.undone = IF Undoing THEN mem.undone \cup {c} ELSE mem.undone
  BY <1>0, <1>1 DEF IsOp, Completes
<1>3. PICK x : x = [at |-> "write", op |-> call.op, then |-> "converge", mem |-> m, was |-> call.was]
  OBVIOUS
<1>4. call' = x
  BY <1>0, <1>1, <1>3, CallSaved
<1>5. x.at = "write" /\ x.op = call.op /\ x.then = "converge" /\ x.mem = m /\ x.was = call.was /\ IsCall(x)
  BY <1>0, <1>2, <1>3 DEF IsCall
<1>6. /\ RotationWorld' /\ \A d \in Consumer : d # c => consumers'[d] = consumers[d]
      /\ c \in mem.initial => consumers'[c].up /\ consumers'[c].version = broker
  BY <1>0 DEF RotationWorld
<1>7. PICK o, v, old, f : o = call.op /\ v = broker /\ old = mem /\ f = ops[o]
  OBVIOUS
<1>8. ASSUME NEW C, C \subseteq Consumer, Follow(C \cap old.initial, v)
      PROVE  Follow((C \cup {c}) \cap old.initial, v)'
  <2>1. CASE c \in old.initial
    <3>1. Follow((C \cap old.initial) \cup {c}, v)'
      BY <1>6, <1>7, <1>8, <2>1, FollowGrows
    <3>2. (C \cup {c}) \cap old.initial = (C \cap old.initial) \cup {c}
      BY <2>1
    <3> QED
      BY <3>1, <3>2
  <2>2. CASE c \notin old.initial
    <3>1. Follow(C \cap old.initial, v)'
      BY <1>7, <1>8, <2>2, FollowStays
    <3>2. (C \cup {c}) \cap old.initial = C \cap old.initial
      BY <2>2
    <3> QED
      BY <3>1, <3>2
  <2> QED
    BY <2>1, <2>2
<1>9. CASE call.was = "none"
  <2>1. mem.phase = "converging" /\ IsLive(call.op, mem) /\ ~Undoing
    BY <1>9, AtConverge DEF Undoing
  <2>2. IsRecord(x.op, x.mem)
    BY <1>0, <1>2, <1>5, <2>1 DEF IsRecord, Early
  <2>3. Forward("write", "converge", m)
    BY <1>2, <2>1 DEF Forward
  <2>4. CallFits(x)
    BY <1>5, <1>9, <2>3 DEF CallFits
  <2>5. CallFitsFile(x)
    BY <1>0, <1>2, <1>5, <1>9, <2>1 DEF CallFitsFile, Early, Terminal, mem
  <2>6. IsLive(x.op, x.mem)'
    <3>1. ~OwnerUndid(o) => v = o /\ Follow(old.done \cap old.initial, v)
      BY <1>7, <2>1 DEF IsLive, Late
    <3>2. ~OwnerUndid(o) => Follow((old.done \cup {c}) \cap old.initial, o)'
      BY <1>0, <1>7, <1>8, <3>1 DEF IsOp
    <3>3. m.done \cap m.initial = (old.done \cup {c}) \cap old.initial
      BY <1>2, <1>7, <2>1
    <3> QED
      BY <1>2, <1>5, <1>7, <2>1, <3>1, <3>2, <3>3 DEF IsLive, OwnerDid, OwnerUndid
  <2>7. IsOpen(call.op) => IsLive(call.op, ops[call.op])'
    <3>1. IsOpen(o) => IsLive(o, f)
      BY <1>0, <1>7 DEF OperationFiles
    <3>2. PICK C : C = f.done \cap f.initial
      OBVIOUS
    <3>3. \A d \in C : consumers'[d] = consumers[d]
      BY <1>0, <1>6, <1>7, <1>9, <2>1, <3>2, AtWork DEF IsOp, CallFitsFile, mem, Completed
    <3>4. Follow(C, o) => Follow(C, o)'
      BY <3>3, FollowStays
    <3> QED
      BY <1>4, <1>5, <1>7, <3>1, <3>2, <3>4 DEF IsLive, OwnerDid, OwnerUndid
  <2>8. MishapTotal = 0 => Untroubled(x)'
    BY <1>0, <1>2, <1>5, <1>6, <2>1, <1>9 DEF CallKept, Untroubled, mem, IsOp, Early
  <2>9. Reverted(x)' /\ (BeforeUndo(x) => BeforeUndo(call))
    BY <1>5, <1>9 DEF Reverted, BeforeUndo
  <2> QED
    BY <1>0, <1>2, <1>4, <1>5, <1>6, <2>2, <2>4, <2>5, <2>6, <2>7, <2>8, <2>9, WorldStep
<1>10. CASE call.was # "none"
  <2>1. /\ mem.ownerUndone /\ OwnerUndid(call.op) /\ Undoing /\ call.was \in {"activated", "not_activated"}
        /\ call.was = "activated" => mem.phase = "rolling_back"
    BY <1>0, <1>10, AtConverge DEF IsRecord, Undoing
  <2>2. IsRecord(x.op, x.mem)
    BY <1>0, <1>2, <1>5, <2>1 DEF IsRecord
  <2>3. CallFits(x)
    <3>1. CASE call.was = "activated"
      <4>1. Back("write", "converge", m)
        BY <1>2, <2>1, <3>1 DEF Back
      <4> QED
        BY <1>5, <3>1, <4>1 DEF CallFits
    <3>2. CASE call.was = "not_activated"
      <4>1. Unactivated("write", "converge", m)
        BY <1>2, <2>1, <3>2, AtConverge DEF Unactivated
      <4> QED
        BY <1>5, <3>2, <4>1 DEF CallFits
    <3> QED
      BY <2>1, <3>1, <3>2
  <2>4. CallFitsFile(x)
    BY <1>0, <1>2, <1>5, <1>10 DEF CallFitsFile, mem
  <2>5. IsLive(call.op, ops[call.op])'
    BY <1>4, <1>5, <2>1 DEF IsLive, OwnerUndid
  <2>6. MishapTotal <= 1 => Reverted(x)'
    <3>1. ASSUME MishapTotal <= 1, call.was = "activated"
          PROVE  broker = old.previous /\ owner = old.previous /\ Follow(m.undone \cap m.initial, old.previous)'
      <4>1. v = old.previous /\ owner = old.previous /\ Follow(old.undone \cap old.initial, v)
        BY <1>0, <1>7, <2>1, <3>1 DEF CallKept, Reverted, mem
      <4>2. Follow((old.undone \cup {c}) \cap old.initial, v)'
        BY <1>0, <1>7, <1>8, <4>1 DEF IsOp
      <4>3. m.undone \cap m.initial = (old.undone \cup {c}) \cap old.initial
        BY <1>2, <1>7, <2>1
      <4> QED
        BY <1>7, <4>1, <4>2, <4>3
    <3> QED
      BY <1>2, <1>5, <1>7, <3>1 DEF Reverted
  <2>7. MishapTotal = 0 => FALSE
    BY <1>0, <1>10 DEF CallKept
  <2>8. ~BeforeUndo(x)
    BY <1>5, <1>10, <2>1 DEF BeforeUndo
  <2> QED
    BY <1>0, <1>2, <1>4, <1>5, <1>6, <1>10, <2>2, <2>3, <2>4, <2>5, <2>6, <2>7, <2>8, WorldStep
<1> QED
  BY <1>9, <1>10

LEMMA ConvergeKeeps ==
  ASSUME RotationInv, NEW c \in Consumer, Converge(c)
  PROVE  RotationInv'
<1>1. call.at = "converge" /\ c \notin Completed
  BY DEF Converge, CallIsAt
<1> QED
  BY <1>1, ConvergeThrows, ConvergeDone DEF Converge

LEMMA ConvergedKeeps ==
  ASSUME RotationInv, Converged
  PROVE  RotationInv'
<1>0. call.at = "converge" /\ Completed = Consumer /\ UNCHANGED <<ops, outside, last, mishaps>>
  BY DEF Converged, CallIsAt
<1>1. /\ CallUnderWay /\ CallKept(call) /\ IsRecord(call.op, mem) /\ CallFitsFile(call) /\ RotationWorld /\ OperationFiles
      /\ IsOp(mem) /\ call.op \in Op /\ ops[call.op].phase # "none"
  BY <1>0, AtConverge
<1>2. MishapsCount /\ MishapTotal' = MishapTotal
  BY <1>0, <1>1, CountsKept DEF MishapTotal
<1>3. PICK phase \in {"committed", "rolled_back", "blocked"} :
        /\ SavesOp([mem EXCEPT !.phase = phase], "idle")
        /\ phase = "committed" <=> call.was = "none"
        /\ phase = "rolled_back" <=> call.was = "activated"
  <2>1. CASE call.was = "none"
    BY <2>1 DEF Converged, Undoing
  <2>2. CASE call.was = "activated"
    BY <2>2 DEF Converged, Undoing
  <2>3. CASE call.was \notin {"none", "activated"}
    BY <2>3 DEF Converged, Undoing
  <2> QED
    BY <2>1, <2>2, <2>3
<1>4. PICK m : m = [mem EXCEPT !.phase = phase]
  OBVIOUS
<1>5. /\ IsOp(m) /\ m.previous = mem.previous /\ m.initial = mem.initial /\ m.phase = phase
      /\ m.ownerDone = mem.ownerDone /\ m.ownerUndone = mem.ownerUndone
      /\ m.done = mem.done /\ m.undone = mem.undone
  BY <1>1, <1>4 DEF IsOp, RotationPhases, Terminal
<1>6. PICK x : x = [at |-> "write", op |-> call.op, then |-> "idle", mem |-> m, was |-> call.was]
  OBVIOUS
<1>7. call' = x
  BY <1>1, <1>3, <1>4, <1>6, CallSaved
<1>8. x.at = "write" /\ x.op = call.op /\ x.then = "idle" /\ x.mem = m /\ x.was = call.was /\ IsCall(x)
  BY <1>1, <1>5, <1>6 DEF IsCall
<1>9. /\ call.was = "none" => mem.done = Consumer /\ mem.phase = "converging" /\ IsLive(call.op, mem)
      /\ call.was = "activated" => mem.undone = Consumer /\ mem.phase = "rolling_back" /\ mem.ownerUndone
      /\ call.was \in {"none", "activated", "not_activated"}
  BY <1>0, AtConverge DEF Completed, Undoing
<1>10. IsRecord(x.op, x.mem)
  BY <1>1, <1>3, <1>5, <1>8, <1>9 DEF IsRecord, Early
<1>11. CallFits(x)
  <2>1. CASE call.was = "none"
    <3>1. Forward(x.at, x.then, x.mem) /\ x.was = "none"
      BY <1>3, <1>5, <1>8, <1>9, <2>1 DEF Forward
    <3> QED
      BY <3>1 DEF CallFits
  <2>2. CASE call.was = "activated"
    <3>1. Back(x.at, x.then, x.mem) /\ x.was = "activated"
      BY <1>3, <1>5, <1>8, <1>9, <2>2 DEF Back
    <3> QED
      BY <3>1 DEF CallFits
  <2>3. CASE call.was = "not_activated"
    <3>1. Unactivated(x.at, x.then, x.mem) /\ x.was = "not_activated"
      BY <1>3, <1>5, <1>8, <2>3 DEF Unactivated
    <3> QED
      BY <3>1 DEF CallFits
  <2> QED
    BY <1>9, <2>1, <2>2, <2>3
<1>12. CallFitsFile(x)
  BY <1>1, <1>3, <1>5, <1>8 DEF CallFitsFile, Early, mem
<1>13. x.was = "none" => IsLive(x.op, x.mem)
  BY <1>5, <1>8, <1>9 DEF IsLive, Late
<1>14. MishapTotal' = 0 => x.was = "none" /\ x.at # "catch" /\ (x.mem.phase \in Early => mem.phase \in Early)
  BY <1>1, <1>2, <1>3, <1>5, <1>8 DEF CallKept, Untroubled, Early
<1>15. x.was # "none" \/ x.at = "catch" => MishapTotal' >= 1
  BY <1>1, <1>2, <1>8 DEF CallKept
<1>16. BeforeUndo(x) => BeforeUndo(call)
  BY <1>8, <1>9 DEF BeforeUndo
<1>17. MishapTotal' <= 1 => Reverted(x)
  BY <1>0, <1>1, <1>2, <1>5, <1>8, <1>9 DEF CallKept, Reverted, mem
<1>18. UNCHANGED <<ops, last, outside>> /\ x.mem.previous = mem.previous /\ x.mem.initial = mem.initial
  BY <1>0, <1>5, <1>8
<1> QED
  BY <1>1, <1>2, <1>7, <1>8, <1>10, <1>11, <1>12, <1>13, <1>14, <1>15, <1>16, <1>17, <1>18, QuietCallStep

-----------------------------------------------------------------------------
(* Undoing *)

(* The handler of a call that failed. *)
LEMMA CatchKeeps ==
  ASSUME RotationInv, Catch
  PROVE  RotationInv'
<1>0. call.at = "catch" /\ Catches /\ UNCHANGED <<ops, outside, last, mishaps>> /\ CallUnderWay
  BY DEF Catch, CallIsAt, CallUnderWay
<1>1. /\ CallKept(call) /\ IsRecord(call.op, mem) /\ CallFitsFile(call) /\ RotationWorld /\ MishapTotal >= 1
      /\ IsOp(mem) /\ call.op \in Op /\ CallFits(call) /\ IsCall(call)
  BY <1>0, AtWork, RotationParts DEF CallKept, mem
<1>2. call.was = "none" /\ mem.phase \in Early \cup Late \cup {"committed"}
  BY <1>0, <1>1 DEF CallFits, Forward, Back, Unactivated, mem
<1>3. MishapsCount /\ MishapTotal' = MishapTotal
  BY <1>0, <1>1, CountsKept DEF MishapTotal
<1>4. PICK was, at, then, m :
        /\ call' = [at |-> at, op |-> call.op, then |-> then, mem |-> m, was |-> was]
        /\ IsOp(m) /\ m.previous = mem.previous /\ m.initial = mem.initial
        /\ m.ownerDone = mem.ownerDone /\ m.ownerUndone = mem.ownerUndone
        /\ m.done = mem.done /\ m.undone = mem.undone
        /\ \/ /\ mem.phase \in Late /\ m.phase = "rolling_back" /\ was = "activated"
              /\ at = "write" /\ then = "brokerRollback"
           \/ /\ mem.phase \notin Late /\ mem.ownerDone /\ m.phase = mem.phase /\ was = "not_activated"
              /\ at = "ownerRollback"
           \/ /\ mem.phase \notin Late /\ ~mem.ownerDone /\ m.phase = mem.phase /\ was = "failed"
              /\ at = "write" /\ then = "idle"
  <2>1. CASE mem.phase \in Late
    <3>1. PICK m : m = [mem EXCEPT !.phase = "rolling_back"]
      OBVIOUS
    <3>2. call' = [call EXCEPT !.was = "activated", !.mem.phase = "rolling_back",
                               !.at = "write", !.then = "brokerRollback"]
      BY <1>0, <2>1 DEF Catches, Late
    <3>3. call' = [at |-> "write", op |-> call.op, then |-> "brokerRollback", mem |-> m, was |-> "activated"]
      BY <1>1, <3>1, <3>2 DEF IsCall, mem
    <3>4. /\ IsOp(m) /\ m.previous = mem.previous /\ m.initial = mem.initial /\ m.phase = "rolling_back"
          /\ m.ownerDone = mem.ownerDone /\ m.ownerUndone = mem.ownerUndone
          /\ m.done = mem.done /\ m.undone = mem.undone
      BY <1>1, <3>1 DEF IsOp, RotationPhases, OpenPhase
    <3> QED
      BY <2>1, <3>3, <3>4
  <2>2. CASE mem.phase \notin Late /\ mem.ownerDone
    <3>1. call' = [call EXCEPT !.was = "not_activated", !.at = "ownerRollback"]
      BY <1>0, <2>2 DEF Catches, Late
    <3>2. call' = [at |-> "ownerRollback", op |-> call.op, then |-> call.then, mem |-> mem, was |-> "not_activated"]
      BY <1>1, <3>1 DEF IsCall, mem
    <3> QED
      BY <1>1, <2>2, <3>2
  <2>3. CASE mem.phase \notin Late /\ ~mem.ownerDone
    <3>1. call' = [call EXCEPT !.was = "failed", !.at = "write", !.then = "idle"]
      BY <1>0, <2>3 DEF Catches, Late
    <3>2. call' = [at |-> "write", op |-> call.op, then |-> "idle", mem |-> mem, was |-> "failed"]
      BY <1>1, <3>1 DEF IsCall, mem
    <3> QED
      BY <1>1, <2>3, <3>2
  <2> QED
    BY <2>1, <2>2, <2>3
<1>5. PICK x : x = [at |-> at, op |-> call.op, then |-> then, mem |-> m, was |-> was]
  OBVIOUS
<1>6. call' = x
  BY <1>4, <1>5
<1>7. x.at = at /\ x.op = call.op /\ x.then = then /\ x.mem = m /\ x.was = was /\ IsCall(x)
  BY <1>1, <1>4, <1>5 DEF IsCall
<1>8. m.phase # "rolling_back" => m.phase = "planned" \/ m.ownerDone
  BY <1>1, <1>2, <1>4 DEF IsRecord, Early, Late
<1>9. IsRecord(x.op, x.mem)
  BY <1>1, <1>4, <1>7 DEF IsRecord, Early, Late
<1>10. CallFits(x)
  <2>1. CASE was = "activated"
    <3>1. Back(x.at, x.then, x.mem) /\ x.was = "activated"
      BY <1>4, <1>7, <2>1 DEF Back
    <3> QED
      BY <3>1 DEF CallFits
  <2>2. CASE was = "not_activated"
    <3>1. Unactivated(x.at, x.then, x.mem) /\ x.was = "not_activated"
      BY <1>2, <1>4, <1>7, <2>2 DEF Unactivated
    <3> QED
      BY <3>1 DEF CallFits
  <2>3. CASE was = "failed"
    <3>1. x.was = "failed" /\ x.at = "write" /\ x.then = "idle" /\ ~x.mem.ownerDone /\ x.mem.phase = mem.phase
      BY <1>4, <1>7, <2>3
    <3>2. x.mem.phase = "planned"
      BY <1>2, <1>4, <1>7, <1>8, <2>3 DEF Early, Late
    <3> QED
      BY <3>1, <3>2 DEF CallFits
  <2> QED
    BY <1>4, <2>1, <2>2, <2>3
<1>11. CallFitsFile(x)
  <2>1. ops[call.op].phase \notin Terminal
    BY <1>1, <1>2 DEF CallFitsFile
  <2>2. ops[call.op].phase = "none" => mem.phase = "planned" /\ ~mem.ownerDone
    BY <1>1 DEF CallFitsFile, mem
  <2>3. mem.phase \in Early => ops[call.op].phase \in Early \cup {"none"}
    BY <1>1 DEF CallFitsFile, mem
  <2> QED
    BY <1>4, <1>7, <2>1, <2>2, <2>3 DEF CallFitsFile, Early, Late
<1>12. x.was # "none" /\ (BeforeUndo(x) => BeforeUndo(call)) /\ Reverted(x)
  BY <1>2, <1>4, <1>7 DEF BeforeUndo, Reverted
<1>13. UNCHANGED <<ops, last, outside>> /\ x.mem.previous = mem.previous /\ x.mem.initial = mem.initial
  BY <1>0, <1>4, <1>7
<1>14. MishapTotal' >= 1 /\ MishapTotal' # 0
  BY <1>1, <1>3 DEF MishapsCount
<1> QED
  BY <1>0, <1>3, <1>6, <1>7, <1>9, <1>10, <1>11, <1>12, <1>13, <1>14, QuietCallStep

LEMMA BrokerRollbackKeeps ==
  ASSUME RotationInv, BrokerRollback
  PROVE  RotationInv'
<1>0. call.at = "brokerRollback" /\ UNCHANGED <<ops, owner, ownerRuns, consumers, last>> /\ CallUnderWay
  BY DEF BrokerRollback, CallIsAt, CallUnderWay
<1>1. /\ CallKept(call) /\ IsRecord(call.op, mem) /\ CallFitsFile(call) /\ RotationWorld /\ OperationFiles
      /\ IsOp(mem) /\ call.op \in Op /\ CallFits(call) /\ IsCall(call)
  BY <1>0, AtWork, RotationParts DEF CallKept, mem
<1>2. call.was = "activated" /\ mem.phase = "rolling_back"
  BY <1>0, <1>1 DEF CallFits, Forward, Back, Unactivated, mem
<1>3. ops[call.op].phase = "rolling_back"
  BY <1>0, <1>1 DEF CallFitsFile
<1>4. IsLive(call.op, ops[call.op])
  BY <1>1, <1>3 DEF OperationFiles, IsOpen, OpenPhase
<1>5. MishapTotal >= 1
  BY <1>1, <1>2 DEF CallKept
<1>6. CASE Throws /\ Fault /\ broker' \in {broker, mem.previous}
  <2>1. call'.op = call.op
    BY <1>0, <1>6, CallThrown
  <2>2. IsLive(call.op, ops[call.op])'
    BY <1>0, <1>3, <1>4, <2>1 DEF IsLive, Late, OwnerDid, OwnerUndid
  <2>3. RotationWorld'
    <3>1. MishapsCount
      BY <1>1, <1>6, CountsKept
    <3> QED
      BY <1>0, <1>1, <3>1 DEF MishapsCount, RotationWorld
  <2> QED
    BY <1>0, <1>2, <1>3, <1>6, <2>2, <2>3, ThrowStep DEF MayThrow
<1>7. CASE CallGoes("ownerRollback") /\ UNCHANGED mishaps /\ broker' = mem.previous
  <2>1. PICK x : x = [at |-> "ownerRollback", op |-> call.op, then |-> call.then, mem |-> mem, was |-> call.was]
    OBVIOUS
  <2>2. call' = x
    BY <1>0, <1>7, <2>1, CallMoved
  <2>3. /\ x.at = "ownerRollback" /\ x.op = call.op /\ x.then = call.then /\ x.mem = mem /\ x.was = "activated"
        /\ IsCall(x)
    BY <1>1, <1>2, <2>1 DEF IsCall
  <2>4. RotationWorld'
    BY <1>0, <1>1, <1>7 DEF RotationWorld
  <2>5. IsRecord(x.op, x.mem)
    BY <1>1, <2>3
  <2>6. Back(x.at, x.then, x.mem)
    BY <1>2, <2>3 DEF Back
  <2>7. CallFits(x)
    BY <2>3, <2>6 DEF CallFits
  <2>8. CallFitsFile(x)
    BY <1>2, <1>3, <2>3 DEF CallFitsFile, Early, Terminal
  <2>9. IsLive(call.op, ops[call.op])'
    BY <1>0, <1>3, <1>4, <2>2, <2>3 DEF IsLive, Late, OwnerDid, OwnerUndid
  <2>10. BeforeUndo(call) /\ MishapTotal # 0
    BY <1>0, <1>5 DEF BeforeUndo
  <2>11. Reverted(x)'
    BY <1>7, <2>3 DEF Reverted
  <2> QED
    BY <1>0, <1>2, <1>3, <1>7, <2>2, <2>3, <2>4, <2>5, <2>7, <2>8, <2>9, <2>10, <2>11, WorldStep
<1> QED
  BY <1>6, <1>7 DEF BrokerRollback

LEMMA BlockedKeeps ==
  ASSUME RotationInv, Blocked
  PROVE  RotationInv'
<1>0. call.at = "blocked" /\ UNCHANGED <<ops, outside, last, mishaps>> /\ CallUnderWay
      /\ SavesOp([mem EXCEPT !.phase = "blocked"], "idle")
  BY DEF Blocked, CallIsAt, CallUnderWay
<1>1. /\ CallKept(call) /\ IsRecord(call.op, mem) /\ CallFitsFile(call) /\ RotationWorld
      /\ IsOp(mem) /\ call.op \in Op /\ CallFits(call) /\ IsCall(call)
  BY <1>0, AtWork, RotationParts DEF CallKept, mem
<1>2. call.was \in {"activated", "not_activated"}
  BY <1>0, <1>1 DEF CallFits, Forward
<1>3. MishapsCount /\ MishapTotal' = MishapTotal /\ MishapTotal >= 1
  BY <1>0, <1>1, <1>2, CountsKept DEF MishapTotal, CallKept
<1>4. PICK m : m = [mem EXCEPT !.phase = "blocked"]
  OBVIOUS
<1>5. /\ IsOp(m) /\ m.previous = mem.previous /\ m.initial = mem.initial /\ m.phase = "blocked"
      /\ m.ownerDone = mem.ownerDone /\ m.ownerUndone = mem.ownerUndone
      /\ m.done = mem.done /\ m.undone = mem.undone
  BY <1>1, <1>4 DEF IsOp, RotationPhases, Terminal
<1>6. PICK x : x = [at |-> "write", op |-> call.op, then |-> "idle", mem |-> m, was |-> call.was]
  OBVIOUS
<1>7. call' = x
  BY <1>0, <1>4, <1>6, CallSaved
<1>8. x.at = "write" /\ x.op = call.op /\ x.then = "idle" /\ x.mem = m /\ x.was = call.was /\ IsCall(x)
  BY <1>1, <1>5, <1>6 DEF IsCall
<1>9. IsRecord(x.op, x.mem)
  BY <1>1, <1>5, <1>8 DEF IsRecord, Early
<1>10. Back(x.at, x.then, x.mem) /\ Unactivated(x.at, x.then, x.mem)
  BY <1>5, <1>8 DEF Back, Unactivated
<1>11. CallFits(x)
  BY <1>2, <1>8, <1>10 DEF CallFits
<1>12. CallFitsFile(x)
  BY <1>0, <1>1, <1>2, <1>5, <1>8 DEF CallFitsFile, Early
<1>13. Reverted(x) /\ ~BeforeUndo(x)
  BY <1>2, <1>5, <1>8 DEF Reverted, BeforeUndo
<1>14. UNCHANGED <<ops, last, outside>> /\ x.mem.previous = mem.previous /\ x.mem.initial = mem.initial
       /\ x.was # "none"
  BY <1>0, <1>2, <1>5, <1>8
<1> QED
  BY <1>0, <1>3, <1>7, <1>8, <1>9, <1>11, <1>12, <1>13, <1>14, QuietCallStep

(* The owner takes the previous version back once. *)
LEMMA OwnerRollbackKeeps ==
  ASSUME RotationInv, RunOwnerRollback
  PROVE  RotationInv'
<1>0. call.at = "ownerRollback" /\ UNCHANGED <<ops, broker, consumers, last>> /\ CallUnderWay
  BY DEF RunOwnerRollback, CallIsAt, CallUnderWay
<1>1. /\ CallKept(call) /\ IsRecord(call.op, mem) /\ CallFitsFile(call) /\ RotationWorld /\ OperationFiles
      /\ IsOp(mem) /\ call.op \in Op /\ CallFits(call) /\ IsCall(call)
  BY <1>0, AtWork, RotationParts DEF CallKept, mem
<1>2. \/ call.was = "activated" /\ mem.phase = "rolling_back"
      \/ call.was = "not_activated" /\ mem.phase \in Early \cup {"committed"}
  <2>1. ~Forward(call.at, call.then, mem) /\ (Back(call.at, call.then, mem) => mem.phase = "rolling_back")
    BY <1>0 DEF Forward, Back
  <2>2. Unactivated(call.at, call.then, mem) => mem.phase \in Early \cup {"committed"}
    BY <1>0 DEF Unactivated
  <2> QED
    BY <1>0, <1>1, <2>1, <2>2 DEF CallFits, mem
<1>3. mem.ownerDone
  BY <1>0, <1>1, <1>2 DEF CallFits, Unactivated, IsRecord, mem
<1>4. /\ MishapTotal >= 1 /\ MishapTotal \in Nat /\ ops[call.op].phase # "none" /\ BeforeUndo(call)
      /\ MishapTotal <= 1 => ~OwnerUndid(call.op)
  BY <1>0, <1>1, <1>2 DEF CallKept, CallFitsFile, BeforeUndo, RotationWorld, MishapTotal
<1>5. AfterOwner \in {"converge", "blocked"} /\ (call.was = "activated" => AfterOwner = "converge")
  BY DEF AfterOwner
<1>6. CASE mem.ownerDone /\ ~mem.ownerUndone /\ Fault /\ CallGoes("blocked") /\ UNCHANGED <<owner, ownerRuns>>
  <2>1. Throws
    BY <1>2, <1>6 DEF Throws, Undoing
  <2> QED
    BY <1>0, <1>6, <2>1, QuietThrow DEF MayThrow, outside
<1>7. CASE (mem.ownerDone => mem.ownerUndone) /\ CallGoes(AfterOwner) /\ UNCHANGED <<owner, ownerRuns, mishaps>>
  <2>1. mem.ownerUndone /\ OwnerUndid(call.op) /\ MishapTotal > 1
    BY <1>1, <1>3, <1>4, <1>7 DEF IsRecord
  <2>2. PICK x : x = [at |-> AfterOwner, op |-> call.op, then |-> call.then, mem |-> mem, was |-> call.was]
    OBVIOUS
  <2>3. call' = x
    BY <1>0, <1>7, <2>2, CallMoved
  <2>4. /\ x.at = AfterOwner /\ x.op = call.op /\ x.then = call.then /\ x.mem = mem /\ x.was = call.was
        /\ IsCall(x)
    BY <1>1, <1>5, <2>2 DEF IsCall
  <2>5. CallFits(x)
    <3>1. CASE call.was = "activated"
      <4>1. Back(x.at, x.then, x.mem) /\ x.was = "activated"
        BY <1>2, <1>5, <2>1, <2>4, <3>1 DEF Back
      <4> QED
        BY <4>1 DEF CallFits
    <3>2. CASE call.was = "not_activated"
      <4>1. Unactivated(x.at, x.then, x.mem) /\ x.was = "not_activated"
        BY <1>2, <1>3, <1>5, <2>1, <2>4, <3>2 DEF Unactivated
      <4> QED
        BY <4>1 DEF CallFits
    <3> QED
      BY <1>2, <3>1, <3>2
  <2>6. CallFitsFile(x)
    BY <1>1, <1>2, <1>4, <1>5, <2>4 DEF CallFitsFile, mem
  <2>7. MishapsCount /\ MishapTotal' = MishapTotal
    BY <1>1, <1>7, CountsKept DEF MishapTotal
  <2>8. ~(MishapTotal' <= 1) /\ MishapTotal' >= 1 /\ MishapTotal' # 0 /\ x.was # "none"
    BY <1>2, <1>4, <2>1, <2>4, <2>7
  <2>9. UNCHANGED <<ops, last, outside>>
    BY <1>0, <1>7 DEF outside
  <2>10. IsRecord(x.op, x.mem) /\ x.mem.previous = mem.previous /\ x.mem.initial = mem.initial
    BY <1>1, <2>4
  <2>11. BeforeUndo(x) => BeforeUndo(call)
    BY <1>4
  <2> QED
    BY <1>0, <2>3, <2>4, <2>5, <2>6, <2>7, <2>8, <2>9, <2>10, <2>11, QuietCallStep
<1>8. CASE /\ ~mem.ownerUndone /\ OwnerActs("rollback", mem.previous)
           /\ SavesOp([mem EXCEPT !.ownerUndone = TRUE], AfterOwner) /\ UNCHANGED mishaps
  <2>1. PICK m : m = [mem EXCEPT !.ownerUndone = TRUE]
    OBVIOUS
  <2>2. /\ IsOp(m) /\ m.previous = mem.previous /\ m.initial = mem.initial /\ m.phase = mem.phase
        /\ m.ownerDone /\ m.ownerUndone /\ m.done = mem.done /\ m.undone = mem.undone
    BY <1>1, <1>3, <2>1 DEF IsOp
  <2>3. PICK x : x = [at |-> "write", op |-> call.op, then |-> AfterOwner, mem |-> m, was |-> call.was]
    OBVIOUS
  <2>4. call' = x
    BY <1>0, <1>8, <2>1, <2>3, CallSaved
  <2>5. /\ x.at = "write" /\ x.op = call.op /\ x.then = AfterOwner /\ x.mem = m /\ x.was = call.was
        /\ IsCall(x)
    BY <1>1, <2>2, <2>3 DEF IsCall
  <2>6. /\ ownerRuns' = ownerRuns \cup {<<call.op, "rollback">>}
        /\ owner' = IF OwnerUndid(call.op) THEN owner ELSE mem.previous
    BY <1>8 DEF OwnerActs, OwnerUndid
  <2>7. /\ OwnerUndid(call.op)' /\ \A o : OwnerDid(o)' = OwnerDid(o)
        /\ \A o : o # call.op => OwnerUndid(o)' = OwnerUndid(o)
    BY <2>4, <2>5, <2>6 DEF OwnerDid, OwnerUndid
  <2>8. Traces
    BY <1>0, <2>6, <2>7 DEF Traces
  <2>9. MishapsCount /\ MishapTotal' = MishapTotal /\ RotationWorld'
    BY <1>0, <1>1, <1>8, CountsKept DEF MishapTotal, RotationWorld
  <2>10. IsRecord(x.op, x.mem)'
    <3>1. OwnerUndid(x.op)' /\ OwnerDid(x.op)'
      BY <1>1, <1>3, <2>5, <2>6 DEF IsRecord, OwnerDid, OwnerUndid
    <3> QED
      BY <1>1, <2>2, <2>5, <3>1 DEF IsRecord
  <2>11. CallFits(x)
    <3>1. CASE call.was = "activated"
      <4>1. Back(x.at, x.then, x.mem) /\ x.was = "activated"
        BY <1>2, <1>5, <2>2, <2>5, <3>1 DEF Back
      <4> QED
        BY <4>1 DEF CallFits
    <3>2. CASE call.was = "not_activated"
      <4>1. Unactivated(x.at, x.then, x.mem) /\ x.was = "not_activated"
        BY <1>2, <1>5, <2>2, <2>5, <3>2 DEF Unactivated
      <4> QED
        BY <4>1 DEF CallFits
    <3> QED
      BY <1>2, <3>1, <3>2
  <2>12. CallFitsFile(x)'
    <3>1. OwnerUndid(x.op)'
      BY <2>5, <2>6 DEF OwnerUndid
    <3>2. ops' = ops /\ last' = last
      BY <1>0
    <3> QED
      BY <1>1, <1>2, <1>4, <2>2, <2>5, <3>1, <3>2 DEF CallFitsFile, mem
  <2>13. MishapTotal' <= 1 => Reverted(x)'
    <3> SUFFICES ASSUME MishapTotal <= 1, call.was = "activated"
                 PROVE  Reverted(x)'
      BY <2>5, <2>9 DEF Reverted
    <3>1. broker = mem.previous /\ mem.undone = {}
      BY <1>0, <1>1, <1>8 DEF CallKept, Reverted, IsRecord, mem
    <3>2. broker' = x.mem.previous /\ owner' = x.mem.previous /\ x.mem.undone \cap x.mem.initial = {}
      BY <1>0, <1>4, <2>2, <2>5, <2>6, <3>1
    <3> QED
      BY <2>5, <3>2 DEF Reverted, Follow
  <2>14. ~BeforeUndo(x)
    BY <1>2, <1>5, <2>5 DEF BeforeUndo
  <2>15. CallKept(x)'
    <3>1. CallFits(x)' /\ ~BeforeUndo(x)' /\ MishapTotal' # 0 /\ MishapTotal' >= 1 /\ x.was # "none"
      BY <1>2, <1>4, <2>5, <2>9, <2>11, <2>14 DEF CallFits, Forward, Back, Unactivated, BeforeUndo
    <3> QED
      BY <2>10, <2>12, <2>13, <3>1 DEF CallKept
  <2>16. IsLive(call.op, ops[call.op])'
    BY <2>4, <2>5, <2>7 DEF IsLive, OwnerUndid
  <2> QED
    BY <1>0, <1>4, <2>2, <2>4, <2>5, <2>8, <2>9, <2>15, <2>16, BusyStep
<1> QED
  BY <1>6, <1>7, <1>8 DEF RunOwnerRollback

-----------------------------------------------------------------------------
(* The write of a call's copy *)

LEMMA AtWrite ==
  ASSUME RotationInv, call.at = "write"
  PROVE  /\ CallUnderWay /\ CallKept(call) /\ IsRecord(call.op, mem) /\ CallFitsFile(call) /\ CallFits(call) /\ IsCall(call)
         /\ RotationWorld /\ OperationFiles /\ OneOpen /\ Fresh /\ LastIsSettled /\ RotationTypes
         /\ IsOp(mem) /\ call.op \in Op /\ MishapTotal \in Nat /\ mem.phase # "none"
         /\ \A o \in Op \ {call.op} : ~IsOpen(o)
<1>0. CallUnderWay
  BY DEF CallUnderWay, CallIsAt
<1>1. /\ CallKept(call) /\ RotationWorld /\ OperationFiles /\ OneOpen /\ Fresh /\ LastIsSettled /\ RotationTypes
      /\ IsOp(mem) /\ call.op \in Op /\ IsCall(call) /\ \A o \in Op \ {call.op} : ~IsOpen(o)
  BY <1>0, AtWork, RotationParts
<1>2. IsRecord(call.op, mem) /\ CallFitsFile(call) /\ CallFits(call) /\ MishapTotal \in Nat
  BY <1>1 DEF CallKept, mem, RotationWorld, MishapTotal
<1>3. mem.phase # "none"
  <2>1. Forward(call.at, call.then, mem) => mem.phase # "none"
    BY DEF Forward, Early, Late
  <2>2. Back(call.at, call.then, mem) => mem.phase # "none"
    BY DEF Back
  <2>3. Unactivated(call.at, call.then, mem) => mem.phase # "none"
    BY DEF Unactivated, Early
  <2> QED
    BY <1>2, <2>1, <2>2, <2>3 DEF CallFits, mem
<1> QED
  BY <1>0, <1>1, <1>2, <1>3

(* What the files are after it, whatever the call does next. *)
IsWritten(o, m) ==
  /\ ops' = [p \in Op |-> ops'[p]] /\ ops'[o] = m /\ \A p \in Op \ {o} : ops'[p] = ops[p] /\ ~IsOpen(p)'
  /\ \A p \in Op : IsOp(ops[p])' /\ IsRecord(p, ops[p])'
  /\ \A p, q \in Op : IsOpen(p)' /\ IsOpen(q)' => p = q
  /\ \A p \in Op : ops'[p].phase = "none" =>
       /\ broker # p /\ ~OwnerDid(p) /\ ~OwnerUndid(p) /\ m.previous # p
       /\ \A q \in Op : ops'[q].previous # p
  /\ RotationWorld'

LEMMA FileWritten ==
  ASSUME RotationInv, call.at = "write", ops' = [ops EXCEPT ![call.op] = mem], UNCHANGED outside, UNCHANGED mishaps,
         NEW o, o = call.op, NEW m, m = mem
  PROVE  IsWritten(o, m)
<1>0. /\ CallUnderWay /\ IsRecord(call.op, mem) /\ RotationWorld /\ OperationFiles /\ Fresh /\ RotationTypes
      /\ IsOp(mem) /\ call.op \in Op /\ mem.phase # "none" /\ \A p \in Op \ {call.op} : ~IsOpen(p)
  BY AtWrite
<1>1. /\ ops' = [p \in Op |-> ops'[p]] /\ ops'[o] = m /\ \A p \in Op \ {o} : ops'[p] = ops[p]
      /\ \A p \in Op : IsOp(ops[p])
  BY <1>0 DEF RotationTypes
<1>2. \A p \in Op \ {o} : ~IsOpen(p)'
  BY <1>0, <1>1 DEF IsOpen
<1>3. \A p \in Op : IsOp(ops[p])'
  BY <1>0, <1>1 DEF IsOp
<1>4. \A p \in Op : IsRecord(p, ops[p])'
  <2> SUFFICES ASSUME NEW p \in Op PROVE IsRecord(p, ops[p])'
    OBVIOUS
  <2>1. IsRecord(p, ops'[p])
    BY <1>0, <1>1 DEF OperationFiles
  <2> QED
    BY <2>1 DEF IsRecord, OwnerDid, OwnerUndid, outside
<1>5. \A p, q \in Op : IsOpen(p)' /\ IsOpen(q)' => p = q
  BY <1>2
<1>6. ASSUME NEW p \in Op, ops'[p].phase = "none"
      PROVE  /\ broker # p /\ ~OwnerDid(p) /\ ~OwnerUndid(p) /\ m.previous # p
             /\ \A q \in Op : ops'[q].previous # p
  BY <1>0, <1>1, <1>6 DEF Fresh
<1>7. RotationWorld'
  BY <1>0 DEF RotationWorld, outside
<1> QED
  BY <1>1, <1>2, <1>3, <1>4, <1>5, <1>6, <1>7 DEF IsWritten

(* The file of a call that goes on. *)
LEMMA WrittenGoesOn ==
  ASSUME RotationInv, call.at = "write", call.then # "idle", ops' = [ops EXCEPT ![call.op] = mem],
         last' = IF mem.phase \in Terminal THEN call.op ELSE last, CallGoes(call.then),
         UNCHANGED mishaps, UNCHANGED outside
  PROVE  RotationInv'
<1>0. /\ CallUnderWay /\ CallKept(call) /\ IsRecord(call.op, mem) /\ CallFitsFile(call) /\ CallFits(call) /\ IsCall(call)
      /\ RotationWorld /\ OperationFiles /\ OneOpen /\ Fresh /\ LastIsSettled /\ RotationTypes
      /\ IsOp(mem) /\ call.op \in Op /\ MishapTotal \in Nat /\ mem.phase # "none"
      /\ \A o \in Op \ {call.op} : ~IsOpen(o)
  BY AtWrite
<1>1. PICK o, m : o = call.op /\ m = mem
  OBVIOUS
<1>2. /\ ops' = [p \in Op |-> ops'[p]] /\ ops'[o] = m /\ \A p \in Op \ {o} : ops'[p] = ops[p] /\ ~IsOpen(p)'
      /\ \A p \in Op : IsOp(ops[p])' /\ IsRecord(p, ops[p])'
      /\ \A p, q \in Op : IsOpen(p)' /\ IsOpen(q)' => p = q
      /\ \A p \in Op : ops'[p].phase = "none" =>
           /\ broker # p /\ ~OwnerDid(p) /\ ~OwnerUndid(p) /\ m.previous # p
           /\ \A q \in Op : ops'[q].previous # p
      /\ RotationWorld'
  <2>1. IsWritten(o, m)
    BY <1>1, FileWritten
  <2> QED
    BY <2>1 DEF IsWritten
<1>3. MishapsCount /\ MishapTotal' = MishapTotal
  BY <1>0, CountsKept DEF MishapTotal
<1>4. PICK x : x = [at |-> call.then, op |-> o, then |-> call.then, mem |-> m, was |-> call.was]
  OBVIOUS
<1>5. call' = x
  BY <1>0, <1>1, <1>4, CallMoved
<1>6. /\ x.at = call.then /\ x.op = o /\ x.then = call.then /\ x.mem = m /\ x.was = call.was /\ IsCall(x)
      /\ o \in Op
  BY <1>0, <1>1, <1>4 DEF IsCall
<1>7. CallUnderWay' /\ call'.op = o /\ mem' = m
  BY <1>5, <1>6 DEF CallUnderWay, CallIsAt, IsCall, mem
<1>8. \/ /\ x.was = "none" /\ Forward(x.at, x.then, m) /\ x.at \notin {"catch", "idle"} /\ m.phase \notin Terminal
         /\ x.at # "brokerRollback"
      \/ /\ x.was = "activated" /\ Back(x.at, x.then, m) /\ m.phase = "rolling_back"
         /\ x.at = "brokerRollback" \/ (x.at = "converge" /\ m.ownerUndone)
      \/ /\ x.was = "not_activated" /\ Unactivated(x.at, x.then, m) /\ x.at \in {"converge", "blocked"}
         /\ m.ownerUndone /\ m.phase \in Early \cup {"committed"}
  <2>1. ASSUME call.was = "none"
        PROVE  /\ Forward(x.at, x.then, m) /\ x.at \notin {"catch", "idle", "brokerRollback"}
               /\ m.phase \notin Terminal
    <3>1. Forward(call.at, call.then, m)
      BY <1>0, <1>1, <2>1 DEF CallFits, mem
    <3> QED
      BY <1>6, <3>1 DEF Forward, Terminal, Late
  <2>2. ASSUME call.was = "activated"
        PROVE  /\ Back(x.at, x.then, m) /\ m.phase = "rolling_back"
               /\ x.at = "brokerRollback" \/ (x.at = "converge" /\ m.ownerUndone)
    <3>1. Back(call.at, call.then, m)
      BY <1>0, <1>1, <2>2 DEF CallFits, mem
    <3> QED
      BY <1>6, <3>1 DEF Back
  <2>3. ASSUME call.was = "not_activated"
        PROVE  /\ Unactivated(x.at, x.then, m) /\ x.at \in {"converge", "blocked"}
               /\ m.ownerUndone /\ m.phase \in Early \cup {"committed"}
    <3>1. Unactivated(call.at, call.then, m)
      BY <1>0, <1>1, <2>3 DEF CallFits, mem
    <3> QED
      BY <1>6, <3>1 DEF Unactivated
  <2>4. call.was \in {"none", "activated", "not_activated"}
    BY <1>0 DEF CallFits
  <2> QED
    BY <1>6, <2>1, <2>2, <2>3, <2>4
<1>9. CallFits(x)
  BY <1>6, <1>8 DEF CallFits
<1>10. m.ownerUndone => OwnerUndid(o)
  BY <1>0, <1>1 DEF IsRecord
<1>11. IsLive(o, m)
  <2>1. CASE x.was = "none"
    BY <1>0, <1>1, <1>6, <2>1 DEF CallKept, mem
  <2>2. CASE m.ownerUndone
    BY <1>10, <2>2 DEF IsLive
  <2>3. CASE x.was = "activated" /\ m.phase = "rolling_back"
    <3>1. IsOpen(o)
      BY <1>0, <1>1, <1>6, <2>3, AtWork DEF CallFitsFile, IsOp, RotationPhases, IsOpen, mem
    <3>2. IsLive(o, ops[o])
      BY <1>6, <3>1, <1>0 DEF OperationFiles
    <3> QED
      BY <2>3, <3>2 DEF IsLive, Late
  <2> QED
    BY <1>8, <2>1, <2>2, <2>3
<1>12. IsLive(o, m)' /\ IsRecord(o, m)' /\ (Reverted(x)' <=> Reverted(x))
       /\ \A p : OwnerUndid(p)' <=> OwnerUndid(p)
  BY <1>0, <1>1, <1>3, <1>11, OutsideStays
<1>13. RotationTypes'
  <2>1. last' \in Op \cup {"none"} /\ (last' # "none" => ops'[last'].phase \in Terminal)
    <3>1. last \in Op \cup {"none"} /\ (last # "none" => ops[last].phase \in Terminal)
      BY <1>0 DEF RotationTypes
    <3>2. CASE m.phase \in Terminal
      BY <1>1, <1>2, <1>6, <3>2
    <3>3. CASE m.phase \notin Terminal
      <4>1. last' = last
        BY <1>1, <3>3
      <4>2. last # o
        <5>1. ops[o].phase \in Terminal => m.phase \in {"committed", "blocked"}
          BY <1>0, <1>1 DEF CallFitsFile, mem
        <5> QED
          BY <1>6, <3>1, <3>3, <5>1, OperationAssumption DEF Terminal
      <4> QED
        BY <1>2, <3>1, <4>1, <4>2
    <3> QED
      BY <3>2, <3>3
  <2>2. IsCall(call)'
    BY <1>5, <1>6 DEF IsCall, IsOp
  <2> QED
    BY <1>2, <1>7, <2>1, <2>2 DEF RotationTypes
<1>14. OneOpen'
  BY <1>2, <1>7 DEF OneOpen
<1>15. Fresh'
  BY <1>2, <1>7 DEF Fresh, OwnerDid, OwnerUndid, outside
<1>16. OperationFiles'
  <2> SUFFICES ASSUME NEW p \in Op
               PROVE  /\ IsRecord(p, ops[p])' /\ (IsOpen(p)' => IsLive(p, ops[p])')
                      /\ (IsOpen(p)' /\ (CallUnderWay' => call'.op # p) => FALSE)
    BY DEF OperationFiles
  <2>1. IsOpen(p)' => p = o
    BY <1>2
  <2>2. IsLive(o, ops[o])'
    BY <1>2, <1>12 DEF IsLive
  <2> QED
    BY <1>2, <1>7, <2>1, <2>2
<1>17. LastIsSettled'
  BY <1>0, <1>1, <1>2, <1>7 DEF LastIsSettled, AtRest
<1>18. CallKept(x)'
  <2>1. CallFitsFile(x)'
    <3>1. m.phase \in Terminal => /\ m.phase = "committed" /\ x.was = "not_activated" /\ OwnerUndid(o) /\ last' = o
      BY <1>1, <1>8, <1>10 DEF Terminal, Early
    <3>2. OwnerUndid(x.op)' <=> OwnerUndid(o)
      BY <1>6, <1>12
    <3>3. x.at = "brokerRollback" => m.phase = "rolling_back"
      BY <1>8
    <3> QED
      BY <1>0, <1>1, <1>2, <1>6, <3>1, <3>2, <3>3 DEF CallFitsFile
  <2>2. MishapTotal = 0 => Untroubled(x)'
    BY <1>0, <1>1, <1>6, <1>8 DEF CallKept, Untroubled, mem, outside
  <2>3. x.was # "none" \/ x.at = "catch" => MishapTotal >= 1
    BY <1>0, <1>6, <1>8 DEF CallKept
  <2>4. BeforeUndo(x) => BeforeUndo(call)
    BY <1>6, <1>8 DEF BeforeUndo
  <2>5. MishapTotal <= 1 => (BeforeUndo(x) => ~OwnerUndid(x.op)') /\ Reverted(x)'
    <3>1. MishapTotal <= 1 => (BeforeUndo(call) => ~OwnerUndid(o)) /\ Reverted(call)
      BY <1>0, <1>1 DEF CallKept
    <3>2. OwnerUndid(x.op)' <=> OwnerUndid(o)
      BY <1>6, <1>12
    <3>3. Reverted(call) => Reverted(x)
      BY <1>1, <1>6, <1>8 DEF Reverted, mem
    <3> QED
      BY <1>12, <2>4, <3>1, <3>2, <3>3
  <2>6. CallFits(x)' /\ (BeforeUndo(x)' <=> BeforeUndo(x))
    BY <1>9 DEF CallFits, Forward, Back, Unactivated, BeforeUndo
  <2>7. IsRecord(x.op, x.mem)' /\ IsLive(x.op, x.mem)'
    BY <1>6, <1>12
  <2> QED
    BY <1>3, <2>1, <2>2, <2>3, <2>5, <2>6, <2>7 DEF CallKept
<1>19. CallKept(call)'
  BY <1>5, <1>18
<1> QED
  BY <1>13, <1>14, <1>15, <1>16, <1>17, <1>19 DEF RotationInv

(* The last write of a call: what it settles is everywhere. *)
LEMMA WrittenEnds ==
  ASSUME RotationInv, call.at = "write", call.then = "idle", ops' = [ops EXCEPT ![call.op] = mem],
         last' = IF mem.phase \in Terminal THEN call.op ELSE last, call' = NoCall,
         UNCHANGED mishaps, UNCHANGED outside
  PROVE  RotationInv'
<1>0. /\ CallUnderWay /\ CallKept(call) /\ IsRecord(call.op, mem) /\ CallFitsFile(call) /\ CallFits(call) /\ IsCall(call)
      /\ RotationWorld /\ OperationFiles /\ OneOpen /\ Fresh /\ LastIsSettled /\ RotationTypes
      /\ IsOp(mem) /\ call.op \in Op /\ MishapTotal \in Nat /\ mem.phase # "none"
      /\ \A o \in Op \ {call.op} : ~IsOpen(o)
  BY AtWrite
<1>1. PICK o, m, was : o = call.op /\ m = mem /\ was = call.was
  OBVIOUS
<1>2. /\ ops' = [p \in Op |-> ops'[p]] /\ ops'[o] = m /\ \A p \in Op \ {o} : ops'[p] = ops[p] /\ ~IsOpen(p)'
      /\ \A p \in Op : IsOp(ops[p])' /\ IsRecord(p, ops[p])'
      /\ \A p, q \in Op : IsOpen(p)' /\ IsOpen(q)' => p = q
      /\ \A p \in Op : ops'[p].phase = "none" =>
           /\ broker # p /\ ~OwnerDid(p) /\ ~OwnerUndid(p) /\ m.previous # p
           /\ \A q \in Op : ops'[q].previous # p
      /\ RotationWorld'
  <2>1. IsWritten(o, m)
    BY <1>1, FileWritten
  <2> QED
    BY <2>1 DEF IsWritten
<1>3. MishapsCount /\ MishapTotal' = MishapTotal
  BY <1>0, CountsKept DEF MishapTotal
<1>4. ~CallUnderWay'
  BY DEF CallUnderWay, CallIsAt, NoCall
<1>5. /\ \/ was = "none" /\ m.phase = "committed" /\ m.done = Consumer
         \/ was = "activated" /\ m.phase = "rolled_back" /\ m.undone = Consumer
         \/ was \in {"activated", "not_activated"} /\ m.phase = "blocked"
         \/ was = "failed" /\ m.phase = "planned" /\ ~m.ownerDone
      /\ o \in Op
  <2>1. Forward(call.at, call.then, m) => m.phase = "committed" /\ m.done = Consumer
    BY DEF Forward
  <2>2. Back(call.at, call.then, m) => (m.phase = "rolled_back" /\ m.undone = Consumer) \/ m.phase = "blocked"
    BY DEF Back
  <2>3. Unactivated(call.at, call.then, m) => m.phase = "blocked"
    BY DEF Unactivated
  <2> QED
    BY <1>0, <1>1, <2>1, <2>2, <2>3 DEF CallFits, mem
<1>6. RotationTypes'
  <2>1. last \in Op \cup {"none"} /\ (last # "none" => ops[last].phase \in Terminal)
    BY <1>0 DEF RotationTypes
  <2>2. last' \in Op \cup {"none"} /\ (last' # "none" => ops'[last'].phase \in Terminal)
    <3>1. CASE m.phase \in Terminal
      BY <1>1, <1>2, <1>5, <3>1
    <3>2. CASE m.phase \notin Terminal
      <4>1. last' = last /\ was = "failed"
        BY <1>1, <1>5, <3>2 DEF Terminal
      <4>2. ops[o].phase \notin Terminal
        BY <1>0, <1>1, <4>1 DEF CallFitsFile
      <4> QED
        BY <1>2, <2>1, <4>1, <4>2
    <3> QED
      BY <3>1, <3>2
  <2> QED
    BY <1>2, <1>4, <2>2 DEF RotationTypes
<1>7. OneOpen'
  BY <1>2, <1>4 DEF OneOpen
<1>8. Fresh'
  BY <1>2, <1>4 DEF Fresh, OwnerDid, OwnerUndid, outside
<1>9. IsOpen(o)' => was = "failed" /\ m.phase = "planned"
  BY <1>2, <1>5 DEF IsOpen, OpenPhase, Early, Late
<1>10. OperationFiles'
  <2> SUFFICES ASSUME NEW p \in Op
               PROVE  /\ IsRecord(p, ops[p])'
                      /\ IsOpen(p)' => IsLive(p, ops[p])' /\ MishapTotal >= 1 /\ (MishapTotal <= 1 => ~OwnerUndid(p)')
    BY <1>3, <1>4 DEF OperationFiles
  <2>1. IsRecord(p, ops[p])'
    BY <1>2
  <2>2. ASSUME IsOpen(p)'
        PROVE  IsLive(p, ops[p])' /\ MishapTotal >= 1 /\ (MishapTotal <= 1 => ~OwnerUndid(p)')
    <3>1. p = o /\ was = "failed" /\ m.phase = "planned" /\ ~m.ownerDone
      BY <1>2, <1>5, <1>9, <2>2
    <3>2. MishapTotal >= 1 /\ (MishapTotal <= 1 => ~OwnerUndid(o))
      BY <1>0, <1>1, <3>1 DEF CallKept, BeforeUndo
    <3>3. IsLive(o, m)
      <4>1. CASE ops[o].phase = "none"
        BY <1>0, <1>1, <3>1, <4>1 DEF Fresh, IsLive, Late
      <4>2. CASE ops[o].phase # "none"
        <5>1. IsOpen(o)
          BY <1>0, <1>1, <3>1, <4>2, AtWork DEF CallFitsFile, IsOp, RotationPhases, IsOpen
        <5>2. IsLive(o, ops[o])
          BY <1>0, <1>5, <5>1 DEF OperationFiles
        <5> QED
          BY <3>1, <5>2 DEF IsLive, Late
      <4> QED
        BY <4>1, <4>2
    <3>4. IsLive(o, m)' /\ (OwnerUndid(o)' <=> OwnerUndid(o))
      BY <1>0, <1>3, <3>3, OutsideStays
    <3>5. IsLive(p, ops[p])' /\ (OwnerUndid(p)' <=> OwnerUndid(o))
      BY <1>2, <3>1, <3>4 DEF IsLive, OwnerUndid
    <3> QED
      BY <3>2, <3>5
  <2> QED
    BY <2>1, <2>2
<1>11. LastIsSettled'
  <2> SUFFICES ASSUME AtRest', last' # "none", MishapTotal <= 1 \/ ~OwnerUndid(last')
               PROVE  /\ ops'[last'].phase = "committed" => IsEverywhere(ops[last], last)'
                      /\ ops'[last'].phase = "rolled_back" => IsEverywhere(ops[last], ops[last].previous)'
    BY <1>3 DEF LastIsSettled, IsSettled, OwnerUndid, outside
  <2>1. was # "failed"
    BY <1>2, <1>5 DEF AtRest, IsOpen, OpenPhase, Early
  <2>2. last' = o /\ ops'[last'] = m
    BY <1>1, <1>2, <1>5, <2>1 DEF Terminal
  <2>3. ASSUME m.phase = "committed"
        PROVE  IsEverywhere(m, o)
    <3>1. was = "none" /\ m.done = Consumer /\ IsLive(o, m) /\ OwnerDid(o)
      BY <1>0, <1>1, <1>5, <2>3 DEF CallKept, IsRecord, mem
    <3>2. ~OwnerUndid(o)
      BY <1>0, <1>1, <2>2, <3>1 DEF CallKept, BeforeUndo
    <3>3. m.done \cap m.initial = m.initial
      BY <1>0, <1>1, <3>1 DEF IsOp
    <3> QED
      BY <2>3, <3>1, <3>2, <3>3 DEF IsLive, IsEverywhere, Follow
  <2>4. ASSUME m.phase = "rolled_back"
        PROVE  IsEverywhere(m, m.previous)
    <3>1. was = "activated" /\ m.undone = Consumer /\ OwnerUndid(o)
      BY <1>0, <1>1, <1>5, <2>4 DEF IsRecord
    <3>2. Reverted(call)
      BY <1>0, <2>2, <3>1 DEF CallKept
    <3>3. m.undone \cap m.initial = m.initial
      BY <1>0, <1>1, <3>1 DEF IsOp
    <3> QED
      BY <1>1, <2>4, <3>1, <3>2, <3>3 DEF Reverted, IsEverywhere, Follow, mem
  <2> QED
    BY <2>2, <2>3, <2>4 DEF IsEverywhere, outside
<1> QED
  BY <1>4, <1>6, <1>7, <1>8, <1>10, <1>11 DEF RotationInv

-----------------------------------------------------------------------------
(* A call that ends without writing: its last write failed, or the runtime died. *)
Dwindles ==
  /\ mishaps' = [crashes |-> mishaps'.crashes, faults |-> mishaps'.faults]
  /\ mishaps'.crashes \in Nat /\ mishaps'.faults \in Nat
  /\ MishapTotal \in Nat /\ MishapTotal' = MishapTotal + 1
  /\ \/ mishaps'.crashes = mishaps.crashes /\ UNCHANGED consumers
     \/ mishaps'.crashes # 0 /\ consumers' \in {consumers, [c \in Consumer |-> [consumers[c] EXCEPT !.up = FALSE]]}

LEMMA FollowersDwindle ==
  ASSUME RotationWorld, Dwindles, NEW C, C \subseteq Consumer, NEW v, Follow(C, v)
  PROVE  Follow(C, v)'
<1>1. CASE mishaps'.crashes = mishaps.crashes /\ UNCHANGED consumers
  BY <1>1 DEF Follow
<1>2. CASE mishaps'.crashes # 0 /\ UNCHANGED consumers
  BY <1>2 DEF Follow
<1>3. CASE mishaps'.crashes # 0 /\ consumers' = [c \in Consumer |-> [consumers[c] EXCEPT !.up = FALSE]]
  <2>1. \A c \in C : consumers'[c].up = FALSE
    BY <1>3 DEF RotationWorld
  <2> QED
    BY <1>3, <2>1 DEF Follow
<1> QED
  BY <1>1, <1>2, <1>3 DEF Dwindles

LEMMA CallEnds ==
  ASSUME RotationInv, CallUnderWay, call' = NoCall, UNCHANGED <<ops, broker, owner, ownerRuns, last>>, Dwindles
  PROVE  RotationInv'
<1>0. /\ CallKept(call) /\ RotationWorld /\ OperationFiles /\ OneOpen /\ Fresh /\ LastIsSettled /\ RotationTypes
      /\ call.op \in Op /\ \A o \in Op \ {call.op} : ~IsOpen(o)
  BY AtWork, RotationParts
<1>1. ~CallUnderWay' /\ \A o \in Op : IsOpen(o)' <=> IsOpen(o)
  BY DEF CallUnderWay, CallIsAt, NoCall, IsOpen
<1>2. RotationWorld'
  <2>1. CASE UNCHANGED consumers
    BY <1>0, <2>1 DEF Dwindles, RotationWorld
  <2>2. CASE consumers' = [c \in Consumer |-> [consumers[c] EXCEPT !.up = FALSE]]
    BY <1>0, <2>2 DEF Dwindles, RotationWorld
  <2> QED
    BY <2>1, <2>2 DEF Dwindles
<1>3. RotationTypes'
  BY <1>0, <1>1, <1>2 DEF RotationTypes, IsOp
<1>4. OneOpen'
  BY <1>0, <1>1 DEF OneOpen
<1>5. Fresh'
  BY <1>0, <1>1 DEF Fresh, OwnerDid, OwnerUndid
<1>6. \A o : OwnerUndid(o)' <=> OwnerUndid(o)
  BY DEF OwnerUndid
<1>7. OperationFiles'
  <2> SUFFICES ASSUME NEW o \in Op
               PROVE  /\ IsRecord(o, ops[o])'
                      /\ IsOpen(o) => IsLive(o, ops[o])' /\ MishapTotal' >= 1 /\ (MishapTotal' <= 1 => ~OwnerUndid(o)')
    BY <1>1 DEF OperationFiles
  <2>1. IsRecord(o, ops[o])'
    BY <1>0 DEF OperationFiles, IsRecord, OwnerDid, OwnerUndid
  <2>2. ASSUME IsOpen(o)
        PROVE  IsLive(o, ops[o])' /\ MishapTotal' >= 1 /\ (MishapTotal' <= 1 => ~OwnerUndid(o))
    <3>1. IsLive(o, ops[o]) /\ o = call.op
      BY <1>0, <2>2 DEF OperationFiles
    <3>2. PICK C : C = ops[o].done \cap ops[o].initial
      OBVIOUS
    <3>3. Follow(C, o) => Follow(C, o)'
      BY <1>0, <3>2, FollowersDwindle DEF RotationTypes, IsOp
    <3>4. IsLive(o, ops[o])'
      BY <3>1, <3>2, <3>3 DEF IsLive, OwnerDid, OwnerUndid
    <3>5. MishapTotal = 0 => ~OwnerUndid(o)
      BY <1>0, <3>1 DEF CallKept, Untroubled, BeforeUndo
    <3> QED
      BY <3>4, <3>5 DEF Dwindles
  <2> QED
    BY <1>6, <2>1, <2>2
<1>8. LastIsSettled'
  <2> SUFFICES ASSUME AtRest', last # "none", MishapTotal' <= 1 \/ ~OwnerUndid(last)
               PROVE  /\ ops[last].phase = "committed" => IsEverywhere(ops[last], last)'
                      /\ ops[last].phase = "rolled_back" => IsEverywhere(ops[last], ops[last].previous)'
    BY DEF LastIsSettled, IsSettled, OwnerUndid
  <2>1. \A o \in Op : ~IsOpen(o)
    BY <1>1 DEF AtRest
  <2>2. ops[call.op].phase = "none"
    <3> SUFFICES ASSUME ops[call.op].phase # "none" PROVE FALSE
      OBVIOUS
    <3>1. ops[call.op].phase \in Terminal
      BY <1>0, <2>1, AtWork DEF IsOp, RotationPhases, IsOpen
    <3>2. OwnerUndid(last) /\ call.was # "none"
      BY <1>0, <3>1 DEF CallKept, CallFitsFile
    <3>3. MishapTotal >= 1
      BY <1>0, <3>2 DEF CallKept
    <3> QED
      BY <3>2, <3>3 DEF Dwindles
  <2>3. IsSettled(last) /\ last \in Op /\ MishapTotal <= MishapTotal'
    BY <1>0, <2>1, <2>2 DEF LastIsSettled, AtRest, RotationTypes, Dwindles
  <2>4. PICK f : f = ops[last]
    OBVIOUS
  <2>5. f.initial \subseteq Consumer
    BY <1>0, <2>3, <2>4 DEF RotationTypes, IsOp
  <2>6. MishapTotal <= 1 \/ ~OwnerUndid(last)
    BY <2>3 DEF Dwindles
  <2>7. ASSUME NEW v, IsEverywhere(f, v)
        PROVE  IsEverywhere(f, v)'
    <3>0. broker = v /\ owner = v
      BY <2>7 DEF IsEverywhere
    <3>1. Follow(f.initial, v)
      <4>1. ASSUME NEW c \in f.initial
            PROVE  (consumers[c].up => consumers[c].version = v) /\ (mishaps.crashes = 0 => consumers[c].up)
        BY <2>7, <4>1 DEF IsEverywhere
      <4> QED
        BY <4>1 DEF Follow
    <3>2. Follow(f.initial, v)'
      BY <1>0, <2>5, <3>1, FollowersDwindle
    <3> QED
      BY <3>0, <3>2 DEF IsEverywhere, Follow
  <2> QED
    BY <2>3, <2>4, <2>6, <2>7 DEF IsSettled, IsEverywhere
<1> QED
  BY <1>1, <1>3, <1>4, <1>5, <1>7, <1>8 DEF RotationInv

LEMMA WriteOpKeeps ==
  ASSUME RotationInv, WriteOp
  PROVE  RotationInv'
<1>0. call.at = "write" /\ UNCHANGED outside
  BY DEF WriteOp, CallIsAt
<1>1. CallUnderWay /\ RotationWorld /\ CallKept(call)
  BY <1>0, AtWrite
<1>2. CASE /\ ops' = [ops EXCEPT ![call.op] = mem] /\ UNCHANGED mishaps
           /\ last' = IF mem.phase \in Terminal THEN call.op ELSE last
           /\ IF call.then = "idle" THEN call' = NoCall ELSE CallGoes(call.then)
  <2>1. CASE call.then = "idle"
    BY <1>0, <1>2, <2>1, WrittenEnds
  <2>2. CASE call.then # "idle"
    BY <1>0, <1>2, <2>2, WrittenGoesOn
  <2> QED
    BY <2>1, <2>2
<1>3. CASE Fault /\ UNCHANGED <<ops, last>> /\ call.then = "idle" /\ Undoing /\ mem.phase # "rolled_back" /\ call' = NoCall
  <2>1. Dwindles /\ UNCHANGED <<broker, owner, ownerRuns>>
    BY <1>0, <1>1, <1>3, FaultCounts DEF Dwindles, outside
  <2> QED
    BY <1>1, <1>3, <2>1, CallEnds
<1>4. CASE Fault /\ UNCHANGED <<ops, last>> /\ ~(call.then = "idle" /\ Undoing /\ mem.phase # "rolled_back") /\ Throws
  <2>1. call.at # "catch" /\ MayThrow
    BY <1>0, <1>4 DEF MayThrow, Undoing
  <2> QED
    BY <1>0, <1>1, <1>4, <2>1, QuietThrow
<1> QED
  BY <1>2, <1>3, <1>4 DEF WriteOp

LEMMA DeathKeeps ==
  ASSUME RotationInv, RotationDies
  PROVE  RotationInv'
<1>0. CallUnderWay /\ call' = NoCall /\ UNCHANGED <<ops, broker, owner, ownerRuns, last>>
  BY DEF RotationDies, CallUnderWay
<1>1. RotationWorld
  BY RotationParts
<1>2. Dwindles
  BY <1>1 DEF RotationDies, Dwindles, RotationWorld, MishapTotal
<1> QED
  BY <1>0, <1>2, CallEnds

(* A call begins: with a new operation, or with the file of one that was interrupted. *)
Begins(o, x) ==
  /\ call' = x /\ IsCall(x) /\ x.op = o /\ x.was = "none" /\ CallFits(x) /\ CallFitsFile(x) /\ x.at # "catch"
  /\ IsRecord(o, x.mem) /\ IsLive(o, x.mem) /\ (MishapTotal <= 1 => ~OwnerUndid(o))
  /\ MishapTotal = 0 => Untroubled(x)
  /\ ops[o].phase # "none" => IsOpen(o)
  /\ \A p \in Op : x.mem.previous = p => ops[p].phase # "none"

LEMMA BeginsNew ==
  ASSUME RotationInv, NEW o \in Op, Execute(o), ops[o].phase = "none"
  PROVE  \E x : Begins(o, x)
<1>0. RotationTypes /\ Fresh /\ OperationFiles /\ ~CallUnderWay
  BY RotationParts DEF Execute, CallUnderWay
<1>1. PICK m : m = [NoOp EXCEPT !.phase = "planned", !.initial = {c \in Consumer : consumers[c].up}]
  OBVIOUS
<1>2. /\ IsOp(m) /\ m.phase = "planned" /\ m.initial = {c \in Consumer : consumers[c].up} /\ m.previous = "none"
      /\ ~m.ownerDone /\ ~m.ownerUndone /\ m.done = {} /\ m.undone = {}
  BY <1>1 DEF NoOp, IsOp, RotationPhases, OpenPhase, Early
<1>3. PICK x : x = [at |-> "write", op |-> o, then |-> "preview", mem |-> m, was |-> "none"]
  OBVIOUS
<1>4. call' = x
  BY <1>1, <1>3 DEF Execute, NoCall
<1>5. x.at = "write" /\ x.op = o /\ x.then = "preview" /\ x.mem = m /\ x.was = "none" /\ IsCall(x)
  BY <1>2, <1>3 DEF IsCall
<1>6. broker # o /\ ~OwnerDid(o) /\ ~OwnerUndid(o)
  BY <1>0 DEF Fresh
<1>7. CallFits(x)
  <2>1. Forward(x.at, x.then, x.mem)
    BY <1>2, <1>5 DEF Forward
  <2> QED
    BY <1>5, <2>1 DEF CallFits
<1>8. CallFitsFile(x)
  <2>1. ops[o].done = {}
    BY <1>0 DEF OperationFiles, IsRecord
  <2> QED
    BY <1>2, <1>5, <2>1 DEF CallFitsFile, Terminal
<1>9. IsRecord(o, x.mem) /\ IsLive(o, x.mem)
  BY <1>2, <1>5, <1>6 DEF IsRecord, IsLive, Late
<1>10. Untroubled(x)
  BY <1>2, <1>5, <1>6 DEF Untroubled
<1>11. \A p \in Op : x.mem.previous # p
  BY <1>2, <1>5, OperationAssumption
<1>12. Begins(o, x)
  BY <1>4, <1>5, <1>6, <1>7, <1>8, <1>9, <1>10, <1>11 DEF Begins
<1> QED
  BY <1>12

LEMMA BeginsAgain ==
  ASSUME RotationInv, NEW o \in Op, Execute(o), ops[o].phase # "none"
  PROVE  \E x : Begins(o, x)
<1>0. RotationTypes /\ Fresh /\ OperationFiles /\ ~CallUnderWay /\ IsOp(ops[o]) /\ RotationWorld
  BY RotationParts DEF Execute, CallUnderWay, RotationTypes
<1>1. PICK m : m = ops[o]
  OBVIOUS
<1>2. PlaceOf(m.phase) # "idle" /\ call' = [NoCall EXCEPT !.op = o, !.at = PlaceOf(m.phase), !.mem = m]
  BY <1>1 DEF Execute
<1>3. PICK place : place = PlaceOf(m.phase)
  OBVIOUS
<1> DEFINE x == [at |-> place, op |-> o, then |-> "idle", mem |-> m, was |-> "none"]
<1>4. call' = x
  <2>1. call' = [NoCall EXCEPT !.op = o, !.at = place, !.mem = m]
    BY <1>2, <1>3
  <2> QED
    BY <2>1 DEF NoCall
<1>5. x.at = PlaceOf(m.phase) /\ x.op = o /\ x.then = "idle" /\ x.mem = m /\ x.was = "none" /\ IsCall(x)
  BY <1>0, <1>1, <1>2, <1>3 DEF IsCall
<1> HIDE DEF x
<1>6. \/ m.phase = "planned" /\ x.at = "preview"
      \/ m.phase = "staged" /\ x.at = "stop"
      \/ m.phase = "consumers_stopped" /\ x.at = "activate"
      \/ m.phase \in Late /\ x.at = "converging"
  BY <1>2, <1>5 DEF PlaceOf, Late
<1>7. IsOpen(o) /\ m.phase \notin Terminal
  BY <1>1, <1>6 DEF IsOpen, OpenPhase, Early, Late, Terminal
<1>8. IsRecord(o, m) /\ IsLive(o, m) /\ MishapTotal >= 1 /\ (MishapTotal <= 1 => ~OwnerUndid(o))
  BY <1>0, <1>1, <1>7 DEF OperationFiles
<1>9. CallFits(x)
  <2>1. Forward(x.at, x.then, x.mem)
    BY <1>5, <1>6 DEF Forward
  <2> QED
    BY <1>5, <2>1 DEF CallFits
<1>10. CallFitsFile(x) /\ x.at # "catch"
  BY <1>1, <1>5, <1>6, <1>7 DEF CallFitsFile
<1>11. MishapTotal # 0
  BY <1>8
<1>12. \A p \in Op : x.mem.previous = p => ops[p].phase # "none"
  BY <1>0, <1>1, <1>5 DEF Fresh
<1>13. Begins(o, x)
  BY <1>4, <1>5, <1>7, <1>8, <1>9, <1>10, <1>11, <1>12 DEF Begins
<1> QED
  BY <1>13

LEMMA ExecuteKeeps ==
  ASSUME RotationInv, NEW o \in Op, Execute(o)
  PROVE  RotationInv'
<1>0. /\ RotationTypes /\ OneOpen /\ Fresh /\ OperationFiles /\ LastIsSettled /\ RotationWorld
      /\ ~CallUnderWay /\ UNCHANGED <<ops, outside, last, mishaps>>
  BY RotationParts DEF Execute, CallUnderWay
<1>1. \A p \in Op \ {o} : ~IsOpen(p)
  BY DEF Execute, IsOpen, OpenPhase, Early, Late, Terminal
<1>2. MishapsCount /\ MishapTotal' = MishapTotal
  BY <1>0, CountsKept DEF MishapTotal
<1>3. /\ RotationWorld' /\ \A p, m : (IsRecord(p, m)' <=> IsRecord(p, m)) /\ (IsLive(p, m)' <=> IsLive(p, m))
      /\ \A p : (OwnerUndid(p)' <=> OwnerUndid(p)) /\ (OwnerDid(p)' <=> OwnerDid(p))
      /\ broker' = broker
  BY <1>0, <1>2, OutsideStays
<1>4. \E x : Begins(o, x)
  BY BeginsNew, BeginsAgain
<1>5. PICK x : Begins(o, x)
  BY <1>4
<1>6. /\ call' = x /\ IsCall(x) /\ x.op = o /\ x.was = "none" /\ CallFits(x) /\ CallFitsFile(x) /\ x.at # "catch"
      /\ IsRecord(o, x.mem) /\ IsLive(o, x.mem) /\ (MishapTotal <= 1 => ~OwnerUndid(o))
      /\ MishapTotal = 0 => Untroubled(x)
      /\ ops[o].phase # "none" => IsOpen(o)
      /\ \A p \in Op : x.mem.previous = p => ops[p].phase # "none"
  BY <1>5 DEF Begins
<1>7. CallUnderWay' /\ call'.op = o /\ mem' = x.mem
  BY <1>6 DEF CallUnderWay, CallIsAt, IsCall, mem
<1>8. RotationTypes'
  BY <1>0, <1>3, <1>6, <1>7 DEF RotationTypes, IsOp, IsCall
<1>9. OneOpen'
  BY <1>0, <1>1, <1>7 DEF OneOpen, IsOpen
<1>10. Fresh'
  BY <1>0, <1>3, <1>6, <1>7 DEF Fresh, OwnerDid, OwnerUndid, outside
<1>11. OperationFiles'
  <2> SUFFICES ASSUME NEW p \in Op
               PROVE  /\ IsRecord(p, ops[p])' /\ (IsOpen(p) => IsLive(p, ops[p])') /\ (IsOpen(p) => p = o)
    BY <1>0, <1>7 DEF OperationFiles, IsOpen
  <2>1. PICK f : f = ops[p]
    OBVIOUS
  <2>2. IsRecord(p, f) /\ (IsOpen(p) => IsLive(p, f)) /\ ops'[p] = f
    BY <1>0, <2>1 DEF OperationFiles
  <2>3. IsRecord(p, f)' /\ (IsOpen(p) => IsLive(p, f)')
    BY <1>3, <2>2
  <2> QED
    BY <1>1, <2>2, <2>3 DEF IsRecord, IsLive
<1>12. LastIsSettled'
  <2> SUFFICES ASSUME AtRest', last # "none" PROVE IsSettled(last)'
    BY <1>0 DEF LastIsSettled
  <2>1. \A p \in Op : ~IsOpen(p)
    BY <1>0 DEF AtRest, IsOpen
  <2>2. IsSettled(last) /\ last \in Op
    BY <1>0, <2>1 DEF LastIsSettled, AtRest, RotationTypes
  <2> QED
    BY <1>0, <1>2, <2>2, SettledStays
<1>13. CallKept(x)'
  <2>1. MishapTotal' = 0 => Untroubled(x)'
    BY <1>0, <1>2, <1>6 DEF Untroubled, outside
  <2>2. CallFitsFile(x)' /\ CallFits(x)'
    BY <1>0, <1>3, <1>6 DEF CallFitsFile, CallFits, Forward, Back, Unactivated
  <2>3. IsRecord(x.op, x.mem)' /\ IsLive(x.op, x.mem)'
    BY <1>3, <1>6
  <2>4. MishapTotal' <= 1 => (BeforeUndo(x)' => ~OwnerUndid(x.op)') /\ Reverted(x)'
    BY <1>2, <1>3, <1>6 DEF Reverted
  <2> QED
    BY <1>6, <2>1, <2>2, <2>3, <2>4 DEF CallKept
<1>14. CallKept(call)'
  BY <1>6, <1>13
<1> QED
  BY <1>8, <1>9, <1>10, <1>11, <1>12, <1>14 DEF RotationInv

-----------------------------------------------------------------------------
LEMMA RotationInvInit ==
  ASSUME RotationInit
  PROVE  RotationInv
<1>1. \A o \in Op : ops[o] = NoOp
  BY DEF RotationInit
<1>2. IsOp(NoOp)
  BY DEF IsOp, NoOp, RotationPhases
<1>3. ~CallUnderWay /\ call = NoCall
  BY DEF RotationInit, CallUnderWay, CallIsAt, NoCall
<1>4. RotationWorld
  <2>1. consumers = [c \in Consumer |-> consumers[c]]
    BY DEF RotationInit
  <2>2. \A c \in Consumer : consumers[c] \in {[up |-> TRUE, version |-> "v0"], [up |-> FALSE, version |-> "v0"]}
    BY DEF RotationInit
  <2>3. \A c \in Consumer : /\ consumers[c] = [up |-> consumers[c].up, version |-> consumers[c].version]
                            /\ consumers[c].up \in BOOLEAN
    <3> SUFFICES ASSUME NEW c \in Consumer, NEW k, k = consumers[c]
                 PROVE  k = [up |-> k.up, version |-> k.version] /\ k.up \in BOOLEAN
      OBVIOUS
    <3>1. CASE k = [up |-> TRUE, version |-> "v0"]
      BY <3>1
    <3>2. CASE k = [up |-> FALSE, version |-> "v0"]
      BY <3>2
    <3> QED
      BY <2>2, <3>1, <3>2
  <2>4. mishaps = [crashes |-> 0, faults |-> 0]
    BY DEF RotationInit
  <2> QED
    BY <2>1, <2>3, <2>4 DEF RotationWorld
<1>5. RotationTypes
  BY <1>1, <1>2, <1>3, <1>4 DEF RotationInit, RotationTypes
<1>6. NoOp.phase = "none" /\ \A o \in Op : ~IsOpen(o)
  BY <1>1 DEF NoOp, IsOpen, OpenPhase, Early, Late
<1>7. OneOpen
  BY <1>3, <1>6 DEF OneOpen
<1>8. Fresh
  BY <1>1, <1>3, OperationAssumption DEF RotationInit, Fresh, NoOp, OwnerDid, OwnerUndid
<1>9. \A o : IsRecord(o, NoOp)
  BY DEF IsRecord, NoOp, Early
<1>10. OperationFiles
  BY <1>1, <1>6, <1>9 DEF OperationFiles
<1>11. LastIsSettled
  BY DEF RotationInit, LastIsSettled
<1> QED
  BY <1>3, <1>5, <1>7, <1>8, <1>10, <1>11 DEF RotationInv

LEMMA RotationInvKept ==
  ASSUME RotationInv, [RotationNext]_rotationVars
  PROVE  RotationInv'
<1>1. ASSUME NEW o \in Op, Execute(o) PROVE RotationInv'
  BY <1>1, ExecuteKeeps
<1>2. ASSUME NEW c \in Consumer, StopConsumer(c) \/ Converge(c) PROVE RotationInv'
  BY <1>2, StopKeeps, ConvergeKeeps
<1>3. CASE WriteOp
  BY <1>3, WriteOpKeeps
<1>4. CASE Preview
  BY <1>4, PreviewKeeps
<1>5. CASE RunOwnerAction
  BY <1>5, OwnerActionKeeps
<1>6. CASE StageVersion
  BY <1>6, StageKeeps
<1>7. CASE ConsumersStopped
  BY <1>7, ConsumersStoppedKeeps
<1>8. CASE Activate
  BY <1>8, ActivateKeeps
<1>9. CASE Converging
  BY <1>9, ConvergingKeeps
<1>10. CASE Converged
  BY <1>10, ConvergedKeeps
<1>11. CASE Catch
  BY <1>11, CatchKeeps
<1>12. CASE BrokerRollback
  BY <1>12, BrokerRollbackKeeps
<1>13. CASE RunOwnerRollback
  BY <1>13, OwnerRollbackKeeps
<1>14. CASE Blocked
  BY <1>14, BlockedKeeps
<1>15. CASE RotationDies
  BY <1>15, DeathKeeps
<1>16. CASE UNCHANGED rotationVars
  <2>1. /\ ops' = ops /\ call' = call /\ broker' = broker /\ owner' = owner /\ ownerRuns' = ownerRuns
        /\ consumers' = consumers /\ last' = last /\ mishaps' = mishaps
    BY <1>16 DEF rotationVars
  <2>2. RotationTypes' <=> RotationTypes
    BY <2>1 DEF RotationTypes, IsOp, IsCall, RotationWorld, CallUnderWay, CallIsAt
  <2>3. OneOpen' <=> OneOpen
    BY <2>1 DEF OneOpen, IsOpen, CallUnderWay, CallIsAt
  <2>4. Fresh' <=> Fresh
    BY <2>1 DEF Fresh, OwnerDid, OwnerUndid, CallUnderWay, CallIsAt, mem
  <2>5. OperationFiles' <=> OperationFiles
    BY <2>1 DEF OperationFiles, IsRecord, IsLive, Follow, IsOpen, OwnerDid, OwnerUndid, CallUnderWay, CallIsAt, MishapTotal
  <2>6. CallUnderWay' => CallKept(call)'
    <3>1. PICK x : x = call
      OBVIOUS
    <3>2. MishapsCount /\ MishapTotal' = MishapTotal /\ UNCHANGED outside
      BY <2>1, RotationParts, CountsKept DEF MishapTotal, outside
    <3>3. CallUnderWay => CallKept(x)
      BY <3>1, RotationParts
    <3>4. /\ IsRecord(x.op, x.mem)' <=> IsRecord(x.op, x.mem)
          /\ IsLive(x.op, x.mem)' <=> IsLive(x.op, x.mem)
          /\ Reverted(x)' <=> Reverted(x)
          /\ OwnerUndid(x.op)' <=> OwnerUndid(x.op)
      BY <3>2, RotationParts, OutsideStays
    <3>5. CallFitsFile(x)' <=> CallFitsFile(x)
      BY <2>1, <3>4 DEF CallFitsFile
    <3>6. Untroubled(x)' <=> Untroubled(x)
      BY <2>1 DEF Untroubled
    <3>7. CallUnderWay' <=> CallUnderWay
      BY <2>1 DEF CallUnderWay, CallIsAt
    <3>8. (CallFits(x)' <=> CallFits(x)) /\ (BeforeUndo(x)' <=> BeforeUndo(x))
      BY DEF CallFits, Forward, Back, Unactivated, BeforeUndo
    <3>9. CallUnderWay' => CallKept(x)'
      BY <3>2, <3>3, <3>4, <3>5, <3>6, <3>7, <3>8 DEF CallKept
    <3> QED
      BY <2>1, <3>1, <3>9
  <2>7. LastIsSettled' <=> LastIsSettled
    BY <2>1 DEF LastIsSettled, AtRest, IsSettled, IsEverywhere, IsOpen, CallUnderWay, CallIsAt, MishapTotal, OwnerUndid
  <2> QED
    BY <2>2, <2>3, <2>4, <2>5, <2>6, <2>7 DEF RotationInv
<1> QED
  BY <1>1, <1>2, <1>3, <1>4, <1>5, <1>6, <1>7, <1>8, <1>9, <1>10, <1>11, <1>12, <1>13, <1>14, <1>15, <1>16
     DEF RotationNext

LEMMA SettledWhenIdle ==
  ASSUME RotationInv
  PROVE  SettledIsEverywhere
<1>1. RotationTypes /\ LastIsSettled
  BY RotationParts
<1> SUFFICES ASSUME CallIsAt("idle"), ~AnyOpen, last # "none",
                    mishaps.crashes + mishaps.faults <= 1 \/ <<last, "rollback">> \notin ownerRuns
             PROVE  /\ ops[last].phase = "committed" => IsEverywhere(ops[last], last)
                    /\ ops[last].phase = "rolled_back" => IsEverywhere(ops[last], ops[last].previous)
  BY DEF SettledIsEverywhere
<1>2. AtRest
  BY DEF AtRest, CallUnderWay, AnyOpen, IsOpen, OpenPhase, Early, Late, Terminal
<1>3. IsSettled(last)
  BY <1>1, <1>2 DEF LastIsSettled
<1> QED
  BY <1>3 DEF IsSettled, MishapTotal, OwnerUndid

(* A rotation that met one failure, or two without its owner being rolled back, leaves the broker,
   the owner and the consumers with the version that its file says, whatever the number of
   operations, of consumers and of the mishaps before it.  (executeSecretRotation,
   rollBackActivatedRotation, convergeConsumers) *)
THEOREM SettlesEverywhere == RotationSpec => []SettledIsEverywhere
<1>1. RotationInit => RotationInv
  BY RotationInvInit
<1>2. RotationInv /\ [RotationNext]_rotationVars => RotationInv'
  BY RotationInvKept
<1>3. RotationInv => SettledIsEverywhere
  BY SettledWhenIdle
<1> QED
  BY <1>1, <1>2, <1>3, PTL DEF RotationSpec

-----------------------------------------------------------------------------
(* A finite set of numbers that is not empty has a largest: one above which the fewest lie. *)
LEMMA LargestExists ==
  ASSUME NEW T \in SUBSET Nat, IsFiniteSet(T), T # {}
  PROVE  Max(T) \in T /\ \A t \in T : t <= Max(T)
<1> DEFINE Above(x) == {t \in T : t > x}
           F == {Above(x) : x \in T}
<1>1. IsWellFoundedOn(StrictSubsetOrdering(T), SUBSET T)
  BY FS_StrictSubsetOrderingWellFounded, FS_FiniteSubsetsOfFinite
<1>2. F \subseteq SUBSET T /\ F # {}
  OBVIOUS
<1>3. PICK least \in F : \A a \in F : <<a, least>> \notin StrictSubsetOrdering(T)
  <2> HIDE DEF F
  <2> QED
    BY <1>1, <1>2, WFMin
<1>4. PICK x \in T : least = Above(x)
  BY <1>3
<1>5. \A t \in T : t <= x
  <2> SUFFICES ASSUME NEW t \in T, t > x
               PROVE  FALSE
    OBVIOUS
  <2>1. Above(t) \in F
    OBVIOUS
  <2>2. Above(t) \subseteq Above(x) /\ Above(t) # Above(x)
    <3>1. t \in Above(x) /\ t \notin Above(t)
      OBVIOUS
    <3>2. ASSUME NEW u \in T, u > t
          PROVE  u > x
      BY <3>2, t \in Nat, u \in Nat, x \in Nat
    <3>3. Above(t) \subseteq Above(x)
      BY <3>2
    <3> HIDE DEF Above
    <3> QED
      BY <3>1, <3>3
  <2>3. <<Above(t), least>> \in StrictSubsetOrdering(T)
    BY <1>4, <2>2 DEF StrictSubsetOrdering
  <2> QED
    BY <1>3, <2>1, <2>3
<1> QED
  BY <1>5 DEF Max

LineOf == [file : 0..LastDay, event : Event \cup {"legacy"}, sequence : Nat,
           previous : Event \cup {"legacy", "none"}, parses : BOOLEAN, ends : BOOLEAN]

(* What an append that waits for the lock brings with it. *)
Awaits(append) == append.at = "append" => append.event \in Event /\ append.day \in Day

AuditShapes ==
  /\ log \in Seq(LineOf) /\ today \in Day
  /\ appends = [c \in Appender |-> appends[c]] /\ \A c \in Appender : Awaits(appends[c])

(* No event is read twice, and one that was answered is read as long as every line is. *)
ReadOnce == \A i, j \in Existing : log[i].event = log[j].event => i = j
RecordedIsRead == \A e \in recorded : Known(e) \/ \E i \in DOMAIN log : ~log[i].parses

UntornIsWhole == ~torn => Verified /\ \A i \in DOMAIN log : log[i].ends

AuditInv == AuditShapes /\ ReadOnce /\ RecordedIsRead /\ UntornIsWhole

-----------------------------------------------------------------------------
LEMMA LinesCounted ==
  ASSUME AuditShapes
  PROVE  DOMAIN log = 1..Len(log) /\ Len(log) \in Nat /\ \A i \in DOMAIN log : log[i] \in LineOf
BY DEF AuditShapes

(* No line is in a later file than the one that an event goes to. *)
LEMMA BucketIsLast ==
  ASSUME AuditShapes, NEW day \in Day
  PROVE  Bucket(day) \in Day /\ \A i \in DOMAIN log : log[i].file <= Bucket(day)
<1> DEFINE T == {day} \cup {log[i].file : i \in DOMAIN log}
<1>0. LastDay \in Nat /\ Day \subseteq Nat
  BY AuditAssumption DEF Day
<1>1. T \subseteq 0..LastDay
  BY LinesCounted, <1>0 DEF LineOf, Day
<1>2. IsFiniteSet(T)
  BY <1>0, <1>1, FS_Interval, FS_Subset, 0 \in Int, LastDay \in Int
<1>3. Max(T) \in T /\ \A t \in T : t <= Max(T)
  <2> HIDE DEF T
  <2>1. T # {} /\ T \in SUBSET Nat
    BY <1>0, <1>1 DEF T
  <2> QED
    BY <1>2, <2>1, LargestExists
<1>4. Bucket(day) = Max(T)
  BY DEF Bucket
<1>5. day \in T /\ \A i \in DOMAIN log : log[i].file \in T
  OBVIOUS
<1> HIDE DEF T
<1>6. Max(T) >= day /\ Max(T) \in 0..LastDay
  BY <1>1, <1>3, <1>5
<1> QED
  <2>1. \A i \in DOMAIN log : log[i].file <= Max(T)
    BY <1>3, <1>5
  <2>2. Max(T) \in Day
    BY <1>0, <1>6 DEF Day
  <2> QED
    BY <1>4, <2>1, <2>2

Joins(line) == Len(log) > 0 /\ log[Len(log)].file = line.file /\ ~log[Len(log)].ends

(* So a line is added to the end of the log, or joined to the last one. *)
LEMMA AppendedAtEnd ==
  ASSUME AuditShapes, NEW day \in Day, NEW line, line.file = Bucket(day)
  PROVE  Appended(line) = IF Joins(line) THEN [log EXCEPT ![Len(log)] = [line EXCEPT !.parses = FALSE]]
                          ELSE Append(log, line)
<1> DEFINE n == Cardinality({i \in DOMAIN log : log[i].file <= line.file})
<1>1. {i \in DOMAIN log : log[i].file <= line.file} = 1..Len(log) /\ Len(log) \in Nat
  BY LinesCounted, BucketIsLast
<1>2. n = Len(log)
  <2>1. Cardinality(1..Len(log)) = IF 1 > Len(log) THEN 0 ELSE Len(log) - 1 + 1
    BY <1>1, FS_Interval, 1 \in Int, Len(log) \in Int
  <2>2. n = Cardinality(1..Len(log))
    BY <1>1
  <2> HIDE DEF n
  <2> QED
    BY <1>1, <2>1, <2>2
<1>3. InsertAt(log, Len(log) + 1, line) = Append(log, line)
  <2>1. SubSeq(log, 1, Len(log) + 1 - 1) = log
    BY <1>1, SubSeqFull DEF AuditShapes
  <2>2. SubSeq(log, Len(log) + 1, Len(log)) = <<>>
    BY <1>1, SubSeqEmpty
  <2>3. InsertAt(log, Len(log) + 1, line)
        = SubSeq(log, 1, Len(log) + 1 - 1) \o <<line>> \o SubSeq(log, Len(log) + 1, Len(log))
    BY DEF InsertAt
  <2>4. log \o <<line>> \o <<>> = Append(log, line)
    BY DEF AuditShapes
  <2> QED
    BY <2>1, <2>2, <2>3, <2>4
<1> HIDE DEF n
<1> QED
  BY <1>2, <1>3 DEF Appended, Joins, n

(* The line that a call appends follows the last one that is read. *)
LEMMA ChainedIsNext ==
  ASSUME AuditShapes, NEW day \in Day, NEW e \in Event
  PROVE  /\ Chained(e, day) \in LineOf /\ Chained(e, day).file = Bucket(day)
         /\ Chained(e, day).event = e /\ Chained(e, day).parses /\ Chained(e, day).ends
         /\ Verified => /\ Chained(e, day).sequence = Len(log) + 1
                        /\ Chained(e, day).previous = IF Len(log) = 0 THEN "none" ELSE log[Len(log)].event
<1>1. DOMAIN log = 1..Len(log) /\ Len(log) \in Nat /\ \A i \in DOMAIN log : log[i] \in LineOf
  BY LinesCounted
<1>2. Bucket(day) \in 0..LastDay
  BY BucketIsLast, AuditAssumption DEF Day
<1>3. CASE Existing = {}
  <2>1. Chained(e, day) = Line(Bucket(day), e, 1, "none")
    BY <1>3 DEF Chained
  <2>2. Verified => Len(log) = 0
    BY <1>1, <1>3 DEF Verified, Existing
  <2> QED
    BY <1>2, <2>1, <2>2 DEF Line, LineOf
<1>4. CASE Existing # {}
  <2>1. Existing \in SUBSET Nat /\ Existing \subseteq 1..Len(log)
    BY <1>1 DEF Existing
  <2>2. IsFiniteSet(Existing)
    BY <1>1, <2>1, FS_Interval, FS_Subset, 1 \in Int, Len(log) \in Int
  <2>3. Max(Existing) \in Existing /\ \A t \in Existing : t <= Max(Existing)
    BY <1>4, <2>1, <2>2, LargestExists
  <2> DEFINE latest == log[Max(Existing)]
  <2>4. latest \in LineOf
    BY <1>1, <2>1, <2>3
  <2>5. Chained(e, day) = Line(Bucket(day), e, latest.sequence + 1, latest.event)
    BY <1>4 DEF Chained
  <2>6. ASSUME Verified
        PROVE  Max(Existing) = Len(log) /\ latest.sequence = Len(log) /\ Len(log) # 0
    <3>1. Existing = 1..Len(log)
      BY <1>1, <2>6 DEF Existing, Verified
    <3>2. Len(log) \in Existing
      BY <1>1, <1>4, <3>1
    <3>3. Max(Existing) = Len(log)
      <4>1. Len(log) <= Max(Existing) /\ Max(Existing) \in 1..Len(log)
        BY <2>1, <2>3, <3>2
      <4> QED
        BY <1>1, <4>1
    <3>4. log[Len(log)].sequence = Len(log) /\ Len(log) # 0
      BY <1>1, <2>1, <2>6, <3>2 DEF Verified
    <3> QED
      BY <3>3, <3>4
  <2> HIDE DEF latest
  <2>7. /\ Chained(e, day).sequence = latest.sequence + 1 /\ Chained(e, day).previous = latest.event
        /\ Chained(e, day) \in LineOf /\ Chained(e, day).file = Bucket(day)
        /\ Chained(e, day).event = e /\ Chained(e, day).parses /\ Chained(e, day).ends
    BY <1>2, <2>4, <2>5 DEF Line, LineOf
  <2> QED
    BY <2>6, <2>7 DEF latest
<1> QED
  BY <1>3, <1>4

Whole(lines) == \A i \in DOMAIN lines : lines[i].parses

(* What appending a line that is not there does to what is read. *)
LEMMA AppendingKeeps ==
  ASSUME AuditShapes, ReadOnce, NEW day \in Day, NEW line \in LineOf, line.file = Bucket(day),
         ~Known(line.event), log' = Appended(line)
  PROVE  /\ log' \in Seq(LineOf) /\ ReadOnce'
         /\ Whole(log') => /\ Whole(log) /\ line.parses /\ log' = Append(log, line)
<1>1. DOMAIN log = 1..Len(log) /\ Len(log) \in Nat /\ \A i \in DOMAIN log : log[i] \in LineOf
  BY LinesCounted
<1>2. log \in Seq(LineOf)
  BY DEF AuditShapes
<1> DEFINE joined == [line EXCEPT !.parses = FALSE]
<1>3. joined \in LineOf /\ ~joined.parses
  BY DEF LineOf
<1> HIDE DEF joined
<1>4. CASE Joins(line)
  <2>1. log' = [log EXCEPT ![Len(log)] = joined] /\ Len(log) \in 1..Len(log)
    BY <1>1, <1>4, AppendedAtEnd DEF joined, Joins
  <2>2. /\ log' \in Seq(LineOf) /\ DOMAIN log' = DOMAIN log /\ log'[Len(log)] = joined
        /\ \A i \in DOMAIN log : i # Len(log) => log'[i] = log[i]
    BY <1>1, <1>2, <1>3, <2>1
  <2>3. Existing' \subseteq Existing /\ \A i \in Existing' : log'[i] = log[i]
    BY <1>3, <2>2 DEF Existing
  <2>4. ReadOnce'
    BY <2>3 DEF ReadOnce
  <2>5. ~Whole(log')
    BY <1>1, <1>3, <2>1, <2>2 DEF Whole
  <2> QED
    BY <2>2, <2>4, <2>5
<1>5. CASE ~Joins(line)
  <2>1. log' = Append(log, line)
    BY <1>5, AppendedAtEnd
  <2>2. /\ log' \in Seq(LineOf) /\ DOMAIN log' = 1..(Len(log) + 1) /\ log'[Len(log) + 1] = line
        /\ \A i \in DOMAIN log : log'[i] = log[i] /\ i \in DOMAIN log'
    BY <1>1, <1>2, <2>1
  <2>3. \A i \in Existing' : (i \in Existing /\ log'[i] = log[i]) \/ i = Len(log) + 1
    BY <1>1, <2>2 DEF Existing
  <2>4. \A i \in Existing : log[i].event # line.event
    BY DEF Known
  <2>5. ReadOnce'
    BY <2>2, <2>3, <2>4 DEF ReadOnce
  <2>6. Whole(log') => Whole(log) /\ line.parses
    BY <1>1, <2>2 DEF Whole
  <2> QED
    BY <2>1, <2>2, <2>5, <2>6
<1> QED
  BY <1>4, <1>5

(* An event is read from a whole log that it was appended to. *)
LEMMA AppendedIsRead ==
  ASSUME AuditShapes, NEW line \in LineOf, Whole(log'), log' = Append(log, line),
         NEW e, Known(e) \/ e = line.event
  PROVE  \E i \in Existing' : log'[i].event = e
<1>1. /\ DOMAIN log = 1..Len(log) /\ Len(log) \in Nat /\ log \in Seq(LineOf)
  BY LinesCounted DEF AuditShapes
<1>2. DOMAIN log' = 1..(Len(log) + 1) /\ log'[Len(log) + 1] = line /\ \A i \in DOMAIN log : log'[i] = log[i]
  BY <1>1
<1> QED
  BY <1>1, <1>2 DEF Known, Existing, Whole

LEMMA AppendLineKeeps ==
  ASSUME AuditInv, NEW c \in Appender, AppendLine(c)
  PROVE  AuditInv'
<1> DEFINE e == appends[c].event
           day == appends[c].day
           line == Chained(e, day)
<1>1. AuditShapes /\ ReadOnce /\ RecordedIsRead /\ UntornIsWhole
  BY DEF AuditInv
<1>2. e \in Event /\ day \in Day
  BY <1>1 DEF AuditShapes, Awaits, AppendLine
<1>3. /\ log' = IF Known(e) THEN log ELSE Appended(line)
      /\ recorded' = recorded \cup {e} /\ today' = today /\ torn' = torn
      /\ appends' = [appends EXCEPT ![c] = NoAppend]
  BY DEF AppendLine
<1> HIDE DEF e, day
<1>4. appends' = [d \in Appender |-> appends'[d]] /\ \A d \in Appender : Awaits(appends'[d])
  BY <1>1, <1>3 DEF AuditShapes, Awaits, NoAppend
<1>5. /\ line \in LineOf /\ line.file = Bucket(day) /\ line.event = e /\ line.parses /\ line.ends
      /\ Verified => /\ line.sequence = Len(log) + 1
                     /\ line.previous = IF Len(log) = 0 THEN "none" ELSE log[Len(log)].event
  BY <1>1, <1>2, ChainedIsNext
<1> HIDE DEF line
<1>6. CASE Known(e)
  <2>1. log' = log
    BY <1>3, <1>6
  <2>2. Existing' = Existing /\ \A x : Known(x)' = Known(x)
    BY <2>1 DEF Existing, Known
  <2>3. AuditShapes'
    BY <1>1, <1>3, <1>4, <2>1 DEF AuditShapes
  <2>4. RecordedIsRead'
    BY <1>1, <1>3, <1>6, <2>1, <2>2 DEF RecordedIsRead
  <2>5. ReadOnce' /\ UntornIsWhole'
    BY <1>1, <1>3, <2>1, <2>2 DEF ReadOnce, UntornIsWhole, Verified
  <2> QED
    BY <2>3, <2>4, <2>5 DEF AuditInv
<1>7. CASE ~Known(e)
  <2>1. log' = Appended(line)
    BY <1>3, <1>7
  <2>2. /\ log' \in Seq(LineOf) /\ ReadOnce'
        /\ Whole(log') => Whole(log) /\ log' = Append(log, line)
    BY <1>1, <1>2, <1>5, <1>7, <2>1, AppendingKeeps
  <2>3. AuditShapes'
    BY <1>1, <1>3, <1>4, <2>2 DEF AuditShapes
  <2>4. ASSUME Whole(log'), NEW x \in recorded'
        PROVE  Known(x)'
    <3>1. x # e => Known(x)
      BY <1>1, <1>3, <2>2, <2>4 DEF RecordedIsRead, Whole
    <3> QED
      BY <1>1, <1>5, <2>2, <2>4, <3>1, AppendedIsRead DEF Known
  <2>5. RecordedIsRead'
    BY <2>4 DEF RecordedIsRead, Whole
  <2>6. UntornIsWhole'
    <3> SUFFICES ASSUME ~torn
                 PROVE  Verified' /\ \A i \in DOMAIN log' : log'[i].ends
      BY <1>3 DEF UntornIsWhole
    <3>1. Verified /\ (\A i \in DOMAIN log : log[i].ends) /\ DOMAIN log = 1..Len(log) /\ Len(log) \in Nat
      BY <1>1, LinesCounted DEF UntornIsWhole
    <3>2. ~Joins(line)
      BY <3>1 DEF Joins
    <3>3. log' = Append(log, line) /\ log \in Seq(LineOf)
      BY <1>1, <1>2, <1>5, <2>1, <3>2, AppendedAtEnd DEF AuditShapes
    <3>4. /\ DOMAIN log' = 1..(Len(log) + 1) /\ log'[Len(log) + 1] = line
          /\ \A i \in 1..Len(log) : log'[i] = log[i]
      BY <3>1, <3>3
    <3>5. ASSUME NEW i \in DOMAIN log'
          PROVE  /\ log'[i].parses /\ log'[i].ends /\ log'[i].sequence = i
                 /\ log'[i].previous = IF i = 1 THEN "none" ELSE log'[i - 1].event
      <4>1. CASE i = Len(log) + 1
        BY <1>5, <3>1, <3>4, <4>1
      <4>2. CASE i # Len(log) + 1
        <5>1. i \in 1..Len(log) /\ (i # 1 => i - 1 \in 1..Len(log))
          BY <3>1, <3>4, <4>2
        <5> QED
          BY <3>1, <3>4, <5>1 DEF Verified
      <4> QED
        BY <4>1, <4>2
    <3> QED
      BY <3>5 DEF Verified
  <2> QED
    BY <2>2, <2>3, <2>5, <2>6 DEF AuditInv
<1> QED
  BY <1>6, <1>7

LEMMA AppendDiesKeeps ==
  ASSUME AuditInv, NEW c \in Appender, AppendDies(c)
  PROVE  AuditInv'
<1> DEFINE e == appends[c].event
           day == appends[c].day
<1>1. AuditShapes /\ ReadOnce /\ RecordedIsRead
  BY DEF AuditInv
<1>2. e \in Event /\ day \in Day /\ ~Known(e)
  BY <1>1 DEF AuditShapes, Awaits, AppendDies
<1>3. PICK parses \in BOOLEAN : log' = Appended([Chained(e, day) EXCEPT !.parses = parses, !.ends = FALSE])
  BY DEF AppendDies
<1>4. /\ recorded' = recorded /\ today' = today /\ torn' = TRUE
      /\ appends' = [appends EXCEPT ![c] = NoAppend]
  BY DEF AppendDies
<1> HIDE DEF e, day
<1> DEFINE line == [Chained(e, day) EXCEPT !.parses = parses, !.ends = FALSE]
<1>5. line \in LineOf /\ line.file = Bucket(day) /\ line.event = e
  <2> DEFINE chained == Chained(e, day)
  <2>1. chained \in LineOf /\ chained.file = Bucket(day) /\ chained.event = e
    BY <1>1, <1>2, ChainedIsNext
  <2>2. line = [chained EXCEPT !.parses = parses, !.ends = FALSE]
    OBVIOUS
  <2> HIDE DEF chained, line
  <2> QED
    BY <2>1, <2>2 DEF LineOf
<1> HIDE DEF line
<1>6. /\ log' \in Seq(LineOf) /\ ReadOnce'
      /\ Whole(log') => Whole(log) /\ log' = Append(log, line)
  BY <1>1, <1>2, <1>3, <1>5, AppendingKeeps DEF line
<1>7. AuditShapes'
  BY <1>1, <1>4, <1>6 DEF AuditShapes, Awaits, NoAppend
<1>8. ASSUME Whole(log'), NEW x \in recorded
      PROVE  Known(x)'
  <2>1. Known(x)
    BY <1>1, <1>6, <1>8 DEF RecordedIsRead, Whole
  <2> QED
    BY <1>1, <1>5, <1>6, <1>8, <2>1, AppendedIsRead DEF Known
<1>9. RecordedIsRead' /\ UntornIsWhole'
  BY <1>4, <1>8 DEF RecordedIsRead, UntornIsWhole, Whole
<1> QED
  BY <1>6, <1>7, <1>9 DEF AuditInv

(* The other steps leave the log as it is. *)
LEMMA LogStays ==
  ASSUME AuditInv, AuditShapes', UNCHANGED <<log, recorded, torn>>
  PROVE  AuditInv'
<1>1. Existing' = Existing /\ \A x : Known(x)' = Known(x)
  BY DEF Existing, Known
<1> QED
  BY <1>1 DEF AuditInv, ReadOnce, RecordedIsRead, UntornIsWhole, Verified

LEMMA AuditInvInit == AuditInit => AuditInv
<1> SUFFICES ASSUME AuditInit
             PROVE  AuditInv
  OBVIOUS
<1>1. log \in {<<>>, <<Legacy>>} /\ Legacy \in LineOf
  BY AuditAssumption DEF AuditInit, Legacy, Line, LineOf
<1>2. log \in Seq(LineOf) /\ DOMAIN log \subseteq {1} /\ \A i \in DOMAIN log : log[i] = Legacy
  <2>1. CASE log = <<>>
    BY <2>1
  <2>2. CASE log = <<Legacy>>
    BY <1>1, <2>2
  <2> QED
    BY <1>1, <2>1, <2>2
<1>3. AuditShapes
  <2>1. today \in Day
    BY AuditAssumption DEF AuditInit, Day
  <2>2. /\ appends = [c \in Appender |-> appends[c]]
        /\ \A c \in Appender : Awaits(appends[c])
    BY DEF AuditInit, Awaits, NoAppend
  <2> QED
    BY <1>2, <2>1, <2>2 DEF AuditShapes
<1>4. ReadOnce /\ RecordedIsRead
  BY <1>2 DEF AuditInit, ReadOnce, Existing, RecordedIsRead
<1>5. UntornIsWhole
  BY <1>2 DEF UntornIsWhole, Verified, Legacy, Line
<1> QED
  BY <1>3, <1>4, <1>5 DEF AuditInv

LEMMA AuditInvStep == AuditInv /\ [AuditNext]_auditVars => AuditInv'
<1> SUFFICES ASSUME AuditInv, [AuditNext]_auditVars
             PROVE  AuditInv'
  OBVIOUS
<1>1. ASSUME NEW c \in Appender, AppendLine(c)
      PROVE  AuditInv'
  BY <1>1, AppendLineKeeps
<1>2. ASSUME NEW c \in Appender, AppendDies(c)
      PROVE  AuditInv'
  BY <1>2, AppendDiesKeeps
<1>3. ASSUME NEW c \in Appender, NEW e \in Event, AskAppend(c, e)
      PROVE  AuditInv'
  <2>1. AuditShapes'
    BY <1>3 DEF AuditInv, AuditShapes, Awaits, AskAppend
  <2> QED
    BY <1>3, <2>1, LogStays DEF AskAppend
<1>4. CASE Clock
  <2>1. today' \in Day
    BY <1>4, AuditAssumption DEF AuditInv, AuditShapes, Clock, Day
  <2>2. AuditShapes'
    BY <1>4, <2>1 DEF AuditInv, AuditShapes, Clock
  <2> QED
    BY <1>4, <2>2, LogStays DEF Clock
<1>5. CASE UNCHANGED auditVars
  <2>1. AuditShapes'
    BY <1>5 DEF AuditInv, AuditShapes, auditVars
  <2> QED
    BY <1>5, <2>1, LogStays DEF auditVars
<1> QED
  BY <1>1, <1>2, <1>3, <1>4, <1>5 DEF AuditNext

(* A chain that verifies holds every answered event once, and an Audit directory in which no
   append was cut short verifies, whatever the number of days, calls and events, of crashes and
   of steps of the clock.  (appendAuditLine, verifyAuditFiles) *)
THEOREM ChainsAreComplete == AuditSpec => []VerifiedIsComplete
<1>1. ASSUME AuditInv
      PROVE  VerifiedIsComplete
  <2>1. ~torn => Verified
    BY <1>1 DEF AuditInv, UntornIsWhole
  <2>2. ASSUME Verified, NEW e \in recorded
        PROVE  \E i \in DOMAIN log : \A j \in DOMAIN log : log[j].event = e <=> j = i
    <3>1. Existing = DOMAIN log
      BY <2>2 DEF Existing, Verified
    <3>2. PICK i \in DOMAIN log : log[i].event = e
      BY <1>1, <2>2, <3>1 DEF AuditInv, RecordedIsRead, Known, Verified
    <3> QED
      BY <1>1, <3>1, <3>2 DEF AuditInv, ReadOnce
  <2> QED
    BY <2>1, <2>2 DEF VerifiedIsComplete
<1> QED
  BY <1>1, AuditInvInit, AuditInvStep, PTL DEF AuditSpec

-----------------------------------------------------------------------------
ItemOf == [id : Condition, status : {"acknowledged", "deferred", "open"}, at : Nat]

(* The items of a queue: each condition once, the newest first. *)
Once(items) == \A i, j \in DOMAIN items : items[i].id = items[j].id => i = j
NewestFirst(items) == \A i, j \in DOMAIN items : i < j => items[i].at >= items[j].at
Listed(items) == items \in Seq(ItemOf) /\ Once(items) /\ NewestFirst(items)
Kept(items) == Listed(items) /\ Len(items) <= Limit

(* What is owed waits, in an item that is no older, or has made room. *)
IsOpenIn(items, c, date) == \E i \in DOMAIN items : items[i].id = c /\ items[i].status # "acknowledged" /\ items[i].at >= date
IsFull(items, date) == Len(items) = Limit /\ \A i \in DOMAIN items : items[i].at >= date
Waits(items, dates) == \A c \in Condition : dates[c] > 0 => IsOpenIn(items, c, dates[c]) \/ IsFull(items, dates[c])

(* What a call that is under way will write, and will owe. *)
WorkFits(x, time) ==
  /\ x = [at |-> x.at, items |-> x.items, owed |-> x.owed, overlapped |-> x.overlapped]
  /\ x.at # "idle" =>
       /\ Kept(x.items) /\ x.owed \in [Condition -> 0..time]
       /\ ~x.overlapped => Waits(x.items, x.owed)

QueueShapes ==
  /\ queue = [items |-> queue.items, torn |-> queue.torn] /\ Kept(queue.items)
  /\ clock \in Nat /\ owed \in [Condition -> 0..clock]
  /\ work = [p \in Process |-> work[p]] /\ \A p \in Process : WorkFits(work[p], clock)

QueueInv ==
  /\ QueueShapes
  /\ ~queue.torn => Waits(queue.items, owed)
  /\ queue.torn /\ owed # Nothing => \E p \in Process : work[p].at = "writing"

-----------------------------------------------------------------------------
(* The first items of a list, and those that follow them. *)
LEMMA StartOf ==
  ASSUME NEW S, NEW s \in Seq(S), NEW k \in 0..Len(s)
  PROVE  /\ SubSeq(s, 1, k) \in Seq(S) /\ Len(SubSeq(s, 1, k)) = k
         /\ \A i \in 1..k : SubSeq(s, 1, k)[i] = s[i]
<1> DEFINE t == SubSeq(s, 1, k)
<1>1. Len(s) \in Nat /\ k \in Int /\ k >= 0 /\ \A i \in 1..k : s[i] \in S
  OBVIOUS
<1>2. /\ t \in Seq(S) /\ Len(t) = (IF 1 <= k THEN (k - 1) + 1 ELSE 0)
      /\ \A i \in 1..((k - 1) + 1) : t[i] = s[(1 + i) - 1]
  BY <1>1, SubSeqProperties, 1 \in Int
<1> HIDE DEF t
<1>3. Len(t) = k
  BY <1>1, <1>2
<1>4. ASSUME NEW i \in 1..k
      PROVE  t[i] = s[i]
  <2>1. i \in 1..((k - 1) + 1) /\ (1 + i) - 1 = i
    BY <1>1
  <2> QED
    BY <1>2, <2>1
<1> QED
  BY <1>2, <1>3, <1>4 DEF t

LEMMA RestOf ==
  ASSUME NEW S, NEW s \in Seq(S), NEW k \in 0..Len(s)
  PROVE  /\ SubSeq(s, k + 1, Len(s)) \in Seq(S) /\ Len(SubSeq(s, k + 1, Len(s))) = Len(s) - k
         /\ \A i \in 1..(Len(s) - k) : SubSeq(s, k + 1, Len(s))[i] = s[k + i]
<1> DEFINE n == Len(s)
           t == SubSeq(s, k + 1, n)
<1>1. n \in Int /\ k \in Int /\ 0 <= k /\ k <= n /\ k + 1 \in Int /\ \A i \in (k + 1)..n : s[i] \in S
  OBVIOUS
<1> HIDE DEF n
<1>2. /\ t \in Seq(S) /\ Len(t) = (IF k + 1 <= n THEN (n - (k + 1)) + 1 ELSE 0)
      /\ \A i \in 1..((n - (k + 1)) + 1) : t[i] = s[((k + 1) + i) - 1]
  BY <1>1, SubSeqProperties
<1> HIDE DEF t
<1>3. Len(t) = n - k
  BY <1>1, <1>2
<1>4. ASSUME NEW i \in 1..(n - k)
      PROVE  t[i] = s[k + i]
  <2>1. i \in 1..((n - (k + 1)) + 1) /\ ((k + 1) + i) - 1 = k + i
    BY <1>1
  <2> QED
    BY <1>2, <2>1
<1> QED
  BY <1>2, <1>3, <1>4 DEF n, t

LEMMA ListLength ==
  ASSUME NEW items, Listed(items)
  PROVE  /\ items \in Seq(ItemOf) /\ DOMAIN items = 1..Len(items) /\ Len(items) \in Nat
         /\ \A i \in DOMAIN items : items[i] \in ItemOf /\ items[i].at \in Nat
<1>1. items \in Seq(ItemOf) /\ DOMAIN items = 1..Len(items) /\ Len(items) \in Nat
  BY DEF Listed
<1>2. \A i \in DOMAIN items : items[i] \in ItemOf
  BY <1>1
<1>3. \A x \in ItemOf : x.at \in Nat
  BY DEF ItemOf
<1> QED
  BY <1>1, <1>2, <1>3

(* A queue without the item of a condition holds every other item, in its order. *)
LEMMA WithoutLeaves ==
  ASSUME Listed(Items), NEW c \in Condition
  PROVE  /\ Listed(Without(c)) /\ \A i \in DOMAIN Without(c) : Without(c)[i].id # c
         /\ \A j \in DOMAIN Items : Items[j].id # c => \E i \in DOMAIN Without(c) : Without(c)[i] = Items[j]
         /\ \A i \in DOMAIN Without(c) : \E j \in DOMAIN Items : Without(c)[i] = Items[j]
         /\ Len(Without(c)) = IF Queued(c) THEN Len(Items) - 1 ELSE Len(Items)
<1>1. /\ Items \in Seq(ItemOf) /\ DOMAIN Items = 1..Len(Items) /\ Len(Items) \in Nat
      /\ \A i \in DOMAIN Items : Items[i] \in ItemOf /\ Items[i].at \in Nat
  BY ListLength
<1>2. CASE ~Queued(c)
  BY <1>1, <1>2 DEF Without, Queued
<1>3. CASE Queued(c)
  <2> DEFINE k == CHOOSE i \in DOMAIN Items : Items[i].id = c
             start == SubSeq(Items, 1, k - 1)
             after == SubSeq(Items, k + 1, Len(Items))
             rest == start \o after
  <2>1. k \in 1..Len(Items) /\ Items[k].id = c
    BY <1>1, <1>3 DEF Queued
  <2> HIDE DEF k
  <2>2. start \in Seq(ItemOf) /\ Len(start) = k - 1 /\ \A i \in 1..(k - 1) : start[i] = Items[i]
    <3>1. k - 1 \in 0..Len(Items)
      BY <1>1, <2>1
    <3> QED
      BY <1>1, <3>1, StartOf
  <2>3. /\ after \in Seq(ItemOf) /\ Len(after) = Len(Items) - k
        /\ \A i \in 1..(Len(Items) - k) : after[i] = Items[k + i]
    <3>1. k \in 0..Len(Items)
      BY <1>1, <2>1
    <3> QED
      BY <1>1, <3>1, RestOf
  <2> HIDE DEF start, after
  <2>4. /\ rest \in Seq(ItemOf) /\ Len(rest) = Len(Items) - 1
        /\ \A i \in 1..(Len(Items) - 1) : rest[i] = IF i < k THEN Items[i] ELSE Items[i + 1]
    <3>1. /\ rest \in Seq(ItemOf) /\ Len(rest) = Len(start) + Len(after)
          /\ \A i \in 1..(Len(start) + Len(after)) :
               rest[i] = IF i <= Len(start) THEN start[i] ELSE after[i - Len(start)]
      BY <2>2, <2>3, ConcatProperties
    <3>2. Len(rest) = Len(Items) - 1
      BY <1>1, <2>1, <2>2, <2>3, <3>1
    <3>3. ASSUME NEW i \in 1..(Len(Items) - 1)
          PROVE  rest[i] = IF i < k THEN Items[i] ELSE Items[i + 1]
      <4>1. CASE i < k
        BY <1>1, <2>1, <2>2, <2>3, <3>1, <4>1
      <4>2. CASE ~(i < k)
        <5>1. i - (k - 1) \in 1..(Len(Items) - k) /\ k + (i - (k - 1)) = i + 1 /\ ~(i <= k - 1)
          BY <1>1, <2>1, <4>2
        <5>2. rest[i] = after[i - (k - 1)]
          BY <1>1, <2>1, <2>2, <2>3, <3>1, <5>1
        <5> QED
          BY <2>3, <4>2, <5>1, <5>2
      <4> QED
        BY <4>1, <4>2
    <3> QED
      BY <3>1, <3>2, <3>3
  <2>5. Without(c) = rest
    BY <1>3 DEF Without, RemoveAt, k, start, after
  <2> HIDE DEF rest
  <2>6. DOMAIN rest = 1..(Len(Items) - 1)
    BY <1>1, <2>4
  <2>7. ASSUME NEW i \in DOMAIN rest
        PROVE  \E j \in DOMAIN Items : /\ rest[i] = Items[j] /\ j # k
                                       /\ j = IF i < k THEN i ELSE i + 1
    BY <1>1, <2>1, <2>4, <2>6
  <2>8. Once(rest) /\ NewestFirst(rest)
    <3> SUFFICES ASSUME NEW i \in DOMAIN rest, NEW j \in DOMAIN rest
                 PROVE  /\ rest[i].id = rest[j].id => i = j
                        /\ i < j => rest[i].at >= rest[j].at
      BY DEF Once, NewestFirst
    <3> DEFINE m == IF i < k THEN i ELSE i + 1
               n == IF j < k THEN j ELSE j + 1
    <3>1. m \in DOMAIN Items /\ n \in DOMAIN Items /\ rest[i] = Items[m] /\ rest[j] = Items[n]
      BY <2>7
    <3>2. (m = n => i = j) /\ (i < j => m < n)
      BY <1>1, <2>1, <2>6
    <3> HIDE DEF m, n
    <3> QED
      BY <3>1, <3>2 DEF Listed, Once, NewestFirst
  <2>9. \A i \in DOMAIN rest : rest[i].id # c
    BY <1>1, <2>1, <2>7 DEF Listed, Once
  <2>10. ASSUME NEW j \in DOMAIN Items, Items[j].id # c
         PROVE  \E i \in DOMAIN rest : rest[i] = Items[j]
    <3>1. j # k
      BY <2>1, <2>10
    <3>2. CASE j < k
      <4>1. j \in 1..(Len(Items) - 1)
        BY <1>1, <2>1, <3>2
      <4>2. rest[j] = Items[j]
        BY <2>4, <3>2, <4>1
      <4> QED
        BY <2>6, <4>1, <4>2
    <3>3. CASE j > k
      <4>1. j - 1 \in 1..(Len(Items) - 1) /\ ~(j - 1 < k) /\ (j - 1) + 1 = j
        BY <1>1, <2>1, <3>3
      <4> QED
        BY <2>4, <2>6, <4>1
    <3> QED
      BY <1>1, <2>1, <3>1, <3>2, <3>3
  <2> QED
    BY <1>3, <2>4, <2>5, <2>7, <2>8, <2>9, <2>10 DEF Listed
<1> QED
  BY <1>2, <1>3

LEMMA NewerCounts ==
  ASSUME NEW items, Listed(items), NEW date \in Nat
  PROVE  /\ Newer(items, date) \in 0..Len(items)
         /\ \A i \in DOMAIN items : i <= Newer(items, date) <=> items[i].at > date
<1>1. /\ items \in Seq(ItemOf) /\ DOMAIN items = 1..Len(items) /\ Len(items) \in Nat
      /\ \A i \in DOMAIN items : items[i].at \in Nat
  BY ListLength
<1> DEFINE T == {0} \cup {i \in 1..Len(items) : items[i].at > date}
<1>2. T \in SUBSET Nat /\ T \subseteq 0..Len(items) /\ T # {}
  BY <1>1
<1>3. IsFiniteSet(T)
  BY <1>1, <1>2, FS_Interval, FS_Subset, 0 \in Int, Len(items) \in Int
<1>4. Max(T) \in T /\ \A t \in T : t <= Max(T)
  <2> HIDE DEF T
  <2> QED
    BY <1>2, <1>3, LargestExists
<1>5. Max(T) \in 0..Len(items)
  BY <1>2, <1>4
<1> DEFINE k == Max(T)
<1>6. \A i \in DOMAIN items : i <= k <=> items[i].at > date
  <2> SUFFICES ASSUME NEW i \in 1..Len(items)
               PROVE  i <= k <=> items[i].at > date
    BY <1>1
  <2>1. items[i].at > date => i <= k
    <3>1. items[i].at > date => i \in T
      OBVIOUS
    <3> HIDE DEF T
    <3> QED
      BY <1>4, <3>1
  <2>2. ASSUME i <= k
        PROVE  items[i].at > date
    <3>1. k \in 1..Len(items) /\ items[k].at > date
      <4>1. k # 0
        BY <1>5, <2>2
      <4> QED
        BY <1>4, <4>1
    <3>2. i = k \/ items[i].at >= items[k].at
      <4> HIDE DEF k
      <4> QED
        BY <1>1, <2>2, <3>1 DEF Listed, NewestFirst
    <3> HIDE DEF k
    <3> QED
      BY <1>1, <3>1, <3>2
  <2> QED
    BY <2>1, <2>2
<1> HIDE DEF T
<1> QED
  BY <1>5, <1>6 DEF Newer

LEMMA CutKeeps ==
  ASSUME NEW items, Listed(items)
  PROVE  /\ Kept(Cut(items)) /\ Len(Cut(items)) = IF Len(items) > Limit THEN Limit ELSE Len(items)
         /\ \A i \in DOMAIN Cut(items) : i \in DOMAIN items /\ Cut(items)[i] = items[i]
<1>1. /\ items \in Seq(ItemOf) /\ DOMAIN items = 1..Len(items) /\ Len(items) \in Nat
      /\ \A i \in DOMAIN items : items[i] \in ItemOf
  BY ListLength
<1> DEFINE n == IF Len(items) > Limit THEN Limit ELSE Len(items)
           cut == SubSeq(items, 1, n)
<1>2. n \in 0..Len(items) /\ n <= Limit /\ Limit \in Nat
  BY <1>1, QueueAssumption
<1> HIDE DEF n
<1>3. cut \in Seq(ItemOf) /\ Len(cut) = n /\ \A i \in 1..n : cut[i] = items[i]
  BY <1>1, <1>2, StartOf
<1>4. Cut(items) = cut
  BY DEF Cut, n
<1> HIDE DEF cut
<1>5. DOMAIN cut = 1..n
  BY <1>3
<1>6. Once(cut) /\ NewestFirst(cut)
  BY <1>1, <1>2, <1>3, <1>5 DEF Listed, Once, NewestFirst
<1> QED
  BY <1>1, <1>2, <1>3, <1>4, <1>5, <1>6 DEF Kept, Listed, n

LEMMA InsertedAfter ==
  ASSUME NEW s, NEW n \in Nat, NEW e
  PROVE  InsertAt(s, n + 1, e) = SubSeq(s, 1, n) \o <<e>> \o SubSeq(s, n + 1, Len(s))
<1>1. (n + 1) - 1 = n
  OBVIOUS
<1>2. InsertAt(s, n + 1, e) = SubSeq(s, 1, (n + 1) - 1) \o <<e>> \o SubSeq(s, n + 1, Len(s))
  BY DEF InsertAt
<1> QED
  BY <1>1, <1>2

Inserted(items, item) == InsertAt(items, Newer(items, item.at) + 1, item)

LEMMA InsertedKeeps ==
  ASSUME NEW items, Listed(items), NEW item \in ItemOf, \A i \in DOMAIN items : items[i].id # item.id
  PROVE  /\ Listed(Inserted(items, item)) /\ Len(Inserted(items, item)) = Len(items) + 1
         /\ \A i \in DOMAIN Inserted(items, item) :
              Inserted(items, item)[i] = item \/ \E j \in DOMAIN items : Inserted(items, item)[i] = items[j]
         /\ \A j \in DOMAIN items : \E i \in DOMAIN Inserted(items, item) : Inserted(items, item)[i] = items[j]
         /\ \E i \in DOMAIN Inserted(items, item) : Inserted(items, item)[i] = item
<1>1. /\ items \in Seq(ItemOf) /\ DOMAIN items = 1..Len(items) /\ Len(items) \in Nat
      /\ \A i \in DOMAIN items : items[i] \in ItemOf /\ items[i].at \in Nat
  BY ListLength
<1>2. item.at \in Nat
  BY DEF ItemOf
<1> DEFINE k == Newer(items, item.at)
           start == SubSeq(items, 1, k)
           after == SubSeq(items, k + 1, Len(items))
           r == (start \o <<item>>) \o after
<1>3. k \in 0..Len(items) /\ \A i \in DOMAIN items : i <= k <=> items[i].at > item.at
  BY <1>2, NewerCounts
<1>4. Inserted(items, item) = r
  <2>1. k \in Nat
    BY <1>1, <1>3
  <2> HIDE DEF k
  <2>2. InsertAt(items, k + 1, item) = r
    BY <2>1, InsertedAfter
  <2> QED
    BY <2>2 DEF Inserted, k
<1> HIDE DEF k
<1>5. start \in Seq(ItemOf) /\ Len(start) = k /\ \A i \in 1..k : start[i] = items[i]
  BY <1>1, <1>3, StartOf
<1>6. /\ after \in Seq(ItemOf) /\ Len(after) = Len(items) - k
      /\ \A i \in 1..(Len(items) - k) : after[i] = items[k + i]
  BY <1>1, <1>3, RestOf
<1> HIDE DEF start, after
<1> DEFINE front == start \o <<item>>
<1>7. front \in Seq(ItemOf) /\ Len(front) = k + 1 /\ \A i \in 1..(k + 1) : front[i] = IF i <= k THEN items[i] ELSE item
  <2>1. front = Append(start, item)
    BY <1>5
  <2> HIDE DEF front
  <2> QED
    BY <1>3, <1>5, <2>1
<1> HIDE DEF front
<1>8. /\ r \in Seq(ItemOf) /\ Len(r) = Len(items) + 1
      /\ \A i \in 1..(Len(items) + 1) :
           r[i] = IF i <= k THEN items[i] ELSE IF i = k + 1 THEN item ELSE items[i - 1]
  <2>1. /\ r \in Seq(ItemOf) /\ Len(r) = Len(front) + Len(after)
        /\ \A i \in 1..(Len(front) + Len(after)) :
             r[i] = IF i <= Len(front) THEN front[i] ELSE after[i - Len(front)]
    <3>1. r = front \o after
      BY DEF front
    <3> HIDE DEF r
    <3> QED
      BY <1>6, <1>7, <3>1, ConcatProperties
  <2> HIDE DEF r
  <2>2. Len(r) = Len(items) + 1
    BY <1>1, <1>3, <1>6, <1>7, <2>1
  <2>3. ASSUME NEW i \in 1..(Len(items) + 1)
        PROVE  r[i] = IF i <= k THEN items[i] ELSE IF i = k + 1 THEN item ELSE items[i - 1]
    <3>1. r[i] = IF i <= k + 1 THEN front[i] ELSE after[i - (k + 1)]
      BY <1>1, <1>3, <1>6, <1>7, <2>1
    <3>2. CASE i <= k + 1
      BY <1>1, <1>3, <1>7, <3>1, <3>2
    <3>3. CASE ~(i <= k + 1)
      <4> DEFINE n == i - (k + 1)
      <4>1. n \in 1..(Len(items) - k) /\ k + n = i - 1 /\ ~(i <= k) /\ i # k + 1
        <5>1. k \in Int /\ i \in Int /\ Len(items) \in Int
          BY <1>1, <1>3
        <5>2. n >= 1
          BY <3>3, <5>1
        <5>3. n <= Len(items) - k /\ n \in Int /\ k + n = i - 1
          BY <5>1
        <5> QED
          BY <3>3, <5>1, <5>2, <5>3
      <4> QED
        BY <1>6, <3>1, <3>3, <4>1
    <3> QED
      BY <3>2, <3>3
  <2> QED
    BY <2>1, <2>2, <2>3
<1> HIDE DEF r
<1>9. DOMAIN r = 1..(Len(items) + 1)
  BY <1>8
<1>10. NewestFirst(r)
  <2> SUFFICES ASSUME NEW i \in 1..(Len(items) + 1), NEW j \in 1..(Len(items) + 1), i < j
               PROVE  r[i].at >= r[j].at
    BY <1>9 DEF NewestFirst
  <2>1. CASE i = k + 1
    <3>1. ~(j <= k) /\ j # k + 1 /\ ~(j - 1 <= k) /\ j - 1 \in DOMAIN items
      BY <1>1, <1>3, <2>1
    <3>2. r[j] = items[j - 1] /\ r[i] = item
      BY <1>3, <1>8, <2>1, <3>1
    <3> QED
      BY <1>1, <1>2, <1>3, <3>1, <3>2
  <2>2. CASE j = k + 1
    <3>1. i <= k /\ i \in DOMAIN items
      BY <1>1, <1>3, <2>2
    <3>2. r[i] = items[i] /\ r[j] = item
      BY <1>3, <1>8, <2>2, <3>1
    <3> QED
      BY <1>1, <1>2, <1>3, <3>1, <3>2
  <2>3. CASE i # k + 1 /\ j # k + 1
    <3> DEFINE m == IF i <= k THEN i ELSE i - 1
               n == IF j <= k THEN j ELSE j - 1
    <3>1. r[i] = items[m] /\ r[j] = items[n]
      BY <1>8, <2>3
    <3>2. m \in DOMAIN items /\ n \in DOMAIN items /\ m < n
      BY <1>1, <1>3, <2>3
    <3> HIDE DEF m, n
    <3> QED
      BY <3>1, <3>2 DEF Listed, NewestFirst
  <2> QED
    BY <2>1, <2>2, <2>3
<1>11. Once(r)
  <2> SUFFICES ASSUME NEW i \in 1..(Len(items) + 1), NEW j \in 1..(Len(items) + 1), r[i].id = r[j].id
               PROVE  i = j
    BY <1>9 DEF Once
  <2> DEFINE m == IF i <= k THEN i ELSE i - 1
             n == IF j <= k THEN j ELSE j - 1
  <2>1. i # k + 1 => m \in DOMAIN items /\ r[i] = items[m]
    BY <1>1, <1>3, <1>8
  <2>2. j # k + 1 => n \in DOMAIN items /\ r[j] = items[n]
    BY <1>1, <1>3, <1>8
  <2>3. (i = k + 1 => r[i] = item) /\ (j = k + 1 => r[j] = item)
    BY <1>3, <1>8
  <2>4. i # k + 1 /\ j # k + 1 /\ m = n => i = j
    BY <1>3
  <2> HIDE DEF m, n
  <2> QED
    BY <2>1, <2>2, <2>3, <2>4 DEF Listed, Once
<1>12. \A i \in DOMAIN r : r[i] = item \/ \E j \in DOMAIN items : r[i] = items[j]
  <2> SUFFICES ASSUME NEW i \in 1..(Len(items) + 1), i # k + 1
               PROVE  \E j \in DOMAIN items : r[i] = items[j]
    BY <1>3, <1>8, <1>9
  <2> DEFINE m == IF i <= k THEN i ELSE i - 1
  <2>1. m \in DOMAIN items /\ r[i] = items[m]
    BY <1>1, <1>3, <1>8
  <2> QED
    BY <2>1
<1>13. ASSUME NEW j \in DOMAIN items
       PROVE  \E i \in DOMAIN r : r[i] = items[j]
  <2>1. CASE j <= k
    BY <1>1, <1>3, <1>8, <1>9, <2>1
  <2>2. CASE ~(j <= k)
    <3>1. j + 1 \in 1..(Len(items) + 1) /\ ~(j + 1 <= k) /\ j + 1 # k + 1 /\ (j + 1) - 1 = j
      BY <1>1, <1>3, <2>2
    <3> QED
      BY <1>8, <1>9, <3>1
  <2> QED
    BY <2>1, <2>2
<1>14. k + 1 \in DOMAIN r /\ r[k + 1] = item
  BY <1>1, <1>3, <1>8, <1>9
<1> QED
  BY <1>4, <1>8, <1>10, <1>11, <1>12, <1>13, <1>14 DEF Listed

(* The queue that a call writes: sorted, with the changed item unless that is among the oldest. *)
LEMMA WithKeeps ==
  ASSUME Kept(Items), NEW item \in ItemOf
  PROVE  /\ Kept(With(item))
         /\ \A i \in DOMAIN With(item) :
              With(item)[i] = item \/ \E j \in DOMAIN Items : With(item)[i] = Items[j]
         /\ Len(Items) = Limit => Len(With(item)) = Limit
         /\ \A x : x = item \/ (x.id # item.id /\ \E j \in DOMAIN Items : Items[j] = x) =>
              \/ \E i \in DOMAIN With(item) : With(item)[i] = x
              \/ Len(With(item)) = Limit /\ \A i \in DOMAIN With(item) : With(item)[i].at >= x.at
<1> DEFINE others == Without(item.id)
           r == Inserted(others, item)
           w == With(item)
<1>1. Listed(Items) /\ Len(Items) <= Limit /\ item.id \in Condition
  BY DEF Kept, ItemOf
<1>2. /\ Listed(others) /\ \A i \in DOMAIN others : others[i].id # item.id
      /\ \A j \in DOMAIN Items : Items[j].id # item.id => \E i \in DOMAIN others : others[i] = Items[j]
      /\ \A i \in DOMAIN others : \E j \in DOMAIN Items : others[i] = Items[j]
      /\ Len(others) = IF Queued(item.id) THEN Len(Items) - 1 ELSE Len(Items)
  BY <1>1, WithoutLeaves
<1> HIDE DEF others
<1>3. /\ Listed(r) /\ Len(r) = Len(others) + 1
      /\ \A i \in DOMAIN r : r[i] = item \/ \E j \in DOMAIN others : r[i] = others[j]
      /\ \A j \in DOMAIN others : \E i \in DOMAIN r : r[i] = others[j]
      /\ \E i \in DOMAIN r : r[i] = item
  BY <1>2, InsertedKeeps
<1>4. w = Cut(r)
  BY DEF With, Inserted, others
<1> HIDE DEF r, w
<1>5. /\ Kept(w) /\ Len(w) = IF Len(r) > Limit THEN Limit ELSE Len(r)
      /\ \A i \in DOMAIN w : i \in DOMAIN r /\ w[i] = r[i]
  BY <1>3, <1>4, CutKeeps
<1>6. Limit \in Nat /\ Len(Items) \in Nat /\ Len(r) \in Nat /\ DOMAIN r = 1..Len(r) /\ DOMAIN w = 1..Len(w)
  BY <1>1, <1>3, <1>5, ListLength, QueueAssumption DEF Kept
<1>7. \A i \in DOMAIN w : w[i] = item \/ \E j \in DOMAIN Items : w[i] = Items[j]
  BY <1>2, <1>3, <1>5
<1>8. Len(Items) = Limit => Len(w) = Limit
  BY <1>2, <1>3, <1>5, <1>6
<1>9. ASSUME NEW x, x = item \/ (x.id # item.id /\ \E j \in DOMAIN Items : Items[j] = x)
      PROVE  \/ \E i \in DOMAIN w : w[i] = x
             \/ Len(w) = Limit /\ \A i \in DOMAIN w : w[i].at >= x.at
  <2>1. PICK j \in DOMAIN r : r[j] = x
    BY <1>2, <1>3, <1>9
  <2>2. CASE j \in DOMAIN w
    BY <1>5, <2>1, <2>2
  <2>3. CASE j \notin DOMAIN w
    <3>1. Len(w) = Limit /\ j > Len(w)
      <4>1. j \in 1..Len(r) /\ ~(j \in 1..Len(w))
        BY <1>6, <2>1, <2>3
      <4>2. CASE Len(r) > Limit
        BY <1>5, <1>6, <4>1, <4>2
      <4>3. CASE ~(Len(r) > Limit)
        BY <1>5, <1>6, <4>1, <4>3
      <4> QED
        BY <4>2, <4>3
    <3>2. \A i \in DOMAIN w : i \in DOMAIN r /\ i < j
      BY <1>5, <1>6, <3>1
    <3> QED
      BY <1>3, <1>5, <2>1, <3>1, <3>2 DEF Listed, NewestFirst
  <2> QED
    BY <2>2, <2>3
<1> QED
  BY <1>5, <1>7, <1>8, <1>9 DEF w

LEMMA WithWaits ==
  ASSUME Kept(Items), NEW item \in ItemOf, NEW dates \in [Condition -> 0..clock], clock \in Nat,
         Waits(Items, dates), item.at >= clock, NEW date \in Nat, date <= item.at,
         date > 0 => item.status # "acknowledged"
  PROVE  Waits(With(item), [dates EXCEPT ![item.id] = date])
<1> DEFINE w == With(item)
           after == [dates EXCEPT ![item.id] = date]
<1>1. /\ Kept(w) /\ \A i \in DOMAIN w : w[i] = item \/ \E j \in DOMAIN Items : w[i] = Items[j]
      /\ Len(Items) = Limit => Len(w) = Limit
      /\ \A x : x = item \/ (x.id # item.id /\ \E j \in DOMAIN Items : Items[j] = x) =>
           \/ \E i \in DOMAIN w : w[i] = x
           \/ Len(w) = Limit /\ \A i \in DOMAIN w : w[i].at >= x.at
  BY WithKeeps
<1>2. \A i \in DOMAIN w : w[i].at \in Nat
  BY <1>1, ListLength DEF Kept
<1>3. item.at \in Nat /\ item.id \in Condition
  BY DEF ItemOf
<1> HIDE DEF w
<1> SUFFICES ASSUME NEW c \in Condition, after[c] > 0
             PROVE  IsOpenIn(w, c, after[c]) \/ IsFull(w, after[c])
  BY DEF Waits, w
<1>4. CASE c = item.id
  <2>1. after[c] = date /\ item.status # "acknowledged"
    BY <1>4
  <2>2. \/ \E i \in DOMAIN w : w[i] = item
        \/ Len(w) = Limit /\ \A i \in DOMAIN w : w[i].at >= item.at
    BY <1>1
  <2> HIDE DEF after
  <2> QED
    BY <1>2, <1>3, <1>4, <2>1, <2>2 DEF IsOpenIn, IsFull
<1>5. CASE c # item.id
  <2>1. after[c] = dates[c] /\ dates[c] \in 0..clock
    BY <1>5
  <2> HIDE DEF after
  <2>2. CASE IsOpenIn(Items, c, dates[c])
    <3>1. PICK j \in DOMAIN Items : Items[j].id = c /\ Items[j].status # "acknowledged" /\ Items[j].at >= dates[c]
      BY <2>2 DEF IsOpenIn
    <3>2. Items[j].at \in Nat
      BY ListLength DEF Kept
    <3>3. \/ \E i \in DOMAIN w : w[i] = Items[j]
          \/ Len(w) = Limit /\ \A i \in DOMAIN w : w[i].at >= Items[j].at
      BY <1>1, <1>5, <3>1
    <3> QED
      BY <1>2, <2>1, <3>1, <3>2, <3>3 DEF IsOpenIn, IsFull
  <2>3. CASE IsFull(Items, dates[c])
    <3>1. \A i \in DOMAIN w : w[i].at >= dates[c]
      BY <1>1, <1>3, <2>1, <2>3 DEF IsFull
    <3> QED
      BY <1>1, <2>1, <2>3, <3>1 DEF IsFull
  <2> QED
    BY <2>1, <2>2, <2>3 DEF Waits
<1> QED
  BY <1>4, <1>5

(* A call that finds the other process idle owes what the queue owed, and its own. *)
LEMMA BeginsFit ==
  ASSUME QueueInv, NEW p \in Process, work[p].at = "idle", clock' = clock + 1, UNCHANGED <<queue, owed>>,
         NEW item \in ItemOf, item.at >= clock, NEW date \in 0..(clock + 1), date <= item.at,
         date > 0 => item.status # "acknowledged", BeginsWork(p, item, date)
  PROVE  QueueInv'
<1>1. /\ QueueShapes /\ (~queue.torn => Waits(queue.items, owed))
      /\ queue.torn /\ owed # Nothing => \E q \in Process : work[q].at = "writing"
  BY DEF QueueInv
<1>2. /\ queue = [items |-> queue.items, torn |-> queue.torn] /\ Kept(queue.items) /\ clock \in Nat
      /\ owed \in [Condition -> 0..clock] /\ work = [q \in Process |-> work[q]]
      /\ \A q \in Process : WorkFits(work[q], clock)
  BY <1>1 DEF QueueShapes
<1> DEFINE others == {q \in Process \ {p} : work[q].at # "idle"}
           after == [owed EXCEPT ![item.id] = date]
           new == [at |-> "read", items |-> With(item), owed |-> after, overlapped |-> others # {}]
<1>3. /\ work' = [q \in Process |-> work'[q]] /\ work'[p] = new
      /\ \A q \in Process \ {p} : work'[q] = [work[q] EXCEPT !.overlapped = @ \/ q \in others]
  BY DEF BeginsWork
<1>4. Kept(Items)
  <2>1. Kept(<<>>)
    BY QueueAssumption DEF Kept, Listed, Once, NewestFirst
  <2> QED
    BY <1>2, <2>1 DEF Items
<1>5. Kept(With(item)) /\ item.id \in Condition
  BY <1>4, WithKeeps DEF ItemOf
<1>6. after \in [Condition -> 0..(clock + 1)]
  BY <1>2, <1>5
<1>7. others = {} => Waits(With(item), after)
  <2> SUFFICES ASSUME others = {}
               PROVE  Waits(With(item), after)
    OBVIOUS
  <2>1. \A q \in Process : work[q].at # "writing"
    OBVIOUS
  <2>2. Waits(Items, owed)
    <3>1. CASE queue.torn
      <4>1. owed = Nothing
        BY <1>1, <2>1, <3>1
      <4> QED
        BY <4>1 DEF Waits, Nothing
    <3>2. CASE ~queue.torn
      BY <1>1, <3>2 DEF Items
    <3> QED
      BY <3>1, <3>2
  <2>3. date \in Nat
    BY <1>2
  <2> QED
    BY <1>2, <1>4, <2>2, <2>3, WithWaits
<1> HIDE DEF others, after
<1>8. WorkFits(new, clock + 1)
  BY <1>5, <1>6, <1>7 DEF WorkFits
<1>9. ASSUME NEW q \in Process \ {p}
      PROVE  WorkFits(work'[q], clock + 1) /\ work'[q].at = work[q].at
  <2> DEFINE x == work[q]
             y == [x EXCEPT !.overlapped = @ \/ q \in others]
  <2>1. work'[q] = y /\ WorkFits(x, clock)
    BY <1>2, <1>3
  <2> HIDE DEF x
  <2>2. /\ y.at = x.at /\ y.items = x.items /\ y.owed = x.owed /\ (~y.overlapped => ~x.overlapped)
        /\ y = [at |-> y.at, items |-> y.items, owed |-> y.owed, overlapped |-> y.overlapped]
    BY <2>1 DEF WorkFits
  <2>3. \A f \in [Condition -> 0..clock] : f \in [Condition -> 0..(clock + 1)]
    BY <1>2
  <2> HIDE DEF y
  <2> QED
    BY <2>1, <2>2, <2>3 DEF WorkFits, x
<1> HIDE DEF new
<1>10. \A q \in Process : WorkFits(work'[q], clock + 1)
  BY <1>3, <1>8, <1>9
<1>11. QueueShapes'
  <2>1. owed' \in [Condition -> 0..(clock + 1)] /\ clock + 1 \in Nat
    BY <1>2
  <2> QED
    BY <1>2, <1>3, <1>10, <2>1 DEF QueueShapes
<1>12. queue.torn /\ owed # Nothing => \E q \in Process : work'[q].at = "writing"
  BY <1>1, <1>9
<1> QED
  BY <1>1, <1>11, <1>12 DEF QueueInv, Nothing

LEMMA ObserveKeeps ==
  ASSUME QueueInv, NEW p \in Process, NEW c \in Condition, Observe(p, c)
  PROVE  QueueInv'
<1>1. /\ work[p].at = "idle" /\ clock' = clock + 1 /\ UNCHANGED <<queue, owed>>
      /\ clock \in Nat
  BY DEF Observe, Turn, QueueInv, QueueShapes
<1>2. PICK date \in {clock, clock + 1} \ {0} :
        BeginsWork(p, [id |-> c, status |-> StatusObserved(c), at |-> date], date)
  BY DEF Observe
<1> DEFINE item == [id |-> c, status |-> StatusObserved(c), at |-> date]
<1>3. StatusObserved(c) \in {"deferred", "open"}
  BY DEF StatusObserved
<1>4. /\ item \in ItemOf /\ item.id = c /\ item.at = date /\ item.status # "acknowledged"
      /\ date \in 0..(clock + 1) /\ date >= clock /\ date <= date
  BY <1>1, <1>2, <1>3 DEF ItemOf
<1> HIDE DEF item
<1>5. BeginsWork(p, item, date)
  BY <1>2 DEF item
<1> QED
  BY <1>1, <1>4, <1>5, BeginsFit

LEMMA MutateKeeps ==
  ASSUME QueueInv, NEW p \in Process, NEW c \in Condition,
         NEW status \in {"acknowledged", "deferred", "open"}, Mutate(p, c, status)
  PROVE  QueueInv'
<1>1. /\ work[p].at = "idle" /\ clock' = clock + 1 /\ UNCHANGED <<queue, owed>>
      /\ clock \in Nat
  BY DEF Mutate, Turn, QueueInv, QueueShapes
<1> DEFINE item == [id |-> c, status |-> status, at |-> clock + 1]
           date == IF status = "acknowledged" THEN 0 ELSE clock + 1
<1>2. BeginsWork(p, item, date)
  BY DEF Mutate
<1>3. /\ item \in ItemOf /\ item.at >= clock /\ date \in 0..(clock + 1) /\ date <= item.at
      /\ (date > 0 => item.status # "acknowledged")
  BY <1>1 DEF ItemOf
<1> HIDE DEF item, date
<1> QED
  BY <1>1, <1>2, <1>3, BeginsFit

LEMMA EmptyQueueKeeps ==
  ASSUME QueueInv, NEW p \in Process, EmptyQueue(p)
  PROVE  QueueInv'
<1>1. QueueShapes
  BY DEF QueueInv
<1>2. /\ work' = [work EXCEPT ![p].at = "writing"] /\ queue' = [queue EXCEPT !.torn = TRUE]
      /\ work[p].at = "read" /\ clock' = clock /\ owed' = owed
  BY DEF EmptyQueue
<1>3. /\ queue' = [items |-> queue'.items, torn |-> queue'.torn] /\ queue'.items = queue.items
      /\ queue'.torn = TRUE
  BY <1>1, <1>2 DEF QueueShapes
<1>4. /\ work' = [q \in Process |-> work'[q]] /\ work'[p] = [work[p] EXCEPT !.at = "writing"]
      /\ \A q \in Process \ {p} : work'[q] = work[q]
  BY <1>1, <1>2 DEF QueueShapes
<1>5. WorkFits(work'[p], clock) /\ work'[p].at = "writing"
  <2> DEFINE x == work[p]
  <2>1. WorkFits(x, clock) /\ x.at = "read" /\ work'[p] = [x EXCEPT !.at = "writing"]
    BY <1>1, <1>2, <1>4 DEF QueueShapes
  <2> HIDE DEF x
  <2> QED
    BY <2>1 DEF WorkFits
<1>6. QueueShapes'
  BY <1>1, <1>2, <1>3, <1>4, <1>5 DEF QueueShapes
<1> QED
  BY <1>3, <1>5, <1>6 DEF QueueInv

LEMMA NoWorkFits == \A time : WorkFits(NoWork, time)
BY DEF WorkFits, NoWork

LEMMA NothingWaits ==
  ASSUME NEW items, clock \in Nat
  PROVE  Waits(items, Nothing) /\ Nothing \in [Condition -> 0..clock]
BY DEF Waits, Nothing

LEMMA FillQueueKeeps ==
  ASSUME QueueInv, NEW p \in Process, FillQueue(p)
  PROVE  QueueInv'
<1>1. QueueShapes
  BY DEF QueueInv
<1>2. /\ work' = [work EXCEPT ![p] = NoWork] /\ queue' = [items |-> work[p].items, torn |-> FALSE]
      /\ owed' = (IF work[p].overlapped THEN Nothing ELSE work[p].owed)
      /\ work[p].at = "writing" /\ clock' = clock
  BY DEF FillQueue
<1>3. Kept(work[p].items) /\ work[p].owed \in [Condition -> 0..clock] /\ clock \in Nat
  BY <1>1, <1>2 DEF QueueShapes, WorkFits
<1>4. ~work[p].overlapped => Waits(work[p].items, work[p].owed)
  BY <1>1, <1>2 DEF QueueShapes, WorkFits
<1>5. Waits(queue'.items, owed') /\ owed' \in [Condition -> 0..clock]
  BY <1>2, <1>3, <1>4, NothingWaits
<1>6. work' = [q \in Process |-> work'[q]] /\ \A q \in Process : WorkFits(work'[q], clock)
  BY <1>1, <1>2, NoWorkFits DEF QueueShapes
<1>7. QueueShapes'
  BY <1>2, <1>3, <1>5, <1>6 DEF QueueShapes
<1> QED
  BY <1>2, <1>5, <1>7 DEF QueueInv

LEMMA KilledKeeps ==
  ASSUME QueueInv, NEW p \in Process, Killed(p)
  PROVE  QueueInv'
<1>1. QueueShapes
  BY DEF QueueInv
<1>2. /\ work' = [work EXCEPT ![p] = NoWork] /\ queue' = queue /\ clock' = clock
      /\ owed' = IF work[p].at = "writing" THEN Nothing ELSE owed
  BY DEF Killed
<1>3. clock \in Nat /\ owed \in [Condition -> 0..clock]
  BY <1>1 DEF QueueShapes
<1>4. owed' \in [Condition -> 0..clock] /\ (~queue.torn => Waits(queue.items, owed'))
  BY <1>2, <1>3, NothingWaits DEF QueueInv
<1>5. work' = [q \in Process |-> work'[q]] /\ \A q \in Process : WorkFits(work'[q], clock)
  BY <1>1, <1>2, NoWorkFits DEF QueueShapes
<1>6. QueueShapes'
  BY <1>1, <1>2, <1>4, <1>5 DEF QueueShapes
<1>7. queue.torn /\ owed' # Nothing => \E q \in Process : work'[q].at = "writing"
  <2>1. owed' # Nothing => owed # Nothing /\ work[p].at # "writing"
    BY <1>2
  <2>2. \A q \in Process \ {p} : work'[q] = work[q]
    BY <1>1, <1>2 DEF QueueShapes
  <2> QED
    BY <2>1, <2>2 DEF QueueInv
<1> QED
  BY <1>2, <1>4, <1>6, <1>7 DEF QueueInv, Nothing

LEMMA QueueInvInit == QueueInit => QueueInv
<1> SUFFICES ASSUME QueueInit
             PROVE  QueueInv
  OBVIOUS
<1>1. Kept(<<>>)
  BY QueueAssumption DEF Kept, Listed, Once, NewestFirst
<1>2. owed = Nothing /\ clock = 0
  BY DEF QueueInit, Nothing
<1>3. owed \in [Condition -> 0..clock] /\ Waits(queue.items, owed)
  BY <1>2, NothingWaits
<1>4. QueueShapes
  BY <1>1, <1>2, <1>3, NoWorkFits DEF QueueInit, QueueShapes
<1> QED
  BY <1>2, <1>3, <1>4 DEF QueueInv

LEMMA QueueInvStep == QueueInv /\ [QueueNext]_queueVars => QueueInv'
<1> SUFFICES ASSUME QueueInv, [QueueNext]_queueVars
             PROVE  QueueInv'
  OBVIOUS
<1>1. ASSUME NEW p \in Process, EmptyQueue(p)
      PROVE  QueueInv'
  BY <1>1, EmptyQueueKeeps
<1>2. ASSUME NEW p \in Process, FillQueue(p)
      PROVE  QueueInv'
  BY <1>2, FillQueueKeeps
<1>3. ASSUME NEW p \in Process, Killed(p)
      PROVE  QueueInv'
  BY <1>3, KilledKeeps
<1>4. ASSUME NEW p \in Process, NEW c \in Condition, Observe(p, c)
      PROVE  QueueInv'
  BY <1>4, ObserveKeeps
<1>5. ASSUME NEW p \in Process, NEW c \in Condition,
             NEW status \in {"acknowledged", "deferred", "open"}, Mutate(p, c, status)
      PROVE  QueueInv'
  BY <1>5, MutateKeeps
<1>6. CASE UNCHANGED queueVars
  BY <1>6 DEF QueueInv, QueueShapes, Nothing, queueVars
<1> QED
  BY <1>1, <1>2, <1>3, <1>4, <1>5, <1>6 DEF QueueNext

(* What was observed and not acknowledged waits for an operator or has made room for newer records,
   whatever the limit, the processes and conditions, the calls and the crashes.
   (upsertOperatorActionItem, mutateOperatorActionItem) *)
THEOREM OwedStaysOpen == QueueSpec => []OwedIsOpen
<1>1. ASSUME QueueInv
      PROVE  OwedIsOpen
  <2> SUFFICES ASSUME ~queue.torn, NEW c \in Condition, owed[c] > 0
               PROVE  \/ Queued(c) /\ Item(c).status # "acknowledged"
                      \/ Len(queue.items) = Limit /\ \A i \in 1..Limit : queue.items[i].at >= owed[c]
    BY DEF OwedIsOpen
  <2>1. Items = queue.items /\ Waits(Items, owed) /\ Listed(Items)
    BY <1>1 DEF Items, QueueInv, QueueShapes, Kept
  <2>2. CASE IsOpenIn(Items, c, owed[c])
    <3>1. PICK i \in DOMAIN Items : Items[i].id = c /\ Items[i].status # "acknowledged"
      BY <2>2 DEF IsOpenIn
    <3>2. Queued(c) /\ Item(c) = Items[i]
      BY <2>1, <3>1 DEF Queued, Item, Listed, Once
    <3> QED
      BY <3>1, <3>2
  <2>3. CASE IsFull(Items, owed[c])
    BY <2>1, <2>3, ListLength DEF IsFull
  <2> QED
    BY <2>1, <2>2, <2>3 DEF Waits
<1> QED
  BY <1>1, QueueInvInit, QueueInvStep, PTL DEF QueueSpec
================================================================================
