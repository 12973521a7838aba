------------------------- MODULE ServiceUpdatesProofs -------------------------
(***************************************************************************)
(* For any archives and tags: while no two calls overlap and none dies,    *)
(* the files are those that are recorded whenever no call is under way,    *)
(* but for an archive misplaced or a record misnamed by a failure.         *)
(* UpdatesInv says of the one call there is what it holds, and what it has *)
(* still to write (Fits).                                                  *)
(***************************************************************************)
EXTENDS ServiceUpdates, TLAPS

May == Archive \cup {0}
Tag == {TagOf(a) : a \in Archive}
Word == {"installed", "available", "downloadedCandidate", "installDeferred", "failed"}
StateRecord == [state : Word, candidate : May]
Places ==
  Persisting \cup {"idle", "admit", "query", "fetch", "stop", "candidate", "hooks", "extract", "record",
                   "commit", "forget", "restart", "post"}
CallRecord ==
  [at : Places, kind : {"none", "check", "download", "install"}, force : BOOLEAN, expected : May,
   saw : StateRecord \cup {NoState}, found : May, backup : May, candidate : May, stopped : BOOLEAN]

UpdateTypes ==
  /\ published \in Archive /\ update \in StateRecord /\ stored \in [Tag -> May]
  /\ installed \in May /\ known \in May /\ extracted \in May

IsStored(archives) ==
  ~misplaced /\ update.candidate # 0 => archives[TagOf(update.candidate)] = update.candidate

AsNamed == ~misnamed => extracted \in {0, installed} /\ known = installed

(* What a call that is alone holds, and finds. *)
Downloads == {"query", "persistCheck", "fetch", "persistCandidate", "commit"}
Installs(x) == x.at \in {"hooks", "extract"} \/ (x.at = "stop" /\ x.expected # 0)

Fits(x) ==
  /\ x \in CallRecord /\ (x.at = "idle" => x = NoCall)
  /\ x.saw \in {NoState, update} /\ (x.at = "forget" => x.saw = NoState)
  /\ x.at \in Downloads => x.expected = 0
  /\ x.at \in {"fetch", "persistCandidate", "commit"} => x.found # 0
  /\ x.at = "commit" => update.candidate = x.found
  /\ IF x.at = "persistCandidate"
     THEN stored[TagOf(x.found)] = x.found /\ IsStored([stored EXCEPT ![TagOf(x.found)] = x.backup])
     ELSE IsStored(stored)
  /\ Installs(x) => /\ x.candidate # 0 /\ x.candidate = update.candidate
                    /\ x.expected # 0 => x.expected = x.candidate
  /\ IF x.at = "record" THEN ~misplaced => extracted = x.candidate ELSE AsNamed

Alone(c) == Fits(jobs[c]) /\ \A d \in Caller \ {c} : jobs[d] = NoCall

UpdatesInv ==
  ~overlapped /\ ~crashed =>
    /\ UpdateTypes /\ jobs = [c \in Caller |-> jobs[c]]
    /\ \E c \in Caller : Alone(c)

-----------------------------------------------------------------------------
Undisturbed == UpdatesInv /\ ~overlapped /\ ~crashed
Becomes(c, x) == jobs' = [jobs EXCEPT ![c] = x]

LEMMA AtWork ==
  ASSUME Undisturbed, NEW c \in Caller, jobs[c].at # "idle"
  PROVE  UpdateTypes /\ Alone(c) /\ Fits(jobs[c]) /\ jobs = [d \in Caller |-> jobs[d]]
BY DEF Undisturbed, UpdatesInv, Alone, NoCall

LEMMA CallStep ==
  ASSUME Undisturbed, NEW c \in Caller, Alone(c), NEW x, Becomes(c, x), UpdateTypes', Fits(x)'
  PROVE  UpdatesInv'
<1>1. jobs = [d \in Caller |-> jobs[d]]
  BY DEF Undisturbed, UpdatesInv
<1>2. jobs'[c] = x /\ jobs' = [d \in Caller |-> jobs'[d]]
  BY <1>1 DEF Becomes
<1>3. ASSUME NEW d \in Caller \ {c} PROVE jobs'[d] = NoCall
  BY <1>1 DEF Becomes, Alone
<1>4. Alone(c)'
  BY <1>2, <1>3 DEF Alone, Fits
<1> QED
  BY <1>2, <1>4 DEF UpdatesInv

(* A step that leaves the files and the update state alone; the record may be written from memory,
   or read from disk. *)
Rests ==
  /\ UNCHANGED <<update, published, stored, extracted, misplaced, misnamed>>
  /\ installed' \in {installed, known} /\ known' \in {installed, known}

LEMMA FilesRest ==
  ASSUME UNCHANGED <<update, files, published>>
  PROVE  Rests
BY DEF Rests, files, named, slips

LEMMA RestsNamed ==
  ASSUME Rests, AsNamed
  PROVE  AsNamed'
BY DEF Rests, AsNamed

LEMMA QuietFits ==
  ASSUME NEW x, Fits(x), Rests
  PROVE  Fits(x)'
<1>1. UNCHANGED <<update, stored, extracted, misplaced>> /\ (AsNamed => AsNamed')
  BY RestsNamed DEF Rests
<1>2. \A archives : IsStored(archives) => IsStored(archives)'
  BY <1>1 DEF IsStored
<1> QED
  BY <1>1, <1>2 DEF Fits, IsStored

LEMMA QuietStep ==
  ASSUME Undisturbed, NEW c \in Caller, Alone(c), NEW x, Becomes(c, x), Fits(x), Rests
  PROVE  UpdatesInv'
<1>1. UpdateTypes'
  BY DEF Undisturbed, UpdatesInv, UpdateTypes, Rests
<1> QED
  BY <1>1, QuietFits, CallStep

LEMMA IdleFits ==
  ASSUME UpdateTypes, IsStored(stored), AsNamed
  PROVE  Fits(NoCall)
<1>1. NoCall \in CallRecord
  BY DEF NoCall, CallRecord, May, Places
<1> QED
  BY <1>1 DEF Fits, NoCall, Downloads, Installs

Alike(x, y) ==
  /\ x.expected = y.expected /\ x.saw = y.saw /\ x.found = y.found /\ x.backup = y.backup
  /\ x.candidate = y.candidate

(* A call that goes on holds what it held. *)
LEMMA GoesOn ==
  ASSUME Undisturbed, NEW c \in Caller, jobs[c].at # "idle", NEW to \in Places, CallerGoes(c, to)
  PROVE  \E x : /\ Becomes(c, x) /\ x = [jobs[c] EXCEPT !.at = to] /\ x \in CallRecord /\ x.at = to
                /\ Alike(x, jobs[c])
<1>1. jobs[c] \in CallRecord /\ jobs = [d \in Caller |-> jobs[d]]
  BY AtWork DEF Fits
<1>2. PICK x : x = [jobs[c] EXCEPT !.at = to]
  OBVIOUS
<1>3. Becomes(c, x)
  BY <1>1, <1>2 DEF CallerGoes, Becomes
<1>4. x \in CallRecord /\ x.at = to
  BY <1>1, <1>2 DEF CallRecord
<1>5. /\ x.expected = jobs[c].expected /\ x.saw = jobs[c].saw /\ x.found = jobs[c].found
      /\ x.backup = jobs[c].backup /\ x.candidate = jobs[c].candidate
  BY <1>1, <1>2 DEF CallRecord
<1> QED
  BY <1>2, <1>3, <1>4, <1>5 DEF Alike

LEMMA EndStep ==
  ASSUME Undisturbed, NEW c \in Caller, jobs[c].at # "idle", CallerEnds(c), UpdateTypes',
         UNCHANGED published, IsStored(stored)', AsNamed'
  PROVE  UpdatesInv'
<1>1. PICK x : x = NoCall
  OBVIOUS
<1>2. Fits(NoCall)'
  <2>1. NoCall \in CallRecord
    BY DEF NoCall, CallRecord, May, Places
  <2> QED
    BY <2>1 DEF Fits, NoCall, Downloads, Installs
<1>3. Fits(x)'
  BY <1>1, <1>2 DEF Fits, NoCall
<1>4. Becomes(c, x) /\ Alone(c)
  BY <1>1, AtWork DEF CallerEnds, Becomes
<1> QED
  BY <1>3, <1>4, CallStep

QuietPlaces ==
  Places \ {"idle", "query", "persistCheck", "fetch", "persistCandidate", "commit", "hooks", "extract", "record",
            "stop", "forget"}

(* Leaving a place where nothing is under way for another such place. *)
LEMMA QuietGoes ==
  ASSUME Undisturbed, NEW c \in Caller, jobs[c].at \notin {"idle", "persistCandidate", "commit", "record"},
         NEW to \in QuietPlaces, CallerGoes(c, to), Rests
  PROVE  UpdatesInv'
<1>1. PICK x : /\ Becomes(c, x) /\ x \in CallRecord /\ x.at = to
               /\ Alike(x, jobs[c])
  BY GoesOn DEF QuietPlaces
<1>2. x.saw = jobs[c].saw
  BY <1>1 DEF Alike
<1>3. Fits(x)
  BY <1>1, <1>2, AtWork DEF Fits, QuietPlaces, Downloads, Installs
<1> QED
  BY <1>1, <1>3, AtWork, QuietStep

LEMMA QuietEnd ==
  ASSUME Undisturbed, NEW c \in Caller, jobs[c].at \notin {"idle", "persistCandidate", "commit", "record"},
         CallerEnds(c), Rests
  PROVE  UpdatesInv'
<1>1. UpdateTypes /\ IsStored(stored) /\ AsNamed
  BY AtWork DEF Fits
<1>2. UpdateTypes' /\ IsStored(stored)' /\ AsNamed' /\ UNCHANGED published
  BY <1>1, RestsNamed DEF Rests, UpdateTypes, IsStored
<1> QED
  BY <1>2, EndStep

-----------------------------------------------------------------------------
LEMMA ReadKeeps ==
  ASSUME Undisturbed, NEW c \in Caller, Read(c)
  PROVE  UpdatesInv'
<1>0. /\ jobs[c].at # "idle" /\ Fits(jobs[c]) /\ UpdateTypes /\ Alone(c)
      /\ jobs = [d \in Caller |-> jobs[d]] /\ Rests /\ jobs[c] \in CallRecord
  BY AtWork, FilesRest DEF Read, Persisting, rest, Fits
<1>1. PICK x : x = [jobs[c] EXCEPT !.saw = update]
  OBVIOUS
<1>2. Becomes(c, x)
  BY <1>0, <1>1 DEF Read, Becomes
<1>3. /\ x \in CallRecord /\ x.saw = update /\ x.at = jobs[c].at /\ x.expected = jobs[c].expected
      /\ x.found = jobs[c].found /\ x.backup = jobs[c].backup /\ x.candidate = jobs[c].candidate
  BY <1>0, <1>1 DEF CallRecord, UpdateTypes
<1>4. Fits(x)
  BY <1>0, <1>3 DEF Fits, Read, Installs, Persisting
<1> QED
  BY <1>0, <1>2, <1>4, QuietStep

(* What a call writes is what it read, with another word for the state. *)
LEMMA PersistStep ==
  ASSUME Undisturbed, NEW c \in Caller, NEW place, place \in Persisting \ {"persistCandidate"},
         NEW word \in Word, NEW to \in {"idle", "fetch", "forget"},
         Persists(c, place, [jobs[c].saw EXCEPT !.state = word], to), UNCHANGED <<files, published>>,
         to = "fetch" => place = "persistCheck" /\ jobs[c].found # 0
  PROVE  UpdatesInv'
<1>0. /\ jobs[c].at # "idle" /\ jobs[c].at = place /\ Fits(jobs[c]) /\ UpdateTypes /\ Alone(c)
      /\ jobs = [d \in Caller |-> jobs[d]] /\ jobs[c] \in CallRecord
  BY AtWork DEF Persists, Persisting, CallerAt, Fits
<1>1. jobs[c].saw = update
  BY <1>0 DEF Fits, Persists
<1>2. update' \in StateRecord /\ update'.candidate = update.candidate
  BY <1>0, <1>1 DEF Persists, UpdateTypes, StateRecord
<1>3. UpdateTypes' /\ IsStored(stored)' /\ AsNamed'
  BY <1>0, <1>2 DEF UpdateTypes, files, named, slips, Fits, IsStored, AsNamed, Persisting
<1>4. CASE to = "idle"
  BY <1>0, <1>3, <1>4, EndStep DEF Persists
<1>5. CASE to # "idle"
  <2>1. PICK x : x = [jobs[c] EXCEPT !.at = to, !.saw = NoState]
    OBVIOUS
  <2>2. Becomes(c, x)
    BY <1>0, <1>5, <2>1 DEF Persists, Becomes
  <2>3. /\ x \in CallRecord /\ x.saw = NoState /\ x.at = to /\ x.expected = jobs[c].expected
        /\ x.found = jobs[c].found
    BY <1>0, <2>1 DEF CallRecord, Places
  <2>4. Fits(x)'
    BY <1>0, <1>3, <1>5, <2>3 DEF Fits, Installs, Downloads
  <2> QED
    BY <1>0, <1>3, <2>2, <2>4, CallStep
<1> QED
  BY <1>4, <1>5

-----------------------------------------------------------------------------
LEMMA PublishKeeps ==
  ASSUME Undisturbed, Publish
  PROVE  UpdatesInv'
<1>1. PICK c \in Caller : Alone(c)
  BY DEF Undisturbed, UpdatesInv
<1>2. UpdateTypes' /\ jobs' = jobs /\ UNCHANGED <<update, stored, named, extracted, misplaced, misnamed>>
  BY DEF Undisturbed, UpdatesInv, UpdateTypes, Publish, files, named, slips
<1>3. PICK x : x = jobs[c]
  OBVIOUS
<1>4. Fits(x)'
  BY <1>1, <1>2, <1>3 DEF Alone, Fits, IsStored, AsNamed, named
<1>5. Becomes(c, x)
  BY <1>2, <1>3 DEF Becomes, Undisturbed, UpdatesInv
<1> QED
  BY <1>1, <1>2, <1>4, <1>5, CallStep

LEMMA SameCalls ==
  ASSUME Undisturbed, jobs' = jobs, Rests
  PROVE  UpdatesInv'
<1>1. PICK c \in Caller : Alone(c)
  BY DEF Undisturbed, UpdatesInv
<1>2. UpdateTypes'
  BY DEF Undisturbed, UpdatesInv, UpdateTypes, Rests
<1>3. PICK x : x = jobs[c]
  OBVIOUS
<1>4. Fits(x)'
  BY <1>1, <1>3, QuietFits DEF Alone
<1>5. Becomes(c, x)
  BY <1>3 DEF Becomes, Undisturbed, UpdatesInv
<1> QED
  BY <1>1, <1>2, <1>4, <1>5, CallStep

LEMMA BeginKeeps ==
  ASSUME Undisturbed, NEW c \in Caller, Begin(c)
  PROVE  UpdatesInv'
<1>1. CASE \E d \in Caller : ~CallerAt(d, "idle")
  BY <1>1 DEF Begin, UpdatesInv
<1>2. CASE \A d \in Caller : CallerAt(d, "idle")
  <2>1. PICK e \in Caller : Alone(e)
    BY DEF Undisturbed, UpdatesInv
  <2>2. jobs[e] = NoCall /\ Fits(NoCall)
    BY <1>2, <2>1 DEF Alone, Fits, CallerAt
  <2>3. \A d \in Caller : jobs[d] = NoCall
    BY <2>1, <2>2 DEF Alone
  <2>4. Alone(c)
    BY <2>2, <2>3 DEF Alone
  <2>5. PICK kind \in {"check", "download", "install"}, force \in BOOLEAN, guarded \in BOOLEAN :
          /\ guarded => kind = "install" /\ update.candidate # 0
          /\ jobs' = [jobs EXCEPT ![c] = [NoCall EXCEPT
                        !.at = IF kind = "install" THEN "admit" ELSE "query", !.kind = kind,
                        !.force = force, !.expected = IF guarded THEN update.candidate ELSE 0]]
    BY DEF Begin
  <2>6. PICK x : x = [NoCall EXCEPT
                       !.at = IF kind = "install" THEN "admit" ELSE "query", !.kind = kind,
                       !.force = force, !.expected = IF guarded THEN update.candidate ELSE 0]
    OBVIOUS
  <2>7. Becomes(c, x)
    BY <2>5, <2>6 DEF Becomes
  <2>8. update.candidate \in May
    BY DEF Undisturbed, UpdatesInv, UpdateTypes, StateRecord
  <2>9. x.expected = (IF guarded THEN update.candidate ELSE 0) /\ x.expected \in May
    BY <2>6, <2>8 DEF NoCall, May
  <2>10. /\ x.at = (IF kind = "install" THEN "admit" ELSE "query") /\ x.saw = NoState /\ x.kind = kind
         /\ x.found = 0 /\ x.backup = 0 /\ x.candidate = 0 /\ x.force = force /\ x.stopped = FALSE
         /\ x = [at |-> x.at, kind |-> x.kind, force |-> x.force, expected |-> x.expected, saw |-> x.saw,
                 found |-> x.found, backup |-> x.backup, candidate |-> x.candidate, stopped |-> x.stopped]
    BY <2>6 DEF NoCall
  <2>11. x \in CallRecord
    BY <2>9, <2>10 DEF CallRecord, May, Places
  <2>12. IsStored(stored) /\ AsNamed
    BY <2>2 DEF Fits, NoCall
  <2>13. Fits(x)
    BY <2>5, <2>9, <2>10, <2>11, <2>12 DEF Fits, Downloads, Installs
  <2>14. Rests
    BY FilesRest DEF Begin
  <2> QED
    BY <2>4, <2>7, <2>13, <2>14, QuietStep
<1> QED
  BY <1>1, <1>2

LEMMA QueryKeeps ==
  ASSUME Undisturbed, NEW c \in Caller, Query(c)
  PROVE  UpdatesInv'
<1>0. /\ jobs[c].at = "query" /\ Fits(jobs[c]) /\ UpdateTypes /\ Alone(c)
      /\ jobs = [d \in Caller |-> jobs[d]] /\ Rests /\ jobs[c] \in CallRecord
  BY AtWork, FilesRest DEF Query, CallerAt, rest, Fits
<1>1. PICK found \in {0, published} :
        jobs' = [jobs EXCEPT ![c].at = "persistCheck", ![c].found = found]
  BY DEF Query
<1>2. PICK x : x = [jobs[c] EXCEPT !.at = "persistCheck", !.found = found]
  OBVIOUS
<1>3. Becomes(c, x)
  BY <1>0, <1>1, <1>2 DEF Becomes
<1>4. found \in May
  BY <1>0, <1>1 DEF UpdateTypes, May
<1>5. x \in CallRecord /\ x.at = "persistCheck" /\ x.expected = jobs[c].expected /\ x.saw = jobs[c].saw
  BY <1>0, <1>2, <1>4 DEF CallRecord, Places, Persisting
<1>6. Fits(x)
  BY <1>0, <1>5 DEF Fits, Downloads, Installs
<1> QED
  BY <1>0, <1>3, <1>6, QuietStep

LEMMA PersistsKeep ==
  ASSUME Undisturbed, NEW c \in Caller,
         PersistDeferred(c) \/ PersistFailure(c) \/ PersistInstalled(c)
  PROVE  UpdatesInv'
<1>1. CASE PersistDeferred(c)
  BY <1>1, PersistStep DEF PersistDeferred, Persisting, rest, Word
<1>2. CASE PersistFailure(c)
  BY <1>2, PersistStep DEF PersistFailure, Persisting, rest, Word
<1>3. CASE PersistInstalled(c)
  <2>1. PICK word \in Word : Checked(jobs[c].saw, "latest") = [jobs[c].saw EXCEPT !.state = word]
    BY DEF Checked, Word
  <2>2. /\ Persists(c, "persistInstalled", [jobs[c].saw EXCEPT !.state = word], "forget")
        /\ UNCHANGED <<files, published>>
    BY <1>3, <2>1 DEF PersistInstalled, rest
  <2> QED
    BY <2>2, PersistStep DEF Persisting
<1> QED
  BY <1>1, <1>2, <1>3

LEMMA PersistCheckKeeps ==
  ASSUME Undisturbed, NEW c \in Caller, PersistCheck(c)
  PROVE  UpdatesInv'
<1>1. PICK status : status = Status(jobs[c].found)
  OBVIOUS
<1>2. PICK word \in Word : Checked(jobs[c].saw, status) = [jobs[c].saw EXCEPT !.state = word]
  BY DEF Checked, Word
<1>3. PICK to \in {"idle", "fetch", "forget"} :
        to = IF jobs[c].kind # "check" /\ status = "available" THEN "fetch" ELSE "idle"
  OBVIOUS
<1>4. /\ Persists(c, "persistCheck", [jobs[c].saw EXCEPT !.state = word], to)
      /\ UNCHANGED <<files, published>>
  BY <1>1, <1>2, <1>3 DEF PersistCheck, rest
<1>5. to = "fetch" => jobs[c].found # 0
  BY <1>1, <1>3 DEF Status
<1> QED
  BY <1>4, <1>5, PersistStep DEF Persisting

-----------------------------------------------------------------------------
(* The archive and the update state *)

LEMMA FetchKeeps ==
  ASSUME Undisturbed, NEW c \in Caller, Fetch(c)
  PROVE  UpdatesInv'
<1> DEFINE tag == TagOf(jobs[c].found)
<1>0. /\ jobs[c].at = "fetch" /\ Fits(jobs[c]) /\ UpdateTypes /\ Alone(c)
      /\ jobs = [d \in Caller |-> jobs[d]] /\ jobs[c] \in CallRecord
      /\ UNCHANGED <<update, installed, known, extracted, misplaced, misnamed, published>>
  BY AtWork DEF Fetch, CallerAt, rest, named, slips, Fits
<1>1. jobs[c].found # 0 /\ jobs[c].found \in Archive /\ tag \in Tag
  BY <1>0 DEF Fits, CallRecord, May, Tag
<1>2. stored' = [stored EXCEPT ![tag] = jobs[c].found]
      /\ jobs' = [jobs EXCEPT ![c].at = "persistCandidate", ![c].backup = stored[tag]]
  BY DEF Fetch
<1> HIDE DEF tag
<1>3. stored' \in [Tag -> May] /\ stored[tag] \in May /\ stored'[tag] = jobs[c].found
  BY <1>0, <1>1, <1>2 DEF UpdateTypes, May
<1>4. [stored' EXCEPT ![tag] = stored[tag]] = stored
  BY <1>0, <1>1, <1>2 DEF UpdateTypes
<1>5. PICK x : x = [jobs[c] EXCEPT !.at = "persistCandidate", !.backup = stored[tag]]
  OBVIOUS
<1>6. Becomes(c, x)
  BY <1>0, <1>2, <1>5 DEF Becomes
<1>7. /\ x \in CallRecord /\ x.at = "persistCandidate" /\ x.expected = jobs[c].expected
      /\ x.saw = jobs[c].saw /\ x.found = jobs[c].found /\ x.backup = stored[tag]
  BY <1>0, <1>3, <1>5 DEF CallRecord, Places, Persisting
<1>8. UpdateTypes'
  BY <1>0, <1>3 DEF UpdateTypes
<1>9. [stored' EXCEPT ![TagOf(x.found)] = x.backup] = stored /\ stored'[TagOf(x.found)] = x.found
  BY <1>3, <1>4, <1>7 DEF tag
<1>10. /\ IsStored(stored) /\ jobs[c].saw \in {NoState, update} /\ jobs[c].expected = 0
       /\ AsNamed /\ AsNamed'
  BY <1>0 DEF Fits, Downloads, AsNamed
<1>11. IsStored([stored EXCEPT ![TagOf(x.found)] = x.backup])'
  BY <1>0, <1>9, <1>10 DEF IsStored
<1>12. Fits(x)'
  BY <1>0, <1>1, <1>7, <1>9, <1>10, <1>11 DEF Fits, Installs
<1> QED
  BY <1>0, <1>6, <1>8, <1>12, CallStep

(* A call that fails goes to record the failure, or ends. *)
LEMMA FetchFailsKeeps ==
  ASSUME Undisturbed, NEW c \in Caller, FetchFails(c)
  PROVE  UpdatesInv'
BY FilesRest, QuietGoes DEF FetchFails, CallerAt, rest, QuietPlaces, Places, Persisting

LEMMA PersistCandidateKeeps ==
  ASSUME Undisturbed, NEW c \in Caller, PersistCandidate(c)
  PROVE  UpdatesInv'
<1>0. /\ jobs[c].at = "persistCandidate" /\ Fits(jobs[c]) /\ UpdateTypes /\ Alone(c)
      /\ jobs = [d \in Caller |-> jobs[d]] /\ jobs[c] \in CallRecord
      /\ UNCHANGED <<stored, installed, known, extracted, misnamed, published>> /\ jobs[c].saw # NoState
  BY AtWork DEF PersistCandidate, CallerAt, rest, named, Fits
<1>1. /\ jobs[c].saw = update /\ jobs[c].expected = 0 /\ jobs[c].found # 0 /\ jobs[c].found \in May
      /\ stored[TagOf(jobs[c].found)] = jobs[c].found /\ AsNamed
  BY <1>0 DEF Fits, Downloads, CallRecord
<1>2. update' = [update EXCEPT !.state = "downloadedCandidate", !.candidate = jobs[c].found]
  BY <1>1 DEF PersistCandidate
<1>3. update' \in StateRecord /\ update'.candidate = jobs[c].found
  BY <1>0, <1>1, <1>2 DEF UpdateTypes, StateRecord, Word
<1>4. UpdateTypes' /\ IsStored(stored)' /\ AsNamed'
  BY <1>0, <1>1, <1>3 DEF UpdateTypes, named, IsStored, AsNamed
<1>5. PICK x : x = [jobs[c] EXCEPT !.at = "commit", !.saw = NoState]
  OBVIOUS
<1>6. Becomes(c, x)
  BY <1>0, <1>5 DEF PersistCandidate, Becomes
<1>7. /\ x \in CallRecord /\ x.at = "commit" /\ x.saw = NoState /\ x.expected = jobs[c].expected
      /\ x.found = jobs[c].found
  BY <1>0, <1>1, <1>5 DEF CallRecord, Places
<1>8. Fits(x)'
  BY <1>1, <1>3, <1>4, <1>7 DEF Fits, Installs, Downloads
<1> QED
  BY <1>0, <1>4, <1>6, <1>8, CallStep

LEMMA CommitDownloadKeeps ==
  ASSUME Undisturbed, NEW c \in Caller, CommitDownload(c)
  PROVE  UpdatesInv'
<1>0. /\ jobs[c].at = "commit" /\ Fits(jobs[c]) /\ UpdateTypes /\ Alone(c)
      /\ jobs = [d \in Caller |-> jobs[d]] /\ jobs[c] \in CallRecord /\ Rests
  BY AtWork, FilesRest DEF CommitDownload, CallerAt, rest, Fits
<1>1. /\ jobs[c].expected = 0 /\ jobs[c].found # 0 /\ jobs[c].found \in May
      /\ update.candidate = jobs[c].found /\ IsStored(stored) /\ AsNamed
      /\ jobs[c].saw \in {NoState, update}
  BY <1>0 DEF Fits, Downloads, CallRecord
<1>2. CASE CallerEnds(c)
  <2>1. UpdateTypes' /\ IsStored(stored)' /\ AsNamed' /\ UNCHANGED published
    BY <1>0, <1>1, RestsNamed DEF Rests, UpdateTypes, IsStored
  <2> QED
    BY <1>0, <1>2, <2>1, EndStep
<1>3. CASE jobs' = [jobs EXCEPT ![c].at = "hooks", ![c].candidate = jobs[c].found]
  <2>1. PICK x : x = [jobs[c] EXCEPT !.at = "hooks", !.candidate = jobs[c].found]
    OBVIOUS
  <2>2. Becomes(c, x)
    BY <1>0, <1>3, <2>1 DEF Becomes
  <2>3. /\ x \in CallRecord /\ x.at = "hooks" /\ x.saw = jobs[c].saw /\ x.expected = jobs[c].expected
        /\ x.candidate = jobs[c].found
    BY <1>0, <1>1, <2>1 DEF CallRecord, Places
  <2>4. Fits(x)
    BY <1>1, <2>3 DEF Fits, Installs, Downloads
  <2> QED
    BY <1>0, <2>2, <2>4, QuietStep
<1> QED
  BY <1>2, <1>3 DEF CommitDownload

(* A call that leaves a download which failed: what it has to put back is put back, or misplaced. *)
LEMMA LeftDownload ==
  ASSUME Undisturbed, NEW c \in Caller, jobs[c].at \in {"persistCandidate", "commit"},
         LeavesDownload(c) \/ CallerEnds(c), stored' \in [Tag -> May],
         misplaced' \/ IsStored(stored)', UNCHANGED <<update, named, extracted, misnamed, published>>
  PROVE  UpdatesInv'
<1>0. /\ jobs[c].at # "idle" /\ Fits(jobs[c]) /\ UpdateTypes /\ Alone(c)
      /\ jobs = [d \in Caller |-> jobs[d]] /\ jobs[c] \in CallRecord
  BY AtWork DEF Fits
<1>1. AsNamed
  BY <1>0 DEF Fits
<1>2. UpdateTypes' /\ IsStored(stored)' /\ AsNamed'
  BY <1>0, <1>1 DEF UpdateTypes, named, IsStored, AsNamed
<1>3. CASE CallerEnds(c)
  BY <1>0, <1>2, <1>3, EndStep
<1>4. CASE jobs' = [jobs EXCEPT ![c].at = "persistFailure", ![c].saw = NoState]
  <2>1. PICK x : x = [jobs[c] EXCEPT !.at = "persistFailure", !.saw = NoState]
    OBVIOUS
  <2>2. Becomes(c, x)
    BY <1>0, <1>4, <2>1 DEF Becomes
  <2>3. x \in CallRecord /\ x.at = "persistFailure" /\ x.saw = NoState
    BY <1>0, <2>1 DEF CallRecord, Places, Persisting
  <2>4. Fits(x)'
    BY <1>2, <2>3 DEF Fits, Installs, Downloads
  <2> QED
    BY <1>0, <1>2, <2>2, <2>4, CallStep
<1> QED
  BY <1>3, <1>4 DEF LeavesDownload

LEMMA PutBack ==
  ASSUME Undisturbed, NEW c \in Caller, jobs[c].at \in {"persistCandidate", "commit"}
  PROVE  Restored(c) \in [Tag -> May] /\ Emptied(c) \in [Tag -> May] /\ stored \in [Tag -> May]
<1>1. Fits(jobs[c]) /\ UpdateTypes
  BY AtWork
<1>2. jobs[c].backup \in May /\ 0 \in May /\ stored \in [Tag -> May]
  BY <1>1 DEF Fits, CallRecord, May, UpdateTypes
<1> QED
  BY <1>2 DEF Restored, Emptied

LEMMA DownloadFailsKeeps ==
  ASSUME Undisturbed, NEW c \in Caller, DownloadFails(c)
  PROVE  UpdatesInv'
<1> DEFINE tag == TagOf(jobs[c].found)
<1>0. /\ jobs[c].at = "persistCandidate" /\ Fits(jobs[c])
      /\ UNCHANGED <<update, named, extracted, misplaced, misnamed, published>>
      /\ stored' = Restored(c) /\ LeavesDownload(c)
  BY AtWork DEF DownloadFails, CallerAt, rest, slips
<1>1. stored[tag] = jobs[c].found /\ IsStored([stored EXCEPT ![tag] = jobs[c].backup])
  BY <1>0 DEF Fits
<1>2. stored' = [stored EXCEPT ![tag] = jobs[c].backup]
  BY <1>0, <1>1 DEF Restored
<1> HIDE DEF tag
<1>3. IsStored(stored)' /\ stored' \in [Tag -> May]
  BY <1>0, <1>1, <1>2, PutBack DEF IsStored
<1> QED
  BY <1>0, <1>3, LeftDownload

LEMMA CommitFailsKeeps ==
  ASSUME Undisturbed, NEW c \in Caller, CommitFails(c) \/ RollbackFails(c)
  PROVE  UpdatesInv'
<1>1. /\ jobs[c].at \in {"persistCandidate", "commit"} /\ misplaced' = TRUE
      /\ stored' \in {stored, Restored(c), Emptied(c)} /\ (LeavesDownload(c) \/ CallerEnds(c))
      /\ UNCHANGED <<update, named, extracted, misnamed, published>>
  BY DEF CommitFails, RollbackFails, CallerAt, rest
<1>2. stored' \in [Tag -> May]
  BY <1>1, PutBack
<1> QED
  BY <1>1, <1>2, LeftDownload

-----------------------------------------------------------------------------
(* The install *)

LEMMA AdmitInstallKeeps ==
  ASSUME Undisturbed, NEW c \in Caller, AdmitInstall(c)
  PROVE  UpdatesInv'
<1>0. /\ jobs[c].at = "admit" /\ Fits(jobs[c]) /\ UpdateTypes /\ Alone(c)
      /\ Rests /\ jobs[c] \in CallRecord
  BY AtWork, FilesRest DEF AdmitInstall, CallerAt, rest, Fits
<1>1. PICK to \in {"stop", "candidate", "defer"} : CallerGoes(c, to) /\ (to = "stop" => jobs[c].expected = 0)
  BY DEF AdmitInstall, AfterAdmission
<1>2. CASE to # "stop"
  BY <1>0, <1>1, <1>2, QuietGoes DEF QuietPlaces, Places, Persisting
<1>3. CASE to = "stop"
  <2>1. PICK x : /\ Becomes(c, x) /\ x \in CallRecord /\ x.at = to
                 /\ Alike(x, jobs[c])
    BY <1>0, <1>1, <1>3, GoesOn DEF Places
  <2>2. x.saw = jobs[c].saw /\ x.expected = 0
    BY <1>1, <1>3, <2>1 DEF Alike
  <2>3. Fits(x)
    BY <1>0, <1>3, <2>1, <2>2 DEF Fits, Downloads, Installs
  <2> QED
    BY <1>0, <2>1, <2>3, QuietStep
<1> QED
  BY <1>2, <1>3

LEMMA StopForInstallKeeps ==
  ASSUME Undisturbed, NEW c \in Caller, StopForInstall(c)
  PROVE  UpdatesInv'
<1>0. /\ jobs[c].at = "stop" /\ Fits(jobs[c]) /\ UpdateTypes /\ Alone(c)
      /\ jobs = [d \in Caller |-> jobs[d]] /\ Rests /\ jobs[c] \in CallRecord
  BY AtWork, FilesRest DEF StopForInstall, StatePersisted, Rests, slips, CallerAt, rest, Fits
<1>1. PICK to \in {"candidate", "hooks"} : to = AfterStop(c) /\ (to = "hooks" <=> jobs[c].expected # 0)
  BY DEF AfterStop
<1>2. CASE CallerEnds(c)
  BY <1>0, <1>2, QuietEnd
<1>3. CASE CallerGoes(c, "defer")
  BY <1>0, <1>3, QuietGoes DEF QuietPlaces, Places, Persisting
<1>4. ASSUME NEW x, Becomes(c, x), x \in CallRecord, x.at = to, x.expected = jobs[c].expected,
             x.saw = jobs[c].saw, x.candidate = jobs[c].candidate
      PROVE  UpdatesInv'
  <2>1. Fits(x)
    BY <1>0, <1>1, <1>4 DEF Fits, Downloads, Installs
  <2> QED
    BY <1>0, <1>4, <2>1, QuietStep
<1>5. CASE CallerGoes(c, AfterStop(c))
  <2>1. PICK x : /\ Becomes(c, x) /\ x \in CallRecord /\ x.at = to
                 /\ Alike(x, jobs[c])
    BY <1>0, <1>1, <1>5, GoesOn DEF Places
  <2>2. x.saw = jobs[c].saw /\ x.expected = jobs[c].expected /\ x.candidate = jobs[c].candidate
    BY <2>1 DEF Alike
  <2> QED
    BY <1>4, <2>1, <2>2
<1>6. CASE jobs' = [jobs EXCEPT ![c].at = AfterStop(c), ![c].stopped = TRUE]
  <2>1. PICK x : x = [jobs[c] EXCEPT !.at = to, !.stopped = TRUE]
    OBVIOUS
  <2>2. Becomes(c, x)
    BY <1>0, <1>1, <1>6, <2>1 DEF Becomes
  <2>3. /\ x \in CallRecord /\ x.at = to /\ x.expected = jobs[c].expected
        /\ x.saw = jobs[c].saw /\ x.candidate = jobs[c].candidate
    BY <1>0, <1>1, <2>1 DEF CallRecord, Places
  <2> QED
    BY <1>4, <2>2, <2>3
<1> QED
  BY <1>2, <1>3, <1>5, <1>6 DEF StopForInstall

LEMMA CandidateKeeps ==
  ASSUME Undisturbed, NEW c \in Caller, Candidate(c)
  PROVE  UpdatesInv'
<1>0. /\ jobs[c].at = "candidate" /\ Fits(jobs[c]) /\ UpdateTypes /\ Alone(c)
      /\ jobs = [d \in Caller |-> jobs[d]] /\ Rests /\ jobs[c] \in CallRecord
  BY AtWork, FilesRest DEF Candidate, CallerAt, rest, Fits
<1>1. PICK a : a = update.candidate
  OBVIOUS
<1>2. CASE jobs[c].expected # 0 /\ (a # jobs[c].expected \/ stored[TagOf(a)] # a)
  <2>1. CallerEnds(c)
    BY <1>1, <1>2 DEF Candidate
  <2> QED
    BY <1>0, <2>1, QuietEnd
<1>3. CASE jobs[c].expected = 0 /\ a = 0
  <2>1. CallerGoes(c, "query")
    BY <1>1, <1>3 DEF Candidate
  <2>2. PICK x : /\ Becomes(c, x) /\ x \in CallRecord /\ x.at = "query"
                 /\ Alike(x, jobs[c])
    BY <1>0, <2>1, GoesOn DEF Places
  <2>3. x.saw = jobs[c].saw /\ x.expected = 0
    BY <1>3, <2>2 DEF Alike
  <2>4. Fits(x)
    BY <1>0, <2>2, <2>3 DEF Fits, Downloads, Installs
  <2> QED
    BY <1>0, <2>2, <2>4, QuietStep
<1>4. CASE /\ ~(jobs[c].expected # 0 /\ (a # jobs[c].expected \/ stored[TagOf(a)] # a))
           /\ ~(jobs[c].expected = 0 /\ a = 0)
  <2>1. jobs' = [jobs EXCEPT ![c].candidate = a,
                             ![c].at = IF jobs[c].expected = 0 THEN "hooks" ELSE "stop"]
    BY <1>1, <1>4 DEF Candidate
  <2>2. PICK to \in {"hooks", "stop"} : to = IF jobs[c].expected = 0 THEN "hooks" ELSE "stop"
    OBVIOUS
  <2>3. PICK x : x = [jobs[c] EXCEPT !.candidate = a, !.at = to]
    OBVIOUS
  <2>4. Becomes(c, x)
    BY <1>0, <2>1, <2>2, <2>3 DEF Becomes
  <2>5. a \in May
    BY <1>0, <1>1 DEF UpdateTypes, StateRecord
  <2>6. /\ x \in CallRecord /\ x.at = to /\ x.expected = jobs[c].expected
        /\ x.saw = jobs[c].saw /\ x.candidate = a
    BY <1>0, <2>2, <2>3, <2>5 DEF CallRecord, Places
  <2>7. a # 0 /\ (jobs[c].expected # 0 => jobs[c].expected = a)
    BY <1>4
  <2>8. IsStored(stored) /\ AsNamed /\ jobs[c].saw \in {NoState, update}
    BY <1>0 DEF Fits
  <2>9. Fits(x)
    BY <1>1, <2>2, <2>6, <2>7, <2>8 DEF Fits, Downloads, Installs
  <2> QED
    BY <1>0, <2>4, <2>9, QuietStep
<1> QED
  BY <1>2, <1>3, <1>4

LEMMA PreUpgradeKeeps ==
  ASSUME Undisturbed, NEW c \in Caller, PreUpgrade(c)
  PROVE  UpdatesInv'
<1>0. /\ jobs[c].at = "hooks" /\ Fits(jobs[c]) /\ Alone(c)
      /\ Rests
  BY AtWork, FilesRest DEF PreUpgrade, CallerAt, rest
<1>1. CASE CallerGoes(c, "persistFailure")
  BY <1>0, <1>1, QuietGoes DEF QuietPlaces, Places, Persisting
<1>2. CASE CallerGoes(c, "extract")
  <2>1. PICK x : /\ Becomes(c, x) /\ x \in CallRecord /\ x.at = "extract"
                 /\ Alike(x, jobs[c])
    BY <1>0, <1>2, GoesOn DEF Places
  <2>2. x.saw = jobs[c].saw /\ x.expected = jobs[c].expected /\ x.candidate = jobs[c].candidate
    BY <2>1 DEF Alike
  <2>3. Fits(x)
    BY <1>0, <2>1, <2>2 DEF Fits, Downloads, Installs
  <2> QED
    BY <1>0, <2>1, <2>3, QuietStep
<1> QED
  BY <1>1, <1>2 DEF PreUpgrade

LEMMA ExtractKeeps ==
  ASSUME Undisturbed, NEW c \in Caller, Extract(c)
  PROVE  UpdatesInv'
<1>0. /\ jobs[c].at = "extract" /\ Fits(jobs[c]) /\ UpdateTypes /\ Alone(c)
      /\ UNCHANGED <<update, stored, installed, known, misplaced, misnamed, published>>
      /\ jobs[c] \in CallRecord
  BY AtWork DEF Extract, CallerAt, rest, Fits, named, slips
<1>1. /\ jobs[c].candidate = update.candidate /\ jobs[c].candidate # 0 /\ jobs[c].candidate \in May
      /\ jobs[c].expected # 0 => jobs[c].expected = jobs[c].candidate
      /\ ~misplaced => stored[TagOf(jobs[c].candidate)] = jobs[c].candidate
      /\ IsStored(stored) /\ AsNamed /\ jobs[c].saw \in {NoState, update}
  BY <1>0 DEF Fits, Installs, IsStored, CallRecord
<1>2. ASSUME NEW to \in {"record", "persistFailure"}, CallerGoes(c, to), extracted' \in May,
             IF to = "record" THEN ~misplaced => extracted' = jobs[c].candidate
             ELSE extracted' \in {0, extracted}
      PROVE  UpdatesInv'
  <2>1. PICK x : /\ Becomes(c, x) /\ x \in CallRecord /\ x.at = to
                 /\ Alike(x, jobs[c])
    BY <1>0, <1>2, GoesOn DEF Places, Persisting
  <2>2. x.saw = jobs[c].saw /\ x.candidate = jobs[c].candidate
    BY <2>1 DEF Alike
  <2>3. UpdateTypes' /\ IsStored(stored)' /\ (to # "record" => AsNamed')
    BY <1>0, <1>1, <1>2 DEF UpdateTypes, IsStored, AsNamed
  <2>4. Fits(x)'
    BY <1>0, <1>1, <1>2, <2>1, <2>2, <2>3 DEF Fits, Downloads, Installs
  <2> QED
    BY <1>0, <2>1, <2>3, <2>4, CallStep
<1>3. CASE extracted' = Source(c) /\ CallerGoes(c, "record")
  <2>1. jobs[c].candidate \in Archive /\ TagOf(jobs[c].candidate) \in Tag
    BY <1>1 DEF May, Tag
  <2>2. extracted' \in May /\ (~misplaced => extracted' = jobs[c].candidate)
    BY <1>0, <1>1, <1>3, <2>1 DEF Source, UpdateTypes, CallRecord
  <2> QED
    BY <1>2, <1>3, <2>2
<1>4. CASE extracted' \in {0, extracted} /\ CallerGoes(c, "persistFailure")
  BY <1>0, <1>2, <1>4 DEF May, UpdateTypes
<1> QED
  BY <1>3, <1>4 DEF Extract

LEMMA RecordKeeps ==
  ASSUME Undisturbed, NEW c \in Caller, Record(c)
  PROVE  UpdatesInv'
<1>0. /\ jobs[c].at = "record" /\ Fits(jobs[c]) /\ UpdateTypes /\ Alone(c)
      /\ UNCHANGED <<update, stored, extracted, misplaced, published>> /\ jobs[c] \in CallRecord
      /\ installed' = jobs[c].candidate /\ known' = jobs[c].candidate /\ misnamed' = misplaced
      /\ CallerGoes(c, "persistInstalled")
  BY AtWork DEF Record, CallerAt, rest, Fits
<1>1. /\ ~misplaced => extracted = jobs[c].candidate
      /\ jobs[c].candidate \in May /\ IsStored(stored) /\ jobs[c].saw \in {NoState, update}
  BY <1>0 DEF Fits, CallRecord
<1>2. PICK x : /\ Becomes(c, x) /\ x \in CallRecord /\ x.at = "persistInstalled"
               /\ Alike(x, jobs[c])
  BY <1>0, GoesOn DEF Places, Persisting
<1>3. x.saw = jobs[c].saw
  BY <1>2 DEF Alike
<1>4. UpdateTypes' /\ IsStored(stored)' /\ AsNamed'
  BY <1>0, <1>1 DEF UpdateTypes, IsStored, AsNamed
<1>5. Fits(x)'
  BY <1>0, <1>1, <1>2, <1>3, <1>4 DEF Fits, Downloads, Installs
<1> QED
  BY <1>0, <1>2, <1>4, <1>5, CallStep

LEMMA RecordFailsKeeps ==
  ASSUME Undisturbed, NEW c \in Caller, RecordFails(c)
  PROVE  UpdatesInv'
<1>0. /\ jobs[c].at = "record" /\ Fits(jobs[c]) /\ UpdateTypes
      /\ UNCHANGED <<update, stored, installed, extracted, misplaced, published>>
      /\ known' = jobs[c].candidate /\ misnamed' = TRUE /\ CallerEnds(c)
  BY AtWork DEF RecordFails, CallerAt, rest
<1>1. jobs[c].candidate \in May /\ IsStored(stored)
  BY <1>0 DEF Fits, CallRecord
<1>2. UpdateTypes' /\ IsStored(stored)' /\ AsNamed'
  BY <1>0, <1>1 DEF UpdateTypes, IsStored, AsNamed
<1> QED
  BY <1>0, <1>2, EndStep

LEMMA PersistFailsKeeps ==
  ASSUME Undisturbed, NEW c \in Caller, PersistFails(c)
  PROVE  UpdatesInv'
<1>1. /\ jobs[c].at \notin {"idle", "persistCandidate", "commit", "record"}
      /\ CallerEnds(c) /\ Rests
  BY FilesRest DEF PersistFails, Persisting, rest
<1> QED
  BY <1>1, QuietEnd

LEMMA RuntimeDiesKeeps ==
  ASSUME Undisturbed, RuntimeDies
  PROVE  UpdatesInv'
<1>1. CASE ~Quiet
  BY <1>1 DEF RuntimeDies, UpdatesInv
<1>2. CASE Quiet
  <2>1. PICK c \in Caller : Alone(c)
    BY DEF Undisturbed, UpdatesInv
  <2>2. \A d \in Caller : jobs[d] = NoCall
    BY <1>2, <2>1 DEF Alone, Fits, Quiet, CallerAt
  <2>3. jobs' = jobs
    BY <2>2 DEF RuntimeDies, Undisturbed, UpdatesInv
  <2>4. Rests
    BY DEF RuntimeDies, Rests, slips
  <2> QED
    BY <2>3, <2>4, SameCalls
<1> QED
  BY <1>1, <1>2

LEMMA ForgetCandidateKeeps ==
  ASSUME Undisturbed, NEW c \in Caller, ForgetCandidate(c)
  PROVE  UpdatesInv'
<1>0. /\ jobs[c].at = "forget" /\ Fits(jobs[c]) /\ UpdateTypes /\ Alone(c)
      /\ UNCHANGED <<files, published>> /\ jobs[c] \in CallRecord
      /\ update' = [state |-> "installed", candidate |-> 0] /\ CallerGoes(c, "restart")
  BY AtWork DEF ForgetCandidate, CallerAt, rest, Fits
<1>1. jobs[c].saw = NoState /\ AsNamed
  BY <1>0 DEF Fits
<1>2. PICK x : /\ Becomes(c, x) /\ x \in CallRecord /\ x.at = "restart"
               /\ Alike(x, jobs[c])
  BY <1>0, GoesOn DEF Places
<1>3. x.saw = NoState
  BY <1>1, <1>2 DEF Alike
<1>4. UpdateTypes' /\ IsStored(stored)' /\ AsNamed'
  BY <1>0, <1>1 DEF UpdateTypes, IsStored, AsNamed, files, named, slips, StateRecord, Word, May
<1>5. Fits(x)'
  BY <1>2, <1>3, <1>4 DEF Fits, Downloads, Installs
<1> QED
  BY <1>0, <1>2, <1>4, <1>5, CallStep

LEMMA RestartKeeps ==
  ASSUME Undisturbed, NEW c \in Caller, Restart(c) \/ PostUpgrade(c)
  PROVE  UpdatesInv'
<1>0. jobs[c].at \in {"restart", "post"} /\ Rests
  BY FilesRest DEF Restart, PostUpgrade, StatePersisted, Rests, slips, CallerAt, rest
<1>1. CASE CallerEnds(c)
  BY <1>0, <1>1, QuietEnd
<1>2. CASE \E to \in {"post", "persistFailure"} : CallerGoes(c, to)
  BY <1>0, <1>2, QuietGoes DEF QuietPlaces, Places, Persisting
<1> QED
  BY <1>1, <1>2 DEF Restart, PostUpgrade

-----------------------------------------------------------------------------
LEMMA UpdatesInvInit == UpdatesInit => UpdatesInv
<1> SUFFICES ASSUME UpdatesInit PROVE UpdatesInv
  OBVIOUS
<1>1. /\ published \in Archive /\ installed \in May /\ extracted \in May
      /\ extracted = installed /\ known = installed
  BY ArchiveAssumption DEF UpdatesInit, May
<1>2. update \in StateRecord /\ update.candidate = 0
  BY DEF UpdatesInit, StateRecord, Word, May
<1>3. stored \in [Tag -> May]
  BY DEF UpdatesInit, Tag, May
<1>4. UpdateTypes /\ IsStored(stored) /\ AsNamed
  BY <1>1, <1>2, <1>3 DEF UpdateTypes, IsStored, AsNamed
<1>5. Fits(NoCall)
  BY <1>1, <1>4, IdleFits
<1>6. jobs = [c \in Caller |-> NoCall]
  BY DEF UpdatesInit
<1>7. Alone("operator") /\ "operator" \in Caller
  BY <1>5, <1>6 DEF Alone, Caller
<1> QED
  BY <1>4, <1>6, <1>7 DEF UpdatesInv

(* What the two histories have noted stays noted. *)
LEMMA HistoriesGrow ==
  ASSUME [UpdatesNext]_updateVars
  PROVE  overlapped' \in {overlapped, TRUE} /\ crashed' \in {crashed, TRUE}
<1>1. CASE UNCHANGED updateVars \/ Publish \/ StartService \/ RuntimeDies
  BY <1>1 DEF updateVars, Publish, StartService, RuntimeDies, rest
<1>2. ASSUME NEW c \in Caller, Begin(c) \/ Query(c) \/ Fetch(c) \/ FetchFails(c) \/ DownloadFails(c)
      PROVE  overlapped' \in {overlapped, TRUE} /\ crashed' \in {crashed, TRUE}
  BY <1>2 DEF Begin, Query, Fetch, FetchFails, DownloadFails, rest
<1>5. ASSUME NEW c \in Caller,
             CommitDownload(c) \/ CommitFails(c) \/ RollbackFails(c) \/ PersistFails(c) \/ RecordFails(c)
      PROVE  UNCHANGED <<overlapped, crashed>>
  BY <1>5 DEF CommitDownload, CommitFails, RollbackFails, PersistFails, RecordFails, rest
<1>3. ASSUME NEW c \in Caller,
             AdmitInstall(c) \/ StopForInstall(c) \/ Candidate(c) \/ PreUpgrade(c) \/ Extract(c) \/ Record(c)
      PROVE  UNCHANGED <<overlapped, crashed>>
  BY <1>3 DEF AdmitInstall, StopForInstall, Candidate, PreUpgrade, Extract, Record, rest
<1>4. ASSUME NEW c \in Caller,
             \/ ForgetCandidate(c) \/ Restart(c) \/ PostUpgrade(c) \/ Read(c) \/ PersistDeferred(c)
             \/ PersistFailure(c) \/ PersistCheck(c) \/ PersistCandidate(c) \/ PersistInstalled(c)
      PROVE  UNCHANGED <<overlapped, crashed>>
  BY <1>4 DEF ForgetCandidate, Restart, PostUpgrade, Read, PersistDeferred, PersistFailure, PersistCheck,
     PersistCandidate, PersistInstalled, rest
<1> QED
  BY <1>1, <1>2, <1>3, <1>4, <1>5 DEF UpdatesNext

LEMMA UpdatesInvStep == UpdatesInv /\ [UpdatesNext]_updateVars => UpdatesInv'
<1> SUFFICES ASSUME UpdatesInv, [UpdatesNext]_updateVars PROVE UpdatesInv'
  OBVIOUS
<1>1. CASE overlapped \/ crashed
  <2>1. overlapped' \/ crashed'
    BY <1>1, HistoriesGrow
  <2> QED
    BY <2>1 DEF UpdatesInv
<1>2. CASE ~overlapped /\ ~crashed
  <2>0. Undisturbed
    BY <1>2 DEF Undisturbed
  <2>1. CASE UNCHANGED updateVars
    BY <2>0, <2>1, SameCalls DEF updateVars, Rests
  <2>2. CASE Publish
    BY <2>0, <2>2, PublishKeeps
  <2>3. CASE StartService
    BY <2>0, <2>3, SameCalls DEF StartService, StatePersisted, Rests, slips, rest
  <2>4. CASE RuntimeDies
    BY <2>0, <2>4, RuntimeDiesKeeps
  <2>5. ASSUME NEW c \in Caller, Begin(c) \/ Query(c) \/ Read(c) PROVE UpdatesInv'
    BY <2>0, <2>5, BeginKeeps, QueryKeeps, ReadKeeps
  <2>6. ASSUME NEW c \in Caller,
               \/ PersistDeferred(c) \/ PersistFailure(c) \/ PersistInstalled(c)
               \/ PersistCheck(c) \/ PersistCandidate(c)
        PROVE  UpdatesInv'
    BY <2>0, <2>6, PersistsKeep, PersistCheckKeeps, PersistCandidateKeeps
  <2>7. ASSUME NEW c \in Caller, Fetch(c) \/ FetchFails(c) \/ DownloadFails(c) PROVE UpdatesInv'
    BY <2>0, <2>7, FetchKeeps, FetchFailsKeeps, DownloadFailsKeeps
  <2>8. ASSUME NEW c \in Caller,
               AdmitInstall(c) \/ StopForInstall(c) \/ Candidate(c) \/ PreUpgrade(c)
        PROVE  UpdatesInv'
    BY <2>0, <2>8, AdmitInstallKeeps, StopForInstallKeeps, CandidateKeeps, PreUpgradeKeeps
  <2>9. ASSUME NEW c \in Caller,
               Extract(c) \/ Record(c) \/ ForgetCandidate(c) \/ Restart(c) \/ PostUpgrade(c)
        PROVE  UpdatesInv'
    BY <2>0, <2>9, ExtractKeeps, RecordKeeps, ForgetCandidateKeeps, RestartKeeps
  <2>10. ASSUME NEW c \in Caller,
               CommitDownload(c) \/ CommitFails(c) \/ RollbackFails(c) \/ PersistFails(c) \/ RecordFails(c)
        PROVE  UpdatesInv'
    BY <2>0, <2>10, CommitDownloadKeeps, CommitFailsKeeps, PersistFailsKeeps, RecordFailsKeeps
  <2> QED
    BY <2>1, <2>2, <2>3, <2>4, <2>5, <2>6, <2>7, <2>8, <2>9, <2>10 DEF UpdatesNext
<1> QED
  BY <1>1, <1>2

LEMMA UpdatesInvShows == UpdatesInv => FilesAreThoseRecorded
<1> SUFFICES ASSUME UpdatesInv, Quiet, ~overlapped, ~crashed
             PROVE  IsStored(stored) /\ AsNamed
  BY DEF FilesAreThoseRecorded, IsStored, AsNamed
<1>1. PICK c \in Caller : Alone(c)
  BY DEF UpdatesInv
<1> QED
  BY <1>1 DEF Quiet, CallerAt, Alone, Fits

(* The inductive invariant.  A call that is alone knows the update state it has read, holds the
   archive that can be put back, and extracts what is stored; both histories are final.  What a
   failure misplaced or misnamed is so until it is replaced.  (Fits, downloadServiceUpdateCandidate,
   installServiceUpdateCandidate) *)
THEOREM UpdatesAreInvariant == UpdatesSpec => []UpdatesInv
<1> QED
  BY UpdatesInvInit, UpdatesInvStep, PTL DEF UpdatesSpec

(* FilesAreThoseRecorded: between calls that neither overlapped nor died, the candidate's archive is
   stored under its tag unless a failed commit or rollback misplaced it, and the files are those of
   the install record, or none, unless that record could not be written or their archive was
   misplaced.  (downloadToFile, downloadServiceUpdateCandidate, installServiceUpdateCandidate) *)
THEOREM UpdatesLeaveWhatTheyRecord == UpdatesSpec => []FilesAreThoseRecorded
<1> QED
  BY UpdatesAreInvariant, UpdatesInvShows, PTL
===============================================================================
