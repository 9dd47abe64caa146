---------------------------- MODULE PublicViews ----------------------------
(***************************************************************************)
(* A client that polls GET /events, GET /queue, GET /events/{id} or        *)
(* GET /events/{id}/products (public_views.py) while the scheduler's       *)
(* workers move the records it reads (module RecordMoves).                 *)
(*                                                                         *)
(* A view is no snapshot: it lists the queue, opens the listed entries one *)
(* by one, does the same with events/, then looks for journals, and for    *)
(* one event lists the archive and reads the evidence beside the current   *)
(* record.  A directory is opened by name and locked afterwards, so that   *)
(* it may have been moved when its status is read.                         *)
(***************************************************************************)
EXTENDS RecordMoves

VARIABLES
    overwrite,  \* the requests that delete what they replace
    archived,   \* replaced records in the archive
    deleted,    \* replaced records that were removed
    evidence,   \* the records whose provenance and manifest are written
    read,       \* the request being answered
    past        \* (for the properties) what was the case when it began

views == <<overwrite, archived, deleted, evidence, read, past>>
vars  == <<moves, views>>

Nobody == 0
First(S, s) == s \in S /\ \A r \in S : s <= r

Unseen == [s \in Sequences |-> "none"]
NoRead == [at |-> "idle", of |-> {}, unread |-> {}, names |-> {},
           stat |-> {}, opened |-> Nobody, queue |-> Unseen,
           current |-> Unseen, journals |-> {}, archives |-> {},
           found |-> {}, problem |-> FALSE, answer |-> "none"]
NoPast == [known |-> {}, blocked |-> {}, finished |-> {}]

(* Replaced records in their successor's private stage.                    *)
Staged == {p \in Sequences : place[p] = "retired"} \ (archived \cup deleted)

Set(r) == /\ read' = r
          /\ UNCHANGED <<moves, overwrite, archived, deleted, evidence>>
Step(r) == Set(r) /\ UNCHANGED past
Answer(r, answer) == [r EXCEPT !.at = "answered", !.answer = answer,
                               !.opened = Nobody, !.names = {}, !.stat = {}]

-----------------------------------------------------------------------------
(* scan_queue_records, under a shared flock of the queue directory.        *)

Begin(of) ==
    /\ read.at = "idle"
    /\ Set([NoRead EXCEPT !.at = "queue", !.of = of,
              !.unread = {s \in Sequences : place[s] = "queue"}])
    /\ past' = [known |-> {s \in Sequences : /\ status[s] # "none"
                                             /\ of = {} \/ event[s] \in of},
                blocked |-> {e \in Events : JournalLeft(e)},
                finished |-> {}]

Scanning(scan) == read.at = scan /\ read.opened = Nobody

OpenEntry(s) ==
    /\ Scanning("queue") /\ First(read.unread, s)
    /\ Step(IF place[s] = "queue"
            THEN [read EXCEPT !.opened = s]
            ELSE [read EXCEPT !.unread = @ \ {s}, !.problem = TRUE])

(* _validate_queue_entry waits for the record's lock; its descriptor       *)
(* follows the directory.                                                  *)
ReadEntryOpened(s) ==
    /\ read.at = "queue" /\ read.opened = s /\ s \notin held
    /\ Step([read EXCEPT !.opened = Nobody, !.unread = @ \ {s},
               !.problem = @ \/ s \in damaged \cup deleted,
               !.queue[s] = IF s \in damaged \cup deleted THEN @
                                                          ELSE status[s]])

QueueScanned == /\ Scanning("queue") /\ read.unread = {}
                /\ Step([read EXCEPT !.at = "scanned"])

-----------------------------------------------------------------------------
(* scan_current_records.  A name may lead to another calculation's record  *)
(* when it is opened than when it was listed.                              *)

Finished == {s \in Sequences : place[s] = "current" /\ status[s] \in Terminal}

ListCurrent ==
    /\ read.at = "scanned"
    /\ Set([read EXCEPT !.at = "current",
              !.names = {e \in Events : CurrentOf(e) # {}}])
    /\ past' = [past EXCEPT !.finished = Finished]

OpenCurrent(e) ==
    /\ Scanning("current") /\ e \in read.names
    /\ \/ /\ CurrentOf(e) = {}
          /\ Step([read EXCEPT !.names = @ \ {e}, !.problem = TRUE])
       \/ \E s \in CurrentOf(e) : Step([read EXCEPT !.opened = s])

ReadCurrent(s) ==
    /\ read.at = "current" /\ read.opened = s /\ s \notin held
    /\ Step([read EXCEPT !.opened = Nobody, !.names = @ \ {event[s]},
               !.problem = @ \/ s \in deleted,
               !.current[s] = IF s \in deleted THEN @ ELSE status[s]])

-----------------------------------------------------------------------------
(* build_operational_snapshot.                                             *)

(* Variant: a record found in the queue is not replaced.                   *)
ShownQueueFirst(s) == IF read.queue[s] # "none" THEN read.queue[s]
                                                ELSE read.current[s]

(* _merge_records                                                          *)
Shown(s) == IF read.current[s] # "none" THEN read.current[s] ELSE read.queue[s]

Rows == {s \in Sequences : Shown(s) # "none"}
Running == {s \in Sequences : "RUNNING" \in {read.queue[s], read.current[s]}}
Waiting == {s \in Rows : Shown(s) = "QUEUED"}

CurrentScanned ==
    /\ Scanning("current") /\ read.names = {}
    /\ Step(IF read.problem
            THEN Answer(read, "malformed")
            ELSE [read EXCEPT !.at = "journals",
                              !.names = {event[s] : s \in Waiting}])

(* current_transaction_present looks at events/<event> twice and raises    *)
(* when it has changed.                                                    *)
StatCurrent(e) ==
    /\ read.at = "journals" /\ read.stat = {} /\ e \in read.names
    /\ Step([read EXCEPT !.stat = {e},
               !.opened = IF CurrentOf(e) = {} THEN Nobody
                          ELSE CHOOSE s \in CurrentOf(e) : TRUE])

Same(e) == IF read.opened = Nobody THEN CurrentOf(e) = {}
                                   ELSE read.opened \in CurrentOf(e)

(* Variant: a journal beside the current record is not reported.           *)
InspectNothing(e) ==
    /\ read.at = "journals" /\ read.stat = {e}
    /\ Step([read EXCEPT !.names = @ \ {e}, !.stat = {}, !.opened = Nobody])

InspectCurrent(e) ==
    /\ read.at = "journals" /\ read.stat = {e}
    /\ \/ ~Same(e) /\ Step(Answer(read, "changed"))
       \/ /\ Same(e) /\ CurrentOf(e) \cap held = {}
          /\ Step([read EXCEPT !.names = @ \ {e}, !.stat = {},
                     !.opened = Nobody,
                     !.journals = IF JournalLeft(e) THEN @ \cup {e} ELSE @])

Reason(s) ==
    IF event[s] \in read.journals \cup {event[r] : r \in Running}
    THEN "same_event_active"
    ELSE IF Cardinality(Running) >= MaxConcurrent THEN "worker_capacity"
                                                  ELSE "awaiting_scheduler"

(* build_operational_views has all it needs.                               *)
SnapshotTaken ==
    /\ read.at = "journals" /\ read.names = {}
    /\ Step(IF read.of = {} THEN Answer(read, "rows")
                            ELSE [read EXCEPT !.at = "archive"])

-----------------------------------------------------------------------------
(* build_event_detail and build_current_product_summary.                   *)

Of(S) == {s \in S : event[s] \in read.of}

(* Variant: a private stage is taken for an archive.                       *)
ListedArchiveStaged ==
    Step(Answer([read EXCEPT !.archives = Of(archived \cup Staged)], "rows"))

(* The rows of the archive's trees.  A malformed tree is an error answer   *)
(* with nothing to say, and is left out.                                   *)
ListedArchive ==
    LET r == [read EXCEPT !.archives = Of(archived)] IN
        Step(IF Of(Rows) \cup r.archives = {} THEN Answer(r, "unknown")
             ELSE IF \A s \in Of(Rows) : read.current[s] = "none"
             THEN Answer(r, "rows")
             ELSE [r EXCEPT !.at = "evidence"])

(* Variant: the archive is listed without its lock.                        *)
ListArchiveUnlocked == read.at = "archive" /\ ListedArchive

(* _archive_trees waits for whoever holds the archive's lock.              *)
ListArchive == read.at = "archive" /\ held = {} /\ ListedArchive

(* Variant: the sequence in the file is not compared.                      *)
ReadEvidenceUnchecked ==
    /\ read.at = "evidence"
    /\ \E e \in read.of :
          Step(IF CurrentOf(e) = {} THEN Answer(read, "malformed")
               ELSE Answer([read EXCEPT !.found = CurrentOf(e) \cap evidence],
                           "rows"))

(* _read_optional_json_object: the file beside what is now the current     *)
(* record, if there is one; the row is that of the scan.  The paths of the *)
(* manifest and the logs, which _optional_regular_file attaches without    *)
(* looking whose they are, are left out.                                   *)
ReadEvidence ==
    /\ read.at = "evidence"
    /\ \E e \in read.of :
          LET there == CurrentOf(e) \cap evidence IN
          Step(IF \/ CurrentOf(e) = {}
                  \/ \E s \in there : read.current[s] = "none"
               THEN Answer(read, "malformed")
               ELSE Answer([read EXCEPT !.found = there], "rows"))

Reading == \/ QueueScanned \/ ListCurrent \/ CurrentScanned \/ SnapshotTaken
           \/ ListArchive \/ ReadEvidence
           \/ \E s \in Sequences :
                 OpenEntry(s) \/ ReadEntryOpened(s) \/ ReadCurrent(s)
           \/ \E e \in Events :
                 OpenCurrent(e) \/ StatCurrent(e) \/ InspectCurrent(e)

-----------------------------------------------------------------------------
(* The moves, as far as the views see them.                                *)

(* Provenance and manifest are published before the terminal record.       *)
WriteEvidence(s) ==
    /\ status[s] = "RUNNING" /\ place[s] = "current" /\ s \notin evidence
    /\ evidence' = evidence \cup {s}
    /\ UNCHANGED <<moves, overwrite, archived, deleted, read, past>>

Promoted == {s \in Sequences : place[s] # "current" /\ place'[s] = "current"}

(* A replaced record is in the private stage until its successor disposes  *)
(* of it, and is promoted, under the same locks.                           *)
Disposed(keep) == {p \in Staged : \E s \in Promoted :
                      event[p] = event[s] /\ keep = (s \notin overwrite)}

(* Submission waits for the scan to leave the queue directory.             *)
QueueUnlocked == read.at = "queue" => \A s \in Sequences :
                                        status[s] = "none" => status'[s] = "none"

Backed == \A s \in Sequences : status'[s] = "SUCCESS" => s \in evidence

Writing ==
    /\ Move /\ QueueUnlocked /\ Backed
    /\ archived' = archived \cup Disposed(TRUE)
    /\ deleted' = deleted \cup Disposed(FALSE)
    /\ past' = [past EXCEPT !.blocked = {e \in @ : JournalLeft(e)'}]
    /\ UNCHANGED <<overwrite, evidence, read>>

(* The answer is sent, or the service dies with the request.               *)
End == /\ read.at # "idle"
       /\ read' = NoRead /\ past' = NoPast
       /\ UNCHANGED <<moves, overwrite, archived, deleted, evidence>>

Init == /\ MovesInit
        /\ overwrite \in SUBSET Sequences
        /\ archived = {} /\ deleted = {} /\ evidence = {}
        /\ read = NoRead /\ past = NoPast

Next == \/ read.at # "answered" /\ Writing
        \/ \E s \in Sequences : WriteEvidence(s)
        \/ \E of \in {{}} \cup {{e} : e \in Events} : Begin(of)
        \/ Reading \/ End

Spec == Init /\ [][Next]_vars

(* A transaction comes to its end (NeverHangs of module Recalculation) and *)
(* releases its locks, and a released lock is granted to who waits for it. *)
Unlock(s) == s \in held /\ Writing /\ s \notin held'
FairSpec == Spec /\ SF_vars(Reading) /\ \A s \in Sequences : SF_vars(Unlock(s))

-----------------------------------------------------------------------------
(* The request stays in one of the code's stages, and what it shows as     *)
(* archived or as evidence exists.                                         *)
TypeOK ==
    /\ status \in [Sequences -> States] /\ place \in [Sequences -> Places]
    /\ {journal, damaged, held} \subseteq SUBSET Sequences
    /\ overwrite \subseteq Sequences /\ evidence \subseteq Sequences
    /\ archived \subseteq Sequences /\ deleted \subseteq Sequences
    /\ read.at \in {"idle", "queue", "scanned", "current", "journals",
                    "archive", "evidence", "answered"}
    /\ read.of \in SUBSET Events /\ read.names \in SUBSET Events
    /\ read.stat \in SUBSET read.names /\ read.journals \in SUBSET Events
    /\ read.unread \in SUBSET Sequences
    /\ read.opened \in Sequences \cup {Nobody}
    /\ {read.queue, read.current} \subseteq [Sequences -> States]
    /\ read.archives \in SUBSET archived /\ read.found \in SUBSET evidence
    /\ read.problem \in BOOLEAN
    /\ read.answer \in {"none", "rows", "unknown", "malformed", "changed"}

Answered(answers) == read.at = "answered" /\ read.answer \in answers

(* A view without error misses no calculation accepted before it began:    *)
(* the collection shows it unless it has been replaced, and the event's    *)
(* own view shows it among the jobs or the archives unless it has been     *)
(* deleted, or an interrupted transaction has left it in its stage.  The   *)
(* queue is read before events/, and the archive under its lock, so that a *)
(* record on its way is seen in one of the two.                            *)
NothingVanishes ==
    Answered({"rows", "unknown"}) => \A s \in past.known :
        IF read.of = {} THEN s \in Rows \/ place[s] = "retired"
        ELSE \/ s \in Rows \cup read.archives \cup deleted
             \/ s \in Staged /\ held = {}

(* A calculation that was current and terminal when events/ was listed,    *)
(* and still is current, is not shown as waiting or running, although it   *)
(* may have been read in the queue while it was: the merge prefers the     *)
(* later observation.                                                      *)
FinishedStaysFinished ==
    Answered({"rows"}) =>
        \A s \in past.finished :
            s \in Rows /\ place[s] = "current" => Shown(s) \in Terminal

(* The provenance or manifest shown with a row is that calculation's, and  *)
(* it is only missing from a successful row that has been replaced since.  *)
EvidenceBelongs ==
    Answered({"rows"}) =>
        /\ \A s \in read.found : s \in Of(Rows) /\ read.current[s] # "none"
        /\ \A s \in Of(Rows) : read.current[s] = "SUCCESS" /\ read.found = {}
                                 => place[s] = "retired"

(* While a journal left beside its current record keeps an event from      *)
(* being calculated, every waiting request for the event says so.          *)
BlockedIsSaid ==
    Answered({"rows"}) => \A s \in Waiting :
        event[s] \in past.blocked => Reason(s) = "same_event_active"

(* Every request is answered: what it waits for, the locks of a            *)
(* transaction, is released however the transaction ends.                  *)
ReadEnds == read.at # "idle" ~> read.at \in {"answered", "idle"}

(* "Durable calculation state is malformed" (main.py): a view that says so *)
(* has met a record that cannot be read.                                   *)
MalformedIsMalformed == Answered({"malformed"}) => damaged # {}

(* "Current, queued, and retained calculation details" (rest-api.md): an   *)
(* event with calculations is not unknown.                                 *)
KnownIsNotUnknown ==
    Answered({"unknown"}) => past.known = {}
=============================================================================
