------------------------- MODULE PublicViewsProofs -------------------------
(***************************************************************************)
(* Proofs about the public views, for every set of events, every number of *)
(* records, of workers and of unreadable entries.                          *)
(***************************************************************************)
EXTENDS PublicViews, TLAPS

Stages == {"idle", "queue", "scanned", "current", "journals", "archive",
           "evidence", "answered"}
(* The stages after events/ was listed, and after it was read.             *)
Merged == {"journals", "archive", "evidence", "answered"}
Listed == {"current"} \cup Merged

Reads == [at : Stages, of : SUBSET Events, unread : SUBSET Sequences,
          names : SUBSET Events, stat : SUBSET Events,
          opened : Sequences \cup {Nobody}, queue : [Sequences -> States],
          current : [Sequences -> States], journals : SUBSET Events,
          archives : SUBSET Sequences, found : SUBSET Sequences,
          problem : BOOLEAN,
          answer : {"none", "rows", "unknown", "malformed", "changed"}]
Pasts == [known : SUBSET Sequences, blocked : SUBSET Events,
          finished : SUBSET Sequences]

Typed ==
    /\ event \in [Sequences -> Events] /\ status \in [Sequences -> States]
    /\ place \in [Sequences -> Places]
    /\ journal \subseteq Sequences /\ damaged \subseteq Sequences
    /\ held \subseteq Sequences
    /\ overwrite \subseteq Sequences /\ evidence \subseteq Sequences
    /\ archived \subseteq Sequences /\ deleted \subseteq Sequences
    /\ read \in Reads /\ past \in Pasts

(* The records: one of an event is current, and none while its predecessor *)
(* is in the private stage.                                                *)
Accepted == \A s \in Sequences : place[s] = "none" <=> status[s] = "none"
Unique == \A r, s \in Sequences :
    place[r] = "current" /\ place[s] = "current" /\ event[r] = event[s] => r = s
Disposal == \A s \in archived \cup deleted : place[s] = "retired"
Alone == \A p \in Staged, s \in Sequences :
    place[s] = "current" => event[p] # event[s]
Documented == \A s \in Sequences : status[s] = "SUCCESS" => s \in evidence

RecordsOK == Accepted /\ Unique /\ Disposal /\ Alone /\ Documented

(* The request: what its fields hold at each stage.                        *)
StageOK ==
    /\ read.of = {} \/ \E e \in Events : read.of = {e}
    /\ read.at \notin {"queue", "answered"} => read.unread = {}
    /\ read.at \notin Listed => read.current = Unseen /\ past.finished = {}
    /\ read.at = "idle" => past = NoPast
    /\ read.at = "scanned" => read.opened = Nobody
    /\ read.at # "journals" => read.stat = {}
    /\ read.stat \subseteq read.names
    /\ read.problem => read.at \in {"queue", "scanned", "current", "answered"}
    /\ read.problem /\ read.at = "answered" => read.answer = "malformed"
    /\ read.archives \subseteq archived /\ read.found \subseteq evidence
    /\ read.at # "answered" => read.found = {}

(* The name of s is still to be read, and will lead to s.                  *)
Awaited(s) ==
    /\ read.at = "current" /\ place[s] = "current" /\ event[s] \in read.names
    /\ read.opened # Nobody /\ event[read.opened] = event[s] => read.opened = s

Seen(s) == read.queue[s] # "none" \/ read.current[s] # "none"

(* A record opened in events/, and one that was read there.                *)
Observed(t) == \/ read.current[t] # "none"
               \/ read.at = "current" /\ read.opened = t

(* What was accepted before the request: it is still listed, was read, or  *)
(* has gone where it will be found.                                        *)
KnownAt(s) ==
    /\ place[s] # "none" /\ (read.of = {} \/ event[s] \in read.of)
    /\ read.at \in {"queue", "scanned"} =>
         s \in read.unread \/ Seen(s) \/ place[s] \in {"current", "retired"}
    /\ read.at \in Listed => Seen(s) \/ place[s] = "retired" \/ Awaited(s)
    /\ \A t \in Sequences : Observed(t) /\ event[t] = event[s] /\ ~Seen(s) =>
         t = s \/ s \in archived \cup deleted
    /\ read.at = "evidence" => Seen(s) \/ s \in read.archives \cup deleted

KnownOK == ~read.problem => \A s \in past.known : KnownAt(s)

ObservedOK == \A t \in Sequences :
    /\ Observed(t) => place[t] \in {"current", "retired"}
    /\ read.current[t] = "SUCCESS" => status[t] = "SUCCESS"

FinishedOK == \A s \in past.finished :
    /\ status[s] \in Terminal /\ place[s] \in {"current", "retired"}
    /\ read.current[s] \in {"none"} \cup Terminal
    /\ ~read.problem =>
         read.current[s] # "none" \/ place[s] = "retired" \/ Awaited(s)

BlockedOK ==
    /\ \A e \in past.blocked : JournalLeft(e)
    /\ read.at \in {"journals", "archive", "evidence"} =>
         \A s \in Waiting : \/ event[s] \in read.journals
                            \/ event[s] \notin past.blocked
                            \/ read.at = "journals" /\ event[s] \in read.names

Inv == /\ Typed /\ RecordsOK /\ StageOK /\ KnownOK /\ ObservedOK /\ FinishedOK
       /\ BlockedOK /\ NothingVanishes /\ EvidenceBelongs /\ BlockedIsSaid
-----------------------------------------------------------------------------
(* The moves of the records.                                               *)

MovesTyped ==
    /\ event \in [Sequences -> Events] /\ status \in [Sequences -> States]
    /\ place \in [Sequences -> Places]
    /\ journal \subseteq Sequences /\ damaged \subseteq Sequences
    /\ held \subseteq Sequences

(* A record goes through its places one after the other, and an outcome    *)
(* is final.                                                               *)
Forward(s) == \/ place'[s] = place[s]
              \/ place[s] = "none" /\ place'[s] = "queue"
              \/ place[s] = "queue" /\ place'[s] = "current"
              \/ place[s] = "current" /\ place'[s] = "retired"
Lasting(s) == /\ status[s] \in Terminal => status'[s] = status[s]
              /\ status[s] # "none" => status'[s] # "none"

(* No record is replaced beside a current one.                             *)
Vacated == \A p, s \in Sequences :
    place'[p] = "retired" /\ place'[s] = "current" /\ event[p] = event[s]
      => place[p] = "retired"

Advance == /\ MovesTyped' /\ event' = event /\ Accepted' /\ Unique' /\ Vacated
           /\ \A s \in Sequences : Forward(s) /\ Lasting(s)

LEMMA NewStatus ==
  ASSUME MovesTyped, Accepted, Unique, Alone, NEW s \in Sequences,
         NEW x \in States \ {"none"},
         status[s] \notin Terminal \cup {"none"},
         status' = [status EXCEPT ![s] = x], UNCHANGED <<event, place>>,
         journal' \subseteq Sequences, damaged' \subseteq Sequences,
         held' \subseteq Sequences
  PROVE  Advance
<1>1. MovesTyped'
  BY DEF MovesTyped
<1>2. Accepted'
  BY DEF MovesTyped, Accepted
<1>3. Unique' /\ Vacated
  BY DEF Unique, Vacated
<1>4. \A r \in Sequences : Forward(r) /\ Lasting(r)
  BY DEF MovesTyped, Forward, Lasting
<1> QED BY <1>1, <1>2, <1>3, <1>4 DEF Advance

LEMMA SamePlaces ==
  ASSUME MovesTyped, Accepted, Unique, Alone,
         UNCHANGED <<event, status, place>>,
         journal' \subseteq Sequences, damaged' \subseteq Sequences,
         held' \subseteq Sequences
  PROVE  Advance
BY DEF Advance, MovesTyped, Accepted, Unique, Vacated, Forward, Lasting

LEMMA AcceptAdvances ==
  ASSUME MovesTyped, Accepted, Unique, NEW s \in Sequences, Accept(s)
  PROVE  Advance
<1>1. /\ place[s] = "none" /\ status[s] = "none" /\ event' = event
      /\ status' = [status EXCEPT ![s] = "QUEUED"]
      /\ place' = [place EXCEPT ![s] = "queue"]
      /\ UNCHANGED <<journal, damaged, held>>
  BY DEF Accept, Accepted
<1>2. MovesTyped'
  BY <1>1 DEF MovesTyped, States, Places
<1>3. Accepted'
  BY <1>1 DEF MovesTyped, Accepted
<1>4. Unique' /\ Vacated
  BY <1>1 DEF MovesTyped, Unique, Vacated
<1>5. \A r \in Sequences : Forward(r) /\ Lasting(r)
  BY <1>1 DEF MovesTyped, Forward, Lasting, Terminal
<1> QED BY <1>1, <1>2, <1>3, <1>4, <1>5 DEF Advance

LEMMA StageAdvances ==
  ASSUME MovesTyped, Accepted, Unique, NEW s \in Sequences, Stage(s)
  PROVE  Advance
<1> DEFINE Out == CurrentOf(event[s]) \ {s}
<1>1. /\ s \in journal /\ UNCHANGED <<event, status, journal, damaged>>
      /\ place' = [p \in Sequences |-> IF p \in Out THEN "retired"
                                                     ELSE place[p]]
      /\ held' = held \cup {s}
  BY DEF Stage
<1>2. \A p \in Out : /\ p \in Sequences /\ place[p] = "current"
                     /\ event[p] = event[s] /\ p # s
  BY DEF CurrentOf
<1>3. \A p \in Sequences : place'[p] = "current" /\ event[p] = event[s] => p = s
  BY <1>1 DEF CurrentOf, MovesTyped
<1> HIDE DEF Out
<1>4. MovesTyped'
  BY <1>1 DEF MovesTyped, Places
<1>5. Accepted'
  BY <1>1, <1>2 DEF MovesTyped, Accepted
<1>6. Unique'
  BY <1>1 DEF MovesTyped, Unique
<1>7. Vacated
  <2> SUFFICES ASSUME NEW p \in Sequences, NEW q \in Sequences,
                      place'[p] = "retired", place'[q] = "current",
                      event[p] = event[q], place[p] # "retired"
               PROVE  FALSE
    BY DEF Vacated
  <2>1. p \in Out /\ place[q] = "current"
    BY <1>1
  <2>2. q = s /\ p # s
    BY <1>2, <1>3, <2>1
  <2> QED BY <1>2, <2>1, <2>2 DEF Unique
<1>8. \A r \in Sequences : Forward(r) /\ Lasting(r)
  BY <1>1, <1>2 DEF MovesTyped, Forward, Lasting
<1> QED BY <1>1, <1>4, <1>5, <1>6, <1>7, <1>8 DEF Advance

LEMMA PromoteAdvances ==
  ASSUME MovesTyped, Accepted, Unique, NEW s \in Sequences, Promote(s)
  PROVE  Advance
<1>1. /\ place[s] = "queue" /\ UNCHANGED <<event, status, journal, damaged>>
      /\ place' = [place EXCEPT ![s] = "current"]
      /\ held' \subseteq held
      /\ \A p \in Sequences : place[p] = "current" => event[p] # event[s]
  BY DEF Promote, CurrentOf
<1>2. MovesTyped'
  BY <1>1 DEF MovesTyped, Places
<1>3. Accepted'
  BY <1>1 DEF MovesTyped, Accepted
<1>4. Unique' /\ Vacated
  BY <1>1 DEF MovesTyped, Unique, Vacated
<1>5. \A r \in Sequences : Forward(r) /\ Lasting(r)
  BY <1>1 DEF MovesTyped, Forward, Lasting
<1> QED BY <1>1, <1>2, <1>3, <1>4, <1>5 DEF Advance

LEMMA MoveAdvances ==
  ASSUME MovesTyped, Accepted, Unique, Alone, Move
  PROVE  Advance
<1>1. ASSUME NEW s \in Sequences,
             Damage(s) \/ Repair(s) \/ Open(s) \/ RemoveJournal(s)
      PROVE  Advance
  BY <1>1, SamePlaces DEF Damage, Repair, Open, RemoveJournal, MovesTyped
<1>2. ASSUME NEW S \in SUBSET held, Release(S) PROVE Advance
  BY <1>2, SamePlaces DEF Release, MovesTyped
<1>3. ASSUME NEW s \in Sequences, Claim(s) PROVE Advance
  BY <1>3, NewStatus DEF Claim, MovesTyped, States, Terminal
<1>4. ASSUME NEW s \in Sequences, Finish(s) PROVE Advance
  BY <1>4, NewStatus DEF Finish, MovesTyped, States, Terminal
<1> QED
  BY <1>1, <1>2, <1>3, <1>4, AcceptAdvances, StageAdvances, PromoteAdvances
     DEF Move, Transaction

LEMMA RecordsStep ==
  ASSUME Typed, RecordsOK, Writing
  PROVE  RecordsOK'
<1>0. /\ MovesTyped /\ Accepted /\ Unique /\ Disposal /\ Alone /\ Documented
      /\ Move /\ Backed /\ evidence' = evidence
      /\ archived' = archived \cup Disposed(TRUE)
      /\ deleted' = deleted \cup Disposed(FALSE)
  BY DEF RecordsOK, Writing, Typed, MovesTyped
<1>1. Advance
  BY <1>0, MoveAdvances
<1>2. \A s \in Sequences : place[s] = "retired" => place'[s] = "retired"
  BY <1>1 DEF Advance, Forward
<1>3. Disposal'
  <2>1. \A p \in Disposed(TRUE) \cup Disposed(FALSE) :
           p \in Sequences /\ place[p] = "retired"
    BY DEF Disposed, Staged
  <2>2. \A s \in archived \cup deleted : s \in Sequences /\ place[s] = "retired"
    BY <1>0 DEF Disposal, Typed
  <2> QED BY <1>0, <1>2, <2>1, <2>2 DEF Disposal
<1>4. Alone'
  <2> SUFFICES ASSUME NEW p \in Staged', NEW s \in Sequences,
                      place'[s] = "current", event'[p] = event'[s]
               PROVE  FALSE
    BY DEF Alone
  <2>1. /\ p \in Sequences /\ place'[p] = "retired"
        /\ p \notin archived' \cup deleted' /\ event[p] = event[s]
    BY <1>1 DEF Staged, Advance
  <2>2. p \in Staged
    BY <1>0, <1>1, <2>1 DEF Staged, Advance, Vacated
  <2>3. s \in Promoted
    BY <1>0, <2>1, <2>2 DEF Alone, Promoted
  <2>4. p \in Disposed(TRUE) \cup Disposed(FALSE)
    BY <2>1, <2>2, <2>3 DEF Disposed
  <2> QED BY <1>0, <2>1, <2>4
<1>5. Documented'
  BY <1>0 DEF Documented, Backed
<1> QED BY <1>1, <1>3, <1>4, <1>5 DEF RecordsOK, Advance

(* What a move leaves of what a request has seen.                          *)
LEMMA WritingKeeps ==
  ASSUME Inv, Writing, read.at # "answered"
  PROVE  Inv'
<1>0. /\ Typed /\ MovesTyped /\ RecordsOK /\ StageOK /\ KnownOK /\ ObservedOK
      /\ FinishedOK /\ BlockedOK /\ Move
      /\ read' = read /\ evidence' = evidence /\ overwrite' = overwrite
      /\ archived' = archived \cup Disposed(TRUE)
      /\ deleted' = deleted \cup Disposed(FALSE)
      /\ past' = [past EXCEPT !.blocked = {e \in @ : JournalLeft(e)'}]
      /\ past \in Pasts
  BY DEF Inv, Writing, Typed, MovesTyped
<1>1. Advance
  BY <1>0, MoveAdvances DEF RecordsOK
<1>2. /\ past' \in Pasts /\ past'.known = past.known
      /\ past'.finished = past.finished
      /\ past'.blocked \subseteq past.blocked
      /\ \A e \in past'.blocked : JournalLeft(e)'
      /\ past = NoPast => past' = NoPast
  BY <1>0 DEF Pasts, NoPast
<1>3. event' = event /\ event \in [Sequences -> Events]
  BY <1>1 DEF Advance, MovesTyped, Typed, Inv
<1>4. Typed'
  <2>1. archived' \subseteq Sequences /\ deleted' \subseteq Sequences
    BY <1>0 DEF Disposed, Staged, Typed
  <2> QED BY <1>0, <1>1, <1>2, <2>1 DEF Typed, Advance, MovesTyped
<1>5. RecordsOK'
  BY <1>0, RecordsStep DEF Inv, Writing
<1>6. StageOK'
  BY <1>0, <1>2 DEF StageOK
<1>7. \A s \in Sequences :
        /\ place[s] # "none" => place'[s] # "none"
        /\ place[s] \in {"current", "retired"} =>
             place'[s] \in {"current", "retired"}
        /\ place[s] = "retired" => place'[s] = "retired"
        /\ Seen(s)' = Seen(s) /\ Observed(s)' = Observed(s)
        /\ Awaited(s) => Awaited(s)' \/ place'[s] = "retired"
  <2> SUFFICES ASSUME NEW s \in Sequences
               PROVE  /\ place[s] # "none" => place'[s] # "none"
                      /\ place[s] \in {"current", "retired"} =>
                           place'[s] \in {"current", "retired"}
                      /\ place[s] = "retired" => place'[s] = "retired"
                      /\ Seen(s)' = Seen(s) /\ Observed(s)' = Observed(s)
                      /\ Awaited(s) => Awaited(s)' \/ place'[s] = "retired"
    OBVIOUS
  <2>1. Forward(s)
    BY <1>1 DEF Advance
  <2>2. Awaited(s) => Awaited(s)' \/ place'[s] = "retired"
    BY <1>0, <1>3, <2>1 DEF Awaited, Forward
  <2>3. Seen(s)' = Seen(s) /\ Observed(s)' = Observed(s)
    BY <1>0 DEF Seen, Observed
  <2> QED BY <2>1, <2>2, <2>3 DEF Forward
<1>8. KnownOK'
  <2> SUFFICES ASSUME ~read.problem, NEW s \in past.known PROVE KnownAt(s)'
    BY <1>0, <1>2 DEF KnownOK
  <2>1. KnownAt(s) /\ s \in Sequences
    BY <1>0 DEF KnownOK, Pasts
  <2>2. /\ place'[s] # "none"
        /\ read'.of = {} \/ event'[s] \in read'.of
    BY <1>0, <1>3, <1>7, <2>1 DEF KnownAt
  <2>3. read'.at \in {"queue", "scanned"} =>
           s \in read'.unread \/ Seen(s)' \/ place'[s] \in {"current", "retired"}
    BY <1>0, <1>7, <2>1 DEF KnownAt
  <2>4. read'.at \in Listed =>
           Seen(s)' \/ place'[s] = "retired" \/ Awaited(s)'
    BY <1>0, <1>7, <2>1 DEF KnownAt
  <2>5. \A t \in Sequences :
           Observed(t)' /\ event'[t] = event'[s] /\ ~Seen(s)' =>
              t = s \/ s \in archived' \cup deleted'
    BY <1>0, <1>3, <1>7, <2>1 DEF KnownAt
  <2>6. read'.at = "evidence" => Seen(s)' \/ s \in read'.archives \cup deleted'
    BY <1>0, <1>7, <2>1 DEF KnownAt
  <2> QED BY <2>2, <2>3, <2>4, <2>5, <2>6 DEF KnownAt
<1>9. \A s \in Sequences : Lasting(s)
  BY <1>1 DEF Advance
<1>10. ObservedOK'
  BY <1>0, <1>7, <1>9 DEF ObservedOK, Lasting, Terminal
<1>11. FinishedOK'
  <2> SUFFICES ASSUME NEW s \in past.finished
               PROVE  /\ status'[s] \in Terminal
                      /\ place'[s] \in {"current", "retired"}
                      /\ read'.current[s] \in {"none"} \cup Terminal
                      /\ ~read'.problem => \/ read'.current[s] # "none"
                                           \/ place'[s] = "retired"
                                           \/ Awaited(s)'
    BY <1>2 DEF FinishedOK
  <2>1. s \in Sequences
    BY <1>0 DEF Pasts
  <2> QED BY <1>0, <1>7, <1>9, <2>1 DEF FinishedOK, Lasting
<1>12. BlockedOK'
  <2>1. Waiting' = Waiting
    BY <1>0 DEF Waiting, Rows, Shown
  <2> QED BY <1>0, <1>2, <1>3, <2>1 DEF BlockedOK
<1>13. (NothingVanishes /\ EvidenceBelongs /\ BlockedIsSaid)'
  BY <1>0 DEF NothingVanishes, EvidenceBelongs, BlockedIsSaid, Answered
<1> QED
  BY <1>4, <1>5, <1>6, <1>8, <1>10, <1>11, <1>12, <1>13 DEF Inv

-----------------------------------------------------------------------------
(* The steps of a request.  They leave the records alone.                  *)

Reader == UNCHANGED <<moves, overwrite, archived, deleted, evidence>>

LEMMA ReaderStep ==
  ASSUME Inv, Reader, read' \in Reads, past' \in Pasts
  PROVE  /\ Typed' /\ RecordsOK'
         /\ UNCHANGED <<event, status, place, journal, damaged, held, overwrite,
                        archived, deleted, evidence>>
<1>1. UNCHANGED <<event, status, place, journal, damaged, held, overwrite,
                  archived, deleted, evidence>>
  BY DEF Reader, moves
<1>2. Typed'
  BY <1>1 DEF Inv, Typed
<1>3. Staged' = Staged
  BY <1>1 DEF Staged
<1>4. RecordsOK'
  BY <1>1, <1>3 DEF Inv, RecordsOK, Accepted, Unique, Disposal, Alone,
     Documented
<1> QED BY <1>1, <1>2, <1>4

LEMMA Unanswered ==
  ASSUME Inv, Reader, read' \in Reads, past' \in Pasts, read'.at # "answered",
         StageOK', KnownOK', ObservedOK', FinishedOK', BlockedOK'
  PROVE  Inv'
BY ReaderStep DEF Inv, NothingVanishes, EvidenceBelongs, BlockedIsSaid, Answered

LEMMA UnseenTyped == Unseen \in [Sequences -> States]
                     /\ \A s \in Sequences : Unseen[s] = "none"
BY DEF Unseen, States

LEMMA NothingRead ==
  /\ NoRead \in Reads /\ NoPast \in Pasts
  /\ NoRead.at = "idle" /\ NoRead.of = {} /\ NoRead.unread = {}
  /\ NoRead.names = {} /\ NoRead.stat = {} /\ NoRead.opened = Nobody
  /\ NoRead.queue = Unseen /\ NoRead.current = Unseen
  /\ NoRead.journals = {} /\ NoRead.archives = {} /\ NoRead.found = {}
  /\ NoRead.problem = FALSE /\ NoRead.answer = "none"
  /\ NoPast.known = {} /\ NoPast.blocked = {} /\ NoPast.finished = {}
BY UnseenTyped DEF NoRead, NoPast, Reads, Pasts, Stages

LEMMA BeginKeeps ==
  ASSUME Inv, NEW of \in {{}} \cup {{e} : e \in Events}, Begin(of)
  PROVE  Inv'
<1> DEFINE waiting == {s \in Sequences : place[s] = "queue"}
           known == {s \in Sequences : /\ status[s] # "none"
                                       /\ of = {} \/ event[s] \in of}
           blocked == {e \in Events : JournalLeft(e)}
<1>1. /\ read' = [NoRead EXCEPT !.at = "queue", !.of = of, !.unread = waiting]
      /\ past' = [known |-> known, blocked |-> blocked, finished |-> {}]
      /\ Reader
  BY DEF Begin, Set, Reader
<1>2. of \subseteq Events
  OBVIOUS
<1>3. /\ read' \in Reads /\ read'.at = "queue" /\ read'.of = of
      /\ read'.unread = waiting /\ read'.stat = {} /\ read'.names = {}
      /\ read'.queue = Unseen /\ read'.current = Unseen
      /\ read'.archives = {} /\ read'.found = {} /\ read'.problem = FALSE
  BY <1>1, <1>2, NothingRead DEF Reads, Stages
<1>4. /\ past' \in Pasts /\ past'.known = known /\ past'.blocked = blocked
      /\ past'.finished = {}
  BY <1>1 DEF Pasts
<1>5. UNCHANGED <<event, status, place, journal, damaged, held, archived,
                  deleted, evidence>>
  BY <1>1, <1>3, <1>4, ReaderStep
<1>6. StageOK'
  BY <1>3, <1>4, <1>5 DEF StageOK, Listed, Merged
<1>7. KnownOK'
  <2> SUFFICES ASSUME NEW s \in known PROVE KnownAt(s)'
    BY <1>4 DEF KnownOK
  <2>1. s \in Sequences /\ status[s] # "none" /\ (of = {} \/ event[s] \in of)
    OBVIOUS
  <2>2. place[s] \in Places \ {"none"}
    BY <2>1 DEF Inv, Typed, RecordsOK, Accepted
  <2>3. s \in waiting \/ place[s] \in {"current", "retired"}
    BY <2>1, <2>2 DEF Places
  <2>4. \A t \in Sequences : ~Observed(t)'
    BY <1>3, UnseenTyped DEF Observed
  <2> HIDE DEF known, waiting
  <2> QED BY <1>3, <1>5, <2>1, <2>2, <2>3, <2>4 DEF KnownAt, Listed, Merged
<1>8. ObservedOK' /\ FinishedOK'
  BY <1>3, <1>4, UnseenTyped DEF ObservedOK, FinishedOK, Observed
<1>9. BlockedOK'
  <2>1. \A e \in blocked : JournalLeft(e)'
    BY <1>5 DEF JournalLeft, CurrentOf
  <2> QED BY <1>3, <1>4, <2>1 DEF BlockedOK
<1> QED BY <1>1, <1>3, <1>4, <1>6, <1>7, <1>8, <1>9, Unanswered

LEMMA EndKeeps == ASSUME Inv, End PROVE Inv'
<1>1. read' = NoRead /\ past' = NoPast /\ Reader
  BY DEF End, Reader
<1>2. UNCHANGED <<event, status, place, journal, damaged, held, archived,
                  deleted, evidence>>
  BY <1>1, NothingRead, ReaderStep
<1>3. StageOK'
  BY <1>1, NothingRead DEF StageOK
<1>4. KnownOK' /\ FinishedOK'
  BY <1>1, NothingRead DEF KnownOK, FinishedOK
<1>5. ObservedOK'
  BY <1>1, NothingRead, UnseenTyped DEF ObservedOK, Observed
<1>6. BlockedOK'
  BY <1>1, NothingRead DEF BlockedOK
<1> QED BY <1>1, <1>3, <1>4, <1>5, <1>6, NothingRead, Unanswered

LEMMA WriteEvidenceKeeps ==
  ASSUME Inv, NEW s \in Sequences, WriteEvidence(s)
  PROVE  Inv'
<1>1. /\ evidence' = evidence \cup {s} /\ read' = read /\ past' = past
      /\ UNCHANGED <<event, status, place, journal, damaged, held, overwrite,
                     archived, deleted>>
  BY DEF WriteEvidence, moves
<1>2. Typed'
  BY <1>1 DEF Inv, Typed
<1>3. Staged' = Staged
  BY <1>1 DEF Staged
<1>4. RecordsOK'
  BY <1>1, <1>3 DEF Inv, RecordsOK, Accepted, Unique, Disposal, Alone,
     Documented
<1>5. StageOK'
  BY <1>1 DEF Inv, StageOK
<1>6. KnownOK'
  BY <1>1 DEF Inv, KnownOK, KnownAt, Seen, Observed, Awaited
<1>7. ObservedOK' /\ FinishedOK'
  BY <1>1 DEF Inv, ObservedOK, FinishedOK, Observed, Awaited
<1>8. Rows' = Rows /\ Waiting' = Waiting /\ Running' = Running
  BY <1>1 DEF Rows, Waiting, Running, Shown
<1>9. BlockedOK'
  BY <1>1, <1>8 DEF Inv, BlockedOK, JournalLeft, CurrentOf
<1>10. NothingVanishes'
  BY <1>1, <1>3, <1>8 DEF Inv, NothingVanishes, Answered
<1>11. EvidenceBelongs'
  BY <1>1, <1>8 DEF Inv, EvidenceBelongs, Answered, Of
<1>12. BlockedIsSaid'
  BY <1>1, <1>8 DEF Inv, BlockedIsSaid, Answered, Reason
<1> QED
  BY <1>2, <1>4, <1>5, <1>6, <1>7, <1>9, <1>10, <1>11, <1>12 DEF Inv

-----------------------------------------------------------------------------
(* The scan of the queue.                                                  *)

LEMMA QueueStep ==
  ASSUME Inv, Reader, past' = past, read' \in Reads, KnownOK',
         read.at \in {"queue", "scanned"}, read'.at \in {"queue", "scanned"},
         read'.at = "scanned" => read'.unread = {} /\ read'.opened = Nobody,
         read'.of = read.of, read'.current = read.current,
         read'.names = read.names, read'.stat = read.stat,
         read'.archives = read.archives, read'.found = read.found
  PROVE  Inv'
<1>0. /\ StageOK /\ BlockedOK /\ past' \in Pasts
      /\ UNCHANGED <<event, status, place, journal, damaged, held, archived,
                     deleted, evidence>>
  BY ReaderStep DEF Inv, Typed
<1>1. past.finished = {} /\ read.current = Unseen
  BY <1>0 DEF StageOK, Listed, Merged
<1>2. StageOK'
  BY <1>0, <1>1 DEF StageOK
<1>3. ObservedOK' /\ FinishedOK'
  BY <1>1, UnseenTyped DEF ObservedOK, FinishedOK, Observed
<1>4. BlockedOK'
  BY <1>0 DEF BlockedOK, JournalLeft, CurrentOf
<1> QED BY <1>0, <1>2, <1>3, <1>4, Unanswered

(* In these stages nothing has been observed in events/.                   *)
LEMMA QueueKnown ==
  ASSUME Inv, Reader, past' = past, read' \in Reads,
         read'.at \in {"queue", "scanned"},
         read'.of = read.of, read'.current = Unseen,
         NEW s \in past.known, KnownAt(s),
         \/ s \in read'.unread \/ Seen(s)' \/ place[s] \in {"current", "retired"}
  PROVE  KnownAt(s)'
<1>0. /\ past' \in Pasts
      /\ UNCHANGED <<event, status, place, journal, damaged, held, archived,
                     deleted, evidence>>
  BY ReaderStep DEF Inv, Typed
<1>1. \A t \in Sequences : ~Observed(t)'
  BY UnseenTyped DEF Observed
<1> QED BY <1>0, <1>1 DEF KnownAt, Listed, Merged

LEMMA OpenEntryKeeps ==
  ASSUME Inv, NEW s \in Sequences, OpenEntry(s)
  PROVE  Inv'
<1>0. /\ read.at = "queue" /\ read \in Reads /\ past' = past /\ Reader
      /\ StageOK /\ KnownOK
  BY DEF OpenEntry, Scanning, Step, Set, Inv, Typed, Reader
<1>1. read.current = Unseen
  BY <1>0 DEF StageOK, Listed, Merged
<1>2. CASE place[s] = "queue"
  <2>1. read' = [read EXCEPT !.opened = s]
    BY <1>2 DEF OpenEntry, Step, Set
  <2>2. /\ read' \in Reads /\ read'.at = "queue" /\ read'.of = read.of
        /\ read'.unread = read.unread /\ read'.names = read.names
        /\ read'.stat = read.stat /\ read'.queue = read.queue
        /\ read'.current = read.current /\ read'.archives = read.archives
        /\ read'.found = read.found /\ read'.problem = read.problem
    BY <1>0, <2>1 DEF Reads
  <2>3. KnownOK'
    <3> SUFFICES ASSUME ~read.problem, NEW q \in past.known PROVE KnownAt(q)'
      BY <1>0, <2>2 DEF KnownOK
    <3>1. KnownAt(q)
      BY <1>0 DEF KnownOK
    <3>2. q \in read'.unread \/ Seen(q)' \/ place[q] \in {"current", "retired"}
      BY <1>0, <2>2, <3>1 DEF KnownAt, Seen
    <3> QED BY <1>0, <1>1, <2>2, <3>1, <3>2, QueueKnown
  <2> QED BY <1>0, <2>2, <2>3, QueueStep
<1>3. CASE place[s] # "queue"
  <2>1. read' = [read EXCEPT !.unread = @ \ {s}, !.problem = TRUE]
    BY <1>3 DEF OpenEntry, Step, Set
  <2>2. /\ read' \in Reads /\ read'.at = "queue" /\ read'.of = read.of
        /\ read'.names = read.names
        /\ read'.stat = read.stat
        /\ read'.current = read.current /\ read'.archives = read.archives
        /\ read'.found = read.found /\ read'.problem = TRUE
    BY <1>0, <2>1 DEF Reads
  <2>3. KnownOK'
    BY <2>2 DEF KnownOK
  <2> QED BY <1>0, <2>2, <2>3, QueueStep
<1> QED BY <1>2, <1>3

LEMMA ReadEntryKeeps ==
  ASSUME Inv, NEW s \in Sequences, ReadEntryOpened(s)
  PROVE  Inv'
<1> DEFINE lost == s \in damaged \cup deleted
<1>0. /\ read.at = "queue" /\ read \in Reads /\ past' = past /\ Reader
      /\ StageOK /\ KnownOK /\ past \in Pasts
  BY DEF ReadEntryOpened, Step, Set, Inv, Typed, Reader
<1>1. read.current = Unseen
  BY <1>0 DEF StageOK, Listed, Merged
<1>2. /\ status \in [Sequences -> States]
      /\ \A q \in Sequences : place[q] # "none" => status[q] # "none"
  BY DEF Inv, Typed, RecordsOK, Accepted
<1>3. read' = [read EXCEPT !.opened = Nobody, !.unread = @ \ {s},
                 !.problem = @ \/ s \in damaged \cup deleted,
                 !.queue[s] = IF s \in damaged \cup deleted THEN @ ELSE status[s]]
  BY DEF ReadEntryOpened, Step, Set
<1>4. /\ read' \in Reads /\ read'.at = "queue" /\ read'.of = read.of
      /\ read'.unread = read.unread \ {s} /\ read'.names = read.names
      /\ read'.stat = read.stat
      /\ read'.current = read.current /\ read'.archives = read.archives
      /\ read'.found = read.found
  BY <1>0, <1>2, <1>3 DEF Reads
<1>5. /\ read'.problem <=> read.problem \/ lost
      /\ ~lost => read'.queue = [read.queue EXCEPT ![s] = status[s]]
  BY <1>0, <1>3 DEF Reads
<1>6. KnownOK'
  <2> SUFFICES ASSUME ~read'.problem, NEW q \in past.known PROVE KnownAt(q)'
    BY <1>0 DEF KnownOK
  <2>1. ~lost /\ ~read.problem
    BY <1>5
  <2>2. KnownAt(q) /\ q \in Sequences
    BY <1>0, <2>1 DEF KnownOK, Pasts
  <2>3. read.queue \in [Sequences -> States] /\ place[q] # "none"
    BY <1>0, <2>2 DEF Reads, KnownAt
  <2>4. q \in read'.unread \/ Seen(q)' \/ place[q] \in {"current", "retired"}
    BY <1>0, <1>2, <1>4, <1>5, <2>1, <2>2, <2>3 DEF KnownAt, Seen
  <2> QED BY <1>0, <1>1, <1>4, <2>2, <2>4, QueueKnown
<1> QED BY <1>0, <1>4, <1>6, QueueStep

LEMMA QueueScannedKeeps == ASSUME Inv, QueueScanned PROVE Inv'
<1>0. /\ read.at = "queue" /\ read \in Reads /\ past' = past /\ Reader
      /\ StageOK /\ KnownOK /\ read.unread = {} /\ read.opened = Nobody
      /\ read' = [read EXCEPT !.at = "scanned"]
  BY DEF QueueScanned, Scanning, Step, Set, Inv, Typed, Reader
<1>1. /\ read' \in Reads /\ read'.at = "scanned" /\ read'.of = read.of
      /\ read'.unread = {} /\ read'.opened = Nobody
      /\ read'.names = read.names
      /\ read'.stat = read.stat /\ read'.queue = read.queue
      /\ read'.current = read.current /\ read'.archives = read.archives
      /\ read'.found = read.found /\ read'.problem = read.problem
  BY <1>0 DEF Reads, Stages
<1>2. read.current = Unseen
  BY <1>0 DEF StageOK, Listed, Merged
<1>3. KnownOK'
  <2> SUFFICES ASSUME ~read.problem, NEW q \in past.known PROVE KnownAt(q)'
    BY <1>0, <1>1 DEF KnownOK
  <2>1. KnownAt(q)
    BY <1>0 DEF KnownOK
  <2>2. q \in read'.unread \/ Seen(q)' \/ place[q] \in {"current", "retired"}
    BY <1>0, <1>1, <2>1 DEF KnownAt, Seen
  <2> QED BY <1>0, <1>1, <1>2, <2>1, <2>2, QueueKnown
<1> QED BY <1>0, <1>1, <1>3, QueueStep

-----------------------------------------------------------------------------
(* The scan of events/.                                                    *)

LEMMA CurrentStep ==
  ASSUME Inv, Reader, past' \in Pasts, past'.blocked = past.blocked,
         read' \in Reads, KnownOK', ObservedOK', FinishedOK',
         read.at \in {"scanned", "current"}, read'.at = "current",
         read'.of = read.of, read'.unread = read.unread,
         read'.stat = read.stat,
         read'.archives = read.archives, read'.found = read.found
  PROVE  Inv'
<1>0. /\ StageOK /\ BlockedOK
      /\ UNCHANGED <<event, status, place, journal, damaged, held, archived,
                     deleted, evidence>>
  BY ReaderStep DEF Inv, Typed
<1>1. StageOK'
  BY <1>0 DEF StageOK, Listed, Merged
<1>2. BlockedOK'
  BY <1>0 DEF BlockedOK, JournalLeft, CurrentOf
<1> QED BY <1>0, <1>1, <1>2, Unanswered

LEMMA ListCurrentKeeps == ASSUME Inv, ListCurrent PROVE Inv'
<1>0. /\ read.at = "scanned" /\ read \in Reads /\ past \in Pasts /\ Reader
      /\ StageOK /\ KnownOK /\ Typed
      /\ read' = [read EXCEPT !.at = "current",
                    !.names = {e \in Events : CurrentOf(e) # {}}]
      /\ past' = [past EXCEPT !.finished = Finished]
  BY DEF ListCurrent, Set, Inv, Typed, Reader
<1>1. /\ read' \in Reads /\ read'.at = "current" /\ read'.of = read.of
      /\ read'.unread = read.unread /\ read'.opened = read.opened
      /\ read'.names = {e \in Events : CurrentOf(e) # {}}
      /\ read'.stat = read.stat /\ read'.queue = read.queue
      /\ read'.current = read.current /\ read'.archives = read.archives
      /\ read'.found = read.found /\ read'.problem = read.problem
  BY <1>0 DEF Reads, Stages
<1>2. /\ past' \in Pasts /\ past'.known = past.known
      /\ past'.blocked = past.blocked /\ past'.finished = Finished
  BY <1>0 DEF Pasts, Finished
<1>3. /\ read.current = Unseen /\ read.opened = Nobody /\ read.unread = {}
  BY <1>0 DEF StageOK, Listed, Merged
<1>4. /\ UNCHANGED <<event, status, place, journal, damaged, held, archived,
                     deleted, evidence>>
  BY <1>0, <1>1, <1>2, ReaderStep
<1>5. \A t \in Sequences : ~Observed(t)'
  BY <1>1, <1>3, UnseenTyped DEF Observed, Nobody, Sequences
<1>6. \A s \in Sequences : place[s] = "current" => Awaited(s)'
  <2> SUFFICES ASSUME NEW s \in Sequences, place[s] = "current"
               PROVE  Awaited(s)'
    OBVIOUS
  <2>1. s \in CurrentOf(event[s]) /\ event[s] \in Events
    BY <1>0 DEF CurrentOf, Typed
  <2> QED BY <1>1, <1>3, <1>4, <2>1 DEF Awaited
<1>7. KnownOK'
  <2> SUFFICES ASSUME ~read.problem, NEW s \in past.known PROVE KnownAt(s)'
    BY <1>1, <1>2 DEF KnownOK
  <2>1. KnownAt(s) /\ s \in Sequences
    BY <1>0 DEF KnownOK, Pasts
  <2>2. Seen(s) \/ place[s] \in {"current", "retired"}
    BY <1>0, <1>3, <2>1 DEF KnownAt
  <2>3. Seen(s)' = Seen(s)
    BY <1>1 DEF Seen
  <2>4. Seen(s)' \/ place'[s] = "retired" \/ Awaited(s)'
    BY <1>4, <1>6, <2>1, <2>2, <2>3
  <2>5. place'[s] # "none" /\ (read'.of = {} \/ event'[s] \in read'.of)
    BY <1>1, <1>4, <2>1 DEF KnownAt
  <2> QED BY <1>1, <1>5, <2>4, <2>5 DEF KnownAt
<1>8. ObservedOK'
  BY <1>1, <1>3, <1>5, UnseenTyped DEF ObservedOK
<1>9. FinishedOK'
  BY <1>1, <1>2, <1>3, <1>4, <1>6, UnseenTyped DEF FinishedOK, Finished
<1> QED BY <1>0, <1>1, <1>2, <1>7, <1>8, <1>9, CurrentStep

LEMMA OpenCurrentKeeps ==
  ASSUME Inv, NEW e \in Events, OpenCurrent(e)
  PROVE  Inv'
<1>0. /\ read.at = "current" /\ read.opened = Nobody /\ e \in read.names
      /\ read \in Reads /\ past \in Pasts /\ past' = past /\ Reader
      /\ KnownOK /\ ObservedOK /\ FinishedOK /\ RecordsOK /\ Typed
  BY DEF OpenCurrent, Scanning, Step, Set, Inv, Typed, Reader
<1>1. CASE read' = [read EXCEPT !.names = @ \ {e}, !.problem = TRUE]
  <2>1. /\ read' \in Reads /\ read'.at = "current" /\ read'.of = read.of
        /\ read'.unread = read.unread /\ read'.opened = Nobody
        /\ read'.stat = read.stat
        /\ read'.current = read.current /\ read'.archives = read.archives
        /\ read'.found = read.found /\ read'.problem = TRUE
    BY <1>0, <1>1 DEF Reads
  <2>2. UNCHANGED <<event, status, place>>
    BY <1>0, <2>1, ReaderStep
  <2>3. KnownOK'
    BY <2>1 DEF KnownOK
  <2>4. ObservedOK'
    BY <1>0, <2>1, <2>2 DEF ObservedOK, Observed
  <2>5. FinishedOK'
    BY <1>0, <2>1, <2>2 DEF FinishedOK
  <2> QED BY <1>0, <2>1, <2>3, <2>4, <2>5, CurrentStep
<1>2. ASSUME NEW s \in CurrentOf(e), read' = [read EXCEPT !.opened = s]
      PROVE  Inv'
  <2>0. s \in Sequences /\ place[s] = "current" /\ event[s] = e
    BY DEF CurrentOf
  <2>1. /\ read' \in Reads /\ read'.at = "current" /\ read'.of = read.of
        /\ read'.unread = read.unread /\ read'.opened = s
        /\ read'.names = read.names
        /\ read'.stat = read.stat /\ read'.queue = read.queue
        /\ read'.current = read.current /\ read'.archives = read.archives
        /\ read'.found = read.found /\ read'.problem = read.problem
    BY <1>0, <1>2, <2>0 DEF Reads
  <2>2. UNCHANGED <<event, status, place, archived, deleted>>
    BY <1>0, <2>1, ReaderStep
  <2>3. \A q \in Sequences : Awaited(q) => Awaited(q)'
    BY <1>0, <2>0, <2>1, <2>2 DEF Awaited, RecordsOK, Unique
  <2>4. KnownOK'
    <3> SUFFICES ASSUME ~read.problem, NEW q \in past.known PROVE KnownAt(q)'
      BY <1>0, <2>1 DEF KnownOK
    <3>1. KnownAt(q) /\ q \in Sequences
      BY <1>0 DEF KnownOK, Pasts
    <3>2. Seen(q)' = Seen(q)
      BY <2>1 DEF Seen
    <3>3. Seen(q)' \/ place'[q] = "retired" \/ Awaited(q)'
      BY <1>0, <2>2, <2>3, <3>1, <3>2 DEF KnownAt, Listed
    <3>4. ASSUME NEW t \in Sequences, Observed(t)', event[t] = event[q],
                 ~Seen(q), t # q
          PROVE  q \in archived \cup deleted
      <4>1. CASE Observed(t)
        BY <3>1, <3>4, <4>1 DEF KnownAt
      <4>2. CASE t = s
        <5>1. place[q] = "retired" \/ Awaited(q)
          BY <1>0, <3>1, <3>4 DEF KnownAt, Listed
        <5>2. place[q] = "retired"
          BY <1>0, <2>0, <3>1, <3>4, <4>2, <5>1 DEF Awaited, RecordsOK, Unique
        <5> QED
          BY <1>0, <2>0, <3>1, <3>4, <4>2, <5>2 DEF RecordsOK, Alone, Staged
      <4> QED BY <2>1, <3>4, <4>1, <4>2 DEF Observed
    <3>5. place'[q] # "none" /\ (read'.of = {} \/ event'[q] \in read'.of)
      BY <2>1, <2>2, <3>1 DEF KnownAt
    <3> QED BY <2>1, <2>2, <3>2, <3>3, <3>4, <3>5 DEF KnownAt
  <2>5. ObservedOK'
    BY <1>0, <2>0, <2>1, <2>2 DEF ObservedOK, Observed
  <2>6. FinishedOK'
    BY <1>0, <2>1, <2>2, <2>3 DEF FinishedOK, Pasts
  <2> QED BY <1>0, <2>1, <2>4, <2>5, <2>6, CurrentStep
<1> QED BY <1>1, <1>2 DEF OpenCurrent, Step, Set

LEMMA ReadCurrentKeeps ==
  ASSUME Inv, NEW s \in Sequences, ReadCurrent(s)
  PROVE  Inv'
<1>0. /\ read.at = "current" /\ read.opened = s /\ read \in Reads
      /\ past \in Pasts /\ past' = past /\ Reader
      /\ KnownOK /\ ObservedOK /\ FinishedOK /\ RecordsOK /\ Typed
      /\ read' = [read EXCEPT !.opened = Nobody, !.names = @ \ {event[s]},
                    !.problem = @ \/ s \in deleted,
                    !.current[s] = IF s \in deleted THEN @ ELSE status[s]]
  BY DEF ReadCurrent, Step, Set, Inv, Typed, Reader
<1>1. /\ read' \in Reads /\ read'.at = "current" /\ read'.of = read.of
      /\ read'.unread = read.unread /\ read'.opened = Nobody
      /\ read'.names = read.names \ {event[s]}
      /\ read'.stat = read.stat /\ read'.queue = read.queue
      /\ read'.archives = read.archives /\ read'.found = read.found
      /\ read'.problem <=> read.problem \/ s \in deleted
      /\ read'.current = [read.current EXCEPT
                            ![s] = IF s \in deleted THEN @ ELSE status[s]]
  BY <1>0 DEF Reads, Typed
<1>2. UNCHANGED <<event, status, place, archived, deleted>>
  BY <1>0, <1>1, ReaderStep
<1>3. /\ place[s] \in {"current", "retired"} /\ status[s] # "none"
      /\ read.current \in [Sequences -> States]
  BY <1>0 DEF ObservedOK, Observed, RecordsOK, Accepted, Reads
<1>4. \A q \in Sequences : q # s => read'.current[q] = read.current[q]
  BY <1>1, <1>3
<1>5. /\ s \notin deleted => read'.current[s] = status[s]
      /\ s \in deleted => read'.current[s] = read.current[s]
  BY <1>1, <1>3
<1>6. \A q \in Sequences : Awaited(q) /\ q # s => Awaited(q)'
  BY <1>0, <1>1, <1>2 DEF Awaited, Nobody, Sequences
<1>7. KnownOK'
  <2> SUFFICES ASSUME ~read'.problem, NEW q \in past.known PROVE KnownAt(q)'
    BY <1>0 DEF KnownOK
  <2>0. ~read.problem /\ s \notin deleted
    BY <1>1
  <2>1. KnownAt(q) /\ q \in Sequences
    BY <1>0, <2>0 DEF KnownOK, Pasts
  <2>2. Seen(q) => Seen(q)'
    BY <1>1, <1>3, <1>4, <1>5, <2>0, <2>1 DEF Seen
  <2>3. Seen(s)'
    BY <1>3, <1>5, <2>0 DEF Seen
  <2>4. Seen(q)' \/ place'[q] = "retired" \/ Awaited(q)'
    BY <1>0, <1>2, <1>6, <2>1, <2>2, <2>3 DEF KnownAt, Listed
  <2>5. \A t \in Sequences : Observed(t)' => Observed(t)
    BY <1>0, <1>1, <1>4 DEF Observed, Nobody, Sequences
  <2>6. place'[q] # "none" /\ (read'.of = {} \/ event'[q] \in read'.of)
    BY <1>1, <1>2, <2>1 DEF KnownAt
  <2>7. \A t \in Sequences :
           Observed(t)' /\ event'[t] = event'[q] /\ ~Seen(q)' =>
              t = q \/ q \in archived' \cup deleted'
    BY <1>2, <2>1, <2>2, <2>5 DEF KnownAt
  <2> QED BY <1>1, <2>4, <2>6, <2>7 DEF KnownAt
<1>8. ObservedOK'
  <2> SUFFICES ASSUME NEW t \in Sequences
               PROVE  /\ Observed(t)' => place'[t] \in {"current", "retired"}
                      /\ read'.current[t] = "SUCCESS" => status'[t] = "SUCCESS"
    BY DEF ObservedOK
  <2>1. Observed(t)' => Observed(t)
    BY <1>0, <1>1, <1>4 DEF Observed, Nobody, Sequences
  <2> QED BY <1>0, <1>2, <1>4, <1>5, <2>1 DEF ObservedOK
<1>9. FinishedOK'
  <2> SUFFICES ASSUME NEW q \in past.finished
               PROVE  /\ status'[q] \in Terminal
                      /\ place'[q] \in {"current", "retired"}
                      /\ read'.current[q] \in {"none"} \cup Terminal
                      /\ ~read'.problem => \/ read'.current[q] # "none"
                                           \/ place'[q] = "retired"
                                           \/ Awaited(q)'
    BY <1>0 DEF FinishedOK
  <2>1. q \in Sequences
    BY <1>0 DEF Pasts
  <2> QED BY <1>0, <1>1, <1>2, <1>3, <1>4, <1>5, <1>6, <2>1 DEF FinishedOK
<1> QED BY <1>0, <1>1, <1>7, <1>8, <1>9, CurrentStep

-----------------------------------------------------------------------------
(* What follows the two scans looks at nothing of them again.              *)

SameSight == /\ Reader /\ past' = past /\ read' \in Reads
             /\ read.at \in Listed /\ read'.at \in Merged
             /\ read.at = "current" => read.names = {} /\ read.opened = Nobody
             /\ read'.of = read.of /\ read'.queue = read.queue
             /\ read'.current = read.current /\ read'.problem = read.problem

LEMMA SightKept ==
  ASSUME Inv, SameSight,
         read'.at = "evidence" /\ ~read.problem =>
            \A s \in past.known : Seen(s) \/ s \in read'.archives \cup deleted
  PROVE  /\ KnownOK' /\ ObservedOK' /\ FinishedOK'
         /\ Rows' = Rows /\ Waiting' = Waiting /\ Running' = Running
<1>0. /\ KnownOK /\ ObservedOK /\ FinishedOK /\ past \in Pasts /\ past' \in Pasts
      /\ UNCHANGED <<event, status, place, journal, damaged, held, archived,
                     deleted, evidence>>
  BY ReaderStep DEF Inv, Typed, SameSight
<1>1. \A s \in Sequences : /\ ~Awaited(s) /\ Seen(s)' = Seen(s)
                           /\ Observed(s)' => Observed(s)
  BY DEF SameSight, Awaited, Seen, Observed, Merged, Listed
<1>2. KnownOK'
  <2> SUFFICES ASSUME ~read.problem, NEW s \in past.known PROVE KnownAt(s)'
    BY DEF SameSight, KnownOK
  <2>1. KnownAt(s) /\ s \in Sequences
    BY <1>0 DEF KnownOK, Pasts
  <2>2. Seen(s) \/ place[s] = "retired"
    BY <1>1, <2>1 DEF KnownAt, SameSight
  <2>3. place'[s] # "none" /\ (read'.of = {} \/ event'[s] \in read'.of)
    BY <1>0, <2>1 DEF KnownAt, SameSight
  <2>4. \A t \in Sequences :
           Observed(t)' /\ event'[t] = event'[s] /\ ~Seen(s)' =>
              t = s \/ s \in archived' \cup deleted'
    BY <1>0, <1>1, <2>1 DEF KnownAt
  <2>5. read'.at = "evidence" => Seen(s)' \/ s \in read'.archives \cup deleted'
    BY <1>0, <1>1, <2>1
  <2> QED
    BY <1>0, <1>1, <2>1, <2>2, <2>3, <2>4, <2>5 DEF KnownAt, SameSight, Merged
<1>3. ObservedOK'
  BY <1>0, <1>1 DEF ObservedOK, SameSight
<1>4. FinishedOK'
  BY <1>0, <1>1 DEF FinishedOK, SameSight, Pasts
<1>5. Rows' = Rows /\ Waiting' = Waiting /\ Running' = Running
  BY DEF Rows, Waiting, Running, Shown, SameSight
<1> QED BY <1>2, <1>3, <1>4, <1>5

LEMMA ErrorKeeps ==
  ASSUME Inv, Reader, past' = past, read.at \in Listed,
         read.at = "current" => read.names = {} /\ read.opened = Nobody,
         NEW answer \in {"malformed", "changed"}, read' = Answer(read, answer),
         read.problem => answer = "malformed"
  PROVE  Inv'
<1>0. read \in Reads /\ past' \in Pasts /\ StageOK /\ BlockedOK
  BY DEF Inv, Typed
<1>1. /\ read' \in Reads /\ read'.at = "answered" /\ read'.answer = answer
      /\ read'.names = {} /\ read'.stat = {}
      /\ read'.of = read.of /\ read'.queue = read.queue
      /\ read'.current = read.current /\ read'.problem = read.problem
      /\ read'.archives = read.archives /\ read'.found = read.found
  BY <1>0 DEF Answer, Reads, Stages
<1>2. SameSight
  BY <1>1 DEF SameSight, Merged
<1>3. /\ KnownOK' /\ ObservedOK' /\ FinishedOK'
  BY <1>1, <1>2, SightKept
<1>4. /\ Typed' /\ RecordsOK'
      /\ UNCHANGED <<event, status, place, journal, archived, deleted, evidence>>
  BY <1>0, <1>1, ReaderStep
<1>5. StageOK'
  BY <1>0, <1>1, <1>4 DEF StageOK, Listed, Merged
<1>6. BlockedOK'
  BY <1>0, <1>1, <1>4 DEF BlockedOK, JournalLeft, CurrentOf
<1>7. (NothingVanishes /\ EvidenceBelongs /\ BlockedIsSaid)'
  BY <1>1 DEF NothingVanishes, EvidenceBelongs, BlockedIsSaid, Answered
<1> QED BY <1>3, <1>4, <1>5, <1>6, <1>7 DEF Inv

LEMMA CurrentScannedKeeps == ASSUME Inv, CurrentScanned PROVE Inv'
<1>0. /\ read.at = "current" /\ read.opened = Nobody /\ read.names = {}
      /\ read \in Reads /\ past' = past /\ past' \in Pasts /\ Reader
      /\ StageOK /\ BlockedOK /\ event \in [Sequences -> Events]
  BY DEF CurrentScanned, Scanning, Step, Set, Inv, Typed, Reader
<1>1. CASE read.problem
  <2>1. read' = Answer(read, "malformed")
    BY <1>1 DEF CurrentScanned, Step, Set
  <2> QED BY <1>0, <2>1, ErrorKeeps DEF Listed
<1>2. CASE ~read.problem
  <2>1. read' = [read EXCEPT !.at = "journals",
                             !.names = {event[s] : s \in Waiting}]
    BY <1>2 DEF CurrentScanned, Step, Set
  <2>2. {event[s] : s \in Waiting} \subseteq Events
    BY <1>0 DEF Waiting, Rows
  <2>3. /\ read' \in Reads /\ read'.at = "journals" /\ read'.of = read.of
        /\ read'.unread = read.unread
        /\ read'.names = {event[s] : s \in Waiting}
        /\ read'.stat = read.stat /\ read'.queue = read.queue
        /\ read'.current = read.current /\ read'.archives = read.archives
        /\ read'.found = read.found /\ read'.problem = read.problem
    BY <1>0, <2>1, <2>2 DEF Reads, Stages
  <2>4. SameSight
    BY <1>0, <2>3 DEF SameSight, Merged, Listed
  <2>5. KnownOK' /\ ObservedOK' /\ FinishedOK' /\ Waiting' = Waiting
    BY <2>3, <2>4, SightKept
  <2>6. UNCHANGED <<event, status, place, journal, archived, deleted, evidence>>
    BY <1>0, <2>3, ReaderStep
  <2>7. StageOK'
    BY <1>0, <1>2, <2>3, <2>6 DEF StageOK, Listed, Merged
  <2>8. BlockedOK'
    BY <1>0, <2>3, <2>5, <2>6 DEF BlockedOK, JournalLeft, CurrentOf
  <2> QED BY <1>0, <2>3, <2>5, <2>7, <2>8, Unanswered
<1> QED BY <1>1, <1>2

LEMMA StatCurrentKeeps ==
  ASSUME Inv, NEW e \in Events, StatCurrent(e)
  PROVE  Inv'
<1> DEFINE there == IF CurrentOf(e) = {} THEN Nobody
                    ELSE CHOOSE s \in CurrentOf(e) : TRUE
<1>0. /\ read.at = "journals" /\ read.stat = {} /\ e \in read.names
      /\ read \in Reads /\ past' = past /\ past' \in Pasts /\ Reader
      /\ StageOK /\ BlockedOK
      /\ read' = [read EXCEPT !.stat = {e}, !.opened = there]
  BY DEF StatCurrent, Step, Set, Inv, Typed, Reader
<1>1. there \in Sequences \cup {Nobody}
  BY DEF CurrentOf
<1> HIDE DEF there
<1>2. /\ read' \in Reads /\ read'.at = "journals" /\ read'.of = read.of
      /\ read'.unread = read.unread /\ read'.names = read.names
      /\ read'.stat = {e} /\ read'.queue = read.queue
      /\ read'.current = read.current /\ read'.archives = read.archives
      /\ read'.found = read.found /\ read'.problem = read.problem
      /\ read'.journals = read.journals
  BY <1>0, <1>1 DEF Reads
<1>3. SameSight
  BY <1>0, <1>2 DEF SameSight, Merged, Listed
<1>4. KnownOK' /\ ObservedOK' /\ FinishedOK' /\ Waiting' = Waiting
  BY <1>2, <1>3, SightKept
<1>5. UNCHANGED <<event, status, place, journal, archived, deleted, evidence>>
  BY <1>0, <1>2, ReaderStep
<1>6. StageOK'
  BY <1>0, <1>2, <1>5 DEF StageOK, Listed, Merged
<1>7. BlockedOK'
  BY <1>0, <1>2, <1>4, <1>5 DEF BlockedOK, JournalLeft, CurrentOf
<1> QED BY <1>0, <1>2, <1>4, <1>6, <1>7, Unanswered

LEMMA InspectCurrentKeeps ==
  ASSUME Inv, NEW e \in Events, InspectCurrent(e)
  PROVE  Inv'
<1> DEFINE seen == IF JournalLeft(e) THEN read.journals \cup {e}
                                     ELSE read.journals
<1>0. /\ read.at = "journals" /\ read \in Reads /\ past' = past
      /\ past' \in Pasts /\ Reader /\ StageOK /\ BlockedOK
  BY DEF InspectCurrent, Step, Set, Inv, Typed, Reader
<1>1. CASE read' = Answer(read, "changed")
  BY <1>0, <1>1, ErrorKeeps DEF Listed, Merged, StageOK
<1>2. CASE read' = [read EXCEPT !.names = @ \ {e}, !.stat = {},
                      !.opened = Nobody,
                      !.journals = IF JournalLeft(e) THEN @ \cup {e} ELSE @]
  <2>1. seen \in SUBSET Events
    BY <1>0 DEF Reads
  <2>2. /\ read' \in Reads /\ read'.at = "journals" /\ read'.of = read.of
        /\ read'.unread = read.unread /\ read'.names = read.names \ {e}
        /\ read'.stat = {} /\ read'.queue = read.queue
        /\ read'.current = read.current /\ read'.archives = read.archives
        /\ read'.found = read.found /\ read'.problem = read.problem
        /\ read'.journals = seen
    BY <1>0, <1>2, <2>1 DEF Reads
  <2>3. SameSight
    BY <1>0, <2>2 DEF SameSight, Merged, Listed
  <2>4. KnownOK' /\ ObservedOK' /\ FinishedOK' /\ Waiting' = Waiting
    BY <2>2, <2>3, SightKept
  <2>5. UNCHANGED <<event, status, place, journal, archived, deleted, evidence>>
    BY <1>0, <2>2, ReaderStep
  <2>6. StageOK'
    BY <1>0, <2>2, <2>5 DEF StageOK, Listed, Merged
  <2>7. \A x : JournalLeft(x)' = JournalLeft(x)
    BY <2>5 DEF JournalLeft, CurrentOf
  <2>8. BlockedOK'
    BY <1>0, <2>2, <2>4, <2>5, <2>7 DEF BlockedOK
  <2> QED BY <1>0, <2>2, <2>4, <2>6, <2>8, Unanswered
<1> QED BY <1>1, <1>2 DEF InspectCurrent, Step, Set

LEMMA SeenIsRow == \A s \in Sequences : s \in Rows <=> Seen(s)
BY DEF Rows, Shown, Seen

LEMMA AnswerKeeps ==
  ASSUME Inv, SameSight, read.at \in {"journals", "archive", "evidence"},
         read.at = "journals" => read.names = {},
         read'.at = "answered", read'.stat = {}, read'.names = {},
         read'.journals = read.journals,
         read'.archives \subseteq archived, read'.found \subseteq evidence,
         NothingVanishes', EvidenceBelongs'
  PROVE  Inv'
<1>0. /\ StageOK /\ BlockedOK /\ past' = past /\ past' \in Pasts
      /\ read' \in Reads /\ Reader
  BY DEF Inv, Typed, SameSight
<1>1. /\ Typed' /\ RecordsOK'
      /\ UNCHANGED <<event, status, place, journal, archived, deleted, evidence>>
  BY <1>0, ReaderStep
<1>2. /\ KnownOK' /\ ObservedOK' /\ FinishedOK'
      /\ Waiting' = Waiting /\ Running' = Running
  BY SightKept
<1>3. StageOK'
  BY <1>0, <1>1 DEF StageOK, Listed, Merged, SameSight
<1>4. BlockedOK'
  BY <1>0, <1>1 DEF BlockedOK, JournalLeft, CurrentOf
<1>5. BlockedIsSaid'
  <2> SUFFICES ASSUME NEW s \in Waiting, event[s] \in past.blocked
               PROVE  Reason(s)' = "same_event_active"
    BY <1>0, <1>1, <1>2 DEF BlockedIsSaid
  <2>1. event[s] \in read.journals
    BY <1>0 DEF BlockedOK
  <2> QED BY <1>1, <2>1 DEF Reason
<1> QED BY <1>1, <1>2, <1>3, <1>4, <1>5 DEF Inv

LEMMA SnapshotTakenKeeps == ASSUME Inv, SnapshotTaken PROVE Inv'
<1>0. /\ read.at = "journals" /\ read.names = {} /\ read \in Reads
      /\ past' = past /\ past \in Pasts /\ Reader
      /\ StageOK /\ BlockedOK /\ KnownOK
  BY DEF SnapshotTaken, Step, Set, Inv, Typed, Reader
<1>1. ~read.problem /\ read.found = {} /\ read.stat = {}
  BY <1>0 DEF StageOK
<1>2. CASE read.of = {}
  <2>1. read' = Answer(read, "rows")
    BY <1>2 DEF SnapshotTaken, Step, Set
  <2>2. /\ read' \in Reads /\ read'.at = "answered" /\ read'.answer = "rows"
        /\ read'.names = {} /\ read'.stat = {} /\ read'.of = {}
        /\ read'.of = read.of /\ read'.queue = read.queue
        /\ read'.current = read.current /\ read'.problem = read.problem
        /\ read'.archives = read.archives /\ read'.found = {}
        /\ read'.journals = read.journals
    BY <1>0, <1>1, <1>2, <2>1 DEF Answer, Reads, Stages
  <2>3. SameSight
    BY <1>0, <2>2 DEF SameSight, Merged, Listed
  <2>4. Rows' = Rows
    BY <2>2, <2>3, SightKept
  <2>5. UNCHANGED <<event, status, place, journal, archived, deleted, evidence>>
    BY <1>0, <2>2, ReaderStep
  <2>6. NothingVanishes'
    <3>1. ASSUME NEW s \in past.known PROVE s \in Rows \/ place[s] = "retired"
      <4>1. KnownAt(s) /\ s \in Sequences
        BY <1>0, <1>1 DEF KnownOK, Pasts
      <4> QED BY <1>0, <4>1, SeenIsRow DEF KnownAt, Listed, Merged, Awaited
    <3> QED BY <1>0, <2>2, <2>4, <2>5, <3>1 DEF NothingVanishes
  <2>7. EvidenceBelongs'
    BY <2>2 DEF EvidenceBelongs, Of
  <2> QED BY <1>0, <2>2, <2>3, <2>6, <2>7, AnswerKeeps DEF StageOK
<1>3. CASE read.of # {}
  <2>1. read' = [read EXCEPT !.at = "archive"]
    BY <1>3 DEF SnapshotTaken, Step, Set
  <2>2. /\ read' \in Reads /\ read'.at = "archive" /\ read'.of = read.of
        /\ read'.unread = read.unread /\ read'.names = read.names
        /\ read'.stat = read.stat /\ read'.queue = read.queue
        /\ read'.current = read.current /\ read'.archives = read.archives
        /\ read'.found = read.found /\ read'.problem = read.problem
        /\ read'.journals = read.journals
    BY <1>0, <2>1 DEF Reads, Stages
  <2>3. SameSight
    BY <1>0, <2>2 DEF SameSight, Merged, Listed
  <2>4. KnownOK' /\ ObservedOK' /\ FinishedOK' /\ Waiting' = Waiting
    BY <2>2, <2>3, SightKept
  <2>5. UNCHANGED <<event, status, place, journal, archived, deleted, evidence>>
    BY <1>0, <2>2, ReaderStep
  <2>6. StageOK'
    BY <1>0, <1>1, <2>2, <2>5 DEF StageOK, Listed, Merged
  <2>7. BlockedOK'
    BY <1>0, <2>2, <2>4, <2>5 DEF BlockedOK, JournalLeft, CurrentOf
  <2> QED BY <1>0, <2>2, <2>4, <2>6, <2>7, Unanswered
<1> QED BY <1>2, <1>3

LEMMA ListArchiveKeeps == ASSUME Inv, ListArchive PROVE Inv'
<1> DEFINE old == Of(archived)
           r == [read EXCEPT !.archives = old]
<1>0. /\ read.at = "archive" /\ held = {} /\ read \in Reads
      /\ past' = past /\ past \in Pasts /\ Reader /\ archived \subseteq Sequences
      /\ StageOK /\ BlockedOK /\ KnownOK
      /\ read' = IF Of(Rows) \cup r.archives = {} THEN Answer(r, "unknown")
                 ELSE IF \A s \in Of(Rows) : read.current[s] = "none"
                 THEN Answer(r, "rows")
                 ELSE [r EXCEPT !.at = "evidence"]
  BY DEF ListArchive, ListedArchive, Step, Set, Inv, Typed, Reader
<1>1. /\ ~read.problem /\ read.found = {} /\ read.stat = {}
      /\ old \subseteq archived /\ old \subseteq Sequences
  BY <1>0 DEF StageOK, Of
<1>2. ASSUME NEW s \in past.known
      PROVE  /\ s \in Sequences /\ KnownAt(s)
             /\ s \in Rows \/ place[s] = "retired"
             /\ s \in archived /\ read.of # {} => s \in old
  <2>1. KnownAt(s) /\ s \in Sequences
    BY <1>0, <1>1 DEF KnownOK, Pasts
  <2>2. s \in Rows \/ place[s] = "retired"
    BY <1>0, <2>1, SeenIsRow DEF KnownAt, Listed, Merged, Awaited
  <2> QED BY <2>1, <2>2 DEF KnownAt, Of
<1> HIDE DEF old
<1>3. /\ r \in Reads /\ r.at = "archive" /\ r.of = read.of
      /\ r.unread = read.unread /\ r.names = read.names
      /\ r.stat = read.stat /\ r.queue = read.queue
      /\ r.current = read.current /\ r.archives = old
      /\ r.found = read.found /\ r.problem = read.problem
      /\ r.journals = read.journals
  BY <1>0, <1>1 DEF Reads
<1> HIDE DEF r
<1>4. ASSUME NEW answer \in {"rows", "unknown"}, read' = Answer(r, answer),
             \A s \in Of(Rows) : read.current[s] = "none"
      PROVE  Inv'
  <2>1. /\ read' \in Reads /\ read'.at = "answered" /\ read'.answer = answer
        /\ read'.names = {} /\ read'.stat = {} /\ read'.of = read.of
        /\ read'.queue = read.queue /\ read'.current = read.current
        /\ read'.problem = read.problem /\ read'.archives = old
        /\ read'.found = {} /\ read'.journals = read.journals
    BY <1>1, <1>3, <1>4 DEF Answer, Reads, Stages
  <2>2. SameSight
    BY <1>0, <2>1 DEF SameSight, Merged, Listed
  <2>3. Rows' = Rows
    BY <2>1, <2>2, SightKept
  <2>4. UNCHANGED <<event, status, place, journal, held, archived, deleted,
                    evidence>>
    BY <1>0, <2>1, ReaderStep
  <2>5. NothingVanishes'
    <3> SUFFICES ASSUME NEW s \in past.known
                 PROVE  IF read'.of = {} THEN s \in Rows' \/ place'[s] = "retired"
                        ELSE \/ s \in Rows' \cup read'.archives \cup deleted'
                             \/ s \in Staged' /\ held' = {}
      BY <1>0 DEF NothingVanishes
    <3>1. Staged' = Staged
      BY <2>4 DEF Staged
    <3> QED BY <1>0, <1>2, <2>1, <2>3, <2>4, <3>1 DEF Staged
  <2>6. EvidenceBelongs'
    <3>1. Of(Rows)' = Of(Rows)
      BY <2>1, <2>3, <2>4 DEF Of
    <3> QED BY <1>4, <2>1, <3>1 DEF EvidenceBelongs
  <2> QED BY <1>0, <1>1, <2>1, <2>2, <2>5, <2>6, AnswerKeeps
<1>5. ASSUME read' = [r EXCEPT !.at = "evidence"],
             NEW t \in Of(Rows), read.current[t] # "none"
      PROVE  Inv'
  <2>1. /\ read' \in Reads /\ read'.at = "evidence" /\ read'.of = read.of
        /\ read'.unread = read.unread /\ read'.names = read.names
        /\ read'.stat = {} /\ read'.queue = read.queue
        /\ read'.current = read.current /\ read'.archives = old
        /\ read'.found = {} /\ read'.problem = read.problem
        /\ read'.journals = read.journals
    BY <1>1, <1>3, <1>5 DEF Reads, Stages
  <2>2. SameSight
    BY <1>0, <2>1 DEF SameSight, Merged, Listed
  <2>3. ASSUME NEW s \in past.known PROVE Seen(s) \/ s \in old \cup deleted
    <3>1. t \in Sequences /\ event[t] \in read.of /\ Observed(t) /\ Seen(t)
      BY <1>5 DEF Of, Rows, Observed, Seen
    <3>2. event[s] = event[t] /\ read.of # {}
      BY <1>0, <1>2, <3>1 DEF StageOK, KnownAt
    <3>3. Seen(s) \/ s \in archived \cup deleted
      BY <1>2, <3>1, <3>2 DEF KnownAt
    <3> QED BY <1>2, <3>2, <3>3
  <2>4. KnownOK' /\ ObservedOK' /\ FinishedOK' /\ Waiting' = Waiting
    BY <2>1, <2>2, <2>3, SightKept
  <2>5. UNCHANGED <<event, status, place, journal, archived, deleted, evidence>>
    BY <1>0, <2>1, ReaderStep
  <2>6. StageOK'
    BY <1>0, <1>1, <2>1, <2>5 DEF StageOK, Listed, Merged
  <2>7. BlockedOK'
    BY <1>0, <2>1, <2>4, <2>5 DEF BlockedOK, JournalLeft, CurrentOf
  <2> QED BY <1>0, <2>1, <2>4, <2>6, <2>7, Unanswered
<1>6. CASE Of(Rows) \cup r.archives = {}
  BY <1>0, <1>4, <1>6
<1>7. CASE /\ Of(Rows) \cup r.archives # {}
           /\ \A s \in Of(Rows) : read.current[s] = "none"
  BY <1>0, <1>4, <1>7
<1>8. CASE /\ Of(Rows) \cup r.archives # {}
           /\ \E s \in Of(Rows) : read.current[s] # "none"
  BY <1>0, <1>5, <1>8
<1> QED BY <1>6, <1>7, <1>8

LEMMA ReadEvidenceKeeps == ASSUME Inv, ReadEvidence PROVE Inv'
<1>0. /\ read.at = "evidence" /\ read \in Reads
      /\ past' = past /\ past \in Pasts /\ Reader
      /\ evidence \subseteq Sequences
      /\ StageOK /\ KnownOK /\ ObservedOK /\ RecordsOK
  BY DEF ReadEvidence, Step, Set, Inv, Typed, Reader
<1>1. ~read.problem /\ read.archives \subseteq archived
  BY <1>0 DEF StageOK
<1>2. PICK e \in read.of :
         LET there == CurrentOf(e) \cap evidence IN
         read' = IF \/ CurrentOf(e) = {}
                    \/ \E s \in there : read.current[s] = "none"
                 THEN Answer(read, "malformed")
                 ELSE Answer([read EXCEPT !.found = there], "rows")
  BY DEF ReadEvidence, Step, Set
<1> DEFINE there == CurrentOf(e) \cap evidence
           r == [read EXCEPT !.found = there]
<1>3. CASE read' = Answer(read, "malformed")
  BY <1>0, <1>3, ErrorKeeps DEF Listed, Merged
<1>4. CASE /\ read' = Answer(r, "rows")
           /\ \A s \in there : read.current[s] # "none"
  <2>1. there \subseteq Sequences /\ there \subseteq evidence
    BY <1>0
  <2>2. \A s \in Sequences :
           s \in there <=> place[s] = "current" /\ event[s] = e /\ s \in evidence
    BY DEF CurrentOf
  <2> HIDE DEF there
  <2>3. /\ r \in Reads /\ r.of = read.of /\ r.queue = read.queue
        /\ r.current = read.current /\ r.archives = read.archives
        /\ r.found = there /\ r.problem = read.problem
        /\ r.journals = read.journals
    BY <1>0, <2>1 DEF Reads
  <2> HIDE DEF r
  <2>4. /\ read' \in Reads /\ read'.at = "answered" /\ read'.answer = "rows"
        /\ read'.names = {} /\ read'.stat = {} /\ read'.of = read.of
        /\ read'.queue = read.queue /\ read'.current = read.current
        /\ read'.problem = read.problem /\ read'.archives = read.archives
        /\ read'.found = there /\ read'.journals = read.journals
    BY <1>4, <2>3 DEF Answer, Reads, Stages
  <2>5. SameSight
    BY <1>0, <2>4 DEF SameSight, Merged, Listed
  <2>6. Rows' = Rows
    BY <2>4, <2>5, SightKept
  <2>7. UNCHANGED <<event, status, place, journal, held, archived, deleted,
                    evidence>>
    BY <1>0, <2>4, ReaderStep
  <2>8. NothingVanishes'
    <3>1. ASSUME NEW s \in past.known PROVE s \in Rows \cup read.archives \cup deleted
      <4>1. KnownAt(s) /\ s \in Sequences
        BY <1>0, <1>1 DEF KnownOK, Pasts
      <4> QED BY <1>0, <4>1, SeenIsRow DEF KnownAt
    <3> QED BY <1>0, <1>2, <2>4, <2>6, <2>7, <3>1 DEF NothingVanishes
  <2>9. EvidenceBelongs'
    <3>1. Of(Rows)' = Of(Rows)
      BY <2>4, <2>6, <2>7 DEF Of
    <3>2. ASSUME NEW s \in there
          PROVE  s \in Of(Rows) /\ read.current[s] # "none"
      BY <1>2, <1>4, <2>1, <2>2, SeenIsRow DEF Of, Seen
    <3>3. ASSUME NEW s \in Of(Rows), read.current[s] = "SUCCESS", there = {}
          PROVE  place[s] = "retired"
      <4>1. s \in Sequences /\ event[s] \in read.of
        BY DEF Of, Rows
      <4>2. event[s] = e
        BY <1>0, <1>2, <4>1 DEF StageOK
      <4>3. s \in evidence /\ place[s] \in {"current", "retired"}
        BY <1>0, <3>3, <4>1 DEF ObservedOK, Observed, RecordsOK, Documented
      <4> QED BY <2>2, <3>3, <4>1, <4>2, <4>3
    <3> QED BY <2>4, <2>7, <3>1, <3>2, <3>3 DEF EvidenceBelongs
  <2> QED BY <1>0, <1>1, <2>1, <2>4, <2>5, <2>8, <2>9, AnswerKeeps
<1> QED BY <1>2, <1>3, <1>4

-----------------------------------------------------------------------------
(* The invariant.                                                          *)

LEMMA InitInv == Init => Inv
<1> SUFFICES ASSUME Init PROVE Inv
  OBVIOUS
<1>1. /\ event \in [Sequences -> Events] /\ status \in [Sequences -> States]
      /\ place \in [Sequences -> Places]
      /\ journal = {} /\ damaged = {} /\ held = {}
      /\ \A s \in Sequences : status[s] = "none" /\ place[s] = "none"
      /\ overwrite \subseteq Sequences
      /\ archived = {} /\ deleted = {} /\ evidence = {}
      /\ read = NoRead /\ past = NoPast
  BY DEF Init, MovesInit, States, Places
<1>2. Typed
  BY <1>1, NothingRead DEF Typed
<1>3. RecordsOK
  BY <1>1 DEF RecordsOK, Accepted, Unique, Disposal, Alone, Documented
<1>4. StageOK
  BY <1>1, NothingRead DEF StageOK
<1>5. KnownOK /\ FinishedOK
  BY <1>1, NothingRead DEF KnownOK, FinishedOK
<1>6. ObservedOK
  BY <1>1, NothingRead, UnseenTyped DEF ObservedOK, Observed
<1>7. BlockedOK
  BY <1>1, NothingRead DEF BlockedOK
<1>8. NothingVanishes /\ EvidenceBelongs /\ BlockedIsSaid
  BY <1>1, NothingRead DEF NothingVanishes, EvidenceBelongs, BlockedIsSaid,
     Answered
<1> QED BY <1>2, <1>3, <1>4, <1>5, <1>6, <1>7, <1>8 DEF Inv

LEMMA StutterKeeps == ASSUME Inv, UNCHANGED vars PROVE Inv'
<1>1. UNCHANGED <<event, status, place, journal, damaged, held, overwrite,
                  archived, deleted, evidence, read, past>>
  BY DEF vars, views, moves
<1>2. Reader /\ read' \in Reads /\ past' \in Pasts
  BY <1>1 DEF Reader, moves, Inv, Typed
<1>3. Typed' /\ RecordsOK'
  BY <1>2, ReaderStep
<1>4. StageOK' /\ ObservedOK'
  BY <1>1 DEF Inv, StageOK, ObservedOK, Observed
<1>5. KnownOK' /\ FinishedOK'
  BY <1>1 DEF Inv, KnownOK, KnownAt, FinishedOK, Seen, Observed, Awaited
<1>6. /\ Rows' = Rows /\ Waiting' = Waiting /\ Running' = Running
      /\ Staged' = Staged
  BY <1>1 DEF Rows, Waiting, Running, Shown, Staged
<1>7. BlockedOK'
  BY <1>1, <1>6 DEF Inv, BlockedOK, JournalLeft, CurrentOf
<1>8. NothingVanishes'
  BY <1>1, <1>6 DEF Inv, NothingVanishes, Answered
<1>9. EvidenceBelongs' /\ BlockedIsSaid'
  BY <1>1, <1>6 DEF Inv, EvidenceBelongs, BlockedIsSaid, Answered, Of, Reason
<1> QED BY <1>3, <1>4, <1>5, <1>7, <1>8, <1>9 DEF Inv

LEMMA StepInv == Inv /\ [Next]_vars => Inv'
<1> SUFFICES ASSUME Inv, [Next]_vars PROVE Inv'
  OBVIOUS
<1>1. CASE read.at # "answered" /\ Writing
  BY <1>1, WritingKeeps
<1>2. CASE \E s \in Sequences : WriteEvidence(s)
  BY <1>2, WriteEvidenceKeeps
<1>3. CASE \E of \in {{}} \cup {{e} : e \in Events} : Begin(of)
  BY <1>3, BeginKeeps
<1>4. CASE QueueScanned \/ ListCurrent \/ CurrentScanned \/ SnapshotTaken
           \/ ListArchive \/ ReadEvidence
  BY <1>4, QueueScannedKeeps, ListCurrentKeeps, CurrentScannedKeeps,
     SnapshotTakenKeeps, ListArchiveKeeps, ReadEvidenceKeeps
<1>5. CASE \E s \in Sequences :
              OpenEntry(s) \/ ReadEntryOpened(s) \/ ReadCurrent(s)
  BY <1>5, OpenEntryKeeps, ReadEntryKeeps, ReadCurrentKeeps
<1>6. CASE \E e \in Events :
              OpenCurrent(e) \/ StatCurrent(e) \/ InspectCurrent(e)
  BY <1>6, OpenCurrentKeeps, StatCurrentKeeps, InspectCurrentKeeps
<1>7. CASE End
  BY <1>7, EndKeeps
<1>8. CASE UNCHANGED vars
  BY <1>8, StutterKeeps
<1> QED
  BY <1>1, <1>2, <1>3, <1>4, <1>5, <1>6, <1>7, <1>8 DEF Next, Reading

LEMMA AlwaysInv == Spec => []Inv
BY InitInv, StepInv, PTL DEF Spec

-----------------------------------------------------------------------------
(* The request stays in one of the code's stages, and what it shows as     *)
(* archived or as evidence exists.                                         *)
THEOREM ViewsTyped == Spec => []TypeOK
<1>1. Inv => TypeOK
  BY DEF Inv, Typed, TypeOK, StageOK, Reads, Stages
<1> QED BY <1>1, AlwaysInv, PTL

(* However the workers move the records between the reads of a view, an    *)
(* answer without error misses no calculation accepted before the request. *)
THEOREM NothingEverVanishes == Spec => []NothingVanishes
<1>1. Inv => NothingVanishes
  BY DEF Inv
<1> QED BY <1>1, AlwaysInv, PTL

(* A calculation that was finished and current when events/ was listed is  *)
(* not shown as waiting or running, although the queue was read before.    *)
THEOREM FinishedAlwaysShown == Spec => []FinishedStaysFinished
<1>1. ASSUME Inv PROVE FinishedStaysFinished
  <2> SUFFICES ASSUME Answered({"rows"}), NEW s \in past.finished,
                      place[s] = "current"
               PROVE  Shown(s) \in Terminal
    BY DEF FinishedStaysFinished
  <2>1. read.at = "answered" /\ ~read.problem
    BY <1>1 DEF Answered, Inv, StageOK, Typed, Reads
  <2>2. read.current[s] \in Terminal
    BY <1>1, <2>1 DEF Inv, FinishedOK, Awaited
  <2> QED BY <2>2 DEF Shown, Terminal
<1> QED BY <1>1, AlwaysInv, PTL

(* The evidence shown with a row is that calculation's, and is missing     *)
(* from a successful row only when it has been replaced since.             *)
THEOREM EvidenceAlwaysBelongs == Spec => []EvidenceBelongs
<1>1. Inv => EvidenceBelongs
  BY DEF Inv
<1> QED BY <1>1, AlwaysInv, PTL

(* A journal that keeps an event from being calculated is the reason every *)
(* waiting request for the event is shown with.                            *)
THEOREM BlockedAlwaysSaid == Spec => []BlockedIsSaid
<1>1. Inv => BlockedIsSaid
  BY DEF Inv
<1> QED BY <1>1, AlwaysInv, PTL
=============================================================================
