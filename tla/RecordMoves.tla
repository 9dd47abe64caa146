---------------------------- MODULE RecordMoves ----------------------------
(***************************************************************************)
(* How calculation records change under the eyes of a reader: what module  *)
(* Scheduler does to them, without the scheduler's thread and memory, the  *)
(* faults and the crashes.  Scheduler implements it (MovesRefined there),  *)
(* and PublicViews reads what it moves.                                    *)
(***************************************************************************)
EXTENDS Naturals, FiniteSets

CONSTANTS Events, MaxSequence, MaxConcurrent,
          Damageable        \* the records that may become unreadable

VARIABLES
    event,      \* the event of each request, by internal sequence
    status,     \* the durable lifecycle state, "none" before acceptance
    place,      \* where the record's directory is
    journal,    \* the records that hold a transaction journal
    damaged,    \* waiting records that cannot be read
    held        \* the records whose transaction holds its flocks

moves == <<event, status, place, journal, damaged, held>>

Sequences == 1..MaxSequence
Terminal  == {"SUCCESS", "FAILED"}
States    == {"none", "QUEUED", "RUNNING"} \cup Terminal
Places    == {"none", "queue", "current", "retired"}

RunningRecords == {s \in Sequences : status[s] = "RUNNING"}
CurrentOf(e) == {s \in Sequences : place[s] = "current" /\ event[s] = e}
JournalLeft(e) == journal \cap CurrentOf(e) # {}

Accept(s) ==
    /\ status[s] = "none" /\ \A r \in Sequences : r < s => status[r] # "none"
    /\ status' = [status EXCEPT ![s] = "QUEUED"]
    /\ place' = [place EXCEPT ![s] = "queue"]
    /\ UNCHANGED <<event, journal, damaged, held>>

(* External: a waiting entry becomes unreadable, an operator repairs it.   *)
Damage(s) == /\ status[s] = "QUEUED" /\ s \in Damageable \ damaged
             /\ damaged' = damaged \cup {s}
             /\ UNCHANGED <<event, status, place, journal, held>>
Repair(s) == /\ s \in damaged /\ damaged' = damaged \ {s}
             /\ UNCHANGED <<event, status, place, journal, held>>

(* transition_to_running                                                   *)
Claim(s) ==
    /\ status[s] = "QUEUED" /\ s \notin damaged
    /\ Cardinality(RunningRecords) < MaxConcurrent
    /\ \A r \in Sequences : event[r] = event[s] /\ r < s =>
          status[r] \in Terminal /\ r \notin journal
    /\ status' = [status EXCEPT ![s] = "RUNNING"]
    /\ UNCHANGED <<event, place, journal, damaged, held>>

(* A transaction takes its locks and writes its journal, ...               *)
Open(s) == /\ status[s] = "RUNNING" /\ place[s] = "queue" /\ s \notin journal
           /\ journal' = journal \cup {s} /\ held' = held \cup {s}
           /\ UNCHANGED <<event, status, place, damaged>>

(* ... moves the preceding record out of events/ (reconciliation takes the *)
(* locks again for it), ...                                                *)
Stage(s) == /\ s \in journal
            /\ place' = [p \in Sequences |->
                   IF p \in CurrentOf(event[s]) \ {s} THEN "retired"
                                                      ELSE place[p]]
            /\ held' = held \cup {s}
            /\ UNCHANGED <<event, status, journal, damaged>>

(* ... disposes of it and moves its own record into events/.               *)
Promote(s) == /\ s \in held /\ place[s] = "queue" /\ CurrentOf(event[s]) = {}
              /\ place' = [place EXCEPT ![s] = "current"]
              /\ held' \in {held, held \ {s}}
              /\ UNCHANGED <<event, status, journal, damaged>>

(* Variant: an error on the way out leaves the locks of an unpromoted      *)
(* record behind.                                                          *)
ReleasePromoted(S) == /\ S # {} /\ S \subseteq held
                      /\ \A s \in S : place[s] = "current"
                      /\ held' = held \ S
                      /\ UNCHANGED <<event, status, place, journal, damaged>>

(* _close_transaction, on every way out; death releases all flocks.        *)
Release(S) == /\ S # {} /\ S \subseteq held /\ held' = held \ S
              /\ UNCHANGED <<event, status, place, journal, damaged>>

(* The terminal status of a current record, or of one that failed before   *)
(* it had a journal and stays in the queue.                                *)
Finish(s) == /\ status[s] = "RUNNING"
             /\ place[s] = "current" \/ s \notin journal
             /\ \E outcome \in Terminal :
                   /\ outcome = "SUCCESS" => place[s] = "current" /\ s \notin held
                   /\ status' = [status EXCEPT ![s] = outcome]
             /\ UNCHANGED <<event, place, journal, damaged, held>>

RemoveJournal(s) == /\ s \in journal
                    /\ place[s] = "current" /\ status[s] \in Terminal
                    /\ journal' = journal \ {s} /\ held' = held \ {s}
                    /\ UNCHANGED <<event, status, place, damaged>>

MovesInit == /\ event \in [Sequences -> Events]
             /\ status = [s \in Sequences |-> "none"]
             /\ place = [s \in Sequences |-> "none"]
             /\ journal = {} /\ damaged = {} /\ held = {}

Transaction(s) == Open(s) \/ Stage(s) \/ Promote(s)

Move == \/ \E s \in Sequences :
              \/ Accept(s) \/ Damage(s) \/ Repair(s) \/ Claim(s)
              \/ Transaction(s) \/ Finish(s) \/ RemoveJournal(s)
        \/ \E S \in SUBSET held : Release(S)

MovesSpec == MovesInit /\ [][Move]_moves
=============================================================================
