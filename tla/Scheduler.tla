----------------------------- MODULE Scheduler -----------------------------
(***************************************************************************)
(* The admission of queued calculations (scheduler.py), the scan of the    *)
(* queue it starts from (queue.py, status.py), the worker threads it runs, *)
(* and the recovery of interrupted calculations at startup                 *)
(* (startup_recovery.py).                                                  *)
(*                                                                         *)
(* A record directory is in the queue, is its event's current record, or   *)
(* has been retired into the archive or deleted by its successor.  Of the  *)
(* transaction that moves it (module Recalculation) only the moves the     *)
(* scheduler can see are kept: the journal, the departure of the preceding *)
(* record, the promotion, the terminal status, the journal's removal.      *)
(*                                                                         *)
(* Any operation may raise (at most MaxFaults do) and the process may die  *)
(* at any step (at most MaxCrashes times).                                 *)
(***************************************************************************)
EXTENDS Naturals, FiniteSets

CONSTANTS Events, MaxSequence, MaxConcurrent, MaxFaults, MaxCrashes

ASSUME MaxConcurrentPositive == MaxConcurrent \in Nat \ {0}
ASSUME BoundsNatural == {MaxSequence, MaxFaults, MaxCrashes} \subseteq Nat

Sequences == 1..MaxSequence
Terminal  == {"SUCCESS", "FAILED"}
States    == {"none", "QUEUED", "RUNNING"} \cup Terminal
Nobody    == 0
NoBarrier == MaxSequence + 1

VARIABLES
    event,      \* the event each request is for
    status,     \* the durable lifecycle state of each record
    place,      \* where its directory is
    journal,    \* the records that hold a transaction journal
    damaged,    \* waiting records that cannot be read
    service,    \* "up", "recovering" or "down"
    slots,      \* _worker_slots
    reserved,   \* _event_reservations
    pc,         \* what the thread working on a record does next
    tick,       \* the admission thread, while it holds the lock
    faults, crashes

durable == <<event, status, place, journal, damaged>>
memory  == <<slots, reserved, pc>>
vars    == <<durable, memory, service, tick, faults, crashes>>

Places == {"none", "queue", "current", "retired"}
Calling == {"prepare", "retire", "promote", "calculate", "finalize"}
Mending == {"locate", "dispose", "repromote", "mark", "clear"}
Leaving == {"ensure", "verify", "finish", "drop"}
Steps   == Calling \cup Mending \cup Leaving \cup {"none", "settle", "kept"}

NoTick == [at |-> "wait", unread |-> {}, found |-> {},
           barrier |-> NoBarrier, seen |-> {}]

Locked == tick.at # "wait"
First(S, s) == s \in S /\ \A r \in S : s <= r

Preceding(s) == {p \in Sequences : place[p] = "current" /\ event[p] = event[s]}

(* Variant: a journal beside the current record is not looked for.         *)
JournalIgnored(e) == FALSE

(* current_transaction_present                                             *)
JournalLeft(e) == \E p \in journal : place[p] = "current" /\ event[p] = e

Go(s, step) == pc' = [pc EXCEPT ![s] = step]
SetStatus(s, state) == status' = [status EXCEPT ![s] = state]
SetPlace(s, where) == place' = [place EXCEPT ![s] = where]

MayFail == faults < MaxFaults /\ faults' = faults + 1

-----------------------------------------------------------------------------
(* accept_ready_request publishes the queue entry under the coordination   *)
(* lock that the admission thread also takes.                              *)
Accept(s) ==
    /\ service = "up" /\ ~Locked
    /\ status[s] = "none" /\ \A r \in Sequences : r < s => status[r] # "none"
    /\ SetStatus(s, "QUEUED") /\ SetPlace(s, "queue")
    /\ UNCHANGED <<event, journal, damaged, memory, service, tick, faults,
                   crashes>>

(* External: a waiting entry becomes unreadable, an operator repairs it.   *)
Damage(s) == /\ status[s] = "QUEUED" /\ s \notin damaged /\ MayFail
             /\ damaged' = damaged \cup {s}
             /\ UNCHANGED <<event, status, place, journal, memory, service,
                            tick, crashes>>
Repair(s) == /\ s \in damaged
             /\ damaged' = damaged \ {s}
             /\ UNCHANGED <<event, status, place, journal, memory, service,
                            tick, faults, crashes>>

-----------------------------------------------------------------------------
(* tick, under the scheduler's lock.  scan_queue_records lists the queue   *)
(* and then opens the entries one by one: the shared flock it holds does   *)
(* not keep a worker from promoting a listed entry.                        *)

ListQueue ==
    /\ service = "up" /\ ~Locked
    /\ tick' = [NoTick EXCEPT !.at = "read",
                  !.unread = {s \in Sequences : place[s] = "queue"}]
    /\ UNCHANGED <<durable, memory, service, faults, crashes>>

Readable(s) == place[s] = "queue" /\ s \notin damaged

(* Variant: a malformed entry is dropped and no barrier is set.            *)
ReadEntryNoBarrier(s) ==
    /\ tick.at = "read" /\ First(tick.unread, s)
    /\ tick' = [tick EXCEPT !.unread = @ \ {s},
          !.found = IF Readable(s) /\ status[s] = "QUEUED" THEN @ \cup {s}
                                                          ELSE @]
    /\ UNCHANGED <<durable, memory, service, faults, crashes>>

(* An entry that has gone or cannot be read is malformed, and the first    *)
(* malformed sequence is a barrier to all later ones.                      *)
ReadEntry(s) ==
    /\ tick.at = "read" /\ First(tick.unread, s)
    /\ tick' = [tick EXCEPT !.unread = @ \ {s},
          !.found = IF Readable(s) /\ status[s] = "QUEUED" THEN @ \cup {s}
                                                          ELSE @,
          !.barrier = IF ~Readable(s) /\ s < @ THEN s ELSE @]
    /\ UNCHANGED <<durable, memory, service, faults, crashes>>

ScanDone == /\ tick.at = "read" /\ tick.unread = {}
            /\ tick' = [tick EXCEPT !.at = "admit"]
            /\ UNCHANGED <<durable, memory, service, faults, crashes>>

Full == Cardinality(slots) >= MaxConcurrent

(* The record the loop looks at next, if it goes on.                       *)
Candidate(s) == /\ tick.at = "admit" /\ ~Full
                /\ First(tick.found, s) /\ s <= tick.barrier

TickDone ==
    /\ tick.at = "admit" /\ ~\E s \in Sequences : Candidate(s)
    /\ tick' = NoTick
    /\ UNCHANGED <<durable, memory, service, faults, crashes>>

Considered(s) == [tick EXCEPT !.found = @ \ {s}, !.seen = @ \cup {event[s]}]

Eligible(s) == /\ event[s] \notin tick.seen
               /\ reserved[event[s]] = Nobody
               /\ ~JournalLeft(event[s])

Skip(s) == /\ Candidate(s) /\ ~Eligible(s)
           /\ tick' = Considered(s)
           /\ UNCHANGED <<durable, memory, service, faults, crashes>>

(* Looking for the journal raises, or transition_to_running does before it *)
(* has changed the record: _finish_without_callback finds it QUEUED.       *)
ClaimFails(s) ==
    /\ Candidate(s) /\ Eligible(s) /\ s \notin damaged /\ MayFail
    /\ tick' = Considered(s)
    /\ UNCHANGED <<durable, memory, service, crashes>>

Reserve(s) == /\ slots' = slots \cup {s}
              /\ reserved' = [reserved EXCEPT ![event[s]] = s]

(* The record has become unreadable since the scan: neither the transition *)
(* nor _finish_without_callback can tell its state, and both raise.        *)
ClaimUnreadable(s) ==
    /\ Candidate(s) /\ Eligible(s) /\ s \in damaged
    /\ Reserve(s) /\ Go(s, "kept")
    /\ tick' = Considered(s)
    /\ UNCHANGED <<durable, service, faults, crashes>>

Admit(s) ==
    /\ Candidate(s) /\ Eligible(s) /\ s \notin damaged
    /\ Reserve(s) /\ SetStatus(s, "RUNNING")
    /\ \/ /\ Go(s, "prepare") /\ tick' = Considered(s)
          /\ UNCHANGED faults
       \/ /\ MayFail                \* RUNNING is written, but its fsync or
          /\ Go(s, "settle")        \* the executor's submit raises
          /\ tick' = [Considered(s) EXCEPT !.at = "settle"]
    /\ UNCHANGED <<event, place, journal, damaged, service, crashes>>

(* Variant: the slot is returned and the event stays reserved.             *)
ReleaseSlotOnly(s) == slots' = slots \ {s} /\ Go(s, "none") /\ UNCHANGED reserved

(* _release                                                                *)
Release(s) == /\ slots' = slots \ {s}
              /\ reserved' = [reserved EXCEPT ![event[s]] =
                                 IF @ = s THEN Nobody ELSE @]
              /\ Go(s, "none")

(* _finish_without_callback, for a record that is RUNNING.                 *)
Settle(s) ==
    /\ tick.at = "settle" /\ pc[s] = "settle"
    /\ \/ SetStatus(s, "FAILED") /\ Release(s) /\ UNCHANGED faults
       \/ /\ MayFail /\ Go(s, "kept") /\ UNCHANGED <<slots, reserved>>
          /\ status' \in {status, [status EXCEPT ![s] = "FAILED"]}
    /\ tick' = [tick EXCEPT !.at = "admit"]
    /\ UNCHANGED <<event, place, journal, damaged, service, crashes>>

Tick == \/ ListQueue \/ ScanDone \/ TickDone
        \/ \E s \in Sequences :
              \/ ReadEntry(s) \/ Skip(s) \/ ClaimFails(s) \/ ClaimUnreadable(s)
              \/ Admit(s) \/ Settle(s)

-----------------------------------------------------------------------------
(* _run_calculation: the calculation callback ...                          *)

WriteJournal(s) ==
    /\ pc[s] = "prepare" /\ journal' = journal \cup {s} /\ Go(s, "retire")
    /\ UNCHANGED <<event, status, place, damaged, slots, reserved>>

(* Variant: the preceding current record is left where it is.              *)
RetireNothing(s) == UNCHANGED place

Retire(s) ==
    place' = [p \in Sequences |-> IF p \in Preceding(s) \ {s} THEN "retired"
                                                              ELSE place[p]]
RetirePreceding(s) ==
    /\ pc[s] = "retire" /\ Retire(s) /\ Go(s, "promote")
    /\ UNCHANGED <<event, status, journal, damaged, slots, reserved>>

Promote(s) ==
    /\ pc[s] = "promote" /\ SetPlace(s, "current") /\ Go(s, "calculate")
    /\ UNCHANGED <<event, status, journal, damaged, slots, reserved>>

Calculate(s) ==
    /\ pc[s] = "calculate"
    /\ \E outcome \in Terminal : SetStatus(s, outcome)
    /\ Go(s, "finalize")
    /\ UNCHANGED <<event, place, journal, damaged, slots, reserved>>

FinalizeTransaction(s) ==
    /\ pc[s] = "finalize" /\ journal' = journal \ {s} /\ Go(s, "ensure")
    /\ UNCHANGED <<event, status, place, damaged, slots, reserved>>

(* ... raises, after which the worker reconciles the transaction; ...      *)
Raise(s) ==
    /\ pc[s] \in Calling /\ MayFail /\ Go(s, "locate")
    /\ journal' \in {journal, IF pc[s] = "finalize" THEN journal \ {s}
                                                   ELSE journal}
    /\ UNCHANGED <<event, status, place, damaged, slots, reserved, crashes>>

(* ... without a journal there is nothing to reconcile.                    *)
Locate(s) ==
    /\ pc[s] = "locate" /\ s \notin journal /\ service = "up"
    /\ Go(s, "ensure")
    /\ UNCHANGED <<durable, slots, reserved>>

Dispose(s) ==
    /\ pc[s] = "locate" /\ s \in journal
    /\ Retire(s) /\ Go(s, "repromote")
    /\ UNCHANGED <<event, status, journal, damaged, slots, reserved>>

Repromote(s) ==
    /\ pc[s] = "repromote" /\ SetPlace(s, "current") /\ Go(s, "mark")
    /\ UNCHANGED <<event, status, journal, damaged, slots, reserved>>

(* _mark_failed does not accept a record that is SUCCESS: see Refuse.      *)
MarkFailed(s) ==
    /\ pc[s] = "mark" /\ status[s] \in {"RUNNING", "FAILED"}
    /\ SetStatus(s, "FAILED") /\ Go(s, "clear")
    /\ UNCHANGED <<event, place, journal, damaged, slots, reserved>>

RemoveJournal(s) ==
    /\ pc[s] = "clear" /\ journal' = journal \ {s}
    /\ Go(s, IF service = "recovering" THEN "none" ELSE "verify")
    /\ UNCHANGED <<event, status, place, damaged, slots, reserved>>

(* Reconciliation raises: the worker keeps its reservation for good, and   *)
(* its slot too unless _drop_capacity_for_terminal_current takes it.       *)
Refuse(s) == /\ pc[s] = "mark" /\ status[s] = "SUCCESS" /\ Go(s, "drop")
             /\ UNCHANGED <<durable, slots, reserved>>
ReconcileFails(s) ==
    /\ pc[s] \in Mending /\ service = "up" /\ MayFail /\ Go(s, "drop")
    /\ journal' \in {journal, IF pc[s] = "clear" THEN journal \ {s}
                                                ELSE journal}
    /\ UNCHANGED <<event, status, place, damaged, slots, reserved, crashes>>

(* Variant: the event is given back with the slot.                         *)
RetainNothing(s) == /\ slots' = slots \ {s}
                    /\ reserved' = [reserved EXCEPT ![event[s]] = Nobody]

Retain(s) == slots' = slots \ {s} /\ UNCHANGED reserved

(* Variant: the slot is given back whatever the record's state.            *)
DropAlways(s) == /\ pc[s] = "drop" /\ ~Locked
                 /\ Retain(s) /\ Go(s, "kept") /\ UNCHANGED durable

Drop(s) ==
    /\ pc[s] = "drop" /\ ~Locked
    /\ IF place[s] = "current" /\ status[s] \in Terminal
       THEN Retain(s) ELSE UNCHANGED <<slots, reserved>>
    /\ Go(s, "kept")
    /\ UNCHANGED durable

(* Variant: a state the lifecycle does not have.                           *)
EnsureInterrupted(s) ==
    /\ pc[s] = "ensure" /\ SetStatus(s, "INTERRUPTED") /\ Go(s, "finish")
    /\ UNCHANGED <<event, place, journal, damaged, slots, reserved>>

(* _ensure_terminal and _verify_terminal.                                  *)
EnsureTerminal(s) ==
    /\ pc[s] = "ensure"
    /\ status' = IF status[s] = "RUNNING" THEN [status EXCEPT ![s] = "FAILED"]
                                          ELSE status
    /\ Go(s, "finish")
    /\ UNCHANGED <<event, place, journal, damaged, slots, reserved>>
VerifyTerminal(s) ==
    /\ pc[s] = "verify" /\ status[s] \in Terminal /\ place[s] = "current"
    /\ Go(s, "finish")
    /\ UNCHANGED <<durable, slots, reserved>>

(* Variant: the worker ends without releasing anything.                    *)
FinishKept(s) == /\ pc[s] = "finish" /\ ~Locked /\ Go(s, "kept")
                 /\ UNCHANGED <<durable, slots, reserved>>

(* finalize_transaction has nothing left to remove; then _release.         *)
Finish(s) == /\ pc[s] = "finish" /\ ~Locked /\ s \notin journal
             /\ Release(s)
             /\ UNCHANGED durable

(* What they raise leaves the slot and the reservation taken, except that  *)
(* a failing finalize_transaction gives the slot back.  Drop, too, changes *)
(* nothing when it cannot read the record.                                 *)
LeavingFails(s) ==
    /\ pc[s] \in Leaving /\ ~Locked /\ MayFail
    /\ IF pc[s] = "finish" /\ place[s] = "current"
       THEN Retain(s) ELSE UNCHANGED <<slots, reserved>>
    /\ Go(s, "kept")
    /\ status' \in {status, IF pc[s] = "ensure" /\ status[s] = "RUNNING"
                            THEN [status EXCEPT ![s] = "FAILED"] ELSE status}
    /\ UNCHANGED <<event, place, journal, damaged, crashes>>

Work(s) == \/ WriteJournal(s) \/ RetirePreceding(s) \/ Promote(s)
           \/ Calculate(s) \/ FinalizeTransaction(s)
           \/ Locate(s) \/ Dispose(s) \/ Repromote(s) \/ MarkFailed(s)
           \/ RemoveJournal(s) \/ Refuse(s) \/ Drop(s)
           \/ EnsureTerminal(s) \/ VerifyTerminal(s) \/ Finish(s)

Trouble(s) == Raise(s) \/ ReconcileFails(s) \/ LeavingFails(s)

Worker(s) == /\ \/ Work(s) /\ UNCHANGED <<faults, crashes>>
                \/ Trouble(s)
             /\ UNCHANGED <<service, tick>>

-----------------------------------------------------------------------------
Forget == /\ slots' = {} /\ reserved' = [e \in Events |-> Nobody]
          /\ pc' = [s \in Sequences |-> "none"] /\ tick' = NoTick

Crash == /\ service # "down" /\ crashes < MaxCrashes
         /\ crashes' = crashes + 1
         /\ service' = "down" /\ Forget
         /\ UNCHANGED <<durable, faults>>

(* recover_interrupted_calculations refuses to start over a malformed      *)
(* record; then it takes the RUNNING records in sequence order.            *)
Restart == /\ service = "down" /\ damaged = {}
           /\ service' = "recovering"
           /\ UNCHANGED <<durable, memory, tick, faults, crashes>>

Recovering == {s \in Sequences : pc[s] # "none"}
Stale == {s \in Sequences : status[s] = "RUNNING"}

(* recover_stale_running_calculation                                       *)
Recover(s) ==
    /\ service = "recovering" /\ Recovering = {} /\ First(Stale, s)
    /\ IF s \in journal
       THEN Go(s, "locate") /\ UNCHANGED status
       ELSE SetStatus(s, "FAILED") /\ UNCHANGED pc
    /\ UNCHANGED <<event, place, journal, damaged, service, slots, reserved,
                   tick, faults, crashes>>

(* Any error of recovery ends the start.                                   *)
RecoveryFails == /\ service = "recovering" /\ MayFail
                 /\ service' = "down" /\ Forget
                 /\ UNCHANGED <<durable, crashes>>

Serve == /\ service = "recovering" /\ Recovering = {} /\ Stale = {}
         /\ service' = "up"
         /\ UNCHANGED <<durable, memory, tick, faults, crashes>>

-----------------------------------------------------------------------------
Init == /\ event \in [Sequences -> Events]
        /\ status = [s \in Sequences |-> "none"]
        /\ place = [s \in Sequences |-> "none"]
        /\ journal = {} /\ damaged = {}
        /\ service = "down"
        /\ slots = {} /\ reserved = [e \in Events |-> Nobody]
        /\ pc = [s \in Sequences |-> "none"]
        /\ tick = NoTick
        /\ faults = 0 /\ crashes = 0

Next == \/ \E s \in Sequences :
              \/ Accept(s) \/ Damage(s) \/ Repair(s)
              \/ Worker(s) \/ Recover(s)
        \/ Tick \/ Crash \/ Restart \/ RecoveryFails \/ Serve

Spec == Init /\ [][Next]_vars

(* Threads run, the callback of a calculation ends, the lock is granted to *)
(* whoever waits for it again and again (admission sleeps a second between *)
(* two ticks), and a stopped service is started again.  No step that fails *)
(* is fair, and neither are crashes and what is done to an entry outside.  *)
FairSpec == /\ Spec
            /\ WF_vars(Tick /\ faults' = faults)
            /\ WF_vars(Restart) /\ WF_vars(Serve)
            /\ \A s \in Sequences : /\ WF_vars(Recover(s))
                                     /\ SF_vars(Worker(s) /\ faults' = faults)

-----------------------------------------------------------------------------
TypeOK == /\ event \in [Sequences -> Events]
          /\ status \in [Sequences -> States]
          /\ place \in [Sequences -> Places]
          /\ journal \subseteq Sequences /\ damaged \subseteq Sequences
          /\ service \in {"up", "recovering", "down"}
          /\ slots \subseteq Sequences
          /\ reserved \in [Events -> Sequences \cup {Nobody}]
          /\ pc \in [Sequences -> Steps]
          /\ tick \in [at : {"wait", "read", "admit", "settle"},
                       unread : SUBSET Sequences, found : SUBSET Sequences,
                       barrier : Sequences \cup {NoBarrier},
                       seen : SUBSET Events]
          /\ faults \in 0..MaxFaults /\ crashes \in 0..MaxCrashes

Queue == INSTANCE CalculationQueue
            WITH Events        <- Events,
                 MaxSequence   <- MaxSequence,
                 MaxConcurrent <- MaxConcurrent,
                 event         <- event,
                 status        <- status

(* The scheduler, its workers, their failures, crashes and recoveries      *)
(* together behave as the queue that is promised: see CalculationQueue.    *)
QueueRefined == Queue!Spec

(* The threads that are inside a transaction, with its flocks.             *)
Transacting == {"retire", "promote", "repromote", "mark", "clear"}

Moves == INSTANCE RecordMoves
            WITH held       <- {s \in Sequences : pc[s] \in Transacting},
                 Damageable <- Sequences

(* What a reader of the record directories sees of all this is one of the  *)
(* moves of RecordMoves after the other, whatever fails or crashes.        *)
MovesRefined == Moves!MovesSpec

(* An event never has two transactions: no calculation of an event begins  *)
(* while another one's journal exists, wherever that one was interrupted.  *)
OneTransaction == \A r, s \in journal : event[r] = event[s] => r = s

(* The current record is the event's newest promoted calculation, and only *)
(* finished calculations without a journal are ever replaced by it.        *)
CurrentIsNewest ==
    \A r, s \in Sequences : event[r] = event[s] /\ r < s =>
        /\ place[s] \in {"current", "retired"} => place[r] # "current"
        /\ place[r] = "retired" => status[r] \in Terminal /\ r \notin journal

(* A thread owns its event from its admission to its release: whoever is   *)
(* at work, or has given up without releasing, holds the reservation.      *)
WorkersOwnTheirEvent ==
    service = "up" => \A s \in Sequences :
        /\ pc[s] # "none" => reserved[event[s]] = s
        /\ status[s] = "RUNNING" => pc[s] # "none" /\ s \in slots

(* A reservation outlives its worker slot only for a current record that   *)
(* is terminal: capacity is never given back for work that may still run.  *)
RetainedIsTerminal ==
    \A e \in Events : LET s == reserved[e] IN
        s # Nobody /\ s \notin slots => place[s] = "current" /\ status[s] \in Terminal

(* The slots of threads that have given up without returning them.         *)
Lost == {s \in slots : pc[s] = "kept"}

(* What keeps a record from its calculation for as long as it lasts: a     *)
(* journal that nobody is left to remove beside the event's finished       *)
(* current record, the reservation of a thread that has given up, no slot  *)
(* left, an entry that cannot be read before it or at startup.             *)
Obstructed(s) ==
    \/ \E p \in journal : /\ place[p] = "current" /\ event[p] = event[s]
                         /\ status[p] \in Terminal /\ pc[p] \in {"none", "kept"}
    \/ LET owner == reserved[event[s]] IN owner # Nobody /\ pc[owner] = "kept"
    \/ Cardinality(Lost) = MaxConcurrent
    \/ \E r \in damaged : r <= s \/ service = "down"

(* An accepted calculation ends, unless one of these stands in its way     *)
(* from some moment on and for ever: no interleaving, single failure or    *)
(* crash can leave it waiting for anything else.                           *)
EveryoneIsServed ==
    \A s \in Sequences :
        status[s] = "QUEUED" ~> status[s] \in Terminal \/ []Obstructed(s)

(* A worker slot is given back, or lost until the service is restarted     *)
(* because its thread could not establish that its record is finished; and *)
(* one failing operation loses one slot at most.                           *)
CapacityReturns ==
    /\ [](Cardinality(Lost) <= faults)
    /\ \A s \in Sequences : s \in slots ~> s \notin slots \/ s \in Lost
=============================================================================
