-------------------------- MODULE SchedulerProofs --------------------------
(***************************************************************************)
(* Proofs, for every set of events, number of requests, worker capacity    *)
(* and number of faults and crashes, that the scheduler keeps its          *)
(* invariants and implements CalculationQueue and RecordMoves.             *)
(***************************************************************************)
EXTENDS Scheduler, FiniteSetTheorems, TLAPS

(* What a record can be, by its status, its place and its journal.         *)
Unused(s) == status[s] = "none" /\ place[s] = "none" /\ s \notin journal
Waits(s)  == status[s] = "QUEUED" /\ place[s] = "queue" /\ s \notin journal
Fresh(s)  == status[s] = "RUNNING" /\ place[s] = "queue" /\ s \notin journal
Opened(s) == status[s] = "RUNNING" /\ place[s] = "queue" /\ s \in journal
Moved(s)  == status[s] = "RUNNING" /\ place[s] = "current" /\ s \in journal
Ended(s)  == status[s] \in Terminal /\ place[s] = "current" /\ s \in journal
Closed(s) == status[s] \in Terminal /\ place[s] = "current" /\ s \notin journal
Stuck(s)  == status[s] = "FAILED" /\ place[s] = "queue" /\ s \notin journal
Gone(s)   == status[s] \in Terminal /\ place[s] = "retired" /\ s \notin journal

Shape(s) == \/ Unused(s) \/ Waits(s) \/ Fresh(s) \/ Opened(s) \/ Moved(s)
            \/ Ended(s) \/ Closed(s) \/ Stuck(s) \/ Gone(s)

Shapes == /\ \A s \in Sequences : Shape(s)
          /\ \A s \in damaged : status[s] = "QUEUED"

(* No other record of the event is current.                                *)
Alone(s) == \A p \in Sequences :
               place[p] = "current" /\ event[p] = event[s] => p = s

(* What the thread of a record finds, at each of its steps.                *)
Thread(s) ==
    /\ pc[s] = "none" /\ service = "up" => status[s] # "RUNNING"
    /\ pc[s] \in {"prepare", "settle"} => Fresh(s)
    /\ pc[s] = "retire" => Opened(s)
    /\ pc[s] = "promote" => Opened(s) /\ Alone(s)
    /\ pc[s] = "calculate" => Moved(s)
    /\ pc[s] = "finalize" => Ended(s)
    /\ pc[s] = "repromote" => Opened(s) \/ Moved(s) \/ Ended(s)
    /\ pc[s] = "repromote" => Alone(s)
    /\ pc[s] = "mark" => Moved(s) \/ Ended(s)
    /\ pc[s] = "clear" => Ended(s)
    /\ pc[s] = "verify" => Closed(s)
    /\ pc[s] = "ensure" => Fresh(s) \/ Closed(s)
    /\ pc[s] = "finish" => Closed(s) \/ Stuck(s)
    /\ pc[s] \in {"locate", "drop"} =>
         Fresh(s) \/ Opened(s) \/ Moved(s) \/ Ended(s) \/ Closed(s)
    /\ pc[s] = "kept" => ~Unused(s) /\ ~Gone(s)
    /\ pc[s] # "dispose"

Threads == \A s \in Sequences : Thread(s)

Begun == {"RUNNING"} \cup Terminal

(* A calculation begins when all earlier ones of its event are over.       *)
Ordered ==
    /\ \A r, s \in Sequences : event[r] = event[s] /\ r < s =>
          /\ status[s] \in Begun => status[r] \in Terminal /\ r \notin journal
          /\ place[s] \in {"current", "retired"} => place[r] # "current"
    /\ \A r, s \in Sequences :
          r < s /\ status[s] # "none" => status[r] # "none"

(* While the service is up, threads and reservations belong together.      *)
Owned ==
    service = "up" =>
      /\ \A s \in Sequences : pc[s] # "none" =>
            /\ reserved[event[s]] = s
            /\ s \in slots \/ /\ pc[s] = "kept" /\ place[s] = "current"
                              /\ status[s] \in Terminal
      /\ \A e \in Events : reserved[e] # Nobody =>
            event[reserved[e]] = e /\ pc[reserved[e]] # "none"

(* While it is not, there are none, except that of the recovery.           *)
Resting ==
    service # "up" =>
      /\ ~Locked /\ slots = {}
      /\ \A e \in Events : reserved[e] = Nobody
      /\ \A s \in Sequences : pc[s] # "none" =>
            /\ service = "recovering"
            /\ \/ pc[s] = "locate" /\ (Opened(s) \/ Moved(s))
               \/ pc[s] = "repromote" /\ (Opened(s) \/ Moved(s))
               \/ pc[s] = "mark" /\ Moved(s)
               \/ pc[s] = "clear"

(* What the admission thread has found stays QUEUED, and it passes over no *)
(* QUEUED record without a barrier or an earlier one of the same event.    *)
Scanned ==
    /\ \A s \in tick.found : status[s] = "QUEUED"
    /\ tick.at \in {"admit", "settle"} => tick.unread = {}
    /\ Locked => \A s \in Sequences : status[s] = "QUEUED" =>
          \/ s \in tick.unread \/ s \in tick.found
          \/ tick.barrier <= s \/ event[s] \in tick.seen

Inv == TypeOK /\ Shapes /\ Threads /\ Ordered /\ Owned /\ Resting /\ Scanned
-----------------------------------------------------------------------------
(* Types.                                                                  *)

USE DEF Go, SetStatus, SetPlace, MayFail

Records == [at : {"wait", "read", "admit", "settle"},
            unread : SUBSET Sequences, found : SUBSET Sequences,
            barrier : Sequences \cup {NoBarrier}, seen : SUBSET Events]

DurableTyped == /\ event \in [Sequences -> Events]
                /\ status \in [Sequences -> States]
                /\ place \in [Sequences -> Places]
                /\ journal \subseteq Sequences /\ damaged \subseteq Sequences
MemoryTyped == /\ slots \subseteq Sequences
               /\ reserved \in [Events -> Sequences \cup {Nobody}]
               /\ pc \in [Sequences -> Steps]
CountersTyped == faults \in 0..MaxFaults /\ crashes \in 0..MaxCrashes

LEMMA TypeParts ==
  TypeOK <=> /\ DurableTyped /\ MemoryTyped /\ CountersTyped
             /\ tick \in Records /\ service \in {"up", "recovering", "down"}
BY DEF TypeOK, DurableTyped, MemoryTyped, CountersTyped, Records

(* A counter that MayFail or a crash increments stays within its bound.    *)
LEMMA CounterStep ==
  ASSUME NEW n \in Nat, NEW k \in 0..n, NEW m, m = k \/ (k < n /\ m = k + 1)
  PROVE  m \in 0..n
OBVIOUS

LEMMA FaultTyped ==
  ASSUME CountersTyped, faults' = faults \/ MayFail, crashes' = crashes
  PROVE  CountersTyped'
<1>1. MaxFaults \in Nat /\ MaxCrashes \in Nat
  BY BoundsNatural
<1> QED BY <1>1, CounterStep DEF CountersTyped

LEMMA NoTickTyped == NoTick \in Records
BY DEF NoTick, Records

LEMMA ReserveTyped ==
  ASSUME DurableTyped, MemoryTyped, NEW s \in Sequences, Reserve(s),
         NEW a \in Steps, Go(s, a)
  PROVE  MemoryTyped'
BY DEF DurableTyped, MemoryTyped, Reserve

LEMMA ReleaseTyped ==
  ASSUME DurableTyped, MemoryTyped, NEW s \in Sequences, Release(s)
  PROVE  MemoryTyped'
<1>1. "none" \in Steps
  BY DEF Steps
<1> QED BY <1>1 DEF DurableTyped, MemoryTyped, Release

LEMMA ConsideredTyped ==
  ASSUME DurableTyped, tick \in Records, NEW s \in Sequences
  PROVE  /\ Considered(s) \in Records
         /\ [Considered(s) EXCEPT !.at = "settle"] \in Records
BY DEF DurableTyped, Records, Considered

LEMMA WorkTyped ==
  ASSUME DurableTyped, MemoryTyped, NEW s \in Sequences, Work(s) \/ Trouble(s)
  PROVE  DurableTyped' /\ MemoryTyped'
<1> USE DEF DurableTyped, MemoryTyped, Retain
<1>s. {"none", "retire", "promote", "calculate", "finalize", "ensure",
       "repromote", "mark", "clear", "verify", "drop", "kept", "finish",
       "locate"} \subseteq Steps
  BY DEF Steps, Calling, Mending, Leaving
<1>t. Terminal \subseteq States /\ "FAILED" \in States
  BY DEF Terminal, States
<1>p. {"current", "retired"} \subseteq Places
  BY DEF Places
<1>1. CASE WriteJournal(s) \/ FinalizeTransaction(s) \/ RemoveJournal(s)
  BY <1>1, <1>s DEF WriteJournal, FinalizeTransaction, RemoveJournal
<1>2. CASE RetirePreceding(s) \/ Dispose(s)
  BY <1>2, <1>s, <1>p DEF RetirePreceding, Dispose, Retire
<1>3. CASE Promote(s) \/ Repromote(s)
  BY <1>3, <1>s, <1>p DEF Promote, Repromote
<1>4. CASE Calculate(s) \/ MarkFailed(s) \/ EnsureTerminal(s)
  BY <1>4, <1>s, <1>t DEF Calculate, MarkFailed, EnsureTerminal
<1>5. CASE Locate(s) \/ Refuse(s) \/ Drop(s) \/ VerifyTerminal(s)
  BY <1>5, <1>s DEF Locate, Refuse, Drop, VerifyTerminal, durable
<1>6. CASE Finish(s)
  BY <1>6, ReleaseTyped DEF Finish, durable
<1>7. CASE Raise(s) \/ ReconcileFails(s)
  BY <1>7, <1>s DEF Raise, ReconcileFails
<1>8. CASE LeavingFails(s)
  BY <1>8, <1>s, <1>t DEF LeavingFails
<1> QED
  BY <1>1, <1>2, <1>3, <1>4, <1>5, <1>6, <1>7, <1>8 DEF Work, Trouble

LEMMA TypeStep == TypeOK /\ [Next]_vars => TypeOK'
<1> SUFFICES ASSUME TypeOK, [Next]_vars PROVE TypeOK'
  OBVIOUS
<1>0. /\ DurableTyped /\ MemoryTyped /\ CountersTyped
      /\ tick \in Records /\ service \in {"up", "recovering", "down"}
  BY TypeParts
<1> SUFFICES /\ DurableTyped' /\ MemoryTyped' /\ CountersTyped'
             /\ tick' \in Records /\ service' \in {"up", "recovering", "down"}
  BY TypeParts DEF TypeOK, DurableTyped, MemoryTyped, CountersTyped, Records
<1>c. faults' = faults /\ crashes' = crashes => CountersTyped'
  BY <1>0 DEF CountersTyped
<1>d. UNCHANGED durable => DurableTyped'
  BY <1>0 DEF durable, DurableTyped
<1>m. UNCHANGED memory => MemoryTyped'
  BY <1>0 DEF memory, MemoryTyped
<1>1. ASSUME NEW s \in Sequences, Accept(s) \/ Damage(s) \/ Repair(s)
      PROVE  DurableTyped' /\ MemoryTyped' /\ CountersTyped'
             /\ tick' = tick /\ service' = service
  BY <1>0, <1>1, <1>c, <1>m, FaultTyped
     DEF Accept, Damage, Repair, DurableTyped, memory, States, Places
<1>2. ASSUME NEW s \in Sequences, Worker(s)
      PROVE  DurableTyped' /\ MemoryTyped' /\ CountersTyped'
             /\ tick' = tick /\ service' = service
  <2>1. DurableTyped' /\ MemoryTyped'
    BY <1>0, <1>2, WorkTyped DEF Worker
  <2>2. CountersTyped'
    BY <1>0, <1>2, <1>c, FaultTyped
       DEF Worker, Trouble, Raise, ReconcileFails, LeavingFails
  <2> QED BY <1>2, <2>1, <2>2 DEF Worker
<1>3. ASSUME NEW s \in Sequences, Recover(s)
      PROVE  DurableTyped' /\ MemoryTyped' /\ CountersTyped'
             /\ tick' = tick /\ service' = service
  BY <1>0, <1>3, <1>c DEF Recover, DurableTyped, MemoryTyped, States, Terminal,
     Steps, Mending
<1>4. CASE Crash \/ RecoveryFails
  <2>1. CountersTyped'
    <3>1. MaxFaults \in Nat /\ MaxCrashes \in Nat
      BY BoundsNatural
    <3> QED BY <1>0, <1>4, <3>1, CounterStep
               DEF Crash, RecoveryFails, CountersTyped
  <2>2. MemoryTyped' /\ tick' \in Records
    BY <1>4, NoTickTyped DEF Crash, RecoveryFails, Forget, MemoryTyped, Steps
  <2> QED BY <1>4, <1>d, <2>1, <2>2 DEF Crash, RecoveryFails
<1>5. CASE Restart \/ Serve
  BY <1>0, <1>5, <1>c, <1>d, <1>m DEF Restart, Serve
<1>6. CASE ListQueue \/ ScanDone \/ TickDone
  <2>1. tick' \in Records
    BY <1>0, <1>6, NoTickTyped DEF ListQueue, ScanDone, TickDone, Records
  <2> QED BY <1>0, <1>6, <1>c, <1>d, <1>m, <2>1 DEF ListQueue, ScanDone, TickDone
<1>7. ASSUME NEW s \in Sequences, ReadEntry(s)
      PROVE  DurableTyped' /\ MemoryTyped' /\ CountersTyped'
             /\ tick' \in Records /\ service' = service
  <2>1. tick' \in Records
    BY <1>0, <1>7 DEF ReadEntry, Records
  <2> QED BY <1>7, <1>c, <1>d, <1>m, <2>1 DEF ReadEntry
<1>8. ASSUME NEW s \in Sequences, Skip(s) \/ ClaimFails(s)
      PROVE  DurableTyped' /\ MemoryTyped' /\ CountersTyped'
             /\ tick' \in Records /\ service' = service
  BY <1>0, <1>8, <1>c, <1>d, <1>m, ConsideredTyped, FaultTyped
     DEF Skip, ClaimFails
<1>9. ASSUME NEW s \in Sequences, ClaimUnreadable(s) \/ Admit(s)
      PROVE  DurableTyped' /\ MemoryTyped' /\ CountersTyped'
             /\ tick' \in Records /\ service' = service
  <2>1. {"kept", "prepare", "settle"} \subseteq Steps
    BY DEF Steps, Calling
  <2>2. MemoryTyped'
    BY <1>0, <1>9, <2>1, ReserveTyped DEF ClaimUnreadable, Admit
  <2>3. tick' \in Records
    BY <1>0, <1>9, ConsideredTyped DEF ClaimUnreadable, Admit
  <2>4. DurableTyped'
    BY <1>0, <1>9, <1>d DEF ClaimUnreadable, Admit, DurableTyped, States
  <2>5. CountersTyped'
    BY <1>0, <1>9, <1>c, FaultTyped DEF ClaimUnreadable, Admit
  <2> QED BY <1>9, <2>2, <2>3, <2>4, <2>5 DEF ClaimUnreadable, Admit
<1>10. ASSUME NEW s \in Sequences, Settle(s)
       PROVE  DurableTyped' /\ MemoryTyped' /\ CountersTyped'
              /\ tick' \in Records /\ service' = service
  <2>1. MemoryTyped'
    <3>1. CASE Release(s)
      BY <1>0, <3>1, ReleaseTyped
    <3>2. CASE Go(s, "kept") /\ UNCHANGED <<slots, reserved>>
      BY <1>0, <3>2 DEF MemoryTyped, Steps
    <3> QED BY <1>10, <3>1, <3>2 DEF Settle
  <2>2. DurableTyped'
    BY <1>0, <1>10 DEF Settle, DurableTyped, States, Terminal
  <2>3. tick' \in Records
    BY <1>0, <1>10 DEF Settle, Records
  <2>4. CountersTyped'
    BY <1>0, <1>10, <1>c, FaultTyped DEF Settle
  <2> QED BY <1>10, <2>1, <2>2, <2>3, <2>4 DEF Settle
<1>11. CASE UNCHANGED vars
  BY <1>0, <1>11, <1>c, <1>d, <1>m DEF vars
<1> QED
  BY <1>0, <1>1, <1>2, <1>3, <1>4, <1>5, <1>6, <1>7, <1>8, <1>9, <1>10, <1>11
     DEF Next, Tick
-----------------------------------------------------------------------------
(* The steps of a worker, and of recovery, on one record.                  *)

USE DEF Unused, Waits, Fresh, Opened, Moved, Ended, Closed, Stuck, Gone,
        Terminal, Nobody

(* What they all leave alone ...                                           *)
Elsewhere(s) ==
    /\ \A r \in Sequences \ {s} : /\ status'[r] = status[r] /\ pc'[r] = pc[r]
                                  /\ r \in journal' <=> r \in journal
    /\ UNCHANGED <<event, damaged, service, tick>>

(* ... and how they change the record itself.                              *)
Onward(s) ==
    /\ status[s] \in Begun /\ status'[s] \in Begun
    /\ status[s] \in Terminal => status'[s] \in Terminal
    /\ s \in journal' => s \in journal \/ status[s] = "RUNNING"
    /\ Shape(s)' /\ Thread(s)'

(* Steps that move no other record.                                        *)
InPlace(s) ==
    /\ \A r \in Sequences \ {s} : place'[r] = place[r]
    /\ place'[s] # place[s] =>
          place'[s] = "current" /\ s \in journal /\ Alone(s)

(* Two records of an event are never both in a transaction.                *)
LEMMA JournalsApart ==
  ASSUME Inv, NEW r \in journal, NEW s \in journal, event[r] = event[s]
  PROVE  r = s
<1>1. /\ r \in Sequences /\ s \in Sequences
      /\ status[r] \in Begun /\ status[s] \in Begun
  BY DEF Inv, TypeOK, Shapes, Shape, Begun
<1>2. r < s \/ s < r \/ r = s
  BY <1>1 DEF Sequences
<1> QED BY <1>1, <1>2 DEF Inv, Ordered

LEMMA StepOfOne ==
  ASSUME Inv, NEW s \in Sequences, Elsewhere(s), Onward(s), InPlace(s)
  PROVE  (Shapes /\ Threads /\ Ordered /\ Scanned)'
<1>1. Shapes'
  <2>1. ASSUME NEW r \in Sequences PROVE Shape(r)'
    BY <2>1 DEF Inv, Shapes, Shape, Elsewhere, Onward, InPlace
  <2>2. ASSUME NEW r \in damaged PROVE status'[r] = "QUEUED"
    BY <2>2 DEF Inv, TypeOK, Shapes, Elsewhere, Onward, Begun
  <2> QED BY <2>1, <2>2 DEF Shapes, Elsewhere
<1>2. Threads'
  <2> SUFFICES ASSUME NEW r \in Sequences, r # s PROVE Thread(r)'
    BY DEF Threads, Onward
  <2>1. /\ pc'[r] = pc[r] /\ status'[r] = status[r] /\ place'[r] = place[r]
        /\ service' = service /\ (r \in journal' <=> r \in journal)
        /\ Thread(r)
    BY DEF Elsewhere, InPlace, Inv, Threads
  <2>2. ASSUME pc[r] \in {"promote", "repromote"} PROVE Alone(r)'
    <3>1. r \in journal /\ Alone(r)
      BY <2>1, <2>2 DEF Thread
    <3>2. ASSUME NEW q \in Sequences, place'[q] = "current", event[q] = event[r]
          PROVE  q = r
      <4>1. CASE place[q] = "current"
        BY <3>1, <3>2, <4>1 DEF Alone
      <4>2. CASE place[q] # "current"
        BY <3>1, <3>2, <4>2, JournalsApart DEF InPlace
      <4> QED BY <4>1, <4>2
    <3> QED BY <3>2 DEF Alone, Elsewhere
  <2> QED BY <2>1, <2>2 DEF Thread
<1>3. Ordered'
  <2>1. ASSUME NEW p \in Sequences, NEW q \in Sequences, event[p] = event[q],
               p < q, status'[q] \in Begun
        PROVE  status'[p] \in Terminal /\ p \notin journal'
    <3>1. p # q /\ status[q] \in Begun
      BY <2>1 DEF Elsewhere, Onward, Sequences
    <3>2. status[p] \in Terminal /\ p \notin journal
      BY <2>1, <3>1 DEF Inv, Ordered
    <3> QED BY <3>2 DEF Elsewhere, Onward
  <2>2. ASSUME NEW p \in Sequences, NEW q \in Sequences, event[p] = event[q],
               p < q, place'[q] \in {"current", "retired"}
        PROVE  place'[p] # "current"
    <3>0. p # q
      BY <2>2 DEF Sequences
    <3>1. CASE place'[q] = place[q]
      <4>1. place[p] # "current" /\ status[q] \in Begun
        BY <2>2, <3>1 DEF Inv, Ordered, Shapes, Shape, Begun
      <4>2. p \notin journal
        BY <2>2, <4>1 DEF Inv, Ordered
      <4> QED BY <4>1, <4>2 DEF InPlace
    <3>2. CASE place'[q] # place[q]
      BY <2>2, <3>0, <3>2 DEF InPlace, Alone
    <3> QED BY <3>1, <3>2
  <2>3. ASSUME NEW p \in Sequences, NEW q \in Sequences, p < q,
               status'[q] # "none"
        PROVE  status'[p] # "none"
    BY <2>3 DEF Inv, Ordered, Elsewhere, Onward, Begun
  <2> QED BY <2>1, <2>2, <2>3 DEF Ordered, Elsewhere
<1>4. Scanned'
  <2>1. \A r \in Sequences : status'[r] = "QUEUED" <=> status[r] = "QUEUED"
    BY DEF Elsewhere, Onward, Begun
  <2>2. tick' = tick /\ event' = event /\ tick.found \subseteq Sequences
    BY DEF Elsewhere, Inv, TypeOK
  <2> QED BY <2>1, <2>2 DEF Inv, Scanned, Locked
<1> QED BY <1>1, <1>2, <1>3, <1>4

(* How a thread's slot and reservation follow it.                          *)
Keeps(s) == /\ UNCHANGED <<slots, reserved>>
            /\ pc'[s] = "none" => service # "up"
Retains(s) == /\ Retain(s) /\ service = "up"
              /\ pc'[s] = "kept" /\ place'[s] = "current"
              /\ status'[s] \in Terminal
Releases(s) == Release(s) /\ service = "up"

LEMMA OwnedOfOne ==
  ASSUME Inv, NEW s \in Sequences, Elsewhere(s),
         \A r \in Sequences \ {s} : pc[r] # "none" => place'[r] = place[r],
         pc[s] \notin {"none", "kept"}, Keeps(s) \/ Retains(s) \/ Releases(s)
  PROVE  Owned'
<1> SUFFICES ASSUME service = "up" PROVE Owned'
  BY DEF Owned, Elsewhere
<1>0. /\ Owned /\ reserved \in [Events -> Sequences \cup {0}]
      /\ event \in [Sequences -> Events] /\ pc \in [Sequences -> Steps]
  BY DEF Inv, TypeOK
<1>1. reserved[event[s]] = s /\ s \in slots
  BY <1>0 DEF Owned
<1>2. ASSUME NEW r \in Sequences, r # s, pc'[r] # "none"
      PROVE  /\ reserved'[event[r]] = r
             /\ r \in slots' \/ /\ pc'[r] = "kept" /\ place'[r] = "current"
                                /\ status'[r] \in Terminal
  <2>1. pc[r] # "none" /\ reserved[event[r]] = r /\ event[r] # event[s]
    BY <1>0, <1>1, <1>2 DEF Owned, Elsewhere
  <2> QED
    BY <1>0, <1>1, <1>2, <2>1
       DEF Owned, Elsewhere, Keeps, Retains, Releases, Retain, Release
<1>3. ASSUME pc'[s] # "none"
      PROVE  /\ reserved'[event[s]] = s
             /\ s \in slots' \/ /\ pc'[s] = "kept" /\ place'[s] = "current"
                                /\ status'[s] \in Terminal
  BY <1>0, <1>1, <1>3 DEF Keeps, Retains, Releases, Retain, Release
<1>4. ASSUME NEW e \in Events, reserved'[e] # 0
      PROVE  event[reserved'[e]] = e /\ pc'[reserved'[e]] # "none"
  <2>1. reserved'[e] = reserved[e]
    BY <1>0, <1>1, <1>4 DEF Keeps, Retains, Releases, Retain, Release
  <2>2. event[reserved[e]] = e /\ pc[reserved[e]] # "none"
        /\ reserved[e] \in Sequences
    BY <1>0, <1>4, <2>1 DEF Owned
  <2>3. CASE reserved[e] = s
    BY <1>0, <1>1, <1>4, <2>1, <2>2, <2>3
       DEF Keeps, Retains, Releases, Retain, Release
  <2> QED BY <2>1, <2>2, <2>3 DEF Elsewhere
<1> QED BY <1>2, <1>3, <1>4 DEF Owned, Elsewhere

(* A step of recovery.                                                     *)
Mends(s) == /\ UNCHANGED <<slots, reserved>>
            /\ \/ pc'[s] = "none"
               \/ pc'[s] \in {"locate", "repromote"} /\ (Opened(s) \/ Moved(s))'
               \/ pc'[s] = "mark" /\ Moved(s)'
               \/ pc'[s] = "clear"

LEMMA RestingOfOne ==
  ASSUME Inv, NEW s \in Sequences, Elsewhere(s), pc[s] # "none",
         \A r \in Sequences \ {s} : pc[r] # "none" => place'[r] = place[r],
         service # "up" => Mends(s)
  PROVE  Resting'
<1> SUFFICES ASSUME service # "up" PROVE Resting'
  BY DEF Resting, Elsewhere
<1>1. Resting /\ Mends(s) /\ Elsewhere(s)
  BY DEF Inv
<1> QED BY <1>1 DEF Resting, Mends, Elsewhere, Locked
(* All of a worker's steps that move no other record.                      *)
LEMMA PlainWork ==
  ASSUME Inv, NEW s \in Sequences, UNCHANGED <<service, tick>>,
         \/ Work(s) /\ ~RetirePreceding(s) /\ ~Dispose(s)
         \/ Trouble(s)
  PROVE  /\ pc[s] \notin {"none", "kept"}
         /\ Elsewhere(s) /\ Onward(s) /\ InPlace(s)
         /\ Keeps(s) \/ Retains(s) \/ Releases(s)
         /\ service # "up" => Mends(s)
<1> USE DEF Elsewhere, Onward, InPlace, Keeps, Mends, Begun, Shape
<1>0. /\ status \in [Sequences -> States] /\ place \in [Sequences -> Places]
      /\ pc \in [Sequences -> Steps] /\ journal \subseteq Sequences
      /\ Shape(s) /\ Thread(s) /\ service \in {"up", "recovering", "down"}
  BY DEF Inv, TypeOK, Shapes, Threads
<1>1. service # "up" => \/ pc[s] \in {"none", "clear"}
                        \/ pc[s] \in {"locate", "repromote"} /\ (Opened(s) \/ Moved(s))
                        \/ pc[s] = "mark" /\ Moved(s)
  BY DEF Inv, Resting
<1>2. service # "up" /\ pc[s] # "none" => service = "recovering"
  BY DEF Inv, Resting
<1>3. CASE WriteJournal(s)
  BY <1>0, <1>1, <1>3 DEF WriteJournal, Thread
<1>4. CASE Promote(s)
  BY <1>0, <1>1, <1>4 DEF Promote, Thread
<1>5. CASE Calculate(s)
  BY <1>0, <1>1, <1>5 DEF Calculate, Thread
<1>6. CASE FinalizeTransaction(s)
  BY <1>0, <1>1, <1>6 DEF FinalizeTransaction, Thread
<1>7. CASE Locate(s)
  BY <1>0, <1>1, <1>7 DEF Locate, Thread, durable
<1>8. CASE Repromote(s)
  BY <1>0, <1>1, <1>8 DEF Repromote, Thread
<1>9. CASE MarkFailed(s)
  BY <1>0, <1>1, <1>9 DEF MarkFailed, Thread
<1>10. CASE RemoveJournal(s)
  BY <1>0, <1>1, <1>2, <1>10 DEF RemoveJournal, Thread
<1>11. CASE Refuse(s)
  BY <1>0, <1>1, <1>11 DEF Refuse, Thread, durable
<1>12. CASE Drop(s)
  BY <1>0, <1>1, <1>12 DEF Drop, Thread, durable, Retains
<1>13. CASE EnsureTerminal(s)
  BY <1>0, <1>1, <1>13 DEF EnsureTerminal, Thread
<1>14. CASE VerifyTerminal(s)
  BY <1>0, <1>1, <1>14 DEF VerifyTerminal, Thread, durable
<1>15. CASE Finish(s)
  BY <1>0, <1>1, <1>15 DEF Finish, Thread, durable, Releases, Release
<1>16. CASE Raise(s)
  BY <1>0, <1>1, <1>16 DEF Raise, Calling, Thread
<1>17. CASE ReconcileFails(s)
  BY <1>0, <1>1, <1>17 DEF ReconcileFails, Mending, Thread
<1>18. CASE LeavingFails(s)
  BY <1>0, <1>1, <1>18 DEF LeavingFails, Leaving, Thread, Retains, Retain
<1> QED
  BY <1>3, <1>4, <1>5, <1>6, <1>7, <1>8, <1>9, <1>10, <1>11, <1>12, <1>13,
     <1>14, <1>15, <1>16, <1>17, <1>18 DEF Work, Trouble

(* The preceding record that a transaction retires is over, has no journal *)
(* and no thread.                                                          *)
LEMMA PrecedingIsOver ==
  ASSUME Inv, NEW s \in Sequences, s \in journal, pc[s] # "none",
         NEW p \in Preceding(s) \ {s}
  PROVE  p \in Sequences /\ p < s /\ Closed(p) /\ pc[p] = "none"
<1>1. /\ p \in Sequences /\ place[p] = "current" /\ event[p] = event[s]
      /\ Shape(p) /\ Shape(s)
  BY DEF Preceding, Inv, Shapes
<1>2. p < s \/ s < p
  BY DEF Sequences, Preceding
<1>3. status[p] \in Begun /\ status[s] \in Begun
  BY <1>1 DEF Shape, Begun
<1>4. p < s /\ status[p] \in Terminal /\ p \notin journal
  BY <1>1, <1>2, <1>3 DEF Inv, Ordered
<1>5. CASE service = "up"
  BY <1>1, <1>4, <1>5 DEF Inv, Owned
<1>6. CASE service # "up"
  BY <1>1, <1>4, <1>6 DEF Inv, Resting, Threads, Thread
<1> QED BY <1>1, <1>4, <1>5, <1>6

LEMMA RetiringStep ==
  ASSUME Inv, NEW s \in Sequences, UNCHANGED <<service, tick>>,
         RetirePreceding(s) \/ Dispose(s)
  PROVE  (Shapes /\ Threads /\ Ordered /\ Owned /\ Resting /\ Scanned)'
<1>0. /\ status \in [Sequences -> States] /\ place \in [Sequences -> Places]
      /\ pc \in [Sequences -> Steps] /\ journal \subseteq Sequences
      /\ Shape(s) /\ Thread(s) /\ service \in {"up", "recovering", "down"}
  BY DEF Inv, TypeOK, Shapes, Threads
<1>1. /\ s \in journal /\ pc[s] \in {"retire", "locate"}
      /\ UNCHANGED <<event, status, journal, damaged, slots, reserved>>
      /\ Retire(s) /\ pc'[s] \in {"promote", "repromote"}
      /\ Elsewhere(s)
  BY <1>0 DEF RetirePreceding, Dispose, Thread, Elsewhere
<1>2. \A p \in Preceding(s) \ {s} :
         p \in Sequences /\ p < s /\ Closed(p) /\ pc[p] = "none"
  BY <1>1, PrecedingIsOver
<1>3. /\ place'[s] = place[s]
      /\ \A r \in Sequences \ {s} :
            \/ place'[r] = place[r] /\ r \notin Preceding(s)
            \/ /\ place'[r] = "retired" /\ Closed(r) /\ pc[r] = "none"
               /\ r \in Preceding(s)
  BY <1>1, <1>2 DEF Retire
<1>4. Alone(s)'
  BY <1>1, <1>3 DEF Alone, Preceding
<1>5. Shapes'
  BY <1>1, <1>3 DEF Inv, Shapes, Shape
<1>6. Thread(s)'
  <2>1. CASE pc[s] = "retire"
    BY <1>0, <1>1, <1>3, <1>4, <2>1 DEF RetirePreceding, Dispose, Thread
  <2>2. CASE pc[s] = "locate"
    BY <1>0, <1>1, <1>3, <1>4, <2>2 DEF RetirePreceding, Dispose, Thread
  <2> QED BY <1>1, <2>1, <2>2
<1>7. ASSUME NEW r \in Sequences, r # s PROVE Thread(r)'
  <2>1. pc'[r] = pc[r] /\ status'[r] = status[r] /\ service' = service
        /\ (r \in journal' <=> r \in journal) /\ Thread(r)
        /\ (place'[r] = place[r] \/ pc[r] = "none")
    BY <1>1, <1>3, <1>7 DEF Elsewhere, Inv, Threads
  <2>2. Alone(r) => Alone(r)'
    BY <1>1, <1>3 DEF Alone
  <2> QED BY <2>1, <2>2 DEF Thread
<1>8. Ordered'
  <2>1. \A q \in Sequences : place'[q] = "current" => place[q] = "current"
    BY <1>3
  <2>2. \A q \in Sequences : place'[q] \in {"current", "retired"} =>
                             place[q] \in {"current", "retired"}
    BY <1>3
  <2> QED BY <1>1, <2>1, <2>2 DEF Inv, Ordered
<1>9. Scanned'
  BY <1>1 DEF Elsewhere, Inv, Scanned, Locked
<1>10. \A r \in Sequences \ {s} : pc[r] # "none" => place'[r] = place[r]
  BY <1>3
<1>11. Owned'
  BY <1>1, <1>10, OwnedOfOne DEF Keeps
<1>12. Resting'
  <2>1. service # "up" => Mends(s)
    BY <1>0, <1>1, <1>3 DEF RetirePreceding, Dispose, Inv, Resting, Mends
  <2> QED BY <1>1, <1>10, <2>1, RestingOfOne
<1> QED BY <1>5, <1>6, <1>7, <1>8, <1>9, <1>11, <1>12 DEF Threads

LEMMA WorkerStep ==
  ASSUME Inv, TypeOK', NEW s \in Sequences, Worker(s)
  PROVE  Inv'
<1>1. CASE RetirePreceding(s) \/ Dispose(s)
  BY <1>1, RetiringStep DEF Worker, Inv
<1>2. CASE ~(RetirePreceding(s) \/ Dispose(s))
  <2>1. /\ pc[s] \notin {"none", "kept"}
        /\ Elsewhere(s) /\ Onward(s) /\ InPlace(s)
        /\ Keeps(s) \/ Retains(s) \/ Releases(s)
        /\ service # "up" => Mends(s)
    BY <1>2, PlainWork DEF Worker
  <2>2. \A r \in Sequences \ {s} : pc[r] # "none" => place'[r] = place[r]
    BY <2>1 DEF InPlace
  <2> QED BY <2>1, <2>2, StepOfOne, OwnedOfOne, RestingOfOne DEF Inv
<1> QED BY <1>1, <1>2
-----------------------------------------------------------------------------
(* The other steps.                                                        *)

(* A step that changes no record, journal or thread.                       *)
LEMMA QuietStep ==
  ASSUME Inv, UNCHANGED <<event, status, place, journal, memory, service>>,
         \A r \in damaged' : status[r] = "QUEUED"
  PROVE  (Shapes /\ Threads /\ Ordered /\ Owned)'
<1> USE DEF memory
<1>1. Shapes'
  BY DEF Inv, Shapes, Shape
<1>2. Threads'
  BY DEF Inv, Threads, Thread, Alone
<1>3. Ordered' /\ Owned'
  BY DEF Inv, Ordered, Owned
<1> QED BY <1>1, <1>2, <1>3

LEMMA DamageStep ==
  ASSUME Inv, TypeOK', NEW s \in Sequences, Damage(s) \/ Repair(s)
  PROVE  Inv'
<1>1. /\ UNCHANGED <<event, status, place, journal, memory, service, tick>>
      /\ \A r \in damaged' : status[r] = "QUEUED"
  BY DEF Damage, Repair, Inv, Shapes
<1>2. Resting' /\ Scanned'
  BY <1>1 DEF Inv, Resting, Scanned, Locked, memory
<1> QED BY <1>1, <1>2, QuietStep DEF Inv

LEMMA AcceptStep ==
  ASSUME Inv, TypeOK', NEW s \in Sequences, Accept(s)
  PROVE  Inv'
<1>0. /\ status \in [Sequences -> States] /\ place \in [Sequences -> Places]
      /\ service = "up" /\ tick' = tick /\ ~Locked /\ status[s] = "none"
      /\ Shape(s) /\ Thread(s) /\ damaged \subseteq Sequences
      /\ tick.found \subseteq Sequences
  BY DEF Inv, TypeOK, Shapes, Threads, Accept
<1>1. /\ UNCHANGED <<event, journal, damaged, memory, service, tick>>
      /\ status'[s] = "QUEUED" /\ place'[s] = "queue" /\ place[s] = "none"
      /\ s \notin journal /\ pc[s] = "none"
      /\ \A r \in Sequences \ {s} : status'[r] = status[r] /\ place'[r] = place[r]
  BY <1>0 DEF Accept, Shape, Thread, memory, Inv, TypeOK, Steps, Calling,
     Mending, Leaving
<1>2. Shapes'
  BY <1>0, <1>1 DEF Inv, Shapes, Shape
<1>3. Threads'
  <2>1. \A r \in Sequences : Alone(r) => Alone(r)'
    BY <1>1 DEF Alone
  <2>2. Thread(s)'
    BY <1>1 DEF Thread, memory
  <2>3. \A r \in Sequences \ {s} : Thread(r)'
    BY <1>1, <2>1 DEF Inv, Threads, Thread, memory
  <2> QED BY <2>2, <2>3 DEF Threads
<1>4. Ordered'
  <2>1. \A r \in Sequences : r < s => status[r] # "none"
    BY DEF Accept
  <2> QED BY <1>0, <1>1, <2>1 DEF Inv, Ordered, Begun, Sequences
<1>5. Owned'
  BY <1>0, <1>1 DEF Inv, Owned, memory
<1>6. Resting' /\ Scanned'
  BY <1>0, <1>1 DEF Inv, Resting, Scanned, Locked
<1> QED BY <1>2, <1>3, <1>4, <1>5, <1>6 DEF Inv

LEMMA RecoverStep ==
  ASSUME Inv, TypeOK', NEW s \in Sequences, Recover(s)
  PROVE  Inv'
<1>0. /\ status \in [Sequences -> States] /\ pc \in [Sequences -> Steps]
      /\ service = "recovering" /\ service' = service /\ Shape(s)
      /\ status[s] = "RUNNING" /\ pc[s] = "none" /\ tick' = tick
      /\ UNCHANGED <<event, place, journal, damaged, slots, reserved>>
  BY DEF Inv, TypeOK, Shapes, Recover, First, Stale, Recovering
<1>1. CASE s \in journal
  <2>1. Elsewhere(s) /\ InPlace(s) /\ UNCHANGED status /\ pc'[s] = "locate"
    BY <1>0, <1>1 DEF Recover, Elsewhere, InPlace
  <2>2. Onward(s)
    BY <1>0, <1>1, <2>1 DEF Onward, Shape, Begun, Thread
  <2> QED
    BY <1>0, <1>1, <2>1, <2>2, StepOfOne
       DEF Inv, Owned, Resting, Shape, Elsewhere, Locked
<1>2. CASE s \notin journal
  <2>1. /\ Elsewhere(s) /\ InPlace(s) /\ status'[s] = "FAILED"
        /\ UNCHANGED pc
    BY <1>0, <1>2 DEF Recover, Elsewhere, InPlace
  <2>2. Onward(s)
    BY <1>0, <1>2, <2>1 DEF Onward, Shape, Begun, Thread
  <2> QED
    BY <1>0, <1>2, <2>1, <2>2, StepOfOne
       DEF Inv, Owned, Resting, Elsewhere, Locked
<1> QED BY <1>1, <1>2

(* The process dies, or the start is given up.                             *)
LEMMA StopStep ==
  ASSUME Inv, TypeOK', Crash \/ RecoveryFails
  PROVE  Inv'
<1>1. UNCHANGED <<event, status, place, journal, damaged>>
      /\ service' = "down" /\ Forget
  BY DEF Crash, RecoveryFails, durable
<1>2. Shapes' /\ Ordered'
  BY <1>1 DEF Inv, Shapes, Shape, Ordered
<1>3. Threads' /\ Owned' /\ Resting' /\ Scanned'
  BY <1>1 DEF Forget, Threads, Thread, Owned, Resting, Scanned, NoTick, Locked
<1> QED BY <1>2, <1>3 DEF Inv

(* The start: no thread is left when the service opens.                    *)
LEMMA StartStep ==
  ASSUME Inv, TypeOK', Restart \/ Serve
  PROVE  Inv'
<1>1. UNCHANGED <<event, status, place, journal, damaged, memory, tick>>
      /\ service # "up"
  BY DEF Restart, Serve, durable
<1>2. Shapes' /\ Ordered' /\ Scanned'
  BY <1>1 DEF Inv, Shapes, Shape, Ordered, Scanned, Locked
<1>3. Threads'
  BY <1>1 DEF Inv, Threads, Thread, Alone, memory, Restart, Serve, Stale
<1>4. Owned' /\ Resting'
  <2>1. CASE Restart
    BY <1>1, <2>1 DEF Restart, Inv, Resting, Owned, Locked, memory
  <2>2. CASE Serve
    BY <1>1, <2>2 DEF Serve, Recovering, Inv, Resting, Owned, Locked, memory
  <2> QED BY <2>1, <2>2
<1> QED BY <1>2, <1>3, <1>4 DEF Inv

-----------------------------------------------------------------------------
(* The admission thread.                                                   *)

(* Steps that only advance the scan.                                       *)
LEMMA ScanStep ==
  ASSUME Inv, TypeOK', UNCHANGED <<durable, memory, service>>,
         service = "up", Scanned'
  PROVE  Inv'
<1>1. (Shapes /\ Threads /\ Ordered /\ Owned)'
  BY QuietStep DEF durable, Inv, Shapes
<1> QED BY <1>1 DEF Inv, Resting

LEMMA LockedIsUp == Inv /\ Locked => service = "up"
BY DEF Inv, Resting

LEMMA ListQueueStep == ASSUME Inv, TypeOK', ListQueue PROVE Inv'
<1>1. \A r \in Sequences : status[r] = "QUEUED" => place[r] = "queue"
  BY DEF Inv, Shapes, Shape
<1>2. /\ tick'.at = "read" /\ tick'.found = {}
      /\ tick'.unread = {r \in Sequences : place[r] = "queue"}
      /\ UNCHANGED <<durable, memory, service>> /\ service = "up"
  BY DEF ListQueue, NoTick
<1>3. Scanned'
  BY <1>1, <1>2 DEF Scanned, durable
<1> QED BY <1>2, <1>3, ScanStep

LEMMA ReadEntryStep ==
  ASSUME Inv, TypeOK', NEW s \in Sequences, ReadEntry(s)
  PROVE  Inv'
<1>0. /\ tick \in Records /\ Locked /\ tick.at = "read"
      /\ UNCHANGED <<durable, memory, service>>
      /\ tick.found \subseteq Sequences
  BY DEF ReadEntry, Inv, TypeOK, Records, Locked
<1>1. /\ tick'.at = "read" /\ tick'.unread = tick.unread \ {s}
      /\ tick'.seen = tick.seen
      /\ tick'.found = IF Readable(s) /\ status[s] = "QUEUED"
                       THEN tick.found \cup {s} ELSE tick.found
      /\ tick'.barrier = IF ~Readable(s) /\ s < tick.barrier
                         THEN s ELSE tick.barrier
  BY <1>0 DEF ReadEntry, Records
<1>2. tick.barrier \in Nat /\ Sequences \subseteq Nat
  BY <1>0, BoundsNatural DEF Records, Sequences, NoBarrier
<1>3. \A r \in Sequences : tick.barrier <= r => tick'.barrier <= r
  BY <1>1, <1>2
<1>4. ~Readable(s) => tick'.barrier <= s
  BY <1>1, <1>2
<1>5. Scanned'
  BY <1>0, <1>1, <1>3, <1>4 DEF Inv, Scanned, durable, Locked
<1> QED BY <1>0, <1>5, ScanStep, LockedIsUp

LEMMA ScanEndStep == ASSUME Inv, TypeOK', ScanDone \/ TickDone PROVE Inv'
<1>0. /\ tick \in Records /\ Locked
      /\ UNCHANGED <<durable, memory, service>>
  BY DEF ScanDone, TickDone, Inv, TypeOK, Records, Locked
<1>1. CASE ScanDone
  <2>1. /\ tick'.at = "admit" /\ tick'.unread = tick.unread
        /\ tick.unread = {} /\ tick'.found = tick.found
        /\ tick'.barrier = tick.barrier /\ tick'.seen = tick.seen
    BY <1>0, <1>1 DEF ScanDone, Records
  <2>2. Scanned'
    BY <1>0, <2>1 DEF Inv, Scanned, durable, Locked
  <2> QED BY <1>0, <2>2, ScanStep, LockedIsUp
<1>2. CASE TickDone
  <2>1. Scanned'
    BY <1>2 DEF TickDone, Scanned, NoTick, Locked
  <2> QED BY <1>0, <2>1, ScanStep, LockedIsUp
<1> QED BY <1>1, <1>2

(* What the loop leaves behind when it goes past a record.                 *)
LEMMA ConsideredFields ==
  ASSUME Inv, NEW s \in Sequences, Candidate(s),
         NEW t, t \in {Considered(s), [Considered(s) EXCEPT !.at = "settle"]}
  PROVE  /\ t.at \in {"admit", "settle"} /\ t.unread = {}
         /\ t.found = tick.found \ {s} /\ t.barrier = tick.barrier
         /\ t.seen = tick.seen \cup {event[s]}
BY DEF Inv, TypeOK, Considered, Candidate, Scanned

LEMMA PassedOver ==
  ASSUME Inv, NEW s \in Sequences, Candidate(s), event' = event,
         tick' \in {Considered(s), [Considered(s) EXCEPT !.at = "settle"]},
         \A r \in Sequences \ {s} : status'[r] = status[r]
  PROVE  Scanned'
<1>1. /\ tick'.at \in {"admit", "settle"} /\ tick'.unread = {}
      /\ tick'.found = tick.found \ {s} /\ tick'.barrier = tick.barrier
      /\ tick'.seen = tick.seen \cup {event[s]}
  BY ConsideredFields
<1>2. Locked /\ tick.unread = {} /\ tick.found \subseteq Sequences
  BY DEF Candidate, Locked, Inv, TypeOK, Scanned
<1> QED BY <1>1, <1>2 DEF Inv, Scanned

LEMMA SkipStep ==
  ASSUME Inv, TypeOK', NEW s \in Sequences, Skip(s) \/ ClaimFails(s)
  PROVE  Inv'
<1>1. /\ Candidate(s) /\ tick' = Considered(s)
      /\ UNCHANGED <<durable, memory, service>> /\ Locked
  BY DEF Skip, ClaimFails, Candidate, Locked
<1>2. Scanned'
  BY <1>1, PassedOver DEF durable
<1> QED BY <1>1, <1>2, ScanStep, LockedIsUp
(* The record that is admitted waits, and everything before it on its      *)
(* event is over: no earlier record can have been overlooked by the scan,  *)
(* run unreserved or have left its journal.                                *)
LEMMA AdmittedInOrder ==
  ASSUME Inv, NEW s \in Sequences, Candidate(s), Eligible(s)
  PROVE  /\ service = "up" /\ Waits(s) /\ pc[s] = "none"
         /\ \A r \in Sequences : r < s /\ event[r] = event[s] =>
               status[r] \in Terminal /\ r \notin journal
<1>0. /\ tick \in Records /\ Locked /\ s \in tick.found
      /\ event \in [Sequences -> Events] /\ tick.unread = {}
      /\ status \in [Sequences -> States]
  BY DEF Candidate, First, Locked, Inv, TypeOK, Records, Scanned
<1>1. service = "up" /\ Waits(s)
  BY <1>0, LockedIsUp DEF Inv, Scanned, Shapes, Shape
<1>2. \A r \in Sequences : event[r] = event[s] => pc[r] = "none"
  BY <1>0, <1>1 DEF Inv, Owned, Eligible, Sequences
<1>3. ASSUME NEW r \in Sequences, r < s, event[r] = event[s]
      PROVE  status[r] \in Terminal /\ r \notin journal
  <2>1. status[r] # "none"
    BY <1>1, <1>3 DEF Inv, Ordered
  <2>2. status[r] # "RUNNING"
    BY <1>1, <1>2, <1>3 DEF Inv, Threads, Thread
  <2>3. ASSUME status[r] = "QUEUED" PROVE FALSE
    <3>1. tick.barrier \in Nat /\ r \in Nat /\ s \in Nat
      BY <1>0, BoundsNatural DEF Records, Sequences, NoBarrier
    <3>2. r \notin tick.found
      BY <1>3, <3>1 DEF Candidate, First
    <3>3. ~(tick.barrier <= r)
      BY <1>3, <3>1 DEF Candidate
    <3>4. event[r] \notin tick.seen
      BY <1>3 DEF Eligible
    <3> QED BY <1>0, <2>3, <3>2, <3>3, <3>4 DEF Inv, Scanned
  <2>4. status[r] \in Terminal
    BY <1>0, <2>1, <2>2, <2>3 DEF States
  <2>5. r \in journal => place[r] = "current"
    BY <2>4 DEF Inv, Shapes, Shape
  <2> QED BY <1>3, <2>4, <2>5 DEF Eligible, JournalLeft
<1> QED BY <1>1, <1>2, <1>3

LEMMA ReserveKeepsOwned ==
  ASSUME Inv, NEW s \in Sequences, Candidate(s), Eligible(s), Reserve(s),
         NEW a, a # "none", Go(s, a), UNCHANGED <<event, place, service>>,
         \A r \in Sequences \ {s} : status'[r] = status[r]
  PROVE  Owned'
<1>0. /\ reserved \in [Events -> Sequences \cup {0}]
      /\ event \in [Sequences -> Events] /\ pc \in [Sequences -> Steps]
      /\ service = "up" /\ pc[s] = "none" /\ reserved[event[s]] = 0
      /\ Owned /\ ~(0 \in Sequences)
  BY AdmittedInOrder DEF Inv, TypeOK, Eligible, Sequences
<1>1. /\ slots' = slots \cup {s} /\ reserved' = [reserved EXCEPT ![event[s]] = s]
      /\ pc' = [pc EXCEPT ![s] = a]
  BY DEF Reserve
<1>2. ASSUME NEW r \in Sequences, pc'[r] # "none"
      PROVE  /\ reserved'[event[r]] = r
             /\ r \in slots' \/ /\ pc'[r] = "kept" /\ place'[r] = "current"
                                /\ status'[r] \in Terminal
  BY <1>0, <1>1, <1>2 DEF Owned
<1>3. ASSUME NEW e \in Events, reserved'[e] # 0
      PROVE  event[reserved'[e]] = e /\ pc'[reserved'[e]] # "none"
  BY <1>0, <1>1, <1>3 DEF Owned
<1> QED BY <1>2, <1>3 DEF Owned

LEMMA ClaimUnreadableStep ==
  ASSUME Inv, TypeOK', NEW s \in Sequences, ClaimUnreadable(s)
  PROVE  Inv'
<1>1. /\ Candidate(s) /\ Eligible(s) /\ tick' = Considered(s)
      /\ UNCHANGED <<durable, service>> /\ pc' = [pc EXCEPT ![s] = "kept"]
      /\ Reserve(s) /\ pc \in [Sequences -> Steps]
  BY DEF ClaimUnreadable, Inv, TypeOK
<1>2. service = "up" /\ Waits(s)
  BY <1>1, AdmittedInOrder
<1>3. Scanned' /\ Owned'
  BY <1>1, PassedOver, ReserveKeepsOwned DEF durable
<1>4. Shapes' /\ Ordered' /\ Resting'
  BY <1>1, <1>2 DEF durable, Inv, Shapes, Shape, Ordered, Resting
<1>5. Threads'
  <2>1. \A r \in Sequences \ {s} : Thread(r)'
    BY <1>1 DEF durable, Inv, Threads, Thread, Alone
  <2>2. Thread(s)'
    BY <1>1, <1>2 DEF durable, Thread
  <2> QED BY <2>1, <2>2 DEF Threads
<1> QED BY <1>3, <1>4, <1>5 DEF Inv

LEMMA AdmitStep ==
  ASSUME Inv, TypeOK', NEW s \in Sequences, Admit(s)
  PROVE  Inv'
<1>1. /\ Candidate(s) /\ Eligible(s) /\ Reserve(s) /\ s \notin damaged
      /\ tick' \in {Considered(s), [Considered(s) EXCEPT !.at = "settle"]}
      /\ UNCHANGED <<event, place, journal, damaged, service>>
      /\ pc \in [Sequences -> Steps] /\ status \in [Sequences -> States]
      /\ damaged \subseteq Sequences
  BY DEF Admit, Inv, TypeOK
<1>2. PICK a \in {"prepare", "settle"} : Go(s, a)
  BY DEF Admit
<1>3. /\ service = "up" /\ Waits(s)
      /\ \A r \in Sequences : r < s /\ event[r] = event[s] =>
               status[r] \in Terminal /\ r \notin journal
  BY <1>1, AdmittedInOrder
<1>4. /\ status'[s] = "RUNNING" /\ pc'[s] = a
      /\ \A r \in Sequences \ {s} : status'[r] = status[r] /\ pc'[r] = pc[r]
  BY <1>1, <1>2 DEF Admit
<1>5. Scanned' /\ Owned'
  BY <1>1, <1>2, <1>4, PassedOver, ReserveKeepsOwned
<1>6. Shapes'
  BY <1>1, <1>3, <1>4 DEF Inv, Shapes, Shape
<1>7. Threads'
  <2>1. \A r \in Sequences \ {s} : Thread(r)'
    BY <1>1, <1>4 DEF Inv, Threads, Thread, Alone
  <2>2. Thread(s)'
    BY <1>1, <1>2, <1>3, <1>4 DEF Thread
  <2> QED BY <2>1, <2>2 DEF Threads
<1>8. Ordered'
  <2>1. ASSUME NEW p \in Sequences, NEW q \in Sequences, event[p] = event[q],
               p < q, status'[q] \in Begun
        PROVE  status'[p] \in Terminal /\ p \notin journal
    <3>1. CASE q = s
      BY <1>3, <1>4, <2>1, <3>1 DEF Sequences
    <3>2. CASE q # s
      BY <1>3, <1>4, <2>1, <3>2 DEF Inv, Ordered
    <3> QED BY <3>1, <3>2
  <2>2. ASSUME NEW p \in Sequences, NEW q \in Sequences, p < q,
               status'[q] # "none"
        PROVE  status'[p] # "none"
    BY <1>3, <1>4, <2>2 DEF Inv, Ordered
  <2> QED BY <1>1, <2>1, <2>2 DEF Inv, Ordered
<1>9. Resting'
  BY <1>1, <1>3 DEF Resting
<1> QED BY <1>5, <1>6, <1>7, <1>8, <1>9 DEF Inv

LEMMA SettleStep ==
  ASSUME Inv, TypeOK', NEW s \in Sequences, Settle(s)
  PROVE  Inv'
<1>0. /\ status \in [Sequences -> States] /\ pc \in [Sequences -> Steps]
      /\ tick \in Records /\ Locked /\ service = "up" /\ Fresh(s)
      /\ pc[s] = "settle" /\ service' = service
      /\ UNCHANGED <<event, place, journal, damaged>>
      /\ tick.found \subseteq Sequences /\ damaged \subseteq Sequences
  BY LockedIsUp DEF Settle, Inv, TypeOK, Records, Threads, Thread, Locked
<1>1. /\ \A r \in Sequences \ {s} : status'[r] = status[r] /\ pc'[r] = pc[r]
      /\ \/ status'[s] = "FAILED" /\ Release(s) /\ pc'[s] = "none"
         \/ /\ status'[s] \in {"RUNNING", "FAILED"} /\ pc'[s] = "kept"
            /\ UNCHANGED <<slots, reserved>>
  BY <1>0 DEF Settle, Release
<1>2. /\ tick'.at = "admit" /\ tick'.unread = tick.unread
      /\ tick'.found = tick.found /\ tick'.barrier = tick.barrier
      /\ tick'.seen = tick.seen /\ tick.at = "settle"
  BY <1>0 DEF Settle, Records
<1>3. Scanned'
  BY <1>0, <1>1, <1>2 DEF Inv, Scanned
<1>4. Shapes'
  BY <1>0, <1>1 DEF Inv, Shapes, Shape
<1>5. Threads'
  <2>1. \A r \in Sequences \ {s} : Thread(r)'
    BY <1>0, <1>1 DEF Inv, Threads, Thread, Alone
  <2>2. Thread(s)'
    BY <1>0, <1>1 DEF Thread
  <2> QED BY <2>1, <2>2 DEF Threads
<1>6. Ordered'
  <2>1. ASSUME NEW p \in Sequences, NEW q \in Sequences, event[p] = event[q],
               p < q, status'[q] \in Begun
        PROVE  status'[p] \in Terminal /\ p \notin journal
    <3>1. status[q] \in Begun
      BY <1>0, <1>1, <2>1 DEF Begun
    <3> QED BY <1>0, <1>1, <2>1, <3>1 DEF Inv, Ordered
  <2>2. ASSUME NEW p \in Sequences, NEW q \in Sequences, p < q,
               status'[q] # "none"
        PROVE  status'[p] # "none"
    BY <1>0, <1>1, <2>2 DEF Inv, Ordered
  <2> QED BY <1>0, <2>1, <2>2 DEF Inv, Ordered
<1>7. Resting'
  BY <1>0 DEF Resting
<1>8. Owned'
  <2>0. /\ reserved \in [Events -> Sequences \cup {0}]
        /\ event \in [Sequences -> Events] /\ Owned
        /\ reserved[event[s]] = s /\ s \in slots
    BY <1>0 DEF Inv, TypeOK, Owned
  <2>1. ASSUME NEW r \in Sequences, pc'[r] # "none"
        PROVE  /\ reserved'[event[r]] = r
               /\ r \in slots' \/ /\ pc'[r] = "kept" /\ place'[r] = "current"
                                  /\ status'[r] \in Terminal
    BY <1>0, <1>1, <2>0, <2>1 DEF Owned, Release
  <2>2. ASSUME NEW e \in Events, reserved'[e] # 0
        PROVE  event[reserved'[e]] = e /\ pc'[reserved'[e]] # "none"
    BY <1>0, <1>1, <2>0, <2>2 DEF Owned, Release
  <2> QED BY <1>0, <2>1, <2>2 DEF Owned
<1> QED BY <1>3, <1>4, <1>5, <1>6, <1>7, <1>8 DEF Inv

-----------------------------------------------------------------------------
LEMMA InvInit == Init => Inv
<1> SUFFICES ASSUME Init PROVE Inv
  OBVIOUS
<1>1. TypeOK
  <2>1. tick \in Records /\ CountersTyped
    BY NoTickTyped, BoundsNatural DEF Init, CountersTyped
  <2> QED BY <2>1, TypeParts DEF Init, DurableTyped, MemoryTyped, States,
            Places, Steps
<1>2. Shapes /\ Threads /\ Ordered
  BY DEF Init, Shapes, Shape, Threads, Thread, Ordered, Begun
<1>3. Owned /\ Resting /\ Scanned
  BY DEF Init, Owned, Resting, Scanned, NoTick, Locked
<1> QED BY <1>1, <1>2, <1>3 DEF Inv

LEMMA InvStep == Inv /\ [Next]_vars => Inv'
<1> SUFFICES ASSUME Inv, [Next]_vars PROVE Inv'
  OBVIOUS
<1>t. TypeOK'
  BY TypeStep DEF Inv
<1>1. ASSUME NEW s \in Sequences,
             Accept(s) \/ Damage(s) \/ Repair(s) \/ Worker(s) \/ Recover(s)
      PROVE  Inv'
  BY <1>1, <1>t, AcceptStep, DamageStep, WorkerStep, RecoverStep
<1>2. CASE Crash \/ Restart \/ RecoveryFails \/ Serve
  BY <1>2, <1>t, StopStep, StartStep
<1>3. CASE Tick
  BY <1>3, <1>t, ListQueueStep, ScanEndStep, ReadEntryStep, SkipStep,
     ClaimUnreadableStep, AdmitStep, SettleStep DEF Tick
<1>4. CASE UNCHANGED vars
  <2>1. /\ UNCHANGED <<event, status, place, journal, damaged, memory,
                       service, tick>>
    BY <1>4 DEF vars, durable
  <2>2. Resting' /\ Scanned'
    BY <2>1 DEF Inv, Resting, Scanned, Locked, memory
  <2> QED BY <1>t, <2>1, <2>2, QuietStep DEF Inv, Shapes
<1> QED BY <1>1, <1>2, <1>3, <1>4 DEF Next

LEMMA AlwaysInv == Spec => []Inv
BY InvInit, InvStep, PTL DEF Spec

(* Every variable of the scheduler always has its type.                    *)
THEOREM SchedulerTyped == Spec => []TypeOK
<1>1. Inv => TypeOK
  BY DEF Inv
<1> QED BY <1>1, AlwaysInv, PTL

(* An event never has two transaction journals, whatever raises and        *)
(* wherever the process dies: a journal left behind keeps the next         *)
(* calculation of its event from being admitted.                           *)
THEOREM OneTransactionAlways == Spec => []OneTransaction
<1>1. Inv => OneTransaction
  BY JournalsApart DEF OneTransaction
<1> QED BY <1>1, AlwaysInv, PTL

(* Whoever works on a record, or has given up on it without releasing,     *)
(* holds the reservation of its event, and a RUNNING record holds a slot.  *)
THEOREM WorkersAlwaysOwn == Spec => []WorkersOwnTheirEvent
<1>1. Inv => WorkersOwnTheirEvent
  BY DEF Inv, Owned, Threads, Thread, WorkersOwnTheirEvent
<1> QED BY <1>1, AlwaysInv, PTL

(* The current record is the newest one promoted, and only calculations    *)
(* that are over and have no journal are replaced.                         *)
THEOREM CurrentAlwaysNewest == Spec => []CurrentIsNewest
<1>1. Inv => CurrentIsNewest
  BY DEF Inv, Ordered, Shapes, Shape, CurrentIsNewest
<1> QED BY <1>1, AlwaysInv, PTL

(* Capacity is given back before the reservation only for a current record *)
(* that is terminal.                                                       *)
THEOREM RetainedAlwaysTerminal == Spec => []RetainedIsTerminal
<1>1. ASSUME Inv, NEW e \in Events, reserved[e] # 0, reserved[e] \notin slots
      PROVE  place[reserved[e]] = "current" /\ status[reserved[e]] \in Terminal
  <2>1. service = "up" /\ reserved[e] \in Sequences
    BY <1>1 DEF Inv, Resting, TypeOK
  <2> QED BY <1>1, <2>1 DEF Inv, Owned
<1>2. Inv => RetainedIsTerminal
  BY <1>1 DEF RetainedIsTerminal
<1> QED BY <1>2, AlwaysInv, PTL
-----------------------------------------------------------------------------
(* The scheduler implements CalculationQueue.                              *)

(* A record is admitted only when a worker is free.                        *)
LEMMA CapacityLeft ==
  ASSUME Inv, NEW s \in Sequences, Candidate(s), Eligible(s)
  PROVE  Cardinality({r \in Sequences : status[r] = "RUNNING"}) < MaxConcurrent
<1> DEFINE Busy == {r \in Sequences : status[r] = "RUNNING"}
<1>1. IsFiniteSet(Sequences)
  BY FS_Interval, BoundsNatural DEF Sequences
<1>2. IsFiniteSet(slots)
  BY <1>1, FS_Subset DEF Inv, TypeOK
<1>3. Busy \subseteq slots
  BY AdmittedInOrder DEF Inv, Owned, Threads, Thread
<1>4. IsFiniteSet(Busy) /\ Cardinality(Busy) <= Cardinality(slots)
  BY <1>2, <1>3, FS_Subset
<1>5. Cardinality(Busy) \in Nat /\ Cardinality(slots) \in Nat
  BY <1>2, <1>4, FS_CardinalityType
<1>6. ~(Cardinality(slots) >= MaxConcurrent) /\ MaxConcurrent \in Nat
  BY MaxConcurrentPositive DEF Candidate, Full
<1> QED BY <1>4, <1>5, <1>6

(* The queue counts as the scheduler does.                                 *)
LEMMA SameCount == ASSUME NEW S PROVE Queue!Cardinality(S) = Cardinality(S)
BY DEF Cardinality, Queue!Cardinality

(* A terminal status is the end of a calculation that was running.         *)
LEMMA QueueFinish ==
  ASSUME NEW s \in Sequences, status[s] = "RUNNING", event' = event,
         NEW outcome \in Terminal, status' = [status EXCEPT ![s] = outcome]
  PROVE  Queue!Next
<1>1. Queue!Finish(s)
  BY DEF Queue!Finish, Queue!Terminal
<1> QED BY <1>1 DEF Queue!Next, Queue!Sequences, Sequences

LEMMA QueueWork ==
  ASSUME Inv, NEW s \in Sequences, Work(s) \/ Trouble(s)
  PROVE  Queue!Next \/ UNCHANGED <<event, status>>
<1>0. Thread(s) /\ Shape(s) /\ status \in [Sequences -> States]
  BY DEF Inv, Threads, Shapes, TypeOK
<1>1. CASE Calculate(s)
  BY <1>0, <1>1, QueueFinish DEF Calculate, Thread
<1>2. CASE MarkFailed(s)
  <2>1. CASE status[s] = "RUNNING"
    BY <1>2, <2>1, QueueFinish DEF MarkFailed
  <2>2. CASE status[s] = "FAILED"
    BY <1>0, <1>2, <2>2 DEF MarkFailed
  <2> QED BY <1>2, <2>1, <2>2 DEF MarkFailed
<1>3. CASE EnsureTerminal(s)
  BY <1>3, QueueFinish DEF EnsureTerminal
<1>4. CASE LeavingFails(s)
  BY <1>4, QueueFinish DEF LeavingFails
<1>5. CASE \/ WriteJournal(s) \/ RetirePreceding(s) \/ Promote(s)
           \/ FinalizeTransaction(s) \/ Dispose(s) \/ Repromote(s)
           \/ RemoveJournal(s) \/ Raise(s) \/ ReconcileFails(s)
  BY <1>5 DEF WriteJournal, RetirePreceding, Promote, FinalizeTransaction,
     Dispose, Repromote, RemoveJournal, Raise, ReconcileFails
<1>6. CASE \/ Locate(s) \/ Refuse(s) \/ Drop(s) \/ VerifyTerminal(s)
           \/ Finish(s)
  BY <1>6 DEF Locate, Refuse, Drop, VerifyTerminal, Finish, durable
<1> QED BY <1>1, <1>2, <1>3, <1>4, <1>5, <1>6 DEF Work, Trouble

LEMMA QueueStep ==
  Inv /\ [Next]_vars => Queue!Next \/ UNCHANGED <<event, status>>
<1> SUFFICES ASSUME Inv, [Next]_vars
             PROVE  Queue!Next \/ UNCHANGED <<event, status>>
  OBVIOUS
<1>1. ASSUME NEW s \in Sequences, Accept(s) PROVE Queue!Next
  <2>1. Queue!Accept(s)
    BY <1>1 DEF Accept, Queue!Accept, Queue!Sequences, Sequences
  <2> QED BY <2>1 DEF Queue!Next, Queue!Sequences, Sequences
<1>2. ASSUME NEW s \in Sequences, Damage(s) \/ Repair(s)
      PROVE  UNCHANGED <<event, status>>
  BY <1>2 DEF Damage, Repair
<1>3. ASSUME NEW s \in Sequences, Worker(s)
      PROVE  Queue!Next \/ UNCHANGED <<event, status>>
  BY <1>3, QueueWork DEF Worker
<1>4. ASSUME NEW s \in Sequences, Recover(s)
      PROVE  Queue!Next \/ UNCHANGED <<event, status>>
  BY <1>4, QueueFinish DEF Recover, First, Stale
<1>5. CASE Crash \/ Restart \/ RecoveryFails \/ Serve \/ UNCHANGED vars
  BY <1>5 DEF Crash, Restart, RecoveryFails, Serve, durable, vars
<1>6. CASE ListQueue \/ ScanDone \/ TickDone
  BY <1>6 DEF ListQueue, ScanDone, TickDone, durable
<1>7. ASSUME NEW s \in Sequences,
             ReadEntry(s) \/ Skip(s) \/ ClaimFails(s) \/ ClaimUnreadable(s)
      PROVE  UNCHANGED <<event, status>>
  BY <1>7 DEF ReadEntry, Skip, ClaimFails, ClaimUnreadable, durable
<1>8. ASSUME NEW s \in Sequences, Admit(s) PROVE Queue!Next
  <2>1. /\ Candidate(s) /\ Eligible(s) /\ event' = event
        /\ status' = [status EXCEPT ![s] = "RUNNING"]
    BY <1>8 DEF Admit
  <2>2. /\ Waits(s)
        /\ \A r \in Sequences : r < s /\ event[r] = event[s] =>
              status[r] \in Terminal
    BY <2>1, AdmittedInOrder
  <2>3. Queue!Cardinality(Queue!Running) < MaxConcurrent
    BY <2>1, CapacityLeft, SameCount DEF Queue!Running, Queue!Sequences, Sequences
  <2>4. Queue!Start(s)
    BY <2>1, <2>2, <2>3 DEF Queue!Start, Queue!Terminal, Queue!Sequences,
       Sequences
  <2> QED BY <2>4 DEF Queue!Next, Queue!Sequences, Sequences
<1>9. ASSUME NEW s \in Sequences, Settle(s)
      PROVE  Queue!Next \/ UNCHANGED <<event, status>>
  <2>1. status[s] = "RUNNING"
    BY <1>9 DEF Settle, Inv, Threads, Thread
  <2> QED BY <1>9, <2>1, QueueFinish DEF Settle
<1> QED
  BY <1>1, <1>2, <1>3, <1>4, <1>5, <1>6, <1>7, <1>8, <1>9 DEF Next, Tick

(* The scheduler, with its threads, faults, crashes and recoveries,        *)
(* implements the queue it promises: every calculation runs at most once,  *)
(* those of one event one after the other in the order of acceptance, and  *)
(* never more than MaxConcurrent at a time.                                *)
THEOREM SchedulerImplementsQueue == Spec => QueueRefined
<1>1. Init => Queue!Init
  BY DEF Init, Queue!Init, Queue!Sequences, Sequences
<1>2. Inv /\ [Next]_vars => [Queue!Next]_<<event, status>>
  BY QueueStep
<1> QED
  BY <1>1, <1>2, AlwaysInv, PTL DEF Spec, QueueRefined, Queue!Spec
-----------------------------------------------------------------------------
(* The scheduler implements RecordMoves.                                   *)

Held == {s \in Sequences : pc[s] \in Transacting}

(* A thread takes the flocks of its transaction, or gives them back.       *)
LEMMA HeldStep ==
  ASSUME pc \in [Sequences -> Steps], NEW s \in Sequences, NEW a, Go(s, a)
  PROVE  /\ Held' = IF a \in Transacting THEN Held \cup {s} ELSE Held \ {s}
         /\ s \in Held <=> pc[s] \in Transacting
         /\ (a \in Transacting <=> pc[s] \in Transacting) => Held' = Held
BY DEF Held

LEMMA MovesCount == ASSUME NEW S PROVE Moves!Cardinality(S) = Cardinality(S)
BY DEF Cardinality, Moves!Cardinality

(* The vocabulary of RecordMoves is that of the scheduler.                 *)
USE DEF Moves!Sequences, Moves!Terminal

Seen == <<event, status, place, journal, damaged, Held>>

(* Each kind of move, as the scheduler makes it.                           *)
LEMMA MoveFinish ==
  ASSUME NEW s \in Sequences, status[s] = "RUNNING", NEW outcome \in Terminal,
         place[s] = "current" \/ s \notin journal,
         outcome = "SUCCESS" => place[s] = "current" /\ s \notin Held,
         status' = [status EXCEPT ![s] = outcome],
         UNCHANGED <<event, place, journal, damaged, Held>>
  PROVE  Moves!Move
<1>1. Moves!Finish(s)
  BY DEF Moves!Finish, Held
<1> QED BY <1>1 DEF Moves!Move, Sequences

LEMMA MoveRemoval ==
  ASSUME NEW s \in Sequences, s \in journal, place[s] = "current",
         status[s] \in Terminal, journal' = journal \ {s}, Held' = Held \ {s},
         UNCHANGED <<event, status, place, damaged>>
  PROVE  Moves!Move
<1>1. Moves!RemoveJournal(s)
  BY DEF Moves!RemoveJournal, Held
<1> QED BY <1>1 DEF Moves!Move, Sequences

LEMMA MoveRelease ==
  ASSUME NEW S \in SUBSET Held, Held' = Held \ S,
         UNCHANGED <<event, status, place, journal, damaged>>
  PROVE  Moves!Move \/ UNCHANGED Seen
<1>1. CASE S = {}
  BY <1>1 DEF Seen
<1>2. CASE S # {}
  <2>1. Moves!Release(S)
    BY <1>2 DEF Moves!Release, Held
  <2> QED BY <2>1 DEF Moves!Move, Held
<1> QED BY <1>1, <1>2

LEMMA MoveLeave ==
  ASSUME NEW s, Held' = Held \ {s},
         UNCHANGED <<event, status, place, journal, damaged>>
  PROVE  Moves!Move \/ UNCHANGED Seen
<1>1. Held \cap {s} \in SUBSET Held /\ Held' = Held \ (Held \cap {s})
  OBVIOUS
<1> QED BY <1>1, MoveRelease

LEMMA MovePromotion ==
  ASSUME NEW s \in Sequences, s \in Held, place[s] = "queue", Alone(s),
         place' = [place EXCEPT ![s] = "current"],
         Held' \in {Held, Held \ {s}},
         UNCHANGED <<event, status, journal, damaged>>
  PROVE  Moves!Move
<1>1. Moves!CurrentOf(event[s]) = {}
  BY DEF Moves!CurrentOf, Alone, Sequences
<1>2. Moves!Promote(s)
  BY <1>1 DEF Moves!Promote, Held
<1> QED BY <1>2 DEF Moves!Move, Moves!Transaction, Sequences

LEMMA MoveStage ==
  ASSUME NEW s \in Sequences, s \in journal, Retire(s),
         Held' = Held \cup {s}, UNCHANGED <<event, status, journal, damaged>>
  PROVE  Moves!Move
<1>1. Moves!CurrentOf(event[s]) = Preceding(s)
  BY DEF Moves!CurrentOf, Preceding, Sequences
<1>2. Moves!Stage(s)
  BY <1>1 DEF Moves!Stage, Retire, Held, Sequences
<1> QED BY <1>2 DEF Moves!Move, Moves!Transaction, Sequences

LEMMA MovesWork ==
  ASSUME Inv, NEW s \in Sequences, Work(s) \/ Trouble(s)
  PROVE  Moves!Move \/ UNCHANGED Seen
<1>0. /\ Thread(s) /\ Shape(s) /\ status \in [Sequences -> States]
      /\ place \in [Sequences -> Places] /\ pc \in [Sequences -> Steps]
  BY DEF Inv, Threads, Shapes, TypeOK
<1>1. CASE WriteJournal(s)
  <2>1. Held' = Held \cup {s} /\ Fresh(s)
    BY <1>0, <1>1, HeldStep DEF WriteJournal, Thread, Transacting
  <2>2. Moves!Open(s)
    BY <1>1, <2>1 DEF WriteJournal, Moves!Open, Held
  <2> QED BY <2>2 DEF Moves!Move, Moves!Transaction, Sequences
<1>2. CASE RetirePreceding(s) \/ Dispose(s)
  <2>1. Held' = Held \cup {s} /\ s \in journal
    BY <1>0, <1>2, HeldStep DEF RetirePreceding, Dispose, Thread, Transacting
  <2> QED BY <1>2, <2>1, MoveStage DEF RetirePreceding, Dispose
<1>3. CASE Promote(s) \/ Repromote(s)
  <2>1. /\ s \in Held /\ Held' \in {Held, Held \ {s}} /\ Alone(s)
        /\ place[s] = "current" => pc[s] = "repromote" /\ Held' = Held
        /\ place[s] \in {"queue", "current"}
    BY <1>0, <1>3, HeldStep DEF Promote, Repromote, Thread, Transacting
  <2>2. CASE place[s] = "queue"
    BY <1>3, <2>1, <2>2, MovePromotion DEF Promote, Repromote
  <2>3. CASE place[s] = "current"
    BY <1>0, <1>3, <2>1, <2>3 DEF Promote, Repromote, Seen
  <2> QED BY <2>1, <2>2, <2>3
<1>4. CASE Calculate(s)
  <2>1. Held' = Held /\ s \notin Held /\ Moved(s)
    BY <1>0, <1>4, HeldStep DEF Calculate, Thread, Transacting
  <2> QED BY <1>4, <2>1, MoveFinish DEF Calculate
<1>5. CASE FinalizeTransaction(s) \/ RemoveJournal(s)
  <2>1. Held' = Held \ {s} /\ Ended(s)
    BY <1>0, <1>5, HeldStep
       DEF FinalizeTransaction, RemoveJournal, Thread, Transacting
  <2> QED BY <1>5, <2>1, MoveRemoval DEF FinalizeTransaction, RemoveJournal
<1>6. CASE MarkFailed(s)
  <2>1. Held' = Held /\ place[s] = "current"
    BY <1>0, <1>6, HeldStep DEF MarkFailed, Thread, Transacting
  <2>2. CASE status[s] = "RUNNING"
    BY <1>6, <2>1, <2>2, MoveFinish DEF MarkFailed
  <2>3. CASE status[s] = "FAILED"
    BY <1>0, <1>6, <2>1, <2>3 DEF MarkFailed, Seen
  <2> QED BY <1>6, <2>2, <2>3 DEF MarkFailed
<1>7. CASE Refuse(s) \/ Locate(s) \/ Drop(s) \/ VerifyTerminal(s) \/ Finish(s)
  <2>1. Held' = Held \ {s}
    BY <1>0, <1>7, HeldStep DEF Refuse, Locate, Drop, VerifyTerminal, Finish,
       Release, Transacting
  <2> QED BY <1>7, <2>1, MoveLeave
             DEF Refuse, Locate, Drop, VerifyTerminal, Finish, durable
<1>8. CASE EnsureTerminal(s)
  <2>1. Held' = Held /\ s \notin journal
    BY <1>0, <1>8, HeldStep DEF EnsureTerminal, Thread, Transacting
  <2> QED BY <1>8, <2>1, MoveFinish DEF EnsureTerminal, Seen
<1>9. CASE Raise(s) \/ ReconcileFails(s)
  <2>1. Held' = Held \ {s}
    BY <1>0, <1>9, HeldStep DEF Raise, ReconcileFails, Transacting
  <2>2. CASE journal' = journal
    BY <1>9, <2>1, <2>2, MoveLeave DEF Raise, ReconcileFails
  <2>3. CASE journal' # journal
    <3>1. Ended(s) /\ journal' = journal \ {s}
      BY <1>0, <1>9, <2>3 DEF Raise, ReconcileFails, Thread
    <3> QED BY <1>9, <2>1, <3>1, MoveRemoval DEF Raise, ReconcileFails
  <2> QED BY <2>2, <2>3
<1>10. CASE LeavingFails(s)
  <2>1. Held' = Held
    BY <1>0, <1>10, HeldStep DEF LeavingFails, Leaving, Transacting
  <2>2. CASE status' = status
    BY <1>10, <2>1, <2>2 DEF LeavingFails, Seen
  <2>3. CASE status' # status
    <3>1. Fresh(s) /\ status' = [status EXCEPT ![s] = "FAILED"]
      BY <1>0, <1>10, <2>3 DEF LeavingFails, Thread
    <3> QED BY <1>10, <2>1, <3>1, MoveFinish DEF LeavingFails
  <2> QED BY <2>2, <2>3
<1> QED
  BY <1>1, <1>2, <1>3, <1>4, <1>5, <1>6, <1>7, <1>8, <1>9, <1>10
     DEF Work, Trouble

LEMMA MovesStep == Inv /\ [Next]_vars => Moves!Move \/ UNCHANGED Seen
<1> SUFFICES ASSUME Inv, [Next]_vars PROVE Moves!Move \/ UNCHANGED Seen
  OBVIOUS
<1>p. pc \in [Sequences -> Steps]
  BY DEF Inv, TypeOK
<1>1. ASSUME NEW s \in Sequences, Accept(s) PROVE Moves!Move
  <2>1. Held' = Held
    BY <1>1 DEF Accept, memory, Held
  <2>2. Moves!Accept(s)
    BY <1>1, <2>1 DEF Accept, Moves!Accept, Held, Sequences
  <2> QED BY <2>2 DEF Moves!Move, Sequences
<1>2. ASSUME NEW s \in Sequences, Damage(s) \/ Repair(s) PROVE Moves!Move
  <2>1. Held' = Held
    BY <1>2 DEF Damage, Repair, memory, Held
  <2>2. Moves!Damage(s) \/ Moves!Repair(s)
    BY <1>2, <2>1 DEF Damage, Repair, Moves!Damage, Moves!Repair, Held
  <2> QED BY <2>2 DEF Moves!Move, Sequences
<1>3. ASSUME NEW s \in Sequences, Worker(s)
      PROVE  Moves!Move \/ UNCHANGED Seen
  BY <1>3, MovesWork DEF Worker
<1>4. ASSUME NEW s \in Sequences, Recover(s)
      PROVE  Moves!Move \/ UNCHANGED Seen
  <2>1. /\ status[s] = "RUNNING" /\ pc[s] = "none"
        /\ UNCHANGED <<event, place, journal, damaged>>
    BY <1>4 DEF Recover, First, Stale, Recovering
  <2>2. Held' = Held
    BY <1>4, <1>p, <2>1 DEF Recover, Held, Transacting
  <2>3. CASE s \in journal
    BY <1>4, <2>1, <2>2, <2>3 DEF Recover, Seen
  <2>4. CASE s \notin journal
    BY <1>4, <2>1, <2>2, <2>4, MoveFinish DEF Recover
  <2> QED BY <2>3, <2>4
<1>5. CASE Crash \/ RecoveryFails
  <2>1. UNCHANGED <<event, status, place, journal, damaged>> /\ Held' = {}
    BY <1>5 DEF Crash, RecoveryFails, Forget, durable, Held, Transacting
  <2>2. Held' = Held \ Held
    BY <2>1
  <2> QED BY <2>1, <2>2, MoveRelease
<1>6. CASE Restart \/ Serve \/ UNCHANGED vars
  BY <1>6 DEF Restart, Serve, durable, memory, vars, Seen, Held
<1>7. CASE ListQueue \/ ScanDone \/ TickDone
  BY <1>7 DEF ListQueue, ScanDone, TickDone, durable, memory, Seen, Held
<1>8. ASSUME NEW s \in Sequences, ReadEntry(s) \/ Skip(s) \/ ClaimFails(s)
      PROVE  UNCHANGED Seen
  BY <1>8 DEF ReadEntry, Skip, ClaimFails, durable, memory, Seen, Held
<1>9. ASSUME NEW s \in Sequences, ClaimUnreadable(s) PROVE UNCHANGED Seen
  <2>1. pc[s] = "none"
    BY <1>9, AdmittedInOrder DEF ClaimUnreadable
  <2>2. Held' = Held
    BY <1>9, <1>p, <2>1, HeldStep DEF ClaimUnreadable, Transacting
  <2> QED BY <1>9, <2>2 DEF ClaimUnreadable, durable, Seen
<1>10. ASSUME NEW s \in Sequences, Admit(s) PROVE Moves!Move
  <2>1. /\ Candidate(s) /\ Eligible(s) /\ s \notin damaged
        /\ status' = [status EXCEPT ![s] = "RUNNING"]
        /\ UNCHANGED <<event, place, journal, damaged>>
    BY <1>10 DEF Admit
  <2>2. /\ Waits(s) /\ pc[s] = "none"
        /\ \A r \in Sequences : r < s /\ event[r] = event[s] =>
              status[r] \in Terminal /\ r \notin journal
    BY <2>1, AdmittedInOrder
  <2>3. Held' = Held
    BY <1>10, <1>p, <2>2, HeldStep DEF Admit, Transacting
  <2>4. Moves!Cardinality(Moves!RunningRecords) < MaxConcurrent
    BY <2>1, CapacityLeft, MovesCount DEF Moves!RunningRecords, Sequences
  <2>5. Moves!Claim(s)
    BY <2>1, <2>2, <2>3, <2>4 DEF Moves!Claim, Held, Sequences
  <2> QED BY <2>5 DEF Moves!Move, Sequences
<1>11. ASSUME NEW s \in Sequences, Settle(s)
       PROVE  Moves!Move \/ UNCHANGED Seen
  <2>1. Fresh(s) /\ pc[s] = "settle"
    BY <1>11 DEF Settle, Inv, Threads, Thread
  <2>2. Held' = Held
    BY <1>11, <1>p, <2>1, HeldStep DEF Settle, Release, Transacting
  <2>3. \/ status' = [status EXCEPT ![s] = "FAILED"]
        \/ status' = status
    BY <1>11 DEF Settle
  <2> QED BY <1>11, <2>1, <2>2, <2>3, MoveFinish DEF Settle, Seen
<1> QED
  BY <1>1, <1>2, <1>3, <1>4, <1>5, <1>6, <1>7, <1>8, <1>9, <1>10, <1>11
     DEF Next, Tick

(* What a reader of the record directories sees of the scheduler, its      *)
(* failures and its crashes is one of the moves of RecordMoves after the   *)
(* other: nothing else happens to a record, and in no other order.         *)
THEOREM SchedulerImplementsMoves == Spec => MovesRefined
<1>1. Init => Moves!MovesInit
  BY DEF Init, Moves!MovesInit, Sequences, Transacting
<1>2. Inv /\ [Next]_vars => [Moves!Move]_(Moves!moves)
  BY MovesStep DEF Seen, Held, Moves!moves
<1> QED
  BY <1>1, <1>2, AlwaysInv, PTL DEF Spec, MovesRefined, Moves!MovesSpec
=============================================================================
