-------------------------- MODULE CalculationQueue --------------------------
(***************************************************************************)
(* What the queue promises a caller, without files, threads or crashes:    *)
(* accepted calculations run at most once, those of one event one after    *)
(* the other in the order of acceptance, and never more than MaxConcurrent *)
(* at a time.                                                              *)
(***************************************************************************)
EXTENDS Naturals, FiniteSets

CONSTANTS Events, MaxSequence, MaxConcurrent

VARIABLES event,    \* the event of each calculation, by internal sequence
          status    \* its lifecycle state, "none" before acceptance

Sequences == 1..MaxSequence
Terminal  == {"SUCCESS", "FAILED"}

Running == {s \in Sequences : status[s] = "RUNNING"}

Init == /\ event \in [Sequences -> Events]
        /\ status = [s \in Sequences |-> "none"]

Accept(s) == /\ status[s] = "none"
             /\ \A r \in Sequences : r < s => status[r] # "none"
             /\ status' = [status EXCEPT ![s] = "QUEUED"]
             /\ UNCHANGED event

Start(s) == /\ status[s] = "QUEUED"
            /\ Cardinality(Running) < MaxConcurrent
            /\ \A r \in Sequences :
                  r < s /\ event[r] = event[s] => status[r] \in Terminal
            /\ status' = [status EXCEPT ![s] = "RUNNING"]
            /\ UNCHANGED event

Finish(s) == /\ status[s] = "RUNNING"
             /\ \E outcome \in Terminal :
                   status' = [status EXCEPT ![s] = outcome]
             /\ UNCHANGED event

Next == \E s \in Sequences : Accept(s) \/ Start(s) \/ Finish(s)

Spec == Init /\ [][Next]_<<event, status>>
=============================================================================
