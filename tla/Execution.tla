----------------------------- MODULE Execution -----------------------------
(***************************************************************************)
(* The execution of promoted calculations on their worker threads          *)
(* (calculation.py, calculation_finalization.py), the native program each  *)
(* of them runs (runner.py), the evidence it publishes (product_manifest,  *)
(* provenance, calculation_log), and the end and the next life of the      *)
(* application in one process (main.py).                                   *)
(*                                                                         *)
(* Every operation of a thread may raise before or after its effect (at    *)
(* most MaxFaults do).  The waits of shutdown have a time limit, so each   *)
(* of them may end at any time.  Crashes are the subject of Recalculation  *)
(* and Scheduler.                                                          *)
(***************************************************************************)
EXTENDS Naturals, FiniteSets

CONSTANTS Calculations, MaxFaults

ASSUME CalculationsFinite == IsFiniteSet(Calculations)
ASSUME MaxFaultsNatural == MaxFaults \in Nat

VARIABLES
    pc,         \* what the thread of a calculation does next
    status,     \* the durable lifecycle state
    evidence,   \* the terminal artifacts in the service directory
    code,       \* the failure code the thread reports
    child,      \* the native process
    tracked,    \* _active_processes
    abandoned,  \* the tracked ones whose owner_active is false
    signalled,  \* those whose service_terminated is true
    unreached,  \* (for the properties) those that could not be signalled
    gate,       \* _launch_open
    app,        \* what the application does
    restart,    \* _restart_required_after_incomplete_callback_drain
    faults

thread  == <<pc, status, evidence, code>>
process == <<child, tracked, abandoned, signalled, unreached>>
vars    == <<thread, process, gate, app, restart, faults>>

(* The steps of execute_calculation, phase by phase.  A step is left for   *)
(* the one that follows it here, or for the failure path.                  *)
Preparation ==
    [prepare |-> "prep_phase", prep_phase |-> "prep_log", prep_log |-> "shake_log",
     shake_log |-> "setup", setup |-> "setup_log", setup_log |-> "native_phase"]
Native ==
    [native_phase |-> "native_log", native_log |-> "launch",
     launch |-> "started", started |-> "wait", wait |-> "collect",
     collect |-> "record", record |-> "exit_log", exit_log |-> "verdict",
     verdict |-> "valid_phase"]
Validation ==
    [valid_phase |-> "valid_log", valid_log |-> "validate",
     validate |-> "pass_log", pass_log |-> "final_phase"]
Finalization ==
    [final_phase |-> "final_log", final_log |-> "manifest",
     manifest |-> "provenance", provenance |-> "success",
     success |-> "finalize"]
Failing ==
    [fail_log |-> "fail_manifest", fail_manifest |-> "fail_provenance",
     fail_provenance |-> "failure", failure |-> "finalize"]

After(step) ==
    CASE step \in DOMAIN Preparation  -> Preparation[step]
      [] step \in DOMAIN Native       -> Native[step]
      [] step \in DOMAIN Validation   -> Validation[step]
      [] step \in DOMAIN Finalization -> Finalization[step]
      [] step \in DOMAIN Failing      -> Failing[step]

PlainSteps == {"prep_phase", "setup", "native_phase", "record", "valid_phase",
               "final_phase"}
LogSteps   == {"prep_log", "setup_log", "native_log", "exit_log", "valid_log",
               "pass_log", "final_log"}
AllSteps   == UNION {DOMAIN Preparation, DOMAIN Native, DOMAIN Validation,
                     DOMAIN Finalization, DOMAIN Failing}
Ended      == {"idle", "retained"}

Codes == {"none", "service_shutdown", "native_signal", "native_exit", "other"}

NoEvidence == [manifest |-> "none", provenance |-> "none",
               service_log |-> FALSE, shake_log |-> "none"]

MayFail == faults < MaxFaults /\ faults' = faults + 1
NoFault == UNCHANGED faults

Go(c, step) == pc' = [pc EXCEPT ![c] = step]
Continue(c) == Go(c, After(pc[c])) /\ UNCHANGED code

(* _finish_failed begins.                                                  *)
FinishFailed(c, why) == Go(c, "fail_log") /\ code' = [code EXCEPT ![c] = why]
(* ... and does not try the log again when the log is what failed.         *)
FinishFailedQuietly(c) == /\ Go(c, "fail_manifest")
                          /\ code' = [code EXCEPT ![c] = "other"]

(* Variant: the evidence is published without looking at the record.       *)
MatchingCurrentUnchecked(c) == TRUE

(* _require_matching_current, as each writer of evidence has it.           *)
MatchingCurrent(c) == status[c] = "RUNNING"

Put(c, e) == evidence' = [evidence EXCEPT ![c] = e]
ServiceLog(c)      == [evidence[c] EXCEPT !.service_log = TRUE]
ShakeLog(c)        == [evidence[c] EXCEPT !.shake_log = "empty"]
Manifest(c, kind)  == [evidence[c] EXCEPT !.manifest = kind]
Provenance(c, kind) == [evidence[c] EXCEPT !.provenance = kind]

(* A writer of evidence succeeds, or it raises: it refused the record, it  *)
(* failed before the artifact was replaced, or syncing it failed.          *)
Writes(c, e) == MatchingCurrent(c) /\ Put(c, e) /\ NoFault
WriteRaises(c, e) ==
    \/ ~MatchingCurrent(c) /\ UNCHANGED evidence /\ NoFault
    \/ MatchingCurrent(c) /\ MayFail /\ (Put(c, e) \/ UNCHANGED evidence)

Thread == UNCHANGED <<process, gate, app, restart>>

-----------------------------------------------------------------------------
(* The scheduler claims a calculation and hands it to a worker ...         *)
Begin(c) ==
    /\ app = "serving" /\ status[c] = "QUEUED"
    /\ Go(c, "prepare")
    /\ status' = [status EXCEPT ![c] = "RUNNING"]
    /\ UNCHANGED <<evidence, code>> /\ Thread /\ NoFault

(* ... which prepares its trees; what that raises leaves                   *)
(* execute_calculation.                                                    *)
Prepare(c) ==
    /\ pc[c] = "prepare"
    /\ \/ Continue(c) /\ NoFault
       \/ Go(c, "reconcile") /\ MayFail /\ UNCHANGED code
    /\ UNCHANGED <<status, evidence>> /\ Thread

(* Recording a phase or a result, the native context and the profile.      *)
Plain(c) ==
    /\ pc[c] \in PlainSteps
    /\ \/ Continue(c) /\ NoFault
       \/ FinishFailed(c, "other") /\ MayFail
    /\ UNCHANGED <<status, evidence>> /\ Thread

AppendLog(c) ==
    /\ pc[c] \in LogSteps
    /\ \/ Writes(c, ServiceLog(c)) /\ Continue(c)
       \/ WriteRaises(c, ServiceLog(c)) /\ FinishFailedQuietly(c)
    /\ UNCHANGED status /\ Thread

PrecreateShakeLog(c) ==
    /\ pc[c] = "shake_log"
    /\ \/ Put(c, ShakeLog(c)) /\ Continue(c) /\ NoFault
       \/ /\ MayFail /\ FinishFailed(c, "other")
          /\ Put(c, ShakeLog(c)) \/ UNCHANGED evidence
    /\ UNCHANGED status /\ Thread

-----------------------------------------------------------------------------
(* run_shake.                                                              *)

(* Variant: the gate is not looked at under the lock.                      *)
LaunchUngated(c) ==
    /\ pc[c] = "launch"
    /\ child' = [child EXCEPT ![c] = "running"]
    /\ tracked' = tracked \cup {c} /\ Continue(c) /\ NoFault
    /\ UNCHANGED <<status, evidence, abandoned, signalled, unreached, gate, app,
                   restart>>

(* Launching and registering share the lock of shutdown.                   *)
Launch(c) ==
    /\ pc[c] = "launch"
    /\ \/ /\ gate
          /\ child' = [child EXCEPT ![c] = "running"]
          /\ tracked' = tracked \cup {c}
          /\ Continue(c) /\ NoFault
       \/ /\ ~gate /\ FinishFailed(c, "service_shutdown")
          /\ UNCHANGED <<child, tracked>> /\ NoFault
       \/ /\ MayFail /\ FinishFailed(c, "other")
          /\ UNCHANGED <<child, tracked>>
    /\ UNCHANGED <<status, evidence, abandoned, signalled, unreached, gate, app,
                   restart>>

(* The on_started callback; when it raises the child is terminated.        *)
Started(c) ==
    /\ pc[c] = "started"
    /\ \/ Continue(c) /\ NoFault
       \/ Go(c, "reap") /\ MayFail /\ UNCHANGED code
    /\ UNCHANGED <<status, evidence>> /\ Thread

Over(c) == child[c] \in {"ok", "error", "signal"}

Forget(c)  == tracked' = tracked \ {c} /\ UNCHANGED abandoned
Abandon(c) == abandoned' = abandoned \cup {c} /\ UNCHANGED tracked

(* Variant: a child whose wait failed is forgotten.                        *)
WaitFailsForgetful(c) ==
    /\ pc[c] \in {"reap", "wait"} /\ MayFail
    /\ Forget(c) /\ FinishFailed(c, "other")
    /\ UNCHANGED <<status, evidence, child, signalled, unreached, gate, app,
                   restart>>

(* process.wait raises: the child stays tracked, without an owner.         *)
WaitFails(c) ==
    /\ pc[c] \in {"reap", "wait"} /\ MayFail
    /\ Abandon(c) /\ FinishFailed(c, "other")
    /\ UNCHANGED <<status, evidence, child, signalled, unreached, gate, app,
                   restart>>

Reap(c) ==
    /\ pc[c] = "reap" /\ Over(c)
    /\ Forget(c) /\ FinishFailed(c, "other") /\ NoFault
    /\ UNCHANGED <<status, evidence, child, signalled, unreached, gate, app,
                   restart>>

Wait(c) ==
    /\ pc[c] = "wait" /\ Over(c)
    /\ Continue(c) /\ NoFault
    /\ UNCHANGED <<status, evidence>> /\ Thread

Collect(c) ==
    /\ pc[c] = "collect"
    /\ Forget(c) /\ Continue(c) /\ NoFault
    /\ UNCHANGED <<status, evidence, child, signalled, unreached, gate, app,
                   restart>>

(* Variant: the signal that ended the child is looked at first.            *)
VerdictSignalFirst(c) ==
    /\ pc[c] = "verdict"
    /\ IF child[c] = "signal" THEN FinishFailed(c, "native_signal")
       ELSE IF c \in signalled THEN FinishFailed(c, "service_shutdown")
       ELSE IF child[c] = "error" THEN FinishFailed(c, "native_exit")
       ELSE Continue(c)
    /\ UNCHANGED <<status, evidence>> /\ Thread /\ NoFault

(* What execute_calculation makes of the result.                           *)
Verdict(c) ==
    /\ pc[c] = "verdict"
    /\ IF c \in signalled THEN FinishFailed(c, "service_shutdown")
       ELSE IF child[c] = "signal" THEN FinishFailed(c, "native_signal")
       ELSE IF child[c] = "error" THEN FinishFailed(c, "native_exit")
       ELSE Continue(c)
    /\ UNCHANGED <<status, evidence>> /\ Thread /\ NoFault

(* External: the native program writes its log, ends, or is ended.         *)
ChildWrites(c) ==
    /\ child[c] = "running" /\ evidence[c].shake_log = "empty"
    /\ Put(c, [evidence[c] EXCEPT !.shake_log = "written"])
    /\ UNCHANGED <<pc, status, code>> /\ Thread /\ NoFault
ChildEnds(c) ==
    /\ \/ /\ child[c] = "running"
          /\ \E how \in {"ok", "error", "signal"} :
                child' = [child EXCEPT ![c] = how]
       \/ child[c] = "killed" /\ child' = [child EXCEPT ![c] = "signal"]
    /\ UNCHANGED <<thread, tracked, abandoned, signalled, unreached, gate, app,
                   restart, faults>>

-----------------------------------------------------------------------------
(* Products are resolved and validated, and may be found wanting.          *)
Validate(c) ==
    /\ pc[c] = "validate"
    /\ Continue(c) \/ FinishFailed(c, "other")
    /\ UNCHANGED <<status, evidence>> /\ Thread /\ NoFault

PublishManifest(c) ==
    /\ pc[c] = "manifest"
    /\ \/ Writes(c, Manifest(c, "complete")) /\ Continue(c)
       \/ WriteRaises(c, Manifest(c, "complete")) /\ FinishFailed(c, "other")
    /\ UNCHANGED status /\ Thread

PublishProvenance(c) ==
    /\ pc[c] = "provenance"
    /\ \/ Writes(c, Provenance(c, "success")) /\ Continue(c)
       \/ WriteRaises(c, Provenance(c, "success")) /\ FinishFailed(c, "other")
    /\ UNCHANGED status /\ Thread

Backed(c) == /\ evidence[c].manifest = "complete"
             /\ evidence[c].provenance = "success"
             /\ evidence[c].service_log /\ evidence[c].shake_log = "written"

(* A terminal record is written, or it is written and syncing it raises.   *)
SetStatus(c, state) == status' = [status EXCEPT ![c] = state]

FinalizeSuccess(c) ==
    /\ pc[c] = "success"
    /\ \/ /\ MatchingCurrent(c) /\ Backed(c)
          /\ SetStatus(c, "SUCCESS") /\ Continue(c) /\ NoFault
       \/ /\ ~(MatchingCurrent(c) /\ Backed(c))
          /\ UNCHANGED status /\ FinishFailed(c, "other") /\ NoFault
       \/ /\ MayFail /\ FinishFailed(c, "other")
          /\ \/ UNCHANGED status
             \/ MatchingCurrent(c) /\ Backed(c) /\ SetStatus(c, "SUCCESS")
    /\ UNCHANGED evidence /\ Thread

(* _finish_failed: what its evidence writers raise is only noted ...       *)
FailureEvidence(c) ==
    LET e == CASE pc[c] = "fail_log"        -> ServiceLog(c)
               [] pc[c] = "fail_manifest"   -> Manifest(c, "partial")
               [] pc[c] = "fail_provenance" -> Provenance(c, "failure")
    IN  /\ pc[c] \in DOMAIN Failing \ {"failure"}
        /\ Writes(c, e) \/ WriteRaises(c, e)
        /\ Continue(c)
        /\ UNCHANGED status /\ Thread

(* Variant: a state the lifecycle does not have.                           *)
FinalizeInterrupted(c) ==
    /\ pc[c] = "failure" /\ SetStatus(c, "INTERRUPTED") /\ Continue(c)
    /\ UNCHANGED evidence /\ Thread /\ NoFault

(* ... what finalize_failure raises leaves execute_calculation.            *)
FinalizeFailure(c) ==
    /\ pc[c] = "failure"
    /\ \/ MatchingCurrent(c) /\ SetStatus(c, "FAILED") /\ Continue(c) /\ NoFault
       \/ /\ ~MatchingCurrent(c) /\ UNCHANGED <<status, code>>
          /\ Go(c, "reconcile") /\ NoFault
       \/ /\ MayFail /\ Go(c, "reconcile") /\ UNCHANGED code
          /\ \/ UNCHANGED status
             \/ MatchingCurrent(c) /\ SetStatus(c, "FAILED")
    /\ UNCHANGED evidence /\ Thread

(* finalize_transaction and the release of the worker's slot.              *)
Finalize(c) ==
    /\ pc[c] = "finalize"
    /\ \/ Go(c, "idle") /\ NoFault
       \/ Go(c, "reconcile") /\ MayFail
    /\ UNCHANGED <<status, evidence, code>> /\ Thread

(* The worker reconciles: it fails a RUNNING record.  Beside a SUCCESS it  *)
(* refuses a journal, when there is still one, and gives the slot back     *)
(* without the event.  When it raises, it may have failed the record, and  *)
(* it keeps the slot unless it can read that the record is terminal.       *)
Reconcile(c) ==
    /\ pc[c] = "reconcile"
    /\ \/ /\ status[c] # "SUCCESS" /\ SetStatus(c, "FAILED")
          /\ Go(c, "idle") /\ NoFault
       \/ /\ status[c] = "SUCCESS" /\ UNCHANGED status /\ NoFault
          /\ Go(c, "retained") \/ Go(c, "idle")
       \/ /\ MayFail
          /\ UNCHANGED status \/ (status[c] = "RUNNING" /\ SetStatus(c, "FAILED"))
          /\ \/ Go(c, "kept")
             \/ status'[c] # "RUNNING" /\ Go(c, "retained")
    /\ UNCHANGED <<evidence, code>> /\ Thread

Work(c) == \/ Prepare(c) \/ Plain(c) \/ AppendLog(c) \/ PrecreateShakeLog(c)
           \/ Launch(c) \/ Started(c) \/ WaitFails(c) \/ Reap(c) \/ Wait(c)
           \/ Collect(c) \/ Verdict(c) \/ Validate(c)
           \/ PublishManifest(c) \/ PublishProvenance(c) \/ FinalizeSuccess(c)
           \/ FailureEvidence(c) \/ FinalizeFailure(c)
           \/ Finalize(c) \/ Reconcile(c)

-----------------------------------------------------------------------------
(* _shutdown_scheduler.                                                    *)

(* wait_until_idle: no calculation occupies worker capacity.               *)
Idle == \A c \in Calculations : pc[c] \in Ended

(* _prune_completed_locked                                                 *)
Pruned == {c \in tracked : ~(Over(c) /\ c \in abandoned)}

Close == /\ app = "serving" /\ app' = "grace"
         /\ UNCHANGED <<thread, process, gate, restart, faults>>

(* Signal the tracked children that poll does not report as ended: those   *)
(* that run, and late ones, which end between the poll and the signal or   *)
(* for which poll has no answer while their owner waits.  Raising for one  *)
(* child does not keep the others from being signalled.                    *)
Signal(effect) ==
    LET targets == {c \in tracked : ~Over(c)} IN
    \E missed \in SUBSET targets, late \in SUBSET (Pruned \ targets) :
        /\ faults + Cardinality(missed) <= MaxFaults
        /\ faults' = faults + Cardinality(missed)
        /\ tracked' = Pruned
        /\ signalled' = signalled \cup late \cup (targets \ missed)
        /\ unreached' = unreached \cup missed
        /\ child' = [c \in Calculations |->
                        IF c \in targets \ missed THEN effect ELSE child[c]]
        /\ UNCHANGED abandoned

(* close_and_terminate_active.  The native program may outlive a SIGTERM.  *)
CloseAndTerminate ==
    /\ app = "grace" /\ app' = "terminated"
    /\ gate' = FALSE
    /\ Signal("running")
    /\ UNCHANGED <<thread, restart>>

(* Variant: the children are asked once more and not killed.               *)
ForceKillPolite ==
    /\ app = "terminated" /\ app' = "killed"
    /\ Signal("running")
    /\ UNCHANGED <<thread, gate, restart>>

(* force_kill_active                                                       *)
ForceKill ==
    /\ app = "terminated" /\ app' = "killed"
    /\ Signal("killed")
    /\ UNCHANGED <<thread, gate, restart>>

(* Variant: the result of the last wait is not remembered.                 *)
FinalDrainTrusting ==
    /\ app = "killed" /\ app' = "stopped"
    /\ UNCHANGED <<thread, process, gate, restart, faults>>

FinalDrain ==
    /\ app = "killed" /\ app' = "stopped"
    /\ \/ restart' = (restart \/ ~Idle) /\ NoFault
       \/ restart' = TRUE /\ MayFail
    /\ UNCHANGED <<thread, process, gate>>

(* open_launch_gate refuses while a process of the last life is unresolved.*)
GateOpens == Pruned = {}

(* lifespan begins again in the same process, or refuses to.               *)
Reopen ==
    /\ app = "stopped" /\ ~restart
    /\ tracked' = Pruned
    /\ status' = [c \in Calculations |-> IF status[c] = "RUNNING" THEN "FAILED"
                                                                  ELSE status[c]]
    /\ gate' = GateOpens
    /\ app' = IF GateOpens THEN "serving" ELSE app
    /\ UNCHANGED <<pc, evidence, code, child, abandoned, signalled, unreached,
                   restart, faults>>
ReopenRefused == app = "stopped" /\ restart /\ UNCHANGED vars

Shutdown == Close \/ CloseAndTerminate \/ ForceKill \/ FinalDrain

-----------------------------------------------------------------------------
Init == /\ pc = [c \in Calculations |-> "idle"]
        /\ status = [c \in Calculations |-> "QUEUED"]
        /\ evidence = [c \in Calculations |-> NoEvidence]
        /\ code = [c \in Calculations |-> "none"]
        /\ child = [c \in Calculations |-> "none"]
        /\ tracked = {} /\ abandoned = {} /\ signalled = {} /\ unreached = {}
        /\ gate = TRUE /\ app = "serving" /\ restart = FALSE
        /\ faults = 0

Next == \/ \E c \in Calculations :
              Begin(c) \/ Work(c) \/ ChildWrites(c) \/ ChildEnds(c)
        \/ Shutdown \/ Reopen \/ ReopenRefused

Spec == Init /\ [][Next]_vars

(* Threads run, shutdown goes on once begun, and a killed process ends.    *)
(* Nothing makes the native program end by itself, and nothing an          *)
(* operation that raises: a thread in process.wait waits for its child.    *)
FairSpec ==
    /\ Spec
    /\ WF_vars(CloseAndTerminate /\ faults' = faults)
    /\ WF_vars(ForceKill /\ faults' = faults)
    /\ WF_vars(FinalDrain /\ faults' = faults)
    /\ \A c \in Calculations :
          /\ WF_vars(Work(c) /\ faults' = faults)
          /\ WF_vars(child[c] = "killed" /\ ChildEnds(c))

-----------------------------------------------------------------------------
TypeOK ==
    /\ pc \in [Calculations -> AllSteps \cup Ended
                \cup {"reap", "finalize", "reconcile", "kept"}]
    /\ status \in [Calculations -> {"QUEUED", "RUNNING", "SUCCESS", "FAILED"}]
    /\ evidence \in [Calculations ->
          [manifest : {"none", "partial", "complete"},
           provenance : {"none", "failure", "success"},
           service_log : BOOLEAN, shake_log : {"none", "empty", "written"}]]
    /\ code \in [Calculations -> Codes]
    /\ child \in [Calculations ->
                     {"none", "running", "killed", "ok", "error", "signal"}]
    /\ {tracked, abandoned, signalled, unreached} \subseteq SUBSET Calculations
    /\ gate \in BOOLEAN /\ restart \in BOOLEAN
    /\ app \in {"serving", "grace", "terminated", "killed", "stopped"}
    /\ faults \in 0..MaxFaults

(* A calculation that is SUCCESS has the complete manifest, the provenance *)
(* of a success and both logs, and keeps them: also when writing SUCCESS   *)
(* raised after it had become visible, and the failure path was taken.     *)
SuccessIsBacked ==
    \A c \in Calculations : status[c] = "SUCCESS" =>
        /\ Backed(c)
        /\ child[c] = "ok" /\ c \notin signalled

(* A native process that may still run is registered, so that shutdown     *)
(* reaches it and the next life of the application waits for it.           *)
ChildrenAccounted ==
    \A c \in Calculations : child[c] \in {"running", "killed"} => c \in tracked

(* Once shutdown has killed what it found, no native process is left that  *)
(* was not told to end, unless telling it raised.                          *)
NoneMissed ==
    app \in {"killed", "stopped"} => \A c \in Calculations :
        child[c] = "running" => c \in unreached

(* A native process the service itself ended is never reported as a        *)
(* failure of the native program.                                          *)
BlameIsRight ==
    \A c \in Calculations :
        code[c] \in {"native_signal", "native_exit"} => c \notin signalled

(* The application lives again in its process only when the threads and    *)
(* the native processes of its last life have ended, so that startup       *)
(* recovery never fails a record somebody is working on.                   *)
SecondLifeIsAlone ==
    [][app = "stopped" /\ app' = "serving" =>
          /\ Idle
          /\ \A c \in Calculations :
                child[c] \notin {"running", "killed"} /\ status[c] # "RUNNING"]_vars

(* When shutdown has begun, every native process ends, however long it     *)
(* would have run, unless signalling it raised.                            *)
NativesEnd ==
    \A c \in Calculations :
        app = "grace" ~> child[c] \notin {"running", "killed"} \/ c \in unreached

(* When shutdown has begun, every calculation a worker has taken becomes   *)
(* terminal, unless its native process could not be signalled or its own   *)
(* reconciliation failed.                                                  *)
ShutdownSettles ==
    \A c \in Calculations :
        app = "grace" /\ status[c] = "RUNNING" ~>
            \/ status[c] \in {"SUCCESS", "FAILED"}
            \/ c \in unreached \/ pc[c] = "kept"
=============================================================================
