-------------------------- MODULE ExecutionProofs --------------------------
(***************************************************************************)
(* Proofs, for every set of calculations and number of faults, that the    *)
(* calculation threads and the shutdown of the application keep the        *)
(* invariants of Execution.                                                *)
(***************************************************************************)
EXTENDS Execution, FiniteSetTheorems, TLAPS

(* The way from the collected result of the native program to its verdict, *)
(* from there to SUCCESS, and every other way out.                         *)
Judging  == {"record", "exit_log", "verdict"}
Succeeding == {"valid_phase", "valid_log", "validate", "pass_log",
               "final_phase", "final_log", "manifest", "provenance", "success"}
Closing == {"fail_log", "fail_manifest", "fail_provenance", "failure",
            "finalize", "reconcile", "kept", "idle", "retained"}

(* Nobody can signal the native program of c any more, and nobody has.     *)
Untouched(c) == c \notin tracked /\ c \notin signalled

ThreadOK(c) ==
    /\ child[c] \in {"running", "killed"} => c \in tracked
    /\ pc[c] = "collect" => Over(c)
    /\ pc[c] \in Judging => Over(c) /\ c \notin tracked
    /\ pc[c] \in Succeeding => child[c] = "ok" /\ Untouched(c)
    /\ status[c] = "SUCCESS" =>
         Backed(c) /\ child[c] = "ok" /\ Untouched(c) /\ pc[c] \in Closing
    /\ code[c] \in {"native_signal", "native_exit"} =>
         Untouched(c) /\ pc[c] \in Closing
    /\ status[c] = "QUEUED" => pc[c] = "idle" /\ code[c] = "none"
    /\ pc[c] \in Ended \cup {"finalize"} => status[c] # "RUNNING"

ShutdownOK ==
    /\ app \in {"terminated", "killed", "stopped"} => ~gate
    /\ app = "stopped" /\ ~restart => Idle

Inv == /\ TypeOK /\ ShutdownOK /\ NoneMissed
       /\ \A c \in Calculations : ThreadOK(c)
-----------------------------------------------------------------------------
(* Types.                                                                  *)

(* The steps of a thread, and the one that follows each.                   *)
LEMMA AfterIs ==
  /\ After("prepare") = "prep_phase" /\ After("prep_phase") = "prep_log"
  /\ After("prep_log") = "shake_log" /\ After("shake_log") = "setup"
  /\ After("setup") = "setup_log" /\ After("setup_log") = "native_phase"
  /\ After("native_phase") = "native_log" /\ After("native_log") = "launch"
  /\ After("launch") = "started" /\ After("started") = "wait"
  /\ After("wait") = "collect" /\ After("collect") = "record"
  /\ After("record") = "exit_log" /\ After("exit_log") = "verdict"
  /\ After("verdict") = "valid_phase" /\ After("valid_phase") = "valid_log"
  /\ After("valid_log") = "validate" /\ After("validate") = "pass_log"
  /\ After("pass_log") = "final_phase" /\ After("final_phase") = "final_log"
  /\ After("final_log") = "manifest" /\ After("manifest") = "provenance"
  /\ After("provenance") = "success" /\ After("success") = "finalize"
  /\ After("fail_log") = "fail_manifest"
  /\ After("fail_manifest") = "fail_provenance"
  /\ After("fail_provenance") = "failure" /\ After("failure") = "finalize"
BY DEF After, Preparation, Native, Validation, Finalization, Failing

Steps == {"prepare", "prep_phase", "prep_log", "shake_log", "setup",
          "setup_log", "native_phase", "native_log", "launch", "started",
          "wait", "collect", "reap"} \cup Judging \cup Succeeding \cup Closing

LEMMA StepsAre ==
  AllSteps \cup Ended \cup {"reap", "finalize", "reconcile", "kept"} = Steps
BY DEF AllSteps, Ended, Steps, Judging, Succeeding, Closing, Preparation,
   Native, Validation, Finalization, Failing
States   == {"QUEUED", "RUNNING", "SUCCESS", "FAILED"}
Children == {"none", "running", "killed", "ok", "error", "signal"}
Evidence == [manifest : {"none", "partial", "complete"},
             provenance : {"none", "failure", "success"},
             service_log : BOOLEAN, shake_log : {"none", "empty", "written"}]

ThreadTyped == /\ pc \in [Calculations -> Steps]
               /\ status \in [Calculations -> States]
               /\ evidence \in [Calculations -> Evidence]
               /\ code \in [Calculations -> Codes]
ProcessTyped == /\ child \in [Calculations -> Children]
                /\ tracked \subseteq Calculations /\ abandoned \subseteq Calculations
                /\ signalled \subseteq Calculations /\ unreached \subseteq Calculations
AppTyped == /\ gate \in BOOLEAN /\ restart \in BOOLEAN
            /\ app \in {"serving", "grace", "terminated", "killed", "stopped"}

LEMMA TypeParts ==
  TypeOK <=> ThreadTyped /\ ProcessTyped /\ AppTyped /\ faults \in 0..MaxFaults
BY StepsAre DEF TypeOK, ThreadTyped, ProcessTyped, AppTyped, States, Children,
   Evidence

USE DEF Go, MayFail, NoFault

LEMMA EvidenceTyped ==
  ASSUME ThreadTyped, NEW c \in Calculations
  PROVE  /\ ServiceLog(c) \in Evidence /\ ShakeLog(c) \in Evidence
         /\ [evidence[c] EXCEPT !.shake_log = "written"] \in Evidence
         /\ \A k \in {"partial", "complete"} : Manifest(c, k) \in Evidence
         /\ \A k \in {"failure", "success"} : Provenance(c, k) \in Evidence
BY DEF ThreadTyped, Evidence, ServiceLog, ShakeLog, Manifest, Provenance

(* What a writer of evidence does, whether or not it raises.               *)
LEMMA WriterTyped ==
  ASSUME ThreadTyped, NEW c \in Calculations, NEW e \in Evidence,
         Writes(c, e) \/ WriteRaises(c, e)
  PROVE  evidence' \in [Calculations -> Evidence]
BY DEF ThreadTyped, Writes, WriteRaises, Put

LEMMA FaultTyped ==
  ASSUME faults \in 0..MaxFaults, MayFail \/ NoFault
  PROVE  faults' \in 0..MaxFaults
BY MaxFaultsNatural

(* The steps of a thread that can follow.                                  *)
LEMMA StepTyped ==
  ASSUME ThreadTyped, NEW c \in Calculations,
         \/ Continue(c) /\ pc[c] \in Steps \ {"reap", "finalize", "reconcile",
                                              "kept", "idle", "retained"}
         \/ \E why \in Codes : FinishFailed(c, why)
         \/ FinishFailedQuietly(c)
         \/ UNCHANGED code /\ \E step \in Steps : Go(c, step)
  PROVE  pc' \in [Calculations -> Steps] /\ code' \in [Calculations -> Codes]
<1>1. CASE Continue(c) /\ pc[c] \in Steps \ {"reap", "finalize", "reconcile",
                                              "kept", "idle", "retained"}
  <2>1. After(pc[c]) \in Steps
    BY <1>1, AfterIs DEF Steps, Judging, Succeeding, Closing
  <2> QED BY <1>1, <2>1 DEF Continue, ThreadTyped
<1>2. CASE \E why \in Codes : FinishFailed(c, why)
  BY <1>2 DEF FinishFailed, ThreadTyped, Steps, Closing
<1>3. CASE FinishFailedQuietly(c)
  BY <1>3 DEF FinishFailedQuietly, ThreadTyped, Steps, Closing, Codes
<1>4. CASE UNCHANGED code /\ \E step \in Steps : Go(c, step)
  BY <1>4 DEF ThreadTyped
<1> QED BY <1>1, <1>2, <1>3, <1>4

LEMMA WorkTyped ==
  ASSUME ThreadTyped, ProcessTyped, NEW c \in Calculations, Work(c)
  PROVE  ThreadTyped' /\ ProcessTyped' /\ (MayFail \/ NoFault)
<1> USE DEF Thread, process
<1>c. {"other", "service_shutdown", "native_signal", "native_exit"}
         \subseteq Codes
  BY DEF Codes
<1>s. {"reap", "finalize", "reconcile", "kept", "idle", "retained"}
         \subseteq Steps
  BY DEF Steps, Closing
<1>t. status \in [Calculations -> States] /\ evidence \in [Calculations -> Evidence]
      /\ code \in [Calculations -> Codes] /\ pc \in [Calculations -> Steps]
  BY DEF ThreadTyped
<1>1. CASE Prepare(c) \/ Plain(c) \/ Started(c) \/ Wait(c) \/ Validate(c)
  <2>1. /\ UNCHANGED <<status, evidence>> /\ UNCHANGED process
        /\ MayFail \/ NoFault
    BY <1>1 DEF Prepare, Plain, Started, Wait, Validate
  <2>2. /\ pc' \in [Calculations -> Steps] /\ code' \in [Calculations -> Codes]
    BY <1>1, <1>c, <1>s, <1>t, StepTyped
       DEF Prepare, Plain, Started, Wait, Validate, PlainSteps
  <2> QED BY <1>t, <2>1, <2>2 DEF ThreadTyped, ProcessTyped
<1>2. CASE AppendLog(c) \/ PublishManifest(c) \/ PublishProvenance(c)
           \/ FailureEvidence(c)
  <2>1. UNCHANGED status /\ UNCHANGED process
    BY <1>2 DEF AppendLog, PublishManifest, PublishProvenance, FailureEvidence
  <2>2. \E e \in Evidence : Writes(c, e) \/ WriteRaises(c, e)
    BY <1>2, EvidenceTyped DEF AppendLog, PublishManifest, PublishProvenance,
       FailureEvidence, Failing
  <2>3. /\ evidence' \in [Calculations -> Evidence] /\ (MayFail \/ NoFault)
    BY <2>2, WriterTyped DEF Writes, WriteRaises
  <2>4. /\ pc' \in [Calculations -> Steps] /\ code' \in [Calculations -> Codes]
    BY <1>2, <1>c, <1>t, StepTyped DEF AppendLog, PublishManifest,
       PublishProvenance, FailureEvidence, Failing, LogSteps
  <2> QED BY <1>t, <2>1, <2>3, <2>4 DEF ThreadTyped, ProcessTyped
<1>3. CASE PrecreateShakeLog(c)
  <2>1. /\ UNCHANGED status /\ UNCHANGED process /\ (MayFail \/ NoFault)
    BY <1>3 DEF PrecreateShakeLog
  <2>2. evidence' \in [Calculations -> Evidence]
    BY <1>3, <1>t, EvidenceTyped DEF PrecreateShakeLog, Put
  <2>3. /\ pc' \in [Calculations -> Steps] /\ code' \in [Calculations -> Codes]
    BY <1>3, <1>c, <1>t, StepTyped DEF PrecreateShakeLog
  <2> QED BY <1>t, <2>1, <2>2, <2>3 DEF ThreadTyped, ProcessTyped
<1>4. CASE Launch(c) \/ WaitFails(c) \/ Reap(c) \/ Collect(c) \/ Verdict(c)
  <2>1. UNCHANGED <<status, evidence>> /\ (MayFail \/ NoFault)
    BY <1>4 DEF Launch, WaitFails, Reap, Collect, Verdict
  <2>2. /\ pc' \in [Calculations -> Steps] /\ code' \in [Calculations -> Codes]
    BY <1>4, <1>c, <1>t, StepTyped
       DEF Launch, WaitFails, Reap, Collect, Verdict
  <2>3. ProcessTyped'
    BY <1>4 DEF Launch, WaitFails, Reap, Collect, Verdict, Forget, Abandon,
       ProcessTyped, Children
  <2> QED BY <1>t, <2>1, <2>2, <2>3 DEF ThreadTyped
<1>5. CASE FinalizeSuccess(c) \/ FinalizeFailure(c) \/ Finalize(c)
           \/ Reconcile(c)
  <2>1. UNCHANGED evidence /\ UNCHANGED process /\ (MayFail \/ NoFault)
    BY <1>5 DEF FinalizeSuccess, FinalizeFailure, Finalize, Reconcile
  <2>2. status' \in [Calculations -> States]
    BY <1>5, <1>t DEF FinalizeSuccess, FinalizeFailure, Finalize, Reconcile,
       SetStatus, States
  <2>3. /\ pc' \in [Calculations -> Steps] /\ code' \in [Calculations -> Codes]
    BY <1>5, <1>c, <1>s, <1>t, StepTyped DEF FinalizeSuccess, FinalizeFailure,
       Finalize, Reconcile
  <2> QED BY <1>t, <2>1, <2>2, <2>3 DEF ThreadTyped, ProcessTyped
<1> QED BY <1>1, <1>2, <1>3, <1>4, <1>5 DEF Work
(* What signalling does, for both signals.                                 *)
LEMMA SignalIs ==
  ASSUME ProcessTyped, faults \in 0..MaxFaults,
         NEW effect \in {"running", "killed"}, Signal(effect)
  PROVE  /\ ProcessTyped' /\ faults' \in 0..MaxFaults
         /\ tracked' \subseteq tracked
         /\ \A c \in tracked : ~Over(c) => c \in tracked'
         /\ signalled' \subseteq signalled \cup tracked
         /\ unreached \subseteq unreached'
         /\ \A c \in Calculations :
               \/ child'[c] = child[c]
               \/ c \in tracked /\ ~Over(c) /\ child'[c] = effect
         /\ \A c \in Calculations :
               c \in tracked /\ ~Over(c) => child'[c] = effect \/ c \in unreached'
<1> DEFINE targets == {c \in tracked : ~Over(c)}
<1>1. PICK missed \in SUBSET targets, late \in SUBSET (Pruned \ targets) :
        /\ faults + Cardinality(missed) <= MaxFaults
        /\ faults' = faults + Cardinality(missed)
        /\ tracked' = Pruned
        /\ signalled' = signalled \cup late \cup (targets \ missed)
        /\ unreached' = unreached \cup missed
        /\ child' = [c \in Calculations |->
                        IF c \in targets \ missed THEN effect ELSE child[c]]
        /\ UNCHANGED abandoned
  BY DEF Signal
<1>2. missed \in SUBSET Calculations
  BY DEF ProcessTyped
<1>3. Cardinality(missed) \in Nat
  BY <1>2, CalculationsFinite, FS_Subset, FS_CardinalityType
<1>4. faults' \in 0..MaxFaults
  BY <1>1, <1>3, MaxFaultsNatural
<1>5. Pruned \subseteq tracked /\ \A c \in tracked : ~Over(c) => c \in Pruned
  BY DEF Pruned
<1>6. ProcessTyped'
  BY <1>1, <1>2, <1>5 DEF ProcessTyped, Children
<1> QED BY <1>1, <1>4, <1>5, <1>6

LEMMA TypeStep == TypeOK /\ [Next]_vars => TypeOK'
<1> SUFFICES ASSUME TypeOK, [Next]_vars PROVE TypeOK'
  OBVIOUS
<1>0. ThreadTyped /\ ProcessTyped /\ AppTyped /\ faults \in 0..MaxFaults
  BY TypeParts
<1> SUFFICES ThreadTyped' /\ ProcessTyped' /\ AppTyped' /\ faults' \in 0..MaxFaults
  BY StepsAre DEF TypeOK, ThreadTyped, ProcessTyped, AppTyped, States,
     Children, Evidence
<1>t. UNCHANGED thread => ThreadTyped'
  BY <1>0 DEF thread, ThreadTyped
<1>p. UNCHANGED process => ProcessTyped'
  BY <1>0 DEF process, ProcessTyped
<1>a. UNCHANGED <<gate, app, restart>> => AppTyped'
  BY <1>0, Zenon DEF AppTyped
<1>1. ASSUME NEW c \in Calculations, Begin(c)
      PROVE  ThreadTyped' /\ ProcessTyped' /\ UNCHANGED <<gate, app, restart>>
             /\ faults' = faults
  <2>1. "prepare" \in Steps /\ "RUNNING" \in States
    BY DEF Steps, States
  <2>2. ThreadTyped'
    BY <1>0, <1>1, <2>1 DEF Begin, ThreadTyped
  <2> QED BY <1>1, <1>p, <2>2 DEF Begin, Thread
<1>2. ASSUME NEW c \in Calculations, Work(c)
      PROVE  ThreadTyped' /\ ProcessTyped' /\ UNCHANGED <<gate, app, restart>>
             /\ faults' \in 0..MaxFaults
  <2>1. UNCHANGED <<gate, app, restart>>
    BY <1>2 DEF Work, Prepare, Plain, AppendLog, PrecreateShakeLog, Launch,
       Started, WaitFails, Reap, Wait, Collect, Verdict, Validate,
       PublishManifest, PublishProvenance, FinalizeSuccess, FailureEvidence,
       FinalizeFailure, Finalize, Reconcile, Thread
  <2> QED BY <1>0, <1>2, <2>1, WorkTyped, FaultTyped
<1>3. ASSUME NEW c \in Calculations, ChildWrites(c) \/ ChildEnds(c)
      PROVE  ThreadTyped' /\ ProcessTyped' /\ UNCHANGED <<gate, app, restart>>
             /\ faults' = faults
  <2>1. CASE ChildWrites(c)
    <3>1. evidence' \in [Calculations -> Evidence]
      BY <1>0, <2>1, EvidenceTyped DEF ChildWrites, Put, ThreadTyped
    <3> QED BY <1>0, <1>p, <2>1, <3>1 DEF ChildWrites, Thread, ThreadTyped
  <2>2. CASE ChildEnds(c)
    BY <1>0, <1>t, <2>2 DEF ChildEnds, ProcessTyped, Children
  <2> QED BY <1>3, <2>1, <2>2
<1>4. CASE Close
  BY <1>0, <1>4, <1>t, <1>p DEF Close, AppTyped
<1>5. CASE CloseAndTerminate
  <2>1. AppTyped'
    BY <1>0, <1>5 DEF CloseAndTerminate, AppTyped
  <2> QED BY <1>0, <1>5, <1>t, <2>1, SignalIs DEF CloseAndTerminate
<1>6. CASE ForceKill
  <2>1. AppTyped'
    BY <1>0, <1>6 DEF ForceKill, AppTyped
  <2> QED BY <1>0, <1>6, <1>t, <2>1, SignalIs DEF ForceKill
<1>7. CASE FinalDrain
  <2>1. restart' \in BOOLEAN /\ gate' = gate /\ app' = "stopped"
    BY <1>7 DEF FinalDrain
  <2>2. AppTyped'
    BY <1>0, <2>1 DEF AppTyped
  <2> QED BY <1>0, <1>7, <1>t, <1>p, <2>2, FaultTyped DEF FinalDrain
<1>8. CASE Reopen
  <2>1. gate' \in BOOLEAN /\ restart' = restart /\ app' \in {app, "serving"}
    BY <1>8 DEF Reopen, GateOpens
  <2>2. AppTyped'
    BY <1>0, <2>1 DEF AppTyped
  <2>3. ThreadTyped'
    BY <1>0, <1>8 DEF Reopen, ThreadTyped, States
  <2>4. ProcessTyped'
    BY <1>0, <1>8 DEF Reopen, ProcessTyped, Pruned
  <2> QED BY <1>0, <1>8, <2>2, <2>3, <2>4 DEF Reopen
<1>9. CASE UNCHANGED vars
  BY <1>0, <1>9, <1>t, <1>p, <1>a DEF vars
<1> QED
  BY <1>0, <1>1, <1>2, <1>3, <1>4, <1>5, <1>6, <1>7, <1>8, <1>9, <1>a
     DEF Next, Shutdown, ReopenRefused

-----------------------------------------------------------------------------
(* A step of one calculation: what it leaves alone ...                     *)
Elsewhere(c) ==
    /\ \A d \in Calculations \ {c} :
          /\ pc'[d] = pc[d] /\ status'[d] = status[d] /\ code'[d] = code[d]
          /\ evidence'[d] = evidence[d] /\ child'[d] = child[d]
          /\ d \in tracked' <=> d \in tracked
    /\ UNCHANGED <<signalled, unreached, gate, app, restart>>

(* ... and that it does not bring a native program, or a thread, to life   *)
(* which shutdown has already looked for.                                  *)
LEMMA StepOfOne ==
  ASSUME Inv, TypeOK', NEW c \in Calculations, Elsewhere(c), ThreadOK(c)',
         child'[c] = "running" => child[c] = "running" \/ gate,
         pc[c] \in Ended => pc'[c] \in Ended \/ app = "serving"
  PROVE  Inv'
<1>1. ASSUME NEW d \in Calculations, d # c PROVE ThreadOK(d)'
  BY <1>1 DEF Inv, ThreadOK, Elsewhere, Untouched, Over, Backed
<1>2. NoneMissed'
  BY DEF Inv, ShutdownOK, NoneMissed, Elsewhere
<1>3. ShutdownOK'
  BY DEF Inv, ShutdownOK, Idle, Elsewhere
<1> QED BY <1>1, <1>2, <1>3 DEF Inv
LEMMA WorkOfOne ==
  ASSUME Inv, TypeOK', NEW c \in Calculations, Work(c)
  PROVE  Elsewhere(c) /\ pc[c] \notin Ended
<1>0. ThreadTyped /\ ProcessTyped
  BY TypeParts DEF Inv
<1> USE <1>0 DEF ThreadTyped, ProcessTyped, Elsewhere, Thread, process, Ended,
    Continue, FinishFailed, FinishFailedQuietly
<1>1. CASE Prepare(c) \/ Plain(c) \/ Started(c) \/ Wait(c) \/ Validate(c)
           \/ Verdict(c)
  BY <1>1 DEF Prepare, Plain, Started, Wait, Validate, Verdict, PlainSteps
<1>2. CASE AppendLog(c) \/ PublishManifest(c) \/ PublishProvenance(c)
           \/ PrecreateShakeLog(c)
  BY <1>2 DEF AppendLog, PublishManifest, PublishProvenance,
     PrecreateShakeLog, Writes, WriteRaises, Put, LogSteps
<1>3. CASE FailureEvidence(c)
  BY <1>3 DEF FailureEvidence, Failing, Writes, WriteRaises, Put
<1>4. CASE Launch(c) \/ WaitFails(c) \/ Reap(c) \/ Collect(c)
  BY <1>4 DEF Launch, WaitFails, Reap, Collect, Forget, Abandon
<1>5. CASE FinalizeSuccess(c) \/ FinalizeFailure(c) \/ Finalize(c)
           \/ Reconcile(c)
  BY <1>5 DEF FinalizeSuccess, FinalizeFailure, Finalize, Reconcile, SetStatus
<1> QED BY <1>1, <1>2, <1>3, <1>4, <1>5 DEF Work

(* Each step of a thread leaves its own calculation in order.              *)
LEMMA WorkOK ==
  ASSUME Inv, NEW c \in Calculations, Work(c)
  PROVE  /\ ThreadOK(c)'
         /\ child'[c] = "running" => child[c] = "running" \/ gate
<1>0. /\ ThreadTyped /\ ProcessTyped /\ ThreadOK(c)
      /\ pc[c] \in Steps /\ status[c] \in States /\ child[c] \in Children
  BY TypeParts DEF Inv, ThreadTyped, ProcessTyped
<1> USE <1>0 DEF ThreadTyped, ProcessTyped, ThreadOK, Untouched, Thread,
    process, Ended, Continue, FinishFailed, FinishFailedQuietly, Judging,
    Succeeding, Closing, Over, Backed
<1>1. CASE Prepare(c)
  BY <1>1, AfterIs DEF Prepare
<1>2. CASE Plain(c)
  BY <1>2, AfterIs DEF Plain, PlainSteps
<1>3. CASE Started(c) \/ Wait(c) \/ Validate(c)
  BY <1>3, AfterIs DEF Started, Wait, Validate
<1>4. CASE Verdict(c)
  BY <1>4, AfterIs DEF Verdict, Children
<1>5. ASSUME pc[c] \in Judging \cup Succeeding \cup LogSteps \cup {"shake_log"}
      PROVE  status[c] # "SUCCESS" /\ code[c] \notin {"native_signal", "native_exit"}
             /\ status[c] # "QUEUED"
  BY <1>5 DEF LogSteps
<1>6. CASE AppendLog(c)
  <2>1. /\ UNCHANGED <<child, tracked, signalled, status>>
        /\ \/ pc'[c] = After(pc[c]) /\ UNCHANGED code
           \/ pc'[c] = "fail_manifest" /\ code'[c] = "other"
        /\ pc[c] \in LogSteps
    BY <1>6 DEF AppendLog
  <2> HIDE DEF Backed
  <2> QED BY <1>5, <2>1, AfterIs DEF LogSteps
<1>7. CASE PublishManifest(c) \/ PublishProvenance(c)
  <2>1. /\ UNCHANGED <<child, tracked, signalled, status>>
        /\ \/ pc'[c] = After(pc[c]) /\ UNCHANGED code
           \/ pc'[c] = "fail_log" /\ code'[c] = "other"
        /\ pc[c] \in {"manifest", "provenance"}
    BY <1>7 DEF PublishManifest, PublishProvenance
  <2> HIDE DEF Backed
  <2> QED BY <1>5, <2>1, AfterIs
<1>8. CASE PrecreateShakeLog(c)
  <2>1. /\ UNCHANGED <<child, tracked, signalled, status>>
        /\ \/ pc'[c] = After(pc[c]) /\ UNCHANGED code
           \/ pc'[c] = "fail_log" /\ code'[c] = "other"
        /\ pc[c] = "shake_log"
    BY <1>8 DEF PrecreateShakeLog
  <2> HIDE DEF Backed
  <2> QED BY <1>5, <2>1, AfterIs
<1>9. CASE FailureEvidence(c)
  <2>1. /\ UNCHANGED <<child, tracked, signalled, status, code>>
        /\ pc'[c] = After(pc[c])
        /\ pc[c] \in {"fail_log", "fail_manifest", "fail_provenance"}
    BY <1>9 DEF FailureEvidence, Failing
  <2>2. status[c] = "SUCCESS" => evidence' = evidence
    BY <1>9 DEF FailureEvidence, Writes, WriteRaises, MatchingCurrent
  <2> QED BY <2>1, <2>2, AfterIs
<1>10. CASE Launch(c)
  BY <1>10, AfterIs DEF Launch
<1>11. CASE WaitFails(c) \/ Reap(c) \/ Collect(c)
  BY <1>11, AfterIs DEF WaitFails, Reap, Collect, Forget, Abandon, Children
<1>12. CASE FinalizeSuccess(c)
  BY <1>12, AfterIs DEF FinalizeSuccess, SetStatus, MatchingCurrent
<1>13. CASE FinalizeFailure(c)
  BY <1>13, AfterIs DEF FinalizeFailure, SetStatus, MatchingCurrent
<1>14. CASE Finalize(c)
  BY <1>14 DEF Finalize
<1>15. CASE Reconcile(c)
  BY <1>15 DEF Reconcile, SetStatus
<1> QED
  BY <1>1, <1>2, <1>3, <1>4, <1>6, <1>7, <1>8, <1>9, <1>10, <1>11, <1>12,
     <1>13, <1>14, <1>15 DEF Work

LEMMA WorkStep ==
  ASSUME Inv, TypeOK', NEW c \in Calculations, Work(c)
  PROVE  Inv'
BY WorkOfOne, WorkOK, StepOfOne

(* A calculation begins, and its native program writes and ends.           *)
LEMMA OtherStep ==
  ASSUME Inv, TypeOK', NEW c \in Calculations,
         Begin(c) \/ ChildWrites(c) \/ ChildEnds(c)
  PROVE  Inv'
<1>0. /\ ThreadTyped /\ ProcessTyped /\ ThreadOK(c)
  BY TypeParts DEF Inv
<1> USE <1>0 DEF ThreadTyped, ProcessTyped, Thread, process, thread
<1>1. Elsewhere(c)
  BY DEF Begin, ChildWrites, ChildEnds, Put, Elsewhere
<1>2. CASE Begin(c)
  <2>1. ThreadOK(c)'
    BY <1>2 DEF Begin, ThreadOK, Untouched, Over, Judging, Succeeding, Closing,
       Ended
  <2> QED BY <1>1, <1>2, <2>1, StepOfOne DEF Begin
<1>3. CASE ChildWrites(c)
  <2>1. ThreadOK(c)'
    BY <1>3 DEF ChildWrites, ThreadOK, Untouched, Over
  <2> QED BY <1>1, <1>3, <2>1, StepOfOne DEF ChildWrites
<1>4. CASE ChildEnds(c)
  <2>1. ThreadOK(c)'
    BY <1>4 DEF ChildEnds, ThreadOK, Untouched, Over, Backed
  <2> QED BY <1>1, <1>4, <2>1, StepOfOne DEF ChildEnds
<1> QED BY <1>2, <1>3, <1>4
-----------------------------------------------------------------------------
(* Shutdown and the next life.                                             *)

(* Signalling never touches the native program of a calculation whose      *)
(* result is collected.                                                    *)
LEMMA SignalKeepsThreads ==
  ASSUME Inv, NEW effect \in {"running", "killed"}, Signal(effect),
         UNCHANGED thread, NEW c \in Calculations
  PROVE  ThreadOK(c)'
<1>0. ThreadOK(c) /\ ProcessTyped /\ faults \in 0..MaxFaults
  BY TypeParts DEF Inv
<1>1. /\ tracked' \subseteq tracked
      /\ \A d \in tracked : ~Over(d) => d \in tracked'
      /\ signalled' \subseteq signalled \cup tracked
      /\ \/ child'[c] = child[c]
         \/ c \in tracked /\ ~Over(c) /\ child'[c] = effect
  BY <1>0, SignalIs
<1>2. Untouched(c) => Untouched(c)'
  BY <1>1 DEF Untouched
<1>3. child'[c] \in {"running", "killed"} => c \in tracked'
  BY <1>0, <1>1 DEF ThreadOK, Over
<1>4. Over(c) \/ c \notin tracked => child'[c] = child[c]
  BY <1>1
<1> QED BY <1>0, <1>1, <1>2, <1>3, <1>4
           DEF ThreadOK, thread, Over, Untouched, Backed

LEMMA TerminateStep == ASSUME Inv, TypeOK', CloseAndTerminate PROVE Inv'
<1>1. \A c \in Calculations : ThreadOK(c)'
  BY SignalKeepsThreads DEF CloseAndTerminate
<1>2. ShutdownOK' /\ NoneMissed'
  BY DEF CloseAndTerminate, ShutdownOK, NoneMissed
<1> QED BY <1>1, <1>2 DEF Inv

LEMMA KillStep == ASSUME Inv, TypeOK', ForceKill PROVE Inv'
<1>1. \A c \in Calculations : ThreadOK(c)'
  BY SignalKeepsThreads DEF ForceKill
<1>2. ShutdownOK'
  BY DEF ForceKill, ShutdownOK, Inv
<1>3. NoneMissed'
  <2>1. ProcessTyped /\ faults \in 0..MaxFaults
    BY TypeParts DEF Inv
  <2>2. ASSUME NEW c \in Calculations, child'[c] = "running"
        PROVE  c \in unreached'
    <3>1. child[c] = "running"
      BY <2>1, <2>2, SignalIs DEF ForceKill
    <3>2. c \in tracked /\ ~Over(c)
      BY <3>1 DEF Inv, ThreadOK, Over
    <3> QED BY <2>1, <2>2, <3>2, SignalIs DEF ForceKill
  <2> QED BY <2>2 DEF NoneMissed
<1> QED BY <1>1, <1>2, <1>3 DEF Inv

(* A step that leaves the threads and their processes alone.               *)
LEMMA ThreadsStay ==
  ASSUME Inv, UNCHANGED <<thread, process>>
  PROVE  \A c \in Calculations : ThreadOK(c)'
BY DEF Inv, ThreadOK, thread, process, Over, Untouched, Backed

LEMMA CloseStep == ASSUME Inv, TypeOK', Close \/ FinalDrain PROVE Inv'
<1>1. \A c \in Calculations : ThreadOK(c)'
  BY ThreadsStay DEF Close, FinalDrain
<1>2. NoneMissed'
  BY DEF Inv, Close, FinalDrain, NoneMissed, process
<1>3. FinalDrain => (restart' \/ Idle)
  BY Zenon DEF FinalDrain
<1>4. ShutdownOK'
  BY <1>3 DEF Inv, Close, FinalDrain, ShutdownOK, Idle, thread
<1> QED BY <1>1, <1>2, <1>4 DEF Inv

(* The next life begins when every thread has ended and every native       *)
(* program is over.                                                        *)
LEMMA SecondLife ==
  ASSUME Inv, Reopen
  PROVE  /\ Idle /\ \A c \in Calculations : status[c] # "RUNNING"
         /\ GateOpens => \A c \in Calculations :
                            child[c] \notin {"running", "killed"}
<1>1. Idle
  BY DEF Inv, ShutdownOK, Reopen
<1>2. \A c \in Calculations : status[c] # "RUNNING"
  BY <1>1 DEF Inv, ThreadOK, Idle
<1>3. ASSUME GateOpens, NEW c \in Calculations
      PROVE  child[c] \notin {"running", "killed"}
  BY <1>3 DEF Inv, ThreadOK, GateOpens, Pruned, Over
<1> QED BY <1>1, <1>2, <1>3

LEMMA ReopenStep == ASSUME Inv, TypeOK', Reopen PROVE Inv'
<1>1. /\ Idle /\ \A c \in Calculations : status[c] # "RUNNING"
      /\ ThreadTyped /\ ProcessTyped
  BY SecondLife, TypeParts DEF Inv
<1>2. status' = status
  BY <1>1 DEF Reopen, ThreadTyped
<1>3. /\ tracked' \subseteq tracked /\ UNCHANGED <<pc, evidence, code, child,
                                                   signalled, unreached>>
      /\ \A c \in tracked : ~Over(c) => c \in tracked'
  BY DEF Reopen, Pruned
<1>4. \A c \in Calculations : ThreadOK(c)'
  BY <1>2, <1>3 DEF Inv, ThreadOK, Over, Untouched, Backed
<1>5. NoneMissed'
  BY <1>3 DEF Inv, NoneMissed, Reopen
<1>6. ShutdownOK'
  BY <1>1, <1>3 DEF ShutdownOK, Reopen, Idle
<1> QED BY <1>4, <1>5, <1>6 DEF Inv

-----------------------------------------------------------------------------
LEMMA InvInit == Init => Inv
<1> SUFFICES ASSUME Init PROVE Inv
  OBVIOUS
<1>1. ThreadTyped
  <2>1. NoEvidence \in Evidence
    BY DEF NoEvidence, Evidence
  <2> QED BY <2>1 DEF Init, ThreadTyped, Steps, Closing, States, Codes
<1>2. ProcessTyped /\ faults \in 0..MaxFaults
  BY MaxFaultsNatural DEF Init, ProcessTyped, Children
<1>3. AppTyped
  BY DEF Init, AppTyped
<1>4. TypeOK
  BY <1>1, <1>2, <1>3, TypeParts
<1>5. ShutdownOK /\ NoneMissed
  BY DEF Init, ShutdownOK, NoneMissed
<1>6. \A c \in Calculations : ThreadOK(c)
  BY DEF Init, ThreadOK, Judging, Succeeding, Ended, Over
<1> QED BY <1>4, <1>5, <1>6 DEF Inv

LEMMA InvStep == Inv /\ [Next]_vars => Inv'
<1> SUFFICES ASSUME Inv, [Next]_vars PROVE Inv'
  OBVIOUS
<1>t. TypeOK'
  BY TypeStep DEF Inv
<1>1. ASSUME NEW c \in Calculations,
             Begin(c) \/ Work(c) \/ ChildWrites(c) \/ ChildEnds(c)
      PROVE  Inv'
  BY <1>1, <1>t, WorkStep, OtherStep
<1>2. CASE Shutdown
  BY <1>2, <1>t, CloseStep, TerminateStep, KillStep DEF Shutdown
<1>3. CASE Reopen
  BY <1>3, <1>t, ReopenStep
<1>4. CASE UNCHANGED vars
  <2>1. \A c \in Calculations : ThreadOK(c)'
    BY <1>4, ThreadsStay DEF vars
  <2>2. ShutdownOK' /\ NoneMissed'
    BY <1>4 DEF vars, thread, process, Inv, ShutdownOK, NoneMissed, Idle
  <2> QED BY <1>t, <2>1, <2>2 DEF Inv
<1> QED BY <1>1, <1>2, <1>3, <1>4 DEF Next, ReopenRefused

LEMMA AlwaysInv == Spec => []Inv
BY InvInit, InvStep, PTL DEF Spec

(* Every variable of the execution always has its type.                    *)
THEOREM ExecutionTyped == Spec => []TypeOK
<1>1. Inv => TypeOK
  BY DEF Inv
<1> QED BY <1>1, AlwaysInv, PTL

(* A calculation that is SUCCESS has its manifest, its provenance and both *)
(* logs, its native program ended well and was never signalled.            *)
THEOREM SuccessAlwaysBacked == Spec => []SuccessIsBacked
<1>1. Inv => SuccessIsBacked
  BY DEF Inv, ThreadOK, Untouched, SuccessIsBacked
<1> QED BY <1>1, AlwaysInv, PTL

(* A native program that may still run is registered.                      *)
THEOREM ChildrenAlwaysAccounted == Spec => []ChildrenAccounted
<1>1. Inv => ChildrenAccounted
  BY DEF Inv, ThreadOK, ChildrenAccounted
<1> QED BY <1>1, AlwaysInv, PTL

(* After the forced kill only native programs run that could not be        *)
(* signalled: none is launched behind the back of shutdown.                *)
THEOREM NoneEverMissed == Spec => []NoneMissed
<1>1. Inv => NoneMissed
  BY DEF Inv
<1> QED BY <1>1, AlwaysInv, PTL

(* A native program the service has ended is never blamed for it.          *)
THEOREM BlameAlwaysRight == Spec => []BlameIsRight
<1>1. Inv => BlameIsRight
  BY DEF Inv, ThreadOK, Untouched, BlameIsRight
<1> QED BY <1>1, AlwaysInv, PTL

(* The application lives again in its process only when the threads and    *)
(* the native programs of its last life have ended.                        *)
THEOREM SecondLifeAlwaysAlone == Spec => SecondLifeIsAlone
<1>1. ASSUME Inv, [Next]_vars, app = "stopped", app' = "serving"
      PROVE  /\ Idle
             /\ \A c \in Calculations :
                   child[c] \notin {"running", "killed"} /\ status[c] # "RUNNING"
  <2>1. \A c \in Calculations : Work(c) => app' = app
    BY <1>1, WorkOfOne, TypeStep DEF Elsewhere, Inv
  <2>2. Reopen /\ GateOpens
    BY <1>1, <2>1 DEF Next, Begin, ChildWrites, ChildEnds, Thread, Shutdown,
       Close, CloseAndTerminate, ForceKill, FinalDrain, ReopenRefused, Reopen,
       vars
  <2> QED BY <1>1, <2>2, SecondLife
<1>2. Inv /\ [Next]_vars =>
        [app = "stopped" /\ app' = "serving" =>
          /\ Idle
          /\ \A c \in Calculations :
                child[c] \notin {"running", "killed"} /\ status[c] # "RUNNING"]_vars
  BY <1>1
<1> QED BY <1>2, AlwaysInv, PTL DEF Spec, SecondLifeIsAlone
=============================================================================
