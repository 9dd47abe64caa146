----------------------------- MODULE Readiness -----------------------------
(***************************************************************************)
(* Who may admit work (readiness.py, finalization.py, the admission task   *)
(* of main.py) and the scripts that decide it: finalize-shakemap.sh, which *)
(* verifies an image in an isolated container before it records readiness, *)
(* start-shakemap-docker.sh and verify-shakemap-deployment.sh.             *)
(*                                                                         *)
(* Whatever the code does under the coordination lock is one step here     *)
(* (Submission and Scheduler have the steps inside), with the outcomes a   *)
(* failure in its middle leaves.  survivors are the images of the disk a   *)
(* power failure may leave.  Docker and the operator, who builds images    *)
(* and starts and stops the container at any time, are the environment.    *)
(***************************************************************************)
EXTENDS Naturals, FiniteSets

CONSTANTS Images,
          Release,      \* the ShakeMap release (and commit) of an image
          Clients,      \* the requests callers of the published port send
          MaxAttempts,  \* bound on the finalizations that pass the gate
          MaxFaults     \* bound on failures, kills, stops and builds

ASSUME ReleaseTotal == DOMAIN Release = Images
ASSUME BoundsNatural == MaxAttempts \in Nat /\ MaxFaults \in Nat

VARIABLES
    disk, survivors,    \* readiness.json and the bootstrap marker
    latest,             \* the image the tag shakemap-docker:latest names
    container,          \* the canonical container: mode, image, environment
    service,            \* the process in it, with _provisional_ready
    work,               \* the calculations (durable)
    finalizer, starter, verifier,
    attempt,            \* finalizations that passed the gate (for markers)
    grants,             \* (for the properties) lives granted by each marker
    certified,          \* ... <<image, claimed id>> of successful verifications
    revoked,            \* ... a failure was recorded, and no begin since
    refused,            \* ... the gate refused work that is unfinished
    overtaken,          \* ... a start was under way when the marker was armed
    faults

scripts == <<finalizer, starter, verifier>>
history == <<attempt, grants, certified, revoked, refused, overtaken>>
vars == <<disk, survivors, latest, container, service, work, scripts, history,
          faults>>

None     == "none"
ASSUME NoImageIsNone == None \notin Images

Verification == "verification"
Requests == Clients \cup {Verification}
Releases == {Release[i] : i \in Images}

Absent == [mode |-> "absent", image |-> None, claims |-> None]
Down   == [phase |-> "down", provisional |-> FALSE]
Booted == [phase |-> "starting", provisional |-> FALSE]
NoMarker == [image |-> None, serial |-> 0]
NoIdentity == [id |-> None, release |-> None]
Recorded(state) == [state |-> state, identity |-> NoIdentity]

Up == service.phase # "down"
Unfinished == {r \in Requests : work[r] \in {"queued", "running"}}

(* An entry is removed; a temporary file is written, synced and renamed,   *)
(* which leaves two images; ... and the directory is synced as well.  The  *)
(* file system is ordered: a sync makes all that was done before durable.  *)
Unlink(d)  == disk' = d /\ survivors' = survivors \cup {d}
Replace(d) == disk' = d /\ survivors' = {disk, d}
Publish(d) == disk' = d /\ survivors' = {d}
Still == UNCHANGED <<disk, survivors>>

MayFail == faults < MaxFaults /\ faults' = faults + 1
NoFault == UNCHANGED faults

-----------------------------------------------------------------------------
(* readiness.py.                                                           *)

(* _current_identity: the id is what the environment says, the release is  *)
(* what the image says.                                                    *)
CurrentIdentity(c) == [id |-> c.claims, release |-> Release[c.image]]

(* read_readiness in the process of the service.                           *)
Ready == /\ service.phase = "serving"
         /\ \/ service.provisional /\ disk.record.state = "finalizing"
            \/ /\ disk.record.state = "ready"
               /\ disk.record.identity = CurrentIdentity(container)

(* ... and it can be reached from outside.                                 *)
Published_Ready == container.mode = "published" /\ Ready

(* Variant: the flag is left as it is.                                     *)
AfterReadKeeping == service

(* ... which takes the grant back when the record says anything else.      *)
AfterRead == [service EXCEPT !.provisional =
                 @ /\ disk.record.state \in {"finalizing", None}]

-----------------------------------------------------------------------------
(* finalization.py, in a process of its own, under the coordination lock.  *)

(* Variant: work that is already running does not count.                   *)
BeginAfterQueue ==
    \A r \in Requests : work[r] # "queued"

(* begin goes on only when _unfinished_work finds nothing.                 *)
BeginAllowed == Unfinished = {}

MarkFinalizing == [disk EXCEPT !.record = Recorded("finalizing")]

(* arm_bootstrap_marker *)
ArmAllowed == disk.record.state = "finalizing" /\ disk.marker = NoMarker
Armed(image) == [disk EXCEPT !.marker = [image |-> image, serial |-> attempt]]

(* Variant: the record is not looked at again.                             *)
ReadyAlwaysAllowed == disk.record.state # None

(* record_ready *)
ReadyAllowed == disk.record.state = "finalizing"

(* Variant: the record does not say for what.                              *)
MarkReadyBare == [disk EXCEPT !.record = Recorded("ready")]

MarkReady == [disk EXCEPT !.record = [state |-> "ready",
                                      identity |-> CurrentIdentity(container)]]

Unmarked == [disk EXCEPT !.marker = NoMarker]
MarkNotReady == [Unmarked EXCEPT !.record = Recorded("not_ready")]

(* record_failure, and what a failing one leaves.                          *)
RecordFailure ==
    \/ Publish(MarkNotReady) /\ revoked' = TRUE /\ NoFault
    \/ /\ MayFail /\ UNCHANGED revoked
       /\ \/ Still
          \/ Unlink(Unmarked)
          \/ disk' = MarkNotReady /\ survivors' = {Unmarked, MarkNotReady}

-----------------------------------------------------------------------------
(* The service (main.py).                                                  *)

(* Variant: the marker stays where it is.                                  *)
ConsumeKeeping ==
    /\ service.phase = "starting"
    /\ service' = [phase |-> "serving",
                   provisional |-> disk.marker.image = container.claims
                                   /\ disk.record.state = "finalizing"]
    /\ Still /\ NoFault
    /\ UNCHANGED <<latest, container, work, scripts, history>>

Granted ==
    /\ disk.record.state = "finalizing"
    /\ disk.marker.image = container.claims

CountGrant == grants' = IF Granted
                        THEN [grants EXCEPT ![disk.marker.serial] = @ + 1]
                        ELSE grants

(* Variant: the removal of the marker is not synced.                       *)
ConsumeUnsynced ==
    /\ service.phase = "starting" /\ disk.marker # NoMarker
    /\ Unlink(Unmarked) /\ CountGrant
    /\ service' = [phase |-> "serving", provisional |-> Granted]
    /\ NoFault
    /\ UNCHANGED <<latest, container, work, scripts, attempt, certified,
                   revoked, refused, overtaken>>

(* consume_bootstrap_marker in lifespan: the marker is gone for good before *)
(* it is read.  When that fails the application does not start.            *)
Consume ==
    /\ service.phase = "starting" /\ disk.marker # NoMarker
    /\ \/ /\ Publish(Unmarked) /\ CountGrant /\ NoFault
          /\ service' = [phase |-> "serving", provisional |-> Granted]
       \/ /\ Still \/ Unlink(Unmarked)
          /\ service' = Down /\ MayFail /\ UNCHANGED grants
    /\ UNCHANGED <<latest, container, work, scripts, attempt, certified,
                   revoked, refused, overtaken>>

ServeWithoutMarker ==
    /\ service.phase = "starting" /\ disk.marker = NoMarker
    /\ service' = [phase |-> "serving", provisional |-> FALSE]
    /\ Still /\ NoFault
    /\ UNCHANGED <<latest, container, work, scripts, history>>

(* _admit_ready_work: the scheduler's tick admits work only when the       *)
(* service is ready, in the same step.                                     *)
Admit(r) ==
    /\ Ready /\ service' = AfterRead
    /\ work[r] = "queued" /\ work' = [work EXCEPT ![r] = "running"]
    /\ Still /\ NoFault /\ UNCHANGED <<latest, container, scripts, history>>

(* A tick that admits nothing, or a health request.                        *)
ReadReadiness ==
    /\ service.phase = "serving" /\ service' = AfterRead
    /\ Still /\ NoFault
    /\ UNCHANGED <<latest, container, work, scripts, history>>

Finish(r) ==
    /\ service.phase = "serving" /\ work[r] = "running"
    /\ \E result \in {"success", "failed"} : work' = [work EXCEPT ![r] = result]
    /\ Still /\ NoFault
    /\ UNCHANGED <<latest, container, service, scripts, history>>

(* accept_ready_request, for a caller of the published port.               *)
Accept(r) == /\ Ready /\ r \notin Unfinished
             /\ work' = [work EXCEPT ![r] = "queued"] /\ service' = AfterRead

Submit(r) == /\ container.mode = "published" /\ work[r] = None /\ Accept(r)
             /\ Still /\ NoFault
             /\ UNCHANGED <<latest, container, scripts, history>>

(* The process starts: startup recovery ends what its predecessor left.    *)
Recovered == [r \in Requests |-> IF work[r] = "running" THEN "failed" ELSE work[r]]
Boot == service' = Booted /\ work' = Recovered

(* docker stop: calculations have ended or are left for the next start.    *)
Halt == /\ service' = Down
        /\ work' = work \/ work' = Recovered

-----------------------------------------------------------------------------
(* finalize-shakemap.sh.  A step that fails, or a signal, leads to         *)
(* fail_closed once the gate is passed.                                    *)

At(step) == finalizer.pc = step
Go(step) == finalizer' = [finalizer EXCEPT !.pc = step]
Rest     == UNCHANGED <<latest, starter, verifier>>
NoHistory == UNCHANGED history

(* Only one finalization runs (acquire_finalization_lock).  It looks up    *)
(* the image once, and which container it owns.                            *)
FLoad ==
    /\ At("idle") /\ attempt < MaxAttempts
    /\ finalizer' = [pc |-> "gate", image |-> latest,
                     owned |-> container.mode # "absent"]
    /\ Still /\ NoFault /\ Rest /\ NoHistory /\ UNCHANGED <<container, service, work>>

FGate ==
    /\ At("gate")
    /\ \/ /\ BeginAllowed /\ Publish(MarkFinalizing) /\ Go("stop") /\ NoFault
          /\ attempt' = attempt + 1 /\ revoked' = FALSE /\ refused' = FALSE
       \/ /\ ~BeginAllowed /\ Still /\ Go("idle") /\ NoFault
          /\ refused' = TRUE /\ UNCHANGED <<attempt, revoked>>
       \/ /\ Still \/ (BeginAllowed /\ Replace(MarkFinalizing))
          /\ Go("idle") /\ MayFail /\ UNCHANGED <<attempt, revoked, refused>>
    /\ Rest /\ UNCHANGED <<container, service, work, grants, certified,
                           overtaken>>

(* The container is stopped before its data are replaced, and again before *)
(* the published one takes its place.                                      *)
FStop(from, to) ==
    /\ At(from) /\ Go(to) /\ Still /\ NoFault /\ NoHistory /\ Rest
    /\ UNCHANGED container
    /\ IF finalizer.owned /\ Up THEN Halt ELSE UNCHANGED <<service, work>>

(* prepare-runtime and activate-data, and the probe of write access in a   *)
(* container that never runs the service.                                  *)
FActivate ==
    /\ At("activate") /\ Go("remove")
    /\ Still /\ NoFault /\ NoHistory /\ Rest
    /\ UNCHANGED <<container, service, work>>

(* docker rm refuses a container that runs.                                *)
FRemove(from, to) ==
    /\ At(from)
    /\ \/ /\ finalizer.owned /\ ~Up /\ container' = Absent
          /\ finalizer' = [finalizer EXCEPT !.pc = to, !.owned = FALSE]
       \/ finalizer.owned /\ Up /\ Go("fail") /\ UNCHANGED container
       \/ ~finalizer.owned /\ Go(to) /\ UNCHANGED container
    /\ Still /\ NoFault /\ NoHistory /\ Rest /\ UNCHANGED <<service, work>>

(* container_command: the image is the tag, the environment has the id     *)
(* that was looked up.                                                     *)
Created(mode, claims) == [mode |-> mode, image |-> latest, claims |-> claims]

(* docker create and docker run refuse a name that is taken.               *)
FCreate ==
    /\ At("create")
    /\ \/ /\ container.mode = "absent"
          /\ container' = Created("isolated", finalizer.image)
          /\ finalizer' = [finalizer EXCEPT !.pc = "arm", !.owned = TRUE]
       \/ container.mode # "absent" /\ Go("fail") /\ UNCHANGED container
    /\ Still /\ NoFault /\ NoHistory /\ Rest /\ UNCHANGED <<service, work>>

FArm ==
    /\ At("arm")
    /\ \/ ArmAllowed /\ Publish(Armed(finalizer.image)) /\ Go("start") /\ NoFault
       \/ ~ArmAllowed /\ Still /\ Go("fail") /\ NoFault
       \/ ArmAllowed /\ Replace(Armed(finalizer.image)) /\ Go("fail") /\ MayFail
    /\ overtaken' = (starter.pc = "start")
    /\ Rest /\ UNCHANGED <<container, service, work, attempt, grants, certified,
                           revoked, refused>>

FStart ==
    /\ At("start")
    /\ \/ container.mode = "absent" /\ Go("fail") /\ UNCHANGED <<service, work>>
       \/ /\ container.mode # "absent" /\ Go("healthy")
          /\ IF Up THEN UNCHANGED <<service, work>> ELSE Boot
    /\ Still /\ NoFault /\ NoHistory /\ Rest /\ UNCHANGED container

(* wait_for_container_health: the health route answers, or time runs out.  *)
FHealth(from, expected, to) ==
    /\ At(from) /\ service' = AfterRead
    /\ Go(IF service.phase = "serving" /\ Ready = expected THEN to ELSE "fail")
    /\ Still /\ NoFault /\ NoHistory /\ Rest /\ UNCHANGED <<container, work>>

FSubmit ==
    /\ At("submit")
    /\ \/ Accept(Verification) /\ Go("await")
       \/ ~Ready /\ Go("fail") /\ UNCHANGED <<service, work>>
    /\ Still /\ NoFault /\ NoHistory /\ Rest /\ UNCHANGED container

(* Variant: the script has no deadline and expects the service to answer.  *)
FAwaitPatient ==
    /\ At("await") /\ Up
    /\ \/ work[Verification] = "success" /\ Go("stop_again")
       \/ work[Verification] = "failed" /\ Go("fail")
    /\ certified' = certified \cup {<<container.image, container.claims>>}
    /\ Still /\ NoFault /\ Rest
    /\ UNCHANGED <<container, service, work, attempt, grants, revoked, refused,
                   overtaken>>

(* The fixed calculation must end with SUCCESS.  A service that has gone    *)
(* no longer answers.                                                      *)
FAwait ==
    /\ At("await")
    /\ \/ /\ Up /\ work[Verification] = "success" /\ Go("stop_again")
          /\ certified' = certified \cup {<<container.image, container.claims>>}
       \/ /\ ~Up \/ work[Verification] = "failed"
          /\ Go("fail") /\ UNCHANGED certified
    /\ Still /\ NoFault /\ Rest
    /\ UNCHANGED <<container, service, work, attempt, grants, revoked, refused,
                   overtaken>>

FRun ==
    /\ At("run")
    /\ \/ /\ container.mode = "absent"
          /\ container' = Created("published", finalizer.image)
          /\ finalizer' = [finalizer EXCEPT !.pc = "parity", !.owned = TRUE]
          /\ Boot
       \/ /\ container.mode # "absent" /\ Go("fail")
          /\ UNCHANGED <<container, service, work>>
    /\ Still /\ NoFault /\ NoHistory /\ Rest

(* record_ready, in the published container.                               *)
FPublish ==
    /\ At("publish")
    /\ \/ Up /\ ReadyAllowed /\ Publish(MarkReady) /\ Go("confirm") /\ NoFault
       \/ ~(Up /\ ReadyAllowed) /\ Still /\ Go("fail") /\ NoFault
       \/ Up /\ ReadyAllowed /\ Replace(MarkReady) /\ Go("fail") /\ MayFail
    /\ Rest /\ NoHistory /\ UNCHANGED <<container, service, work>>

(* A step fails, a wait runs out of time, or a signal arrives.             *)
FStepFails ==
    /\ finalizer.pc \notin {"idle", "gate", "fail", "fail_stop"}
    /\ Go("fail") /\ MayFail
    /\ Still /\ NoHistory /\ Rest /\ UNCHANGED <<container, service, work>>

(* fail_closed: the failure is recorded, if it can be, and the container   *)
(* the script owns is stopped.                                             *)
FFail ==
    /\ At("fail") /\ RecordFailure /\ Go("fail_stop")
    /\ Rest /\ UNCHANGED <<container, service, work, attempt, grants, certified,
                           refused, overtaken>>
FFailStop ==
    /\ At("fail_stop") /\ Go("idle") /\ Still /\ NoFault /\ NoHistory /\ Rest
    /\ UNCHANGED container
    /\ IF finalizer.owned /\ Up THEN Halt ELSE UNCHANGED <<service, work>>

Finalize ==
    \/ FLoad \/ FGate \/ FStop("stop", "activate") \/ FActivate
    \/ FRemove("remove", "create") \/ FCreate \/ FArm \/ FStart
    \/ FHealth("healthy", TRUE, "submit") \/ FSubmit \/ FAwait
    \/ FStop("stop_again", "remove_again") \/ FRemove("remove_again", "run")
    \/ FRun \/ FHealth("parity", FALSE, "publish") \/ FPublish
    \/ FHealth("confirm", TRUE, "idle") \/ FStepFails \/ FFail \/ FFailStop

-----------------------------------------------------------------------------
(* start-shakemap-docker.sh: the record is checked against the image, then *)
(* the container is started or made.                                       *)

SCheck ==
    /\ starter.pc = "idle"
    /\ disk.record.state = "ready"
    /\ disk.record.identity = [id |-> latest, release |-> Release[latest]]
    /\ starter' = [pc |-> "start", image |-> latest]
    /\ Still /\ NoFault /\ NoHistory
    /\ UNCHANGED <<latest, container, service, work, finalizer, verifier>>

Published(image) == [mode |-> "published", image |-> image, claims |-> image]

SStart ==
    /\ starter.pc = "start" /\ starter' = [starter EXCEPT !.pc = "idle"]
    /\ \/ /\ container = Published(starter.image) /\ UNCHANGED container
          /\ IF Up THEN UNCHANGED <<service, work>> ELSE Boot
       \/ /\ container.mode = "absent"
          /\ container' = Created("published", starter.image) /\ Boot
       \/ /\ container \notin {Absent, Published(starter.image)}
          /\ UNCHANGED <<container, service, work>>
    /\ Still /\ NoFault /\ NoHistory
    /\ UNCHANGED <<latest, finalizer, verifier>>

(* verify-shakemap-deployment.sh: a running published container of the     *)
(* image runs the fixed calculation once more, for everybody else's work   *)
(* goes on.  Its failure revokes the readiness and stops the container.    *)
(* It talks to the published port.                                         *)
VGo(step) == verifier' = step
Reachable == Up /\ container.mode = "published"
VBegin ==
    /\ verifier = "idle" /\ Up /\ container = Published(latest)
    /\ VGo("submit") /\ Still /\ NoFault /\ NoHistory
    /\ UNCHANGED <<latest, container, service, work, finalizer, starter>>
VSubmit ==
    /\ verifier = "submit"
    /\ \/ Published_Ready /\ Accept(Verification) /\ VGo("await")
       \/ ~Published_Ready /\ VGo("fail") /\ UNCHANGED <<service, work>>
    /\ Still /\ NoFault /\ NoHistory
    /\ UNCHANGED <<latest, container, finalizer, starter>>
VAwait ==
    /\ verifier = "await"
    /\ \/ Reachable /\ work[Verification] = "success" /\ VGo("idle")
       \/ (~Reachable \/ work[Verification] = "failed") /\ VGo("fail")
    /\ Still /\ NoFault /\ NoHistory
    /\ UNCHANGED <<latest, container, service, work, finalizer, starter>>
VStepFails ==
    /\ verifier \in {"submit", "await"} /\ VGo("fail") /\ MayFail
    /\ Still /\ NoHistory
    /\ UNCHANGED <<latest, container, service, work, finalizer, starter>>
VFail ==
    /\ verifier = "fail" /\ RecordFailure /\ VGo("fail_stop")
    /\ UNCHANGED <<latest, container, service, work, finalizer, starter,
                   attempt, grants, certified, refused, overtaken>>
VFailStop ==
    /\ verifier = "fail_stop" /\ VGo("idle") /\ Still /\ NoFault /\ NoHistory
    /\ IF Up THEN Halt ELSE UNCHANGED <<service, work>>
    /\ UNCHANGED <<latest, container, finalizer, starter>>

Verify == VBegin \/ VSubmit \/ VAwait \/ VStepFails \/ VFail \/ VFailStop

-----------------------------------------------------------------------------
(* The environment.                                                        *)

(* build-shakemap-docker.sh moves the tag to the image it has built.       *)
Build(image) ==
    /\ image # latest /\ latest' = image /\ MayFail /\ Still /\ NoHistory
    /\ UNCHANGED <<container, service, work, scripts>>

(* External: somebody starts the container there is, though not while a    *)
(* finalization is at work on it.                                          *)
DockerStart ==
    /\ At("idle") /\ container.mode # "absent" /\ ~Up /\ Boot /\ Still /\ NoFault /\ NoHistory
    /\ UNCHANGED <<latest, container, scripts>>

(* stop-shakemap-docker.sh, or the process dies.                           *)
Stop ==
    /\ Up /\ Halt /\ MayFail /\ Still /\ NoHistory
    /\ UNCHANGED <<latest, container, scripts>>

(* The finalizer is killed: nobody records anything.                       *)
Kill ==
    /\ ~At("idle") /\ Go("idle") /\ MayFail /\ Still /\ NoHistory /\ Rest
    /\ UNCHANGED <<container, service, work>>

PowerFailure ==
    /\ \E image \in survivors : Publish(image)
    /\ service' = Down /\ MayFail
    /\ finalizer' = [finalizer EXCEPT !.pc = "idle"]
    /\ starter' = [starter EXCEPT !.pc = "idle"] /\ verifier' = "idle"
    /\ NoHistory /\ UNCHANGED <<latest, container, work>>

-----------------------------------------------------------------------------
Serve == \/ Consume \/ ServeWithoutMarker \/ ReadReadiness
         \/ \E r \in Requests : Admit(r) \/ Finish(r)

Init ==
    /\ disk = [record |-> Recorded(None), marker |-> NoMarker]
    /\ survivors = {disk}
    /\ latest \in Images
    /\ container = Absent /\ service = Down
    /\ work = [r \in Requests |-> None]
    /\ finalizer = [pc |-> "idle", image |-> None, owned |-> FALSE]
    /\ starter = [pc |-> "idle", image |-> None] /\ verifier = "idle"
    /\ attempt = 0 /\ grants = [n \in 1..MaxAttempts |-> 0]
    /\ certified = {} /\ revoked = FALSE /\ refused = FALSE
    /\ overtaken = FALSE
    /\ faults = 0

Next ==
    \/ Serve \/ \E r \in Clients : Submit(r)
    \/ Finalize \/ SCheck \/ SStart \/ Verify
    \/ \E image \in Images : Build(image)
    \/ DockerStart \/ Stop \/ Kill \/ PowerFailure

Spec == Init /\ [][Next]_vars

(* Scripts run, the service runs, and a container that is down is started. *)
Progress == /\ ~At("idle")
            /\ Finalize
FairSpec ==
    /\ Spec
    /\ WF_vars(Progress) /\ WF_vars(SStart) /\ WF_vars(VSubmit \/ VAwait)
    /\ WF_vars(VFail) /\ WF_vars(VFailStop)
    /\ WF_vars(Consume \/ ServeWithoutMarker) /\ WF_vars(ReadReadiness)
    /\ \A r \in Requests : SF_vars(Admit(r)) /\ WF_vars(Finish(r))
    /\ WF_vars(DockerStart)

-----------------------------------------------------------------------------
Steps == {"idle", "gate", "stop", "activate", "remove", "create", "arm",
          "start", "healthy", "submit", "await", "stop_again", "remove_again",
          "run", "parity", "publish", "confirm", "fail", "fail_stop"}
Identities == [id : Images, release : Releases] \cup {NoIdentity}
Disks == [record : [state : {None, "not_ready", "finalizing", "ready"},
                    identity : Identities],
          marker : [image : Images \cup {None}, serial : 0..MaxAttempts]]

(* Type invariant; and the record of readiness has an identity exactly     *)
(* when it says ready (_validate_record).                                  *)
TypeOK ==
    /\ disk \in Disks /\ survivors \subseteq Disks /\ disk \in survivors
    /\ \A d \in survivors :
          (d.record.state = "ready") <=> (d.record.identity # NoIdentity)
    /\ latest \in Images
    /\ container \in [mode : {"isolated", "published"}, image : Images,
                      claims : Images] \cup {Absent}
    /\ service \in [phase : {"starting", "serving"}, provisional : BOOLEAN]
                  \cup {Down}
    /\ container = Absent => service = Down
    /\ work \in [Requests -> {None, "queued", "running", "success", "failed"}]
    /\ finalizer \in [pc : Steps, image : Images \cup {None}, owned : BOOLEAN]
    /\ starter \in [pc : {"idle", "start"}, image : Images \cup {None}]
    /\ verifier \in {"idle", "submit", "await", "fail", "fail_stop"}
    /\ attempt \in 0..MaxAttempts /\ grants \in [1..MaxAttempts -> Nat]
    /\ certified \subseteq (Images \X Images)
    /\ {revoked, refused, overtaken} \subseteq BOOLEAN /\ faults \in 0..MaxFaults

(* A service that is reachable from outside admits work only under an      *)
(* image id whose verification calculation has succeeded, and only on a    *)
(* durable record of readiness: the grant of the bootstrap marker never    *)
(* reaches a published container, whatever is killed or restarted.  The    *)
(* exception is a start that passed its check before the marker was armed  *)
(* and makes its container after the finalization was killed.              *)
AdmissionIsEarned ==
    Published_Ready => /\ \E c \in certified : c[2] = container.claims
                       /\ overtaken \/ disk.record.state = "ready"

(* A bootstrap marker makes at most one process ready: its removal is      *)
(* durable before the grant, so that no restart finds it again.            *)
OneLifePerMarker == \A n \in DOMAIN grants : grants[n] <= 1

(* Operator data are replaced only while no accepted calculation is        *)
(* unfinished and nothing is admitted (begin holds until the activation),  *)
(* with the same exception.                                                *)
IdleWhileDataChanges ==
    At("activate") /\ ~overtaken => Unfinished = {} /\ ~Published_Ready

(* A failure that was recorded keeps the deployment closed, after a power  *)
(* failure too, until another finalization begins: a finalization that     *)
(* another script has revoked meanwhile cannot record readiness.           *)
RevokedIsNotReady == revoked => \A d \in survivors : d.record.state # "ready"

(* A finalization ends, by itself or by its handler.                       *)
FinalizationEnds == ~At("idle") ~> At("idle")

(* A grant does not outlive the finalization it was made for: the process  *)
(* gives it up when the record changes, or is gone.                        *)
GrantEnds ==
    (service.provisional /\ disk.record.state # "finalizing")
        ~> (~service.provisional \/ disk.record.state = "finalizing")

(* "wait for them to finish": work the gate refuses to pass ends.          *)
WaitingHelps == (refused /\ Unfinished # {}) ~> (Unfinished = {})

(* "Changing the image or runtime requires finalization": what a published *)
(* container runs was verified.                                            *)
PublishedImageWasVerified ==
    Published_Ready => \E c \in certified : c[1] = container.image
=============================================================================
