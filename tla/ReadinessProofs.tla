-------------------------- MODULE ReadinessProofs --------------------------
(***************************************************************************)
(* Proofs about readiness and finalization, for every set of images and of *)
(* requests and every number of finalizations, kills, power failures,      *)
(* failing steps and builds.                                               *)
(***************************************************************************)
EXTENDS Readiness, TLAPS

(* An image id under which a verification calculation has succeeded.       *)
Certified(id) == \E c \in certified : c[2] = id

NoneReady  == \A d \in survivors : d.record.state # "ready"
NoneMarked == \A d \in survivors : d.marker = NoMarker

(* The steps of a finalization: before its marker is armed, with the       *)
(* isolated container, after the marker was used, and after the            *)
(* verification has succeeded.                                             *)
Unarmed  == {"stop", "activate", "remove", "create", "arm"}
Isolated == {"arm", "start", "healthy", "submit", "await", "stop_again",
             "remove_again"}
Used     == {"submit", "await", "stop_again", "remove_again", "run", "parity",
             "publish"}
Verified == {"stop_again", "remove_again", "run", "parity", "publish",
             "confirm"}
Closed   == Unarmed \cup Isolated \cup Used

(* Every variable has its type, and a script that is at work has looked up *)
(* its image.                                                              *)
DisksTyped == /\ survivors \subseteq Disks /\ disk \in survivors
              /\ \A d \in survivors : (d.record.state = "ready")
                                        <=> (d.record.identity # NoIdentity)
Works  == [Requests -> {None, "queued", "running", "success", "failed"}]
Phases == [phase : {"starting", "serving"}, provisional : BOOLEAN] \cup {Down}
Containers == [mode : {"isolated", "published"}, image : Images,
               claims : Images] \cup {Absent}
Finalizers == [pc : Steps, image : Images \cup {None}, owned : BOOLEAN]
Starters   == [pc : {"idle", "start"}, image : Images \cup {None}]
Verifiers  == {"idle", "submit", "await", "fail", "fail_stop"}

HistoryTyped ==
    /\ attempt \in 0..MaxAttempts /\ grants \in [1..MaxAttempts -> Nat]
    /\ certified \subseteq (Images \X Images)
    /\ revoked \in BOOLEAN /\ refused \in BOOLEAN /\ overtaken \in BOOLEAN
    /\ faults \in 0..MaxFaults

Typed ==
    /\ DisksTyped /\ HistoryTyped
    /\ latest \in Images /\ container \in Containers /\ service \in Phases
    /\ container = Absent => service = Down
    /\ work \in Works
    /\ finalizer \in Finalizers /\ starter \in Starters
    /\ verifier \in Verifiers
    /\ finalizer.pc # "idle" => finalizer.image \in Images
    /\ finalizer.pc = "gate" => attempt < MaxAttempts
    /\ starter.pc = "start" => starter.image \in Images

(* The durable record: readiness was earned, and excludes a marker.        *)
RecordsOK ==
    /\ \A d \in survivors :
         d.record.state = "ready" => Certified(d.record.identity.id)
    /\ NoneReady \/ NoneMarked

(* What published containers, and starts that make them, claim.            *)
ClaimsOK ==
    /\ container.mode = "published" => Certified(container.claims)
    /\ starter.pc = "start" => Certified(starter.image)

(* What holds at the steps of a finalization.                              *)
FinalizerOK ==
    /\ finalizer.pc \in {"arm", "start"} => service = Down
    /\ finalizer.pc \in Isolated =>
         container.mode = "isolated" /\ container.claims = finalizer.image
    /\ finalizer.pc \in {"parity", "publish", "confirm"} =>
         container.mode = "published" /\ container.claims = finalizer.image
    /\ finalizer.pc \in Verified => Certified(finalizer.image)
    /\ finalizer.pc \in Closed => NoneReady
    /\ finalizer.pc \in Used => NoneMarked

(* A marker is used once: those that are left have granted nothing.        *)
MarkersOK ==
    /\ \A n \in 1..MaxAttempts : grants[n] <= 1
    /\ \A n \in 1..MaxAttempts : n > attempt => grants[n] = 0
    /\ \A d \in survivors :
         d.marker # NoMarker =>
           d.marker.serial \in 1..attempt /\ grants[d.marker.serial] = 0
    /\ finalizer.pc \in Unarmed =>
         /\ attempt >= 1 /\ grants[attempt] = 0
         /\ \A d \in survivors : d.marker.serial # attempt

(* A grant, and a marker that may still give one, stay inside.             *)
GrantsOK ==
    /\ service.provisional => NoneMarked
    /\ ~overtaken =>
         /\ ~(service.provisional /\ container.mode = "published")
         /\ NoneMarked \/ ~(container.mode = "published" \/ starter.pc = "start")

(* From the gate to the activation no work comes in.                       *)
IdleOK == finalizer.pc \in {"stop", "activate"} /\ ~overtaken => Unfinished = {}

(* A failure another script records stops a finalization.                  *)
RevokedOK ==
    revoked => /\ NoneReady
               /\ finalizer.pc \in Closed => disk.record.state = "not_ready"

Inv == /\ Typed /\ RecordsOK /\ ClaimsOK /\ FinalizerOK /\ MarkersOK
       /\ GrantsOK /\ IdleOK /\ RevokedOK

(* For model checking Inv: the images are of one release.                  *)
OneRelease == [i \in Images |-> "v1"]
-----------------------------------------------------------------------------
USE DEF MayFail, NoFault, Still, Go, At, Rest, NoHistory, history, scripts, VGo

LEMMA NoIdentityTyped == NoIdentity \in Identities
BY DEF Identities

LEMMA WriteTyped ==
  ASSUME DisksTyped, NEW d \in Disks,
         (d.record.state = "ready") <=> (d.record.identity # NoIdentity),
         Publish(d) \/ Replace(d) \/ Unlink(d)
  PROVE  DisksTyped'
BY DEF DisksTyped, Publish, Replace, Unlink

(* What is written: a record, a marker, or the absence of one.             *)
LEMMA RecordWritten ==
  ASSUME DisksTyped, NEW s \in {"not_ready", "finalizing"}
  PROVE  LET d == [disk EXCEPT !.record = Recorded(s)] IN
         /\ d \in Disks /\ d.record = Recorded(s) /\ d.marker = disk.marker
         /\ d.record.state = s /\ d.record.identity = NoIdentity
BY NoIdentityTyped DEF DisksTyped, Disks, Recorded, None

LEMMA UnmarkedWritten ==
  ASSUME DisksTyped
  PROVE  /\ Unmarked \in Disks /\ Unmarked.record = disk.record
         /\ Unmarked.marker = NoMarker
<1>1. NoMarker \in [image : Images \cup {None}, serial : 0..MaxAttempts]
  BY BoundsNatural DEF NoMarker
<1> QED BY <1>1 DEF DisksTyped, Disks, Unmarked

LEMMA NotReadyWritten ==
  ASSUME DisksTyped
  PROVE  /\ MarkNotReady \in Disks /\ MarkNotReady.marker = NoMarker
         /\ MarkNotReady.record.state = "not_ready"
         /\ MarkNotReady.record.identity = NoIdentity
BY UnmarkedWritten, NoIdentityTyped DEF MarkNotReady, Disks, Recorded, None

LEMMA ArmedWritten ==
  ASSUME DisksTyped, NEW image \in Images, attempt \in 0..MaxAttempts
  PROVE  /\ Armed(image) \in Disks /\ Armed(image).record = disk.record
         /\ Armed(image).marker = [image |-> image, serial |-> attempt]
BY DEF DisksTyped, Disks, Armed

LEMMA ReadyWritten ==
  ASSUME DisksTyped, container \in Containers, container # Absent
  PROVE  /\ MarkReady \in Disks /\ MarkReady.marker = disk.marker
         /\ MarkReady.record.state = "ready"
         /\ MarkReady.record.identity = CurrentIdentity(container)
         /\ MarkReady.record.identity # NoIdentity
<1>1. container.claims \in Images /\ container.image \in Images
  BY DEF Containers
<1>2. /\ CurrentIdentity(container) \in Identities
      /\ CurrentIdentity(container).id \in Images
  BY <1>1 DEF CurrentIdentity, Identities, Releases
<1>3. CurrentIdentity(container) # NoIdentity
  BY <1>2, NoImageIsNone DEF NoIdentity
<1> QED BY <1>2, <1>3 DEF DisksTyped, Disks, MarkReady

(* A failure is recorded, as a whole or in part.                           *)
LEMMA FailureTyped ==
  ASSUME DisksTyped, RecordFailure
  PROVE  DisksTyped'
<1>1. DisksTyped /\ disk \in Disks
  BY DEF DisksTyped
<1>2. (Unmarked.record.state = "ready") <=> (Unmarked.record.identity # NoIdentity)
  BY UnmarkedWritten DEF DisksTyped
<1>3. CASE Still
  BY <1>3 DEF DisksTyped
<1>4. CASE Unlink(Unmarked) \/ Publish(MarkNotReady)
  BY <1>2, <1>4, WriteTyped, UnmarkedWritten, NotReadyWritten
<1>5. CASE disk' = MarkNotReady /\ survivors' = {Unmarked, MarkNotReady}
  BY <1>2, <1>5, UnmarkedWritten, NotReadyWritten DEF DisksTyped
<1> QED BY <1>3, <1>4, <1>5 DEF RecordFailure
-----------------------------------------------------------------------------
(* The process and the calculations.                                       *)

LEMMA ServiceFacts ==
  ASSUME NEW s \in Phases
  PROVE  /\ s.phase \in {"down", "starting", "serving"}
         /\ s.provisional \in BOOLEAN
         /\ (s.phase = "down") <=> (s = Down)
         /\ s = Down => ~s.provisional
<1>1. CASE s = Down
  BY <1>1 DEF Down
<1>2. CASE s \in [phase : {"starting", "serving"}, provisional : BOOLEAN]
  BY <1>2 DEF Down
<1> QED BY <1>1, <1>2 DEF Phases

LEMMA BootedFacts ==
  Booted \in Phases /\ ~Booted.provisional /\ Down \in Phases
  /\ Down.phase = "down" /\ ~Down.provisional
BY DEF Booted, Down, Phases

LEMMA AfterReadFacts ==
  ASSUME service \in Phases
  PROVE  /\ AfterRead \in Phases /\ AfterRead.phase = service.phase
         /\ AfterRead.provisional => service.provisional
         /\ service = Down => AfterRead = Down
<1>1. CASE service = Down
  <2>1. AfterRead = [phase |-> "down",
                     provisional |-> FALSE /\ disk.record.state
                                                \in {"finalizing", None}]
    BY <1>1 DEF AfterRead, Down
  <2>2. (FALSE /\ disk.record.state \in {"finalizing", None}) = FALSE
    OBVIOUS
  <2>3. AfterRead = Down
    BY <2>1, <2>2 DEF Down
  <2> QED BY <1>1, <2>3 DEF Phases
<1>2. CASE service # Down
  <2>1. service \in [phase : {"starting", "serving"}, provisional : BOOLEAN]
    BY <1>2 DEF Phases
  <2>2. AfterRead \in [phase : {"starting", "serving"}, provisional : BOOLEAN]
        /\ AfterRead.phase = service.phase
        /\ AfterRead.provisional = (service.provisional /\ disk.record.state
                                                \in {"finalizing", None})
    BY <2>1 DEF AfterRead
  <2> QED BY <1>2, <2>2 DEF Phases
<1> QED BY <1>1, <1>2

LEMMA RecoveredFacts ==
  ASSUME work \in Works, work' \in {work, Recovered}
  PROVE  work' \in Works /\ Unfinished' \subseteq Unfinished
<1>1. Recovered \in Works
  BY DEF Recovered, Works
<1>2. \A r \in Requests : work'[r] \in {"queued", "running"} => work'[r] = work[r]
  BY DEF Recovered
<1> QED BY <1>1, <1>2 DEF Unfinished

LEMMA HaltFacts ==
  ASSUME work \in Works, Halt
  PROVE  /\ service' = Down /\ work' \in Works
         /\ Unfinished' \subseteq Unfinished
BY RecoveredFacts DEF Halt

LEMMA BootFacts ==
  ASSUME work \in Works, Boot
  PROVE  /\ service' = Booted /\ work' \in Works
         /\ Unfinished' \subseteq Unfinished
BY RecoveredFacts DEF Boot

LEMMA AcceptFacts ==
  ASSUME Typed, NEW r \in Requests, Accept(r)
  PROVE  /\ Ready /\ service' = AfterRead /\ work' \in Works
         /\ service # Down /\ container # Absent
<1>1. service # Down
  BY DEF Accept, Ready, Down
<1> QED BY <1>1 DEF Accept, Works, Typed

(* While a finalization keeps the record closed, only a grant makes the    *)
(* service ready, and only one that was overtaken from outside.            *)
LEMMA ReadyWhileClosed ==
  ASSUME Inv, finalizer.pc \in Closed, Ready
  PROVE  /\ service.provisional /\ NoneMarked
         /\ ~overtaken => container.mode # "published"
<1>1. disk.record.state # "ready"
  BY DEF Inv, FinalizerOK, NoneReady, Typed, DisksTyped
<1>2. service.provisional
  BY <1>1 DEF Ready
<1> QED BY <1>2 DEF Inv, GrantsOK
-----------------------------------------------------------------------------
(* A step that leaves the disk and the history of attempts alone.          *)
LEMMA Frame ==
  ASSUME Inv, Typed', ClaimsOK', FinalizerOK', GrantsOK', IdleOK',
         UNCHANGED <<disk, survivors, attempt, grants, revoked>>,
         certified \subseteq certified',
         finalizer'.pc \in Unarmed => finalizer.pc \in Unarmed,
         finalizer'.pc \in Closed => finalizer.pc \in Closed
  PROVE  Inv'
<1>1. NoneReady' = NoneReady /\ NoneMarked' = NoneMarked
  BY DEF NoneReady, NoneMarked
<1>2. RecordsOK'
  BY <1>1 DEF Inv, RecordsOK, Certified
<1>3. MarkersOK'
  BY DEF Inv, MarkersOK
<1>4. RevokedOK'
  BY <1>1 DEF Inv, RevokedOK
<1> QED BY <1>2, <1>3, <1>4 DEF Inv

(* A step of the service, of the verifier or of the environment, that      *)
(* changes neither the disk nor the container.                             *)
LEMMA ServiceStep ==
  ASSUME Inv,
         UNCHANGED <<disk, survivors, container, finalizer, starter, attempt,
                     grants, certified, revoked, refused, overtaken>>,
         latest' \in Images, verifier' \in Verifiers, faults' \in 0..MaxFaults,
         service' \in Phases, work' \in Works,
         service = Down => service' = Down
                           \/ (container # Absent /\ finalizer.pc = "idle"),
         service'.provisional => service.provisional,
         Unfinished' \subseteq Unfinished \/ (Published_Ready /\ ~overtaken)
           \/ overtaken
  PROVE  Inv'
<1>1. NoneReady' = NoneReady /\ NoneMarked' = NoneMarked
  BY DEF NoneReady, NoneMarked
<1>2. Typed'
  BY DEF Inv, Typed, DisksTyped, HistoryTyped
<1>3. ClaimsOK' /\ GrantsOK'
  BY <1>1 DEF Inv, ClaimsOK, GrantsOK, Certified
<1>4. FinalizerOK'
  BY <1>1 DEF Inv, FinalizerOK, Certified
<1>5. IdleOK'
  <2>1. ASSUME Published_Ready, ~overtaken PROVE finalizer.pc \notin Closed
    BY <2>1, ReadyWhileClosed DEF Published_Ready
  <2> QED BY <2>1 DEF Inv, IdleOK, Closed, Unarmed
<1> QED BY <1>2, <1>3, <1>4, <1>5, Frame

LEMMA FaultTyped ==
  ASSUME Typed, MayFail \/ NoFault
  PROVE  faults' \in 0..MaxFaults
BY BoundsNatural DEF Typed, HistoryTyped

LEMMA ServeSteps ==
  ASSUME Inv,
         \/ ServeWithoutMarker \/ ReadReadiness
         \/ \E r \in Requests : Admit(r) \/ Finish(r)
         \/ \E r \in Clients : Submit(r)
  PROVE  Inv'
<1>0. /\ Typed /\ service \in Phases /\ work \in Works /\ latest \in Images
      /\ verifier \in Verifiers /\ faults \in 0..MaxFaults
      /\ Clients \subseteq Requests
  BY DEF Inv, Typed, HistoryTyped, Requests
<1>1. CASE ServeWithoutMarker
  <2> DEFINE s == [phase |-> "serving", provisional |-> FALSE]
  <2>1. s \in Phases /\ ~s.provisional
    BY DEF Phases
  <2>2. service' = s /\ service # Down /\ Unfinished' = Unfinished
    BY <1>1 DEF ServeWithoutMarker, Down, Unfinished
  <2> HIDE DEF s
  <2> QED BY <1>0, <1>1, <2>1, <2>2, ServiceStep DEF ServeWithoutMarker
<1>2. CASE ReadReadiness
  <2>1. service' = AfterRead /\ Unfinished' = Unfinished
    BY <1>2 DEF ReadReadiness, Unfinished
  <2> QED BY <1>0, <1>2, <2>1, AfterReadFacts, ServiceStep DEF ReadReadiness
<1>3. ASSUME NEW r \in Requests, Admit(r) PROVE Inv'
  <2>1. service' = AfterRead /\ work' \in Works
        /\ Unfinished' \subseteq Unfinished
    BY <1>0, <1>3 DEF Admit, Unfinished, Works
  <2> QED BY <1>0, <1>3, <2>1, AfterReadFacts, ServiceStep DEF Admit
<1>4. ASSUME NEW r \in Requests, Finish(r) PROVE Inv'
  <2>1. service' = service /\ work' \in Works
        /\ Unfinished' \subseteq Unfinished
    BY <1>0, <1>4 DEF Finish, Unfinished, Works
  <2> QED BY <1>0, <1>4, <2>1, ServiceStep DEF Finish
<1>5. ASSUME NEW r \in Clients, Submit(r) PROVE Inv'
  <2>1. Accept(r) /\ r \in Requests
    BY <1>0, <1>5 DEF Submit
  <2>2. Published_Ready /\ service' = AfterRead /\ work' \in Works
    BY <1>0, <1>5, <2>1, AcceptFacts DEF Submit, Published_Ready
  <2> QED BY <1>0, <1>5, <2>2, AfterReadFacts, ServiceStep DEF Submit
<1> QED BY <1>1, <1>2, <1>3, <1>4, <1>5

LEMMA QuietSteps ==
  ASSUME Inv,
         \/ VBegin \/ VSubmit \/ VAwait \/ VStepFails \/ VFailStop
         \/ DockerStart \/ Stop \/ \E image \in Images : Build(image)
  PROVE  Inv'
<1>0. /\ Typed /\ service \in Phases /\ work \in Works /\ latest \in Images
      /\ verifier \in Verifiers /\ faults \in 0..MaxFaults
      /\ Verification \in Requests
  BY DEF Inv, Typed, HistoryTyped, Requests
<1> USE DEF Verifiers
<1>1. CASE VBegin \/ VAwait \/ VStepFails \/ \E image \in Images : Build(image)
  <2>1. /\ UNCHANGED <<service, work>> /\ Unfinished' = Unfinished
        /\ verifier' \in Verifiers /\ latest' \in Images
        /\ MayFail \/ NoFault
    BY <1>0, <1>1 DEF VBegin, VAwait, VStepFails, Build, Unfinished
  <2>2. UNCHANGED <<disk, survivors, container, finalizer, starter, attempt,
                    grants, certified, revoked, refused, overtaken>>
    BY <1>1 DEF VBegin, VAwait, VStepFails, Build
  <2> QED BY <1>0, <2>1, <2>2, FaultTyped, ServiceStep
<1>2. CASE VSubmit
  <2>1. CASE Published_Ready /\ Accept(Verification)
    <3>1. service' = AfterRead /\ work' \in Works
      BY <1>0, <2>1, AcceptFacts
    <3> QED BY <1>0, <1>2, <2>1, <3>1, AfterReadFacts, ServiceStep DEF VSubmit
  <2>2. CASE UNCHANGED <<service, work>>
    <3>1. Unfinished' = Unfinished
      BY <2>2 DEF Unfinished
    <3> QED BY <1>0, <1>2, <2>2, <3>1, ServiceStep DEF VSubmit
  <2> QED BY <1>2, <2>1, <2>2 DEF VSubmit
<1>3. CASE VFailStop \/ Stop
  <2>1. CASE Halt
    <3>1. /\ service' = Down /\ work' \in Works
          /\ Unfinished' \subseteq Unfinished
          /\ MayFail \/ NoFault
      BY <1>0, <1>3, <2>1, HaltFacts DEF VFailStop, Stop
    <3> QED BY <1>0, <1>3, <3>1, BootedFacts, FaultTyped, ServiceStep
            DEF VFailStop, Stop
  <2>2. CASE UNCHANGED <<service, work>>
    <3>1. Unfinished' = Unfinished
      BY <2>2 DEF Unfinished
    <3> QED BY <1>0, <1>3, <2>2, <3>1, FaultTyped, ServiceStep
            DEF VFailStop, Stop
  <2> QED BY <1>3, <2>1, <2>2 DEF VFailStop, Stop
<1>4. CASE DockerStart
  <2>1. service' = Booted /\ work' \in Works /\ Unfinished' \subseteq Unfinished
        /\ container # Absent
    BY <1>0, <1>4, BootFacts DEF DockerStart, Absent
  <2> QED BY <1>0, <1>4, <2>1, BootedFacts, ServiceStep DEF DockerStart
<1> QED BY <1>1, <1>2, <1>3, <1>4
-----------------------------------------------------------------------------
(* The finalizer's steps that leave the disk alone.                        *)

LEMMA GoFacts ==
  ASSUME Typed, NEW step \in Steps, Go(step)
  PROVE  /\ finalizer' \in Finalizers /\ finalizer'.pc = step
         /\ finalizer'.image = finalizer.image
         /\ finalizer'.owned = finalizer.owned
BY DEF Typed, Finalizers

(* The finalizer goes on, with a container that stays as it is and a       *)
(* process that is stopped, answers, or stays as it is.                    *)
LEMMA GoStep ==
  ASSUME Inv, NEW step \in Steps, Go(step), finalizer.pc # "idle",
         UNCHANGED <<disk, survivors, latest, container, starter, verifier,
                     attempt, grants, revoked, refused, overtaken>>,
         certified \subseteq certified', certified' \subseteq Images \X Images,
         faults' \in 0..MaxFaults, service' \in Phases, work' \in Works,
         service = Down => service' = Down \/ container # Absent,
         service'.provisional => service.provisional,
         step \in {"arm", "start"} => service' = Down,
         step = "gate" => attempt < MaxAttempts,
         step \in Isolated =>
           container.mode = "isolated" /\ container.claims = finalizer.image,
         step \in {"parity", "publish", "confirm"} =>
           container.mode = "published" /\ container.claims = finalizer.image,
         step \in Verified => Certified(finalizer.image)',
         step \in Unarmed => finalizer.pc \in Unarmed,
         step \in Closed => finalizer.pc \in Closed,
         step \in Used => NoneMarked,
         step \in {"stop", "activate"} =>
           finalizer.pc = "stop" /\ Unfinished' \subseteq Unfinished
  PROVE  Inv'
<1>1. NoneReady' = NoneReady /\ NoneMarked' = NoneMarked
  BY DEF NoneReady, NoneMarked
<1>2. /\ finalizer' \in Finalizers /\ finalizer'.pc = step
      /\ finalizer'.image = finalizer.image
  BY GoFacts DEF Inv
<1>3. Typed'
  BY <1>2 DEF Inv, Typed, DisksTyped, HistoryTyped
<1>4. ClaimsOK' /\ GrantsOK'
  BY <1>1 DEF Inv, ClaimsOK, GrantsOK, Certified
<1>5. FinalizerOK'
  BY <1>1, <1>2 DEF Inv, FinalizerOK
<1>6. IdleOK'
  BY <1>2 DEF Inv, IdleOK
<1> QED BY <1>2, <1>3, <1>4, <1>5, <1>6, Frame

LEMMA StopSteps ==
  ASSUME Inv,
         \/ FStop("stop", "activate") \/ FStop("stop_again", "remove_again")
         \/ FFailStop
  PROVE  Inv'
<1>0. /\ Typed /\ service \in Phases /\ work \in Works
      /\ faults \in 0..MaxFaults /\ certified \subseteq Images \X Images
  BY DEF Inv, Typed, HistoryTyped
<1>1. /\ service' \in Phases /\ work' \in Works
      /\ Unfinished' \subseteq Unfinished
      /\ service' \in {service, Down}
      /\ service'.provisional => service.provisional
  <2>1. CASE Halt
    BY <1>0, <2>1, HaltFacts, BootedFacts
  <2>2. CASE UNCHANGED <<service, work>>
    BY <1>0, <2>2 DEF Unfinished
  <2> QED BY <2>1, <2>2 DEF FStop, FFailStop
<1> USE DEF Steps, Isolated, Verified, Unarmed, Closed, Used
<1>2. CASE FStop("stop", "activate")
  BY <1>0, <1>1, <1>2, GoStep DEF FStop
<1>3. CASE FStop("stop_again", "remove_again")
  <2>1. /\ container.mode = "isolated" /\ container.claims = finalizer.image
        /\ Certified(finalizer.image) /\ NoneMarked
    BY <1>3 DEF FStop, Inv, FinalizerOK
  <2>2. Certified(finalizer.image)'
    BY <1>3, <2>1 DEF FStop, Certified
  <2> QED BY <1>0, <1>1, <1>3, <2>1, <2>2, GoStep DEF FStop
<1>4. CASE FFailStop
  BY <1>0, <1>1, <1>4, GoStep DEF FFailStop
<1> QED BY <1>2, <1>3, <1>4

LEMMA PlainSteps ==
  ASSUME Inv, FActivate \/ FStart \/ FStepFails \/ Kill
  PROVE  Inv'
<1>0. /\ Typed /\ service \in Phases /\ work \in Works
      /\ faults \in 0..MaxFaults /\ certified \subseteq Images \X Images
  BY DEF Inv, Typed, HistoryTyped
<1> USE DEF Steps, Isolated, Verified, Unarmed, Closed, Used
<1>1. CASE FActivate
  BY <1>0, <1>1, GoStep DEF FActivate
<1>2. CASE FStepFails \/ Kill
  <2>1. faults' \in 0..MaxFaults
    BY <1>0, <1>2, FaultTyped DEF FStepFails, Kill
  <2>2. finalizer.pc # "idle" /\ (Go("fail") \/ Go("idle"))
    BY <1>2 DEF FStepFails, Kill
  <2> QED BY <1>0, <1>2, <2>1, <2>2, GoStep DEF FStepFails, Kill
<1>3. CASE FStart
  <2>1. finalizer.pc = "start" /\ container.mode = "isolated"
        /\ container.claims = finalizer.image
    BY <1>3 DEF FStart, Inv, FinalizerOK
  <2>2. container # Absent
    BY <2>1 DEF Absent
  <2>3. CASE Go("healthy") /\ UNCHANGED <<service, work>>
    BY <1>0, <1>3, <2>1, <2>2, <2>3, GoStep DEF FStart
  <2>4. CASE Go("healthy") /\ Boot
    <3>1. service' \in Phases /\ ~service'.provisional /\ work' \in Works
      BY <1>0, <2>4, BootFacts, BootedFacts
    <3> QED BY <1>0, <1>3, <2>1, <2>2, <2>4, <3>1, GoStep DEF FStart
  <2> QED BY <1>3, <2>1, <2>3, <2>4 DEF FStart
<1> QED BY <1>1, <1>2, <1>3

LEMMA HealthSteps ==
  ASSUME Inv,
         \/ FHealth("healthy", TRUE, "submit")
         \/ FHealth("parity", FALSE, "publish")
         \/ FHealth("confirm", TRUE, "idle")
  PROVE  Inv'
<1>0. /\ Typed /\ service \in Phases /\ work \in Works
      /\ faults \in 0..MaxFaults /\ certified \subseteq Images \X Images
  BY DEF Inv, Typed, HistoryTyped
<1>1. /\ service' \in Phases
      /\ service = Down => service' = Down
      /\ service'.provisional => service.provisional
  BY <1>0, AfterReadFacts DEF FHealth
<1>2. /\ UNCHANGED <<disk, survivors, latest, container, starter, verifier,
                     attempt, grants, certified, revoked, refused, overtaken>>
      /\ UNCHANGED <<faults, work>>
  BY DEF FHealth
<1> USE DEF Steps, Isolated, Verified, Unarmed, Closed, Used
<1>3. ASSUME Go("fail"), finalizer.pc # "idle" PROVE Inv'
  BY <1>0, <1>1, <1>2, <1>3, GoStep
<1>4. CASE FHealth("healthy", TRUE, "submit")
  <2>1. CASE Ready /\ Go("submit")
    <3>1. finalizer.pc = "healthy" /\ NoneMarked
          /\ container.mode = "isolated" /\ container.claims = finalizer.image
      BY <1>4, <2>1, ReadyWhileClosed DEF FHealth, Inv, FinalizerOK
    <3> QED BY <1>0, <1>1, <1>2, <2>1, <3>1, GoStep
  <2> QED BY <1>3, <1>4, <2>1 DEF FHealth
<1>5. CASE FHealth("parity", FALSE, "publish")
  <2>1. CASE Go("publish")
    <3>1. /\ finalizer.pc = "parity" /\ NoneMarked /\ Certified(finalizer.image)
          /\ container.mode = "published"
          /\ container.claims = finalizer.image
      BY <1>5 DEF FHealth, Inv, FinalizerOK
    <3>2. Certified(finalizer.image)'
      BY <1>0, <1>2, <2>1, <3>1, GoFacts DEF Certified
    <3> QED BY <1>0, <1>1, <1>2, <2>1, <3>1, <3>2, GoStep
  <2> QED BY <1>3, <1>5, <2>1 DEF FHealth
<1>6. CASE FHealth("confirm", TRUE, "idle")
  <2>1. CASE Go("idle")
    BY <1>0, <1>1, <1>2, <1>6, <2>1, GoStep DEF FHealth
  <2> QED BY <1>3, <1>6, <2>1 DEF FHealth
<1> QED BY <1>4, <1>5, <1>6

LEMMA VerificationSteps ==
  ASSUME Inv, FSubmit \/ FAwait
  PROVE  Inv'
<1>0. /\ Typed /\ service \in Phases /\ work \in Works
      /\ faults \in 0..MaxFaults /\ certified \subseteq Images \X Images
      /\ Verification \in Requests
  BY DEF Inv, Typed, HistoryTyped, Requests
<1> USE DEF Steps, Isolated, Verified, Unarmed, Closed, Used
<1>1. /\ container.mode = "isolated" /\ container.claims = finalizer.image
      /\ NoneMarked
  BY DEF FSubmit, FAwait, Inv, FinalizerOK
<1>2. CASE FSubmit
  <2>1. CASE Accept(Verification) /\ Go("await")
    <3>1. service' \in Phases /\ (service = Down => service' = Down)
          /\ (service'.provisional => service.provisional) /\ work' \in Works
      BY <1>0, <2>1, AcceptFacts, AfterReadFacts
    <3> QED BY <1>0, <1>1, <1>2, <2>1, <3>1, GoStep DEF FSubmit
  <2>2. CASE Go("fail") /\ UNCHANGED <<service, work>>
    BY <1>0, <1>2, <2>2, GoStep DEF FSubmit
  <2> QED BY <1>2, <2>1, <2>2 DEF FSubmit
<1>3. CASE FAwait
  <2>1. CASE /\ Up /\ Go("stop_again")
             /\ certified' = certified
                               \cup {<<container.image, container.claims>>}
    <3>1. container.image \in Images /\ container.claims \in Images
      BY <1>0, <1>1 DEF Typed, Containers, Absent
    <3> DEFINE pair == <<container.image, container.claims>>
    <3>2. certified \subseteq certified' /\ certified' \subseteq Images \X Images
      <4>1. pair \in Images \X Images /\ certified' = certified \cup {pair}
        BY <2>1, <3>1
      <4> HIDE DEF pair
      <4> QED BY <1>0, <4>1
    <3>3. finalizer'.image = finalizer.image
      BY <1>0, <2>1, GoFacts
    <3>4. Certified(finalizer.image)'
      <4>1. pair \in certified' /\ pair[2] = finalizer'.image
        BY <1>1, <2>1, <3>3
      <4> HIDE DEF pair
      <4> QED BY <4>1 DEF Certified
    <3> QED BY <1>0, <1>1, <1>3, <2>1, <3>2, <3>4, GoStep DEF FAwait
  <2>2. CASE Go("fail") /\ UNCHANGED certified
    BY <1>0, <1>3, <2>2, GoStep DEF FAwait
  <2> QED BY <1>3, <2>1, <2>2 DEF FAwait
<1> QED BY <1>2, <1>3

(* A finalization begins; containers are removed and made.                 *)
LEMMA FLoadStep ==
  ASSUME Inv, FLoad
  PROVE  Inv'
<1>0. Typed
  BY DEF Inv
<1>1. NoneReady' = NoneReady /\ NoneMarked' = NoneMarked
  BY DEF NoneReady, NoneMarked, FLoad
<1>2. /\ finalizer' \in Finalizers /\ finalizer'.pc = "gate"
      /\ finalizer'.image = latest
  BY <1>0 DEF FLoad, Finalizers, Steps, Typed
<1>3. Typed'
  BY <1>0, <1>2 DEF FLoad, Typed, DisksTyped, HistoryTyped
<1>4. ClaimsOK' /\ GrantsOK'
  BY <1>1 DEF FLoad, Inv, ClaimsOK, GrantsOK, Certified
<1> USE DEF Isolated, Verified, Unarmed, Closed, Used
<1>5. FinalizerOK' /\ IdleOK'
  BY <1>2 DEF FinalizerOK, IdleOK
<1> QED BY <1>2, <1>3, <1>4, <1>5, Frame DEF FLoad

LEMMA RemoveSteps ==
  ASSUME Inv, FRemove("remove", "create") \/ FRemove("remove_again", "run")
  PROVE  Inv'
<1>0. /\ Typed /\ service \in Phases /\ work \in Works
      /\ faults \in 0..MaxFaults /\ certified \subseteq Images \X Images
  BY DEF Inv, Typed, HistoryTyped
<1> USE DEF Steps, Isolated, Verified, Unarmed, Closed, Used
<1>1. PICK to \in {"create", "run", "fail"} :
        /\ finalizer'.pc = to /\ finalizer' \in Finalizers
        /\ finalizer'.image = finalizer.image
        /\ to = "create" => finalizer.pc = "remove"
        /\ to = "run" => finalizer.pc = "remove_again"
  BY <1>0 DEF FRemove, Typed, Finalizers
<1>2. \/ container' = Absent /\ service = Down
      \/ UNCHANGED container
  BY <1>0, ServiceFacts DEF FRemove, Up
<1>3. Absent \in Containers /\ Absent.mode = "absent"
  BY DEF Containers, Absent
<1>4. finalizer.pc \in {"remove", "remove_again"}
      /\ UNCHANGED <<disk, survivors, latest, service, work, starter, verifier,
                     faults>>
      /\ UNCHANGED <<attempt, grants, certified, revoked, refused, overtaken>>
  BY DEF FRemove
<1>5. NoneReady' = NoneReady /\ NoneMarked' = NoneMarked
  BY <1>4 DEF NoneReady, NoneMarked
<1>6. Typed'
  BY <1>0, <1>1, <1>2, <1>3, <1>4 DEF Typed, DisksTyped, HistoryTyped
<1>7. ClaimsOK' /\ GrantsOK'
  BY <1>2, <1>3, <1>4, <1>5 DEF Inv, ClaimsOK, GrantsOK, Certified
<1>8. FinalizerOK' /\ IdleOK'
  BY <1>1, <1>4, <1>5 DEF Inv, FinalizerOK, IdleOK, Certified
<1> QED BY <1>1, <1>4, <1>6, <1>7, <1>8, Frame

LEMMA CreatedFacts ==
  ASSUME latest \in Images, NEW claims \in Images,
         NEW mode \in {"isolated", "published"}
  PROVE  /\ Created(mode, claims) \in Containers
         /\ Created(mode, claims).mode = mode
         /\ Created(mode, claims).claims = claims
         /\ Created(mode, claims) # Absent
BY DEF Created, Containers, Absent

LEMMA AbsentFacts ==
  ASSUME container \in Containers
  PROVE  container.mode = "absent" <=> container = Absent
BY DEF Containers, Absent

LEMMA CreateStep ==
  ASSUME Inv, FCreate
  PROVE  Inv'
<1>0. /\ Typed /\ service \in Phases /\ work \in Works
      /\ faults \in 0..MaxFaults /\ certified \subseteq Images \X Images
      /\ finalizer.image \in Images /\ latest \in Images
      /\ finalizer.pc = "create"
  BY DEF Inv, Typed, HistoryTyped, FCreate
<1> USE DEF Steps, Isolated, Verified, Unarmed, Closed, Used
<1>1. CASE Go("fail") /\ UNCHANGED container
  BY <1>0, <1>1, GoStep DEF FCreate
<1>2. CASE /\ container.mode = "absent"
           /\ container' = Created("isolated", finalizer.image)
           /\ finalizer' = [finalizer EXCEPT !.pc = "arm", !.owned = TRUE]
  <2>1. /\ container' \in Containers /\ container'.mode = "isolated"
        /\ container'.claims = finalizer.image
    BY <1>0, <1>2, CreatedFacts
  <2>2. /\ finalizer' \in Finalizers /\ finalizer'.pc = "arm"
        /\ finalizer'.image = finalizer.image
    BY <1>0, <1>2 DEF Typed, Finalizers
  <2>3. service = Down /\ container' # Absent
    BY <1>0, <1>2, <2>1, AbsentFacts DEF Typed, Absent
  <2>4. /\ UNCHANGED <<disk, survivors, latest, service, work, starter,
                       verifier, faults>>
        /\ UNCHANGED <<attempt, grants, certified, revoked, refused, overtaken>>
    BY DEF FCreate
  <2>5. NoneReady' = NoneReady /\ NoneMarked' = NoneMarked
    BY <2>4 DEF NoneReady, NoneMarked
  <2>6. Typed'
    BY <1>0, <2>1, <2>2, <2>3, <2>4 DEF Typed, DisksTyped, HistoryTyped
  <2>7. ClaimsOK'
    BY <2>1, <2>4 DEF Inv, ClaimsOK, Certified
  <2>8. GrantsOK'
    BY <2>1, <2>4, <2>5 DEF Inv, GrantsOK
  <2>9. FinalizerOK' /\ IdleOK'
    BY <1>0, <2>1, <2>2, <2>3, <2>4, <2>5 DEF Inv, FinalizerOK, IdleOK
  <2> QED BY <1>0, <2>2, <2>4, <2>6, <2>7, <2>8, <2>9, Frame
<1> QED BY <1>1, <1>2 DEF FCreate

LEMMA RunContainerStep ==
  ASSUME Inv, FRun
  PROVE  Inv'
<1>0. /\ Typed /\ service \in Phases /\ work \in Works
      /\ faults \in 0..MaxFaults /\ certified \subseteq Images \X Images
      /\ finalizer.image \in Images /\ latest \in Images
      /\ finalizer.pc = "run"
  BY DEF Inv, Typed, HistoryTyped, FRun
<1> USE DEF Steps, Isolated, Verified, Unarmed, Closed, Used
<1>1. CASE Go("fail") /\ UNCHANGED <<container, service, work>>
  BY <1>0, <1>1, GoStep DEF FRun
<1>2. CASE /\ container.mode = "absent"
           /\ container' = Created("published", finalizer.image)
           /\ finalizer' = [finalizer EXCEPT !.pc = "parity", !.owned = TRUE]
           /\ Boot
  <2>1. /\ container' \in Containers /\ container'.mode = "published"
        /\ container'.claims = finalizer.image /\ container' # Absent
    BY <1>0, <1>2, CreatedFacts
  <2>2. /\ finalizer' \in Finalizers /\ finalizer'.pc = "parity"
        /\ finalizer'.image = finalizer.image
    BY <1>0, <1>2 DEF Typed, Finalizers
  <2>3. service' \in Phases /\ ~service'.provisional /\ work' \in Works
    BY <1>0, <1>2, BootFacts, BootedFacts
  <2>4. /\ UNCHANGED <<disk, survivors, latest, starter, verifier, faults>>
        /\ UNCHANGED <<attempt, grants, certified, revoked, refused, overtaken>>
    BY DEF FRun
  <2>5. NoneReady' = NoneReady /\ NoneMarked' = NoneMarked
    BY <2>4 DEF NoneReady, NoneMarked
  <2>6. Certified(finalizer.image) /\ NoneMarked /\ NoneReady
    BY <1>0 DEF Inv, FinalizerOK
  <2>7. Typed'
    BY <1>0, <2>1, <2>2, <2>3, <2>4 DEF Typed, DisksTyped, HistoryTyped
  <2>8. ClaimsOK'
    BY <2>1, <2>4, <2>6 DEF Inv, ClaimsOK, Certified
  <2>9. GrantsOK'
    BY <2>3, <2>5, <2>6 DEF GrantsOK
  <2>10. FinalizerOK' /\ IdleOK'
    BY <2>1, <2>2, <2>4, <2>5, <2>6 DEF FinalizerOK, IdleOK, Certified
  <2> QED BY <1>0, <2>2, <2>4, <2>7, <2>8, <2>9, <2>10, Frame
<1> QED BY <1>1, <1>2 DEF FRun

-----------------------------------------------------------------------------
(* start-shakemap-docker.sh                                                *)

LEMMA SCheckStep ==
  ASSUME Inv, SCheck
  PROVE  Inv'
<1>0. Typed /\ disk \in survivors /\ latest \in Images
  BY DEF Inv, Typed, DisksTyped
<1>1. starter' \in Starters /\ starter'.pc = "start" /\ starter'.image = latest
  BY <1>0 DEF SCheck, Starters
<1>2. disk.record.state = "ready" /\ disk.record.identity.id = latest
  BY DEF SCheck
<1>3. Certified(latest) /\ NoneMarked
  BY <1>0, <1>2 DEF Inv, RecordsOK, NoneReady
<1>4. /\ UNCHANGED <<disk, survivors, latest, container, service, work,
                     finalizer, verifier, faults>>
      /\ UNCHANGED <<attempt, grants, certified, revoked, refused, overtaken>>
  BY DEF SCheck
<1>5. NoneReady' = NoneReady /\ NoneMarked' = NoneMarked
  BY <1>4 DEF NoneReady, NoneMarked
<1>6. Typed'
  BY <1>0, <1>1, <1>4 DEF Typed, DisksTyped, HistoryTyped
<1>7. ClaimsOK' /\ GrantsOK'
  BY <1>1, <1>3, <1>4, <1>5 DEF Inv, ClaimsOK, GrantsOK, Certified
<1>8. FinalizerOK' /\ IdleOK'
  BY <1>4, <1>5 DEF Inv, FinalizerOK, IdleOK, Certified, Unfinished
<1> QED BY <1>4, <1>6, <1>7, <1>8, Frame

LEMMA SStartStep ==
  ASSUME Inv, SStart
  PROVE  Inv'
<1>0. /\ Typed /\ service \in Phases /\ work \in Works /\ latest \in Images
      /\ starter.pc = "start" /\ starter.image \in Images
      /\ Certified(starter.image)
  BY DEF Inv, Typed, SStart, ClaimsOK
<1>1. starter' \in Starters /\ starter'.pc = "idle"
  BY <1>0 DEF SStart, Typed, Starters
<1>2. /\ UNCHANGED <<disk, survivors, latest, finalizer, verifier, faults>>
      /\ UNCHANGED <<attempt, grants, certified, revoked, refused, overtaken>>
  BY DEF SStart
<1>3. NoneReady' = NoneReady /\ NoneMarked' = NoneMarked
  BY <1>2 DEF NoneReady, NoneMarked
<1>4. ASSUME container' \in Containers, service' \in Phases, work' \in Works,
             container' = Absent => service' = Down,
             Unfinished' \subseteq Unfinished,
             service'.provisional => service.provisional,
             \/ UNCHANGED container
             \/ /\ container = Absent /\ container'.mode = "published"
                /\ container'.claims = starter.image /\ ~service'.provisional,
             UNCHANGED service \/ container'.mode = "published"
      PROVE  Inv'
  <2>1. Typed'
    BY <1>0, <1>1, <1>2, <1>4 DEF Typed, DisksTyped, HistoryTyped
  <2>2. ClaimsOK'
    BY <1>0, <1>1, <1>2, <1>4 DEF Inv, ClaimsOK, Certified
  <2>3. GrantsOK'
    BY <1>0, <1>2, <1>3, <1>4 DEF Inv, GrantsOK
  <2>4. container = Absent => /\ finalizer.pc \notin Isolated
                              /\ finalizer.pc \notin {"parity", "publish",
                                                      "confirm"}
    BY DEF Inv, FinalizerOK, Absent
  <2>5. container.mode = "published" => finalizer.pc \notin Isolated
    BY DEF Inv, FinalizerOK
  <2>6. finalizer.pc \in {"arm", "start"} => service' = Down
    BY <1>4, <2>4, <2>5 DEF Inv, FinalizerOK, Isolated
  <2>7. FinalizerOK'
    BY <1>2, <1>3, <1>4, <2>4, <2>6 DEF Inv, FinalizerOK, Certified
  <2>8. IdleOK'
    BY <1>2, <1>4 DEF Inv, IdleOK
  <2> QED BY <1>2, <2>1, <2>2, <2>3, <2>7, <2>8, Frame
<1>5. CASE UNCHANGED <<container, service, work>>
  <2>1. Unfinished' = Unfinished
    BY <1>5 DEF Unfinished
  <2> QED BY <1>0, <1>4, <1>5, <2>1 DEF Typed
<1>6. CASE container = Published(starter.image) /\ UNCHANGED container /\ Boot
  <2>1. container.mode = "published" /\ container # Absent
    BY <1>6 DEF Published, Absent
  <2>2. /\ service' \in Phases /\ ~service'.provisional /\ work' \in Works
        /\ Unfinished' \subseteq Unfinished
    BY <1>0, <1>6, BootFacts, BootedFacts
  <2> QED BY <1>0, <1>4, <1>6, <2>1, <2>2 DEF Typed
<1>7. CASE /\ container.mode = "absent" /\ Boot
           /\ container' = Created("published", starter.image)
  <2>1. /\ container' \in Containers /\ container'.mode = "published"
        /\ container'.claims = starter.image /\ container' # Absent
    BY <1>0, <1>7, CreatedFacts
  <2>2. /\ service' \in Phases /\ ~service'.provisional /\ work' \in Works
        /\ Unfinished' \subseteq Unfinished
    BY <1>0, <1>7, BootFacts, BootedFacts
  <2>3. container = Absent
    BY <1>0, <1>7, AbsentFacts DEF Typed
  <2> QED BY <1>4, <2>1, <2>2, <2>3
<1> QED BY <1>5, <1>6, <1>7 DEF SStart
-----------------------------------------------------------------------------
(* Steps that write the disk.  Most take readiness and markers away: what  *)
(* a power failure may leave then has a record or a marker only where it   *)
(* had the same before.                                                    *)
Lessened ==
    \A d \in survivors' : \E e \in survivors :
      /\ d.record = e.record \/ d.record.state # "ready"
      /\ d.marker = e.marker \/ d.marker = NoMarker

LEMMA LessenedKeeps ==
  ASSUME Inv, Lessened, UNCHANGED certified
  PROVE  /\ RecordsOK'
         /\ NoneReady => NoneReady'
         /\ NoneMarked => NoneMarked'
<1>1. NoneReady => NoneReady'
  BY DEF Lessened, NoneReady
<1>2. NoneMarked => NoneMarked'
  BY DEF Lessened, NoneMarked
<1>3. ASSUME NEW d \in survivors', d.record.state = "ready"
      PROVE  Certified(d.record.identity.id)'
  <2>1. PICK e \in survivors : d.record = e.record
    BY <1>3 DEF Lessened
  <2>2. Certified(d.record.identity.id)
    BY <1>3, <2>1 DEF Inv, RecordsOK
  <2> QED BY <2>2 DEF Certified
<1> QED BY <1>1, <1>2, <1>3 DEF Inv, RecordsOK

LEMMA LessenedMarkers ==
  ASSUME Inv, Lessened, UNCHANGED <<attempt, grants>>,
         finalizer'.pc \in Unarmed => finalizer.pc \in Unarmed
  PROVE  MarkersOK'
<1>1. ASSUME NEW d \in survivors', d.marker # NoMarker
      PROVE  d.marker.serial \in 1..attempt /\ grants[d.marker.serial] = 0
  BY <1>1 DEF Lessened, Inv, MarkersOK
<1>2. ASSUME NEW d \in survivors', finalizer.pc \in Unarmed
      PROVE  d.marker.serial # attempt
  <2>1. attempt >= 1 /\ \A e \in survivors : e.marker.serial # attempt
    BY <1>2 DEF Inv, MarkersOK
  <2>2. NoMarker.serial # attempt
    BY <2>1 DEF NoMarker
  <2> QED BY <2>1, <2>2 DEF Lessened
<1> QED BY <1>1, <1>2 DEF Inv, MarkersOK

LEMMA FailureFacts ==
  ASSUME Typed, RecordFailure
  PROVE  /\ DisksTyped' /\ Lessened /\ faults' \in 0..MaxFaults
         /\ disk'.record.state \in {disk.record.state, "not_ready"}
         /\ \/ UNCHANGED revoked
            \/ /\ revoked' = TRUE /\ disk'.record.state = "not_ready"
               /\ NoneReady'
<1>0. DisksTyped /\ disk \in survivors
  BY DEF Typed, DisksTyped
<1>1. /\ Unmarked.record = disk.record /\ Unmarked.marker = NoMarker
      /\ MarkNotReady.marker = NoMarker
      /\ MarkNotReady.record.state = "not_ready"
  BY <1>0, UnmarkedWritten, NotReadyWritten
<1>2. DisksTyped' /\ faults' \in 0..MaxFaults
  BY <1>0, FailureTyped, FaultTyped DEF RecordFailure
<1>3. survivors' \subseteq survivors \cup {Unmarked, MarkNotReady}
  BY DEF RecordFailure, Publish, Unlink
<1>4. Lessened
  BY <1>0, <1>1, <1>3 DEF Lessened
<1>5. disk'.record.state \in {disk.record.state, "not_ready"}
  BY <1>1 DEF RecordFailure, Publish, Unlink
<1>6. CASE Publish(MarkNotReady) /\ revoked' = TRUE
  BY <1>1, <1>2, <1>4, <1>5, <1>6 DEF Publish, NoneReady
<1> QED BY <1>2, <1>4, <1>5, <1>6 DEF RecordFailure

LEMMA FailSteps ==
  ASSUME Inv, FFail \/ VFail
  PROVE  Inv'
<1>0. Typed /\ RecordFailure
  BY DEF Inv, FFail, VFail
<1>1. /\ UNCHANGED <<latest, container, service, work, starter>>
      /\ UNCHANGED <<attempt, grants, certified, refused, overtaken>>
  BY DEF FFail, VFail
<1>2. /\ finalizer' \in Finalizers /\ verifier' \in Verifiers
      /\ \/ UNCHANGED finalizer
         \/ /\ finalizer'.pc = "fail_stop" /\ finalizer.pc = "fail"
            /\ finalizer'.image = finalizer.image
  <2>1. CASE FFail
    <3>1. Go("fail_stop") /\ "fail_stop" \in Steps /\ finalizer.pc = "fail"
          /\ UNCHANGED verifier
      BY <2>1 DEF FFail, Steps
    <3> QED BY <1>0, <3>1, GoFacts DEF Typed
  <2>2. CASE VFail
    <3>1. finalizer' = finalizer /\ verifier' = "fail_stop"
      BY <2>2 DEF VFail
    <3>2. finalizer \in Finalizers
      BY <1>0 DEF Typed
    <3> QED BY <3>1, <3>2 DEF Verifiers
  <2> QED BY <2>1, <2>2
<1>3. /\ DisksTyped' /\ Lessened /\ faults' \in 0..MaxFaults
      /\ disk'.record.state \in {disk.record.state, "not_ready"}
      /\ \/ UNCHANGED revoked
         \/ /\ revoked' = TRUE /\ disk'.record.state = "not_ready"
            /\ NoneReady'
  BY <1>0, FailureFacts
<1> USE DEF Isolated, Verified, Unarmed, Closed, Used
<1>4. /\ RecordsOK' /\ MarkersOK'
      /\ NoneReady => NoneReady'
      /\ NoneMarked => NoneMarked'
  BY <1>1, <1>2, <1>3, LessenedKeeps, LessenedMarkers
<1>5. Typed'
  BY <1>0, <1>1, <1>2, <1>3 DEF Typed, HistoryTyped
<1>6. ClaimsOK' /\ GrantsOK'
  BY <1>1, <1>4 DEF Inv, ClaimsOK, GrantsOK, Certified
<1>7. FinalizerOK'
  BY <1>1, <1>2, <1>4 DEF Inv, FinalizerOK, Certified
<1>8. IdleOK'
  BY <1>1, <1>2 DEF Inv, IdleOK, Unfinished
<1>9. RevokedOK'
  <2>1. RevokedOK /\ revoked \in BOOLEAN
    BY DEF Inv, Typed, HistoryTyped
  <2>2. finalizer'.pc \in Closed => finalizer.pc \in Closed
    BY <1>2
  <2>3. CASE UNCHANGED revoked
    BY <1>3, <1>4, <2>1, <2>2, <2>3 DEF RevokedOK
  <2>4. CASE disk'.record.state = "not_ready" /\ NoneReady'
    BY <2>4 DEF RevokedOK
  <2> QED BY <1>3, <2>3, <2>4
<1> QED BY <1>4, <1>5, <1>6, <1>7, <1>8, <1>9 DEF Inv

LEMMA PowerFailureStep ==
  ASSUME Inv, PowerFailure
  PROVE  Inv'
<1>0. Typed
  BY DEF Inv
<1>1. /\ disk' \in survivors /\ survivors' = {disk'} /\ service' = Down
      /\ UNCHANGED <<latest, container, work>>
      /\ UNCHANGED <<attempt, grants, certified, revoked, refused, overtaken>>
      /\ faults' \in 0..MaxFaults
  BY <1>0, FaultTyped DEF PowerFailure, Publish
<1>2. /\ finalizer' \in Finalizers /\ finalizer'.pc = "idle"
      /\ starter' \in Starters /\ starter'.pc = "idle"
      /\ verifier' \in Verifiers
  BY <1>0 DEF PowerFailure, Typed, Finalizers, Starters, Verifiers, Steps
<1> USE DEF Isolated, Verified, Unarmed, Closed, Used
<1>3. Lessened
  BY <1>1 DEF Lessened
<1>4. /\ RecordsOK' /\ MarkersOK'
      /\ NoneReady => NoneReady'
      /\ NoneMarked => NoneMarked'
  BY <1>1, <1>2, <1>3, LessenedKeeps, LessenedMarkers
<1>5. Typed'
  BY <1>0, <1>1, <1>2, BootedFacts DEF Typed, DisksTyped, HistoryTyped
<1>6. ClaimsOK' /\ GrantsOK'
  BY <1>1, <1>2, <1>4, BootedFacts DEF Inv, ClaimsOK, GrantsOK, Certified
<1>7. FinalizerOK' /\ IdleOK' /\ RevokedOK'
  BY <1>1, <1>2, <1>4 DEF Inv, FinalizerOK, IdleOK, RevokedOK
<1> QED BY <1>4, <1>5, <1>6, <1>7 DEF Inv

(* The gate: only now, and with no work unfinished, the record is closed.  *)
LEMMA GateStep ==
  ASSUME Inv, FGate
  PROVE  Inv'
<1>0. /\ Typed /\ DisksTyped /\ disk \in survivors /\ finalizer.pc = "gate"
      /\ attempt \in Nat /\ attempt < MaxAttempts /\ MaxAttempts \in Nat
      /\ finalizer.image \in Images
  BY BoundsNatural DEF Inv, Typed, DisksTyped, HistoryTyped, FGate
<1>1. /\ UNCHANGED <<latest, container, service, work, starter, verifier>>
      /\ UNCHANGED <<grants, certified, overtaken>>
      /\ faults' \in 0..MaxFaults
  BY <1>0, FaultTyped DEF FGate
<1>2. /\ MarkFinalizing \in Disks /\ MarkFinalizing.marker = disk.marker
      /\ MarkFinalizing.record.state = "finalizing"
      /\ MarkFinalizing.record.identity = NoIdentity
  BY <1>0, RecordWritten DEF MarkFinalizing
<1> USE DEF Isolated, Verified, Unarmed, Closed, Used, Steps
<1>3. ASSUME DisksTyped', Lessened, refused' \in BOOLEAN,
             attempt' \in 0..MaxAttempts, revoked' \in BOOLEAN,
             NEW step \in {"stop", "idle"}, Go(step),
             MarkersOK', RevokedOK',
             step = "stop" => NoneReady' /\ Unfinished = {}
      PROVE  Inv'
  <2>1. /\ finalizer' \in Finalizers /\ finalizer'.pc = step
        /\ finalizer'.image = finalizer.image
    BY <1>0, <1>3, GoFacts
  <2>2. /\ RecordsOK'
        /\ NoneMarked => NoneMarked'
    BY <1>1, <1>3, LessenedKeeps
  <2>3. Typed'
    BY <1>0, <1>1, <1>3, <2>1 DEF Typed, HistoryTyped
  <2>4. ClaimsOK' /\ GrantsOK'
    BY <1>1, <2>2 DEF Inv, ClaimsOK, GrantsOK, Certified
  <2>5. FinalizerOK' /\ IdleOK'
    BY <1>1, <1>3, <2>1 DEF FinalizerOK, IdleOK, Unfinished
  <2> QED BY <1>3, <2>2, <2>3, <2>4, <2>5 DEF Inv
<1>4. CASE /\ BeginAllowed /\ Publish(MarkFinalizing) /\ Go("stop")
           /\ attempt' = attempt + 1 /\ revoked' = FALSE /\ refused' = FALSE
  <2>1. survivors' = {MarkFinalizing} /\ DisksTyped' /\ Lessened /\ NoneReady'
    BY <1>0, <1>2, <1>4, WriteTyped DEF Publish, Lessened, NoneReady
  <2>2. /\ \A n \in 1..MaxAttempts : grants[n] <= 1
        /\ \A n \in 1..MaxAttempts : n > attempt => grants[n] = 0
        /\ disk.marker # NoMarker =>
             disk.marker.serial \in 1..attempt /\ grants[disk.marker.serial] = 0
    BY <1>0 DEF Inv, MarkersOK
  <2>3. disk.marker.serial # attempt + 1
    BY <1>0, <2>2 DEF NoMarker
  <2>4. MarkersOK'
    BY <1>0, <1>1, <1>2, <1>4, <2>1, <2>2, <2>3 DEF MarkersOK
  <2>5. RevokedOK' /\ Unfinished = {}
    BY <1>4 DEF RevokedOK, BeginAllowed
  <2>6. attempt' \in 0..MaxAttempts
    BY <1>0, <1>4
  <2>7. revoked' \in BOOLEAN /\ refused' \in BOOLEAN
    BY <1>4
  <2> QED BY <1>3, <1>4, <2>1, <2>4, <2>5, <2>6, <2>7
<1>5. CASE /\ Still \/ Replace(MarkFinalizing)
           /\ Go("idle") /\ UNCHANGED <<attempt, revoked>>
           /\ refused' \in BOOLEAN
  <2>1. DisksTyped' /\ Lessened
    BY <1>0, <1>2, <1>5, WriteTyped DEF Replace, Lessened, DisksTyped
  <2>2. finalizer'.pc = "idle" /\ revoked \in BOOLEAN
    BY <1>0, <1>5, GoFacts DEF Typed, HistoryTyped
  <2>3. NoneReady => NoneReady'
    BY <1>1, <2>1, LessenedKeeps
  <2>4. MarkersOK' /\ RevokedOK'
    BY <1>1, <1>5, <2>1, <2>2, <2>3, LessenedMarkers DEF Inv, RevokedOK
  <2> QED BY <1>0, <1>3, <1>5, <2>1, <2>2, <2>4
<1>6. refused \in BOOLEAN
  BY <1>0 DEF Typed, HistoryTyped
<1> QED BY <1>4, <1>5, <1>6 DEF FGate

(* The marker is armed for the isolated container, which is not running.   *)
LEMMA ArmStep ==
  ASSUME Inv, FArm
  PROVE  Inv'
<1>0. /\ Typed /\ DisksTyped /\ disk \in survivors /\ finalizer.pc = "arm"
      /\ finalizer.image \in Images /\ attempt \in 1..MaxAttempts
      /\ grants[attempt] = 0 /\ NoneReady /\ service = Down
      /\ container.mode = "isolated" /\ container.claims = finalizer.image
  BY BoundsNatural DEF Inv, Typed, DisksTyped, HistoryTyped, FArm, FinalizerOK,
     MarkersOK, Unarmed, Isolated, Closed
<1>1. /\ UNCHANGED <<latest, container, service, work, starter, verifier>>
      /\ UNCHANGED <<attempt, grants, certified, revoked, refused>>
      /\ overtaken' = (starter.pc = "start")
      /\ faults' \in 0..MaxFaults
  BY <1>0, FaultTyped DEF FArm
<1> DEFINE armed == Armed(finalizer.image)
<1>2. /\ armed \in Disks /\ armed.record = disk.record
      /\ armed.marker.serial = attempt
  <2>1. attempt \in 0..MaxAttempts
    BY <1>0 DEF Typed, HistoryTyped
  <2>2. /\ armed \in Disks /\ armed.record = disk.record
        /\ armed.marker = [image |-> finalizer.image, serial |-> attempt]
    BY <1>0, <2>1, ArmedWritten
  <2> QED BY <2>2
<1> HIDE DEF armed
<1> USE DEF Isolated, Verified, Unarmed, Closed, Used, Steps
<1>3. /\ DisksTyped' /\ disk'.record.state = disk.record.state
      /\ survivors' \subseteq survivors \cup {armed}
      /\ Go("start") \/ Go("fail")
  <2>1. CASE Still /\ Go("fail")
    BY <1>0, <2>1 DEF DisksTyped, Steps
  <2>2. CASE ArmAllowed /\ (Publish(armed) \/ Replace(armed))
             /\ (Go("start") \/ Go("fail"))
    <3>1. (armed.record.state = "ready")
            <=> (armed.record.identity # NoIdentity)
      BY <1>0, <1>2 DEF DisksTyped
    <3>2. DisksTyped'
      BY <1>0, <1>2, <2>2, <3>1, WriteTyped
    <3> QED BY <1>0, <1>2, <2>2, <3>2 DEF Publish, Replace
  <2> QED BY <2>1, <2>2 DEF FArm, armed
<1>4. /\ finalizer' \in Finalizers /\ finalizer'.pc \in {"start", "fail"}
      /\ finalizer'.image = finalizer.image
  BY <1>0, <1>3, GoFacts
<1>5. NoneReady'
  BY <1>0, <1>2, <1>3 DEF NoneReady
<1>6. Typed'
  BY <1>0, <1>1, <1>3, <1>4 DEF Typed, HistoryTyped
<1>7. RecordsOK' /\ ClaimsOK'
  BY <1>1, <1>5 DEF Inv, RecordsOK, ClaimsOK, NoneReady, Certified
<1>8. FinalizerOK' /\ IdleOK'
  BY <1>0, <1>1, <1>4, <1>5 DEF FinalizerOK, IdleOK
<1>9. MarkersOK'
  BY <1>0, <1>1, <1>2, <1>3, <1>4 DEF Inv, MarkersOK
<1>10. GrantsOK'
  BY <1>0, <1>1, BootedFacts DEF GrantsOK
<1>11. RevokedOK'
  BY <1>0, <1>1, <1>3, <1>5 DEF Inv, RevokedOK
<1> QED BY <1>6, <1>7, <1>8, <1>9, <1>10, <1>11 DEF Inv

(* Readiness is recorded for the image that was verified.                  *)
LEMMA PublishStep ==
  ASSUME Inv, FPublish
  PROVE  Inv'
<1> USE DEF Isolated, Verified, Unarmed, Closed, Used, Steps
<1>0. /\ Typed /\ DisksTyped /\ disk \in survivors /\ finalizer.pc = "publish"
      /\ NoneMarked /\ NoneReady /\ Certified(container.claims)
      /\ container.mode = "published" /\ container.claims = finalizer.image
  BY DEF Inv, Typed, DisksTyped, FPublish, FinalizerOK
<1>1. /\ UNCHANGED <<latest, container, service, work, starter, verifier>>
      /\ UNCHANGED <<attempt, grants, certified, revoked, refused, overtaken>>
      /\ faults' \in 0..MaxFaults
  BY <1>0, FaultTyped DEF FPublish
<1>2. container \in Containers /\ container # Absent
  BY <1>0 DEF Typed, Absent
<1>3. /\ MarkReady \in Disks /\ MarkReady.marker = disk.marker
      /\ MarkReady.record.state = "ready"
      /\ MarkReady.record.identity.id = container.claims
      /\ MarkReady.record.identity # NoIdentity
  BY <1>0, <1>2, ReadyWritten DEF CurrentIdentity
<1>4. /\ DisksTyped' /\ survivors' \subseteq survivors \cup {MarkReady}
      /\ Go("confirm") \/ Go("fail")
      /\ UNCHANGED <<disk, survivors>> \/ disk.record.state = "finalizing"
  BY <1>0, <1>3, WriteTyped DEF FPublish, Publish, Replace, DisksTyped,
     ReadyAllowed
<1>5. /\ finalizer' \in Finalizers /\ finalizer'.pc \in {"confirm", "fail"}
      /\ finalizer'.image = finalizer.image
  BY <1>0, <1>4, GoFacts
<1>6. NoneMarked'
  BY <1>0, <1>3, <1>4 DEF NoneMarked
<1>7. Typed'
  BY <1>0, <1>1, <1>4, <1>5 DEF Typed, HistoryTyped
<1>8. RecordsOK'
  BY <1>0, <1>1, <1>3, <1>4, <1>6 DEF RecordsOK, NoneReady, Certified
<1>9. ClaimsOK' /\ GrantsOK'
  BY <1>1, <1>6 DEF Inv, ClaimsOK, GrantsOK, Certified
<1>10. FinalizerOK' /\ IdleOK'
  BY <1>0, <1>1, <1>5 DEF FinalizerOK, IdleOK, Certified
<1>11. MarkersOK'
  BY <1>1, <1>5, <1>6 DEF Inv, MarkersOK, NoneMarked
<1>12. RevokedOK'
  BY <1>0, <1>1, <1>4, <1>5 DEF Inv, RevokedOK, NoneReady
<1> QED BY <1>7, <1>8, <1>9, <1>10, <1>11, <1>12 DEF Inv

(* The marker is consumed: no image of the disk has it any more when the   *)
(* process is granted readiness.                                           *)
LEMMA ConsumeStep ==
  ASSUME Inv, Consume
  PROVE  Inv'
<1>0. /\ Typed /\ DisksTyped /\ disk \in survivors /\ work \in Works
      /\ service # Down /\ container # Absent /\ disk.marker # NoMarker
      /\ disk.marker.serial \in 1..attempt /\ grants[disk.marker.serial] = 0
      /\ attempt \in 0..MaxAttempts /\ grants \in [1..MaxAttempts -> Nat]
      /\ MaxAttempts \in Nat
  BY BoundsNatural DEF Inv, Typed, DisksTyped, HistoryTyped, Consume, Down,
     MarkersOK
<1>1. /\ UNCHANGED <<latest, container, work, finalizer, starter, verifier>>
      /\ UNCHANGED <<attempt, certified, revoked, refused, overtaken>>
      /\ faults' \in 0..MaxFaults
  BY <1>0, FaultTyped DEF Consume
<1>2. /\ Unmarked \in Disks /\ Unmarked.record = disk.record
      /\ Unmarked.marker = NoMarker
      /\ (Unmarked.record.state = "ready")
           <=> (Unmarked.record.identity # NoIdentity)
  BY <1>0, UnmarkedWritten DEF DisksTyped
<1>3. /\ DisksTyped' /\ Lessened /\ disk'.record = disk.record
  BY <1>0, <1>2, WriteTyped
     DEF Consume, Publish, Unlink, Lessened, DisksTyped
<1>4. /\ RecordsOK'
      /\ NoneReady => NoneReady'
      /\ NoneMarked => NoneMarked'
  BY <1>1, <1>3, LessenedKeeps
<1>5. \/ service' = Down /\ UNCHANGED grants
      \/ /\ service' = [phase |-> "serving", provisional |-> Granted]
         /\ CountGrant /\ NoneMarked'
  BY <1>2 DEF Consume, Publish, NoneMarked
<1>6. service' \in Phases /\ (service'.provisional => Granted /\ NoneMarked')
  <2>1. Granted \in BOOLEAN
    BY DEF Granted
  <2> QED BY <1>5, <2>1, BootedFacts DEF Phases
<1>7. /\ grants' \in [1..MaxAttempts -> Nat]
      /\ \A n \in 1..MaxAttempts : grants'[n] = grants[n]
           \/ (n = disk.marker.serial /\ grants'[n] = 1 /\ NoneMarked')
  BY <1>0, <1>5 DEF CountGrant
<1>8. Typed'
  BY <1>0, <1>1, <1>3, <1>6, <1>7 DEF Typed, HistoryTyped
<1>9. ClaimsOK'
  BY <1>1 DEF Inv, ClaimsOK, Certified
<1>10. FinalizerOK'
  BY <1>0, <1>1, <1>4 DEF Inv, FinalizerOK, Certified
<1>11. IdleOK' /\ RevokedOK'
  BY <1>1, <1>3, <1>4 DEF Inv, IdleOK, RevokedOK, Unfinished
<1>12. GrantsOK'
  <2>1. ~NoneMarked
    BY <1>0 DEF NoneMarked
  <2> QED BY <1>1, <1>4, <1>6, <2>1 DEF Inv, GrantsOK
<1>13. MarkersOK'
  <2>1. /\ \A n \in 1..MaxAttempts : grants'[n] <= 1
        /\ \A n \in 1..MaxAttempts : n > attempt => grants'[n] = 0
    BY <1>0, <1>7 DEF Inv, MarkersOK
  <2>2. ASSUME NEW d \in survivors', d.marker # NoMarker
        PROVE  d.marker.serial \in 1..attempt /\ grants'[d.marker.serial] = 0
    <3>1. PICK e \in survivors : d.marker = e.marker
      BY <1>3, <2>2 DEF Lessened
    <3>2. d.marker.serial \in 1..attempt /\ grants[d.marker.serial] = 0
      BY <2>2, <3>1 DEF Inv, MarkersOK
    <3>3. ~NoneMarked'
      BY <2>2 DEF NoneMarked
    <3> QED BY <1>0, <1>7, <3>2, <3>3
  <2>3. ASSUME finalizer.pc \in Unarmed
        PROVE  /\ attempt >= 1 /\ grants'[attempt] = 0
               /\ \A d \in survivors' : d.marker.serial # attempt
    <3>1. /\ attempt >= 1 /\ grants[attempt] = 0
          /\ \A d \in survivors : d.marker.serial # attempt
      BY <2>3 DEF Inv, MarkersOK
    <3>2. NoMarker.serial # attempt
      BY <3>1 DEF NoMarker
    <3>3. \A d \in survivors' : d.marker.serial # attempt
      BY <1>3, <3>1, <3>2 DEF Lessened
    <3> QED BY <1>0, <1>7, <3>1, <3>3
  <2> QED BY <1>1, <2>1, <2>2, <2>3 DEF MarkersOK
<1> QED BY <1>4, <1>8, <1>9, <1>10, <1>11, <1>12, <1>13 DEF Inv

-----------------------------------------------------------------------------
LEMMA InvInit == Init => Inv
<1> SUFFICES ASSUME Init PROVE Inv
  OBVIOUS
<1> USE DEF Steps, Isolated, Verified, Unarmed, Closed, Used
<1>1. disk.record.state = None /\ disk.record.identity = NoIdentity
      /\ disk.marker = NoMarker /\ survivors = {disk}
  BY DEF Init, Recorded
<1>2. disk \in Disks
  BY NoIdentityTyped, BoundsNatural DEF Init, Recorded, Disks, NoMarker
<1>3. NoneReady /\ NoneMarked /\ DisksTyped
  BY <1>1, <1>2 DEF NoneReady, NoneMarked, DisksTyped, None
<1>4. /\ finalizer \in Finalizers /\ finalizer.pc = "idle"
      /\ starter \in Starters /\ starter.pc = "idle"
      /\ verifier \in Verifiers /\ work \in Works
      /\ container \in Containers /\ container.mode = "absent"
  BY DEF Init, Finalizers, Starters, Verifiers, Works, Containers, Absent
<1>5. /\ service \in Phases /\ service = Down /\ ~service.provisional
  BY BootedFacts DEF Init
<1>6. HistoryTyped
  <2>1. attempt \in 0..MaxAttempts /\ faults \in 0..MaxFaults
    <3>1. attempt = 0 /\ faults = 0
      BY DEF Init
    <3> QED BY <3>1, BoundsNatural
  <2>2. grants \in [1..MaxAttempts -> Nat]
    <3>1. grants = [n \in 1..MaxAttempts |-> 0]
      BY DEF Init
    <3> QED BY <3>1
  <2>3. certified \subseteq Images \X Images
    BY DEF Init
  <2>4. revoked \in BOOLEAN /\ refused \in BOOLEAN /\ overtaken \in BOOLEAN
    BY Zenon DEF Init
  <2> QED BY <2>1, <2>2, <2>3, <2>4 DEF HistoryTyped
<1>7. Typed
  BY <1>3, <1>4, <1>5, <1>6 DEF Init, Typed
<1>8. RecordsOK /\ ClaimsOK /\ FinalizerOK /\ GrantsOK /\ IdleOK
  BY <1>3, <1>4, <1>5 DEF RecordsOK, NoneReady, ClaimsOK, FinalizerOK,
     GrantsOK, IdleOK
<1>9. MarkersOK /\ RevokedOK
  BY <1>1, <1>4 DEF Init, MarkersOK, RevokedOK
<1> QED BY <1>7, <1>8, <1>9 DEF Inv

LEMMA InvStep == Inv /\ [Next]_vars => Inv'
<1> SUFFICES ASSUME Inv, [Next]_vars PROVE Inv'
  OBVIOUS
<1>1. CASE UNCHANGED vars
  <2>1. UNCHANGED <<disk, survivors, latest, container, service, work,
                    finalizer, starter, verifier, faults>>
    BY <1>1 DEF vars
  <2>2. UNCHANGED <<attempt, grants, certified, revoked, refused, overtaken>>
    BY <1>1 DEF vars
  <2>3. Unfinished' = Unfinished
    BY <2>1 DEF Unfinished
  <2> QED BY <2>1, <2>2, <2>3, ServiceStep DEF Inv, Typed, HistoryTyped
<1>2. CASE Finalize
  BY <1>2, FLoadStep, GateStep, StopSteps, PlainSteps, RemoveSteps, CreateStep,
     ArmStep, HealthSteps, VerificationSteps, RunContainerStep, PublishStep,
     FailSteps DEF Finalize
<1>3. CASE Serve \/ \E r \in Clients : Submit(r)
  BY <1>3, ConsumeStep, ServeSteps DEF Serve
<1>4. CASE Verify
  BY <1>4, QuietSteps, FailSteps DEF Verify
<1>5. CASE SCheck \/ SStart \/ DockerStart \/ Stop \/ Kill \/ PowerFailure
           \/ \E image \in Images : Build(image)
  BY <1>5, SCheckStep, SStartStep, QuietSteps, PlainSteps, PowerFailureStep
<1> QED BY <1>1, <1>2, <1>3, <1>4, <1>5 DEF Next

LEMMA AlwaysInv == Spec => []Inv
BY InvInit, InvStep, PTL DEF Spec

(* Every variable has its type, and the record of readiness has an         *)
(* identity exactly when it says ready.                                    *)
THEOREM ReadinessTyped == Spec => []TypeOK
<1>1. Inv => TypeOK
  BY DEF Inv, Typed, DisksTyped, HistoryTyped, TypeOK, Works, Phases,
     Containers, Finalizers, Starters, Verifiers
<1> QED BY <1>1, AlwaysInv, PTL

(* Whatever is killed, restarted, built or loses power, a service that can *)
(* be reached admits work only under a verified image id and on a durable  *)
(* record, unless a start was under way when the marker was armed.         *)
THEOREM AdmissionAlwaysEarned == Spec => []AdmissionIsEarned
<1>1. ASSUME Inv PROVE AdmissionIsEarned
  <2>1. container.mode = "published" => Certified(container.claims)
    BY <1>1 DEF Inv, ClaimsOK
  <2>2. Published_Ready => disk.record.state = "ready" \/ overtaken
    BY <1>1 DEF Inv, GrantsOK, Published_Ready, Ready
  <2> QED BY <2>1, <2>2 DEF AdmissionIsEarned, Published_Ready, Certified
<1> QED BY <1>1, AlwaysInv, PTL

(* No marker makes two processes ready, for no restart finds it again.     *)
THEOREM OneLifeForAMarker == Spec => []OneLifePerMarker
<1>1. Inv => OneLifePerMarker
  BY DEF Inv, Typed, HistoryTyped, MarkersOK, OneLifePerMarker
<1> QED BY <1>1, AlwaysInv, PTL

(* Data are replaced with no calculation unfinished and nothing admitted,  *)
(* with the same exception.                                                *)
THEOREM AlwaysIdleWhileDataChanges == Spec => []IdleWhileDataChanges
<1>1. ASSUME Inv PROVE IdleWhileDataChanges
  <2>1. "activate" \in Closed
    BY DEF Closed, Unarmed
  <2>2. finalizer.pc = "activate" /\ ~overtaken => ~Published_Ready
    BY <1>1, <2>1, ReadyWhileClosed DEF Published_Ready
  <2> QED BY <1>1, <2>2 DEF Inv, IdleOK, IdleWhileDataChanges
<1> QED BY <1>1, AlwaysInv, PTL

(* A recorded failure keeps the deployment closed until the next           *)
(* finalization passes its gate, on every image a power failure may leave. *)
THEOREM RevokedStaysClosed == Spec => []RevokedIsNotReady
<1>1. Inv => RevokedIsNotReady
  BY DEF Inv, RevokedOK, NoneReady, RevokedIsNotReady
<1> QED BY <1>1, AlwaysInv, PTL
=============================================================================
