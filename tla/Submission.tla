---------------------------- MODULE Submission -----------------------------
(***************************************************************************)
(* Requests for one event, submitted concurrently (submission.py, and the  *)
(* endpoint in main.py): the publication of uploads into the caller's      *)
(* input directory with its one rollback, the snapshot, the allocation of  *)
(* a sequence number and the publication of the queue entry by one rename. *)
(*                                                                         *)
(* disk is what the kernel shows, survivors are the images a power failure *)
(* may leave: the file system is ordered, so an fsync makes everything     *)
(* that was done before it durable.  The queue's consumer, the operator's  *)
(* finalization and the caller, who may put files into the input directory *)
(* at any time (but replaces none), are the environment.                   *)
(***************************************************************************)
EXTENDS Naturals, FiniteSets, FiniteSetsExt

CONSTANTS Requests, Names, Required, MaxFaults

ASSUME RequestsFinite == IsFiniteSet(Requests)
ASSUME RequiredIsName == Required \in Names
ASSUME MaxFaultsNatural == MaxFaults \in Nat

VARIABLES
    disk, survivors,
    pc,             \* what the thread of a request does next, or its answer
    job,            \* its local variables
    inputLock,      \* who holds the flock of the event's input directory
    coordination,   \* who holds the coordination lock
    ready,          \* the recorded readiness (durable)
    settled,        \* (for the properties) the bytes each input must keep
    withdrawn,      \* ... the <<request, name>> that were rolled back
    used,           \* ... the sequence a request's entry was visible under
    before,         \* ... the requests acknowledged before it began
    faults

locks   == <<inputLock, coordination>>
history == <<settled, withdrawn, used, before>>
vars    == <<disk, survivors, pc, job, locks, ready, history, faults>>

Nobody   == "nobody"
Contents == {"none", "caller"} \cup Requests   \* whose bytes a file holds

(* A request is none of these marks.                                       *)
ASSUME RequestsAreNoMarks == {Nobody, "none", "caller"} \cap Requests = {}

NoFiles  == [n \in Names |-> "none"]
NoJob    == [uploads |-> {}, replacing |-> {}, todo |-> {}, file |-> "none",
             retain |-> FALSE]

(* The directory entries of one request: its tree is the private directory *)
(* .accept-*, an entry of the queue, the current record, or it has ended.  *)
(* hold has the private links to bytes an upload replaces.                 *)
EmptyDisk ==
    [input |-> NoFiles, counter |-> 1,
     tree |-> [r \in Requests |-> "none"], hold |-> [r \in Requests |-> NoFiles],
     snapshot |-> [r \in Requests |-> NoFiles], seq |-> [r \in Requests |-> 0]]

Visible   == {r \in Requests : disk.tree[r] = "queue"}
Unfinished == {r \in Requests : disk.tree[r] \in {"queue", "current"}}

Change(d)  == disk' = d /\ survivors' = survivors \cup {d}
Sync       == UNCHANGED disk /\ survivors' = {disk}
ChangeSync(d) == disk' = d /\ survivors' = {d}
Still      == UNCHANGED <<disk, survivors>>

MayFail == faults < MaxFaults /\ faults' = faults + 1
NoFault == UNCHANGED faults
(* Something failed, and so did a second operation if second is TRUE.      *)
MayFailTwice(second) ==
    IF second THEN faults + 1 < MaxFaults /\ faults' = faults + 2 ELSE MayFail

Go(r, step) == pc' = [pc EXCEPT ![r] = step]
Proceed(r, step) == Go(r, step) /\ UNCHANGED <<job, locks>>

(* An exception leaves the coordination lock and reaches the cleanup.      *)
Fail(r, retain) ==
    /\ Go(r, "cleanup")
    /\ job' = [job EXCEPT ![r].retain = retain]
    /\ coordination' = IF coordination = r THEN Nobody ELSE coordination
    /\ UNCHANGED inputLock

(* ... of the publication of uploads: the private file is removed, and the *)
(* private tree is kept when that fails.                                   *)
FailCleaningUp(r) == \E problem \in BOOLEAN :
                        Fail(r, problem) /\ MayFailTwice(problem)

-----------------------------------------------------------------------------
(* _validated_uploads: one upload for a name.                              *)
Uploads == SUBSET Names

(* submit_event_endpoint looks at the readiness before it reads the form.  *)
Begin(r) ==
    /\ pc[r] = "idle"
    /\ \/ /\ ready /\ Go(r, "lock")
          /\ \E uploads \in Uploads :
                job' = [job EXCEPT ![r] = [NoJob EXCEPT !.uploads = uploads]]
       \/ ~ready /\ Go(r, "rejected") /\ UNCHANGED job
    /\ before' = [before EXCEPT ![r] = {q \in Requests : pc[q] = "accepted"}]
    /\ Still /\ NoFault /\ UNCHANGED <<locks, ready, settled, withdrawn, used>>

(* Variant: the input directory is not locked.                             *)
LockInputNot(r) ==
    /\ pc[r] = "lock" /\ Go(r, "mkdir")
    /\ job' = [job EXCEPT ![r].replacing =
                  {n \in job[r].uploads : disk.input[n] # "none"}]
    /\ Still /\ NoFault /\ UNCHANGED <<locks, ready, history>>

(* accept_request locks the input directory and sees what it will replace. *)
LockInput(r) ==
    /\ pc[r] = "lock"
    /\ \/ /\ inputLock = Nobody /\ inputLock' = r /\ Go(r, "mkdir")
          /\ job' = [job EXCEPT ![r].replacing =
                        {n \in job[r].uploads : disk.input[n] # "none"}]
          /\ NoFault
       \/ Go(r, "rejected") /\ MayFail /\ UNCHANGED <<job, inputLock>>
    /\ Still /\ UNCHANGED <<coordination, ready, history>>

MakePrivate(r) ==
    LET made == [disk EXCEPT !.tree[r] = "private"] IN
    /\ pc[r] = "mkdir"
    /\ \/ /\ ChangeSync(made) /\ Go(r, "stream") /\ NoFault
          /\ UNCHANGED <<job, locks>>
       \/ Fail(r, FALSE) /\ MayFail /\ (Still \/ Change(made))
    /\ UNCHANGED <<ready, history>>

(* Every upload is written into the private directory before any of them   *)
(* is published.                                                           *)
Stream(r) ==
    /\ pc[r] = "stream"
    /\ \/ /\ Go(r, "publish") /\ NoFault /\ UNCHANGED locks
          /\ job' = [job EXCEPT ![r].todo = job[r].uploads]
       \/ job[r].uploads # {} /\ FailCleaningUp(r)
    /\ Still /\ UNCHANGED <<ready, history>>

-----------------------------------------------------------------------------
(* _publish_upload, file after file.                                       *)

NextUpload(r) ==
    /\ pc[r] = "publish"
    /\ \/ \E n \in job[r].todo :
            /\ job' = [job EXCEPT ![r].file = n, ![r].todo = job[r].todo \ {n}]
            /\ Go(r, IF n \in job[r].replacing THEN "backup" ELSE "link")
       \/ job[r].todo = {} /\ Go(r, "rmdir") /\ UNCHANGED job
    /\ Still /\ NoFault /\ UNCHANGED <<locks, ready, history>>

(* _replace_existing_upload: a private link keeps the preceding bytes.     *)
Backup(r) ==
    LET n == job[r].file IN
    /\ pc[r] = "backup"
    /\ \/ /\ Change([disk EXCEPT !.hold[r][n] = disk.input[n]])
          /\ Proceed(r, "replace") /\ NoFault
       \/ Still /\ FailCleaningUp(r)
    /\ UNCHANGED <<ready, history>>

Replace(r) ==
    /\ pc[r] = "replace"
    /\ \/ /\ Change([disk EXCEPT !.input[job[r].file] = r])
          /\ Proceed(r, "sync_replaced") /\ NoFault
       \/ Still /\ Proceed(r, "rollback") /\ MayFail
    /\ UNCHANGED <<ready, history>>

SyncReplaced(r) ==
    /\ pc[r] = "sync_replaced"
    /\ \/ Sync /\ Proceed(r, "unlink_backup") /\ NoFault
       \/ Still /\ Proceed(r, "rollback") /\ MayFail
    /\ UNCHANGED <<ready, history>>

RemoveBackup(r) ==
    LET n == job[r].file IN
    /\ pc[r] = "unlink_backup"
    /\ \/ /\ Change([disk EXCEPT !.hold[r][n] = "none"])
          /\ settled' = [settled EXCEPT ![n] = r]
          /\ Proceed(r, "sync_private") /\ NoFault
       \/ /\ Still /\ UNCHANGED settled
          /\ Proceed(r, "rollback") /\ MayFail
    /\ UNCHANGED <<ready, withdrawn, used, before>>

(* Variant: the private tree is not kept when the rollback fails.          *)
RollbackFailsForgetful(r) ==
    pc[r] = "rollback" /\ Still /\ Fail(r, FALSE) /\ MayFail
        /\ UNCHANGED <<ready, history>>

(* The one rollback fails, and the private tree is kept ...                *)
RollbackFails(r) ==
    /\ pc[r] = "rollback" /\ Still /\ Fail(r, TRUE) /\ MayFail
    /\ UNCHANGED <<ready, history>>

(* ... or it renames the private link back.  When both names are links to  *)
(* the same file, rename does nothing.  A failing sync is only reported.   *)
Rollback(r) ==
    LET n    == job[r].file
        back == IF disk.input[n] = disk.hold[r][n] THEN disk
                ELSE [disk EXCEPT !.input[n] = disk.hold[r][n],
                                  !.hold[r][n] = "none"]
    IN  /\ pc[r] = "rollback"
        /\ withdrawn' = withdrawn \cup {<<r, n>>}
        /\ \/ ChangeSync(back) /\ Fail(r, FALSE) /\ NoFault
           \/ Change(back) /\ Fail(r, FALSE) /\ MayFail
           \/ (Change(back) \/ ChangeSync(back)) /\ Fail(r, TRUE) /\ MayFail
        /\ UNCHANGED <<ready, settled, used, before>>

(* _publish_new_upload: link refuses a name that has appeared meanwhile.   *)
Link(r) ==
    LET n == job[r].file IN
    /\ pc[r] = "link"
    /\ \/ /\ disk.input[n] = "none"
          /\ Change([disk EXCEPT !.input[n] = r])
          /\ Proceed(r, "sync_new") /\ NoFault
       \/ Still /\ disk.input[n] # "none" /\ Fail(r, FALSE) /\ NoFault
       \/ Still /\ disk.input[n] # "none" /\ Fail(r, TRUE) /\ MayFail
       \/ Still /\ FailCleaningUp(r)
    /\ UNCHANGED <<ready, history>>

SyncNew(r) ==
    /\ pc[r] = "sync_new"
    /\ \/ /\ Sync /\ Proceed(r, "unlink_private") /\ NoFault
          /\ settled' = [settled EXCEPT ![job[r].file] = r]
       \/ Still /\ FailCleaningUp(r) /\ UNCHANGED settled
    /\ UNCHANGED <<ready, withdrawn, used, before>>

RemovePrivate(r) ==
    /\ pc[r] = "unlink_private"
    /\ \/ Proceed(r, "sync_private") /\ NoFault
       \/ Fail(r, TRUE) /\ MayFail
    /\ Still /\ UNCHANGED <<ready, history>>

SyncPrivate(r) ==
    /\ pc[r] = "sync_private"
    /\ \/ Sync /\ Proceed(r, "publish") /\ NoFault
       \/ Still /\ Fail(r, FALSE) /\ MayFail
    /\ UNCHANGED <<ready, history>>

(* The directory of uploads is removed when there was one.                 *)
RemoveUploads(r) ==
    /\ pc[r] = "rmdir"
    /\ \/ job[r].uploads # {} /\ Sync /\ Proceed(r, "snapshot") /\ NoFault
       \/ job[r].uploads = {} /\ Still /\ Proceed(r, "snapshot") /\ NoFault
       \/ /\ job[r].uploads # {} /\ Still /\ MayFail
          /\ \E retain \in BOOLEAN : Fail(r, retain)
    /\ UNCHANGED <<ready, history>>

Copied(r) == [disk EXCEPT !.snapshot[r] = disk.input]

(* _snapshot_inputs copies the files it has listed, which nobody changes   *)
(* under the lock, and syncs them; then the input directory is unlocked.   *)
Snapshot(r) ==
    /\ pc[r] = "snapshot"
    /\ \/ /\ disk.input[Required] # "none"
          /\ ChangeSync(Copied(r))
          /\ Go(r, "coordinate") /\ inputLock' = Nobody /\ NoFault
          /\ UNCHANGED <<job, coordination>>
       \/ disk.input[Required] = "none" /\ Still /\ Fail(r, FALSE) /\ NoFault
       \/ Still /\ Fail(r, FALSE) /\ MayFail
    /\ UNCHANGED <<ready, history>>

-----------------------------------------------------------------------------
(* _publish_queue_entry.                                                   *)

(* Variant: the readiness the endpoint has seen is good enough.            *)
CoordinateStale(r) ==
    /\ pc[r] = "coordinate" /\ coordination = Nobody
    /\ coordination' = r /\ Go(r, "allocate")
    /\ Still /\ NoFault /\ UNCHANGED <<job, inputLock, ready, history>>

(* The readiness is read under the coordination lock.                      *)
Coordinate(r) ==
    /\ pc[r] = "coordinate" /\ coordination = Nobody
    /\ \/ /\ ready /\ coordination' = r /\ Go(r, "allocate") /\ NoFault
          /\ UNCHANGED <<job, inputLock>>
       \/ ~ready /\ Fail(r, FALSE) /\ NoFault
       \/ Fail(r, FALSE) /\ MayFail
    /\ Still /\ UNCHANGED <<ready, history>>

(* Variant: the counter is not looked at.                                  *)
SequenceFromQueueOnly == Max({disk.seq[r] : r \in Visible} \cup {0}) + 1

(* _queue_sequence_from_disk                                               *)
SequenceFromDisk ==
    Max({disk.seq[r] + 1 : r \in Visible} \cup {disk.counter})

(* The record and the manifest are written into the private tree, synced.  *)
Allocate(r) ==
    LET written == [disk EXCEPT !.seq[r] = SequenceFromDisk] IN
    /\ pc[r] = "allocate"
    /\ \/ ChangeSync(written) /\ Proceed(r, "store") /\ NoFault
       \/ (Still \/ Change(written)) /\ Fail(r, FALSE) /\ MayFail
    /\ UNCHANGED <<ready, history>>

(* Variant: the counter is not synced before the entry is published.       *)
StoreNextUnsynced(r) ==
    /\ pc[r] = "store"
    /\ Change([disk EXCEPT !.counter = disk.seq[r] + 1])
    /\ Proceed(r, "rename") /\ NoFault /\ UNCHANGED <<ready, history>>

(* _store_next_sequence                                                    *)
StoreNext(r) ==
    LET stored == [disk EXCEPT !.counter = disk.seq[r] + 1] IN
    /\ pc[r] = "store"
    /\ \/ ChangeSync(stored) /\ Proceed(r, "rename") /\ NoFault
       \/ (Still \/ Change(stored)) /\ Fail(r, FALSE) /\ MayFail
    /\ UNCHANGED <<ready, history>>

Rename(r) ==
    /\ pc[r] = "rename"
    /\ \/ /\ \A q \in Visible : disk.seq[q] # disk.seq[r]
          /\ Change([disk EXCEPT !.tree[r] = "queue"])
          /\ used' = [used EXCEPT ![r] = disk.seq[r]]
          /\ Proceed(r, "sync_queue") /\ NoFault
       \/ /\ \E q \in Visible : disk.seq[q] = disk.seq[r]
          /\ Still /\ Fail(r, FALSE) /\ NoFault /\ UNCHANGED used
       \/ Still /\ Fail(r, FALSE) /\ MayFail /\ UNCHANGED used
    /\ UNCHANGED <<ready, settled, withdrawn, before>>

(* Variant: the coordination lock is given to somebody else.               *)
AnsweredByOthers(r) == /\ Go(r, "accepted") /\ coordination' = "other"
                       /\ UNCHANGED <<job, inputLock>>

Answered(r) == /\ Go(r, "accepted") /\ coordination' = Nobody
               /\ UNCHANGED <<job, inputLock>>

(* Variant: the request is acknowledged without the sync.                  *)
SyncQueueNot(r) == /\ pc[r] = "sync_queue" /\ Still /\ Answered(r) /\ NoFault
                   /\ UNCHANGED <<ready, history>>

(* The queue directory is synced before the entry is acknowledged.  When   *)
(* that fails the caller is told so, and the entry stays in the queue.     *)
SyncQueue(r) ==
    /\ pc[r] = "sync_queue"
    /\ \/ Sync /\ Answered(r) /\ NoFault
       \/ Still /\ Fail(r, FALSE) /\ MayFail
    /\ UNCHANGED <<ready, history>>

(* Variant: the input directory stays locked after a failure.              *)
UnlockedNever(r) == inputLock

Unlocked(r) == IF inputLock = r THEN Nobody ELSE inputLock

(* _cleanup_private_queue_directory, unless the private tree is kept for   *)
(* the bytes it may hold; then the request is answered with an error.      *)
Cleanup(r) ==
    LET emptied == [disk EXCEPT !.hold[r] = NoFiles]
        removed == [emptied EXCEPT !.tree[r] = "none"]
    IN  /\ pc[r] = "cleanup"
        /\ \/ job[r].retain /\ Still /\ NoFault
           \/ ~job[r].retain /\ disk.tree[r] = "none" /\ Still /\ NoFault
           \/ /\ ~job[r].retain /\ disk.tree[r] = "private"
              /\ \/ ChangeSync(removed) /\ NoFault
                 \/ (Still \/ Change(emptied) \/ Change(removed)) /\ MayFail
           \/ /\ ~job[r].retain /\ disk.tree[r] \notin {"none", "private"}
              /\ (Sync /\ NoFault) \/ (Still /\ MayFail)
        /\ Go(r, "rejected") /\ inputLock' = Unlocked(r)
        /\ UNCHANGED <<job, coordination, ready, history>>

Work(r) == \/ LockInput(r) \/ MakePrivate(r) \/ Stream(r) \/ NextUpload(r)
           \/ Backup(r) \/ Replace(r) \/ SyncReplaced(r) \/ RemoveBackup(r)
           \/ Rollback(r) \/ RollbackFails(r)
           \/ Link(r) \/ SyncNew(r) \/ RemovePrivate(r) \/ SyncPrivate(r)
           \/ RemoveUploads(r) \/ Snapshot(r) \/ Coordinate(r) \/ Allocate(r)
           \/ StoreNext(r) \/ Rename(r) \/ SyncQueue(r) \/ Cleanup(r)

-----------------------------------------------------------------------------
(* The environment.                                                        *)

(* External: the caller puts a file into the shared input directory.       *)
CallerPlaces(n) ==
    /\ disk.input[n] = "none"
    /\ ChangeSync([disk EXCEPT !.input[n] = "caller"])
    /\ settled' = [settled EXCEPT ![n] = "caller"]
    /\ UNCHANGED <<pc, job, locks, ready, withdrawn, used, before, faults>>

(* The entry is promoted, and its calculation ends.                        *)
Promote(r) ==
    /\ disk.tree[r] = "queue"
    /\ Change([disk EXCEPT !.tree[r] = "current"])
    /\ UNCHANGED <<pc, job, locks, ready, history, faults>>
End(r) ==
    /\ disk.tree[r] = "current"
    /\ ChangeSync([disk EXCEPT !.tree[r] = "ended"])
    /\ UNCHANGED <<pc, job, locks, ready, history, faults>>

(* finalization.begin closes admission only when no work is unfinished.    *)
FinalizationBegins ==
    /\ coordination = Nobody /\ Unfinished = {} /\ ready' = FALSE
    /\ Sync /\ UNCHANGED <<pc, job, locks, history, faults>>
FinalizationEnds ==
    /\ coordination = Nobody /\ ~ready /\ ready' = TRUE
    /\ Sync /\ UNCHANGED <<pc, job, locks, history, faults>>

(* The process dies, alone or with the machine; nobody resumes a request.  *)
(* A power failure may undo a rollback that was not synced.                *)
Crash ==
    /\ \E image \in survivors \cup {disk} :
          /\ ChangeSync(image)
          /\ withdrawn' = {w \in withdrawn : image.input[w[2]] # w[1]}
    /\ pc' = [r \in Requests |-> IF pc[r] \in {"idle", "accepted", "rejected"}
                                 THEN pc[r] ELSE "dead"]
    /\ inputLock' = Nobody /\ coordination' = Nobody
    /\ UNCHANGED <<job, ready, settled, used, before, faults>>

-----------------------------------------------------------------------------
Init == /\ disk = EmptyDisk /\ survivors = {EmptyDisk}
        /\ pc = [r \in Requests |-> "idle"]
        /\ job = [r \in Requests |-> NoJob]
        /\ inputLock = Nobody /\ coordination = Nobody
        /\ ready = TRUE
        /\ settled = NoFiles /\ withdrawn = {}
        /\ used = [r \in Requests |-> 0] /\ before = [r \in Requests |-> {}]
        /\ faults = 0

Next == \/ \E r \in Requests : Begin(r) \/ Work(r) \/ Promote(r) \/ End(r)
        \/ \E n \in Names : CallerPlaces(n)
        \/ FinalizationBegins \/ FinalizationEnds \/ Crash

Spec == Init /\ [][Next]_vars

(* Threads run, and a lock that is free again and again is granted.        *)
FairSpec == Spec /\ \A r \in Requests : SF_vars(Work(r))

-----------------------------------------------------------------------------
Steps == {"lock", "mkdir", "stream", "publish", "backup", "replace",
          "sync_replaced", "unlink_backup", "rollback", "link", "sync_new",
          "unlink_private", "sync_private", "rmdir", "snapshot", "coordinate",
          "allocate", "store", "rename", "sync_queue", "cleanup"}
Answers == {"accepted", "rejected"}

Disks == [input : [Names -> Contents], counter : Nat \ {0},
          tree : [Requests -> {"none", "private", "queue", "current", "ended"}],
          hold : [Requests -> [Names -> Contents]],
          snapshot : [Requests -> [Names -> Contents]], seq : [Requests -> Nat]]

TypeOK ==
    /\ disk \in Disks /\ \A image \in survivors : image \in Disks
    /\ pc \in [Requests -> {"idle", "dead"} \cup Steps \cup Answers]
    /\ job \in [Requests -> [uploads : SUBSET Names, replacing : SUBSET Names,
                             todo : SUBSET Names, file : Names \cup {"none"},
                             retain : BOOLEAN]]
    /\ {inputLock, coordination} \subseteq Requests \cup {Nobody}
    /\ ready \in BOOLEAN
    /\ settled \in [Names -> Contents] /\ withdrawn \subseteq Requests \X Names
    /\ used \in [Requests -> Nat] /\ before \in [Requests -> SUBSET Requests]
    /\ faults \in 0..MaxFaults

(* A sequence under which an entry was once visible is never given to      *)
(* another one: also when the entry has left the queue, or when a power    *)
(* failure has taken it back.                                              *)
SequenceNeverReused ==
    \A r, q \in Requests : r # q /\ used[r] # 0 => used[r] # used[q]

(* A request that began after another one was acknowledged is queued       *)
(* behind it.                                                              *)
AcknowledgedFirst ==
    \A r \in Requests : used[r] # 0 => \A q \in before[r] : used[q] < used[r]

(* An entry of the queue has the required file, the request's own uploads, *)
(* and no bytes of a request that took them back; it has its sequence, and *)
(* the counter is beyond it.  So it is in every image of a power failure.  *)
EntryIsWhole ==
    \A image \in survivors \cup {disk}, r \in Requests :
        image.tree[r] \in {"queue", "current", "ended"} =>
            /\ image.snapshot[r][Required] # "none"
            /\ \A n \in job[r].uploads : image.snapshot[r][n] = r
            /\ \A n \in Names : <<image.snapshot[r][n], n>> \notin withdrawn
            /\ image.seq[r] \in 1..(image.counter - 1)

(* Bytes the caller has put or successfully uploaded into the input        *)
(* directory are there, or in a private tree that is kept, until an upload *)
(* has replaced them: whichever step fails, and in every image of a power  *)
(* failure.                                                                *)
BytesAreKept ==
    \A image \in survivors \cup {disk}, n \in Names :
        \/ settled[n] \in {"none", image.input[n]}
        \/ \E r \in Requests : image.tree[r] = "private"
                               /\ image.hold[r][n] = settled[n]

(* An acknowledged request survives a power failure.                       *)
AcceptedIsDurable ==
    \A r \in Requests : pc[r] = "accepted" =>
        \A image \in survivors : image.tree[r] \in {"queue", "current", "ended"}

(* While the deployment is being finalized no accepted work is unfinished. *)
QuietWhileFinalizing == ~ready => Unfinished = {}

(* Every request is answered, unless the process dies.                     *)
EveryoneIsAnswered ==
    \A r \in Requests : pc[r] = "lock" ~> pc[r] \in Answers \cup {"dead"}
=============================================================================
