-------------------------- MODULE SubmissionProofs --------------------------
(***************************************************************************)
(* Proofs about Submission, for every finite set of requests, all names of *)
(* input files and every number of faults.                                 *)
(***************************************************************************)
EXTENDS Submission, TLAPS

(* Where a request holds the lock of the input directory, and where it has *)
(* the coordination lock.                                                  *)
Locked == {"mkdir", "stream", "publish", "backup", "replace", "sync_replaced",
           "unlink_backup", "rollback", "link", "sync_new", "unlink_private",
           "sync_private", "rmdir", "snapshot"}
Admitting    == {"allocate", "store", "rename"}
Coordinating == Admitting \cup {"sync_queue"}

(* Where it has not yet written, where the preceding bytes of its file are *)
(* in its private tree, and where its tree is private.                     *)
Early     == {"idle", "lock", "mkdir", "stream"}
Replacing == {"sync_replaced", "unlink_backup", "rollback"}
Private   == (Locked \ {"mkdir"}) \cup {"coordinate"} \cup Admitting
Snapped   == {"coordinate", "sync_queue"} \cup Admitting
Filed     == {"backup", "replace", "link", "sync_new", "unlink_private"}
             \cup Replacing
Left      == {"cleanup", "rejected", "dead"}

Landed(d, r) == d.tree[r] \in {"queue", "current", "ended"}

(* The names the request has not published yet.                            *)
Pending(r) == IF pc[r] \in Early THEN Names
              ELSE IF pc[r] \in {"backup", "replace", "link"}
                   THEN job[r].todo \cup {job[r].file} ELSE job[r].todo

-----------------------------------------------------------------------------
(* The inductive invariant: what holds of each request, ...                *)

LocksAt(r) == /\ pc[r] \in Locked => inputLock = r
              /\ pc[r] \in Coordinating => coordination = r
              /\ pc[r] \in Admitting => ready

JobAt(r) ==
    /\ pc[r] \in Locked => \A n \in job[r].replacing : disk.input[n] # "none"
    /\ pc[r] \in Locked \ Early => job[r].todo \subseteq job[r].uploads
    /\ pc[r] \in Filed => job[r].file \in job[r].uploads \ job[r].todo
    /\ pc[r] \in {"backup", "replace"} \cup Replacing =>
          job[r].file \in job[r].replacing
    /\ pc[r] \in {"rmdir", "snapshot"} => job[r].todo = {}

(* No bytes of a request are where it has not put them; what it has        *)
(* published is there as long as it holds the lock.                        *)
PendingAt(r) == pc[r] \in Early \cup Locked =>
    \A n \in Pending(r) :
        /\ settled[n] # r
        /\ \A d \in survivors :
              d.input[n] # r /\ \A q \in Requests : d.hold[q][n] # r
DoneAt(r) == pc[r] \in Locked \ (Early \cup {"rollback"}) =>
    \A n \in job[r].uploads \ Pending(r) : disk.input[n] = r

(* The preceding bytes of the file it replaces are in its private tree.    *)
ReplacingAt(r) ==
    LET n == job[r].file IN
    /\ pc[r] = "replace" => disk.hold[r][n] = disk.input[n]
    /\ pc[r] \in Replacing => /\ disk.input[n] \in {r, disk.hold[r][n]}
                              /\ disk.hold[r][n] # r
                              /\ settled[n] # r
    /\ pc[r] = "unlink_backup" => \A d \in survivors : d.input[n] = r

TreeAt(r) ==
    /\ pc[r] = "idle" => \A d \in survivors : d.tree[r] = "none"
    /\ pc[r] \in Private => disk.tree[r] = "private"
    /\ used[r] = 0 => \A d \in survivors : ~Landed(d, r)
    /\ used[r] # 0 => pc[r] \in {"sync_queue", "accepted"} \cup Left
    /\ pc[r] = "sync_queue" => Landed(disk, r)
    /\ pc[r] = "accepted" => \A d \in survivors : Landed(d, r)

WithdrawnAt(r) ==
    /\ \A n \in Names : <<r, n>> \in withdrawn => pc[r] \in Left
    /\ pc[r] \in {"replace"} \cup Replacing =>
          <<disk.hold[r][job[r].file], job[r].file>> \notin withdrawn

(* No snapshot has bytes of a request that may still take them back.       *)
SnapshotsAt(r) == pc[r] \in {"idle", "lock"} \cup Locked =>
    \A d \in survivors, q \in Requests, n \in Names : d.snapshot[q][n] # r

WholeIn(d, r) ==
    /\ d.snapshot[r][Required] # "none"
    /\ \A n \in job[r].uploads : d.snapshot[r][n] = r
    /\ \A n \in Names : <<d.snapshot[r][n], n>> \notin withdrawn
WholeAt(r) == \A d \in survivors :
    /\ pc[r] \in Snapped => WholeIn(d, r)
    /\ Landed(d, r) => WholeIn(d, r)
    /\ Landed(d, r) => d.seq[r] \in 1..(d.counter - 1)

SequenceAt(r) ==
    /\ \A d \in survivors : used[r] < d.counter
    /\ pc[r] = "store" => disk.seq[r] = disk.counter
    /\ pc[r] = "rename" =>
          /\ \A d \in survivors : d.seq[r] \in 1..(d.counter - 1)
          /\ \A d \in survivors : d.seq[r] = disk.seq[r]
          /\ \A q \in Requests : used[q] < disk.seq[r]

BeforeAt(r) == \A q \in before[r] : q # r /\ pc[q] = "accepted"

Local(r) ==
    /\ LocksAt(r) /\ JobAt(r) /\ PendingAt(r) /\ DoneAt(r) /\ ReplacingAt(r)
    /\ TreeAt(r) /\ WithdrawnAt(r) /\ SnapshotsAt(r) /\ WholeAt(r)
    /\ SequenceAt(r) /\ BeforeAt(r)

(* ... and what holds of the disk as a whole: who keeps the bytes that the *)
(* input directory does not have; what was taken back is not in it; no     *)
(* image has unfinished work while the deployment is being finalized.      *)
Keeper(q, n) == \/ pc[q] \in {"rejected", "dead"}
                \/ pc[q] = "cleanup" /\ job[q].retain
                \/ pc[q] \in Replacing /\ job[q].file = n
Kept == \A n \in Names :
    \/ settled[n] \in {"none", disk.input[n]}
    \/ \E q \in Requests : /\ Keeper(q, n) /\ disk.tree[q] = "private"
                           /\ disk.hold[q][n] = settled[n]
Gone  == \A n \in Names : <<disk.input[n], n>> \notin withdrawn
Quiet == ~ready => \A d \in survivors, r \in Requests :
                      d.tree[r] \notin {"queue", "current"}

Inv == /\ TypeOK /\ disk \in survivors /\ \A r \in Requests : Local(r)
       /\ Kept /\ BytesAreKept /\ Gone /\ Quiet
       /\ SequenceNeverReused /\ AcknowledgedFirst
-----------------------------------------------------------------------------
(* What an update of one name of the disk leaves alone.                    *)

Trees == {"none", "private", "queue", "current", "ended"}

SameBut(d, e, fields) ==
    /\ "input" \notin fields => e.input = d.input
    /\ "counter" \notin fields => e.counter = d.counter
    /\ "tree" \notin fields => e.tree = d.tree
    /\ "hold" \notin fields => e.hold = d.hold
    /\ "snapshot" \notin fields => e.snapshot = d.snapshot
    /\ "seq" \notin fields => e.seq = d.seq

LEMMA Parts ==
  ASSUME NEW d \in Disks
  PROVE  /\ d.input \in [Names -> Contents] /\ d.counter \in Nat \ {0}
         /\ d.tree \in [Requests -> Trees]
         /\ d.hold \in [Requests -> [Names -> Contents]]
         /\ d.snapshot \in [Requests -> [Names -> Contents]]
         /\ d.seq \in [Requests -> Nat]
BY DEF Disks, Trees

LEMMA SetTree ==
  ASSUME NEW d \in Disks, NEW r \in Requests, NEW x \in Trees, NEW e,
         e = [d EXCEPT !.tree[r] = x]
  PROVE  /\ e \in Disks /\ SameBut(d, e, {"tree"})
         /\ e.tree = [d.tree EXCEPT ![r] = x]
BY DEF Disks, Trees, SameBut

LEMMA SetHold ==
  ASSUME NEW d \in Disks, NEW r \in Requests, NEW n \in Names,
         NEW x \in Contents, NEW e, e = [d EXCEPT !.hold[r][n] = x]
  PROVE  /\ e \in Disks /\ SameBut(d, e, {"hold"})
         /\ e.hold = [d.hold EXCEPT ![r] = [d.hold[r] EXCEPT ![n] = x]]
<1>1. d.hold[r] \in [Names -> Contents]
  BY DEF Disks
<1> QED BY <1>1 DEF Disks, SameBut

LEMMA SetCounter ==
  ASSUME NEW d \in Disks, NEW x \in Nat \ {0}, NEW e,
         e = [d EXCEPT !.counter = x]
  PROVE  e \in Disks /\ SameBut(d, e, {"counter"}) /\ e.counter = x
BY DEF Disks, SameBut

-----------------------------------------------------------------------------
(* What a step of the thread of r, or of the consumer of its entry, leaves *)
(* alone.                                                                  *)
Frame(r) ==
    /\ disk' \in survivors' /\ survivors' \subseteq survivors \cup {disk'}
    /\ ready' = ready
    /\ pc'[r] = pc[r] \/ pc[r] \in {"idle"} \cup Steps
    /\ \A q \in Requests \ {r} :
          /\ pc'[q] = pc[q] /\ job'[q] = job[q]
          /\ used'[q] = used[q] /\ before'[q] = before[q]
          /\ disk'.tree[q] = disk.tree[q] /\ disk'.hold[q] = disk.hold[q]
          /\ disk'.snapshot[q] = disk.snapshot[q] /\ disk'.seq[q] = disk.seq[q]
          /\ inputLock = q => inputLock' = q
          /\ coordination = q => coordination' = q
    /\ \A n \in Names :
          /\ disk'.hold[r][n] \in {disk.hold[r][n], "none", disk.input[n]}
          /\ settled'[n] \in {settled[n], r}
          /\ \/ disk'.input[n] = disk.input[n]
             \/ /\ pc[r] \in {"replace", "link", "rollback"}
                /\ disk'.input[n] \in {r, disk.hold[r][n]}
    /\ \/ disk'.snapshot[r] = disk.snapshot[r]
       \/ pc[r] = "snapshot" /\ disk'.snapshot[r] = disk.input
    /\ \/ disk'.counter = disk.counter
       \/ pc[r] = "store" /\ disk'.counter > disk.counter
    /\ used'[r] = used[r] \/ pc[r] = "rename"
    /\ \/ withdrawn' = withdrawn
       \/ pc[r] = "rollback" /\ withdrawn' = withdrawn \cup {<<r, job[r].file>>}

LEMMA FrameOthers ==
  ASSUME Inv, TypeOK', NEW r \in Requests, Frame(r),
         NEW q \in Requests, q # r
  PROVE  Local(q)'
<1> USE DEF Frame
<1>0. /\ pc'[q] = pc[q] /\ job'[q] = job[q] /\ Local(q) /\ Local(r)
      /\ disk \in Disks /\ disk' \in Disks /\ disk \in survivors
      /\ \A d \in survivors : d \in Disks
      /\ q # "none" /\ q # "caller" /\ q # Nobody /\ r # Nobody
  BY RequestsAreNoMarks DEF Inv, TypeOK
<1>1. pc[r] \in Locked => pc[q] \notin Locked
  BY <1>0 DEF Local, LocksAt
<1>2. pc[q] \in Locked => disk'.input = disk.input /\ withdrawn' = withdrawn
  <2>1. pc[q] \in Locked => \A n \in Names : disk'.input[n] = disk.input[n]
    BY <1>1 DEF Locked
  <2>2. disk.input \in [Names -> Contents] /\ disk'.input \in [Names -> Contents]
    BY <1>0, Parts
  <2> QED BY <1>1, <2>1, <2>2 DEF Locked
<1>3. LocksAt(q)'
  BY <1>0 DEF Local, LocksAt, Locked, Coordinating, Admitting
<1>4. JobAt(q)'
  BY <1>0, <1>2 DEF Local, JobAt, Locked, Early, Filed, Replacing
<1>5. Pending(q)' = Pending(q)
  BY <1>0 DEF Pending
<1>6. PendingAt(q)'
  <2> SUFFICES ASSUME pc[q] \in Early \cup Locked, NEW n \in Pending(q)
               PROVE  /\ settled'[n] # q
                      /\ \A d \in survivors' : d.input[n] # q /\
                            \A p \in Requests : d.hold[p][n] # q
    BY <1>0, <1>5 DEF PendingAt
  <2>1. n \in Names
    <3>1. job[q].todo \subseteq Names /\ job[q].uploads \subseteq Names
      BY DEF Inv, TypeOK
    <3>2. pc[q] \in {"backup", "replace", "link"} => job[q].file \in Names
      BY <1>0, <3>1 DEF Local, JobAt, Filed
    <3> QED BY <3>1, <3>2 DEF Pending
  <2>2. settled[n] # q /\ \A d \in survivors : d.input[n] # q
                          /\ \A p \in Requests : d.hold[p][n] # q
    BY <1>0 DEF Local, PendingAt
  <2>3. disk'.input[n] # q
    BY <1>0, <2>1, <2>2
  <2>4. \A p \in Requests : disk'.hold[p][n] # q
    BY <1>0, <2>1, <2>2
  <2> QED BY <2>1, <2>2, <2>3, <2>4
<1>7. DoneAt(q)'
  BY <1>0, <1>2, <1>5 DEF Local, DoneAt
<1>8. ReplacingAt(q)'
  <2>1. pc[q] \in Replacing \cup {"replace"} =>
           pc[q] \in Locked /\ job[q].file \in Names
    <3>1. job[q].uploads \subseteq Names
      BY DEF Inv, TypeOK
    <3> QED BY <1>0, <3>1 DEF Local, JobAt, Filed, Replacing, Locked
  <2>2. disk'.hold[q] = disk.hold[q]
    OBVIOUS
  <2>3. pc[q] = "unlink_backup" => \A d \in survivors' : d.input[job[q].file] = q
    BY <1>0, <1>2, <2>1 DEF Local, ReplacingAt, Replacing
  <2>4. pc[q] \in Replacing => settled'[job[q].file] # q
    BY <1>0, <2>1 DEF Local, ReplacingAt
  <2> QED BY <1>0, <1>2, <2>1, <2>2, <2>3, <2>4 DEF Local, ReplacingAt
<1>9. TreeAt(q)'
  BY <1>0 DEF Local, TreeAt, Landed, Private, Left
<1>10. WithdrawnAt(q)'
  <2>1. \A n \in Names : <<q, n>> \in withdrawn' => <<q, n>> \in withdrawn
    OBVIOUS
  <2>2. pc[q] \in {"replace"} \cup Replacing => pc[q] \in Locked
    BY DEF Replacing, Locked
  <2> QED BY <1>0, <1>2, <2>1, <2>2 DEF Local, WithdrawnAt
<1>11. SnapshotsAt(q)'
  <2> SUFFICES ASSUME pc[q] \in {"idle", "lock"} \cup Locked,
                      NEW p \in Requests, NEW n \in Names
               PROVE  disk'.snapshot[p][n] # q
    BY <1>0 DEF Local, SnapshotsAt
  <2>1. disk.snapshot[p][n] # q
    BY <1>0 DEF Local, SnapshotsAt
  <2>2. CASE p = r /\ pc[r] = "snapshot" /\ disk'.snapshot[r] = disk.input
    <3>1. pc[q] \in Early /\ n \in Pending(q)
      BY <1>1, <2>2 DEF Early, Locked, Pending
    <3> QED BY <1>0, <2>2, <3>1 DEF Local, PendingAt
  <2> QED BY <2>1, <2>2
<1>12. \A d \in survivors : WholeIn(d, q) => WholeIn(d, q)'
  <2> SUFFICES ASSUME NEW d \in survivors, WholeIn(d, q), NEW n \in Names
               PROVE  <<d.snapshot[q][n], n>> \notin withdrawn'
    BY <1>0 DEF WholeIn
  <2>1. <<d.snapshot[q][n], n>> \notin withdrawn
    BY DEF WholeIn
  <2>2. pc[r] = "rollback" => d.snapshot[q][n] # r
    BY <1>0 DEF Local, SnapshotsAt, Locked
  <2> QED BY <2>1, <2>2
<1>13. WholeAt(q)'
  <2>1. WholeIn(disk, q) => WholeIn(disk, q)'
    <3>1. WholeIn(disk, q) => \A n \in Names :
             <<disk.snapshot[q][n], n>> \notin withdrawn'
      BY <1>0, <1>12 DEF WholeIn
    <3>2. disk'.snapshot[q] = disk.snapshot[q]
      OBVIOUS
    <3> QED BY <1>0, <3>1, <3>2 DEF WholeIn
  <2>2. (Landed(disk, q)' <=> Landed(disk, q)) /\ disk'.seq[q] = disk.seq[q]
    BY DEF Landed
  <2>3. /\ disk.counter \in Nat /\ disk'.counter \in Nat /\ disk.seq[q] \in Nat
        /\ disk'.counter >= disk.counter
    BY <1>0, Parts
  <2>4. \A d \in survivors : /\ pc[q] \in Snapped => WholeIn(d, q)
                             /\ Landed(d, q) => WholeIn(d, q)
                             /\ Landed(d, q) => d.seq[q] \in 1..(d.counter - 1)
    BY <1>0 DEF Local, WholeAt
  <2>5. /\ pc[q] \in Snapped => WholeIn(disk, q)'
        /\ Landed(disk, q)' => WholeIn(disk, q)'
    BY <1>0, <2>1, <2>2, <2>4
  <2>6. Landed(disk, q)' => disk'.seq[q] \in 1..(disk'.counter - 1)
    <3>1. Landed(disk, q)' => disk.seq[q] \in 1..(disk.counter - 1)
      BY <1>0, <2>2, <2>4
    <3> QED BY <2>2, <2>3, <3>1
  <2> SUFFICES ASSUME NEW d \in survivors'
               PROVE  /\ pc'[q] \in Snapped => WholeIn(d, q)'
                      /\ Landed(d, q) => WholeIn(d, q)'
                      /\ Landed(d, q) => d.seq[q] \in 1..(d.counter - 1)
    BY DEF WholeAt, Landed
  <2>7. CASE d \in survivors
    BY <1>0, <1>12, <2>4, <2>7
  <2>8. CASE d = disk'
    <3>1. Landed(d, q) = Landed(disk, q)' /\ WholeIn(d, q)' = WholeIn(disk, q)'
      BY <2>8 DEF Landed, WholeIn
    <3> QED BY <1>0, <2>5, <2>6, <2>8, <3>1
  <2> QED BY <2>7, <2>8
<1>14. SequenceAt(q)'
  <2>1. /\ disk.counter \in Nat /\ disk'.counter \in Nat /\ disk.seq[q] \in Nat
        /\ disk'.counter >= disk.counter /\ used[q] \in Nat
    BY <1>0, Parts DEF Inv, TypeOK
  <2>2. \A d \in survivors' : used'[q] < d.counter
    BY <1>0, <2>1 DEF Local, SequenceAt
  <2>3. pc[q] \in Coordinating => pc[r] \notin Coordinating
    BY <1>0 DEF Local, LocksAt
  <2>4. pc[q] = "store" => disk'.seq[q] = disk'.counter
    BY <1>0, <2>3 DEF Local, SequenceAt, Coordinating, Admitting
  <2>5. pc[q] = "rename" => \A d \in survivors' : d.seq[q] \in 1..(d.counter - 1)
    <3> SUFFICES ASSUME pc[q] = "rename"
                 PROVE  disk'.seq[q] \in 1..(disk'.counter - 1)
      BY <1>0 DEF Local, SequenceAt
    <3>1. disk.seq[q] \in 1..(disk.counter - 1) /\ disk'.counter = disk.counter
      BY <1>0, <2>3 DEF Local, SequenceAt, Coordinating, Admitting
    <3> QED BY <3>1
  <2>6. pc[q] = "rename" => \A p \in Requests : used'[p] < disk'.seq[q]
    BY <1>0, <2>3 DEF Local, SequenceAt, Coordinating, Admitting
  <2>7. pc[q] = "rename" => \A d \in survivors' : d.seq[q] = disk'.seq[q]
    BY <1>0 DEF Local, SequenceAt
  <2> QED BY <1>0, <2>2, <2>4, <2>5, <2>6, <2>7 DEF SequenceAt
<1>15. BeforeAt(q)'
  <2>1. before'[q] = before[q]
    OBVIOUS
  <2>2. \A p \in before[q] : p \in Requests /\ p # q /\ pc[p] = "accepted"
    BY <1>0 DEF Local, BeforeAt, Inv, TypeOK
  <2>3. pc[r] = "accepted" => pc'[r] = pc[r]
    BY DEF Steps
  <2> QED BY <2>1, <2>2, <2>3 DEF BeforeAt
<1> QED BY <1>3, <1>4, <1>6, <1>7, <1>8, <1>9, <1>10, <1>11, <1>13, <1>14,
           <1>15 DEF Local

(* The steps of r that keep its sequence and its uploads: what holds of r  *)
(* wherever it is.                                                         *)
LEMMA FrameOwn ==
  ASSUME Inv, TypeOK', NEW r \in Requests, Frame(r),
         used'[r] = used[r], before'[r] = before[r],
         job'[r].uploads = job[r].uploads,
         Landed(disk, r)' => Landed(disk, r) /\ disk'.seq[r] = disk.seq[r]
  PROVE  /\ used'[r] = 0 => \A d \in survivors' : ~Landed(d, r)
         /\ \A d \in survivors : WholeIn(d, r) => WholeIn(d, r)'
         /\ \A d \in survivors' : Landed(d, r) => WholeIn(d, r)'
         /\ \A d \in survivors' :
               Landed(d, r) => d.seq[r] \in 1..(d.counter - 1)
         /\ \A d \in survivors' : used'[r] < d.counter
         /\ BeforeAt(r)'
<1> USE DEF Frame
<1>0. /\ Local(r) /\ disk \in Disks /\ disk' \in Disks /\ disk \in survivors
      /\ \A d \in survivors : d \in Disks
  BY DEF Inv, TypeOK
<1>1. used'[r] = 0 => \A d \in survivors' : ~Landed(d, r)
  <2>1. used[r] = 0 => \A d \in survivors : ~Landed(d, r)
    BY <1>0 DEF Local, TreeAt
  <2> QED BY <1>0, <2>1 DEF Landed
<1>2. \A d \in survivors : WholeIn(d, r) => WholeIn(d, r)'
  <2> SUFFICES ASSUME NEW d \in survivors, WholeIn(d, r), NEW n \in Names
               PROVE  <<d.snapshot[r][n], n>> \notin withdrawn'
    BY <1>0 DEF WholeIn
  <2>1. <<d.snapshot[r][n], n>> \notin withdrawn
    BY DEF WholeIn
  <2>2. pc[r] = "rollback" => d.snapshot[r][n] # r
    BY <1>0 DEF Local, SnapshotsAt, Locked
  <2> QED BY <2>1, <2>2
<1>3. /\ disk.counter \in Nat /\ disk'.counter \in Nat /\ disk.seq[r] \in Nat
      /\ disk'.counter >= disk.counter /\ used[r] \in Nat
  BY <1>0, Parts DEF Inv, TypeOK
<1>4. \A d \in survivors : /\ Landed(d, r) => WholeIn(d, r)
                           /\ Landed(d, r) => d.seq[r] \in 1..(d.counter - 1)
  BY <1>0 DEF Local, WholeAt
<1>5. Landed(disk, r)' => disk'.snapshot[r] = disk.snapshot[r]
  BY <1>0 DEF Landed, Local, TreeAt, Private, Locked
<1>6. Landed(disk, r)' => WholeIn(disk, r)'
  <2> SUFFICES ASSUME Landed(disk, r)' PROVE WholeIn(disk, r)'
    OBVIOUS
  <2>1. WholeIn(disk, r)
    BY <1>0, <1>4
  <2>2. \A n \in Names : <<disk.snapshot[r][n], n>> \notin withdrawn'
    BY <1>0, <1>2, <2>1 DEF WholeIn
  <2> QED BY <1>5, <2>1, <2>2 DEF WholeIn
<1>7. Landed(disk, r)' => disk'.seq[r] \in 1..(disk'.counter - 1)
  <2>1. Landed(disk, r)' => disk.seq[r] \in 1..(disk.counter - 1)
    BY <1>0, <1>4
  <2> QED BY <1>3, <2>1
<1>8. ASSUME NEW d \in survivors'
      PROVE  /\ Landed(d, r) => WholeIn(d, r)'
             /\ Landed(d, r) => d.seq[r] \in 1..(d.counter - 1)
  <2>1. CASE d \in survivors
    BY <1>2, <1>4, <2>1
  <2>2. CASE d = disk'
    <3>1. (Landed(d, r) <=> Landed(disk, r)')
          /\ (WholeIn(d, r)' <=> WholeIn(disk, r)')
      BY <2>2 DEF Landed, WholeIn
    <3> QED BY <1>6, <1>7, <2>2, <3>1
  <2> QED BY <2>1, <2>2
<1>9. \A d \in survivors' : used'[r] < d.counter
  BY <1>0, <1>3 DEF Local, SequenceAt
<1>10. BeforeAt(r)'
  <2>1. \A q \in before[r] : q \in Requests /\ q # r /\ pc[q] = "accepted"
    BY <1>0 DEF Local, BeforeAt, Inv, TypeOK
  <2> QED BY <2>1 DEF BeforeAt
<1> QED BY <1>1, <1>2, <1>8, <1>9, <1>10

(* A request that has failed or was answered with an error.                *)
LEMMA LeaveOwn ==
  ASSUME Inv, TypeOK', NEW r \in Requests, Frame(r),
         used'[r] = used[r], before'[r] = before[r],
         job'[r].uploads = job[r].uploads,
         Landed(disk, r)' => Landed(disk, r) /\ disk'.seq[r] = disk.seq[r],
         pc'[r] \in {"cleanup", "rejected"}
  PROVE  Local(r)'
<1> USE DEF Locked, Early, Coordinating, Admitting, Private, Replacing, Filed,
            Snapped, Left
<1>1. /\ LocksAt(r)' /\ JobAt(r)' /\ PendingAt(r)' /\ DoneAt(r)'
      /\ ReplacingAt(r)' /\ WithdrawnAt(r)' /\ SnapshotsAt(r)'
  BY DEF LocksAt, JobAt, PendingAt, DoneAt, ReplacingAt, WithdrawnAt,
         SnapshotsAt
<1>2. TreeAt(r)'
  BY FrameOwn DEF TreeAt, Landed
<1>3. WholeAt(r)'
  BY FrameOwn DEF WholeAt, Landed, WholeIn
<1>4. SequenceAt(r)' /\ BeforeAt(r)'
  BY FrameOwn DEF SequenceAt
<1> QED BY <1>1, <1>2, <1>3, <1>4 DEF Local

-----------------------------------------------------------------------------
(* The disk as a whole.                                                    *)

LEMMA FrameKept ==
  ASSUME Inv, TypeOK', NEW r \in Requests, Frame(r),
         UNCHANGED settled, disk'.input = disk.input,
         \A n \in Names : Keeper(r, n) /\ disk.tree[r] = "private" =>
            /\ Keeper(r, n)' /\ disk'.tree[r] = "private"
            /\ disk'.hold[r][n] = disk.hold[r][n]
  PROVE  Kept'
<1> SUFFICES ASSUME NEW n \in Names, settled[n] \notin {"none", disk.input[n]}
             PROVE  \E q \in Requests : /\ Keeper(q, n)'
                                        /\ disk'.tree[q] = "private"
                                        /\ disk'.hold[q][n] = settled[n]
  BY DEF Kept
<1>1. PICK q \in Requests : /\ Keeper(q, n) /\ disk.tree[q] = "private"
                            /\ disk.hold[q][n] = settled[n]
  BY DEF Inv, Kept
<1>2. CASE q = r
  BY <1>1, <1>2
<1>3. CASE q # r
  BY <1>1, <1>3 DEF Frame, Keeper
<1> QED BY <1>2, <1>3

LEMMA FrameBytes ==
  ASSUME Inv, TypeOK', NEW r \in Requests, Frame(r), UNCHANGED settled, Kept'
  PROVE  BytesAreKept'
<1>1. \A d \in survivors, n \in Names :
         \/ settled[n] \in {"none", d.input[n]}
         \/ \E q \in Requests : d.tree[q] = "private" /\ d.hold[q][n] = settled[n]
  BY DEF Inv, BytesAreKept
<1>2. \A n \in Names :
         \/ settled[n] \in {"none", disk'.input[n]}
         \/ \E q \in Requests : disk'.tree[q] = "private"
                                /\ disk'.hold[q][n] = settled[n]
  BY DEF Kept
<1> QED BY <1>1, <1>2 DEF Frame, BytesAreKept

LEMMA FrameQuiet ==
  ASSUME Inv, NEW r \in Requests, Frame(r),
         \/ ready
         \/ disk'.tree[r] \in {"queue", "current"} =>
               disk.tree[r] \in {"queue", "current"}
  PROVE  Quiet'
BY DEF Inv, Quiet, Frame

LEMMA FrameInv ==
  ASSUME Inv, TypeOK', NEW r \in Requests, Frame(r), Local(r)', Kept',
         BytesAreKept', Gone', Quiet', SequenceNeverReused', AcknowledgedFirst'
  PROVE  Inv'
<1>1. \A q \in Requests : q # r => Local(q)'
  BY FrameOthers
<1>2. disk' \in survivors'
  BY DEF Frame
<1> QED BY <1>1, <1>2 DEF Inv
-----------------------------------------------------------------------------
(* Steps of the thread of a request.                                       *)

Jobs == [uploads : SUBSET Names, replacing : SUBSET Names, todo : SUBSET Names,
         file : Names \cup {"none"}, retain : BOOLEAN]
Points == {"idle", "dead"} \cup Steps \cup Answers

(* The thread of r goes to s with the local variables j.                   *)
Moves(r, s, j) == /\ pc' = [pc EXCEPT ![r] = s] /\ job' = [job EXCEPT ![r] = j]
                  /\ s \in Points /\ j \in Jobs
                  /\ pc[r] \in {"idle"} \cup Steps

LocksFor(r) == /\ inputLock' \in Requests \cup {Nobody}
               /\ coordination' \in Requests \cup {Nobody}
               /\ \A q \in Requests \ {r} :
                     /\ inputLock = q => inputLock' = q
                     /\ coordination = q => coordination' = q

LEMMA Budget ==
  ASSUME Inv, NEW b \in BOOLEAN, MayFail \/ NoFault \/ MayFailTwice(b)
  PROVE  faults' \in 0..MaxFaults
BY MaxFaultsNatural DEF Inv, TypeOK, MayFail, NoFault, MayFailTwice

LEMMA MoveTyped ==
  ASSUME Inv, NEW r \in Requests, NEW s, NEW j, Moves(r, s, j), LocksFor(r),
         faults' \in 0..MaxFaults, UNCHANGED ready,
         disk' \in Disks, survivors' \subseteq survivors \cup {disk'},
         settled' \in [Names -> Contents],
         withdrawn' \subseteq Requests \X Names,
         used' \in [Requests -> Nat],
         before' \in [Requests -> SUBSET Requests]
  PROVE  /\ TypeOK' /\ pc'[r] = s /\ job'[r] = j
         /\ \A q \in Requests \ {r} : pc'[q] = pc[q] /\ job'[q] = job[q]
<1>1. pc \in [Requests -> Points] /\ job \in [Requests -> Jobs]
  BY DEF Inv, TypeOK, Points, Jobs
<1>2. pc' \in [Requests -> Points] /\ job' \in [Requests -> Jobs]
  BY <1>1 DEF Moves
<1>3. \A d \in survivors' : d \in Disks
  BY DEF Inv, TypeOK
<1>4. ready' \in BOOLEAN
  BY DEF Inv, TypeOK
<1>5. TypeOK'
  BY <1>2, <1>3, <1>4 DEF TypeOK, LocksFor, Points, Jobs
<1> QED BY <1>1, <1>5 DEF Moves

(* A step that changes no file.                                            *)
LEMMA PureFrame ==
  ASSUME Inv, NEW r \in Requests, NEW s, NEW j, Moves(r, s, j), LocksFor(r),
         faults' \in 0..MaxFaults, UNCHANGED <<ready, withdrawn, used, before>>,
         Still \/ Sync,
         settled' \in [Names -> Contents],
         \A n \in Names : settled'[n] \in {settled[n], r}
  PROVE  /\ TypeOK' /\ pc'[r] = s /\ job'[r] = j /\ Frame(r)
         /\ disk' = disk /\ disk \in Disks /\ disk \in survivors
         /\ survivors' \subseteq survivors
         /\ Gone' /\ Quiet' /\ SequenceNeverReused' /\ AcknowledgedFirst'
<1>1. /\ disk' = disk /\ disk \in Disks /\ disk \in survivors
      /\ survivors' \subseteq survivors /\ disk' \in survivors'
  BY DEF Inv, TypeOK, Still, Sync
<1>2. /\ withdrawn' \subseteq Requests \X Names /\ used' \in [Requests -> Nat]
      /\ before' \in [Requests -> SUBSET Requests]
  BY DEF Inv, TypeOK
<1>3. /\ TypeOK' /\ pc'[r] = s /\ job'[r] = j
      /\ \A q \in Requests \ {r} : pc'[q] = pc[q] /\ job'[q] = job[q]
  BY <1>1, <1>2, MoveTyped
<1>4. Frame(r)
  BY <1>1, <1>3 DEF Frame, Moves, LocksFor
<1>5. Gone' /\ SequenceNeverReused' /\ AcknowledgedFirst'
  BY <1>1 DEF Inv, Gone, SequenceNeverReused, AcknowledgedFirst
<1>6. Quiet'
  BY <1>1, <1>4, FrameQuiet
<1> QED BY <1>1, <1>3, <1>4, <1>5, <1>6

LEMMA PureStep ==
  ASSUME Inv, NEW r \in Requests, NEW s, NEW j, Moves(r, s, j), LocksFor(r),
         faults' \in 0..MaxFaults, UNCHANGED <<ready, history>>, Still \/ Sync,
         \A n \in Names : Keeper(r, n) => Keeper(r, n)',
         Local(r)'
  PROVE  Inv'
<1>1. /\ settled' \in [Names -> Contents]
      /\ \A n \in Names : settled'[n] \in {settled[n], r}
      /\ UNCHANGED <<withdrawn, used, before, settled>>
  BY DEF Inv, TypeOK, history
<1>2. /\ TypeOK' /\ Frame(r) /\ disk' = disk
      /\ Gone' /\ Quiet' /\ SequenceNeverReused' /\ AcknowledgedFirst'
  BY <1>1, PureFrame
<1>3. Kept'
  BY <1>1, <1>2, FrameKept
<1>4. BytesAreKept'
  BY <1>1, <1>2, <1>3, FrameBytes
<1> QED BY <1>2, <1>3, <1>4, FrameInv

(* An exception: the thread goes to the cleanup.                           *)
LEMMA FailMoves ==
  ASSUME Inv, NEW r \in Requests, NEW b \in BOOLEAN, Fail(r, b), pc[r] \in Steps
  PROVE  /\ Moves(r, "cleanup", [job[r] EXCEPT !.retain = b]) /\ LocksFor(r)
         /\ [job[r] EXCEPT !.retain = b].uploads = job[r].uploads
         /\ [job[r] EXCEPT !.retain = b].retain = b
<1>1. job \in [Requests -> Jobs] /\ job[r] \in Jobs
  BY DEF Inv, TypeOK, Jobs
<1>2. [job EXCEPT ![r].retain = b] = [job EXCEPT ![r] = [job[r] EXCEPT !.retain = b]]
  BY <1>1
<1>3. [job[r] EXCEPT !.retain = b] \in Jobs
  BY <1>1 DEF Jobs
<1>4. LocksFor(r)
  BY DEF Fail, LocksFor, Inv, TypeOK
<1> QED BY <1>1, <1>2, <1>3, <1>4 DEF Fail, Moves, Go, Jobs, Points, Steps

LEMMA FailStep ==
  ASSUME Inv, NEW r \in Requests, NEW b \in BOOLEAN, Fail(r, b),
         pc[r] \in Steps \ {"cleanup"}, pc[r] \in Replacing => b, Still,
         faults' \in 0..MaxFaults, UNCHANGED <<ready, history>>
  PROVE  Inv'
<1> DEFINE j == [job[r] EXCEPT !.retain = b]
<1>1. /\ Moves(r, "cleanup", j) /\ LocksFor(r) /\ j.uploads = job[r].uploads
      /\ j.retain = b
  BY FailMoves
<1> HIDE DEF j
<1>2. /\ settled' \in [Names -> Contents]
      /\ \A n \in Names : settled'[n] \in {settled[n], r}
      /\ UNCHANGED <<withdrawn, used, before, settled>>
  BY DEF Inv, TypeOK, history
<1>3. /\ TypeOK' /\ Frame(r) /\ disk' = disk /\ pc'[r] = "cleanup"
      /\ job'[r] = j
  BY <1>1, <1>2, PureFrame
<1>4. Local(r)'
  <2>1. Landed(disk, r)' => Landed(disk, r) /\ disk'.seq[r] = disk.seq[r]
    BY <1>3 DEF Landed
  <2> QED BY <1>1, <1>2, <1>3, <2>1, LeaveOwn
<1>5. \A n \in Names : Keeper(r, n) => Keeper(r, n)'
  BY <1>1, <1>3 DEF Keeper, Steps
<1> QED BY <1>1, <1>4, <1>5, PureStep

LEMMA ProceedMoves ==
  ASSUME Inv, NEW r \in Requests, NEW s \in Points, Proceed(r, s),
         pc[r] \in Steps
  PROVE  Moves(r, s, job[r]) /\ LocksFor(r) /\ job[r] \in Jobs
<1>1. job \in [Requests -> Jobs]
  BY DEF Inv, TypeOK, Jobs
<1>2. job' = [job EXCEPT ![r] = job[r]]
  BY <1>1 DEF Proceed
<1>3. LocksFor(r)
  BY DEF Inv, TypeOK, LocksFor, Proceed, locks
<1>4. pc' = [pc EXCEPT ![r] = s] /\ job[r] \in Jobs
  BY <1>1 DEF Proceed, Go
<1> QED BY <1>2, <1>3, <1>4 DEF Moves

(* A step under the lock of the input directory, from the private tree on. *)
LEMMA LockedOwn ==
  ASSUME Inv, TypeOK', NEW r \in Requests, Frame(r),
         pc[r] \in Locked, pc'[r] \in Locked \ {"mkdir"}, inputLock' = inputLock,
         disk'.tree[r] = "private", disk'.snapshot[r] = disk.snapshot[r],
         UNCHANGED <<used, before, withdrawn>>,
         job'[r].uploads = job[r].uploads,
         Pending(r)' \subseteq Pending(r) \cap Names,
         \A n \in Pending(r)' : /\ settled'[n] = settled[n]
                                /\ disk'.input[n] = disk.input[n]
  PROVE  /\ LocksAt(r)' /\ PendingAt(r)' /\ TreeAt(r)' /\ SnapshotsAt(r)'
         /\ WholeAt(r)' /\ SequenceAt(r)' /\ BeforeAt(r)'
         /\ \A n \in Names : <<r, n>> \notin withdrawn'
<1>0. /\ Local(r) /\ disk \in Disks /\ disk' \in Disks /\ disk \in survivors
      /\ r \notin {"none", Nobody}
  BY RequestsAreNoMarks DEF Inv, TypeOK
<1>1. ~Landed(disk, r)'
  BY DEF Landed
<1>2. /\ used'[r] = 0 => \A d \in survivors' : ~Landed(d, r)
      /\ \A d \in survivors' : Landed(d, r) => WholeIn(d, r)'
      /\ \A d \in survivors' : Landed(d, r) => d.seq[r] \in 1..(d.counter - 1)
      /\ \A d \in survivors' : used'[r] < d.counter
      /\ BeforeAt(r)'
  BY <1>1, FrameOwn
<1>3. LocksAt(r)'
  BY <1>0 DEF Local, LocksAt, Locked, Coordinating, Admitting
<1>4. PendingAt(r)'
  <2> SUFFICES ASSUME NEW n \in Pending(r)'
               PROVE  /\ settled'[n] # r
                      /\ \A d \in survivors' : d.input[n] # r
                            /\ \A q \in Requests : d.hold[q][n] # r
    BY DEF PendingAt
  <2>1. /\ settled[n] # r /\ n \in Names
        /\ \A d \in survivors : d.input[n] # r
              /\ \A q \in Requests : d.hold[q][n] # r
    BY <1>0 DEF Local, PendingAt
  <2>2. \A q \in Requests : disk'.hold[q][n] # r
    BY <1>0, <2>1 DEF Frame
  <2>3. settled'[n] # r /\ disk'.input[n] # r
    BY <1>0, <2>1
  <2>4. survivors' \subseteq survivors \cup {disk'}
    BY DEF Frame
  <2> QED BY <2>1, <2>2, <2>3, <2>4
<1>5. TreeAt(r)'
  <2>1. used[r] = 0
    BY <1>0 DEF Local, TreeAt, Locked, Left
  <2> QED BY <1>2, <2>1 DEF TreeAt, Locked, Landed
<1>6. SnapshotsAt(r)'
  BY <1>0 DEF Local, SnapshotsAt, Frame
<1>7. WholeAt(r)'
  BY <1>2 DEF WholeAt, Landed, WholeIn, Snapped, Admitting, Locked
<1>8. SequenceAt(r)'
  BY <1>2 DEF SequenceAt, Locked
<1>9. \A n \in Names : <<r, n>> \notin withdrawn'
  BY <1>0 DEF Local, WithdrawnAt, Locked, Left
<1> QED BY <1>2, <1>3, <1>4, <1>5, <1>6, <1>7, <1>8, <1>9

(* A step of that kind which changes no file.                              *)
LEMMA LockedMove ==
  ASSUME Inv, NEW r \in Requests, NEW s, NEW j, Moves(r, s, j), LocksFor(r),
         faults' \in 0..MaxFaults, UNCHANGED <<inputLock, ready, history>>,
         Still \/ Sync,
         pc[r] \in Locked \ {"mkdir"}, s \in Locked \ {"mkdir"},
         j.uploads = job[r].uploads, j.replacing = job[r].replacing,
         Pending(r)' \subseteq Pending(r) \cap Names,
         pc[r] \in Replacing => s \in Replacing /\ j.file = job[r].file,
         JobAt(r)', DoneAt(r)', ReplacingAt(r)',
         s \in {"replace"} \cup Replacing =>
            <<disk.hold[r][j.file], j.file>> \notin withdrawn
  PROVE  Inv'
<1>1. /\ settled' \in [Names -> Contents]
      /\ \A n \in Names : settled'[n] \in {settled[n], r}
      /\ UNCHANGED <<withdrawn, used, before, settled>>
  BY DEF Inv, TypeOK, history
<1>2. /\ TypeOK' /\ Frame(r) /\ disk' = disk /\ pc'[r] = s /\ job'[r] = j
  BY <1>1, PureFrame
<1>3. disk.tree[r] = "private"
  BY DEF Inv, Local, TreeAt, Private
<1>4. /\ LocksAt(r)' /\ PendingAt(r)' /\ TreeAt(r)' /\ SnapshotsAt(r)'
      /\ WholeAt(r)' /\ SequenceAt(r)' /\ BeforeAt(r)'
      /\ \A n \in Names : <<r, n>> \notin withdrawn'
  BY <1>1, <1>2, <1>3, LockedOwn
<1>5. WithdrawnAt(r)'
  BY <1>1, <1>2, <1>4 DEF WithdrawnAt
<1>6. Local(r)'
  BY <1>4, <1>5 DEF Local
<1>7. \A n \in Names : Keeper(r, n) => Keeper(r, n)'
  BY <1>2 DEF Keeper, Locked
<1> QED BY <1>6, <1>7, PureStep

(* What is known of a thread that holds the lock.                          *)
LEMMA LockedFacts ==
  ASSUME Inv, NEW r \in Requests, pc[r] \in Locked
  PROVE  /\ Local(r) /\ inputLock = r /\ job[r] \in Jobs /\ disk \in Disks
         /\ Pending(r) \subseteq Names
         /\ pc[r] \in Filed => job[r].file \in Names
<1>1. Local(r) /\ inputLock = r /\ job[r] \in Jobs /\ disk \in Disks
  BY DEF Inv, Local, LocksAt, TypeOK, Jobs
<1>2. job[r].todo \subseteq Names /\ job[r].uploads \subseteq Names
  BY <1>1 DEF Jobs
<1>3. pc[r] \in Filed => job[r].file \in Names
  BY <1>1, <1>2 DEF Local, JobAt
<1> QED BY <1>1, <1>2, <1>3 DEF Pending, Filed

LEMMA FailCleaningStep ==
  ASSUME Inv, NEW r \in Requests, FailCleaningUp(r), Still,
         pc[r] \in Steps \ (Replacing \cup {"cleanup"}),
         UNCHANGED <<ready, history>>
  PROVE  Inv'
<1>1. PICK b \in BOOLEAN : Fail(r, b) /\ MayFailTwice(b)
  BY DEF FailCleaningUp
<1>2. faults' \in 0..MaxFaults
  BY <1>1, Budget
<1> QED BY <1>1, <1>2, FailStep

-----------------------------------------------------------------------------
(* The steps that change no file.                                          *)

LEMMA StreamStep ==
  ASSUME Inv, NEW r \in Requests, Stream(r) PROVE Inv'
<1>0. pc[r] = "stream" /\ Still /\ UNCHANGED <<ready, history>>
  BY DEF Stream
<1>1. CASE FailCleaningUp(r)
  BY <1>0, <1>1, FailCleaningStep DEF Steps, Replacing
<1>2. CASE /\ Go(r, "publish") /\ NoFault /\ UNCHANGED locks
           /\ job' = [job EXCEPT ![r].todo = job[r].uploads]
  <2> DEFINE j == [job[r] EXCEPT !.todo = job[r].uploads]
  <2>1. /\ Local(r) /\ job[r] \in Jobs /\ Pending(r) \subseteq Names
        /\ job \in [Requests -> Jobs]
    BY <1>0, LockedFacts DEF Locked, Inv, TypeOK, Jobs
  <2>2. /\ job' = [job EXCEPT ![r] = j] /\ j \in Jobs
        /\ j.uploads = job[r].uploads /\ j.replacing = job[r].replacing
        /\ j.todo = job[r].uploads /\ j.file = job[r].file
        /\ j.uploads \subseteq Names
    BY <1>2, <2>1 DEF Jobs
  <2> HIDE DEF j
  <2>3. Moves(r, "publish", j)
    BY <1>0, <1>2, <2>2 DEF Moves, Go, Points, Steps
  <2>4. LocksFor(r) /\ UNCHANGED inputLock
    BY <1>2 DEF LocksFor, locks, Inv, TypeOK
  <2>5. faults' \in 0..MaxFaults
    BY <1>2, Budget
  <2>6. pc'[r] = "publish" /\ job'[r] = j
    BY <2>3 DEF Moves, Inv, TypeOK
  <2>7. Pending(r)' = job[r].uploads /\ Pending(r) = Names
    BY <1>0, <2>2, <2>6 DEF Pending, Early
  <2>8. disk' = disk
    BY <1>0 DEF Still
  <2>9. JobAt(r)' /\ DoneAt(r)' /\ ReplacingAt(r)'
    BY <1>0, <2>1, <2>2, <2>6, <2>7, <2>8
       DEF Local, JobAt, DoneAt, ReplacingAt, Locked, Early, Filed, Replacing
  <2> QED BY <1>0, <2>2, <2>3, <2>4, <2>5, <2>7, <2>9, LockedMove
          DEF Locked, Replacing
<1> QED BY <1>1, <1>2 DEF Stream

LEMMA NextUploadStep ==
  ASSUME Inv, NEW r \in Requests, NextUpload(r) PROVE Inv'
<1>0. /\ pc[r] = "publish" /\ Still /\ NoFault /\ UNCHANGED <<ready, history>>
      /\ UNCHANGED locks
  BY DEF NextUpload
<1>1. /\ Local(r) /\ job[r] \in Jobs /\ Pending(r) \subseteq Names
      /\ job \in [Requests -> Jobs] /\ Pending(r) = job[r].todo
  BY <1>0, LockedFacts DEF Locked, Inv, TypeOK, Jobs, Pending, Early
<1>2. LocksFor(r) /\ UNCHANGED inputLock
  BY <1>0 DEF LocksFor, locks, Inv, TypeOK
<1>3. faults' \in 0..MaxFaults
  BY <1>0, Budget
<1>4. disk' = disk
  BY <1>0 DEF Still
<1>5. CASE job[r].todo = {} /\ Go(r, "rmdir") /\ UNCHANGED job
  <2>1. Moves(r, "rmdir", job[r])
    BY <1>0, <1>1, <1>5 DEF Moves, Go, Points, Steps
  <2>2. pc'[r] = "rmdir" /\ job'[r] = job[r]
    BY <2>1 DEF Moves, Inv, TypeOK
  <2>3. Pending(r)' = {}
    BY <1>5, <2>2 DEF Pending, Early
  <2>4. JobAt(r)' /\ DoneAt(r)' /\ ReplacingAt(r)'
    BY <1>0, <1>1, <1>4, <1>5, <2>2, <2>3
       DEF Local, JobAt, DoneAt, ReplacingAt, Locked, Early, Filed, Replacing
  <2> QED BY <1>0, <1>2, <1>3, <2>1, <2>3, <2>4, LockedMove
          DEF Locked, Replacing
<1>6. CASE \E n \in job[r].todo :
              /\ job' = [job EXCEPT ![r].file = n, ![r].todo = job[r].todo \ {n}]
              /\ Go(r, IF n \in job[r].replacing THEN "backup" ELSE "link")
  <2>1. PICK n \in job[r].todo :
           /\ job' = [job EXCEPT ![r].file = n, ![r].todo = job[r].todo \ {n}]
           /\ Go(r, IF n \in job[r].replacing THEN "backup" ELSE "link")
    BY <1>6
  <2> DEFINE j == [job[r] EXCEPT !.file = n, !.todo = job[r].todo \ {n}]
             s == IF n \in job[r].replacing THEN "backup" ELSE "link"
  <2>2. /\ job' = [job EXCEPT ![r] = j] /\ j \in Jobs
        /\ j.uploads = job[r].uploads /\ j.replacing = job[r].replacing
        /\ j.todo = job[r].todo \ {n} /\ j.file = n
    BY <1>1, <2>1 DEF Jobs
  <2>3. s \in {"backup", "link"} /\ (s = "backup" => n \in job[r].replacing)
    OBVIOUS
  <2>4. Go(r, s)
    BY <2>1
  <2> HIDE DEF j, s
  <2>5. Moves(r, s, j)
    BY <1>0, <2>2, <2>3, <2>4 DEF Moves, Go, Points, Steps
  <2>6. pc'[r] = s /\ job'[r] = j
    BY <2>5 DEF Moves, Inv, TypeOK
  <2>7. Pending(r)' = job[r].todo
    BY <2>2, <2>3, <2>6 DEF Pending, Early
  <2>8. JobAt(r)'
    BY <1>0, <1>1, <1>4, <2>2, <2>3, <2>6
       DEF Local, JobAt, Locked, Early, Filed, Replacing
  <2>9. DoneAt(r)' /\ ReplacingAt(r)'
    BY <1>0, <1>1, <1>4, <2>2, <2>3, <2>6, <2>7
       DEF Local, DoneAt, ReplacingAt, Locked, Early, Replacing
  <2> QED BY <1>0, <1>1, <1>2, <1>3, <2>2, <2>3, <2>5, <2>7, <2>8, <2>9,
             LockedMove DEF Locked, Replacing
<1> QED BY <1>5, <1>6 DEF NextUpload

LEMMA SyncReplacedStep ==
  ASSUME Inv, NEW r \in Requests, SyncReplaced(r) PROVE Inv'
<1>0. pc[r] = "sync_replaced" /\ UNCHANGED <<ready, history>>
  BY DEF SyncReplaced
<1>1. PICK s \in {"unlink_backup", "rollback"} :
         /\ Proceed(r, s) /\ (Still \/ Sync) /\ (MayFail \/ NoFault)
         /\ s = "unlink_backup" => Sync
  BY DEF SyncReplaced
<1>2. Moves(r, s, job[r]) /\ LocksFor(r) /\ job[r] \in Jobs
      /\ UNCHANGED inputLock
  BY <1>0, <1>1, ProceedMoves DEF Steps, Points, Proceed, locks
<1>3. faults' \in 0..MaxFaults
  BY <1>1, Budget
<1>4. pc'[r] = s /\ job'[r] = job[r] /\ disk' = disk /\ UNCHANGED settled
  BY <1>0, <1>1, <1>2 DEF Moves, Inv, TypeOK, Still, Sync, history
<1>5. /\ Local(r) /\ Pending(r) \subseteq Names /\ Pending(r)' = Pending(r)
  BY <1>0, <1>1, <1>4, LockedFacts DEF Locked, Pending, Early
<1>6. JobAt(r)' /\ DoneAt(r)'
  BY <1>0, <1>1, <1>4, <1>5
     DEF Local, JobAt, DoneAt, Locked, Early, Filed, Replacing
<1>7. ReplacingAt(r)'
  <2>1. job[r].file \in job[r].uploads \ Pending(r)
    BY <1>0, <1>5 DEF Local, JobAt, Filed, Replacing, Pending, Early
  <2>2. disk.input[job[r].file] = r
    BY <1>0, <1>5, <2>1 DEF Local, DoneAt, Locked, Early
  <2> QED BY <1>0, <1>1, <1>4, <1>5, <2>2 DEF Local, ReplacingAt, Replacing, Sync
<1> QED BY <1>0, <1>1, <1>2, <1>3, <1>5, <1>6, <1>7, LockedMove
        DEF Locked, Replacing, Local, WithdrawnAt

LEMMA RollbackFailsStep ==
  ASSUME Inv, NEW r \in Requests, RollbackFails(r) PROVE Inv'
<1>1. faults' \in 0..MaxFaults
  BY Budget DEF RollbackFails
<1> QED BY <1>1, FailStep DEF RollbackFails, Steps

(* The step to the next file.                                              *)
LEMMA ProceedLocked ==
  ASSUME Inv, NEW r \in Requests, NEW s, Proceed(r, s), Still \/ Sync, NoFault,
         UNCHANGED <<ready, history>>,
         \/ pc[r] = "unlink_private" /\ s = "sync_private"
         \/ pc[r] = "sync_private" /\ s = "publish"
         \/ pc[r] = "rmdir" /\ s = "snapshot"
  PROVE  Inv'
<1>1. s \in Points /\ pc[r] \in Steps
  BY DEF Points, Steps
<1>2. Moves(r, s, job[r]) /\ LocksFor(r) /\ job[r] \in Jobs
      /\ UNCHANGED inputLock
  BY <1>1, ProceedMoves DEF Proceed, locks
<1>3. faults' \in 0..MaxFaults
  BY Budget
<1>4. pc'[r] = s /\ job'[r] = job[r] /\ disk' = disk
  BY <1>1, <1>2 DEF Moves, Inv, TypeOK, Still, Sync
<1>5. /\ Local(r) /\ Pending(r) \subseteq Names /\ Pending(r)' = Pending(r)
  BY <1>4, LockedFacts DEF Locked, Pending, Early
<1>6. JobAt(r)'
  BY <1>4, <1>5 DEF Local, JobAt, Locked, Early, Filed, Replacing
<1>7. DoneAt(r)'
  BY <1>4, <1>5 DEF Local, DoneAt, Locked, Early
<1>8. ReplacingAt(r)'
  BY <1>4 DEF ReplacingAt, Replacing
<1> QED BY <1>2, <1>3, <1>5, <1>6, <1>7, <1>8, LockedMove DEF Locked, Replacing

LEMMA RemovePrivateStep ==
  ASSUME Inv, NEW r \in Requests, RemovePrivate(r) PROVE Inv'
<1>0. pc[r] = "unlink_private" /\ Still /\ UNCHANGED <<ready, history>>
  BY DEF RemovePrivate
<1>1. CASE Proceed(r, "sync_private") /\ NoFault
  BY <1>0, <1>1, ProceedLocked
<1>2. CASE Fail(r, TRUE) /\ MayFail
  <2>1. faults' \in 0..MaxFaults
    BY <1>2, Budget
  <2> QED BY <1>0, <1>2, <2>1, FailStep DEF Steps
<1> QED BY <1>1, <1>2 DEF RemovePrivate

LEMMA SyncPrivateStep ==
  ASSUME Inv, NEW r \in Requests, SyncPrivate(r) PROVE Inv'
<1>0. pc[r] = "sync_private" /\ UNCHANGED <<ready, history>>
  BY DEF SyncPrivate
<1>1. CASE Sync /\ Proceed(r, "publish") /\ NoFault
  BY <1>0, <1>1, ProceedLocked
<1>2. CASE Still /\ Fail(r, FALSE) /\ MayFail
  <2>1. faults' \in 0..MaxFaults
    BY <1>2, Budget
  <2> QED BY <1>0, <1>2, <2>1, FailStep DEF Steps, Replacing
<1> QED BY <1>1, <1>2 DEF SyncPrivate

LEMMA RemoveUploadsStep ==
  ASSUME Inv, NEW r \in Requests, RemoveUploads(r) PROVE Inv'
<1>0. pc[r] = "rmdir" /\ UNCHANGED <<ready, history>>
  BY DEF RemoveUploads
<1>1. CASE (Still \/ Sync) /\ Proceed(r, "snapshot") /\ NoFault
  BY <1>0, <1>1, ProceedLocked
<1>2. CASE Still /\ MayFail /\ \E retain \in BOOLEAN : Fail(r, retain)
  <2>1. faults' \in 0..MaxFaults
    BY <1>2, Budget
  <2> QED BY <1>0, <1>2, <2>1, FailStep DEF Steps, Replacing
<1> QED BY <1>1, <1>2 DEF RemoveUploads

LEMMA CoordinateStep ==
  ASSUME Inv, NEW r \in Requests, Coordinate(r) PROVE Inv'
<1>0. /\ pc[r] = "coordinate" /\ Still /\ UNCHANGED <<ready, history>>
      /\ coordination = Nobody
  BY DEF Coordinate
<1>1. CASE Fail(r, FALSE) /\ (NoFault \/ MayFail)
  <2>1. faults' \in 0..MaxFaults
    BY <1>1, Budget
  <2> QED BY <1>0, <1>1, <2>1, FailStep DEF Steps, Replacing
<1>2. CASE /\ ready /\ coordination' = r /\ Go(r, "allocate") /\ NoFault
           /\ UNCHANGED <<job, inputLock>>
  <2>0. Nobody \notin Requests /\ Local(r) /\ job \in [Requests -> Jobs]
    BY RequestsAreNoMarks DEF Inv, TypeOK, Jobs
  <2>1. Moves(r, "allocate", job[r]) /\ LocksFor(r)
    BY <1>0, <1>2, <2>0
       DEF Moves, LocksFor, Go, Points, Steps, Inv, TypeOK
  <2>2. faults' \in 0..MaxFaults
    BY <1>2, Budget
  <2>3. /\ settled' \in [Names -> Contents]
        /\ \A n \in Names : settled'[n] \in {settled[n], r}
        /\ UNCHANGED <<withdrawn, used, before, settled>>
    BY <1>0 DEF Inv, TypeOK, history
  <2>4. /\ TypeOK' /\ Frame(r) /\ disk' = disk /\ pc'[r] = "allocate"
        /\ job'[r] = job[r] /\ survivors' = survivors
    BY <1>0, <2>1, <2>2, <2>3, PureFrame DEF Still
  <2>5. /\ used'[r] = 0 => \A d \in survivors' : ~Landed(d, r)
        /\ \A d \in survivors : WholeIn(d, r) => WholeIn(d, r)'
        /\ \A d \in survivors' : Landed(d, r) => WholeIn(d, r)'
        /\ \A d \in survivors' : Landed(d, r) => d.seq[r] \in 1..(d.counter - 1)
        /\ \A d \in survivors' : used'[r] < d.counter
        /\ BeforeAt(r)'
    <3>1. Landed(disk, r)' => Landed(disk, r) /\ disk'.seq[r] = disk.seq[r]
      BY <2>4 DEF Landed
    <3> QED BY <2>3, <2>4, <3>1, FrameOwn
  <2>6. /\ LocksAt(r)' /\ JobAt(r)' /\ PendingAt(r)' /\ DoneAt(r)'
        /\ ReplacingAt(r)' /\ SnapshotsAt(r)' /\ WithdrawnAt(r)'
    <3>1. \A n \in Names : <<r, n>> \notin withdrawn'
      BY <1>0, <2>0, <2>3 DEF Local, WithdrawnAt, Left
    <3> QED BY <1>0, <1>2, <2>4, <3>1
            DEF LocksAt, JobAt, PendingAt, DoneAt, ReplacingAt, SnapshotsAt,
                WithdrawnAt, Locked, Coordinating, Admitting, Early, Filed,
                Replacing
  <2>7. TreeAt(r)'
    BY <1>0, <2>0, <2>3, <2>4, <2>5
       DEF Local, TreeAt, Private, Landed, Admitting, Locked, Left
  <2>8. WholeAt(r)'
    <3>1. \A d \in survivors : WholeIn(d, r)
      BY <1>0, <2>0 DEF Local, WholeAt, Snapped
    <3> QED BY <2>4, <2>5, <3>1 DEF WholeAt, WholeIn, Landed
  <2>9. SequenceAt(r)'
    BY <2>4, <2>5 DEF SequenceAt
  <2>10. Local(r)'
    BY <2>5, <2>6, <2>7, <2>8, <2>9 DEF Local
  <2>11. \A n \in Names : Keeper(r, n) => Keeper(r, n)'
    BY <1>0 DEF Keeper, Replacing
  <2> QED BY <1>0, <2>1, <2>2, <2>10, <2>11, PureStep
<1> QED BY <1>1, <1>2 DEF Coordinate

LEMMA SyncQueueStep ==
  ASSUME Inv, NEW r \in Requests, SyncQueue(r) PROVE Inv'
<1>0. pc[r] = "sync_queue" /\ UNCHANGED <<ready, history>>
  BY DEF SyncQueue
<1>1. CASE Still /\ Fail(r, FALSE) /\ MayFail
  <2>1. faults' \in 0..MaxFaults
    BY <1>1, Budget
  <2> QED BY <1>0, <1>1, <2>1, FailStep DEF Steps, Replacing
<1>2. CASE Sync /\ Answered(r) /\ NoFault
  <2>0. Local(r) /\ job \in [Requests -> Jobs] /\ coordination = r
    BY <1>0 DEF Inv, TypeOK, Jobs, Local, LocksAt, Coordinating
  <2>1. Moves(r, "accepted", job[r]) /\ LocksFor(r)
    <3>1. LocksFor(r)
      BY <1>2, <2>0 DEF Answered, LocksFor, Inv, TypeOK
    <3> QED BY <1>0, <1>2, <2>0, <3>1
            DEF Answered, Moves, Go, Points, Answers, Steps
  <2>2. faults' \in 0..MaxFaults
    BY <1>2, Budget
  <2>3. /\ settled' \in [Names -> Contents]
        /\ \A n \in Names : settled'[n] \in {settled[n], r}
        /\ UNCHANGED <<withdrawn, used, before, settled>>
    BY <1>0 DEF Inv, TypeOK, history
  <2>4. /\ TypeOK' /\ Frame(r) /\ disk' = disk /\ pc'[r] = "accepted"
        /\ job'[r] = job[r] /\ survivors' = {disk}
    BY <1>0, <1>2, <2>1, <2>2, <2>3, PureFrame DEF Sync
  <2>5. /\ used'[r] = 0 => \A d \in survivors' : ~Landed(d, r)
        /\ \A d \in survivors' : Landed(d, r) => WholeIn(d, r)'
        /\ \A d \in survivors' : Landed(d, r) => d.seq[r] \in 1..(d.counter - 1)
        /\ \A d \in survivors' : used'[r] < d.counter
        /\ BeforeAt(r)'
    <3>1. Landed(disk, r)' => Landed(disk, r) /\ disk'.seq[r] = disk.seq[r]
      BY <2>4 DEF Landed
    <3> QED BY <2>3, <2>4, <3>1, FrameOwn
  <2>6. /\ LocksAt(r)' /\ JobAt(r)' /\ PendingAt(r)' /\ DoneAt(r)'
        /\ ReplacingAt(r)' /\ SnapshotsAt(r)' /\ WithdrawnAt(r)'
    <3>1. \A n \in Names : <<r, n>> \notin withdrawn'
      BY <1>0, <2>0, <2>3 DEF Local, WithdrawnAt, Left
    <3> QED BY <2>4, <3>1
            DEF LocksAt, JobAt, PendingAt, DoneAt, ReplacingAt, SnapshotsAt,
                WithdrawnAt, Locked, Coordinating, Admitting, Early, Filed,
                Replacing
  <2>7. TreeAt(r)'
    <3>1. Landed(disk, r)
      BY <1>0, <2>0 DEF Local, TreeAt
    <3> QED BY <2>4, <2>5, <3>1 DEF TreeAt, Private, Landed, Admitting, Locked
  <2>8. WholeAt(r)'
    BY <2>4, <2>5 DEF WholeAt, WholeIn, Landed, Snapped, Admitting
  <2>9. SequenceAt(r)'
    BY <2>4, <2>5 DEF SequenceAt
  <2>10. Local(r)'
    BY <2>5, <2>6, <2>7, <2>8, <2>9 DEF Local
  <2>11. \A n \in Names : Keeper(r, n) => Keeper(r, n)'
    BY <1>0 DEF Keeper, Replacing
  <2> QED BY <1>0, <1>2, <2>1, <2>2, <2>10, <2>11, PureStep
<1> QED BY <1>1, <1>2 DEF SyncQueue

LEMMA LockInputStep ==
  ASSUME Inv, NEW r \in Requests, LockInput(r) PROVE Inv'
<1>0. /\ pc[r] = "lock" /\ Still /\ UNCHANGED <<ready, history>>
      /\ UNCHANGED coordination /\ disk' = disk /\ survivors' = survivors
  BY DEF LockInput, Still
<1>1. /\ Nobody \notin Requests /\ Local(r) /\ job \in [Requests -> Jobs]
      /\ disk \in Disks
  BY RequestsAreNoMarks DEF Inv, TypeOK, Jobs
<1>2. /\ settled' \in [Names -> Contents]
      /\ \A n \in Names : settled'[n] \in {settled[n], r}
      /\ UNCHANGED <<withdrawn, used, before, settled>>
  BY <1>0 DEF Inv, TypeOK, history
<1>3. Landed(disk, r)' => Landed(disk, r) /\ disk'.seq[r] = disk.seq[r]
  BY <1>0 DEF Landed
<1>4. CASE Go(r, "rejected") /\ MayFail /\ UNCHANGED <<job, inputLock>>
  <2>1. Moves(r, "rejected", job[r]) /\ LocksFor(r)
    BY <1>0, <1>1, <1>4
       DEF Moves, LocksFor, Go, Points, Answers, Steps, Inv, TypeOK
  <2>2. faults' \in 0..MaxFaults
    BY <1>4, Budget
  <2>3. TypeOK' /\ Frame(r) /\ pc'[r] = "rejected" /\ job'[r] = job[r]
    BY <1>0, <1>2, <2>1, <2>2, PureFrame
  <2>4. Local(r)'
    BY <1>2, <1>3, <2>3, LeaveOwn
  <2>5. \A n \in Names : Keeper(r, n) => Keeper(r, n)'
    BY <1>0 DEF Keeper, Replacing
  <2> QED BY <1>0, <2>1, <2>2, <2>4, <2>5, PureStep
<1>5. CASE /\ inputLock = Nobody /\ inputLock' = r /\ Go(r, "mkdir")
           /\ job' = [job EXCEPT ![r].replacing =
                         {n \in job[r].uploads : disk.input[n] # "none"}]
           /\ NoFault
  <2> DEFINE S == {n \in job[r].uploads : disk.input[n] # "none"}
             j == [job[r] EXCEPT !.replacing = S]
  <2>1. /\ job' = [job EXCEPT ![r] = j] /\ j \in Jobs
        /\ j.uploads = job[r].uploads /\ j.replacing = S
        /\ \A n \in j.replacing : disk.input[n] # "none"
    BY <1>1, <1>5 DEF Jobs
  <2> HIDE DEF j
  <2>2. Moves(r, "mkdir", j)
    BY <1>0, <1>5, <2>1 DEF Moves, Go, Points, Steps
  <2>3. LocksFor(r)
    BY <1>0, <1>1, <1>5 DEF LocksFor, Inv, TypeOK
  <2>4. faults' \in 0..MaxFaults
    BY <1>5, Budget
  <2>5. TypeOK' /\ Frame(r) /\ pc'[r] = "mkdir" /\ job'[r] = j
    BY <1>0, <1>2, <2>2, <2>3, <2>4, PureFrame
  <2>6. /\ used'[r] = 0 => \A d \in survivors' : ~Landed(d, r)
        /\ \A d \in survivors' : Landed(d, r) => WholeIn(d, r)'
        /\ \A d \in survivors' : Landed(d, r) => d.seq[r] \in 1..(d.counter - 1)
        /\ \A d \in survivors' : used'[r] < d.counter
        /\ BeforeAt(r)'
    BY <1>2, <1>3, <2>1, <2>5, FrameOwn
  <2>7. LocksAt(r)' /\ JobAt(r)' /\ DoneAt(r)' /\ ReplacingAt(r)'
    BY <1>0, <1>5, <2>1, <2>5
       DEF LocksAt, JobAt, DoneAt, ReplacingAt, Locked, Coordinating,
           Admitting, Early, Filed, Replacing
  <2>8. PendingAt(r)'
    <3>1. Pending(r)' = Pending(r)
      BY <1>0, <2>5 DEF Pending, Early
    <3> QED BY <1>0, <1>1, <1>2, <3>1 DEF Local, PendingAt, Early
  <2>9. SnapshotsAt(r)' /\ WithdrawnAt(r)'
    BY <1>0, <1>1, <1>2, <2>5
       DEF Local, SnapshotsAt, WithdrawnAt, Left, Replacing
  <2>10. TreeAt(r)'
    BY <1>0, <1>1, <1>2, <2>5, <2>6
       DEF Local, TreeAt, Private, Landed, Admitting, Locked, Left
  <2>11. WholeAt(r)' /\ SequenceAt(r)'
    BY <2>5, <2>6 DEF WholeAt, WholeIn, Landed, Snapped, Admitting, SequenceAt
  <2>12. Local(r)'
    BY <2>6, <2>7, <2>8, <2>9, <2>10, <2>11 DEF Local
  <2>13. \A n \in Names : Keeper(r, n) => Keeper(r, n)'
    BY <1>0 DEF Keeper, Replacing
  <2> QED BY <1>0, <2>2, <2>3, <2>4, <2>12, <2>13, PureStep
<1> QED BY <1>4, <1>5 DEF LockInput

LEMMA BeginStep ==
  ASSUME Inv, NEW r \in Requests, Begin(r) PROVE Inv'
<1>0. /\ pc[r] = "idle" /\ Still /\ NoFault /\ disk' = disk
      /\ survivors' = survivors
      /\ UNCHANGED <<inputLock, coordination, ready, settled, withdrawn, used>>
      /\ before' = [before EXCEPT ![r] = {q \in Requests : pc[q] = "accepted"}]
  BY DEF Begin, Still, locks
<1>1. /\ Local(r) /\ job \in [Requests -> Jobs] /\ disk \in Disks
      /\ disk \in survivors /\ \A d \in survivors : d \in Disks
      /\ before \in [Requests -> SUBSET Requests]
  BY DEF Inv, TypeOK, Jobs
<1>2. PICK s \in {"lock", "rejected"}, j \in Jobs : Moves(r, s, j)
  <2>1. CASE ~ready /\ Go(r, "rejected") /\ UNCHANGED job
    <3>1. Moves(r, "rejected", job[r])
      BY <1>0, <1>1, <2>1 DEF Moves, Go, Points, Answers
    <3> QED BY <1>1, <3>1
  <2>2. CASE Go(r, "lock") /\ \E uploads \in Uploads :
                job' = [job EXCEPT ![r] = [NoJob EXCEPT !.uploads = uploads]]
    <3>1. PICK uploads \in Uploads :
             job' = [job EXCEPT ![r] = [NoJob EXCEPT !.uploads = uploads]]
      BY <2>2
    <3>2. [NoJob EXCEPT !.uploads = uploads] \in Jobs
      BY DEF NoJob, Jobs, Uploads
    <3>3. Moves(r, "lock", [NoJob EXCEPT !.uploads = uploads])
      BY <1>0, <2>2, <3>1, <3>2 DEF Moves, Go, Points, Steps
    <3> QED BY <3>2, <3>3
  <2> QED BY <2>1, <2>2 DEF Begin
<1>3. LocksFor(r) /\ faults' \in 0..MaxFaults
  BY <1>0, Budget DEF LocksFor, Inv, TypeOK
<1>4. /\ before' \in [Requests -> SUBSET Requests]
      /\ before'[r] = {q \in Requests : pc[q] = "accepted"}
      /\ \A q \in Requests \ {r} : before'[q] = before[q]
  BY <1>0, <1>1
<1>5. /\ TypeOK' /\ pc'[r] = s /\ job'[r] = j
      /\ \A q \in Requests \ {r} : pc'[q] = pc[q] /\ job'[q] = job[q]
  BY <1>0, <1>1, <1>2, <1>3, <1>4, MoveTyped DEF Inv, TypeOK
<1>6. Frame(r)
  BY <1>0, <1>1, <1>2, <1>3, <1>4, <1>5 DEF Frame, Moves, LocksFor
<1>7. used[r] = 0 /\ \A d \in survivors : ~Landed(d, r)
  BY <1>0, <1>1 DEF Local, TreeAt, Left
<1>8. Local(r)'
  <2>1. LocksAt(r)' /\ JobAt(r)' /\ DoneAt(r)' /\ ReplacingAt(r)'
    BY <1>2, <1>5
       DEF LocksAt, JobAt, DoneAt, ReplacingAt, Locked, Coordinating,
           Admitting, Early, Filed, Replacing
  <2>2. PendingAt(r)'
    <3>1. Pending(r) = Names /\ (s = "lock" => Pending(r)' = Names)
      BY <1>0, <1>5 DEF Pending, Early
    <3> QED BY <1>0, <1>1, <1>2, <1>5, <3>1
            DEF Local, PendingAt, Early, Locked
  <2>3. SnapshotsAt(r)' /\ WithdrawnAt(r)'
    BY <1>0, <1>1, <1>2, <1>5
       DEF Local, SnapshotsAt, WithdrawnAt, Left, Replacing, Locked
  <2>4. TreeAt(r)'
    BY <1>0, <1>2, <1>5, <1>7
       DEF TreeAt, Private, Landed, Admitting, Locked, Left
  <2>5. WholeAt(r)'
    BY <1>0, <1>2, <1>5, <1>7 DEF WholeAt, Landed, Snapped, Admitting
  <2>6. SequenceAt(r)'
    BY <1>0, <1>1, <1>2, <1>5 DEF Local, SequenceAt
  <2>7. BeforeAt(r)'
    BY <1>0, <1>4, <1>5 DEF BeforeAt
  <2> QED BY <2>1, <2>2, <2>3, <2>4, <2>5, <2>6, <2>7 DEF Local
<1>9. Kept'
  <2>1. \A n \in Names : ~Keeper(r, n)
    BY <1>0 DEF Keeper, Replacing
  <2> QED BY <1>0, <1>5, <1>6, <2>1, FrameKept
<1>10. BytesAreKept'
  BY <1>0, <1>5, <1>6, <1>9, FrameBytes
<1>11. Quiet' /\ Gone' /\ SequenceNeverReused'
  BY <1>0 DEF Inv, Quiet, Gone, SequenceNeverReused
<1>12. AcknowledgedFirst'
  BY <1>0, <1>4, <1>7 DEF Inv, AcknowledgedFirst
<1> QED BY <1>5, <1>6, <1>8, <1>9, <1>10, <1>11, <1>12, FrameInv
-----------------------------------------------------------------------------
(* The steps that change files.                                            *)

LEMMA ChangeFacts ==
  ASSUME Inv, NEW r \in Requests, NEW s, NEW j, Moves(r, s, j), LocksFor(r),
         faults' \in 0..MaxFaults, UNCHANGED <<ready, before>>,
         NEW e \in Disks, Change(e) \/ ChangeSync(e),
         settled' \in [Names -> Contents],
         withdrawn' \subseteq Requests \X Names,
         used' \in [Requests -> Nat]
  PROVE  /\ TypeOK' /\ pc'[r] = s /\ job'[r] = j /\ disk' = e
         /\ \A q \in Requests \ {r} : pc'[q] = pc[q] /\ job'[q] = job[q]
         /\ disk' \in survivors' /\ survivors' \subseteq survivors \cup {disk'}
         /\ disk \in Disks /\ disk \in survivors /\ Local(r)
<1>1. /\ disk' = e /\ disk' \in survivors'
      /\ survivors' \subseteq survivors \cup {disk'}
  BY DEF Change, ChangeSync
<1>2. disk \in Disks /\ disk \in survivors /\ Local(r)
      /\ before' \in [Requests -> SUBSET Requests]
  BY DEF Inv, TypeOK
<1> QED BY <1>1, <1>2, MoveTyped

LEMMA SameHistory ==
  ASSUME Inv, UNCHANGED history
  PROVE  /\ settled' \in [Names -> Contents]
         /\ withdrawn' \subseteq Requests \X Names
         /\ used' \in [Requests -> Nat]
         /\ UNCHANGED settled /\ UNCHANGED withdrawn /\ UNCHANGED used
         /\ UNCHANGED before
         /\ SequenceNeverReused' /\ AcknowledgedFirst'
BY DEF Inv, TypeOK, history, SequenceNeverReused, AcknowledgedFirst

(* A thread that keeps nobody's bytes and leaves the input directory alone *)
LEMMA StepAside ==
  ASSUME Inv, TypeOK', NEW r \in Requests, Frame(r), Local(r)',
         disk'.input = disk.input, UNCHANGED history,
         pc[r] \in Steps \ Replacing, pc[r] = "cleanup" => ~job[r].retain,
         \/ ready
         \/ disk'.tree[r] \in {"queue", "current"} =>
               disk.tree[r] \in {"queue", "current"}
  PROVE  Inv'
<1>1. /\ UNCHANGED settled /\ UNCHANGED withdrawn
      /\ SequenceNeverReused' /\ AcknowledgedFirst'
  BY SameHistory
<1>2. \A n \in Names : ~Keeper(r, n)
  BY DEF Keeper, Steps
<1>3. Kept'
  BY <1>1, <1>2, FrameKept
<1>4. BytesAreKept'
  BY <1>1, <1>3, FrameBytes
<1>5. Gone'
  BY <1>1 DEF Inv, Gone
<1>6. Quiet'
  BY FrameQuiet
<1> QED BY <1>1, <1>3, <1>4, <1>5, <1>6, FrameInv

LEMMA MakePrivateStep ==
  ASSUME Inv, NEW r \in Requests, MakePrivate(r) PROVE Inv'
<1>0. pc[r] = "mkdir" /\ UNCHANGED <<ready, history>>
  BY DEF MakePrivate
<1> DEFINE made == [disk EXCEPT !.tree[r] = "private"]
<1>1. /\ Local(r) /\ job[r] \in Jobs /\ job \in [Requests -> Jobs]
      /\ disk \in Disks
  BY <1>0, LockedFacts DEF Locked, Inv, TypeOK, Jobs
<1>m. made = [disk EXCEPT !.tree[r] = "private"] /\ "private" \in Trees
  BY DEF Trees
<1> HIDE DEF made
<1>2. /\ made \in Disks /\ SameBut(disk, made, {"tree"})
      /\ made.tree = [disk.tree EXCEPT ![r] = "private"]
  BY <1>1, <1>m, SetTree
<1>3. /\ made \in Disks /\ made.input = disk.input /\ made.hold = disk.hold
      /\ made.snapshot = disk.snapshot /\ made.seq = disk.seq
      /\ made.counter = disk.counter /\ made.tree[r] = "private"
      /\ \A q \in Requests \ {r} : made.tree[q] = disk.tree[q]
  BY <1>1, <1>2, Parts DEF SameBut
<1>4. CASE Fail(r, FALSE) /\ MayFail /\ Still
  <2>1. faults' \in 0..MaxFaults
    BY <1>4, Budget
  <2> QED BY <1>0, <1>4, <2>1, FailStep DEF Steps, Replacing
<1>5. ASSUME NEW s, NEW j, Moves(r, s, j), LocksFor(r), faults' \in 0..MaxFaults,
             Change(made) \/ ChangeSync(made), j.uploads = job[r].uploads
      PROVE  /\ TypeOK' /\ pc'[r] = s /\ job'[r] = j /\ disk' = made /\ Frame(r)
             /\ UNCHANGED <<settled, withdrawn, used, before>>
  <2>1. /\ settled' \in [Names -> Contents]
        /\ withdrawn' \subseteq Requests \X Names
        /\ used' \in [Requests -> Nat]
        /\ UNCHANGED <<settled, withdrawn, used, before>>
    BY <1>0, SameHistory
  <2>2. /\ TypeOK' /\ pc'[r] = s /\ job'[r] = j /\ disk' = made
        /\ \A q \in Requests \ {r} : pc'[q] = pc[q] /\ job'[q] = job[q]
        /\ disk' \in survivors' /\ survivors' \subseteq survivors \cup {disk'}
    BY <1>0, <1>3, <1>5, <2>1, ChangeFacts
  <2>3. Frame(r)
    BY <1>0, <1>3, <1>5, <2>1, <2>2 DEF Frame, LocksFor, Steps
  <2> QED BY <2>1, <2>2, <2>3
<1>6. CASE Fail(r, FALSE) /\ MayFail /\ Change(made)
  <2> DEFINE j == [job[r] EXCEPT !.retain = FALSE]
  <2>1. Moves(r, "cleanup", j) /\ LocksFor(r) /\ j.uploads = job[r].uploads
    BY <1>0, <1>6, FailMoves DEF Steps
  <2> HIDE DEF j
  <2>2. faults' \in 0..MaxFaults
    BY <1>6, Budget
  <2>3. /\ TypeOK' /\ pc'[r] = "cleanup" /\ job'[r] = j /\ disk' = made
        /\ Frame(r) /\ UNCHANGED <<settled, withdrawn, used, before>>
    BY <1>5, <1>6, <2>1, <2>2
  <2>4. ~Landed(disk, r)'
    BY <1>3, <2>3 DEF Landed
  <2>5. Local(r)'
    BY <2>1, <2>3, <2>4, LeaveOwn
  <2> QED BY <1>0, <1>3, <2>3, <2>5, StepAside DEF Steps, Replacing
<1>7. CASE /\ ChangeSync(made) /\ Go(r, "stream") /\ NoFault
           /\ UNCHANGED <<job, locks>>
  <2>1. Moves(r, "stream", job[r]) /\ LocksFor(r) /\ UNCHANGED inputLock
    BY <1>0, <1>7, ProceedMoves DEF Proceed, Steps, Points, locks
  <2>2. faults' \in 0..MaxFaults
    BY <1>7, Budget
  <2>3. /\ TypeOK' /\ pc'[r] = "stream" /\ job'[r] = job[r] /\ disk' = made
        /\ Frame(r) /\ UNCHANGED <<settled, withdrawn, used, before>>
    BY <1>5, <1>7, <2>1, <2>2
  <2>4. Pending(r) = Names /\ Pending(r)' = Names
    BY <1>0, <2>3 DEF Pending, Early
  <2>5. /\ LocksAt(r)' /\ PendingAt(r)' /\ TreeAt(r)' /\ SnapshotsAt(r)'
        /\ WholeAt(r)' /\ SequenceAt(r)' /\ BeforeAt(r)'
        /\ \A n \in Names : <<r, n>> \notin withdrawn'
    BY <1>0, <1>3, <2>1, <2>3, <2>4, LockedOwn DEF Locked
  <2>6. JobAt(r)' /\ DoneAt(r)' /\ ReplacingAt(r)' /\ WithdrawnAt(r)'
    BY <1>0, <1>1, <1>3, <2>3, <2>5
       DEF Local, JobAt, DoneAt, ReplacingAt, WithdrawnAt, Locked, Early,
           Filed, Replacing
  <2>7. Local(r)'
    BY <2>5, <2>6 DEF Local
  <2> QED BY <1>0, <1>3, <2>3, <2>7, StepAside DEF Steps, Replacing
<1> QED BY <1>4, <1>6, <1>7 DEF MakePrivate, made

LEMMA BackupStep ==
  ASSUME Inv, NEW r \in Requests, Backup(r) PROVE Inv'
<1> DEFINE n == job[r].file
           e == [disk EXCEPT !.hold[r][n] = disk.input[n]]
<1>0. pc[r] = "backup" /\ UNCHANGED <<ready, history>>
  BY DEF Backup
<1>1. CASE Still /\ FailCleaningUp(r)
  BY <1>0, <1>1, FailCleaningStep DEF Steps, Replacing
<1>2. CASE Change(e) /\ Proceed(r, "replace") /\ NoFault
  <2>1. /\ Local(r) /\ job[r] \in Jobs /\ disk \in Disks /\ n \in Names
        /\ Pending(r) \subseteq Names
    BY <1>0, LockedFacts DEF Locked, Filed
  <2>2. disk.input[n] \in Contents /\ e = [disk EXCEPT !.hold[r][n] = disk.input[n]]
    BY <2>1, Parts
  <2> HIDE DEF e
  <2>3. /\ e \in Disks /\ SameBut(disk, e, {"hold"})
        /\ e.hold = [disk.hold EXCEPT ![r] = [disk.hold[r] EXCEPT ![n] = disk.input[n]]]
    <3>1. \A m \in Names, x \in Contents : \A f :
             f = [disk EXCEPT !.hold[r][m] = x] =>
                /\ f \in Disks /\ SameBut(disk, f, {"hold"})
                /\ f.hold = [disk.hold EXCEPT ![r] = [disk.hold[r] EXCEPT ![m] = x]]
      BY <2>1, SetHold
    <3> QED BY <2>1, <2>2, <3>1
  <2>4. /\ e.input = disk.input /\ e.tree = disk.tree
        /\ e.snapshot = disk.snapshot /\ e.seq = disk.seq
        /\ e.counter = disk.counter /\ e.hold[r][n] = disk.input[n]
        /\ \A q \in Requests \ {r} : e.hold[q] = disk.hold[q]
        /\ \A m \in Names : e.hold[r][m] \in {disk.hold[r][m], disk.input[m]}
    BY <2>1, <2>3, Parts DEF SameBut
  <2>5. /\ settled' \in [Names -> Contents]
        /\ withdrawn' \subseteq Requests \X Names
        /\ used' \in [Requests -> Nat]
        /\ UNCHANGED <<settled, withdrawn, used, before>>
    BY <1>0, SameHistory
  <2>6. Moves(r, "replace", job[r]) /\ LocksFor(r) /\ UNCHANGED inputLock
    BY <1>0, <1>2, ProceedMoves DEF Steps, Points, Proceed, locks
  <2>7. faults' \in 0..MaxFaults
    BY <1>2, Budget
  <2>8. /\ TypeOK' /\ pc'[r] = "replace" /\ job'[r] = job[r] /\ disk' = e
        /\ \A q \in Requests \ {r} : pc'[q] = pc[q] /\ job'[q] = job[q]
        /\ disk' \in survivors' /\ survivors' \subseteq survivors \cup {disk'}
    BY <1>0, <1>2, <2>3, <2>5, <2>6, <2>7, ChangeFacts
  <2>9. Frame(r)
    BY <1>0, <2>4, <2>5, <2>6, <2>8 DEF Frame, LocksFor, Steps
  <2>10. Pending(r)' = Pending(r)
    BY <1>0, <2>8 DEF Pending, Early
  <2>11. disk.tree[r] = "private"
    BY <1>0, <2>1 DEF Local, TreeAt, Private, Locked
  <2>12. /\ LocksAt(r)' /\ PendingAt(r)' /\ TreeAt(r)' /\ SnapshotsAt(r)'
         /\ WholeAt(r)' /\ SequenceAt(r)' /\ BeforeAt(r)'
         /\ \A m \in Names : <<r, m>> \notin withdrawn'
    BY <1>0, <2>1, <2>4, <2>5, <2>6, <2>8, <2>9, <2>10, <2>11, LockedOwn
       DEF Locked
  <2>13. JobAt(r)' /\ DoneAt(r)' /\ ReplacingAt(r)'
    BY <1>0, <2>1, <2>4, <2>8, <2>10
       DEF Local, JobAt, DoneAt, ReplacingAt, Locked, Early, Filed, Replacing
  <2>14. WithdrawnAt(r)'
    <3>1. <<disk.input[n], n>> \notin withdrawn
      BY <2>1 DEF Inv, Gone
    <3> QED BY <2>4, <2>5, <2>8, <2>12, <3>1 DEF WithdrawnAt
  <2>15. Local(r)'
    BY <2>12, <2>13, <2>14 DEF Local
  <2> QED BY <1>0, <2>4, <2>8, <2>9, <2>15, StepAside DEF Steps, Replacing
<1> QED BY <1>1, <1>2 DEF Backup

(* What is known of the file that is being replaced.                       *)
LEMMA ReplaceFacts ==
  ASSUME Inv, NEW r \in Requests, pc[r] \in {"replace"} \cup Replacing
  PROVE  LET n == job[r].file IN
         /\ n \in Names /\ n \in job[r].uploads \ job[r].todo
         /\ disk.input[n] \in {r, disk.hold[r][n]} /\ disk.hold[r][n] # r
         /\ settled[n] # r /\ disk.tree[r] = "private"
         /\ <<disk.hold[r][n], n>> \notin withdrawn
         /\ disk.input[n] # "none"
<1> DEFINE n == job[r].file
<1>1. pc[r] \in Locked /\ pc[r] \in Filed /\ pc[r] \in Private
  BY DEF Locked, Filed, Replacing, Private
<1>2. /\ Local(r) /\ disk \in Disks /\ n \in Names /\ disk \in survivors
  BY <1>1, LockedFacts DEF Inv
<1>3. /\ n \in job[r].uploads \ job[r].todo /\ disk.input[n] # "none"
      /\ disk.tree[r] = "private" /\ <<disk.hold[r][n], n>> \notin withdrawn
  BY <1>1, <1>2 DEF Local, JobAt, TreeAt, WithdrawnAt
<1>4. CASE pc[r] = "replace"
  <2>1. n \in Pending(r)
    BY <1>4 DEF Pending, Early
  <2> QED BY <1>1, <1>2, <1>3, <1>4, <2>1 DEF Local, PendingAt, ReplacingAt
<1>5. CASE pc[r] \in Replacing
  BY <1>2, <1>3, <1>5 DEF Local, ReplacingAt
<1> QED BY <1>4, <1>5

(* Something failed: the thread goes to the rollback.                      *)
LEMMA ToRollback ==
  ASSUME Inv, NEW r \in Requests, pc[r] \in {"replace", "unlink_backup"},
         Still, Proceed(r, "rollback"), MayFail, UNCHANGED <<ready, history>>
  PROVE  Inv'
<1> DEFINE n == job[r].file
<1>1. Moves(r, "rollback", job[r]) /\ LocksFor(r) /\ UNCHANGED inputLock
  BY ProceedMoves DEF Steps, Points, Proceed, locks
<1>2. faults' \in 0..MaxFaults
  BY Budget
<1>3. pc'[r] = "rollback" /\ job'[r] = job[r] /\ disk' = disk
      /\ UNCHANGED settled
  BY <1>1 DEF Moves, Inv, TypeOK, Still, history
<1>4. Local(r) /\ Pending(r) \subseteq Names /\ Pending(r)' \subseteq Pending(r)
  BY <1>3, LockedFacts DEF Locked, Pending, Early
<1>5. JobAt(r)' /\ DoneAt(r)'
  BY <1>3, <1>4 DEF Local, JobAt, DoneAt, Locked, Early, Filed, Replacing
<1>6. /\ disk.input[n] \in {r, disk.hold[r][n]} /\ disk.hold[r][n] # r
      /\ settled[n] # r /\ <<disk.hold[r][n], n>> \notin withdrawn
  BY ReplaceFacts DEF Replacing
<1>7. ReplacingAt(r)'
  BY <1>3, <1>6 DEF ReplacingAt
<1> QED BY <1>1, <1>2, <1>4, <1>5, <1>6, <1>7, LockedMove DEF Locked, Replacing

LEMMA ReplaceStep ==
  ASSUME Inv, NEW r \in Requests, Replace(r) PROVE Inv'
<1> DEFINE n == job[r].file
           e == [disk EXCEPT !.input[n] = r]
<1>0. pc[r] = "replace" /\ UNCHANGED <<ready, history>>
  BY DEF Replace
<1>1. CASE Still /\ Proceed(r, "rollback") /\ MayFail
  BY <1>0, <1>1, ToRollback
<1>2. CASE Change(e) /\ Proceed(r, "sync_replaced") /\ NoFault
  <2>1. /\ Local(r) /\ job[r] \in Jobs /\ disk \in Disks /\ n \in Names
        /\ Pending(r) \subseteq Names
    BY <1>0, LockedFacts DEF Locked, Filed
  <2>2. r \in Contents /\ e = [disk EXCEPT !.input[n] = r] /\ r # "none"
    BY RequestsAreNoMarks DEF Contents
  <2> HIDE DEF e
  <2>3. /\ e \in Disks /\ SameBut(disk, e, {"input"})
        /\ e.input = [disk.input EXCEPT ![n] = r]
    BY <2>1, <2>2 DEF Disks, SameBut
  <2>4. /\ e.hold = disk.hold /\ e.tree = disk.tree
        /\ e.snapshot = disk.snapshot /\ e.seq = disk.seq
        /\ e.counter = disk.counter /\ e.input[n] = r
        /\ \A m \in Names \ {n} : e.input[m] = disk.input[m]
    BY <2>1, <2>3, Parts DEF SameBut
  <2>5. /\ settled' \in [Names -> Contents]
        /\ withdrawn' \subseteq Requests \X Names
        /\ used' \in [Requests -> Nat]
        /\ UNCHANGED <<settled, withdrawn, used, before>>
        /\ SequenceNeverReused' /\ AcknowledgedFirst'
    BY <1>0, SameHistory
  <2>6. Moves(r, "sync_replaced", job[r]) /\ LocksFor(r) /\ UNCHANGED inputLock
    BY <1>0, <1>2, ProceedMoves DEF Steps, Points, Proceed, locks
  <2>7. faults' \in 0..MaxFaults
    BY <1>2, Budget
  <2>8. /\ TypeOK' /\ pc'[r] = "sync_replaced" /\ job'[r] = job[r] /\ disk' = e
        /\ \A q \in Requests \ {r} : pc'[q] = pc[q] /\ job'[q] = job[q]
        /\ disk' \in survivors' /\ survivors' \subseteq survivors \cup {disk'}
    BY <1>0, <1>2, <2>3, <2>5, <2>6, <2>7, ChangeFacts
  <2>9. Frame(r)
    BY <1>0, <2>4, <2>5, <2>6, <2>8 DEF Frame, LocksFor, Steps
  <2>10. /\ n \in job[r].uploads \ job[r].todo
         /\ disk.hold[r][n] # r /\ settled[n] # r /\ disk.tree[r] = "private"
         /\ <<disk.hold[r][n], n>> \notin withdrawn
    BY <1>0, ReplaceFacts
  <2>11. /\ Pending(r) = job[r].todo \cup {n} /\ Pending(r)' = job[r].todo
         /\ job[r].todo \subseteq Names \ {n} /\ job[r].uploads \subseteq Names
    BY <1>0, <2>1, <2>8, <2>10 DEF Pending, Early, Jobs
  <2>12. /\ LocksAt(r)' /\ PendingAt(r)' /\ TreeAt(r)' /\ SnapshotsAt(r)'
         /\ WholeAt(r)' /\ SequenceAt(r)' /\ BeforeAt(r)'
         /\ \A m \in Names : <<r, m>> \notin withdrawn'
    BY <1>0, <2>1, <2>4, <2>5, <2>6, <2>8, <2>9, <2>10, <2>11, LockedOwn
       DEF Locked
  <2>13. JobAt(r)'
    <3>1. job[r].replacing \subseteq Names
      BY <2>1 DEF Jobs
    <3> QED BY <1>0, <2>1, <2>2, <2>4, <2>8, <2>10, <3>1
            DEF Local, JobAt, Locked, Early, Filed, Replacing
  <2>14. DoneAt(r)'
    BY <1>0, <2>1, <2>4, <2>8, <2>11 DEF Local, DoneAt, Locked, Early
  <2>15. ReplacingAt(r)' /\ WithdrawnAt(r)'
    BY <2>4, <2>5, <2>8, <2>10, <2>12
       DEF ReplacingAt, WithdrawnAt, Replacing
  <2>16. Local(r)'
    BY <2>12, <2>13, <2>14, <2>15 DEF Local
  <2>17. Kept'
    <3> SUFFICES ASSUME NEW m \in Names,
                        settled[m] \notin {"none", disk'.input[m]}
                 PROVE  \E q \in Requests : /\ Keeper(q, m)'
                                            /\ disk'.tree[q] = "private"
                                            /\ disk'.hold[q][m] = settled[m]
      BY <2>5 DEF Kept
    <3>1. CASE m = n /\ settled[m] = disk.input[m]
      <4>1. Keeper(r, m)'
        BY <2>8, <3>1 DEF Keeper, Replacing
      <4>2. disk.hold[r][n] = disk.input[n]
        BY <1>0, <2>1 DEF Local, ReplacingAt
      <4> QED BY <2>4, <2>8, <2>10, <3>1, <4>1, <4>2
    <3>2. CASE settled[m] \notin {"none", disk.input[m]}
      <4>1. PICK q \in Requests : /\ Keeper(q, m) /\ disk.tree[q] = "private"
                                  /\ disk.hold[q][m] = settled[m]
        BY <3>2 DEF Inv, Kept
      <4>2. q # r
        BY <1>0, <4>1 DEF Keeper, Replacing
      <4> QED BY <2>4, <2>8, <4>1, <4>2 DEF Keeper
    <3> QED BY <2>4, <2>8, <3>1, <3>2
  <2>18. BytesAreKept'
    BY <2>5, <2>8, <2>9, <2>17, FrameBytes
  <2>19. Gone'
    BY <2>4, <2>5, <2>8, <2>12 DEF Inv, Gone
  <2>20. Quiet'
    BY <2>4, <2>8, <2>9, FrameQuiet
  <2> QED BY <2>5, <2>8, <2>9, <2>16, <2>17, <2>18, <2>19, <2>20, FrameInv
<1> QED BY <1>1, <1>2 DEF Replace

LEMMA RemoveBackupStep ==
  ASSUME Inv, NEW r \in Requests, RemoveBackup(r) PROVE Inv'
<1> DEFINE n == job[r].file
           e == [disk EXCEPT !.hold[r][n] = "none"]
<1>0. pc[r] = "unlink_backup" /\ UNCHANGED <<ready, withdrawn, used, before>>
  BY DEF RemoveBackup
<1>1. CASE Still /\ UNCHANGED settled /\ Proceed(r, "rollback") /\ MayFail
  BY <1>0, <1>1, ToRollback DEF history
<1>2. CASE /\ Change(e) /\ settled' = [settled EXCEPT ![n] = r]
           /\ Proceed(r, "sync_private") /\ NoFault
  <2>1. /\ Local(r) /\ job[r] \in Jobs /\ disk \in Disks /\ n \in Names
        /\ Pending(r) \subseteq Names
    BY <1>0, LockedFacts DEF Locked, Filed, Replacing
  <2>2. "none" \in Contents /\ e = [disk EXCEPT !.hold[r][n] = "none"]
    BY DEF Contents
  <2> HIDE DEF e
  <2>3. /\ e \in Disks /\ SameBut(disk, e, {"hold"})
        /\ e.hold = [disk.hold EXCEPT ![r] = [disk.hold[r] EXCEPT ![n] = "none"]]
    <3>1. \A m \in Names, x \in Contents : \A f :
             f = [disk EXCEPT !.hold[r][m] = x] =>
                /\ f \in Disks /\ SameBut(disk, f, {"hold"})
                /\ f.hold = [disk.hold EXCEPT ![r] = [disk.hold[r] EXCEPT ![m] = x]]
      BY <2>1, SetHold
    <3> QED BY <2>1, <2>2, <3>1
  <2>4. /\ e.input = disk.input /\ e.tree = disk.tree
        /\ e.snapshot = disk.snapshot /\ e.seq = disk.seq
        /\ e.counter = disk.counter
        /\ \A q \in Requests \ {r} : e.hold[q] = disk.hold[q]
        /\ \A m \in Names : e.hold[r][m] \in {disk.hold[r][m], "none"}
    BY <2>1, <2>3, Parts DEF SameBut
  <2>5. /\ settled' \in [Names -> Contents] /\ settled'[n] = r
        /\ \A m \in Names \ {n} : settled'[m] = settled[m]
        /\ withdrawn' \subseteq Requests \X Names
        /\ used' \in [Requests -> Nat]
    BY <1>0, <1>2, <2>1 DEF Inv, TypeOK, Contents
  <2>6. Moves(r, "sync_private", job[r]) /\ LocksFor(r) /\ UNCHANGED inputLock
    BY <1>0, <1>2, ProceedMoves DEF Steps, Points, Proceed, locks
  <2>7. faults' \in 0..MaxFaults
    BY <1>2, Budget
  <2>8. /\ TypeOK' /\ pc'[r] = "sync_private" /\ job'[r] = job[r] /\ disk' = e
        /\ \A q \in Requests \ {r} : pc'[q] = pc[q] /\ job'[q] = job[q]
        /\ disk' \in survivors' /\ survivors' \subseteq survivors \cup {disk'}
        /\ disk \in survivors
    BY <1>0, <1>2, <2>3, <2>5, <2>6, <2>7, ChangeFacts
  <2>9. Frame(r)
    <3>1. \A m \in Names : settled'[m] \in {settled[m], r}
      BY <2>5
    <3> QED BY <1>0, <2>4, <2>6, <2>8, <3>1 DEF Frame, LocksFor, Steps
  <2>10. /\ n \in job[r].uploads \ job[r].todo /\ disk.tree[r] = "private"
         /\ \A d \in survivors : d.input[n] = r
    BY <1>0, <2>1, ReplaceFacts DEF Replacing, Local, ReplacingAt
  <2>11. /\ Pending(r) = job[r].todo /\ Pending(r)' = job[r].todo
         /\ job[r].todo \subseteq Names \ {n}
    BY <1>0, <2>1, <2>8, <2>10 DEF Pending, Early, Jobs
  <2>12. /\ LocksAt(r)' /\ PendingAt(r)' /\ TreeAt(r)' /\ SnapshotsAt(r)'
         /\ WholeAt(r)' /\ SequenceAt(r)' /\ BeforeAt(r)'
         /\ \A m \in Names : <<r, m>> \notin withdrawn'
    BY <1>0, <2>1, <2>4, <2>5, <2>6, <2>8, <2>9, <2>10, <2>11, LockedOwn
       DEF Locked
  <2>13. /\ JobAt(r)' /\ DoneAt(r)' /\ ReplacingAt(r)' /\ WithdrawnAt(r)'
    BY <1>0, <2>1, <2>4, <2>8, <2>11, <2>12
       DEF Local, JobAt, DoneAt, ReplacingAt, WithdrawnAt, Locked, Early,
           Filed, Replacing
  <2>14. Local(r)'
    BY <2>12, <2>13 DEF Local
  <2>15. Kept'
    <3> SUFFICES ASSUME NEW m \in Names,
                        settled'[m] \notin {"none", disk'.input[m]}
                 PROVE  \E q \in Requests : /\ Keeper(q, m)'
                                            /\ disk'.tree[q] = "private"
                                            /\ disk'.hold[q][m] = settled'[m]
      BY DEF Kept
    <3>1. m # n
      BY <2>4, <2>5, <2>8, <2>10
    <3>2. settled'[m] = settled[m] /\ disk'.input[m] = disk.input[m]
      BY <2>4, <2>5, <2>8, <3>1
    <3>3. PICK q \in Requests : /\ Keeper(q, m) /\ disk.tree[q] = "private"
                                /\ disk.hold[q][m] = settled[m]
      BY <3>2 DEF Inv, Kept
    <3>4. q # r
      BY <1>0, <3>1, <3>3 DEF Keeper
    <3> QED BY <2>4, <2>8, <3>2, <3>3, <3>4 DEF Keeper
  <2>16. BytesAreKept'
    <3> SUFFICES ASSUME NEW d \in survivors', NEW m \in Names,
                        settled'[m] \notin {"none", d.input[m]}
                 PROVE  \E q \in Requests : d.tree[q] = "private"
                                            /\ d.hold[q][m] = settled'[m]
      BY <2>8 DEF BytesAreKept
    <3>1. CASE d = disk'
      BY <2>15, <3>1 DEF Kept
    <3>2. CASE d \in survivors
      <4>1. m # n
        BY <2>5, <2>10, <3>2
      <4> QED BY <2>5, <3>2, <4>1 DEF Inv, BytesAreKept
    <3> QED BY <2>8, <3>1, <3>2
  <2>17. Gone' /\ SequenceNeverReused' /\ AcknowledgedFirst'
    BY <1>0, <2>4, <2>8
       DEF Inv, Gone, SequenceNeverReused, AcknowledgedFirst
  <2>18. Quiet'
    BY <2>4, <2>8, <2>9, FrameQuiet
  <2> QED BY <2>8, <2>9, <2>14, <2>15, <2>16, <2>17, <2>18, FrameInv
<1> QED BY <1>1, <1>2 DEF RemoveBackup

LEMMA LinkStep ==
  ASSUME Inv, NEW r \in Requests, Link(r) PROVE Inv'
<1> DEFINE n == job[r].file
           e == [disk EXCEPT !.input[n] = r]
<1>0. pc[r] = "link" /\ UNCHANGED <<ready, history>>
  BY DEF Link
<1>1. CASE Still /\ FailCleaningUp(r)
  BY <1>0, <1>1, FailCleaningStep DEF Steps, Replacing
<1>2. CASE /\ Still
           /\ (Fail(r, FALSE) /\ NoFault) \/ (Fail(r, TRUE) /\ MayFail)
  <2>1. faults' \in 0..MaxFaults
    BY <1>2, Budget
  <2> QED BY <1>0, <1>2, <2>1, FailStep DEF Steps, Replacing
<1>3. CASE /\ disk.input[n] = "none" /\ Change(e)
           /\ Proceed(r, "sync_new") /\ NoFault
  <2>1. /\ Local(r) /\ job[r] \in Jobs /\ disk \in Disks /\ n \in Names
        /\ Pending(r) \subseteq Names
    BY <1>0, LockedFacts DEF Locked, Filed
  <2>2. r \in Contents /\ e = [disk EXCEPT !.input[n] = r] /\ r # "none"
    BY RequestsAreNoMarks DEF Contents
  <2> HIDE DEF e
  <2>3. /\ e \in Disks /\ SameBut(disk, e, {"input"})
        /\ e.input = [disk.input EXCEPT ![n] = r]
    BY <2>1, <2>2 DEF Disks, SameBut
  <2>4. /\ e.hold = disk.hold /\ e.tree = disk.tree
        /\ e.snapshot = disk.snapshot /\ e.seq = disk.seq
        /\ e.counter = disk.counter /\ e.input[n] = r
        /\ \A m \in Names \ {n} : e.input[m] = disk.input[m]
    BY <2>1, <2>3, Parts DEF SameBut
  <2>5. /\ settled' \in [Names -> Contents]
        /\ withdrawn' \subseteq Requests \X Names
        /\ used' \in [Requests -> Nat]
        /\ UNCHANGED <<settled, withdrawn, used, before>>
        /\ SequenceNeverReused' /\ AcknowledgedFirst'
    BY <1>0, SameHistory
  <2>6. Moves(r, "sync_new", job[r]) /\ LocksFor(r) /\ UNCHANGED inputLock
    BY <1>0, <1>3, ProceedMoves DEF Steps, Points, Proceed, locks
  <2>7. faults' \in 0..MaxFaults
    BY <1>3, Budget
  <2>8. /\ TypeOK' /\ pc'[r] = "sync_new" /\ job'[r] = job[r] /\ disk' = e
        /\ \A q \in Requests \ {r} : pc'[q] = pc[q] /\ job'[q] = job[q]
        /\ disk' \in survivors' /\ survivors' \subseteq survivors \cup {disk'}
    BY <1>0, <1>3, <2>3, <2>5, <2>6, <2>7, ChangeFacts
  <2>9. Frame(r)
    BY <1>0, <2>4, <2>5, <2>6, <2>8 DEF Frame, LocksFor, Steps
  <2>10. n \in job[r].uploads \ job[r].todo /\ disk.tree[r] = "private"
    BY <1>0, <2>1 DEF Local, JobAt, Filed, TreeAt, Private, Locked
  <2>11. /\ Pending(r) = job[r].todo \cup {n} /\ Pending(r)' = job[r].todo
         /\ job[r].todo \subseteq Names \ {n} /\ job[r].uploads \subseteq Names
    BY <1>0, <2>1, <2>8, <2>10 DEF Pending, Early, Jobs
  <2>12. /\ LocksAt(r)' /\ PendingAt(r)' /\ TreeAt(r)' /\ SnapshotsAt(r)'
         /\ WholeAt(r)' /\ SequenceAt(r)' /\ BeforeAt(r)'
         /\ \A m \in Names : <<r, m>> \notin withdrawn'
    BY <1>0, <2>1, <2>4, <2>5, <2>6, <2>8, <2>9, <2>10, <2>11, LockedOwn
       DEF Locked
  <2>13. JobAt(r)'
    <3>1. job[r].replacing \subseteq Names
      BY <2>1 DEF Jobs
    <3> QED BY <1>0, <2>1, <2>2, <2>4, <2>8, <2>10, <3>1
            DEF Local, JobAt, Locked, Early, Filed, Replacing
  <2>14. DoneAt(r)'
    BY <1>0, <2>1, <2>4, <2>8, <2>11 DEF Local, DoneAt, Locked, Early
  <2>15. ReplacingAt(r)' /\ WithdrawnAt(r)'
    BY <2>8, <2>12 DEF ReplacingAt, WithdrawnAt, Replacing
  <2>16. Local(r)'
    BY <2>12, <2>13, <2>14, <2>15 DEF Local
  <2>17. Kept'
    <3> SUFFICES ASSUME NEW m \in Names,
                        settled[m] \notin {"none", disk'.input[m]}
                 PROVE  \E q \in Requests : /\ Keeper(q, m)'
                                            /\ disk'.tree[q] = "private"
                                            /\ disk'.hold[q][m] = settled[m]
      BY <2>5 DEF Kept
    <3>1. settled[m] \notin {"none", disk.input[m]}
      BY <1>3, <2>4, <2>8
    <3>2. PICK q \in Requests : /\ Keeper(q, m) /\ disk.tree[q] = "private"
                                /\ disk.hold[q][m] = settled[m]
      BY <3>1 DEF Inv, Kept
    <3>3. q # r
      BY <1>0, <3>2 DEF Keeper, Replacing
    <3> QED BY <2>4, <2>8, <3>2, <3>3 DEF Keeper
  <2>18. BytesAreKept'
    BY <2>5, <2>8, <2>9, <2>17, FrameBytes
  <2>19. Gone'
    BY <2>4, <2>5, <2>8, <2>12 DEF Inv, Gone
  <2>20. Quiet'
    BY <2>4, <2>8, <2>9, FrameQuiet
  <2> QED BY <2>5, <2>8, <2>9, <2>16, <2>17, <2>18, <2>19, <2>20, FrameInv
<1> QED BY <1>1, <1>2, <1>3 DEF Link

LEMMA SyncNewStep ==
  ASSUME Inv, NEW r \in Requests, SyncNew(r) PROVE Inv'
<1> DEFINE n == job[r].file
<1>0. pc[r] = "sync_new" /\ UNCHANGED <<ready, withdrawn, used, before>>
  BY DEF SyncNew
<1>1. CASE Still /\ FailCleaningUp(r) /\ UNCHANGED settled
  BY <1>0, <1>1, FailCleaningStep DEF Steps, Replacing, history
<1>2. CASE /\ Sync /\ Proceed(r, "unlink_private") /\ NoFault
           /\ settled' = [settled EXCEPT ![n] = r]
  <2>1. /\ Local(r) /\ job[r] \in Jobs /\ disk \in Disks /\ n \in Names
        /\ Pending(r) \subseteq Names
    BY <1>0, LockedFacts DEF Locked, Filed
  <2>2. /\ settled' \in [Names -> Contents] /\ settled'[n] = r
        /\ \A m \in Names \ {n} : settled'[m] = settled[m]
    BY <1>2, <2>1 DEF Inv, TypeOK, Contents
  <2>3. \A m \in Names : settled'[m] \in {settled[m], r}
    BY <2>2
  <2>4. Moves(r, "unlink_private", job[r]) /\ LocksFor(r) /\ UNCHANGED inputLock
    BY <1>0, <1>2, ProceedMoves DEF Steps, Points, Proceed, locks
  <2>5. faults' \in 0..MaxFaults
    BY <1>2, Budget
  <2>6. /\ TypeOK' /\ pc'[r] = "unlink_private" /\ job'[r] = job[r] /\ Frame(r)
        /\ disk' = disk /\ disk \in survivors
        /\ Gone' /\ Quiet' /\ SequenceNeverReused' /\ AcknowledgedFirst'
    BY <1>0, <1>2, <2>2, <2>3, <2>4, <2>5, PureFrame
  <2>7. survivors' = {disk}
    BY <1>2 DEF Sync
  <2>8. n \in job[r].uploads \ job[r].todo /\ disk.tree[r] = "private"
    BY <1>0, <2>1 DEF Local, JobAt, Filed, TreeAt, Private, Locked
  <2>9. /\ Pending(r) = job[r].todo /\ Pending(r)' = job[r].todo
        /\ job[r].todo \subseteq Names \ {n}
    BY <1>0, <2>1, <2>6, <2>8 DEF Pending, Early, Jobs
  <2>10. disk.input[n] = r
    BY <1>0, <2>1, <2>8, <2>9 DEF Local, DoneAt, Locked, Early
  <2>11. /\ LocksAt(r)' /\ PendingAt(r)' /\ TreeAt(r)' /\ SnapshotsAt(r)'
         /\ WholeAt(r)' /\ SequenceAt(r)' /\ BeforeAt(r)'
         /\ \A m \in Names : <<r, m>> \notin withdrawn'
    BY <1>0, <2>1, <2>2, <2>4, <2>6, <2>8, <2>9, LockedOwn DEF Locked
  <2>12. JobAt(r)' /\ DoneAt(r)' /\ ReplacingAt(r)' /\ WithdrawnAt(r)'
    BY <1>0, <2>1, <2>6, <2>9, <2>11
       DEF Local, JobAt, DoneAt, ReplacingAt, WithdrawnAt, Locked, Early,
           Filed, Replacing
  <2>13. Local(r)'
    BY <2>11, <2>12 DEF Local
  <2>14. Kept'
    <3> SUFFICES ASSUME NEW m \in Names,
                        settled'[m] \notin {"none", disk'.input[m]}
                 PROVE  \E q \in Requests : /\ Keeper(q, m)'
                                            /\ disk'.tree[q] = "private"
                                            /\ disk'.hold[q][m] = settled'[m]
      BY DEF Kept
    <3>1. m # n
      BY <2>2, <2>6, <2>10
    <3>2. PICK q \in Requests : /\ Keeper(q, m) /\ disk.tree[q] = "private"
                                /\ disk.hold[q][m] = settled[m]
      BY <2>2, <2>6, <3>1 DEF Inv, Kept
    <3>3. q # r
      BY <1>0, <3>2 DEF Keeper, Replacing
    <3>4. Keeper(q, m)'
      BY <2>6, <3>2, <3>3 DEF Frame, Keeper
    <3> QED BY <2>2, <2>6, <3>1, <3>2, <3>4
  <2>15. BytesAreKept'
    BY <2>6, <2>7, <2>14 DEF Kept, BytesAreKept
  <2> QED BY <2>6, <2>13, <2>14, <2>15, FrameInv
<1> QED BY <1>1, <1>2 DEF SyncNew

LEMMA RollbackStep ==
  ASSUME Inv, NEW r \in Requests, Rollback(r) PROVE Inv'
<1> DEFINE n == job[r].file
           back == IF disk.input[n] = disk.hold[r][n] THEN disk
                   ELSE [disk EXCEPT !.input[n] = disk.hold[r][n],
                                     !.hold[r][n] = "none"]
<1>0. /\ pc[r] = "rollback" /\ withdrawn' = withdrawn \cup {<<r, n>>}
      /\ UNCHANGED <<ready, settled, used, before>>
  BY DEF Rollback
<1>1. PICK b \in BOOLEAN : /\ Fail(r, b) /\ (Change(back) \/ ChangeSync(back))
                           /\ NoFault \/ MayFail
  BY DEF Rollback
<1>2. /\ Local(r) /\ job[r] \in Jobs /\ disk \in Disks /\ n \in Names
  BY <1>0, LockedFacts DEF Locked, Filed, Replacing
<1>3. /\ disk.input[n] \in {r, disk.hold[r][n]} /\ disk.hold[r][n] # r
      /\ settled[n] # r /\ disk.tree[r] = "private"
      /\ <<disk.hold[r][n], n>> \notin withdrawn
  BY <1>0, ReplaceFacts DEF Replacing
<1>4. /\ back \in Disks /\ back.tree = disk.tree
      /\ back.snapshot = disk.snapshot /\ back.seq = disk.seq
      /\ back.counter = disk.counter /\ back.input[n] = disk.hold[r][n]
      /\ \A m \in Names \ {n} : back.input[m] = disk.input[m]
      /\ \A q \in Requests \ {r} : back.hold[q] = disk.hold[q]
      /\ \A m \in Names : back.hold[r][m] \in {disk.hold[r][m], "none"}
  <2>1. CASE disk.input[n] = disk.hold[r][n]
    BY <1>2, <2>1
  <2>2. CASE disk.input[n] # disk.hold[r][n]
    <3> DEFINE x == disk.hold[r][n]
               h == [disk.hold EXCEPT ![r] = [disk.hold[r] EXCEPT ![n] = "none"]]
               f == [disk.input EXCEPT ![n] = x]
    <3>1. x \in Contents /\ "none" \in Contents
      BY <1>2, Parts DEF Contents
    <3>2. /\ h \in [Requests -> [Names -> Contents]]
          /\ \A q \in Requests \ {r} : h[q] = disk.hold[q]
          /\ \A m \in Names : h[r][m] \in {disk.hold[r][m], "none"}
      BY <1>2, <3>1, Parts
    <3>3. /\ f \in [Names -> Contents] /\ f[n] = x
          /\ \A m \in Names \ {n} : f[m] = disk.input[m]
      BY <1>2, <3>1, Parts
    <3>4. back = [disk EXCEPT !.input = f, !.hold = h]
      BY <1>2, <2>2
    <3> HIDE DEF h, f, back
    <3>5. /\ back \in Disks /\ back.input = f /\ back.hold = h
          /\ back.tree = disk.tree /\ back.snapshot = disk.snapshot
          /\ back.seq = disk.seq /\ back.counter = disk.counter
      BY <1>2, <3>2, <3>3, <3>4 DEF Disks
    <3> QED BY <3>2, <3>3, <3>5
  <2> QED BY <2>1, <2>2
<1> HIDE DEF back
<1> DEFINE j == [job[r] EXCEPT !.retain = b]
<1>5. Moves(r, "cleanup", j) /\ LocksFor(r) /\ j.uploads = job[r].uploads
  BY <1>0, <1>1, FailMoves DEF Steps
<1> HIDE DEF j
<1>6. faults' \in 0..MaxFaults
  BY <1>1, Budget
<1>7. /\ settled' \in [Names -> Contents]
      /\ withdrawn' \subseteq Requests \X Names
      /\ used' \in [Requests -> Nat]
  BY <1>0, <1>2 DEF Inv, TypeOK
<1>8. /\ TypeOK' /\ pc'[r] = "cleanup" /\ job'[r] = j /\ disk' = back
      /\ \A q \in Requests \ {r} : pc'[q] = pc[q] /\ job'[q] = job[q]
      /\ disk' \in survivors' /\ survivors' \subseteq survivors \cup {disk'}
  BY <1>0, <1>1, <1>4, <1>5, <1>6, <1>7, ChangeFacts
<1>9. Frame(r)
  <2>1. \A m \in Names : \/ disk'.input[m] = disk.input[m]
                         \/ disk'.input[m] \in {r, disk.hold[r][m]}
    BY <1>4, <1>8
  <2> QED BY <1>0, <1>4, <1>5, <1>8, <2>1 DEF Frame, LocksFor, Steps
<1>10. Local(r)'
  <2>1. ~Landed(disk, r)'
    BY <1>3, <1>4, <1>8 DEF Landed
  <2> QED BY <1>0, <1>5, <1>8, <1>9, <2>1, LeaveOwn
<1>11. Kept'
  <2> SUFFICES ASSUME NEW m \in Names,
                      settled[m] \notin {"none", disk'.input[m]}
               PROVE  \E q \in Requests : /\ Keeper(q, m)'
                                          /\ disk'.tree[q] = "private"
                                          /\ disk'.hold[q][m] = settled[m]
    BY <1>0 DEF Kept
  <2>1. settled[m] # disk.input[m]
    BY <1>3, <1>4, <1>8
  <2>2. PICK q \in Requests : /\ Keeper(q, m) /\ disk.tree[q] = "private"
                              /\ disk.hold[q][m] = settled[m]
    BY <2>1 DEF Inv, Kept
  <2>3. q # r
    <3>1. Keeper(r, m) => m = n
      BY <1>0 DEF Keeper
    <3> QED BY <1>4, <1>8, <2>2, <3>1
  <2> QED BY <1>4, <1>8, <2>2, <2>3 DEF Keeper
<1>12. BytesAreKept'
  BY <1>0, <1>8, <1>9, <1>11, FrameBytes
<1>13. Gone'
  <2> SUFFICES ASSUME NEW m \in Names
               PROVE  <<disk'.input[m], m>> \notin withdrawn'
    BY DEF Gone
  <2>1. <<disk.input[m], m>> \notin withdrawn
    BY DEF Inv, Gone
  <2>2. <<disk'.input[m], m>> \notin withdrawn /\ (m = n => disk'.input[m] # r)
    BY <1>3, <1>4, <1>8, <2>1
  <2> QED BY <1>0, <2>2
<1>14. Quiet'
  BY <1>4, <1>8, <1>9, FrameQuiet
<1>15. SequenceNeverReused' /\ AcknowledgedFirst'
  BY <1>0 DEF Inv, SequenceNeverReused, AcknowledgedFirst
<1> QED BY <1>8, <1>9, <1>10, <1>11, <1>12, <1>13, <1>14, <1>15, FrameInv

LEMMA SnapshotStep ==
  ASSUME Inv, NEW r \in Requests, Snapshot(r) PROVE Inv'
<1>0. pc[r] = "snapshot" /\ UNCHANGED <<ready, history>>
  BY DEF Snapshot
<1>1. CASE Still /\ Fail(r, FALSE) /\ (NoFault \/ MayFail)
  <2>1. faults' \in 0..MaxFaults
    BY <1>1, Budget
  <2> QED BY <1>0, <1>1, <2>1, FailStep DEF Steps, Replacing
<1>2. CASE /\ disk.input[Required] # "none" /\ ChangeSync(Copied(r))
           /\ Go(r, "coordinate") /\ inputLock' = Nobody /\ NoFault
           /\ UNCHANGED <<job, coordination>>
  <2> DEFINE e == Copied(r)
  <2>1. /\ Local(r) /\ job[r] \in Jobs /\ disk \in Disks /\ inputLock = r
        /\ job \in [Requests -> Jobs] /\ job[r].uploads \subseteq Names
    BY <1>0, LockedFacts DEF Locked, Inv, TypeOK, Jobs
  <2>2. disk.input \in [Names -> Contents]
        /\ e = [disk EXCEPT !.snapshot[r] = disk.input]
    BY <2>1, Parts DEF Copied
  <2> HIDE DEF e
  <2>3. /\ e \in Disks /\ SameBut(disk, e, {"snapshot"})
        /\ e.snapshot = [disk.snapshot EXCEPT ![r] = disk.input]
    BY <2>1, <2>2 DEF Disks, SameBut
  <2>4. /\ e.hold = disk.hold /\ e.tree = disk.tree /\ e.input = disk.input
        /\ e.seq = disk.seq /\ e.counter = disk.counter
        /\ e.snapshot[r] = disk.input
        /\ \A q \in Requests \ {r} : e.snapshot[q] = disk.snapshot[q]
    BY <2>1, <2>3, Parts DEF SameBut
  <2>5. /\ settled' \in [Names -> Contents]
        /\ withdrawn' \subseteq Requests \X Names
        /\ used' \in [Requests -> Nat]
        /\ UNCHANGED <<settled, withdrawn, used, before>>
    BY <1>0, SameHistory
  <2>6. Moves(r, "coordinate", job[r]) /\ LocksFor(r)
    <3>1. LocksFor(r)
      BY <1>2, <2>1 DEF LocksFor, Inv, TypeOK
    <3> QED BY <1>0, <1>2, <2>1, <3>1 DEF Moves, Go, Points, Steps
  <2>7. faults' \in 0..MaxFaults
    BY <1>2, Budget
  <2>8. /\ TypeOK' /\ pc'[r] = "coordinate" /\ job'[r] = job[r] /\ disk' = e
        /\ \A q \in Requests \ {r} : pc'[q] = pc[q] /\ job'[q] = job[q]
        /\ disk' \in survivors' /\ survivors' \subseteq survivors \cup {disk'}
        /\ survivors' = {e}
    <3>1. ChangeSync(e) /\ survivors' = {e}
      BY <1>2 DEF e, ChangeSync
    <3> QED BY <1>0, <2>3, <2>5, <2>6, <2>7, <3>1, ChangeFacts
  <2>9. Frame(r)
    BY <1>0, <2>4, <2>5, <2>6, <2>8 DEF Frame, LocksFor, Steps
  <2>10. disk.tree[r] = "private" /\ used[r] = 0
    BY <1>0, <2>1 DEF Local, TreeAt, Private, Locked, Left
  <2>11. WholeIn(disk, r)'
    <3>1. Pending(r) = {}
      BY <1>0, <2>1 DEF Local, JobAt, Pending, Early
    <3>2. \A n \in job[r].uploads : disk.input[n] = r
      BY <1>0, <2>1, <3>1 DEF Local, DoneAt, Locked, Early
    <3>3. \A n \in Names : <<disk.input[n], n>> \notin withdrawn
      BY DEF Inv, Gone
    <3>4. e.snapshot[r][Required] # "none"
      BY <1>2, <2>4
    <3>5. \A n \in job'[r].uploads : e.snapshot[r][n] = r
      BY <2>4, <2>8, <3>2
    <3>6. \A n \in Names : <<e.snapshot[r][n], n>> \notin withdrawn'
      BY <2>4, <2>5, <3>3
    <3> QED BY <2>8, <3>4, <3>5, <3>6 DEF WholeIn
  <2>12. ~Landed(e, r)
    BY <2>4, <2>10 DEF Landed
  <2>13. /\ \A d \in survivors' : used'[r] < d.counter
         /\ BeforeAt(r)'
    <3>1. ~Landed(disk, r)'
      BY <2>8, <2>12 DEF Landed
    <3> QED BY <2>5, <2>8, <2>9, <3>1, FrameOwn
  <2>14. /\ LocksAt(r)' /\ JobAt(r)' /\ PendingAt(r)' /\ DoneAt(r)'
         /\ ReplacingAt(r)' /\ SnapshotsAt(r)' /\ WithdrawnAt(r)'
    <3>1. \A n \in Names : <<r, n>> \notin withdrawn'
      BY <1>0, <2>1, <2>5 DEF Local, WithdrawnAt, Left
    <3> QED BY <2>8, <3>1
            DEF LocksAt, JobAt, PendingAt, DoneAt, ReplacingAt, SnapshotsAt,
                WithdrawnAt, Locked, Coordinating, Admitting, Early, Filed,
                Replacing
  <2>15. TreeAt(r)'
    BY <2>4, <2>5, <2>8, <2>10, <2>12 DEF TreeAt, Landed
  <2>16. WholeAt(r)'
    BY <2>8, <2>11, <2>12 DEF WholeAt, WholeIn, Landed
  <2>17. SequenceAt(r)'
    BY <2>8, <2>13 DEF SequenceAt
  <2>18. Local(r)'
    BY <2>13, <2>14, <2>15, <2>16, <2>17 DEF Local
  <2> QED BY <1>0, <2>4, <2>8, <2>9, <2>18, StepAside DEF Steps, Replacing
<1> QED BY <1>1, <1>2 DEF Snapshot

(* The counter is beyond every entry of the queue, so the next sequence is *)
(* what the counter says.                                                  *)
LEMMA NextSequence ==
  ASSUME Inv PROVE SequenceFromDisk = disk.counter
<1> DEFINE S == {disk.seq[q] + 1 : q \in Visible} \cup {disk.counter}
<1>1. disk \in Disks /\ disk \in survivors /\ disk.counter \in Nat
  BY Parts DEF Inv, TypeOK
<1>2. \A q \in Visible : disk.seq[q] \in Nat /\ disk.seq[q] + 1 <= disk.counter
  <2> SUFFICES ASSUME NEW q \in Visible
               PROVE  disk.seq[q] \in Nat /\ disk.seq[q] + 1 <= disk.counter
    OBVIOUS
  <2>1. q \in Requests /\ Landed(disk, q)
    BY DEF Visible, Landed
  <2>2. disk.seq[q] \in 1..(disk.counter - 1)
    BY <1>1, <2>1 DEF Inv, Local, WholeAt
  <2> QED BY <1>1, <2>2
<1>3. disk.counter \in S /\ \A y \in S : y \in Nat /\ disk.counter >= y
  BY <1>1, <1>2
<1> HIDE DEF S
<1>4. \A x \in S : (\A y \in S : x >= y) => x = disk.counter
  BY <1>1, <1>3
<1>5. Max(S) = disk.counter
  BY <1>3, <1>4 DEF Max
<1> QED BY <1>5 DEF SequenceFromDisk, S

(* A step under the coordination lock, with the tree still private.        *)
LEMMA AdmittingOwn ==
  ASSUME Inv, TypeOK', NEW r \in Requests, Frame(r), pc[r] \in Admitting,
         pc'[r] \in Admitting, UNCHANGED <<coordination, used, before, withdrawn>>,
         job'[r] = job[r], disk'.tree[r] = disk.tree[r],
         disk'.snapshot[r] = disk.snapshot[r]
  PROVE  /\ LocksAt(r)' /\ JobAt(r)' /\ PendingAt(r)' /\ DoneAt(r)'
         /\ ReplacingAt(r)' /\ TreeAt(r)' /\ WithdrawnAt(r)' /\ SnapshotsAt(r)'
         /\ WholeAt(r)' /\ BeforeAt(r)'
         /\ \A d \in survivors' : used'[r] < d.counter
<1>0. /\ Local(r) /\ disk \in Disks /\ disk' \in Disks /\ disk \in survivors
      /\ disk.tree[r] = "private" /\ used[r] = 0
  BY DEF Inv, TypeOK, Local, TreeAt, Private, Admitting, Left
<1>1. ~Landed(disk, r)'
  BY <1>0 DEF Landed
<1>2. /\ \A d \in survivors' : ~Landed(d, r)
      /\ \A d \in survivors : WholeIn(d, r) => WholeIn(d, r)'
      /\ \A d \in survivors' : used'[r] < d.counter
      /\ BeforeAt(r)'
  BY <1>0, <1>1, FrameOwn
<1>3. /\ LocksAt(r)' /\ JobAt(r)' /\ PendingAt(r)' /\ DoneAt(r)'
      /\ ReplacingAt(r)' /\ SnapshotsAt(r)' /\ WithdrawnAt(r)'
  <2>1. \A n \in Names : <<r, n>> \notin withdrawn'
    BY <1>0 DEF Local, WithdrawnAt, Left, Admitting
  <2>2. coordination' = r /\ ready'
    BY <1>0 DEF Local, LocksAt, Coordinating, Frame
  <2> QED BY <2>1, <2>2
          DEF LocksAt, JobAt, PendingAt, DoneAt, ReplacingAt, SnapshotsAt,
              WithdrawnAt, Locked, Admitting, Early, Filed, Replacing
<1>4. TreeAt(r)'
  BY <1>0, <1>2 DEF TreeAt, Landed, Admitting
<1>5. WholeAt(r)'
  <2>1. \A d \in survivors : WholeIn(d, r)
    BY <1>0 DEF Local, WholeAt, Snapped
  <2>2. WholeIn(disk, r)'
    BY <1>0, <2>1 DEF WholeIn
  <2> SUFFICES ASSUME NEW d \in survivors' PROVE WholeIn(d, r)'
    BY <1>2 DEF WholeAt, WholeIn, Landed
  <2>3. CASE d \in survivors
    BY <1>2, <2>1, <2>3
  <2>4. CASE d = disk'
    BY <2>2, <2>4 DEF WholeIn
  <2> QED BY <2>3, <2>4 DEF Frame
<1> QED BY <1>2, <1>3, <1>4, <1>5

LEMMA AllocateStep ==
  ASSUME Inv, NEW r \in Requests, Allocate(r) PROVE Inv'
<1> DEFINE x == SequenceFromDisk
           e == [disk EXCEPT !.seq[r] = x]
<1>0. pc[r] = "allocate" /\ UNCHANGED <<ready, history>>
  BY DEF Allocate
<1>1. CASE Still /\ Fail(r, FALSE) /\ MayFail
  <2>1. faults' \in 0..MaxFaults
    BY <1>1, Budget
  <2> QED BY <1>0, <1>1, <2>1, FailStep DEF Steps, Replacing
<1>2. /\ Local(r) /\ disk \in Disks /\ x = disk.counter /\ x \in Nat
      /\ e = [disk EXCEPT !.seq[r] = x]
  BY NextSequence, Parts DEF Inv, TypeOK
<1> HIDE DEF x, e
<1>3. /\ e \in Disks /\ SameBut(disk, e, {"seq"})
      /\ e.seq = [disk.seq EXCEPT ![r] = x]
  BY <1>2 DEF Disks, SameBut
<1>4. /\ e.hold = disk.hold /\ e.tree = disk.tree /\ e.input = disk.input
      /\ e.snapshot = disk.snapshot /\ e.counter = disk.counter
      /\ e.seq[r] = disk.counter
      /\ \A q \in Requests \ {r} : e.seq[q] = disk.seq[q]
  BY <1>2, <1>3, Parts DEF SameBut
<1>5. /\ settled' \in [Names -> Contents]
      /\ withdrawn' \subseteq Requests \X Names
      /\ used' \in [Requests -> Nat]
      /\ UNCHANGED <<settled, withdrawn, used, before>>
  BY <1>0, SameHistory
<1>6. disk.tree[r] = "private"
  BY <1>0, <1>2 DEF Local, TreeAt, Private, Admitting
<1>7. ASSUME NEW s, NEW j, Moves(r, s, j), LocksFor(r), faults' \in 0..MaxFaults,
             Change(e) \/ ChangeSync(e)
      PROVE  /\ TypeOK' /\ pc'[r] = s /\ job'[r] = j /\ disk' = e /\ Frame(r)
             /\ ~Landed(disk, r)'
  <2>1. /\ TypeOK' /\ pc'[r] = s /\ job'[r] = j /\ disk' = e
        /\ \A q \in Requests \ {r} : pc'[q] = pc[q] /\ job'[q] = job[q]
        /\ disk' \in survivors' /\ survivors' \subseteq survivors \cup {disk'}
    BY <1>0, <1>3, <1>5, <1>7, ChangeFacts
  <2>2. Frame(r)
    BY <1>0, <1>4, <1>5, <1>7, <2>1 DEF Frame, LocksFor, Steps
  <2> QED BY <1>4, <1>6, <2>1, <2>2 DEF Landed
<1>8. CASE Change(e) /\ Fail(r, FALSE) /\ MayFail
  <2> DEFINE j == [job[r] EXCEPT !.retain = FALSE]
  <2>1. Moves(r, "cleanup", j) /\ LocksFor(r) /\ j.uploads = job[r].uploads
    BY <1>0, <1>8, FailMoves DEF Steps
  <2> HIDE DEF j
  <2>2. faults' \in 0..MaxFaults
    BY <1>8, Budget
  <2>3. /\ TypeOK' /\ pc'[r] = "cleanup" /\ job'[r] = j /\ disk' = e
        /\ Frame(r) /\ ~Landed(disk, r)'
    BY <1>7, <1>8, <2>1, <2>2
  <2>4. Local(r)'
    BY <1>5, <2>1, <2>3, LeaveOwn
  <2> QED BY <1>0, <1>4, <2>3, <2>4, StepAside DEF Steps, Replacing
<1>9. CASE ChangeSync(e) /\ Proceed(r, "store") /\ NoFault
  <2>1. Moves(r, "store", job[r]) /\ LocksFor(r) /\ UNCHANGED coordination
    BY <1>0, <1>9, ProceedMoves DEF Proceed, Steps, Points, locks
  <2>2. faults' \in 0..MaxFaults
    BY <1>9, Budget
  <2>3. /\ TypeOK' /\ pc'[r] = "store" /\ job'[r] = job[r] /\ disk' = e
        /\ Frame(r)
    BY <1>7, <1>9, <2>1, <2>2
  <2>4. /\ LocksAt(r)' /\ JobAt(r)' /\ PendingAt(r)' /\ DoneAt(r)'
        /\ ReplacingAt(r)' /\ TreeAt(r)' /\ WithdrawnAt(r)' /\ SnapshotsAt(r)'
        /\ WholeAt(r)' /\ BeforeAt(r)'
        /\ \A d \in survivors' : used'[r] < d.counter
    BY <1>0, <1>4, <1>5, <2>1, <2>3, AdmittingOwn DEF Admitting
  <2>5. SequenceAt(r)'
    BY <1>4, <2>3, <2>4 DEF SequenceAt
  <2>6. Local(r)'
    BY <2>4, <2>5 DEF Local
  <2> QED BY <1>0, <1>4, <2>3, <2>6, StepAside DEF Steps, Replacing
<1> QED BY <1>1, <1>8, <1>9 DEF Allocate, e, x

LEMMA StoreNextStep ==
  ASSUME Inv, NEW r \in Requests, StoreNext(r) PROVE Inv'
<1> DEFINE e == [disk EXCEPT !.counter = disk.seq[r] + 1]
<1>0. pc[r] = "store" /\ UNCHANGED <<ready, history>>
  BY DEF StoreNext
<1>1. CASE Still /\ Fail(r, FALSE) /\ MayFail
  <2>1. faults' \in 0..MaxFaults
    BY <1>1, Budget
  <2> QED BY <1>0, <1>1, <2>1, FailStep DEF Steps, Replacing
<1>2. /\ Local(r) /\ disk \in Disks /\ disk \in survivors
      /\ disk.seq[r] = disk.counter /\ disk.counter \in Nat \ {0}
      /\ e = [disk EXCEPT !.counter = disk.seq[r] + 1]
  BY <1>0, Parts DEF Inv, TypeOK, Local, SequenceAt
<1> HIDE DEF e
<1>3. e \in Disks /\ SameBut(disk, e, {"counter"}) /\ e.counter = disk.counter + 1
  BY <1>2, SetCounter
<1>4. /\ e.hold = disk.hold /\ e.tree = disk.tree /\ e.input = disk.input
      /\ e.snapshot = disk.snapshot /\ e.seq = disk.seq
      /\ e.counter > disk.counter
  BY <1>2, <1>3 DEF SameBut
<1>5. /\ settled' \in [Names -> Contents]
      /\ withdrawn' \subseteq Requests \X Names
      /\ used' \in [Requests -> Nat]
      /\ UNCHANGED <<settled, withdrawn, used, before>>
  BY <1>0, SameHistory
<1>6. disk.tree[r] = "private"
  BY <1>0, <1>2 DEF Local, TreeAt, Private, Admitting
<1>7. ASSUME NEW s, NEW j, Moves(r, s, j), LocksFor(r), faults' \in 0..MaxFaults,
             Change(e) \/ ChangeSync(e)
      PROVE  /\ TypeOK' /\ pc'[r] = s /\ job'[r] = j /\ disk' = e /\ Frame(r)
             /\ ~Landed(disk, r)'
  <2>1. /\ TypeOK' /\ pc'[r] = s /\ job'[r] = j /\ disk' = e
        /\ \A q \in Requests \ {r} : pc'[q] = pc[q] /\ job'[q] = job[q]
        /\ disk' \in survivors' /\ survivors' \subseteq survivors \cup {disk'}
    BY <1>0, <1>3, <1>5, <1>7, ChangeFacts
  <2>2. Frame(r)
    BY <1>0, <1>4, <1>5, <1>7, <2>1 DEF Frame, LocksFor, Steps
  <2> QED BY <1>4, <1>6, <2>1, <2>2 DEF Landed
<1>8. CASE Change(e) /\ Fail(r, FALSE) /\ MayFail
  <2> DEFINE j == [job[r] EXCEPT !.retain = FALSE]
  <2>1. Moves(r, "cleanup", j) /\ LocksFor(r) /\ j.uploads = job[r].uploads
    BY <1>0, <1>8, FailMoves DEF Steps
  <2> HIDE DEF j
  <2>2. faults' \in 0..MaxFaults
    BY <1>8, Budget
  <2>3. /\ TypeOK' /\ pc'[r] = "cleanup" /\ job'[r] = j /\ disk' = e
        /\ Frame(r) /\ ~Landed(disk, r)'
    BY <1>7, <1>8, <2>1, <2>2
  <2>4. Local(r)'
    BY <1>5, <2>1, <2>3, LeaveOwn
  <2> QED BY <1>0, <1>4, <2>3, <2>4, StepAside DEF Steps, Replacing
<1>9. CASE ChangeSync(e) /\ Proceed(r, "rename") /\ NoFault
  <2>1. Moves(r, "rename", job[r]) /\ LocksFor(r) /\ UNCHANGED coordination
    BY <1>0, <1>9, ProceedMoves DEF Proceed, Steps, Points, locks
  <2>2. faults' \in 0..MaxFaults
    BY <1>9, Budget
  <2>3. /\ TypeOK' /\ pc'[r] = "rename" /\ job'[r] = job[r] /\ disk' = e
        /\ Frame(r) /\ survivors' = {e}
    BY <1>7, <1>9, <2>1, <2>2 DEF ChangeSync
  <2>4. /\ LocksAt(r)' /\ JobAt(r)' /\ PendingAt(r)' /\ DoneAt(r)'
        /\ ReplacingAt(r)' /\ TreeAt(r)' /\ WithdrawnAt(r)' /\ SnapshotsAt(r)'
        /\ WholeAt(r)' /\ BeforeAt(r)'
        /\ \A d \in survivors' : used'[r] < d.counter
    BY <1>0, <1>4, <1>5, <2>1, <2>3, AdmittingOwn DEF Admitting
  <2>5. SequenceAt(r)'
    <3>1. \A q \in Requests : used[q] < disk.counter
      BY <1>2 DEF Inv, Local, SequenceAt
    <3>2. e.seq[r] \in 1..(e.counter - 1)
      BY <1>2, <1>3, <1>4
    <3> QED BY <1>2, <1>4, <1>5, <2>3, <2>4, <3>1, <3>2 DEF SequenceAt
  <2>6. Local(r)'
    BY <2>4, <2>5 DEF Local
  <2> QED BY <1>0, <1>4, <2>3, <2>6, StepAside DEF Steps, Replacing
<1> QED BY <1>1, <1>8, <1>9 DEF StoreNext, e

LEMMA RenameStep ==
  ASSUME Inv, NEW r \in Requests, Rename(r) PROVE Inv'
<1> DEFINE e == [disk EXCEPT !.tree[r] = "queue"]
<1>0. pc[r] = "rename" /\ UNCHANGED <<ready, settled, withdrawn, before>>
  BY DEF Rename
<1>1. CASE Still /\ Fail(r, FALSE) /\ (NoFault \/ MayFail) /\ UNCHANGED used
  <2>1. faults' \in 0..MaxFaults
    BY <1>1, Budget
  <2> QED BY <1>0, <1>1, <2>1, FailStep DEF Steps, Replacing, history
<1>2. CASE /\ Change(e) /\ used' = [used EXCEPT ![r] = disk.seq[r]]
           /\ Proceed(r, "sync_queue") /\ NoFault
  <2>1. /\ Local(r) /\ disk \in Disks /\ "queue" \in Trees /\ disk \in survivors
        /\ e = [disk EXCEPT !.tree[r] = "queue"]
        /\ disk.seq[r] \in Nat /\ disk.counter \in Nat
    BY Parts DEF Inv, TypeOK, Trees
  <2> HIDE DEF e
  <2>2. /\ e \in Disks /\ SameBut(disk, e, {"tree"})
        /\ e.tree = [disk.tree EXCEPT ![r] = "queue"]
    BY <2>1 DEF Disks, SameBut
  <2>3. /\ e.hold = disk.hold /\ e.input = disk.input /\ e.seq = disk.seq
        /\ e.snapshot = disk.snapshot /\ e.counter = disk.counter
        /\ e.tree[r] = "queue"
        /\ \A q \in Requests \ {r} : e.tree[q] = disk.tree[q]
    BY <2>1, <2>2, Parts DEF SameBut
  <2>4. /\ settled' \in [Names -> Contents]
        /\ withdrawn' \subseteq Requests \X Names
        /\ used' \in [Requests -> Nat] /\ used'[r] = disk.seq[r]
        /\ \A q \in Requests \ {r} : used'[q] = used[q]
        /\ \A q \in Requests : used[q] \in Nat
    BY <1>0, <1>2, <2>1 DEF Inv, TypeOK
  <2>5. /\ \A d \in survivors : d.seq[r] \in 1..(d.counter - 1)
        /\ \A d \in survivors : d.seq[r] = disk.seq[r]
        /\ \A q \in Requests : used[q] < disk.seq[r]
        /\ ready /\ coordination = r
    BY <1>0, <2>1
       DEF Local, SequenceAt, LocksAt, Admitting, Coordinating
  <2>6. Moves(r, "sync_queue", job[r]) /\ LocksFor(r) /\ UNCHANGED coordination
    BY <1>0, <1>2, ProceedMoves DEF Proceed, Steps, Points, locks
  <2>7. faults' \in 0..MaxFaults
    BY <1>2, Budget
  <2>8. /\ TypeOK' /\ pc'[r] = "sync_queue" /\ job'[r] = job[r] /\ disk' = e
        /\ \A q \in Requests \ {r} : pc'[q] = pc[q] /\ job'[q] = job[q]
        /\ disk' \in survivors' /\ survivors' \subseteq survivors \cup {disk'}
    BY <1>0, <1>2, <2>2, <2>4, <2>6, <2>7, ChangeFacts
  <2>9. Frame(r)
    BY <1>0, <2>3, <2>4, <2>6, <2>8 DEF Frame, LocksFor, Steps
  <2>10. /\ LocksAt(r)' /\ JobAt(r)' /\ PendingAt(r)' /\ DoneAt(r)'
         /\ ReplacingAt(r)' /\ SnapshotsAt(r)' /\ WithdrawnAt(r)'
    <3>1. \A n \in Names : <<r, n>> \notin withdrawn'
      BY <1>0, <2>1 DEF Local, WithdrawnAt, Left
    <3> QED BY <2>5, <2>6, <2>8, <3>1
            DEF LocksAt, JobAt, PendingAt, DoneAt, ReplacingAt, SnapshotsAt,
                WithdrawnAt, Locked, Coordinating, Admitting, Early, Filed,
                Replacing
  <2>11. TreeAt(r)'
    <3>1. used'[r] # 0
      BY <2>1, <2>4, <2>5
    <3> QED BY <2>3, <2>8, <3>1
            DEF TreeAt, Landed, Private, Admitting, Locked, Left
  <2>12. WholeAt(r)'
    <3>1. \A d \in survivors : WholeIn(d, r)
      BY <1>0, <2>1 DEF Local, WholeAt, Snapped, Admitting
    <3> SUFFICES ASSUME NEW d \in survivors'
                 PROVE  WholeIn(d, r)' /\ d.seq[r] \in 1..(d.counter - 1)
      BY DEF WholeAt, WholeIn, Landed
    <3>2. CASE d \in survivors
      BY <1>0, <2>5, <2>8, <3>1, <3>2 DEF WholeIn
    <3>3. CASE d = e
      <4>1. WholeIn(disk, r)
        BY <2>1, <3>1
      <4>2. e.seq[r] \in 1..(e.counter - 1)
        BY <2>1, <2>3, <2>5
      <4>3. WholeIn(disk, r)'
        BY <1>0, <2>3, <2>8, <4>1 DEF WholeIn
      <4> QED BY <2>8, <3>3, <4>2, <4>3 DEF WholeIn
    <3> QED BY <2>8, <3>2, <3>3
  <2>13. SequenceAt(r)'
    <3>1. \A d \in survivors : d.counter \in Nat
      BY Parts DEF Inv, TypeOK
    <3>2. \A d \in survivors : disk.seq[r] < d.counter
      BY <2>1, <2>5, <3>1
    <3>3. \A d \in survivors' : used'[r] < d.counter
      BY <2>1, <2>3, <2>4, <2>8, <3>2
    <3> QED BY <2>8, <3>3 DEF SequenceAt
  <2>14. BeforeAt(r)'
    BY <1>0, <2>1, <2>8 DEF Local, BeforeAt, Inv, TypeOK
  <2>15. Local(r)'
    BY <2>10, <2>11, <2>12, <2>13, <2>14 DEF Local
  <2>16. Kept'
    <3>1. \A n \in Names : ~Keeper(r, n)
      BY <1>0 DEF Keeper, Replacing
    <3> QED BY <1>0, <2>3, <2>8, <2>9, <3>1, FrameKept
  <2>17. BytesAreKept'
    BY <1>0, <2>8, <2>9, <2>16, FrameBytes
  <2>18. Gone'
    BY <1>0, <2>3, <2>8 DEF Inv, Gone
  <2>19. Quiet'
    BY <2>5, <2>9, FrameQuiet
  <2>20. SequenceNeverReused'
    BY <2>1, <2>4, <2>5 DEF Inv, SequenceNeverReused
  <2>21. AcknowledgedFirst'
    <3> SUFFICES ASSUME NEW p \in Requests, used'[p] # 0, NEW q \in before[p]
                 PROVE  used'[q] < used'[p]
      BY <1>0 DEF AcknowledgedFirst
    <3>1. q \in Requests /\ q # p /\ pc[q] = "accepted"
      BY DEF Inv, TypeOK, Local, BeforeAt
    <3>2. q # r
      BY <1>0, <3>1
    <3>3. CASE p = r
      BY <2>4, <2>5, <3>1, <3>2, <3>3
    <3>4. CASE p # r
      BY <2>4, <3>1, <3>2, <3>4 DEF Inv, AcknowledgedFirst
    <3> QED BY <3>3, <3>4
  <2> QED BY <2>8, <2>9, <2>15, <2>16, <2>17, <2>18, <2>19, <2>20, <2>21, FrameInv
<1> QED BY <1>1, <1>2 DEF Rename

LEMMA CleanupStep ==
  ASSUME Inv, NEW r \in Requests, Cleanup(r) PROVE Inv'
<1> DEFINE emptied == [disk EXCEPT !.hold[r] = NoFiles]
           removed == [emptied EXCEPT !.tree[r] = "none"]
<1>0. /\ pc[r] = "cleanup" /\ Go(r, "rejected") /\ inputLock' = Unlocked(r)
      /\ UNCHANGED <<job, coordination, ready, history>>
  BY DEF Cleanup
<1>1. /\ Local(r) /\ disk \in Disks /\ job \in [Requests -> Jobs]
      /\ Nobody \notin Requests
  BY RequestsAreNoMarks DEF Inv, TypeOK, Jobs
<1>2. Moves(r, "rejected", job[r]) /\ LocksFor(r)
  <2>1. LocksFor(r)
    BY <1>0 DEF LocksFor, Unlocked, Inv, TypeOK
  <2> QED BY <1>0, <1>1, <2>1 DEF Moves, Go, Points, Answers, Steps
<1>3. /\ settled' \in [Names -> Contents]
      /\ withdrawn' \subseteq Requests \X Names
      /\ used' \in [Requests -> Nat]
      /\ UNCHANGED <<settled, withdrawn, used, before>>
  BY <1>0, SameHistory
<1>4. CASE (Still \/ Sync) /\ (NoFault \/ MayFail)
  <2>1. faults' \in 0..MaxFaults
    BY <1>4, Budget
  <2>2. \A n \in Names : settled'[n] \in {settled[n], r}
    BY <1>3
  <2>3. /\ TypeOK' /\ Frame(r) /\ disk' = disk /\ pc'[r] = "rejected"
        /\ job'[r] = job[r]
    BY <1>0, <1>2, <1>3, <1>4, <2>1, <2>2, PureFrame
  <2>4. Local(r)'
    <3>1. Landed(disk, r)' => Landed(disk, r) /\ disk'.seq[r] = disk.seq[r]
      BY <2>3 DEF Landed
    <3> QED BY <1>3, <2>3, <3>1, LeaveOwn
  <2>5. \A n \in Names : Keeper(r, n) => Keeper(r, n)'
    BY <2>3 DEF Keeper
  <2> QED BY <1>0, <1>2, <1>4, <2>1, <2>4, <2>5, PureStep
<1>5. CASE /\ ~job[r].retain /\ disk.tree[r] = "private"
           /\ NoFault \/ MayFail
           /\ \/ Change(emptied) \/ Change(removed) \/ ChangeSync(removed)
  <2>1. emptied = [disk EXCEPT !.hold[r] = NoFiles]
        /\ removed = [emptied EXCEPT !.tree[r] = "none"]
    OBVIOUS
  <2> HIDE DEF emptied, removed
  <2>2. /\ emptied \in Disks /\ SameBut(disk, emptied, {"hold"})
        /\ emptied.hold = [disk.hold EXCEPT ![r] = NoFiles]
    <3>1. NoFiles \in [Names -> Contents]
      BY DEF NoFiles, Contents
    <3> QED BY <1>1, <2>1, <3>1 DEF Disks, SameBut
  <2>3. /\ removed \in Disks /\ SameBut(emptied, removed, {"tree"})
        /\ removed.tree = [emptied.tree EXCEPT ![r] = "none"]
    BY <2>1, <2>2 DEF Disks, SameBut
  <2>4. ASSUME NEW e \in {emptied, removed}
        PROVE  /\ e \in Disks /\ e.input = disk.input
               /\ e.snapshot = disk.snapshot /\ e.seq = disk.seq
               /\ e.counter = disk.counter /\ e.tree[r] \in {"none", "private"}
               /\ \A n \in Names : e.hold[r][n] = "none"
               /\ \A q \in Requests \ {r} :
                     e.hold[q] = disk.hold[q] /\ e.tree[q] = disk.tree[q]
    <3>1. /\ emptied.tree = disk.tree /\ emptied.input = disk.input
          /\ emptied.snapshot = disk.snapshot /\ emptied.seq = disk.seq
          /\ emptied.counter = disk.counter
          /\ \A n \in Names : emptied.hold[r][n] = "none"
          /\ \A q \in Requests \ {r} : emptied.hold[q] = disk.hold[q]
      BY <1>1, <2>2, Parts DEF SameBut, NoFiles
    <3>2. /\ removed.hold = emptied.hold /\ removed.input = emptied.input
          /\ removed.snapshot = emptied.snapshot /\ removed.seq = emptied.seq
          /\ removed.counter = emptied.counter /\ removed.tree[r] = "none"
          /\ \A q \in Requests \ {r} : removed.tree[q] = emptied.tree[q]
      BY <2>2, <2>3, Parts DEF SameBut
    <3>3. CASE e = emptied
      BY <1>5, <2>2, <3>1, <3>3
    <3>4. CASE e = removed
      BY <2>3, <3>1, <3>2, <3>4
    <3> QED BY <3>3, <3>4
  <2>5. PICK e \in {emptied, removed} : Change(e) \/ ChangeSync(e)
    BY <1>5
  <2>6. /\ e \in Disks /\ e.input = disk.input
        /\ e.snapshot = disk.snapshot /\ e.seq = disk.seq
        /\ e.counter = disk.counter /\ e.tree[r] \in {"none", "private"}
        /\ \A n \in Names : e.hold[r][n] = "none"
        /\ \A q \in Requests \ {r} :
              e.hold[q] = disk.hold[q] /\ e.tree[q] = disk.tree[q]
    BY <2>4
  <2>7. faults' \in 0..MaxFaults
    BY <1>5, Budget
  <2>8. /\ TypeOK' /\ pc'[r] = "rejected" /\ job'[r] = job[r] /\ disk' = e
        /\ \A q \in Requests \ {r} : pc'[q] = pc[q] /\ job'[q] = job[q]
        /\ disk' \in survivors' /\ survivors' \subseteq survivors \cup {disk'}
    BY <1>0, <1>2, <1>3, <2>5, <2>6, <2>7, ChangeFacts
  <2>9. Frame(r)
    BY <1>0, <1>2, <1>3, <2>6, <2>8 DEF Frame, LocksFor, Steps
  <2>10. Local(r)'
    <3>1. ~Landed(disk, r)'
      BY <2>6, <2>8 DEF Landed
    <3> QED BY <1>3, <2>8, <2>9, <3>1, LeaveOwn
  <2> QED BY <1>0, <1>5, <2>6, <2>8, <2>9, <2>10, StepAside
          DEF Steps, Replacing
<1> QED BY <1>4, <1>5 DEF Cleanup

-----------------------------------------------------------------------------
(* The environment.                                                        *)

(* The entry is promoted, or its calculation ends.                         *)
LEMMA ConsumeStep ==
  ASSUME Inv, NEW r \in Requests, Promote(r) \/ End(r) PROVE Inv'
<1>0. UNCHANGED <<pc, job, inputLock, coordination, ready, settled, withdrawn,
                  used, before, faults>>
  BY DEF Promote, End, locks, history
<1>1. PICK x \in {"current", "ended"} :
         /\ disk.tree[r] \in {"queue", "current"}
         /\ \/ Change([disk EXCEPT !.tree[r] = x])
            \/ ChangeSync([disk EXCEPT !.tree[r] = x])
  BY DEF Promote, End
<1> DEFINE e == [disk EXCEPT !.tree[r] = x]
<1>2. /\ Local(r) /\ disk \in Disks /\ disk \in survivors /\ x \in Trees
      /\ e = [disk EXCEPT !.tree[r] = x]
  BY DEF Inv, TypeOK, Trees
<1>3. /\ disk' = e /\ disk' \in survivors'
      /\ survivors' \subseteq survivors \cup {disk'}
  BY <1>1 DEF Change, ChangeSync
<1> HIDE DEF e
<1>4. /\ e \in Disks /\ SameBut(disk, e, {"tree"})
      /\ e.tree = [disk.tree EXCEPT ![r] = x]
  BY <1>2 DEF Disks, SameBut, Trees
<1>5. /\ e.hold = disk.hold /\ e.input = disk.input /\ e.seq = disk.seq
      /\ e.snapshot = disk.snapshot /\ e.counter = disk.counter
      /\ e.tree[r] = x /\ \A q \in Requests \ {r} : e.tree[q] = disk.tree[q]
  BY <1>2, <1>4, Parts DEF SameBut
<1>6. TypeOK'
  BY <1>0, <1>3, <1>4 DEF Inv, TypeOK
<1>7. Frame(r)
  BY <1>0, <1>3, <1>5 DEF Frame
<1>8. Landed(disk, r) /\ Landed(disk, r)' /\ disk.tree[r] # "private"
      /\ disk.tree[r] # "none" /\ used[r] # 0
  BY <1>1, <1>2, <1>3, <1>5 DEF Landed, Local, TreeAt
<1>9. pc[r] \in {"sync_queue", "accepted"} \cup Left
  BY <1>2, <1>8 DEF Local, TreeAt
<1>10. /\ \A d \in survivors' : Landed(d, r) => WholeIn(d, r)'
       /\ \A d \in survivors : WholeIn(d, r) => WholeIn(d, r)'
       /\ \A d \in survivors' : Landed(d, r) => d.seq[r] \in 1..(d.counter - 1)
       /\ \A d \in survivors' : used'[r] < d.counter
       /\ BeforeAt(r)'
  BY <1>0, <1>3, <1>5, <1>6, <1>7, <1>8, FrameOwn
<1>11. Local(r)'
  <2>1. /\ LocksAt(r)' /\ JobAt(r)' /\ PendingAt(r)' /\ DoneAt(r)'
        /\ ReplacingAt(r)' /\ SnapshotsAt(r)' /\ WithdrawnAt(r)'
    BY <1>0, <1>2, <1>9
       DEF Local, LocksAt, JobAt, PendingAt, DoneAt, ReplacingAt, SnapshotsAt,
           WithdrawnAt, Locked, Coordinating, Admitting, Early, Filed,
           Replacing, Left
  <2>2. TreeAt(r)'
    BY <1>0, <1>2, <1>3, <1>8, <1>9
       DEF Local, TreeAt, Landed, Private, Admitting, Locked, Left
  <2>3. WholeAt(r)'
    <3>1. pc[r] \in Snapped => \A d \in survivors' : WholeIn(d, r)'
      <4> SUFFICES ASSUME pc[r] \in Snapped, NEW d \in survivors'
                   PROVE  WholeIn(d, r)'
        OBVIOUS
      <4>1. CASE d \in survivors
        BY <1>2, <1>10, <4>1 DEF Local, WholeAt
      <4>2. CASE d = disk'
        BY <1>3, <1>8, <1>10, <4>2 DEF Landed
      <4> QED BY <1>3, <4>1, <4>2
    <3> QED BY <1>0, <1>10, <3>1 DEF WholeAt, WholeIn, Landed
  <2>4. SequenceAt(r)'
    BY <1>0, <1>9, <1>10 DEF SequenceAt, Left
  <2> QED BY <1>10, <2>1, <2>2, <2>3, <2>4 DEF Local
<1>12. Kept'
  BY <1>0, <1>3, <1>5, <1>6, <1>7, <1>8, FrameKept
<1>13. BytesAreKept'
  BY <1>0, <1>6, <1>7, <1>12, FrameBytes
<1>14. Gone' /\ SequenceNeverReused' /\ AcknowledgedFirst'
  BY <1>0, <1>3, <1>5 DEF Inv, Gone, SequenceNeverReused, AcknowledgedFirst
<1>15. Quiet'
  BY <1>1, <1>7, FrameQuiet
<1> QED BY <1>6, <1>7, <1>11, <1>12, <1>13, <1>14, <1>15, FrameInv

LEMMA CallerStep ==
  ASSUME Inv, NEW n \in Names, CallerPlaces(n) PROVE Inv'
<1> DEFINE e == [disk EXCEPT !.input[n] = "caller"]
<1>0. /\ disk.input[n] = "none" /\ disk' = e /\ survivors' = {e}
      /\ settled' = [settled EXCEPT ![n] = "caller"]
      /\ UNCHANGED <<pc, job, inputLock, coordination, ready, withdrawn, used,
                     before, faults>>
  BY DEF CallerPlaces, ChangeSync, locks
<1>1. /\ disk \in Disks /\ disk \in survivors /\ "caller" \in Contents
      /\ "caller" \notin Requests /\ "none" \notin Requests
      /\ e = [disk EXCEPT !.input[n] = "caller"]
  BY RequestsAreNoMarks DEF Inv, TypeOK, Contents
<1> HIDE DEF e
<1>2. /\ e \in Disks /\ SameBut(disk, e, {"input"})
      /\ e.input = [disk.input EXCEPT ![n] = "caller"]
  BY <1>1 DEF Disks, SameBut
<1>3. /\ e.hold = disk.hold /\ e.tree = disk.tree /\ e.seq = disk.seq
      /\ e.snapshot = disk.snapshot /\ e.counter = disk.counter
      /\ e.input[n] = "caller"
      /\ \A m \in Names \ {n} : e.input[m] = disk.input[m]
  BY <1>1, <1>2, Parts DEF SameBut
<1>4. /\ settled' \in [Names -> Contents] /\ settled'[n] = "caller"
      /\ \A m \in Names \ {n} : settled'[m] = settled[m]
  BY <1>0, <1>1 DEF Inv, TypeOK
<1>5. TypeOK'
  BY <1>0, <1>2, <1>4 DEF Inv, TypeOK
<1>6. ASSUME NEW r \in Requests PROVE Local(r)'
  <2>1. /\ Local(r) /\ r # "caller" /\ r # "none"
        /\ job[r].uploads \subseteq Names /\ job[r].replacing \subseteq Names
    BY <1>1 DEF Inv, TypeOK
  <2>2. LocksAt(r)' /\ BeforeAt(r)'
    BY <1>0, <2>1 DEF Local, LocksAt, BeforeAt
  <2>3. JobAt(r)'
    BY <1>0, <1>3, <2>1 DEF Local, JobAt
  <2>4. Pending(r)' = Pending(r)
    BY <1>0 DEF Pending
  <2>5. PendingAt(r)'
    <3> SUFFICES ASSUME pc[r] \in Early \cup Locked, NEW m \in Pending(r)
                 PROVE  /\ settled'[m] # r /\ e.input[m] # r
                        /\ \A q \in Requests : e.hold[q][m] # r
      BY <1>0, <2>4 DEF PendingAt
    <3>1. settled[m] # r /\ disk.input[m] # r
          /\ \A q \in Requests : disk.hold[q][m] # r
      BY <1>1, <2>1 DEF Local, PendingAt
    <3>2. m \in Names
      <4>1. pc[r] \in Locked \cup Early => Pending(r) \subseteq Names
        BY LockedFacts DEF Pending, Early
      <4> QED BY <4>1
    <3> QED BY <1>3, <1>4, <2>1, <3>1, <3>2
  <2>6. DoneAt(r)'
    BY <1>0, <1>3, <2>1, <2>4 DEF Local, DoneAt
  <2>7. pc[r] \in {"replace"} \cup Replacing =>
           job[r].file \in Names \ {n}
    BY <1>0, <1>1, ReplaceFacts
  <2>8. ReplacingAt(r)'
    BY <1>0, <1>1, <1>3, <1>4, <2>1, <2>7 DEF Local, ReplacingAt, Replacing
  <2>9. TreeAt(r)'
    BY <1>0, <1>1, <1>3, <2>1 DEF Local, TreeAt, Landed
  <2>10. WithdrawnAt(r)' /\ SnapshotsAt(r)'
    BY <1>0, <1>1, <1>3, <2>1 DEF Local, WithdrawnAt, SnapshotsAt
  <2>11. WholeAt(r)' /\ SequenceAt(r)'
    BY <1>0, <1>1, <1>3, <2>1 DEF Local, WholeAt, WholeIn, Landed, SequenceAt
  <2> QED BY <2>2, <2>3, <2>5, <2>6, <2>8, <2>9, <2>10, <2>11 DEF Local
<1>7. Kept'
  <2> SUFFICES ASSUME NEW m \in Names,
                      settled'[m] \notin {"none", disk'.input[m]}
               PROVE  \E q \in Requests : /\ Keeper(q, m)'
                                          /\ disk'.tree[q] = "private"
                                          /\ disk'.hold[q][m] = settled'[m]
    BY DEF Kept
  <2>1. m # n
    BY <1>0, <1>3, <1>4
  <2>2. PICK q \in Requests : /\ Keeper(q, m) /\ disk.tree[q] = "private"
                              /\ disk.hold[q][m] = settled[m]
    BY <1>0, <1>3, <1>4, <2>1 DEF Inv, Kept
  <2> QED BY <1>0, <1>3, <1>4, <2>1, <2>2 DEF Keeper
<1>8. BytesAreKept'
  BY <1>0, <1>7 DEF Kept, BytesAreKept
<1>9. Gone'
  BY <1>0, <1>1, <1>3 DEF Inv, Gone, TypeOK
<1>10. Quiet'
  BY <1>0, <1>1, <1>3 DEF Inv, Quiet
<1>11. SequenceNeverReused' /\ AcknowledgedFirst'
  BY <1>0 DEF Inv, SequenceNeverReused, AcknowledgedFirst
<1> QED BY <1>0, <1>5, <1>6, <1>7, <1>8, <1>9, <1>10, <1>11 DEF Inv

LEMMA FinalizationStep ==
  ASSUME Inv, FinalizationBegins \/ FinalizationEnds PROVE Inv'
<1>0. /\ coordination = Nobody /\ disk' = disk /\ survivors' = {disk}
      /\ UNCHANGED <<pc, job, inputLock, coordination, settled, withdrawn,
                     used, before, faults>>
      /\ ready' \in BOOLEAN /\ (~ready' => Unfinished = {})
  BY DEF FinalizationBegins, FinalizationEnds, Sync, locks, history
<1>1. disk \in survivors /\ disk \in Disks /\ Nobody \notin Requests
  BY RequestsAreNoMarks DEF Inv, TypeOK
<1>2. TypeOK'
  BY <1>0, <1>1 DEF Inv, TypeOK
<1>3. ASSUME NEW r \in Requests PROVE Local(r)'
  <2>1. Local(r) /\ pc[r] \notin Coordinating
    BY <1>0, <1>1 DEF Inv, Local, LocksAt
  <2>2. LocksAt(r)' /\ BeforeAt(r)' /\ JobAt(r)'
    BY <1>0, <2>1 DEF Local, LocksAt, BeforeAt, JobAt, Coordinating
  <2>3. Pending(r)' = Pending(r)
    BY <1>0 DEF Pending
  <2>4. PendingAt(r)' /\ DoneAt(r)' /\ ReplacingAt(r)'
    BY <1>0, <1>1, <2>1, <2>3 DEF Local, PendingAt, DoneAt, ReplacingAt
  <2>5. TreeAt(r)'
    BY <1>0, <1>1, <2>1 DEF Local, TreeAt, Landed
  <2>6. WithdrawnAt(r)' /\ SnapshotsAt(r)'
    BY <1>0, <1>1, <2>1 DEF Local, WithdrawnAt, SnapshotsAt
  <2>7. WholeAt(r)' /\ SequenceAt(r)'
    BY <1>0, <1>1, <2>1 DEF Local, WholeAt, WholeIn, Landed, SequenceAt
  <2> QED BY <2>1, <2>2, <2>4, <2>5, <2>6, <2>7 DEF Local
<1>4. Kept'
  BY <1>0 DEF Inv, Kept, Keeper
<1>5. BytesAreKept'
  BY <1>0, <1>4 DEF Kept, BytesAreKept
<1>6. Gone' /\ SequenceNeverReused' /\ AcknowledgedFirst'
  BY <1>0 DEF Inv, Gone, SequenceNeverReused, AcknowledgedFirst
<1>7. Quiet'
  BY <1>0 DEF Quiet, Unfinished
<1> QED BY <1>0, <1>2, <1>3, <1>4, <1>5, <1>6, <1>7 DEF Inv

LEMMA CrashStep == ASSUME Inv, Crash PROVE Inv'
<1>0. /\ inputLock' = Nobody /\ coordination' = Nobody
      /\ UNCHANGED <<job, ready, settled, used, before, faults>>
      /\ pc' = [r \in Requests |->
                   IF pc[r] \in {"idle", "accepted", "rejected"}
                   THEN pc[r] ELSE "dead"]
  BY DEF Crash
<1>1. disk \in survivors
  BY DEF Inv
<1>2. PICK image \in survivors :
         /\ disk' = image /\ survivors' = {image}
         /\ withdrawn' = {w \in withdrawn : image.input[w[2]] # w[1]}
  BY <1>1 DEF Crash, ChangeSync
<1>3. \A r \in Requests :
         /\ pc[r] \in {"idle", "accepted", "rejected"} => pc'[r] = pc[r]
         /\ pc[r] \notin {"idle", "accepted", "rejected"} => pc'[r] = "dead"
  BY <1>0
<1>4. withdrawn' \subseteq withdrawn
  BY <1>2
<1>5. TypeOK'
  <2>1. image \in Disks
    BY DEF Inv, TypeOK
  <2>2. pc' \in [Requests -> {"idle", "dead"} \cup Steps \cup Answers]
    BY <1>0 DEF Answers
  <2> QED BY <1>0, <1>2, <1>4, <2>1, <2>2 DEF Inv, TypeOK
<1>6. ASSUME NEW r \in Requests PROVE Local(r)'
  <2>1. Local(r) /\ pc'[r] \in {"idle", "accepted", "rejected", "dead"}
    BY <1>3 DEF Inv
  <2>2. /\ LocksAt(r)' /\ JobAt(r)' /\ DoneAt(r)' /\ ReplacingAt(r)'
    BY <2>1 DEF LocksAt, JobAt, DoneAt, ReplacingAt, Locked, Coordinating,
                Admitting, Early, Filed, Replacing
  <2>3. PendingAt(r)'
    <3>1. pc'[r] = "idle" => pc[r] = "idle" /\ Pending(r)' = Pending(r)
      BY <1>3 DEF Pending, Early
    <3> QED BY <1>0, <1>2, <2>1, <3>1 DEF Local, PendingAt, Early, Locked
  <2>4. TreeAt(r)'
    <3>1. used[r] # 0 => pc'[r] \in {"accepted", "rejected", "dead"}
      BY <1>3, <2>1 DEF Local, TreeAt, Left
    <3>2. /\ pc'[r] = "idle" => pc[r] = "idle"
          /\ pc'[r] = "accepted" => pc[r] = "accepted"
      BY <1>3
    <3> QED BY <1>0, <1>2, <2>1, <3>1, <3>2
            DEF Local, TreeAt, Landed, Private, Locked, Admitting, Left
  <2>5. WithdrawnAt(r)'
    <3>1. pc[r] \in Left => pc'[r] \in Left
      BY <1>3 DEF Left
    <3> QED BY <1>4, <2>1, <3>1 DEF Local, WithdrawnAt, Replacing
  <2>6. SnapshotsAt(r)'
    BY <1>2, <1>3, <2>1 DEF Local, SnapshotsAt, Locked
  <2>7. WholeAt(r)'
    <3>1. Landed(image, r) => /\ WholeIn(image, r)
                              /\ image.seq[r] \in 1..(image.counter - 1)
      BY <2>1 DEF Local, WholeAt
    <3>2. WholeIn(image, r) => WholeIn(image, r)'
      BY <1>0, <1>4 DEF WholeIn
    <3> QED BY <1>2, <2>1, <3>1, <3>2
            DEF WholeAt, WholeIn, Landed, Snapped, Admitting
  <2>8. SequenceAt(r)'
    BY <1>0, <1>2, <2>1 DEF Local, SequenceAt
  <2>9. BeforeAt(r)'
    BY <1>0, <1>3, <2>1 DEF Local, BeforeAt, Inv, TypeOK
  <2> QED BY <2>2, <2>3, <2>4, <2>5, <2>6, <2>7, <2>8, <2>9 DEF Local
<1>7. Kept'
  <2> SUFFICES ASSUME NEW m \in Names,
                      settled[m] \notin {"none", image.input[m]}
               PROVE  \E q \in Requests : /\ Keeper(q, m)'
                                          /\ image.tree[q] = "private"
                                          /\ image.hold[q][m] = settled[m]
    BY <1>0, <1>2 DEF Kept
  <2>1. PICK q \in Requests : /\ image.tree[q] = "private"
                              /\ image.hold[q][m] = settled[m]
    BY DEF Inv, BytesAreKept
  <2>2. pc[q] \notin {"idle", "accepted"}
    BY <2>1 DEF Inv, Local, TreeAt, Landed
  <2> QED BY <1>3, <2>1, <2>2 DEF Keeper
<1>8. BytesAreKept'
  BY <1>2, <1>7 DEF Kept, BytesAreKept
<1>9. Gone'
  BY <1>2 DEF Gone
<1>10. Quiet'
  BY <1>0, <1>2 DEF Inv, Quiet
<1>11. SequenceNeverReused' /\ AcknowledgedFirst'
  BY <1>0 DEF Inv, SequenceNeverReused, AcknowledgedFirst
<1> QED BY <1>2, <1>5, <1>6, <1>7, <1>8, <1>9, <1>10, <1>11 DEF Inv

-----------------------------------------------------------------------------
LEMMA InvInit == Init => Inv
<1> SUFFICES ASSUME Init PROVE Inv
  OBVIOUS
<1>0. NoFiles \in [Names -> Contents] /\ \A n \in Names : NoFiles[n] = "none"
  BY DEF NoFiles, Contents
<1>1. /\ disk \in Disks /\ survivors = {disk} /\ disk.counter = 1
      /\ \A n \in Names : disk.input[n] = "none"
      /\ \A r \in Requests : /\ disk.tree[r] = "none"
                             /\ disk.hold[r] = NoFiles
                             /\ disk.snapshot[r] = NoFiles
  BY <1>0 DEF Init, EmptyDisk, Disks
<1>2. /\ pc = [r \in Requests |-> "idle"] /\ used = [r \in Requests |-> 0]
      /\ settled = NoFiles /\ withdrawn = {} /\ faults = 0 /\ ready = TRUE
      /\ before = [r \in Requests |-> {}] /\ job = [r \in Requests |-> NoJob]
      /\ inputLock = Nobody /\ coordination = Nobody
  BY DEF Init
<1>3. NoJob \in Jobs
  BY DEF NoJob, Jobs
<1>4. TypeOK
  <2>1. job \in [Requests -> Jobs]
    BY <1>2, <1>3
  <2>2. faults \in 0..MaxFaults
    BY <1>2, MaxFaultsNatural
  <2>3. ready \in BOOLEAN
    BY <1>2
  <2> QED BY <1>0, <1>1, <1>2, <2>1, <2>2, <2>3 DEF TypeOK, Jobs
<1>5. \A r \in Requests : pc[r] = "idle" /\ used[r] = 0 /\ before[r] = {}
                          /\ r # "none"
  BY <1>2, RequestsAreNoMarks
<1>6. ASSUME NEW r \in Requests PROVE Local(r)
  <2>1. LocksAt(r) /\ JobAt(r) /\ DoneAt(r) /\ ReplacingAt(r) /\ BeforeAt(r)
    BY <1>5 DEF LocksAt, JobAt, DoneAt, ReplacingAt, BeforeAt, Locked,
                Coordinating, Admitting, Early, Filed, Replacing
  <2>2. PendingAt(r) /\ SnapshotsAt(r)
    BY <1>0, <1>1, <1>2, <1>5 DEF PendingAt, SnapshotsAt, Pending, Early
  <2>3. TreeAt(r) /\ WithdrawnAt(r)
    BY <1>1, <1>2, <1>5 DEF TreeAt, WithdrawnAt, Landed, Private, Locked,
                            Admitting, Replacing
  <2>4. WholeAt(r) /\ SequenceAt(r)
    BY <1>1, <1>5 DEF WholeAt, SequenceAt, Landed, Snapped, Admitting
  <2> QED BY <2>1, <2>2, <2>3, <2>4 DEF Local
<1>7. Kept /\ BytesAreKept /\ Gone /\ Quiet
  BY <1>0, <1>1, <1>2 DEF Kept, BytesAreKept, Gone, Quiet
<1>8. SequenceNeverReused /\ AcknowledgedFirst
  BY <1>5 DEF SequenceNeverReused, AcknowledgedFirst
<1> QED BY <1>1, <1>4, <1>6, <1>7, <1>8 DEF Inv

LEMMA InvStep == Inv /\ [Next]_vars => Inv'
<1> SUFFICES ASSUME Inv, [Next]_vars PROVE Inv'
  OBVIOUS
<1>1. CASE UNCHANGED vars
  <2>1. UNCHANGED <<disk, survivors, pc, job, inputLock, coordination, ready,
                    settled, withdrawn, used, before, faults>>
    BY <1>1 DEF vars, locks, history
  <2>2. TypeOK' /\ disk' \in survivors'
    BY <2>1 DEF Inv, TypeOK
  <2>3. \A r \in Requests : Local(r)'
    BY <2>1 DEF Inv, Local, LocksAt, JobAt, PendingAt, DoneAt, ReplacingAt,
                TreeAt, WithdrawnAt, SnapshotsAt, WholeAt, SequenceAt, BeforeAt,
                Pending, WholeIn, Landed
  <2>4. /\ Kept' /\ BytesAreKept' /\ Gone' /\ Quiet'
        /\ SequenceNeverReused' /\ AcknowledgedFirst'
    BY <2>1 DEF Inv, Kept, Keeper, BytesAreKept, Gone, Quiet,
                SequenceNeverReused, AcknowledgedFirst
  <2> QED BY <2>2, <2>3, <2>4 DEF Inv
<1>2. ASSUME NEW r \in Requests, Begin(r) \/ Promote(r) \/ End(r) PROVE Inv'
  BY <1>2, BeginStep, ConsumeStep
<1>3. ASSUME NEW r \in Requests, Work(r) PROVE Inv'
  BY <1>3, LockInputStep, MakePrivateStep, StreamStep, NextUploadStep,
     BackupStep, ReplaceStep, SyncReplacedStep, RemoveBackupStep, RollbackStep,
     RollbackFailsStep, LinkStep, SyncNewStep, RemovePrivateStep,
     SyncPrivateStep, RemoveUploadsStep, SnapshotStep, CoordinateStep,
     AllocateStep, StoreNextStep, RenameStep, SyncQueueStep, CleanupStep
     DEF Work
<1>4. CASE \E n \in Names : CallerPlaces(n)
  BY <1>4, CallerStep
<1>5. CASE FinalizationBegins \/ FinalizationEnds
  BY <1>5, FinalizationStep
<1>6. CASE Crash
  BY <1>6, CrashStep
<1> QED BY <1>1, <1>2, <1>3, <1>4, <1>5, <1>6 DEF Next

LEMMA InvAlways == Spec => []Inv
BY InvInit, InvStep, PTL DEF Spec

(* The variables, the files and the images of a power failure have their   *)
(* types in every reachable state.                                         *)
THEOREM SubmissionTyped == Spec => []TypeOK
<1>1. Inv => TypeOK
  BY DEF Inv
<1> QED BY <1>1, InvAlways, PTL

(* No two requests are ever visible under the same sequence number:        *)
(* the counter is synced before an entry is renamed into the queue, so it  *)
(* is beyond the sequence in every image of a power failure.               *)
THEOREM SequencesNeverReused == Spec => []SequenceNeverReused
<1>1. Inv => SequenceNeverReused
  BY DEF Inv
<1> QED BY <1>1, InvAlways, PTL

(* A request that began after another one was acknowledged is queued       *)
(* behind it, whatever crashed between the two.                            *)
THEOREM AcknowledgedAlwaysFirst == Spec => []AcknowledgedFirst
<1>1. Inv => AcknowledgedFirst
  BY DEF Inv
<1> QED BY <1>1, InvAlways, PTL

(* An entry that accept_request has renamed into the queue is whole, in    *)
(* every image of a power failure: it has the required file and the        *)
(* request's own uploads, no bytes that a failed request took back, and a  *)
(* sequence below the stored counter.                                      *)
THEOREM EntriesAreWhole == Spec => []EntryIsWhole
<1>1. Inv => EntryIsWhole
  <2> SUFFICES ASSUME Inv, NEW d \in survivors, NEW r \in Requests,
                      d.tree[r] \in {"queue", "current", "ended"}
               PROVE  /\ d.snapshot[r][Required] # "none"
                      /\ \A n \in job[r].uploads : d.snapshot[r][n] = r
                      /\ \A n \in Names : <<d.snapshot[r][n], n>> \notin withdrawn
                      /\ d.seq[r] \in 1..(d.counter - 1)
    BY DEF EntryIsWhole, Inv
  <2>1. Local(r) /\ Landed(d, r)
    BY DEF Inv, Landed
  <2> QED BY <2>1 DEF Local, WholeAt, WholeIn
<1> QED BY <1>1, InvAlways, PTL

(* Whichever step of a publication of uploads fails and wherever the power *)
(* does, the bytes the caller relies on are in the input directory or in a *)
(* private tree that is kept.                                              *)
THEOREM BytesAlwaysKept == Spec => []BytesAreKept
<1>1. Inv => BytesAreKept
  BY DEF Inv
<1> QED BY <1>1, InvAlways, PTL

(* An acknowledged request is in every image of a power failure.           *)
THEOREM AcceptedStaysDurable == Spec => []AcceptedIsDurable
<1>1. Inv => AcceptedIsDurable
  BY DEF Inv, Local, TreeAt, Landed, AcceptedIsDurable
<1> QED BY <1>1, InvAlways, PTL

(* While the deployment is being finalized there is no unfinished work:    *)
(* the readiness is read under the coordination lock that finalization     *)
(* takes.                                                                  *)
THEOREM QuietDuringFinalization == Spec => []QuietWhileFinalizing
<1>1. Inv => QuietWhileFinalizing
  BY DEF Inv, Quiet, QuietWhileFinalizing, Unfinished
<1> QED BY <1>1, InvAlways, PTL
=============================================================================
