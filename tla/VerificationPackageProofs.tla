--------------------- MODULE VerificationPackageProofs ---------------------
(***************************************************************************)
(* Proofs, for every number of kills and errors, of what preparations      *)
(* leave at their destination and of what they leave of the trees they     *)
(* find.  A tree is damaged when a migration writes the manifest of one    *)
(* tree into another: with two preparations at a time that cannot happen   *)
(* as long as the operator keeps out of a migration; with three it can.    *)
(***************************************************************************)
EXTENDS VerificationPackage, TLAPS

(* At most two preparations run at a time.                                 *)
TwoAtMost == \E a, b : Helpers \subseteq {a, b}

Steps == {"idle", "look", "build", "validate", "recheck", "install",
          "installed", "legacy", "move_old", "move_new", "load", "write",
          "replace", "migrated", "rollback", "restore"}
Jobs == [at : Steps, migrate : BOOLEAN, into : {"dest", "staging"},
         temp : Trees, staging : Trees, preserved : Trees,
         carried : SUBSET Helpers, loaded : Trees]

(* A migration has moved its package to the destination; or, before that   *)
(* and after it, the old one away.                                         *)
Landed == {"load", "write", "replace", "migrated"}
Moved == Landed \cup {"move_new", "rollback", "restore"}

Typed == /\ dest \in Trees /\ stray \subseteq Helpers
         /\ job \in [Helpers -> Jobs] /\ faults \in Nat
         /\ dest = "none" => stray = {}

(* What a preparation holds at each of its steps.                          *)
Sound(j) ==
    /\ j.at \in {"recheck", "install"} => j.temp = "current"
    /\ j.at \in {"move_old", "move_new"} => j.staging = "current"
    /\ j.preserved # "none" <=> j.at \in Moved

(* What a migration has loaded and preserved while nothing is damaged.     *)
Pure(j) ==
    /\ j.at \in {"write", "replace"} => j.loaded = "current"
    /\ j.preserved # "wrong"

(* Beside a migration that has landed, the destination has a package or is *)
(* vacant for one.                                                         *)
Beside(h) ==
    job[h].at \in Landed =>
      /\ dest \in {"none", "current"}
      /\ dest = "none" =>
           \A g \in Helpers \ {h} : job[g].preserved \in {"none", "current"}

Undamaged == dest # "wrong" /\ \A h \in Helpers : Pure(job[h]) /\ Beside(h)

Inv == /\ Typed /\ \A h \in Helpers : Sound(job[h])
       /\ TwoAtMost /\ ~meddled => Undamaged

(* The invariant of two preparations, for TLC.                             *)
InvOfTwo == /\ Typed /\ \A h \in Helpers : Sound(job[h])
            /\ ~meddled => Undamaged
-----------------------------------------------------------------------------
USE DEF Set, Only

LEMMA NoJobSound == NoJob \in Jobs /\ Sound(NoJob) /\ Pure(NoJob)
                    /\ NoJob.at = "idle" /\ NoJob.preserved = "none"
BY DEF NoJob, Jobs, Sound, Pure, Steps, Trees, Landed, Moved

(* A step of one preparation: what is left to show is that it damages      *)
(* nothing.                                                                *)
LEMMA OneStep ==
  ASSUME Inv, NEW h \in Helpers, NEW j \in Jobs, Set(h, j), Sound(j),
         dest' \in Trees, stray' \subseteq Helpers,
         dest' = "none" => stray' = {}, faults' \in Nat, UNCHANGED meddled,
         TwoAtMost /\ ~meddled => Undamaged'
  PROVE  Inv'
<1>0. /\ job \in [Helpers -> Jobs] /\ job'[h] = j
      /\ job' \in [Helpers -> Jobs]
      /\ \A g \in Helpers \ {h} : job'[g] = job[g]
  BY DEF Inv, Typed
<1>1. Typed'
  BY <1>0 DEF Typed
<1>2. \A g \in Helpers : Sound(job[g])'
  BY <1>0 DEF Inv
<1> QED BY <1>1, <1>2 DEF Inv, TwoAtMost

(* A step that changes one job and not the tree at the destination.        *)
LEMMA JobStep ==
  ASSUME Inv, NEW h \in Helpers, NEW j \in Jobs, Set(h, j), Sound(j),
         UNCHANGED <<dest, meddled>>, stray' \subseteq Helpers,
         dest = "none" => stray' = {},
         Undamaged => Pure(j),
         j.at \in Landed => job[h].at \in Landed,
         j.preserved \in {job[h].preserved, "none"},
         faults' \in Nat
  PROVE  Inv'
<1>0. /\ job \in [Helpers -> Jobs] /\ job'[h] = j
      /\ \A g \in Helpers \ {h} : job'[g] = job[g]
      /\ dest \in Trees
  BY DEF Inv, Typed
<1>1. ASSUME Undamaged, NEW g \in Helpers PROVE Pure(job[g])' /\ Beside(g)'
  <2>1. Pure(job[g])'
    BY <1>0, <1>1 DEF Undamaged
  <2>2. \A k \in Helpers : job'[k].preserved \in {job[k].preserved, "none"}
    BY <1>0
  <2>3. job'[g].at \in Landed => job[g].at \in Landed
    BY <1>0
  <2>4. Beside(g)'
    BY <1>1, <2>2, <2>3 DEF Beside, Undamaged
  <2> QED BY <2>1, <2>4
<1>2. TwoAtMost /\ ~meddled => Undamaged'
  BY <1>1 DEF Inv, Undamaged
<1> QED BY <1>0, <1>2, OneStep

(* A package, or what a failed migration had moved aside, comes to a       *)
(* destination that is free.                                               *)
LEMMA Arrival ==
  ASSUME Inv, NEW h \in Helpers, NEW j \in Jobs, Set(h, j), Sound(j),
         Free, dest' \in Trees \ {"none"},
         dest' = "current" \/ dest' = job[h].preserved,
         j.at \in Landed => dest' = "current",
         Undamaged => Pure(j),
         j.preserved \in {job[h].preserved, "none"},
         stray' \subseteq Helpers, faults' \in Nat, UNCHANGED meddled
  PROVE  Inv'
<1>0. /\ job \in [Helpers -> Jobs] /\ job'[h] = j
      /\ \A g \in Helpers \ {h} : job'[g] = job[g]
  BY DEF Inv, Typed
<1>1. ASSUME Undamaged PROVE Undamaged'
  <2>0. Pure(job[h])
    BY <1>1 DEF Undamaged
  <2>1. dest' # "wrong"
    BY <2>0 DEF Pure
  <2>2. ASSUME NEW g \in Helpers PROVE Pure(job[g])' /\ Beside(g)'
    <3>1. Pure(job[g])'
      BY <1>0, <1>1 DEF Undamaged
    <3>2. CASE g = h
      BY <1>0, <3>1, <3>2 DEF Beside
    <3>3. CASE g # h
      <4>1. job'[g] = job[g] /\ Beside(g)
        BY <1>0, <1>1, <3>3 DEF Undamaged
      <4>2. job[g].at \in Landed => dest = "none"
                                     /\ job[h].preserved \in {"none", "current"}
        BY <3>3, <4>1 DEF Beside, Free
      <4> QED BY <3>1, <4>1, <4>2 DEF Beside
    <3> QED BY <3>2, <3>3
  <2> QED BY <2>1, <2>2 DEF Undamaged
<1> QED BY <1>1, OneStep DEF Inv

(* What is at the destination is moved under a preserved name.             *)
LEMMA MoveOldStep ==
  ASSUME Inv, NEW h \in Helpers, MoveOld(h), dest # "none"
  PROVE  Inv'
<1> DEFINE j == [job[h] EXCEPT !.at = "move_new", !.preserved = dest,
                               !.carried = stray]
<1>0. /\ job \in [Helpers -> Jobs] /\ dest \in Trees \ {"none"}
      /\ job' = [job EXCEPT ![h] = j] /\ dest' = "none" /\ stray' = {}
      /\ faults' = faults /\ faults \in Nat /\ meddled' = meddled
      /\ job[h].at = "move_old" /\ Sound(job[h]) /\ stray \subseteq Helpers
  BY DEF Inv, Typed, MoveOld
<1>1. j \in Jobs /\ j.at = "move_new" /\ j.preserved = dest /\ Sound(j)
      /\ (dest # "wrong" => Pure(j))
  BY <1>0 DEF Jobs, Steps, Sound, Pure, Landed, Moved
<1> HIDE DEF j
<1>2. job'[h] = j /\ \A g \in Helpers \ {h} : job'[g] = job[g]
  BY <1>0
<1>3. ASSUME TwoAtMost, Undamaged, NEW g \in Helpers
      PROVE  Pure(job[g])' /\ Beside(g)'
  <2>1. Pure(job[g])'
    BY <1>1, <1>2, <1>3 DEF Undamaged
  <2>2. ASSUME job'[g].at \in Landed, NEW k \in Helpers \ {g}
        PROVE  job'[k].preserved \in {"none", "current"}
    <3>1. g # h /\ Beside(g) /\ job[g].at \in Landed
      BY <1>1, <1>2, <1>3, <2>2 DEF Undamaged, Landed
    <3>2. dest = "current"
      BY <1>0, <3>1 DEF Beside
    <3>3. k = h
      BY <1>3, <2>2, <3>1 DEF TwoAtMost
    <3> QED BY <1>1, <1>2, <3>2, <3>3
  <2> QED BY <1>0, <2>1, <2>2 DEF Beside
<1>4. TwoAtMost /\ ~meddled => Undamaged'
  BY <1>0, <1>3 DEF Inv, Undamaged
<1> QED BY <1>0, <1>1, <1>4, OneStep DEF Trees

(* While nothing is damaged, the tree a temporary manifest is written into *)
(* is the one whose manifest was loaded.                                   *)
LEMMA ManifestIsItsOwn ==
  ASSUME Inv, Undamaged, NEW h \in Helpers, job[h].at = "replace", h \in stray
  PROVE  dest = job[h].loaded
BY DEF Inv, Typed, Undamaged, Beside, Pure, Landed

LEMMA ReplaceStep ==
  ASSUME Inv, NEW h \in Helpers, ReplaceManifest(h), h \in stray
  PROVE  Inv'
<1> DEFINE j == [job[h] EXCEPT !.at = "migrated", !.loaded = "none"]
<1>0. /\ job \in [Helpers -> Jobs] /\ Sound(job[h]) /\ job[h].at = "replace"
      /\ dest \in Trees \ {"none"} /\ stray \subseteq Helpers /\ faults \in Nat
      /\ Set(h, j) /\ stray' = stray \ {h} /\ UNCHANGED <<meddled, faults>>
  BY DEF Inv, Typed, ReplaceManifest
<1>1. /\ j \in Jobs /\ Sound(j) /\ j.at \in Landed /\ job[h].at \in Landed
      /\ j.preserved = job[h].preserved /\ (Pure(job[h]) => Pure(j))
  BY <1>0 DEF Jobs, Steps, Trees, Sound, Pure, Landed, Moved
<1>2. dest' \in {dest, "wrong"} /\ (dest = job[h].loaded => dest' = dest)
  BY DEF ReplaceManifest
<1> HIDE DEF j
<1>3. job'[h] = j /\ \A g \in Helpers \ {h} : job'[g] = job[g]
  BY <1>0
<1>4. ASSUME Undamaged PROVE Undamaged'
  <2>1. dest' = dest
    BY <1>0, <1>2, <1>4, ManifestIsItsOwn
  <2>2. \A g \in Helpers : Pure(job[g])' /\ Beside(g)'
    BY <1>1, <1>3, <1>4, <2>1 DEF Undamaged, Beside
  <2> QED BY <1>4, <2>1, <2>2 DEF Undamaged
<1> QED BY <1>0, <1>1, <1>2, <1>4, OneStep DEF Inv, Trees

(* The end of a preparation: nothing of it is left but a preserved tree.   *)
LEMMA LeaveStep ==
  ASSUME Inv, NEW h \in Helpers, Set(h, NoJob), UNCHANGED <<dest, meddled>>,
         stray' \subseteq Helpers, dest = "none" => stray' = {},
         faults' \in Nat
  PROVE  Inv'
<1>1. NoJob.at \notin Landed
  BY DEF NoJob, Landed
<1> QED BY <1>1, NoJobSound, JobStep

(* What raises after the old package was moved.                            *)
LEMMA RaiseStep ==
  ASSUME Inv, NEW h \in Helpers, job[h].at \in Moved,
         Set(h, [job[h] EXCEPT !.at = "rollback", !.loaded = "none"]),
         UNCHANGED <<dest, meddled>>,
         stray' \subseteq Helpers, dest = "none" => stray' = {},
         faults' \in Nat
  PROVE  Inv'
<1> DEFINE j == [job[h] EXCEPT !.at = "rollback", !.loaded = "none"]
<1>0. Sound(job[h]) /\ job[h] \in Jobs
  BY DEF Inv, Typed
<1>1. /\ j \in Jobs /\ Sound(j) /\ j.at \notin Landed
      /\ j.preserved = job[h].preserved /\ (Pure(job[h]) => Pure(j))
  BY <1>0 DEF Jobs, Steps, Trees, Sound, Pure, Landed, Moved
<1> HIDE DEF j
<1> QED BY <1>1, JobStep DEF j, Undamaged

LEMMA RaiseOnly ==
  ASSUME Inv, NEW h \in Helpers, job[h].at \in Moved, Raise(h)
  PROVE  Inv'
BY RaiseStep DEF Raise, Inv, Typed

(* A step within a job that keeps what it has preserved.                   *)
LEMMA WithinStep ==
  ASSUME Inv, NEW h \in Helpers, NEW j \in Jobs, Only(h, j), Sound(j),
         Undamaged => Pure(j),
         j.at \in Landed => job[h].at \in Landed,
         j.preserved = job[h].preserved
  PROVE  Inv'
BY JobStep DEF Inv, Typed

LEMMA LeaveEnds ==
  ASSUME Inv, NEW h \in Helpers, Leave(h)
  PROVE  Inv'
BY LeaveStep DEF Leave, Inv, Typed

(* The steps up to the build.                                              *)
LEMMA EarlyStep ==
  ASSUME Inv, NEW h \in Helpers,
         \/ \E migrate \in BOOLEAN : Start(h, migrate)
         \/ Look(h) \/ Build(h) \/ ValidateBuilt(h) \/ Recheck(h)
         \/ Report(h) \/ ValidateLegacy(h) \/ InstallStaging(h)
  PROVE  Inv'
<1>0. Sound(job[h]) /\ job[h] \in Jobs
  BY DEF Inv, Typed
<1>p. Undamaged => Pure(job[h])
  BY DEF Undamaged
<1> USE DEF Jobs, Steps, Trees, Sound, Pure, Landed, Moved
<1>1. ASSUME NEW migrate \in BOOLEAN, Start(h, migrate) PROVE Inv'
  <2> DEFINE j == [NoJob EXCEPT !.at = "look", !.migrate = migrate]
  <2>1. j \in Jobs /\ Sound(j) /\ Pure(j)
        /\ j.at \notin Landed /\ j.preserved = "none"
    BY DEF NoJob
  <2>2. Only(h, j) /\ job[h].at = "idle" /\ job[h].preserved = "none"
    BY <1>0, <1>1 DEF Start
  <2> HIDE DEF j
  <2> QED BY <2>1, <2>2, <1>p, WithinStep
<1>2. ASSUME job[h].at \in {"look", "recheck"}, Occupied(h) PROVE Inv'
  <2>1. CASE job[h].migrate
    <3> DEFINE j == [job[h] EXCEPT !.at = "legacy", !.temp = "none"]
    <3>1. j \in Jobs /\ Sound(j) /\ j.at \notin Landed
          /\ (Pure(job[h]) => Pure(j))
          /\ j.preserved = job[h].preserved
      BY <1>0, <1>2
    <3>2. Only(h, j)
      BY <1>2, <2>1 DEF Occupied
    <3> HIDE DEF j
    <3> QED BY <1>2, <3>1, <3>2, <1>p, WithinStep
  <2>2. CASE ~job[h].migrate
    BY <1>2, <2>2, LeaveEnds DEF Occupied
  <2> QED BY <2>1, <2>2
<1>3. CASE Look(h)
  <2> DEFINE j == [job[h] EXCEPT !.at = "build"]
  <2>1. j \in Jobs /\ j.at \notin Landed /\ j.preserved = job[h].preserved
        /\ job[h].at = "look" /\ Sound(j) /\ (Pure(job[h]) => Pure(j))
    BY <1>0, <1>3 DEF Look
  <2>2. Only(h, j) \/ Leave(h) \/ Occupied(h)
    BY <1>3 DEF Look
  <2> HIDE DEF j
  <2> QED BY <1>2, <2>1, <2>2, <1>p, WithinStep, LeaveEnds
<1>4. CASE Build(h)
  <2>1. ASSUME NEW t \in {"current", "wrong"},
               Only(h, [job[h] EXCEPT !.temp = t, !.at = "validate"])
        PROVE  Inv'
    <3> DEFINE j == [job[h] EXCEPT !.temp = t, !.at = "validate"]
    <3>1. j \in Jobs /\ Sound(j) /\ j.at \notin Landed
          /\ (Pure(job[h]) => Pure(j))
          /\ j.preserved = job[h].preserved /\ job[h].at = "build"
      BY <1>0, <1>4 DEF Build
    <3> HIDE DEF j
    <3> QED BY <2>1, <3>1, <1>p, WithinStep DEF j
  <2> QED BY <1>4, <2>1, LeaveEnds DEF Build
<1>5. CASE ValidateBuilt(h)
  <2> DEFINE j == [job[h] EXCEPT !.at = IF job[h].into = "dest"
                                        THEN "recheck" ELSE "install"]
  <2>1. CASE job[h].temp = "current"
    <3>1. j \in Jobs /\ Sound(j) /\ j.at \notin Landed
          /\ (Pure(job[h]) => Pure(j))
          /\ j.preserved = job[h].preserved /\ job[h].at = "validate"
      BY <1>0, <1>5, <2>1 DEF ValidateBuilt
    <3>2. Only(h, j)
      BY <1>5, <2>1 DEF ValidateBuilt
    <3> HIDE DEF j
    <3> QED BY <3>1, <3>2, <1>p, WithinStep
  <2> QED BY <1>5, <2>1, LeaveEnds DEF ValidateBuilt
<1>6. CASE Recheck(h)
  <2> DEFINE j == [job[h] EXCEPT !.at = "install"]
  <2>1. j \in Jobs /\ Sound(j) /\ j.at \notin Landed
        /\ (Pure(job[h]) => Pure(j))
        /\ j.preserved = job[h].preserved /\ job[h].at = "recheck"
    BY <1>0, <1>6 DEF Recheck
  <2>2. Only(h, j) \/ Occupied(h)
    BY <1>6 DEF Recheck
  <2> HIDE DEF j
  <2> QED BY <1>2, <2>1, <2>2, <1>p, WithinStep
<1>7. CASE Report(h)
  BY <1>7, LeaveEnds DEF Report
<1>8. CASE ValidateLegacy(h)
  <2> DEFINE j == [job[h] EXCEPT !.at = "build", !.into = "staging"]
  <2>1. j \in Jobs /\ Sound(j) /\ j.at \notin Landed
        /\ (Pure(job[h]) => Pure(j))
        /\ j.preserved = job[h].preserved /\ job[h].at = "legacy"
    BY <1>0, <1>8 DEF ValidateLegacy
  <2>2. Only(h, j) \/ Leave(h)
    BY <1>8 DEF ValidateLegacy
  <2> HIDE DEF j
  <2> QED BY <2>1, <2>2, <1>p, WithinStep, LeaveEnds
<1>9. CASE InstallStaging(h)
  <2> DEFINE j == [job[h] EXCEPT !.at = "move_old", !.temp = "none",
                                 !.staging = job[h].temp]
  <2>1. j \in Jobs /\ Sound(j) /\ j.at \notin Landed
        /\ (Pure(job[h]) => Pure(j))
        /\ j.preserved = job[h].preserved /\ job[h].at = "install"
    BY <1>0, <1>9 DEF InstallStaging
  <2>2. Only(h, j)
    BY <1>9 DEF InstallStaging
  <2> HIDE DEF j
  <2> QED BY <2>1, <2>2, <1>p, WithinStep
<1> QED
  BY <1>1, <1>3, <1>4, <1>5, <1>6, <1>7, <1>8, <1>9

(* The steps that move packages.                                           *)
LEMMA LateStep ==
  ASSUME Inv, NEW h \in Helpers,
         \/ Install(h) \/ MoveOld(h) \/ MoveNew(h) \/ LoadManifest(h)
         \/ WriteTemporary(h) \/ ReplaceManifest(h) \/ FinalCheck(h)
         \/ Rollback(h) \/ Restore(h)
  PROVE  Inv'
<1>0. /\ Sound(job[h]) /\ job[h] \in Jobs /\ faults \in Nat
      /\ dest \in Trees /\ stray \subseteq Helpers
  BY DEF Inv, Typed
<1>p. Undamaged => Pure(job[h]) /\ Beside(h)
  BY DEF Undamaged
<1> USE DEF Jobs, Steps, Trees, Sound, Pure, Landed, Moved
<1>1. CASE Install(h)
  <2> DEFINE j == [job[h] EXCEPT !.at = "installed", !.temp = "none"]
  <2>1. CASE Free
    <3>1. j \in Jobs /\ Sound(j) /\ (Pure(job[h]) => Pure(j))
          /\ j.at \notin Landed /\ j.preserved = job[h].preserved
      BY <1>0, <1>1 DEF Install
    <3>2. Set(h, j) /\ dest' = "current" /\ stray' = {}
          /\ UNCHANGED <<meddled, faults>>
      BY <1>0, <1>1, <2>1 DEF Install
    <3> HIDE DEF j
    <3> QED BY <1>0, <1>p, <2>1, <3>1, <3>2, Arrival
  <2> QED BY <1>1, <2>1, LeaveEnds DEF Install
<1>2. CASE MoveOld(h)
  BY <1>2, MoveOldStep, LeaveEnds DEF MoveOld
<1>3. CASE MoveNew(h)
  <2> DEFINE j == [job[h] EXCEPT !.at = "load", !.staging = "none"]
  <2>1. CASE Free
    <3>1. j \in Jobs /\ Sound(j) /\ (Pure(job[h]) => Pure(j))
          /\ j.preserved = job[h].preserved
      BY <1>0, <1>3, <2>1 DEF MoveNew
    <3>2. Set(h, j) /\ dest' = "current" /\ stray' = stray
          /\ UNCHANGED <<meddled, faults>>
      BY <1>0, <1>3, <2>1 DEF MoveNew
    <3> HIDE DEF j
    <3> QED BY <1>0, <1>p, <2>1, <3>1, <3>2, Arrival
  <2> QED BY <1>3, <2>1, RaiseOnly DEF MoveNew
<1>4. CASE LoadManifest(h)
  <2> DEFINE j == [job[h] EXCEPT !.at = "write", !.loaded = dest]
  <2>1. CASE Raise(h)
    BY <1>4, <2>1, RaiseOnly DEF LoadManifest
  <2>2. CASE dest \notin {"none", "empty"} /\ Only(h, j)
    <3>1. /\ j \in Jobs /\ Sound(j) /\ j.preserved = job[h].preserved
          /\ job[h].at \in Landed
          /\ Pure(job[h]) /\ Beside(h) => Pure(j)
      BY <1>0, <1>4, <2>2 DEF LoadManifest, Beside
    <3> HIDE DEF j
    <3> QED BY <1>p, <2>2, <3>1, WithinStep
  <2> QED BY <1>4, <2>1, <2>2 DEF LoadManifest
<1>5. CASE WriteTemporary(h)
  <2> DEFINE j == [job[h] EXCEPT !.at = "replace"]
  <2>1. CASE dest # "none"
    <3>1. /\ j \in Jobs /\ Sound(j) /\ j.preserved = job[h].preserved
          /\ job[h].at \in Landed /\ (Pure(job[h]) => Pure(j))
      BY <1>0, <1>5 DEF WriteTemporary
    <3>2. /\ Set(h, j) /\ stray' = stray \cup {h}
          /\ UNCHANGED <<dest, meddled, faults>>
      BY <1>5, <2>1 DEF WriteTemporary
    <3> HIDE DEF j
    <3> QED BY <1>0, <1>p, <2>1, <3>1, <3>2, JobStep
  <2> QED BY <1>5, <2>1, RaiseOnly DEF WriteTemporary
<1>6. CASE ReplaceManifest(h)
  BY <1>6, ReplaceStep, RaiseOnly DEF ReplaceManifest
<1>7. CASE FinalCheck(h)
  BY <1>7, LeaveEnds, RaiseOnly DEF FinalCheck
<1>8. CASE Rollback(h)
  <2> DEFINE j == [job[h] EXCEPT !.at = "restore"]
  <2>1. /\ j \in Jobs /\ Sound(j) /\ j.preserved = job[h].preserved
        /\ j.at \notin Landed /\ (Pure(job[h]) => Pure(j))
    BY <1>0, <1>8 DEF Rollback
  <2>2. Only(h, j) \/ Leave(h)
    BY <1>8 DEF Rollback
  <2> HIDE DEF j
  <2> QED BY <1>p, <2>1, <2>2, WithinStep, LeaveEnds
<1>9. CASE Restore(h)
  <2>1. CASE Free
    <3>1. /\ Set(h, NoJob) /\ dest' = job[h].preserved
          /\ stray' = job[h].carried /\ UNCHANGED <<meddled, faults>>
      BY <1>9, <2>1 DEF Restore
    <3>2. dest' \in Trees \ {"none"} /\ stray' \subseteq Helpers
      BY <1>0, <1>9, <3>1 DEF Restore
    <3> QED BY <1>0, <2>1, <3>1, <3>2, NoJobSound, Arrival
  <2> QED BY <1>9, <2>1, LeaveEnds DEF Restore
<1> QED BY <1>1, <1>2, <1>3, <1>4, <1>5, <1>6, <1>7, <1>8, <1>9

LEMMA HelperStep ==
  ASSUME Inv, NEW h \in Helpers, Helper(h)
  PROVE  Inv'
<1>1. /\ faults \in Nat /\ stray \subseteq Helpers
      /\ Sound(job[h]) /\ (dest = "none" => stray = {})
  BY DEF Inv, Typed
<1>2. CASE Error(h)
  <2>1. /\ faults' \in Nat /\ UNCHANGED <<dest, meddled>>
        /\ stray' \subseteq Helpers /\ (dest = "none" => stray' = {})
    BY <1>1, <1>2 DEF Error
  <2>2. CASE Set(h, NoJob)
    BY <2>1, <2>2, LeaveStep
  <2>3. CASE /\ Set(h, [job[h] EXCEPT !.at = "rollback", !.loaded = "none"])
             /\ job[h].preserved # "none"
    BY <1>1, <2>1, <2>3, RaiseStep DEF Sound
  <2> QED BY <1>2, <2>2, <2>3 DEF Error
<1>3. CASE Kill(h)
  <2>1. Set(h, NoJob) /\ UNCHANGED <<dest, stray, meddled>>
        /\ faults' \in Nat
    BY <1>1, <1>3 DEF Kill
  <2> QED BY <1>1, <2>1, LeaveStep
<1> QED BY <1>2, <1>3, EarlyStep, LateStep DEF Helper

(* What the operator does; unless it is recorded, no migration has moved   *)
(* anything.                                                               *)
LEMMA OperatorStep ==
  ASSUME Inv, (\E t \in {"empty", "own", "legacy"} : Put(t)) \/ MoveAside
  PROVE  Inv'
<1>1. /\ job' = job /\ faults' = faults /\ stray' \in {stray, {}}
      /\ dest' \in Trees \ {"wrong"} /\ Meddle
      /\ dest' = "none" => stray' = {}
  BY DEF Put, MoveAside, Trees
<1>2. Typed' /\ \A h \in Helpers : Sound(job[h])'
  BY <1>1 DEF Inv, Typed
<1>3. ASSUME ~meddled'
      PROVE  ~meddled /\ \A h \in Helpers : job[h].at \notin Landed
  BY <1>1, <1>3 DEF Meddle, Inv, Sound, Moved
<1>4. ASSUME TwoAtMost, ~meddled' PROVE Undamaged'
  BY <1>1, <1>3, <1>4 DEF Inv, Undamaged, Beside
<1> QED BY <1>2, <1>4 DEF Inv, TwoAtMost

LEMMA InvInit == Init => Inv
<1> SUFFICES ASSUME Init PROVE Inv
  OBVIOUS
<1>1. Typed /\ dest # "wrong" /\ \A h \in Helpers : job[h] = NoJob
  BY NoJobSound DEF Init, Typed, Trees
<1>2. \A h \in Helpers : Sound(job[h]) /\ Pure(job[h]) /\ Beside(h)
  BY <1>1, NoJobSound DEF Beside, NoJob, Landed
<1> QED BY <1>1, <1>2 DEF Inv, Undamaged

LEMMA InvStep == Inv /\ [Next]_vars => Inv'
<1> SUFFICES ASSUME Inv, [Next]_vars PROVE Inv'
  OBVIOUS
<1>1. CASE UNCHANGED vars
  BY <1>1 DEF vars, Inv, TwoAtMost, Typed, Undamaged, Sound, Pure, Beside
<1> QED BY <1>1, HelperStep, OperatorStep DEF Next

LEMMA AlwaysInv == Spec => []Inv
BY InvInit, InvStep, PTL DEF Spec

(* What preparations leave at the destination was validated as a whole,    *)
(* however two preparations and the operator are interleaved and           *)
(* interrupted, if the operator keeps out of a migration under way.        *)
THEOREM PreparationsLeaveValid == TwoAtMost /\ Spec => []LeftIsValid
<1> SUFFICES ASSUME TwoAtMost PROVE Spec => []LeftIsValid
  OBVIOUS
<1>1. Inv => LeftIsValid
  BY DEF Inv, Undamaged, LeftIsValid
<1> QED BY <1>1, AlwaysInv, PTL
-----------------------------------------------------------------------------
(* A step of one preparation takes no tree away: what stood at the         *)
(* destination or under the preserved name still has one of the names.     *)
LEMMA StillStanding ==
  ASSUME Inv, NEW h \in Helpers, NEW j, Set(h, j), UNCHANGED aside,
         kept \subseteq kept',
         dest \in {dest', j.preserved, "none", "empty", "current"},
         job[h].preserved \in kept' \cup {dest', j.preserved, "none"},
         NEW t \in {"legacy", "own"}, t \in Standing
  PROVE  t \in Standing'
<1>1. /\ job'[h] = j
      /\ \A g \in Helpers \ {h} : job'[g] = job[g]
  BY DEF Inv, Typed
<1>2. CASE t \in kept \cup aside
  BY <1>2 DEF Standing
<1>3. CASE t = dest
  BY <1>1, <1>3 DEF Standing
<1>4. ASSUME NEW g \in Helpers, t = job[g].preserved PROVE t \in Standing'
  BY <1>1, <1>4 DEF Standing
<1> QED BY <1>2, <1>3, <1>4 DEF Standing

(* Every way a preparation ends, but by putting the old package back.      *)
LEMMA EndKeeps ==
  ASSUME Inv, NEW h \in Helpers,
         Set(h, NoJob), kept' = Kept(h), UNCHANGED <<dest, aside>>,
         NEW t \in {"legacy", "own"}, t \in Standing
  PROVE  t \in Standing'
<1>1. job[h].preserved \in kept' \cup {"none"} /\ kept \subseteq kept'
  BY DEF Kept
<1> QED BY <1>1, StillStanding

LEMMA OnlyKeeps ==
  ASSUME Inv, NEW h \in Helpers, NEW j, Set(h, j),
         UNCHANGED <<dest, kept, aside>>,
         j.preserved = job[h].preserved,
         NEW t \in {"legacy", "own"}, t \in Standing
  PROVE  t \in Standing'
BY StillStanding

LEMMA HelperKeeps ==
  ASSUME Inv, NEW h \in Helpers, Helper(h),
         NEW t \in {"legacy", "own"}, t \in Standing, ~Overtaken(t)
  PROVE  t \in Standing'
<1>0. job[h] \in Jobs /\ Sound(job[h])
  BY DEF Inv, Typed
<1>1. CASE Leave(h) \/ Kill(h)
  BY <1>1, EndKeeps DEF Leave, Kill
<1>2. CASE \E j : Only(h, j) /\ j.preserved = job[h].preserved
  BY <1>2, OnlyKeeps
<1>r. [job[h] EXCEPT !.at = "rollback", !.loaded = "none"].preserved
        = job[h].preserved
  BY <1>0 DEF Jobs
<1>x. CASE Raise(h)
  BY <1>2, <1>r, <1>x DEF Raise
<1>3. ASSUME NEW migrate \in BOOLEAN, Start(h, migrate)
      PROVE  \E j : Only(h, j) /\ j.preserved = job[h].preserved
  <2> DEFINE j == [NoJob EXCEPT !.at = "look", !.migrate = migrate]
  <2>1. j.preserved = "none" /\ Only(h, j) /\ job[h].preserved = "none"
    BY <1>0, <1>3 DEF NoJob, Start, Sound, Landed, Moved
  <2> QED BY <2>1
<1>4. ASSUME Occupied(h) PROVE t \in Standing'
  <2>1. [job[h] EXCEPT !.at = "legacy", !.temp = "none"].preserved
          = job[h].preserved
    BY <1>0 DEF Jobs
  <2> QED BY <1>1, <1>2, <1>4, <2>1 DEF Occupied
<1>5. CASE Look(h)
  <2>1. [job[h] EXCEPT !.at = "build"].preserved = job[h].preserved
    BY <1>0 DEF Jobs
  <2> QED BY <1>1, <1>2, <1>4, <1>5, <2>1 DEF Look
<1>6. CASE Build(h)
  <2>1. \A u : [job[h] EXCEPT !.temp = u, !.at = "validate"].preserved
                 = job[h].preserved
    BY <1>0 DEF Jobs
  <2> QED BY <1>1, <1>2, <1>6, <2>1 DEF Build
<1>7. CASE ValidateBuilt(h)
  <2>1. \A u : [job[h] EXCEPT !.at = u].preserved = job[h].preserved
    BY <1>0 DEF Jobs
  <2> QED BY <1>1, <1>2, <1>7, <2>1 DEF ValidateBuilt
<1>8. CASE Recheck(h)
  <2>1. [job[h] EXCEPT !.at = "install"].preserved = job[h].preserved
    BY <1>0 DEF Jobs
  <2> QED BY <1>1, <1>2, <1>4, <1>8, <2>1 DEF Recheck
<1>9. CASE ValidateLegacy(h)
  <2>1. [job[h] EXCEPT !.at = "build", !.into = "staging"].preserved
          = job[h].preserved
    BY <1>0 DEF Jobs
  <2> QED BY <1>1, <1>2, <1>9, <2>1 DEF ValidateLegacy
<1>10. CASE InstallStaging(h)
  <2>1. [job[h] EXCEPT !.at = "move_old", !.temp = "none",
                       !.staging = job[h].temp].preserved = job[h].preserved
    BY <1>0 DEF Jobs
  <2> QED BY <1>2, <1>10, <2>1 DEF InstallStaging
<1>11. CASE Install(h)
  <2> DEFINE j == [job[h] EXCEPT !.at = "installed", !.temp = "none"]
  <2>1. j.preserved = job[h].preserved
    BY <1>0 DEF Jobs
  <2>2. CASE Free
    <3>1. Set(h, j) /\ UNCHANGED <<kept, aside>> /\ dest \in {"none", "empty"}
      BY <1>11, <2>2 DEF Install, Free
    <3> HIDE DEF j
    <3> QED BY <2>1, <3>1, StillStanding
  <2> QED BY <1>1, <1>11, <2>2 DEF Install
<1>12. CASE MoveOld(h)
  <2> DEFINE j == [job[h] EXCEPT !.at = "move_new", !.preserved = dest,
                                 !.carried = stray]
  <2>1. j.preserved = dest /\ job[h].preserved = "none"
    BY <1>0, <1>12 DEF Jobs, Sound, Landed, Moved, MoveOld
  <2>2. CASE dest # "none"
    <3>1. Set(h, j) /\ UNCHANGED <<kept, aside>>
      BY <1>12, <2>2 DEF MoveOld
    <3> HIDE DEF j
    <3> QED BY <2>1, <3>1, StillStanding
  <2> QED BY <1>1, <1>12, <2>2 DEF MoveOld
<1>13. CASE MoveNew(h)
  <2> DEFINE j == [job[h] EXCEPT !.at = "load", !.staging = "none"]
  <2>1. j.preserved = job[h].preserved
    BY <1>0 DEF Jobs
  <2>2. CASE Free
    <3>1. Set(h, j) /\ UNCHANGED <<kept, aside>> /\ dest \in {"none", "empty"}
      BY <1>13, <2>2 DEF MoveNew, Free
    <3> HIDE DEF j
    <3> QED BY <2>1, <3>1, StillStanding
  <2> QED BY <1>13, <1>x, <2>2 DEF MoveNew
<1>14. CASE LoadManifest(h)
  <2>1. [job[h] EXCEPT !.at = "write", !.loaded = dest].preserved
          = job[h].preserved
    BY <1>0 DEF Jobs
  <2> QED BY <1>2, <1>14, <1>x, <2>1 DEF LoadManifest
<1>15. CASE WriteTemporary(h)
  <2> DEFINE j == [job[h] EXCEPT !.at = "replace"]
  <2>1. j.preserved = job[h].preserved
    BY <1>0 DEF Jobs
  <2>2. CASE dest # "none"
    <3>1. Set(h, j) /\ UNCHANGED <<dest, kept, aside>>
      BY <1>15, <2>2 DEF WriteTemporary
    <3> HIDE DEF j
    <3> QED BY <2>1, <3>1, StillStanding
  <2> QED BY <1>15, <1>x, <2>2 DEF WriteTemporary
<1>16. CASE ReplaceManifest(h)
  <2> DEFINE j == [job[h] EXCEPT !.at = "migrated", !.loaded = "none"]
  <2>1. j.preserved = job[h].preserved
    BY <1>0 DEF Jobs
  <2>2. CASE h \in stray
    <3>1. Set(h, j) /\ UNCHANGED <<kept, aside>> /\ job[h].at = "replace"
      BY <1>16, <2>2 DEF ReplaceManifest
    <3>2. t # dest \/ dest' = dest
      BY <1>16, <2>2, <3>1 DEF ReplaceManifest, Overtaken
    <3>3. t \in kept \cup aside \cup {dest'}
            \cup {job[g].preserved : g \in Helpers}
      BY <3>2 DEF Standing
    <3>4. job'[h] = j /\ \A g \in Helpers \ {h} : job'[g] = job[g]
      BY <3>1 DEF Inv, Typed
    <3> HIDE DEF j
    <3> QED BY <2>1, <3>1, <3>3, <3>4 DEF Standing
  <2> QED BY <1>16, <1>x, <2>2 DEF ReplaceManifest
<1>17. CASE Report(h) \/ FinalCheck(h)
  BY <1>1, <1>17, <1>x DEF Report, FinalCheck
<1>18. CASE Rollback(h)
  <2>1. [job[h] EXCEPT !.at = "restore"].preserved = job[h].preserved
    BY <1>0 DEF Jobs
  <2> QED BY <1>1, <1>2, <1>18, <2>1 DEF Rollback
<1>19. CASE Restore(h)
  <2>1. CASE Free
    <3>1. /\ Set(h, NoJob) /\ UNCHANGED <<kept, aside>>
          /\ dest \in {"none", "empty"} /\ dest' = job[h].preserved
      BY <1>19, <2>1 DEF Restore, Free
    <3> QED BY <3>1, StillStanding
  <2> QED BY <1>1, <1>19, <2>1 DEF Restore
<1>20. CASE Error(h)
  BY <1>r, <1>20, EndKeeps, OnlyKeeps DEF Error
<1> QED
  BY <1>1, <1>2, <1>3, <1>5, <1>6, <1>7, <1>8, <1>9, <1>10, <1>11, <1>12,
     <1>13, <1>14, <1>15, <1>16, <1>17, <1>18, <1>19, <1>20 DEF Helper

(* Any number of preparations and the operator, interleaved and            *)
(* interrupted in any way, destroy neither the legacy package nor a tree   *)
(* of the operator's, except for the manifest of a tree that comes to the  *)
(* destination between a migration's reading and writing there.            *)
THEOREM NothingIsDestroyed == Spec => NothingDestroyed
<1>1. ASSUME Inv, [Next]_vars, NEW t \in {"legacy", "own"}, t \in Standing
      PROVE  t \in Standing' \/ Overtaken(t)
  <2>1. CASE UNCHANGED vars
    BY <1>1, <2>1 DEF vars, Standing
  <2>2. CASE \E u \in {"empty", "own", "legacy"} : Put(u)
    BY <1>1, <2>2 DEF Put, Standing
  <2>3. CASE MoveAside
    BY <1>1, <2>3 DEF MoveAside, Standing
  <2> QED BY <1>1, <2>1, <2>2, <2>3, HelperKeeps DEF Next
<1>2. Inv /\ [Next]_vars
        => [\A t \in {"legacy", "own"} :
              t \in Standing => t \in Standing' \/ Overtaken(t)]_vars
  BY <1>1
<1> QED BY <1>2, AlwaysInv, PTL DEF Spec, NothingDestroyed
=============================================================================
