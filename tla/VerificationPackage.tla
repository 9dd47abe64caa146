------------------------ MODULE VerificationPackage ------------------------
(***************************************************************************)
(* The verification package (prepare-shakemap-verification-data.py):       *)
(* `prepare` builds a package beside its destination and moves it there if *)
(* nothing is in the way; `prepare --migrate-known-legacy` also moves the  *)
(* known legacy package aside first.  Both look at the destination long    *)
(* before they change it, and nothing locks it: finalization, another      *)
(* preparation and the operator may act in between.                        *)
(***************************************************************************)
EXTENDS Naturals, FiniteSets

CONSTANTS
    Helpers,     \* preparations that may run at the same time
    MaxFaults    \* bound on kills and file system errors

ASSUME BoundsAssumption == MaxFaults \in Nat

VARIABLES
    dest,     \* the tree at the destination
    stray,    \* helpers whose temporary manifest is in that tree
    kept,     \* trees under the names of preserved legacy packages
    aside,    \* trees the operator moved elsewhere
    job,      \* what each helper is doing
    meddled,  \* the operator has changed the destination under a migration
    faults

vars == <<dest, stray, kept, aside, job, meddled, faults>>

(* A tree: an empty directory, the known legacy package, another tree of   *)
(* the operator's, a package that is being built or came out wrong, and a  *)
(* complete package of the current release.                                *)
Trees == {"none", "empty", "legacy", "own", "wrong", "current"}

NoJob == [at |-> "idle", migrate |-> FALSE, into |-> "dest", temp |-> "none",
          staging |-> "none", preserved |-> "none", carried |-> {},
          loaded |-> "none"]

Set(h, j) == job' = [job EXCEPT ![h] = j]
Only(h, j) == /\ Set(h, j)
              /\ UNCHANGED <<dest, stray, kept, aside, meddled, faults>>

(* validate_package: inventory, manifest and checksums.  A temporary       *)
(* manifest is an unexpected file.                                         *)
DestinationValid == dest = "current" /\ stray = {}

(* os.replace of a directory: the name must be free or an empty directory. *)
Free == dest = "none" \/ (dest = "empty" /\ stray = {})

(* What a helper that ends leaves under the preserved name.                *)
Kept(h) == kept \cup ({job[h].preserved} \ {"none"})

Leave(h) == /\ Set(h, NoJob) /\ kept' = Kept(h)
            /\ UNCHANGED <<dest, stray, aside, meddled, faults>>

-----------------------------------------------------------------------------
(* prepare_package                                                         *)

Start(h, migrate) ==
    /\ job[h].at = "idle"
    /\ Only(h, [NoJob EXCEPT !.at = "look", !.migrate = migrate])

(* DestinationError: the end of `prepare`; the migration goes on.          *)
Occupied(h) == IF job[h].migrate
               THEN Only(h, [job[h] EXCEPT !.at = "legacy", !.temp = "none"])
               ELSE Leave(h)

Look(h) ==
    /\ job[h].at = "look"
    /\ \/ dest = "none" /\ Only(h, [job[h] EXCEPT !.at = "build"])
       \/ DestinationValid /\ Leave(h)                  \* already-valid
       \/ dest # "none" /\ ~DestinationValid /\ Occupied(h)

(* Sources are fetched into a directory of the helper's own; each file is  *)
(* verified, but the tree may still come out wrong.                        *)
Build(h) ==
    /\ job[h].at = "build"
    /\ \/ \E t \in {"current", "wrong"} :
            Only(h, [job[h] EXCEPT !.temp = t, !.at = "validate"])
       \/ Leave(h)                       \* a source is missing or corrupt

(* Variant: the built tree is not validated.                               *)
ValidateNothing(h) ==
    /\ job[h].at = "validate"
    /\ Only(h, [job[h] EXCEPT !.at = IF job[h].into = "dest"
                                     THEN "recheck" ELSE "install"])

(* validate_package(temporary); a private staging name is always free.     *)
ValidateBuilt(h) ==
    /\ job[h].at = "validate"
    /\ IF job[h].temp = "current"
       THEN Only(h, [job[h] EXCEPT !.at = IF job[h].into = "dest"
                                          THEN "recheck" ELSE "install"])
       ELSE Leave(h)

Recheck(h) ==
    /\ job[h].at = "recheck"
    /\ IF dest = "none" THEN Only(h, [job[h] EXCEPT !.at = "install"])
                        ELSE Occupied(h)

(* os.replace(temporary, destination)                                      *)
Install(h) ==
    /\ job[h].at = "install" /\ job[h].into = "dest"
    /\ IF Free THEN /\ dest' = job[h].temp
                    /\ stray' = {}
                    /\ Set(h, [job[h] EXCEPT !.at = "installed",
                                             !.temp = "none"])
                    /\ UNCHANGED <<kept, aside, meddled, faults>>
               ELSE Leave(h)

(* The final validation decides what is reported and changes nothing.      *)
Report(h) == job[h].at = "installed" /\ Leave(h)

-----------------------------------------------------------------------------
(* migrate_known_legacy_package                                            *)

ValidateLegacy(h) ==
    /\ job[h].at = "legacy"
    /\ IF dest = "legacy"
       THEN Only(h, [job[h] EXCEPT !.at = "build", !.into = "staging"])
       ELSE Leave(h)

InstallStaging(h) ==
    /\ job[h].at = "install" /\ job[h].into = "staging"
    /\ Only(h, [job[h] EXCEPT !.at = "move_old", !.temp = "none",
                              !.staging = job[h].temp])

(* Variant: the old package is removed to make room.                       *)
RemoveOld(h) ==
    /\ job[h].at = "move_old" /\ dest # "none"
    /\ dest' = "none" /\ stray' = {}
    /\ Set(h, [job[h] EXCEPT !.at = "move_new"])
    /\ UNCHANGED <<kept, aside, meddled, faults>>

(* os.replace(destination, preserved): whatever is there by now, with the  *)
(* temporary manifests in it.                                              *)
MoveOld(h) ==
    /\ job[h].at = "move_old"
    /\ IF dest = "none"
       THEN Leave(h)
       ELSE /\ dest' = "none" /\ stray' = {}
            /\ Set(h, [job[h] EXCEPT !.at = "move_new", !.preserved = dest,
                                     !.carried = stray])
            /\ UNCHANGED <<kept, aside, meddled, faults>>

(* What follows raises: on to `except Exception'.                          *)
Raise(h) == Only(h, [job[h] EXCEPT !.at = "rollback", !.loaded = "none"])

MoveNew(h) ==
    /\ job[h].at = "move_new"
    /\ IF Free THEN /\ dest' = job[h].staging
                    /\ Set(h, [job[h] EXCEPT !.at = "load",
                                             !.staging = "none"])
                    /\ UNCHANGED <<stray, kept, aside, meddled, faults>>
               ELSE Raise(h)

(* load_json(manifest_path), by its name; the operator's tree may have     *)
(* none.                                                                   *)
LoadManifest(h) ==
    /\ job[h].at = "load"
    /\ \/ dest \in {"none", "empty", "own"} /\ Raise(h)
       \/ /\ dest \notin {"none", "empty"}
          /\ Only(h, [job[h] EXCEPT !.at = "write", !.loaded = dest])

WriteTemporary(h) ==
    /\ job[h].at = "write"
    /\ IF dest = "none"
       THEN Raise(h)
       ELSE /\ stray' = stray \cup {h}
            /\ Set(h, [job[h] EXCEPT !.at = "replace"])
            /\ UNCHANGED <<dest, kept, aside, meddled, faults>>

(* The manifest that was loaded, with the migration added, goes into the   *)
(* tree that stands there now.                                             *)
ReplaceManifest(h) ==
    /\ job[h].at = "replace"
    /\ IF h \in stray
       THEN /\ dest' = IF dest = job[h].loaded THEN dest ELSE "wrong"
            /\ stray' = stray \ {h}
            /\ Set(h, [job[h] EXCEPT !.at = "migrated", !.loaded = "none"])
            /\ UNCHANGED <<kept, aside, meddled, faults>>
       ELSE Raise(h)

(* return validate_package(destination), still inside the try.             *)
FinalCheck(h) ==
    /\ job[h].at = "migrated"
    /\ IF DestinationValid THEN Leave(h) ELSE Raise(h)

(* `except Exception': the old package goes back if its place is free, and *)
(* the preserved name keeps it if not.                                     *)
Rollback(h) ==
    /\ job[h].at = "rollback"
    /\ IF dest = "none" THEN Only(h, [job[h] EXCEPT !.at = "restore"])
                        ELSE Leave(h)

(* os.replace(preserved, destination): the place may be taken by now.      *)
Restore(h) ==
    /\ job[h].at = "restore"
    /\ IF Free THEN /\ dest' = job[h].preserved
                    /\ stray' = job[h].carried
                    /\ Set(h, NoJob)
                    /\ UNCHANGED <<kept, aside, meddled, faults>>
               ELSE Leave(h)

-----------------------------------------------------------------------------
(* A file system error in one of the steps, a kill, and the operator.      *)

(* Once the old package is moved an error leads to the rollback, and one   *)
(* in the rollback to the end.  A temporary manifest cut short stays.      *)
Error(h) ==
    /\ faults < MaxFaults /\ job[h].at # "idle"
    /\ faults' = faults + 1
    /\ stray' \in {stray, IF job[h].at = "write" /\ dest # "none"
                          THEN stray \cup {h} ELSE stray}
    /\ IF job[h].preserved # "none" /\ job[h].at \notin {"rollback", "restore"}
       THEN /\ Set(h, [job[h] EXCEPT !.at = "rollback", !.loaded = "none"])
            /\ UNCHANGED kept
       ELSE Set(h, NoJob) /\ kept' = Kept(h)
    /\ UNCHANGED <<dest, aside, meddled>>

Kill(h) ==
    /\ faults < MaxFaults /\ job[h].at # "idle"
    /\ Set(h, NoJob) /\ kept' = Kept(h)
    /\ faults' = faults + 1
    /\ UNCHANGED <<dest, stray, aside, meddled>>

(* The operator acts at any time, in the midst of a migration too.         *)
Meddle == meddled' = (meddled \/ \E h \in Helpers : job[h].preserved # "none")

Put(t) == /\ dest = "none" /\ t \notin kept \cup aside
          /\ \A h \in Helpers : job[h].preserved # t
          /\ dest' = t /\ Meddle
          /\ UNCHANGED <<stray, kept, aside, job, faults>>

MoveAside == /\ dest # "none"
             /\ dest' = "none" /\ stray' = {}
             /\ aside' = aside \cup {dest} /\ Meddle
             /\ UNCHANGED <<kept, job, faults>>

-----------------------------------------------------------------------------
Init ==
    /\ dest \in {"none", "legacy"}
    /\ stray = {} /\ kept = {} /\ aside = {}
    /\ job = [h \in Helpers |-> NoJob]
    /\ meddled = FALSE /\ faults = 0

Helper(h) ==
    \/ \E migrate \in BOOLEAN : Start(h, migrate)
    \/ Look(h) \/ Build(h) \/ ValidateBuilt(h) \/ Recheck(h)
    \/ Install(h) \/ Report(h)
    \/ ValidateLegacy(h) \/ InstallStaging(h) \/ MoveOld(h) \/ MoveNew(h)
    \/ LoadManifest(h) \/ WriteTemporary(h) \/ ReplaceManifest(h)
    \/ FinalCheck(h) \/ Rollback(h) \/ Restore(h) \/ Error(h) \/ Kill(h)

Next ==
    \/ \E h \in Helpers : Helper(h)
    \/ \E t \in {"empty", "own", "legacy"} : Put(t)
    \/ MoveAside

Spec == Init /\ [][Next]_vars

-----------------------------------------------------------------------------
Standing == {dest} \cup kept \cup aside
              \cup {job[h].preserved : h \in Helpers}

(* Every variable has its type.                                            *)
TypeOK ==
    /\ dest \in Trees /\ kept \cup aside \subseteq Trees \ {"none"}
    /\ stray \subseteq Helpers /\ meddled \in BOOLEAN
    /\ dest = "none" => stray = {}
    /\ faults \in 0..MaxFaults
    /\ \A h \in Helpers :
         {job[h].temp, job[h].staging, job[h].preserved} \subseteq Trees

(* What preparations leave at the destination was validated as a whole, in *)
(* whatever order two of them and the operator act and wherever they are   *)
(* interrupted, if the operator leaves a destination alone whose migration *)
(* is between its first move and its end.  With three helpers it fails: a  *)
(* migration may write its manifest into the legacy package that another   *)
(* one has rolled back under it.                                           *)
LeftIsValid == ~meddled => dest # "wrong"

(* A tree that has come to the destination since a migration loaded the    *)
(* manifest there, by the hand of the operator or the rollback of another  *)
(* migration, and is about to get that manifest for its own.               *)
Overtaken(t) == /\ dest = t
                /\ \E h \in Helpers : /\ job[h].at = "replace" /\ h \in stray
                                      /\ job[h].loaded # t

(* No preparation, however it is interrupted, destroys a tree of the       *)
(* operator's or the legacy package: it stays where it was or under a      *)
(* preserved name.  The one exception is the manifest of a tree that comes *)
(* to the destination while a migration is between loading and replacing   *)
(* the manifest there: nothing locks the directory, and the migration      *)
(* replaces what it finds.                                                 *)
NothingDestroyed ==
    [][\A t \in {"legacy", "own"} :
          t \in Standing => t \in Standing' \/ Overtaken(t)]_vars

(* `Preserve and replace only the checksum-verified generated v1 package': *)
(* a tree a migration moves aside is the legacy package it has verified,   *)
(* or an empty directory.                                                  *)
OnlyLegacyIsReplaced ==
    \A h \in Helpers : job[h].preserved \in {"none", "empty", "legacy"}
=============================================================================
