----------------------------- MODULE DataAssets -----------------------------
(***************************************************************************)
(* The global data files (preparation.py): `provision` installs a missing  *)
(* file, `stage` puts a validated replacement beside an active file, and   *)
(* finalization activates the staged ones.  Nothing keeps two of these     *)
(* commands, or the operator, from working on one directory at a time.     *)
(*                                                                         *)
(* The commands sync directories but never a file's bytes: until the       *)
(* kernel writes them back (Flush) a power failure may lose them.          *)
(***************************************************************************)
EXTENDS Naturals, FiniteSets

CONSTANTS
    Helpers,      \* commands that may run at the same time
    Commands,     \* the commands used
    AssetCount,   \* GLOBAL_ASSETS, numbered in the manifest's order
    Operated,     \* the assets the operator touches by hand
    MaxFaults     \* bound on kills and power failures

ASSUME BoundsAssumption ==
    /\ AssetCount \in Nat \ {0} /\ MaxFaults \in Nat
    /\ Commands \subseteq {"provision", "stage", "activate"}
    /\ Operated \subseteq 1..AssetCount

VARIABLES
    dir,        \* per asset, the files under the active and the staged name
    disk,       \* the same as the disk would show them after a power failure
    run,        \* the command each helper runs
    faults

vars == <<dir, disk, run, faults>>

Assets == 1..AssetCount

(* What an operator may have put under an active name: a file; a           *)
(* directory; a symbolic link that leads somewhere (or a special file,     *)
(* which every test treats alike); a symbolic link that leads nowhere.     *)
Operators == {"own", "directory", "link", "dangling"}

(* Under a name is nothing, one of these, a candidate with other bytes     *)
(* than the pinned ones or cut short, the pinned bytes, on the disk or not *)
(* yet, or what a power failure left.                                      *)
Contents == Operators \cup {"absent", "wrong", "unflushed", "pinned", "torn"}

(* _validate_pinned_file: type, size, signature and checksum as read.      *)
Valid(c) == c \in {"unflushed", "pinned"}

NoRun == [cmd |-> "none", at |-> "idle", todo |-> {}, temp |-> "absent",
          picked |-> {}, changed |-> {}, result |-> "done"]

First(h, a) == a \in run[h].todo /\ \A b \in run[h].todo : a <= b
At(h, at, a) == run[h].at = at /\ First(h, a)

Set(h, r) == run' = [run EXCEPT ![h] = r]
Only(h, r) == Set(h, r) /\ UNCHANGED <<dir, disk, faults>>

(* Variant: an exception leaves the temporary file behind.                 *)
EndedUncleaned(h, result) ==
    [NoRun EXCEPT !.temp = run[h].temp, !.result = result]

(* A command ends; `except Exception` removes its temporary file.          *)
(* Of how it ended only what a property asks for is kept.                  *)
Ended(h, result) ==
    [NoRun EXCEPT !.result = result,
       !.changed = IF result = "refused" THEN run[h].changed ELSE {}]

Fail(h) == Only(h, Ended(h, "done"))

(* On to the next asset of the command, or to its end.                     *)
NextAsset(h, at) ==
    LET r == [run[h] EXCEPT !.todo = {b \in @ : ~First(h, b)},
                            !.temp = "absent"]
    IN IF r.todo = {} THEN Ended(h, "done")
                      ELSE [r EXCEPT !.at = at]

-----------------------------------------------------------------------------
(* provision_global_data and provision_file.                               *)

Provision(h) ==
    /\ run[h].at = "idle" /\ "provision" \in Commands
    /\ Only(h, [NoRun EXCEPT !.cmd = "provision", !.at = "check",
                             !.todo = Assets])

CheckTarget(h, a) ==
    /\ At(h, "check", a)
    /\ \/ Valid(dir[a].active) /\ Only(h, NextAsset(h, "check"))
       \/ dir[a].active = "absent" /\ Only(h, [run[h] EXCEPT !.at = "fetch"])
       \/ dir[a].active # "absent" /\ Fail(h)   \* invalid or unreadable

(* Copying a manual source, or a download, into the temporary file, which  *)
(* no other command looks at.                                              *)
Fetch(h, a) ==
    /\ At(h, "fetch", a)
    /\ \/ \E c \in {"unflushed", "wrong"} :
            Only(h, [run[h] EXCEPT !.temp = c, !.at = "validate"])
       \/ Fail(h)                    \* no source, or it cannot be read

(* Variant: the candidate is installed as it came.                         *)
ValidateNothing(h, a) ==
    /\ At(h, "validate", a)
    /\ Only(h, [run[h] EXCEPT !.at = IF run[h].cmd = "provision"
                                     THEN "link" ELSE "publish"])

ValidateCandidate(h, a) ==
    /\ At(h, "validate", a)
    /\ IF Valid(run[h].temp)
       THEN Only(h, [run[h] EXCEPT !.at = IF run[h].cmd = "provision"
                                          THEN "link" ELSE "publish"])
       ELSE Fail(h)

(* Variant: os.replace instead of os.link.                                 *)
LinkReplacing(h, a) ==
    /\ At(h, "link", a)
    /\ dir' = [dir EXCEPT ![a].active = run[h].temp]
    /\ Set(h, NextAsset(h, "check"))
    /\ UNCHANGED <<disk, faults>>

(* os.link refuses a name that exists.  The removal of the temporary file  *)
(* and file_record(target), which follow, may fail.                        *)
Link(h, a) ==
    /\ At(h, "link", a)
    /\ \/ /\ dir[a].active = "absent"
          /\ dir' = [dir EXCEPT ![a].active = run[h].temp]
          /\ \/ Set(h, NextAsset(h, "check"))
             \/ Set(h, Ended(h, "done"))
          /\ UNCHANGED <<disk, faults>>
       \/ Fail(h)

-----------------------------------------------------------------------------
(* stage_global_replacements and stage_replacement_file.                   *)

Stage(h, assets) ==
    /\ run[h].at = "idle" /\ "stage" \in Commands
    /\ Only(h, [NoRun EXCEPT !.cmd = "stage", !.at = "fetch",
                             !.todo = assets])

PublishStaged(h, a) ==
    /\ At(h, "publish", a)
    /\ \/ /\ dir' = [dir EXCEPT ![a].staged = run[h].temp]
          /\ Set(h, [run[h] EXCEPT !.at = "sync", !.temp = "absent"])
          /\ UNCHANGED <<disk, faults>>
       \/ Fail(h)

-----------------------------------------------------------------------------
(* activate_staged_global_replacements, which finalization runs.           *)

Activate(h) ==
    /\ run[h].at = "idle" /\ "activate" \in Commands
    /\ Only(h, [NoRun EXCEPT !.cmd = "activate", !.at = "scan",
                             !.todo = Assets])

(* target.exists() follows a link: one that leads nowhere is not refused.  *)
Refused(a) == \/ ~Valid(dir[a].staged)
              \/ dir[a].active \in {"directory", "link"}

(* Variant: each candidate is activated as soon as it is found valid.      *)
ScanActivating(h, a) ==
    /\ At(h, "scan", a)
    /\ LET rest == [run[h] EXCEPT !.todo = @ \ {a}]
       IN \/ dir[a].staged = "absent" /\ Only(h, rest)
          \/ /\ dir[a].staged # "absent" /\ Refused(a)
             /\ Only(h, Ended(h, "refused"))
          \/ /\ dir[a].staged # "absent" /\ ~Refused(a)
             /\ dir' = [dir EXCEPT ![a] = [active |-> dir[a].staged,
                                           staged |-> "absent"]]
             /\ Set(h, [rest EXCEPT !.changed = @ \cup {a}])
             /\ UNCHANGED <<disk, faults>>

(* The first loop: nothing is replaced before every candidate is valid.    *)
Scan(h, a) ==
    /\ At(h, "scan", a)
    /\ LET rest == [run[h] EXCEPT !.todo = @ \ {a}]
       IN \/ dir[a].staged = "absent" /\ Only(h, rest)
          \/ /\ dir[a].staged # "absent" /\ Refused(a)
             /\ Only(h, Ended(h, "refused"))
          \/ /\ dir[a].staged # "absent" /\ ~Refused(a)
             /\ Only(h, [rest EXCEPT !.picked = @ \cup {a}])

Scanned(h) ==
    /\ run[h].at = "scan" /\ run[h].todo = {}
    /\ Only(h, IF run[h].picked = {}
               THEN Ended(h, "done")
               ELSE [run[h] EXCEPT !.at = "replace", !.todo = run[h].picked])

(* os.replace of one file; it fails when the staged file has gone or a     *)
(* directory has taken the active name, and replaces a link as it replaces *)
(* a file.                                                                 *)
ReplaceActive(h, a) ==
    /\ At(h, "replace", a)
    /\ \/ /\ dir[a].staged # "absent" /\ dir[a].active # "directory"
          /\ dir' = [dir EXCEPT ![a] = [active |-> dir[a].staged,
                                        staged |-> "absent"]]
          /\ Set(h, [run[h] EXCEPT !.at = "sync", !.changed = @ \cup {a}])
          /\ UNCHANGED <<disk, faults>>
       \/ Fail(h)

(* fsync of the directory, at the end of stage and of activate.            *)
SyncDirectory(h, a) ==
    /\ At(h, "sync", a)
    /\ \/ /\ disk' = [disk EXCEPT ![a] = dir[a]]
          /\ Set(h, NextAsset(h, IF run[h].cmd = "stage" THEN "fetch"
                                                     ELSE "replace"))
          /\ UNCHANGED <<dir, faults>>
       \/ Fail(h)

-----------------------------------------------------------------------------
(* The operator, the kernel, and faults.                                   *)

(* The operator puts something under an active name that is free, durably. *)
Place(a, c) ==
    /\ dir[a].active = "absent"
    /\ dir'  = [dir  EXCEPT ![a].active = c]
    /\ disk' = [disk EXCEPT ![a].active = c]
    /\ UNCHANGED <<run, faults>>

MoveAside(a) ==
    /\ dir[a].active # "absent"
    /\ dir'  = [dir  EXCEPT ![a].active = "absent"]
    /\ disk' = [disk EXCEPT ![a].active = "absent"]
    /\ UNCHANGED <<run, faults>>

Flushed(c) == IF c = "unflushed" THEN "pinned" ELSE c

(* Writeback of an asset's files and of their directory.                   *)
Flush(a) ==
    /\ "unflushed" \in {dir[a].active, dir[a].staged}
    /\ dir'  = [dir  EXCEPT ![a] = [n \in DOMAIN @ |-> Flushed(@[n])]]
    /\ disk' = [disk EXCEPT ![a] = dir'[a]]
    /\ UNCHANGED <<run, faults>>

(* A killed command leaves its temporary file, under a name of its own     *)
(* that no later command looks at.                                         *)
Kill(h) ==
    /\ faults < MaxFaults /\ run[h].at # "idle"
    /\ Set(h, NoRun)
    /\ faults' = faults + 1
    /\ UNCHANGED <<dir, disk>>

(* The two names of an asset are in one directory, which comes back as it  *)
(* was last synced or as it was last written.                              *)
PowerFailure ==
    /\ faults < MaxFaults
    /\ \E undone \in SUBSET {a \in Assets : disk[a] # dir[a]} :
         LET after == [a \in Assets |-> IF a \in undone THEN disk[a]
                                                        ELSE dir[a]]
             unwritten == {a \in Assets : "unflushed" \in
                                            {after[a].active, after[a].staged}}
         IN \E torn \in SUBSET unwritten :
              dir' = [a \in Assets |-> [n \in DOMAIN after[a] |->
                        IF a \in torn /\ after[a][n] = "unflushed"
                        THEN "torn" ELSE Flushed(after[a][n])]]
    /\ disk' = dir'
    /\ run' = [h \in Helpers |-> NoRun]
    /\ faults' = faults + 1

-----------------------------------------------------------------------------
Init ==
    /\ dir \in [Assets -> [active : {"absent", "own"}, staged : {"absent"}]]
    /\ disk = dir
    /\ run = [h \in Helpers |-> NoRun]
    /\ faults = 0

Command(h) ==
    \/ Provision(h) \/ Activate(h)
    \/ \E assets \in SUBSET Assets : assets # {} /\ Stage(h, assets)

Step(h) ==
    \/ Scanned(h)
    \/ \E a \in Assets :
         \/ CheckTarget(h, a) \/ Fetch(h, a)
         \/ ValidateCandidate(h, a) \/ Link(h, a) \/ PublishStaged(h, a)
         \/ Scan(h, a) \/ ReplaceActive(h, a) \/ SyncDirectory(h, a)

Next ==
    \/ \E h \in Helpers : Command(h) \/ Step(h) \/ Kill(h)
    \/ \E a \in Operated :
         (\E c \in Operators : Place(a, c)) \/ MoveAside(a)
    \/ \E a \in Assets : Flush(a)
    \/ PowerFailure

Spec == Init /\ [][Next]_vars

-----------------------------------------------------------------------------
(* Every variable has its type, and a command that has ended has left no   *)
(* temporary file beside the data.                                         *)
TypeOK ==
    /\ dir \in [Assets -> [active : Contents, staged : Contents]]
    /\ disk \in [Assets -> [active : Contents, staged : Contents]]
    /\ faults \in 0..MaxFaults
    /\ \A h \in Helpers :
         /\ run[h].temp \in Contents
         /\ run[h].todo \cup run[h].picked \cup run[h].changed \subseteq Assets
         /\ run[h].at = "idle" => run[h].temp = "absent"

(* What a helper puts under an active or a staged name has the pinned      *)
(* bytes, whoever runs beside it; only a power failure may tear it.        *)
OnlyPinnedIsInstalled ==
    \A a \in Assets :
      \A c \in {dir[a].active, dir[a].staged} :
        /\ c # "wrong"
        /\ c = "torn" => faults > 0

(* A refused activation has changed no active file: all candidates are     *)
(* validated before the first is moved.                                    *)
RefusedChangesNothing ==
    \A h \in Helpers : run[h].result = "refused" => run[h].changed = {}

(* What the operator has put under an active name leaves it by the         *)
(* operator's hand or by the activation of a valid staged replacement,     *)
(* which uses the latter up; provisioning never takes its place, and       *)
(* nothing that of a directory.  (A link is as a file here: activation     *)
(* refuses one it can follow when it scans, and replaces one that leads    *)
(* nowhere or has been made since.)                                        *)
OwnIsKept ==
    [][\A a \in Assets :
         /\ dir[a].active \in Operators
         /\ dir'[a].active \notin {dir[a].active, "absent"}
         => /\ dir[a].active # "directory" /\ Valid(dir[a].staged)
            /\ dir'[a] = [active |-> dir[a].staged, staged |-> "absent"]]_vars

(* When files are only staged and activated, an active file is the one     *)
(* before or the validated one, also after a power failure:                *)
(* preparation.py:441 "Atomically activate each fully validated staged     *)
(* global asset."                                                          *)
ActivationIsAtomic == \A a \in Assets : dir[a].active # "torn"
=============================================================================
