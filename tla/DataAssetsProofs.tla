-------------------------- MODULE DataAssetsProofs --------------------------
(***************************************************************************)
(* Proofs about the global data files, for every number of assets, of      *)
(* commands running at the same time, of kills and of power failures.      *)
(***************************************************************************)
EXTENDS DataAssets, TLAPS

Places == {"idle", "check", "fetch", "validate", "link", "publish", "scan",
           "replace", "sync"}
Runs == [cmd : {"none", "provision", "stage", "activate"}, at : Places,
         todo : SUBSET Assets, temp : Contents, picked : SUBSET Assets,
         changed : SUBSET Assets, result : {"done", "refused"}]
Files == [active : Contents, staged : Contents]

Typed == /\ dir \in [Assets -> Files] /\ disk \in [Assets -> Files]
         /\ run \in [Helpers -> Runs] /\ faults \in 0..MaxFaults

(* What a command holds at each of its steps: a candidate is validated     *)
(* before it gets a name, an activation moves only what it picked, and it  *)
(* has changed nothing while it still validates.                           *)
Coherent(r) ==
    /\ r.at \in {"check", "link"} => r.cmd = "provision"
    /\ r.at \in {"fetch", "validate"} => r.cmd \in {"provision", "stage"}
    /\ r.at = "publish" => r.cmd = "stage"
    /\ r.at \in {"scan", "replace"} => r.cmd = "activate"
    /\ r.at = "sync" => r.cmd \in {"stage", "activate"}
    /\ r.at \in {"link", "publish"} => Valid(r.temp)
    /\ r.at = "idle" => r.temp = "absent"
    /\ r.cmd = "activate" /\ r.at \in {"replace", "sync"}
         => r.todo \subseteq r.picked
    /\ r.at # "idle" => r.result = "done"
    /\ r.at = "scan" => r.changed = {}
    /\ r.result = "refused" => r.changed = {}

(* What may stand under the two names of an asset.                         *)
Installed(f) ==
    /\ f.staged \in {"absent", "unflushed", "pinned", "torn"}
    /\ f.active # "wrong"
    /\ "torn" \in {f.active, f.staged} => faults > 0

(* The operator's files are on the disk.                                   *)
Durable(a) ==
    dir[a].active \in Operators => disk[a].active = dir[a].active

Names == \A a \in Assets : Installed(dir[a]) /\ Installed(disk[a]) /\ Durable(a)

(* A picked candidate is not torn: only a power failure tears files, and   *)
(* it ends every command.                                                  *)
Picks == \A h \in Helpers : \A a \in run[h].picked : dir[a].staged # "torn"

Inv == /\ Typed /\ Names /\ Picks
       /\ \A h \in Helpers : Coherent(run[h])
-----------------------------------------------------------------------------
USE DEF Set, Only

LEMMA NoRunCoherent == NoRun \in Runs /\ Coherent(NoRun) /\ NoRun.picked = {}
BY DEF NoRun, Runs, Places, Contents, Coherent

(* A step of one command.                                                  *)
LEMMA RunStep ==
  ASSUME Inv, NEW h \in Helpers, NEW r \in Runs, Set(h, r), Coherent(r),
         dir' \in [Assets -> Files], disk' \in [Assets -> Files],
         faults' \in 0..MaxFaults, Names',
         \A a \in r.picked : a \in run[h].picked \/ dir[a].staged # "torn",
         \A a \in Assets : dir[a].staged # "torn" => dir'[a].staged # "torn"
  PROVE  Inv'
<1>0. /\ run'[h] = r /\ run' \in [Helpers -> Runs]
      /\ \A g \in Helpers \ {h} : run'[g] = run[g]
      /\ run \in [Helpers -> Runs]
  BY DEF Inv, Typed
<1>1. Typed' /\ \A g \in Helpers : Coherent(run[g])'
  BY <1>0 DEF Inv, Typed
<1>2. \A g \in Helpers : run'[g].picked \subseteq Assets
  BY <1>0 DEF Runs
<1>3. \A g \in Helpers : \A a \in run'[g].picked : dir[a].staged # "torn"
  BY <1>0 DEF Inv, Picks
<1>4. Picks'
  BY <1>2, <1>3 DEF Picks
<1> QED BY <1>1, <1>4 DEF Inv

LEMMA OnlyStep ==
  ASSUME Inv, NEW h \in Helpers, NEW r \in Runs, Only(h, r), Coherent(r),
         \A a \in r.picked : a \in run[h].picked \/ dir[a].staged # "torn"
  PROVE  Inv'
<1>1. Names'
  BY DEF Inv, Names, Installed, Durable
<1> QED BY <1>1, RunStep DEF Inv, Typed

(* A command ends, in one of the two ways.                                 *)
LEMMA EndedCoherent ==
  ASSUME Inv, NEW h \in Helpers, NEW result \in {"done", "refused"},
         result = "refused" => run[h].changed = {}
  PROVE  /\ Ended(h, result) \in Runs /\ Coherent(Ended(h, result))
         /\ Ended(h, result).picked = {}
<1>1. run[h] \in Runs
  BY DEF Inv, Typed
<1> QED BY <1>1 DEF Ended, NoRun, Runs, Places, Contents, Coherent

LEMMA FailStep ==
  ASSUME Inv, NEW h \in Helpers, Fail(h)
  PROVE  Inv'
BY EndedCoherent, OnlyStep DEF Fail

LEMMA NextAssetCoherent ==
  ASSUME Inv, NEW h \in Helpers, NEW at \in {"check", "fetch", "replace"},
         at = "check" => run[h].cmd = "provision",
         at = "fetch" => run[h].cmd = "stage",
         at = "replace" => run[h].cmd = "activate" /\ run[h].at = "sync",
         run[h].at # "idle"
  PROVE  /\ NextAsset(h, at) \in Runs /\ Coherent(NextAsset(h, at))
         /\ NextAsset(h, at).picked \subseteq run[h].picked
<1> DEFINE todo == {b \in run[h].todo : ~First(h, b)}
           r == [run[h] EXCEPT !.todo = todo, !.temp = "absent"]
<1>1. run[h] \in Runs /\ Coherent(run[h])
  BY DEF Inv, Typed
<1>2. todo \subseteq run[h].todo
  OBVIOUS
<1> HIDE DEF todo
<1>3. [r EXCEPT !.at = at] \in Runs /\ Coherent([r EXCEPT !.at = at])
      /\ [r EXCEPT !.at = at].picked = run[h].picked
  BY <1>1, <1>2 DEF Runs, Places, Contents, Coherent
<1>4. NextAsset(h, at) = IF r.todo = {} THEN Ended(h, "done")
                                        ELSE [r EXCEPT !.at = at]
  BY DEF NextAsset, todo
<1> HIDE DEF r
<1> QED BY <1>3, <1>4, EndedCoherent

(* One asset's files change.                                               *)
LEMMA FilesStep ==
  ASSUME Inv, NEW a \in Assets, NEW f \in Files, NEW d \in Files,
         dir' = [dir EXCEPT ![a] = f], disk' = [disk EXCEPT ![a] = d],
         UNCHANGED faults, Installed(f), Installed(d),
         f.active \in Operators => d.active = f.active,
         dir[a].staged # "torn" => f.staged # "torn"
  PROVE  /\ dir' \in [Assets -> Files] /\ disk' \in [Assets -> Files]
         /\ Names'
         /\ \A b \in Assets : dir[b].staged # "torn" => dir'[b].staged # "torn"
<1>1. /\ dir'[a] = f /\ disk'[a] = d
      /\ \A b \in Assets \ {a} : dir'[b] = dir[b] /\ disk'[b] = disk[b]
      /\ dir' \in [Assets -> Files] /\ disk' \in [Assets -> Files]
  BY DEF Inv, Typed
<1>2. Names'
  BY <1>1 DEF Inv, Names, Installed, Durable
<1> QED BY <1>1, <1>2

(* What is known of an asset's files.                                      *)
LEMMA FilesFacts ==
  ASSUME Inv, NEW a \in Assets
  PROVE  /\ dir[a] \in Files /\ disk[a] \in Files
         /\ Installed(dir[a]) /\ Installed(disk[a]) /\ Durable(a)
         /\ dir[a] = [active |-> dir[a].active, staged |-> dir[a].staged]
         /\ disk[a] = [active |-> disk[a].active, staged |-> disk[a].staged]
BY DEF Inv, Typed, Names, Files
LEMMA CommandStep ==
  ASSUME Inv, NEW h \in Helpers, Command(h)
  PROVE  Inv'
<1> DEFINE Begun(cmd, at, todo) ==
             [NoRun EXCEPT !.cmd = cmd, !.at = at, !.todo = todo]
<1>1. ASSUME NEW todo \in SUBSET Assets,
             NEW cmd, NEW at,
             \/ cmd = "provision" /\ at = "check"
             \/ cmd = "stage" /\ at = "fetch"
             \/ cmd = "activate" /\ at = "scan",
             Only(h, Begun(cmd, at, todo))
      PROVE  Inv'
  <2> DEFINE r == Begun(cmd, at, todo)
  <2>1. r \in Runs /\ Coherent(r) /\ r.picked = {}
    BY <1>1 DEF NoRun, Runs, Places, Contents, Coherent
  <2> HIDE DEF Begun
  <2> QED BY <1>1, <2>1, OnlyStep
<1>2. Assets \in SUBSET Assets
  OBVIOUS
<1>3. ASSUME NEW cmd, NEW at, NEW todo
      PROVE  Begun(cmd, at, todo)
               = [NoRun EXCEPT !.cmd = cmd, !.at = at, !.todo = todo]
  OBVIOUS
<1> HIDE DEF Begun
<1> QED BY <1>1, <1>2, <1>3 DEF Command, Provision, Stage, Activate

(* The steps that change no file.                                          *)
LEMMA QuietStep ==
  ASSUME Inv, NEW h \in Helpers, NEW a \in Assets,
         \/ Scanned(h) \/ CheckTarget(h, a) \/ Fetch(h, a)
         \/ ValidateCandidate(h, a) \/ Scan(h, a)
  PROVE  Inv'
<1>0. run[h] \in Runs /\ Coherent(run[h])
  BY DEF Inv, Typed
<1> USE DEF At, First
<1>1. CASE Scanned(h)
  <2> DEFINE r == [run[h] EXCEPT !.at = "replace", !.todo = run[h].picked]
  <2>1. r \in Runs /\ Coherent(r) /\ r.picked = run[h].picked
    BY <1>0, <1>1 DEF Runs, Places, Coherent, Scanned
  <2>2. Only(h, r) \/ Only(h, Ended(h, "done"))
    BY <1>1 DEF Scanned
  <2> HIDE DEF r
  <2> QED BY <2>1, <2>2, OnlyStep, EndedCoherent
<1>2. CASE CheckTarget(h, a)
  <2> DEFINE r == [run[h] EXCEPT !.at = "fetch"]
  <2>1. r \in Runs /\ Coherent(r) /\ r.picked = run[h].picked
        /\ run[h].cmd = "provision" /\ run[h].at = "check"
    BY <1>0, <1>2 DEF Runs, Places, Coherent, CheckTarget
  <2>2. Only(h, r) \/ Fail(h) \/ Only(h, NextAsset(h, "check"))
    BY <1>2 DEF CheckTarget
  <2> HIDE DEF r
  <2> QED BY <2>1, <2>2, OnlyStep, FailStep, NextAssetCoherent
<1>3. CASE Fetch(h, a)
  <2>1. ASSUME NEW c \in {"unflushed", "wrong"},
               Only(h, [run[h] EXCEPT !.temp = c, !.at = "validate"])
        PROVE  Inv'
    <3> DEFINE r == [run[h] EXCEPT !.temp = c, !.at = "validate"]
    <3>1. r \in Runs /\ Coherent(r) /\ r.picked = run[h].picked
      BY <1>0, <1>3 DEF Runs, Places, Contents, Coherent, Fetch
    <3> HIDE DEF r
    <3> QED BY <2>1, <3>1, OnlyStep DEF r
  <2> QED BY <1>3, <2>1, FailStep DEF Fetch
<1>4. CASE ValidateCandidate(h, a)
  <2> DEFINE r == [run[h] EXCEPT !.at = IF run[h].cmd = "provision"
                                        THEN "link" ELSE "publish"]
  <2>1. CASE Valid(run[h].temp)
    <3>1. r \in Runs /\ Coherent(r) /\ r.picked = run[h].picked
      BY <1>0, <1>4, <2>1 DEF Runs, Places, Coherent, ValidateCandidate
    <3>2. Only(h, r)
      BY <1>4, <2>1 DEF ValidateCandidate
    <3> HIDE DEF r
    <3> QED BY <3>1, <3>2, OnlyStep
  <2> QED BY <1>4, <2>1, FailStep DEF ValidateCandidate
<1>5. CASE Scan(h, a)
  <2> DEFINE rest == [run[h] EXCEPT !.todo = run[h].todo \ {a}]
             more == [rest EXCEPT !.picked = run[h].picked \cup {a}]
  <2>1. rest \in Runs /\ Coherent(rest) /\ rest.picked = run[h].picked
    BY <1>0, <1>5 DEF Runs, Places, Coherent, Scan
  <2>2. more \in Runs /\ Coherent(more)
        /\ more.picked = run[h].picked \cup {a}
    BY <1>0, <1>5 DEF Runs, Places, Coherent, Scan
  <2>3. rest.picked = run[h].picked
    BY <2>1
  <2>4. \/ Only(h, rest)
        \/ Only(h, Ended(h, "refused"))
        \/ Only(h, more) /\ Valid(dir[a].staged)
    BY <1>5, <2>3 DEF Scan, Refused
  <2>5. run[h].changed = {}
    BY <1>0, <1>5 DEF Scan, Coherent
  <2>6. Valid(dir[a].staged) => dir[a].staged # "torn"
    BY DEF Valid
  <2> HIDE DEF rest, more
  <2> QED BY <2>1, <2>2, <2>4, <2>5, <2>6, OnlyStep, EndedCoherent
<1> QED BY <1>1, <1>2, <1>3, <1>4, <1>5

(* The steps that give a file a name, or sync the directory.               *)
LEMMA FileStep ==
  ASSUME Inv, NEW h \in Helpers, NEW a \in Assets,
         \/ Link(h, a) \/ PublishStaged(h, a) \/ ReplaceActive(h, a)
         \/ SyncDirectory(h, a)
  PROVE  Inv'
<1>0. run[h] \in Runs /\ Coherent(run[h]) /\ faults \in 0..MaxFaults
      /\ dir \in [Assets -> Files] /\ disk \in [Assets -> Files]
  BY DEF Inv, Typed
<1>f. /\ dir[a] \in Files /\ disk[a] \in Files
      /\ Installed(dir[a]) /\ Installed(disk[a]) /\ Durable(a)
      /\ dir[a] = [active |-> dir[a].active, staged |-> dir[a].staged]
      /\ disk[a] = [active |-> disk[a].active, staged |-> disk[a].staged]
  BY FilesFacts
<1> USE DEF At, First
<1>1. CASE Link(h, a)
  <2>1. CASE /\ dir[a].active = "absent"
             /\ dir' = [dir EXCEPT ![a].active = run[h].temp]
             /\ \/ Set(h, NextAsset(h, "check"))
                \/ Set(h, Ended(h, "done"))
             /\ UNCHANGED <<disk, faults>>
    <3> DEFINE f == [active |-> run[h].temp, staged |-> dir[a].staged]
    <3>1. run[h].at = "link" /\ run[h].cmd = "provision" /\ Valid(run[h].temp)
      BY <1>0, <1>1 DEF Link, Coherent
    <3>2. /\ f \in Files /\ Installed(f)
          /\ f.active \notin Operators /\ f.staged = dir[a].staged
      BY <1>0, <1>f, <3>1 DEF Files, Installed, Valid, Contents, Operators
    <3>3. dir' = [dir EXCEPT ![a] = f] /\ disk' = [disk EXCEPT ![a] = disk[a]]
      <4>1. [dir[a] EXCEPT !.active = run[h].temp] = f
        BY <1>f DEF Files
      <4>2. dir' = [dir EXCEPT ![a] = [dir[a] EXCEPT !.active = run[h].temp]]
        BY <2>1
      <4> QED BY <1>0, <2>1, <4>1, <4>2
    <3>4. PICK r : r \in {NextAsset(h, "check"), Ended(h, "done")} /\ Set(h, r)
      BY <2>1
    <3>5. r \in Runs /\ Coherent(r) /\ r.picked \subseteq run[h].picked
      BY <3>1, <3>4, NextAssetCoherent, EndedCoherent
    <3> HIDE DEF f
    <3>6. /\ dir' \in [Assets -> Files] /\ disk' \in [Assets -> Files]
          /\ Names' /\ \A b \in Assets : dir[b].staged # "torn"
                                           => dir'[b].staged # "torn"
      BY <1>f, <2>1, <3>2, <3>3, FilesStep
    <3> QED BY <1>0, <2>1, <3>4, <3>5, <3>6, RunStep
  <2> QED BY <1>1, <2>1, FailStep DEF Link
<1>2. CASE PublishStaged(h, a)
  <2>1. CASE /\ dir' = [dir EXCEPT ![a].staged = run[h].temp]
             /\ Set(h, [run[h] EXCEPT !.at = "sync", !.temp = "absent"])
             /\ UNCHANGED <<disk, faults>>
    <3> DEFINE f == [active |-> dir[a].active, staged |-> run[h].temp]
               r == [run[h] EXCEPT !.at = "sync", !.temp = "absent"]
    <3>1. run[h].at = "publish" /\ run[h].cmd = "stage" /\ Valid(run[h].temp)
      BY <1>0, <1>2 DEF PublishStaged, Coherent
    <3>2. /\ f \in Files /\ Installed(f)
          /\ f.active = dir[a].active /\ f.staged # "torn"
      BY <1>0, <1>f, <3>1 DEF Files, Installed, Valid, Contents
    <3>3. dir' = [dir EXCEPT ![a] = f] /\ disk' = [disk EXCEPT ![a] = disk[a]]
      <4>1. [dir[a] EXCEPT !.staged = run[h].temp] = f
        BY <1>f DEF Files
      <4>2. dir' = [dir EXCEPT ![a] = [dir[a] EXCEPT !.staged = run[h].temp]]
        BY <2>1
      <4> QED BY <1>0, <2>1, <4>1, <4>2
    <3>4. r \in Runs /\ Coherent(r) /\ r.picked = run[h].picked /\ Set(h, r)
      BY <1>0, <2>1, <3>1 DEF Runs, Places, Contents, Coherent
    <3> HIDE DEF f, r
    <3>5. /\ dir' \in [Assets -> Files] /\ disk' \in [Assets -> Files]
          /\ Names' /\ \A b \in Assets : dir[b].staged # "torn"
                                           => dir'[b].staged # "torn"
      BY <1>f, <2>1, <3>2, <3>3, FilesStep DEF Durable
    <3> QED BY <1>0, <2>1, <3>4, <3>5, RunStep
  <2> QED BY <1>2, <2>1, FailStep DEF PublishStaged
<1>3. CASE ReplaceActive(h, a)
  <2> DEFINE f == [active |-> dir[a].staged, staged |-> "absent"]
             r == [run[h] EXCEPT !.at = "sync",
                                 !.changed = run[h].changed \cup {a}]
  <2>1. CASE /\ dir' = [dir EXCEPT ![a] = f]
             /\ Set(h, r) /\ UNCHANGED <<disk, faults>>
    <3>1. /\ f \in Files /\ Installed(f)
          /\ f.active \notin Operators /\ f.staged # "torn"
      BY <1>f DEF Files, Installed, Contents, Operators
    <3>2. disk' = [disk EXCEPT ![a] = disk[a]]
      BY <1>0, <2>1
    <3>3. r \in Runs /\ Coherent(r) /\ r.picked = run[h].picked
      BY <1>0, <1>3 DEF Runs, Places, Contents, Coherent, ReplaceActive
    <3> HIDE DEF f, r
    <3>4. /\ dir' \in [Assets -> Files] /\ disk' \in [Assets -> Files]
          /\ Names' /\ \A b \in Assets : dir[b].staged # "torn"
                                           => dir'[b].staged # "torn"
      BY <1>f, <2>1, <3>1, <3>2, FilesStep
    <3> QED BY <1>0, <2>1, <3>3, <3>4, RunStep
  <2> QED BY <1>3, <2>1, FailStep DEF ReplaceActive
<1>4. CASE SyncDirectory(h, a)
  <2> DEFINE at == IF run[h].cmd = "stage" THEN "fetch" ELSE "replace"
             r == NextAsset(h, at)
  <2>1. CASE /\ disk' = [disk EXCEPT ![a] = dir[a]]
             /\ Set(h, r) /\ UNCHANGED <<dir, faults>>
    <3>1. run[h].at = "sync" /\ run[h].cmd \in {"stage", "activate"}
      BY <1>0, <1>4 DEF SyncDirectory, Coherent
    <3>2. dir' = [dir EXCEPT ![a] = dir[a]]
      BY <1>0, <2>1
    <3>3. /\ at \in {"check", "fetch", "replace"}
          /\ at # "check"
          /\ at = "fetch" => run[h].cmd = "stage"
          /\ at = "replace" => run[h].cmd = "activate"
      BY <3>1
    <3> HIDE DEF at
    <3>4. r \in Runs /\ Coherent(r) /\ r.picked \subseteq run[h].picked
      BY <3>1, <3>3, NextAssetCoherent
    <3> HIDE DEF r
    <3>5. /\ dir' \in [Assets -> Files] /\ disk' \in [Assets -> Files]
          /\ Names' /\ \A b \in Assets : dir[b].staged # "torn"
                                           => dir'[b].staged # "torn"
      BY <1>f, <2>1, <3>2, FilesStep
    <3> QED BY <1>0, <2>1, <3>4, <3>5, RunStep
  <2> QED BY <1>4, <2>1, FailStep DEF SyncDirectory
<1> QED BY <1>1, <1>2, <1>3, <1>4
(* What happens to one asset's files outside the commands.                 *)
LEMMA OutsideStep ==
  ASSUME Inv, UNCHANGED <<run, faults>>,
         dir' \in [Assets -> Files], disk' \in [Assets -> Files], Names',
         \A a \in Assets : dir[a].staged # "torn" => dir'[a].staged # "torn"
  PROVE  Inv'
<1>1. Typed' /\ \A h \in Helpers : Coherent(run[h])'
  BY DEF Inv, Typed
<1>2. \A h \in Helpers : run[h].picked \subseteq Assets
  BY DEF Inv, Typed, Runs
<1>3. Picks'
  BY <1>2 DEF Inv, Picks
<1> QED BY <1>1, <1>3 DEF Inv

(* The operator's two steps give the active name a file, or none.          *)
LEMMA OperatorStep ==
  ASSUME Inv, NEW a \in Assets, NEW c \in Operators \cup {"absent"},
         dir'  = [dir  EXCEPT ![a].active = c],
         disk' = [disk EXCEPT ![a].active = c],
         UNCHANGED <<run, faults>>
  PROVE  Inv'
<1> DEFINE f == [active |-> c, staged |-> dir[a].staged]
           d == [active |-> c, staged |-> disk[a].staged]
<1>1. /\ dir[a] \in Files /\ disk[a] \in Files
      /\ Installed(dir[a]) /\ Installed(disk[a])
      /\ dir[a] = [active |-> dir[a].active, staged |-> dir[a].staged]
      /\ disk[a] = [active |-> disk[a].active, staged |-> disk[a].staged]
  BY FilesFacts
<1>2. [dir[a] EXCEPT !.active = c] = f /\ [disk[a] EXCEPT !.active = c] = d
  BY <1>1 DEF Files
<1>3. /\ dir'  = [dir  EXCEPT ![a] = [dir[a]  EXCEPT !.active = c]]
      /\ disk' = [disk EXCEPT ![a] = [disk[a] EXCEPT !.active = c]]
  OBVIOUS
<1>4. /\ f \in Files /\ d \in Files /\ Installed(f) /\ Installed(d)
      /\ d.active = f.active /\ f.staged = dir[a].staged
  BY <1>1 DEF Files, Installed, Contents, Operators
<1> HIDE DEF f, d
<1> QED BY <1>2, <1>3, <1>4, FilesStep, OutsideStep

(* Writeback gives a file its bytes and changes no other.                  *)
LEMMA FlushStep ==
  ASSUME Inv, NEW a \in Assets, Flush(a)
  PROVE  Inv'
<1> DEFINE f == [n \in DOMAIN dir[a] |-> Flushed(dir[a][n])]
<1>1. dir[a] \in Files /\ Installed(dir[a]) /\ DOMAIN dir[a] = {"active", "staged"}
  BY FilesFacts DEF Files
<1>2. f \in Files /\ f.active = Flushed(dir[a].active)
      /\ f.staged = Flushed(dir[a].staged)
  BY <1>1 DEF Files, Flushed, Contents
<1>3. dir' = [dir EXCEPT ![a] = f] /\ disk' = [disk EXCEPT ![a] = dir'[a]]
      /\ UNCHANGED <<run, faults>> /\ dir \in [Assets -> Files]
  BY DEF Flush, Inv, Typed
<1>4. dir'[a] = f
  BY <1>3
<1>5. Installed(f) /\ (dir[a].staged # "torn" => f.staged # "torn")
  BY <1>1, <1>2 DEF Installed, Flushed
<1> HIDE DEF f
<1> QED BY <1>2, <1>3, <1>4, <1>5, FilesStep, OutsideStep

(* A kill ends a command; a power failure ends them all.                   *)
LEMMA KillStep ==
  ASSUME Inv, NEW h \in Helpers, Kill(h)
  PROVE  Inv'
<1>1. faults' \in 0..MaxFaults /\ faults' > faults
  BY BoundsAssumption DEF Inv, Typed, Kill
<1>2. Names'
  BY <1>1 DEF Inv, Typed, Names, Installed, Durable, Kill
<1> QED BY <1>1, <1>2, NoRunCoherent, RunStep DEF Inv, Typed, Kill

(* What a power failure makes of one file.                                 *)
After(c) == {Flushed(c)} \cup (IF c = "unflushed" THEN {"torn"} ELSE {})

(* Each asset's two names come back as they were last synced or written.   *)
LEMMA PowerFailureFiles ==
  ASSUME Inv, PowerFailure
  PROVE  /\ dir' \in [Assets -> Files]
         /\ \A a \in Assets :
              \E f \in {dir[a], disk[a]} :
                /\ dir'[a].active \in After(f.active)
                /\ dir'[a].staged \in After(f.staged)
<1>1. PICK undone \in SUBSET {a \in Assets : disk[a] # dir[a]} :
        LET after == [a \in Assets |-> IF a \in undone THEN disk[a]
                                                       ELSE dir[a]]
            unwritten == {a \in Assets : "unflushed" \in
                                           {after[a].active, after[a].staged}}
        IN \E torn \in SUBSET unwritten :
             dir' = [a \in Assets |-> [n \in DOMAIN after[a] |->
                       IF a \in torn /\ after[a][n] = "unflushed"
                       THEN "torn" ELSE Flushed(after[a][n])]]
  BY DEF PowerFailure
<1> DEFINE after == [a \in Assets |-> IF a \in undone THEN disk[a] ELSE dir[a]]
<1>2. PICK torn : dir' = [a \in Assets |-> [n \in DOMAIN after[a] |->
                       IF a \in torn /\ after[a][n] = "unflushed"
                       THEN "torn" ELSE Flushed(after[a][n])]]
  BY <1>1
<1>3. \A a \in Assets : after[a] \in {dir[a], disk[a]} /\ after[a] \in Files
  BY DEF Inv, Typed
<1> HIDE DEF after
<1>4. ASSUME NEW a \in Assets
      PROVE  /\ dir'[a] \in Files
             /\ dir'[a].active \in After(after[a].active)
             /\ dir'[a].staged \in After(after[a].staged)
  <2>1. DOMAIN after[a] = {"active", "staged"} /\ after[a].active \in Contents
        /\ after[a].staged \in Contents
    BY <1>3 DEF Files
  <2>2. dir'[a] = [n \in {"active", "staged"} |->
                     IF a \in torn /\ after[a][n] = "unflushed"
                     THEN "torn" ELSE Flushed(after[a][n])]
    BY <1>2, <2>1
  <2> QED BY <2>1, <2>2 DEF Files, After, Flushed, Contents
<1>5. dir' \in [Assets -> Files]
  BY <1>2, <1>4
<1> QED BY <1>3, <1>4, <1>5

LEMMA PowerFailureStep ==
  ASSUME Inv, PowerFailure
  PROVE  Inv'
<1>1. /\ disk' = dir' /\ run' = [h \in Helpers |-> NoRun]
      /\ faults' \in 0..MaxFaults /\ faults' > 0
  BY BoundsAssumption DEF PowerFailure, Inv, Typed
<1>2. \A h \in Helpers : run'[h] = NoRun
  BY <1>1
<1>3. Typed' /\ Picks' /\ \A h \in Helpers : Coherent(run[h])'
  BY <1>1, <1>2, NoRunCoherent, PowerFailureFiles DEF Typed, Picks
<1>4. ASSUME NEW a \in Assets PROVE Installed(dir[a])'
  <2>1. PICK f \in {dir[a], disk[a]} : dir'[a].active \in After(f.active)
                                       /\ dir'[a].staged \in After(f.staged)
    BY PowerFailureFiles
  <2>2. Installed(f)
    BY <2>1, FilesFacts
  <2> QED BY <1>1, <2>1, <2>2 DEF Installed, After, Flushed
<1>5. Names'
  BY <1>1, <1>4 DEF Names, Durable
<1> QED BY <1>3, <1>5 DEF Inv

LEMMA InvInit == Init => Inv
<1> SUFFICES ASSUME Init PROVE Inv
  OBVIOUS
<1>1. /\ dir \in [Assets -> Files] /\ disk = dir /\ faults = 0
      /\ \A h \in Helpers : run[h] = NoRun
  BY DEF Init, Files, Contents, Operators
<1>2. Typed /\ Picks /\ \A h \in Helpers : Coherent(run[h])
  BY <1>1, NoRunCoherent, BoundsAssumption DEF Init, Typed, Picks
<1>3. Names
  BY <1>1 DEF Init, Names, Installed, Durable
<1> QED BY <1>2, <1>3 DEF Inv

LEMMA InvStep == Inv /\ [Next]_vars => Inv'
<1> SUFFICES ASSUME Inv, [Next]_vars PROVE Inv'
  OBVIOUS
<1>0. Operated \subseteq Assets
  BY BoundsAssumption DEF Assets
<1>1. CASE UNCHANGED vars
  BY <1>1 DEF vars, Inv, Typed, Names, Installed, Durable, Picks, Coherent
<1>2. ASSUME NEW h \in Helpers, Step(h) PROVE Inv'
  <2>1. 1 \in Assets
    BY BoundsAssumption DEF Assets
  <2> QED BY <1>2, <2>1, QuietStep, FileStep DEF Step
<1>3. ASSUME NEW a \in Operated,
             (\E c \in Operators : Place(a, c)) \/ MoveAside(a)
      PROVE  Inv'
  BY <1>0, <1>3, OperatorStep DEF Place, MoveAside
<1> QED BY <1>1, <1>2, <1>3, CommandStep, KillStep, FlushStep,
           PowerFailureStep DEF Next

LEMMA AlwaysInv == Spec => []Inv
BY InvInit, InvStep, PTL DEF Spec

(* A command that has ended has left no temporary file, and every variable *)
(* has its type.                                                           *)
THEOREM AssetsTyped == Spec => []TypeOK
<1>1. Inv => TypeOK
  BY DEF Inv, Typed, Runs, Files, Coherent, TypeOK
<1> QED BY <1>1, AlwaysInv, PTL

(* However many commands run beside each other, a name is only given to    *)
(* validated bytes, and only a power failure tears them.                   *)
THEOREM InstalledIsPinned == Spec => []OnlyPinnedIsInstalled
<1>1. Inv => OnlyPinnedIsInstalled
  BY DEF Inv, Names, Installed, OnlyPinnedIsInstalled
<1> QED BY <1>1, AlwaysInv, PTL

(* An activation that is refused has changed no active file.               *)
THEOREM RefusalChangesNothing == Spec => []RefusedChangesNothing
<1>1. Inv => RefusedChangesNothing
  BY DEF Inv, Coherent, RefusedChangesNothing
<1> QED BY <1>1, AlwaysInv, PTL
-----------------------------------------------------------------------------
(* What a step may do to the operator's file under an active name.         *)
Spared(a) ==
    dir[a].active \in Operators
    /\ dir'[a].active \notin {dir[a].active, "absent"}
    => /\ dir[a].active # "directory" /\ Valid(dir[a].staged)
       /\ dir'[a] = [active |-> dir[a].staged, staged |-> "absent"]

LEMMA CommandSpares ==
  ASSUME Inv, NEW h \in Helpers, Command(h) \/ Step(h) \/ Kill(h),
         NEW b \in Assets
  PROVE  Spared(b)
<1>0. dir \in [Assets -> Files] /\ dir[b] \in Files
  BY DEF Inv, Typed
<1>1. CASE dir' = dir
  BY <1>1 DEF Spared
<1>2. ASSUME NEW a \in Assets, Link(h, a) PROVE Spared(b)
  BY <1>0, <1>1, <1>2 DEF Link, Fail, Spared, Files, Operators
<1>3. ASSUME NEW a \in Assets, PublishStaged(h, a) PROVE Spared(b)
  BY <1>0, <1>1, <1>3 DEF PublishStaged, Fail, Spared, Files
<1>4. ASSUME NEW a \in Assets, ReplaceActive(h, a) PROVE Spared(b)
  <2>1. a \in run[h].picked
    BY <1>4 DEF ReplaceActive, At, First, Inv, Coherent
  <2>2. dir[a].staged \in {"absent", "unflushed", "pinned"}
    BY <2>1, FilesFacts DEF Inv, Picks, Installed
  <2>3. CASE /\ dir[a].staged # "absent" /\ dir[a].active # "directory"
             /\ dir' = [dir EXCEPT ![a] = [active |-> dir[a].staged,
                                           staged |-> "absent"]]
    BY <1>0, <2>2, <2>3 DEF Spared, Valid
  <2> QED BY <1>1, <1>4, <2>3 DEF ReplaceActive, Fail
<1>5. ASSUME NEW a \in Assets,
             \/ Scanned(h) \/ CheckTarget(h, a) \/ Fetch(h, a)
             \/ ValidateCandidate(h, a) \/ Scan(h, a) \/ SyncDirectory(h, a)
      PROVE  dir' = dir
  BY <1>5 DEF Scanned, CheckTarget, Fetch, ValidateCandidate, Scan,
              SyncDirectory, Fail
<1>6. CASE Command(h) \/ Kill(h)
  BY <1>1, <1>6 DEF Command, Provision, Stage, Activate, Kill
<1> QED BY <1>1, <1>2, <1>3, <1>4, <1>5, <1>6 DEF Step

LEMMA OthersSpare ==
  ASSUME Inv, NEW b \in Assets,
         \/ \E a \in Operated :
              (\E c \in Operators : Place(a, c)) \/ MoveAside(a)
         \/ \E a \in Assets : Flush(a)
         \/ PowerFailure
  PROVE  Spared(b)
<1>0. dir \in [Assets -> Files] /\ dir[b] \in Files
      /\ Operated \subseteq Assets
  BY BoundsAssumption DEF Inv, Typed, Assets
<1>1. ASSUME NEW a \in Operated, NEW c \in Operators, Place(a, c)
      PROVE  Spared(b)
  BY <1>0, <1>1 DEF Place, Spared, Files, Operators
<1>2. ASSUME NEW a \in Operated, MoveAside(a) PROVE Spared(b)
  BY <1>0, <1>2 DEF MoveAside, Spared, Files
<1>3. ASSUME NEW a \in Assets, Flush(a) PROVE Spared(b)
  <2>1. dir'[b] = dir[b] \/ dir'[b].active = Flushed(dir[b].active)
    BY <1>0, <1>3 DEF Flush, Files
  <2> QED BY <2>1 DEF Flushed, Spared, Operators
<1>4. CASE PowerFailure
  <2>1. PICK f \in {dir[b], disk[b]} : dir'[b].active \in After(f.active)
    BY <1>4, PowerFailureFiles
  <2>2. dir[b].active \in Operators => f.active = dir[b].active
    BY <2>1, FilesFacts DEF Durable
  <2> QED BY <2>1, <2>2 DEF After, Flushed, Spared, Operators
<1> QED BY <1>1, <1>2, <1>3, <1>4

(* No command, kill or power failure takes what the operator has put under *)
(* an active name from it, except the activation of a valid staged         *)
(* replacement, which spares a directory.                                  *)
THEOREM OwnFileIsKept == Spec => OwnIsKept
<1>1. ASSUME Inv, [Next]_vars, NEW a \in Assets PROVE Spared(a)
  <2>1. CASE UNCHANGED vars
    BY <2>1 DEF vars, Spared
  <2> QED BY <1>1, <2>1, CommandSpares, OthersSpare DEF Next
<1>2. Inv /\ [Next]_vars =>
        [\A a \in Assets :
           /\ dir[a].active \in Operators
           /\ dir'[a].active \notin {dir[a].active, "absent"}
           => /\ dir[a].active # "directory" /\ Valid(dir[a].staged)
              /\ dir'[a] = [active |-> dir[a].staged, staged |-> "absent"]]_vars
  BY <1>1 DEF Spared
<1> QED BY <1>2, AlwaysInv, PTL DEF Spec, OwnIsKept
=============================================================================
