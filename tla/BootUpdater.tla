---------------------------- MODULE BootUpdater ----------------------------
(***************************************************************************)
(* The updater that install.sh runs on the GX device                       *)
(* (deploy/venus/bootstrap_updater.sh and bootstrap_updater.d). A run      *)
(* takes a lock directory, fetches a bundle, stages the managed layout     *)
(* with the local configuration merged into it, and promotes it: a bundle  *)
(* of a signed manifest as a new release directory behind the links        *)
(* current and previous, any other source by copying item by item over the *)
(* live target. A run may be killed (or the power lost) between any two    *)
(* of its file operations; its exit handler then does not run. The process *)
(* id of a run is its number.                                              *)
(***************************************************************************)
EXTENDS Integers, FiniteSets

CONSTANTS
    MaxRuns,      \* bound: updaters that are ever started
    MaxLive,      \* bound: updaters that run at once
    Bundles,      \* the bundles that are offered
    Items,        \* managed_layout_paths, other than deploy/venus
    Sentinels,    \* the items deployment_sentinel_paths looks into
    ConfigKeys    \* keys of the wallbox configuration

ASSUME BootAssumption ==
    /\ {MaxRuns, MaxLive} \subseteq Nat \ {0} /\ 0 \notin Bundles
    /\ Items # {} /\ "deploy" \notin Items /\ Sentinels \subseteq Items \cup {"deploy"}

Runs == 1 .. MaxRuns
NoBundle == 0
Names == Bundles \X (0 .. MaxRuns + 1)
NoName == <<NoBundle, 0>>
AllItems == Items \cup {"deploy"}

\* a configuration file says for each key where its value comes from
NoConfig == [k \in ConfigKeys |-> "unset"]
Template == [k \in ConfigKeys |-> "template"]

\* a directory: the bundle each managed item comes from, and deploy's configuration
NoTree == [items |-> [i \in AllItems |-> NoBundle], config |-> NoConfig]
CompleteTree(tree) == \A i \in AllItems : tree.items[i] # NoBundle

VARIABLES
    run,         \* for each run its step, the source and bundle, release name and staged tree
    lockDir,     \* the lock directory, the pid file in it, and which run made it
    target,      \* TARGET_DIR
    releases,    \* RELEASES_DIR
    current,     \* CURRENT_LINK
    previous,    \* PREVIOUS_LINK
    installed,   \* INSTALLED_BUNDLE_HASH_FILE
    receipt,     \* DEPLOYMENT_RECEIPT_FILE: the items of the tree it describes
    stolen       \* history: a run removed the lock of a run that was alive

bootVars == <<run, lockDir, target, releases, current, previous, installed, receipt, stolen>>
disk == <<target, releases, current, previous, installed, receipt>>

NewRun == [pc |-> "new", kind |-> "direct", dry |-> FALSE, bundle |-> NoBundle,
           name |-> NoName, tree |-> NoTree]
Unlocked == [made |-> FALSE, pid |-> 0, by |-> 0]

Living(r) == run[r].pc \notin {"new", "ended", "killed"}
At(r, pc) == run[r].pc = pc
GoTo(r, pc) == run' = [run EXCEPT ![r].pc = pc]

(***************************************************************************)
(* The end of a run: finalize_run writes the status file, and removes the  *)
(* lock directory if the run holds it, whoever made it                     *)
(***************************************************************************)
FinalizeRun(r, holds) ==
    /\ run' = [run EXCEPT ![r] = [NewRun EXCEPT !.pc = "ended"]]
    /\ lockDir' = IF holds THEN Unlocked ELSE lockDir
    /\ stolen' = (stolen \/ (holds /\ lockDir.by \notin {0, r}))

(***************************************************************************)
(* acquire_update_lock                                                     *)
(***************************************************************************)
\* main starts: a source is given on the command line, the work area is chosen
StartUpdate(r) ==
    /\ At(r, "new") /\ \A q \in 1 .. r - 1 : run[q].pc # "new"
    /\ Cardinality({q \in Runs : Living(q)}) < MaxLive
    /\ \E kind \in {"manifest", "direct"}, b \in Bundles, dry \in BOOLEAN :
         run' = [run EXCEPT ![r] = [NewRun EXCEPT !.pc = "lock", !.kind = kind, !.dry = dry,
                                                  !.bundle = b]]
    /\ UNCHANGED <<lockDir, disk, stolen>>

MakeLock(r) ==
    /\ At(r, "lock")
    /\ IF lockDir.made THEN GoTo(r, "inspect") /\ UNCHANGED lockDir
       ELSE lockDir' = [made |-> TRUE, pid |-> 0, by |-> r] /\ GoTo(r, "own")
    /\ UNCHANGED <<disk, stolen>>

\* the pid file is written into whatever lock directory exists now; that this may
\* fail is not looked at
WritePid(r) ==
    /\ At(r, "own")
    /\ lockDir' = IF lockDir.made THEN [lockDir EXCEPT !.pid = r] ELSE lockDir
    /\ GoTo(r, "fetch")
    /\ UNCHANGED <<disk, stolen>>

InspectLock(r) ==
    /\ At(r, "inspect")
    /\ IF lockDir.pid # 0 /\ Living(lockDir.pid)
       THEN FinalizeRun(r, FALSE)
       ELSE GoTo(r, "steal") /\ UNCHANGED <<lockDir, stolen>>
    /\ UNCHANGED disk

RemoveStaleLock(r) ==
    /\ At(r, "steal")
    /\ lockDir' = Unlocked
    /\ stolen' = (stolen \/ (lockDir.made /\ Living(lockDir.by)))
    /\ GoTo(r, "retake")
    /\ UNCHANGED <<disk>>

RetakeLock(r) ==
    /\ At(r, "retake")
    /\ IF lockDir.made THEN FinalizeRun(r, FALSE)
       ELSE /\ lockDir' = [made |-> TRUE, pid |-> 0, by |-> r]
            /\ GoTo(r, "own") /\ UNCHANGED stolen
    /\ UNCHANGED disk

(***************************************************************************)
(* The source, and what is installed                                       *)
(***************************************************************************)
CurrentCodebaseDir == IF current # NoName THEN releases[current] ELSE target

TargetIsCurrentForManifest(b) == installed = b /\ CompleteTree(CurrentCodebaseDir)

\* wait_for_update_resources gives up, or a guarded command is stopped or fails
GiveUp(r) ==
    /\ run[r].pc \in {"fetch", "stage", "promote", "receipt"}
    /\ FinalizeRun(r, TRUE)
    /\ UNCHANGED disk

\* no authenticated manifest, a bundle that fails its hash check or is incomplete
SourceRefused(r) ==
    /\ At(r, "fetch")
    /\ FinalizeRun(r, TRUE)
    /\ UNCHANGED disk

\* a hash that matches ends the run; the state and the receipt are written anew
AlreadyCurrent(r) ==
    /\ At(r, "fetch") /\ run[r].kind = "manifest" /\ TargetIsCurrentForManifest(run[r].bundle)
    /\ receipt' = IF run[r].dry THEN receipt ELSE CurrentCodebaseDir.items
    /\ FinalizeRun(r, TRUE)
    /\ UNCHANGED <<target, releases, current, previous, installed>>

\* the name of a release is chosen before it is staged
Mutant_VersionName(r) == <<run[r].bundle, 0>>

ReleaseName(r) ==
    LET b == run[r].bundle
        Exists(n) == releases[<<b, n>>] # NoTree
    IN <<b, IF ~Exists(0) THEN 0 ELSE IF ~Exists(1) THEN 1 ELSE 1 + r>>

SourceReady(r) ==
    /\ At(r, "fetch")
    /\ run[r].kind = "manifest" => ~TargetIsCurrentForManifest(run[r].bundle)
    /\ run' = [run EXCEPT ![r].pc = "stage",
                          ![r].name = IF @ = NoName /\ run[r].kind = "manifest" /\ ~run[r].dry
                                      THEN ReleaseName(r) ELSE NoName]
    /\ UNCHANGED <<lockDir, disk, stolen>>

(***************************************************************************)
(* write_managed_layout: the local configuration is kept, and the keys     *)
(* the template adds are merged into it                                    *)
(***************************************************************************)
PreservedConfig ==
    IF CurrentCodebaseDir.config # NoConfig THEN CurrentCodebaseDir.config ELSE target.config

MergedConfig(local) ==
    [k \in ConfigKeys |-> IF local[k] = "unset" THEN "template" ELSE local[k]]

\* a local file that cannot be parsed is kept as it is; with no local file the template stays
StagedConfigs ==
    IF PreservedConfig = NoConfig THEN {Template}
    ELSE {MergedConfig(PreservedConfig), PreservedConfig}

\* copy_item returns without copying when the resources stay short, and the loop over
\* the items goes on with the next one: the staged tree lacks that item
WriteManagedLayout(r) ==
    /\ At(r, "stage")
    /\ \E config \in StagedConfigs, skipped \in {{}} \cup {{i} : i \in AllItems} :
         run' = [run EXCEPT
                    ![r].pc = "promote",
                    ![r].tree = [items  |-> [i \in AllItems |->
                                              IF i \in skipped THEN NoBundle ELSE run[r].bundle],
                                 config |-> IF "deploy" \in skipped THEN PreservedConfig ELSE config]]
    /\ UNCHANGED <<lockDir, disk, stolen>>

\* a malformed template, or a merged configuration that is not valid: nothing is promoted
LayoutRefused(r) ==
    /\ At(r, "stage")
    /\ FinalizeRun(r, TRUE)
    /\ UNCHANGED disk

PreviewDone(r) ==
    /\ At(r, "promote") /\ run[r].dry
    /\ FinalizeRun(r, TRUE)
    /\ UNCHANGED disk

(***************************************************************************)
(* promote_release_layout, after staging: clear the name, move the staged  *)
(* directory there, remember the previous release, replace the link        *)
(***************************************************************************)
ClearRelease(r) ==
    /\ At(r, "promote") /\ ~run[r].dry /\ run[r].kind = "manifest"
    /\ releases' = [releases EXCEPT ![run[r].name] = NoTree]
    /\ GoTo(r, "move")
    /\ UNCHANGED <<lockDir, target, current, previous, installed, receipt, stolen>>

MoveRelease(r) ==
    /\ At(r, "move")
    /\ releases' = [releases EXCEPT ![run[r].name] = run[r].tree]
    /\ GoTo(r, "remember")
    /\ UNCHANGED <<lockDir, target, current, previous, installed, receipt, stolen>>

RememberPrevious(r) ==
    /\ At(r, "remember")
    /\ previous' = IF current # NoName THEN current ELSE previous
    /\ GoTo(r, "unlink")
    /\ UNCHANGED <<lockDir, target, releases, current, installed, receipt, stolen>>

\* ln -sfn removes the old link before it makes the new one
UnlinkCurrent(r) ==
    /\ At(r, "unlink")
    /\ current' = NoName
    /\ GoTo(r, "link")
    /\ UNCHANGED <<lockDir, target, releases, previous, installed, receipt, stolen>>

LinkCurrent(r) ==
    /\ At(r, "link")
    /\ current' = run[r].name
    /\ GoTo(r, "verify")
    /\ UNCHANGED <<lockDir, target, releases, previous, installed, receipt, stolen>>

(***************************************************************************)
(* promote_target_layout: each staged item is removed and copied again;    *)
(* removing deploy removes the configuration with it. An item that was not *)
(* staged stays as it is in the target.                                    *)
(***************************************************************************)
NextItem(r) == {i \in AllItems : target.items[i] # run[r].tree.items[i]
                                 /\ run[r].tree.items[i] # NoBundle}

RemoveItem(r) ==
    /\ At(r, "promote") /\ ~run[r].dry /\ run[r].kind = "direct"
    /\ \E i \in NextItem(r) :
         /\ target.items[i] # NoBundle
         /\ target' = [items  |-> [target.items EXCEPT ![i] = NoBundle],
                       config |-> IF i = "deploy" THEN NoConfig ELSE target.config]
    /\ UNCHANGED <<run, lockDir, releases, current, previous, installed, receipt, stolen>>

CopyItem(r) ==
    /\ At(r, "promote") /\ ~run[r].dry /\ run[r].kind = "direct"
    /\ \E i \in NextItem(r) :
         /\ target.items[i] = NoBundle
         /\ target' = [items  |-> [target.items EXCEPT ![i] = run[r].bundle],
                       config |-> IF i = "deploy" THEN run[r].tree.config ELSE target.config]
    /\ UNCHANGED <<run, lockDir, releases, current, previous, installed, receipt, stolen>>

TargetCopied(r) ==
    /\ At(r, "promote") /\ ~run[r].dry /\ run[r].kind = "direct" /\ NextItem(r) = {}
    /\ target' = [target EXCEPT !.config = IF run[r].tree.items["deploy"] # NoBundle
                                            THEN run[r].tree.config ELSE @]
    /\ GoTo(r, "verify")
    /\ UNCHANGED <<lockDir, releases, current, previous, installed, receipt, stolen>>

(***************************************************************************)
(* Verification, the recorded state, and the receipt                       *)
(***************************************************************************)
\* the sentinels of the active tree are compared with the source: after a direct
\* promotion the active tree may still be the release that current names
VerifyDeployment(r) ==
    /\ At(r, "verify")
    /\ IF \A i \in Sentinels : CurrentCodebaseDir.items[i] = run[r].bundle
       THEN GoTo(r, "record") /\ UNCHANGED <<lockDir, stolen>>
       ELSE FinalizeRun(r, TRUE)
    /\ UNCHANGED disk

\* a local source directory has no hash, so the hash on file stays
RecordInstallState(r) ==
    /\ At(r, "record")
    /\ \/ installed' = run[r].bundle
       \/ run[r].kind = "direct" /\ UNCHANGED installed
    /\ GoTo(r, "receipt")
    /\ UNCHANGED <<lockDir, target, releases, current, previous, receipt, stolen>>

WriteReceipt(r) ==
    /\ At(r, "receipt")
    /\ receipt' = CurrentCodebaseDir.items
    /\ FinalizeRun(r, TRUE)
    /\ UNCHANGED <<target, releases, current, previous, installed>>

\* the process is killed or the device loses power: no exit handler
Kill(r) ==
    /\ Living(r)
    /\ run' = [run EXCEPT ![r] = [NewRun EXCEPT !.pc = "killed"]]
    /\ UNCHANGED <<lockDir, disk, stolen>>

(***************************************************************************)
(* Specification                                                           *)
(***************************************************************************)
BootInit ==
    /\ run = [r \in Runs |-> NewRun]
    /\ lockDir = Unlocked
    /\ \E b \in Bundles, k \in ConfigKeys :
         LET tree == [items  |-> [i \in AllItems |-> b],
                      config |-> [NoConfig EXCEPT ![k] = "local"]]
         IN \/ /\ target \in {NoTree, tree}              \* nothing, or a direct installation
               /\ releases = [n \in Names |-> NoTree]
               /\ current = NoName /\ installed = NoBundle /\ receipt = target.items
            \/ /\ target = NoTree                         \* or one release
               /\ releases = [[n \in Names |-> NoTree] EXCEPT ![<<b, 0>>] = tree]
               /\ current = <<b, 0>> /\ installed = b /\ receipt = tree.items
    /\ previous = NoName
    /\ stolen = FALSE

RunStep(r) ==
    \/ StartUpdate(r) \/ MakeLock(r) \/ WritePid(r) \/ InspectLock(r) \/ RemoveStaleLock(r)
    \/ RetakeLock(r) \/ GiveUp(r) \/ SourceRefused(r) \/ AlreadyCurrent(r) \/ SourceReady(r)
    \/ WriteManagedLayout(r) \/ LayoutRefused(r) \/ PreviewDone(r) \/ ClearRelease(r)
    \/ MoveRelease(r) \/ RememberPrevious(r) \/ UnlinkCurrent(r) \/ LinkCurrent(r)
    \/ RemoveItem(r) \/ CopyItem(r) \/ TargetCopied(r) \/ VerifyDeployment(r)
    \/ RecordInstallState(r) \/ WriteReceipt(r) \/ Kill(r)

BootNext == \E r \in Runs : RunStep(r)

BootSpec == BootInit /\ [][BootNext]_bootVars

(***************************************************************************)
(* Properties                                                              *)
(***************************************************************************)
BootTypeOK ==
    /\ \A r \in Runs : run[r].name \in Names \cup {NoName} /\ run[r].bundle \in Bundles \cup {0}
    /\ lockDir \in [made : BOOLEAN, pid : Runs \cup {0}, by : Runs \cup {0}]
    /\ current \in Names \cup {NoName} /\ previous \in Names \cup {NoName}
    /\ installed \in Bundles \cup {NoBundle}
    /\ DOMAIN target.items = AllItems /\ DOMAIN target.config = ConfigKeys

\* Whatever step an updater is killed at, the release that current names, and the one
\* that previous names for a rollback, exists and holds items of one bundle only, as
\* long as no updater lost its lock to another one.
Unmixed(tree) == \E b \in Bundles : \A i \in AllItems : tree.items[i] \in {b, NoBundle}
ReleasesIntact ==
    ~stolen => \A link \in {current, previous} :
                  link # NoName => releases[link] # NoTree /\ Unmixed(releases[link])

\* UPDATE_FLOW.md: "If pressure persists, the updater exits with a resource-pressure
\* reason while the previous validated installation remains active." The release that
\* current names is therefore always a complete one.
PressureKeepsCurrent == ~stolen => (current # NoName => CompleteTree(releases[current]))

\* What UPDATE_FLOW.md says: "Only one updater may run at a time." Past the lock, no
\* two updaters work at once.
OneUpdater ==
    \A q, r \in Runs :
        (q # r /\ Living(q) /\ Living(r)) =>
            ~\A p \in {q, r} : run[p].pc \notin {"lock", "own", "inspect", "steal", "retake"}
=============================================================================
