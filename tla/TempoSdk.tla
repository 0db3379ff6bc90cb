------------------------------ MODULE TempoSdk ------------------------------
(* tempo-conformance/scripts/resolve_sdk.py and the part of run.py that uses it:
   runs that move the SDK of an adapter to its latest release, build it, test it
   and put the checked-in files back. What a run leaves on disk is what the next
   one finds, also when it was stopped in between.

   The manifest and the lockfile of an adapter change together and are known by
   the SDK version they name. The override of --sdk-version is left out.       *)
EXTENDS Naturals, Sequences

CONSTANTS SdkAdapters,    \* the adapters of a run, in order
          Npm,            \* those whose resolver installs what it resolves
          Releases,       \* the newest version there may ever be
          Calls,          \* command lines: [build, sdk, keep]
          MaxRuns,
          MaxFailures     \* failing resolvers and builds, signals, deaths of runs

ASSUME SdkAssumption == Len(SdkAdapters) \in Nat

Pin == 1                  \* the version of the checked-in files
None == 0

VARIABLES
  sdkPc,      \* "idle", "prepare", "resolve", "resolving", "build", "test" or "restore"
  call,       \* the command line of the run
  adapterAtSdk, \* index of the adapter under way
  files,      \* files[a]: the version in the working tree
  stash,      \* stash[a]: what .sdk-pinned holds, None without it
  artifact,   \* artifact[a]: the version that is built or installed
  built,      \* built[a]: the content of .sdk-under-test, None without it
  backups,    \* backups[a]: Resolution.backups
  resolution, \* resolution[a]: Adapter.resolution
  latest,     \* the newest release
  outstanding, \* adapters whose last build run has not built them yet
  forgotten,  \* adapters whose backup was lost with a run that died
  sdkRuns,
  sdkFailures

diskVars == <<files, stash, artifact, built>>
sdkVars == <<sdkPc, call, adapterAtSdk, diskVars, backups, resolution, latest, outstanding,
             forgotten, sdkRuns, sdkFailures>>

Indices == 1..Len(SdkAdapters)
Every(value) == [a \in Indices |-> value]
NoCall == [build |-> "no", sdk |-> "pinned", keep |-> FALSE]

SdkInit ==
  /\ sdkPc = "idle"
  /\ call = NoCall
  /\ adapterAtSdk = 1
  /\ files = Every(Pin)
  /\ stash = Every(None)
  /\ artifact = Every(None)
  /\ built = Every(None)
  /\ backups = Every(None)
  /\ resolution = Every("")
  /\ latest = Pin + 1
  /\ outstanding = {}
  /\ forgotten = {}
  /\ sdkRuns = 0
  /\ sdkFailures = 0

At(pc, a) == sdkPc = pc /\ adapterAtSdk = a

\* The next adapter of a loop, or the step after the loop.
Advance(pc, after) ==
  IF adapterAtSdk = Len(SdkAdapters)
  THEN sdkPc' = after /\ adapterAtSdk' = 1
  ELSE sdkPc' = pc /\ adapterAtSdk' = adapterAtSdk + 1

Fails == sdkFailures < MaxFailures /\ sdkFailures' = sdkFailures + 1

\* An SDK is published between two runs.
Release ==
  /\ sdkPc = "idle"
  /\ latest < Releases
  /\ latest' = latest + 1
  /\ UNCHANGED <<sdkPc, call, adapterAtSdk, diskVars, backups, resolution, outstanding,
                 forgotten, sdkRuns, sdkFailures>>

StartRun ==
  /\ sdkPc = "idle"
  /\ sdkRuns < MaxRuns
  /\ sdkRuns' = sdkRuns + 1
  /\ \E c \in Calls : call' = c /\ sdkPc' = IF c.build = "no" THEN "build" ELSE "prepare"
  /\ resolution' = Every("")
  /\ UNCHANGED <<adapterAtSdk, diskVars, backups, latest, outstanding, forgotten, sdkFailures>>

\* Mutant: the next run does not look for a stash.
RestoreStashedNever(a) == UNCHANGED <<files, stash>>

\* restore_stashed().
RestoreStashed(a) ==
  /\ files' = [files EXCEPT ![a] = IF stash[a] = None THEN @ ELSE stash[a]]
  /\ stash' = [stash EXCEPT ![a] = None]

\* main(): the files of an earlier --keep-resolved run go back, then
\* forget_build().
Prepare(a) ==
  /\ At("prepare", a)
  /\ RestoreStashed(a)
  /\ built' = [built EXCEPT ![a] = None]
  /\ outstanding' = outstanding \cup {a}
  /\ sdkPc' = "resolve"
  /\ UNCHANGED <<call, adapterAtSdk, artifact, backups, resolution, latest, forgotten, sdkRuns,
                 sdkFailures>>

\* resolve() of a pinned adapter.
StayPinned(a) ==
  /\ At("resolve", a)
  /\ call.sdk = "pinned"
  /\ resolution' = [resolution EXCEPT ![a] = "pinned"]
  /\ Advance("prepare", "build")
  /\ UNCHANGED <<call, diskVars, backups, latest, outstanding, forgotten, sdkRuns, sdkFailures>>

\* Resolution.apply() saves the files and calls the resolver.
BackUp(a) ==
  /\ At("resolve", a)
  /\ call.sdk = "latest"
  /\ backups' = [backups EXCEPT ![a] = files[a]]
  /\ sdkPc' = "resolving"
  /\ UNCHANGED <<call, adapterAtSdk, diskVars, resolution, latest, outstanding, forgotten,
                 sdkRuns, sdkFailures>>

Resolved(a) ==
  /\ At("resolving", a)
  /\ files' = [files EXCEPT ![a] = latest]
  /\ artifact' = [artifact EXCEPT ![a] = IF a \in Npm THEN latest ELSE @]
  /\ resolution' = [resolution EXCEPT ![a] = "latest"]
  /\ Advance("prepare", "build")
  /\ UNCHANGED <<call, stash, built, backups, latest, outstanding, forgotten, sdkRuns,
                 sdkFailures>>

\* Resolution.restore().
Restored(a) ==
  /\ files' = [files EXCEPT ![a] = IF backups[a] = None THEN @ ELSE backups[a]]
  /\ backups' = [backups EXCEPT ![a] = None]

\* The resolver fails, before or after it installed something: the files go
\* back and the adapter stays on its pin.
ResolveFails(a) ==
  /\ At("resolving", a)
  /\ Fails
  /\ Restored(a)
  /\ artifact' \in {artifact, [artifact EXCEPT ![a] = IF a \in Npm THEN latest ELSE @]}
  /\ resolution' = [resolution EXCEPT ![a] = "pinned (latest unavailable)"]
  /\ Advance("prepare", "build")
  /\ UNCHANGED <<call, stash, built, latest, outstanding, forgotten, sdkRuns>>

-----------------------------------------------------------------------------
(* Builds. *)

\* Mutant: the version of the checked-in lockfile.
RecordedPin(a) == Pin

\* build() writes the version of the lockfile it built from to BUILT_VERSION.
Recorded(a) == files[a]

\* After the build: the next adapter of --build-only, or the tests.
AfterBuild == IF call.build = "only" THEN Advance("build", "restore")
              ELSE sdkPc' = "test" /\ UNCHANGED adapterAtSdk

Build(a) ==
  /\ At("build", a)
  /\ call.build # "no"
  /\ artifact' = [artifact EXCEPT ![a] = files[a]]
  /\ built' = [built EXCEPT ![a] = Recorded(a)]
  /\ outstanding' = outstanding \ {a}
  /\ AfterBuild
  /\ UNCHANGED <<call, files, stash, backups, resolution, latest, forgotten, sdkRuns,
                 sdkFailures>>

\* build_or_fallback(): the latest SDK does not build, so the pinned one is
\* built; or nothing does, and the exception ends the run.
BuildFails(a) ==
  /\ At("build", a)
  /\ call.build # "no"
  /\ Fails
  /\ IF resolution[a] = "latest"
     THEN /\ Restored(a)
          /\ resolution' = [resolution EXCEPT ![a] = "pinned (latest failed to build)"]
          /\ UNCHANGED <<sdkPc, adapterAtSdk>>
     ELSE /\ sdkPc' = "restore"
          /\ adapterAtSdk' = 1
          /\ UNCHANGED <<files, backups, resolution>>
  /\ UNCHANGED <<call, stash, artifact, built, latest, outstanding, forgotten, sdkRuns>>

SkipBuild(a) ==
  /\ At("build", a)
  /\ call.build = "no"
  /\ sdkPc' = "test"
  /\ UNCHANGED <<call, adapterAtSdk, diskVars, backups, resolution, latest, outstanding,
                 forgotten, sdkRuns, sdkFailures>>

\* Adapter.version: what the constraints of the scenarios are evaluated for.
Version(a) == IF built[a] # None THEN built[a] ELSE files[a]

Test(a) ==
  /\ At("test", a)
  /\ Advance("build", "restore")
  /\ UNCHANGED <<call, diskVars, backups, resolution, latest, outstanding, forgotten, sdkRuns,
                 sdkFailures>>

-----------------------------------------------------------------------------
(* The end of a run. *)

\* SIGTERM is an exception of the main thread; the finally of main() follows.
Terminated ==
  /\ sdkPc \notin {"idle", "restore"}
  /\ Fails
  /\ sdkPc' = "restore"
  /\ adapterAtSdk' = 1
  /\ UNCHANGED <<call, diskVars, backups, resolution, latest, outstanding, forgotten, sdkRuns>>

\* A run that is killed has no finally, and one that gets SIGTERM during the
\* finally leaves its loop: the backups it still holds in memory are gone.
RunDies ==
  /\ sdkPc # "idle"
  /\ Fails
  /\ sdkPc' = "idle"
  /\ adapterAtSdk' = 1
  /\ backups' = Every(None)
  /\ forgotten' = forgotten \cup {a \in Indices : backups[a] # None}
  /\ UNCHANGED <<call, diskVars, resolution, latest, outstanding, sdkRuns>>

\* restore(keep): back to the checked-in files, or into the stash with them.
RestoreAdapter(a) ==
  /\ At("restore", a)
  /\ IF call.keep /\ backups[a] # None
     THEN /\ stash' = [stash EXCEPT ![a] = backups[a]]
          /\ backups' = [backups EXCEPT ![a] = None]
          /\ UNCHANGED files
     ELSE Restored(a) /\ UNCHANGED stash
  /\ Advance("restore", "idle")
  /\ UNCHANGED <<call, artifact, built, resolution, latest, outstanding, forgotten, sdkRuns,
                 sdkFailures>>

SdkNext ==
  \/ Release \/ StartRun \/ Terminated \/ RunDies
  \/ \E a \in Indices :
       \/ Prepare(a) \/ StayPinned(a) \/ BackUp(a) \/ Resolved(a) \/ ResolveFails(a)
       \/ Build(a) \/ BuildFails(a) \/ SkipBuild(a) \/ Test(a) \/ RestoreAdapter(a)

SdkSpec == SdkInit /\ [][SdkNext]_sdkVars

-----------------------------------------------------------------------------

\* Resolvers and builds may fail and a run may be stopped or killed: the
\* checked-in files of an adapter are in the working tree, in the backups of the
\* run or in the stash, and a run with pinned SDKs builds from them, unless a run
\* died that had rewritten them and not yet put them back or stashed them.
PinIsNeverLost ==
  \A a \in Indices \ forgotten :
    /\ Pin \in {files[a], backups[a], stash[a]}
    /\ At("test", a) /\ call.build # "no" /\ call.sdk = "pinned" => artifact[a] = Pin

\* The version that decides which scenarios an adapter skips is the version that
\* runs, if the last run that set out to build the adapter did so: after one that
\* was stopped before the build, the version is that of the checked-in files,
\* whatever is installed.
VersionIsTheFinishedBuild ==
  \A a \in Indices \ outstanding :
     At("test", a) /\ artifact[a] # None => Version(a) = artifact[a]
=============================================================================
