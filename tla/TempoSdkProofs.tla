--------------------------- MODULE TempoSdkProofs ---------------------------
(* Theorems about TempoSdk, for any adapters, command lines, releases, failures
   and signals.                                                                *)
EXTENDS TempoSdk, TLAPS

SdkTypeOK ==
  /\ adapterAtSdk \in Nat /\ latest \in Nat
  /\ files \in [Indices -> Nat] /\ stash \in [Indices -> Nat]
  /\ artifact \in [Indices -> Nat] /\ built \in [Indices -> Nat]
  /\ backups \in [Indices -> Nat]

Preparing == {"prepare", "resolve", "resolving"}
Testing == {"build", "test"}

\* The loops over the adapters have come to a, or are past it.
Prepared(a) ==
  \/ sdkPc = "prepare" /\ a < adapterAtSdk
  \/ sdkPc \in {"resolve", "resolving"} /\ a <= adapterAtSdk
  \/ sdkPc \in Testing /\ call.build # "no"

Pending(a) ==
  \/ sdkPc = "idle"
  \/ sdkPc \in {"prepare", "resolve"} /\ a >= adapterAtSdk
  \/ sdkPc = "resolving" /\ a > adapterAtSdk
  \/ sdkPc = "restore" /\ a < adapterAtSdk

(* A backup or a stash is always of the checked-in files, and without either
   they are in the working tree. The run that backs files up has no backup of
   them yet and has put back the stash of an earlier one.                      *)
SafePin(a) ==
  /\ backups[a] \in {None, Pin} /\ stash[a] \in {None, Pin}
  /\ backups[a] = None /\ stash[a] = None => files[a] = Pin
  /\ Prepared(a) => stash[a] = None
  /\ Pending(a) => backups[a] = None
  /\ At("resolving", a) => backups[a] = Pin
  /\ sdkPc \in Preparing \cup Testing /\ call.sdk = "pinned" => backups[a] = None
  /\ sdkPc = "resolving" => call.sdk = "latest"
  /\ sdkPc = "idle" => adapterAtSdk = 1
  /\ At("test", a) /\ call.build # "no" /\ call.sdk = "pinned" => artifact[a] = Pin

\* After a run that died with the backup of a, nothing is known of its files.
Kept(a) == a \in forgotten \/ SafePin(a)

(* What is installed is what .sdk-under-test names, but for an adapter that a
   run has prepared and not built yet.                                         *)
Named(a) ==
  /\ At("resolve", a) \/ At("resolving", a) => a \in outstanding
  /\ a \notin outstanding /\ artifact[a] # None => built[a] = artifact[a]

SdkInv == SdkTypeOK /\ \A a \in Indices : Kept(a) /\ Named(a)

\* The invariant holds before the first run.
LEMMA SdkInitInv == SdkInit => SdkInv
<1> SUFFICES ASSUME SdkInit PROVE SdkInv
  OBVIOUS
<1>1. /\ \A n \in Nat : /\ Every(n) \in [Indices -> Nat]
                       /\ \A a \in Indices : Every(n)[a] = n
      /\ Pin \in Nat /\ None \in Nat /\ Pin + 1 \in Nat
  BY DEF Every, Pin, None
<1>2. SdkTypeOK
  BY <1>1 DEF SdkInit, SdkTypeOK
<1>3. ASSUME NEW a \in Indices PROVE Kept(a) /\ Named(a)
  <2>1. /\ files[a] = Pin /\ stash[a] = None /\ artifact[a] = None /\ backups[a] = None
        /\ sdkPc = "idle" /\ adapterAtSdk = 1
    BY <1>1 DEF SdkInit
  <2> QED BY <2>1 DEF Kept, SafePin, Named, Prepared, At, Preparing, Testing
<1> QED BY <1>2, <1>3 DEF SdkInv

\* Putting a backup back keeps the types.
LEMMA RestoredTypes ==
  ASSUME SdkTypeOK, NEW a \in Indices, Restored(a)
  PROVE  files' \in [Indices -> Nat] /\ backups' \in [Indices -> Nat]
<1>1. None \in Nat /\ files[a] \in Nat /\ backups[a] \in Nat
  BY DEF SdkTypeOK, None
<1>2. (IF backups[a] = None THEN files[a] ELSE backups[a]) \in Nat
  BY <1>1
<1> QED BY <1>1, <1>2 DEF Restored, SdkTypeOK

\* The index of an adapter, as a number.
LEMMA Bounds ==
  ASSUME NEW a \in Indices
  PROVE  a \in Nat /\ 1 <= a /\ a <= Len(SdkAdapters) /\ Len(SdkAdapters) \in Nat
  BY SdkAssumption DEF Indices

\* One lemma per step of an adapter: the steps before the build.
LEMMA PrepareStep ==
  ASSUME SdkInv, NEW a \in Indices, Prepare(a)
  PROVE  SdkInv'
<1>1. /\ sdkPc = "prepare" /\ adapterAtSdk = a
      /\ sdkPc' = "resolve" /\ adapterAtSdk' = adapterAtSdk
      /\ \A b \in Indices :
            files'[b] = IF b = a /\ stash[a] # None THEN stash[a] ELSE files[b]
      /\ \A b \in Indices : stash'[b] = IF b = a THEN None ELSE stash[b]
      /\ outstanding' = outstanding \cup {a}
      /\ \A b \in Indices : b # a => built'[b] = built[b]
      /\ UNCHANGED <<call, artifact, backups, forgotten>>
  BY DEF Prepare, SdkInv, SdkTypeOK, At, RestoreStashed
<1>2. SdkTypeOK'
  BY SdkAssumption DEF SdkInv, SdkTypeOK, None, Prepare, RestoreStashed
<1>3. ASSUME NEW b \in Indices PROVE Kept(b)'
  <2>1. SdkTypeOK /\ Kept(b)
    BY DEF SdkInv
  <2> QED BY <1>1, <2>1, Bounds DEF SdkTypeOK, Kept, SafePin, Prepared, Pending, At, Preparing,
         Testing, Pin, None
<1>4. ASSUME NEW b \in Indices PROVE Named(b)'
  <2>1. SdkTypeOK /\ Named(a) /\ Named(b)
    BY DEF SdkInv
  <2> QED BY <1>1, <2>1, Bounds DEF SdkTypeOK, Named, At
<1> QED BY <1>2, <1>3, <1>4 DEF SdkInv

LEMMA StayPinnedStep ==
  ASSUME SdkInv, NEW a \in Indices, StayPinned(a)
  PROVE  SdkInv'
<1>1. /\ sdkPc = "resolve" /\ adapterAtSdk = a
      /\ IF adapterAtSdk = Len(SdkAdapters) THEN sdkPc' = "build" /\ adapterAtSdk' = 1
         ELSE sdkPc' = "prepare" /\ adapterAtSdk' = adapterAtSdk + 1
      /\ call.sdk = "pinned"
      /\ UNCHANGED <<call, files, stash, artifact, built, backups, outstanding, forgotten>>
  BY DEF StayPinned, SdkInv, SdkTypeOK, At, Advance, diskVars
<1>2. SdkTypeOK'
  BY SdkAssumption DEF SdkInv, SdkTypeOK, None, StayPinned, Advance, diskVars
<1>3. ASSUME NEW b \in Indices PROVE Kept(b)'
  <2>1. SdkTypeOK /\ Kept(b)
    BY DEF SdkInv
  <2> QED BY <1>1, <2>1, Bounds DEF SdkTypeOK, Kept, SafePin, Prepared, Pending, At, Preparing,
         Testing, Pin, None
<1>4. ASSUME NEW b \in Indices PROVE Named(b)'
  <2>1. SdkTypeOK /\ Named(a) /\ Named(b)
    BY DEF SdkInv
  <2> QED BY <1>1, <2>1, Bounds DEF SdkTypeOK, Named, At
<1> QED BY <1>2, <1>3, <1>4 DEF SdkInv

LEMMA BackUpStep ==
  ASSUME SdkInv, NEW a \in Indices, BackUp(a)
  PROVE  SdkInv'
<1>1. /\ sdkPc = "resolve" /\ adapterAtSdk = a
      /\ sdkPc' = "resolving" /\ adapterAtSdk' = adapterAtSdk
      /\ call.sdk = "latest"
      /\ \A b \in Indices : backups'[b] = IF b = a THEN files[a] ELSE backups[b]
      /\ UNCHANGED <<call, files, stash, artifact, built, outstanding, forgotten>>
  BY DEF BackUp, SdkInv, SdkTypeOK, At, diskVars
<1>2. SdkTypeOK'
  BY SdkAssumption DEF SdkInv, SdkTypeOK, None, BackUp, diskVars
<1>3. ASSUME NEW b \in Indices PROVE Kept(b)'
  <2>1. SdkTypeOK /\ Kept(b)
    BY DEF SdkInv
  <2> QED BY <1>1, <2>1, Bounds DEF SdkTypeOK, Kept, SafePin, Prepared, Pending, At, Preparing,
         Testing, Pin, None
<1>4. ASSUME NEW b \in Indices PROVE Named(b)'
  <2>1. SdkTypeOK /\ Named(a) /\ Named(b)
    BY DEF SdkInv
  <2> QED BY <1>1, <2>1, Bounds DEF SdkTypeOK, Named, At
<1> QED BY <1>2, <1>3, <1>4 DEF SdkInv

LEMMA ResolvedStep ==
  ASSUME SdkInv, NEW a \in Indices, Resolved(a)
  PROVE  SdkInv'
<1>1. /\ sdkPc = "resolving" /\ adapterAtSdk = a
      /\ IF adapterAtSdk = Len(SdkAdapters) THEN sdkPc' = "build" /\ adapterAtSdk' = 1
         ELSE sdkPc' = "prepare" /\ adapterAtSdk' = adapterAtSdk + 1
      /\ \A b \in Indices : b # a => files'[b] = files[b] /\ artifact'[b] = artifact[b]
      /\ UNCHANGED <<call, stash, built, backups, outstanding, forgotten>>
  BY DEF Resolved, SdkInv, SdkTypeOK, At, Advance
<1>2. SdkTypeOK'
  BY SdkAssumption DEF SdkInv, SdkTypeOK, None, Resolved, Advance
<1>3. ASSUME NEW b \in Indices PROVE Kept(b)'
  <2>1. SdkTypeOK /\ Kept(b)
    BY DEF SdkInv
  <2> QED BY <1>1, <2>1, Bounds DEF SdkTypeOK, Kept, SafePin, Prepared, Pending, At, Preparing,
         Testing, Pin, None
<1>4. ASSUME NEW b \in Indices PROVE Named(b)'
  <2>1. SdkTypeOK /\ Named(a) /\ Named(b)
    BY DEF SdkInv
  <2> QED BY <1>1, <2>1, Bounds DEF SdkTypeOK, Named, At
<1> QED BY <1>2, <1>3, <1>4 DEF SdkInv

LEMMA ResolveFailsStep ==
  ASSUME SdkInv, NEW a \in Indices, ResolveFails(a)
  PROVE  SdkInv'
<1>1. /\ sdkPc = "resolving" /\ adapterAtSdk = a
      /\ IF adapterAtSdk = Len(SdkAdapters) THEN sdkPc' = "build" /\ adapterAtSdk' = 1
         ELSE sdkPc' = "prepare" /\ adapterAtSdk' = adapterAtSdk + 1
      /\ \A b \in Indices :
            files'[b] = IF b = a /\ backups[a] # None THEN backups[a] ELSE files[b]
      /\ \A b \in Indices : backups'[b] = IF b = a THEN None ELSE backups[b]
      /\ \A b \in Indices : b # a => artifact'[b] = artifact[b]
      /\ UNCHANGED <<call, stash, built, latest, outstanding, forgotten>>
  BY DEF ResolveFails, SdkInv, SdkTypeOK, At, Advance, Restored
<1>2. SdkTypeOK'
  <2>1. SdkTypeOK /\ (IF a \in Npm THEN latest ELSE artifact[a]) \in Nat
    BY DEF SdkInv, SdkTypeOK
  <2>2. artifact' \in [Indices -> Nat]
    BY <2>1 DEF ResolveFails, SdkTypeOK
  <2>3. files' \in [Indices -> Nat] /\ backups' \in [Indices -> Nat]
    BY <2>1, RestoredTypes DEF ResolveFails
  <2>4. adapterAtSdk' \in Nat
    BY <1>1, <2>1, Bounds DEF SdkTypeOK
  <2> QED BY <1>1, <2>1, <2>2, <2>3, <2>4 DEF SdkTypeOK
<1>3. ASSUME NEW b \in Indices PROVE Kept(b)'
  <2>1. SdkTypeOK /\ Kept(b)
    BY DEF SdkInv
  <2> QED BY <1>1, <2>1, Bounds DEF SdkTypeOK, Kept, SafePin, Prepared, Pending, At, Preparing,
         Testing, Pin, None
<1>4. ASSUME NEW b \in Indices PROVE Named(b)'
  <2>1. SdkTypeOK /\ Named(a) /\ Named(b)
    BY DEF SdkInv
  <2> QED BY <1>1, <2>1, Bounds DEF SdkTypeOK, Named, At
<1> QED BY <1>2, <1>3, <1>4 DEF SdkInv

\* The build and the tests.
LEMMA BuildStep ==
  ASSUME SdkInv, NEW a \in Indices, Build(a)
  PROVE  SdkInv'
<1>1. /\ sdkPc = "build" /\ adapterAtSdk = a
      /\ call.build # "no"
      /\ IF call.build = "only"
         THEN IF adapterAtSdk = Len(SdkAdapters) THEN sdkPc' = "restore" /\ adapterAtSdk' = 1
              ELSE sdkPc' = "build" /\ adapterAtSdk' = adapterAtSdk + 1
         ELSE sdkPc' = "test" /\ adapterAtSdk' = adapterAtSdk
      /\ \A b \in Indices : artifact'[b] = IF b = a THEN files[a] ELSE artifact[b]
      /\ \A b \in Indices : built'[b] = IF b = a THEN files[a] ELSE built[b]
      /\ outstanding' = outstanding \ {a}
      /\ UNCHANGED <<call, files, stash, backups, forgotten>>
  BY DEF Build, SdkInv, SdkTypeOK, At, Advance, AfterBuild, Recorded
<1>2. SdkTypeOK'
  BY SdkAssumption DEF SdkInv, SdkTypeOK, None, Build, Advance, AfterBuild, Recorded
<1>3. ASSUME NEW b \in Indices PROVE Kept(b)'
  <2>1. SdkTypeOK /\ Kept(b)
    BY DEF SdkInv
  <2> QED BY <1>1, <2>1, Bounds DEF SdkTypeOK, Kept, SafePin, Prepared, Pending, At, Preparing,
         Testing, Pin, None
<1>4. ASSUME NEW b \in Indices PROVE Named(b)'
  <2>1. SdkTypeOK /\ Named(a) /\ Named(b)
    BY DEF SdkInv
  <2> QED BY <1>1, <2>1, Bounds DEF SdkTypeOK, Named, At
<1> QED BY <1>2, <1>3, <1>4 DEF SdkInv

LEMMA BuildFailsStep ==
  ASSUME SdkInv, NEW a \in Indices, BuildFails(a)
  PROVE  SdkInv'
<1>1. /\ sdkPc = "build" /\ adapterAtSdk = a
      /\ call.build # "no"
      /\ \/ /\ sdkPc' = sdkPc /\ adapterAtSdk' = adapterAtSdk
            /\ \A b \in Indices : /\ files'[b] = IF b = a /\ backups[a] # None THEN backups[a]
                                                ELSE files[b]
                                  /\ backups'[b] = IF b = a THEN None ELSE backups[b]
         \/ sdkPc' = "restore" /\ adapterAtSdk' = 1 /\ UNCHANGED <<files, backups>>
      /\ UNCHANGED <<call, stash, artifact, built, latest, outstanding, forgotten>>
  BY DEF BuildFails, SdkInv, SdkTypeOK, At, Restored
<1>2. SdkTypeOK'
  <2>1. SdkTypeOK
    BY DEF SdkInv
  <2>2. Restored(a) \/ UNCHANGED <<files, backups>>
    BY DEF BuildFails
  <2>3. files' \in [Indices -> Nat] /\ backups' \in [Indices -> Nat]
    BY <2>1, <2>2, RestoredTypes DEF SdkTypeOK
  <2>4. adapterAtSdk' \in Nat
    BY <1>1, <2>1 DEF SdkTypeOK
  <2> QED BY <1>1, <2>1, <2>3, <2>4 DEF SdkTypeOK
<1>3. ASSUME NEW b \in Indices PROVE Kept(b)'
  <2>1. SdkTypeOK /\ Kept(b)
    BY DEF SdkInv
  <2> QED BY <1>1, <2>1, Bounds DEF SdkTypeOK, Kept, SafePin, Prepared, Pending, At, Preparing,
         Testing, Pin, None
<1>4. ASSUME NEW b \in Indices PROVE Named(b)'
  <2>1. SdkTypeOK /\ Named(a) /\ Named(b)
    BY DEF SdkInv
  <2> QED BY <1>1, <2>1, Bounds DEF SdkTypeOK, Named, At
<1> QED BY <1>2, <1>3, <1>4 DEF SdkInv

LEMMA SkipBuildStep ==
  ASSUME SdkInv, NEW a \in Indices, SkipBuild(a)
  PROVE  SdkInv'
<1>1. /\ sdkPc = "build" /\ adapterAtSdk = a
      /\ call.build = "no"
      /\ sdkPc' = "test" /\ adapterAtSdk' = adapterAtSdk
      /\ UNCHANGED <<call, files, stash, artifact, built, backups, outstanding, forgotten>>
  BY DEF SkipBuild, SdkInv, SdkTypeOK, At, diskVars
<1>2. SdkTypeOK'
  BY SdkAssumption DEF SdkInv, SdkTypeOK, None, SkipBuild, diskVars
<1>3. ASSUME NEW b \in Indices PROVE Kept(b)'
  <2>1. SdkTypeOK /\ Kept(b)
    BY DEF SdkInv
  <2> QED BY <1>1, <2>1, Bounds DEF SdkTypeOK, Kept, SafePin, Prepared, Pending, At, Preparing,
         Testing, Pin, None
<1>4. ASSUME NEW b \in Indices PROVE Named(b)'
  <2>1. SdkTypeOK /\ Named(a) /\ Named(b)
    BY DEF SdkInv
  <2> QED BY <1>1, <2>1, Bounds DEF SdkTypeOK, Named, At
<1> QED BY <1>2, <1>3, <1>4 DEF SdkInv

LEMMA TestStep ==
  ASSUME SdkInv, NEW a \in Indices, Test(a)
  PROVE  SdkInv'
<1>1. /\ sdkPc = "test" /\ adapterAtSdk = a
      /\ IF adapterAtSdk = Len(SdkAdapters) THEN sdkPc' = "restore" /\ adapterAtSdk' = 1
         ELSE sdkPc' = "build" /\ adapterAtSdk' = adapterAtSdk + 1
      /\ UNCHANGED <<call, files, stash, artifact, built, backups, outstanding, forgotten>>
  BY DEF Test, SdkInv, SdkTypeOK, At, Advance, diskVars
<1>2. SdkTypeOK'
  BY SdkAssumption DEF SdkInv, SdkTypeOK, None, Test, Advance, diskVars
<1>3. ASSUME NEW b \in Indices PROVE Kept(b)'
  <2>1. SdkTypeOK /\ Kept(b)
    BY DEF SdkInv
  <2> QED BY <1>1, <2>1, Bounds DEF SdkTypeOK, Kept, SafePin, Prepared, Pending, At, Preparing,
         Testing, Pin, None
<1>4. ASSUME NEW b \in Indices PROVE Named(b)'
  <2>1. SdkTypeOK /\ Named(a) /\ Named(b)
    BY DEF SdkInv
  <2> QED BY <1>1, <2>1, Bounds DEF SdkTypeOK, Named, At
<1> QED BY <1>2, <1>3, <1>4 DEF SdkInv

\* The end of a run.
LEMMA RestoreStep ==
  ASSUME SdkInv, NEW a \in Indices, RestoreAdapter(a)
  PROVE  SdkInv'
<1>1. /\ sdkPc = "restore" /\ adapterAtSdk = a
      /\ IF adapterAtSdk = Len(SdkAdapters) THEN sdkPc' = "idle" /\ adapterAtSdk' = 1
         ELSE sdkPc' = "restore" /\ adapterAtSdk' = adapterAtSdk + 1
      /\ \A b \in Indices : backups'[b] = IF b = a THEN None ELSE backups[b]
      /\ \/ /\ backups[a] # None /\ UNCHANGED files
            /\ \A b \in Indices : stash'[b] = IF b = a THEN backups[a] ELSE stash[b]
         \/ /\ UNCHANGED stash
            /\ \A b \in Indices :
                  files'[b] = IF b = a /\ backups[a] # None THEN backups[a] ELSE files[b]
      /\ UNCHANGED <<call, artifact, built, latest, outstanding, forgotten>>
  BY DEF RestoreAdapter, SdkInv, SdkTypeOK, At, Advance, Restored
<1>2. SdkTypeOK'
  <2>1. SdkTypeOK
    BY DEF SdkInv
  <2>2. \/ Restored(a) /\ UNCHANGED stash
        \/ /\ stash' = [stash EXCEPT ![a] = backups[a]]
           /\ backups' = [backups EXCEPT ![a] = None]
           /\ UNCHANGED files
    BY Zenon DEF RestoreAdapter
  <2>3. ASSUME Restored(a), UNCHANGED stash
        PROVE  /\ files' \in [Indices -> Nat] /\ backups' \in [Indices -> Nat]
               /\ stash' \in [Indices -> Nat]
    <3>1. files' \in [Indices -> Nat] /\ backups' \in [Indices -> Nat]
      BY <2>1, <2>3, RestoredTypes
    <3> QED BY <2>1, <2>3, <3>1 DEF SdkTypeOK
  <2>4. ASSUME /\ stash' = [stash EXCEPT ![a] = backups[a]]
               /\ backups' = [backups EXCEPT ![a] = None]
               /\ UNCHANGED files
        PROVE  /\ files' \in [Indices -> Nat] /\ backups' \in [Indices -> Nat]
               /\ stash' \in [Indices -> Nat]
    BY <2>1, <2>4 DEF SdkTypeOK, None
  <2>5. adapterAtSdk' \in Nat
    BY <1>1, <2>1, Bounds DEF SdkTypeOK
  <2> QED BY <1>1, <2>1, <2>2, <2>3, <2>4, <2>5 DEF SdkTypeOK
<1>3. ASSUME NEW b \in Indices PROVE Kept(b)'
  <2>1. SdkTypeOK /\ Kept(b)
    BY DEF SdkInv
  <2> QED BY <1>1, <2>1, Bounds DEF SdkTypeOK, Kept, SafePin, Prepared, Pending, At, Preparing,
         Testing, Pin, None
<1>4. ASSUME NEW b \in Indices PROVE Named(b)'
  <2>1. SdkTypeOK /\ Named(a) /\ Named(b)
    BY DEF SdkInv
  <2> QED BY <1>1, <2>1, Bounds DEF SdkTypeOK, Named, At
<1> QED BY <1>2, <1>3, <1>4 DEF SdkInv

\* The steps that are of no adapter.
LEMMA RunStep ==
  ASSUME SdkInv, Release \/ StartRun \/ Terminated \/ UNCHANGED sdkVars
  PROVE  SdkInv'
<1>1. UNCHANGED <<files, stash, artifact, built, backups, outstanding, forgotten>>
  BY DEF Release, StartRun, Terminated, sdkVars, diskVars
<1>2. adapterAtSdk' \in Nat /\ latest' \in Nat
  <2>1. adapterAtSdk' = adapterAtSdk \/ adapterAtSdk' = 1
    BY Zenon DEF Release, StartRun, Terminated, sdkVars
  <2>2. latest' = latest \/ latest' = latest + 1
    BY Zenon DEF Release, StartRun, Terminated, sdkVars
  <2> QED BY <2>1, <2>2 DEF SdkInv, SdkTypeOK
<1>3. SdkTypeOK'
  BY <1>1, <1>2 DEF SdkInv, SdkTypeOK
<1>4. ASSUME NEW b \in Indices PROVE Kept(b)' /\ Named(b)'
  <2>1. SdkTypeOK /\ Kept(b) /\ Named(b)
    BY DEF SdkInv
  <2>2. CASE UNCHANGED <<sdkPc, call, adapterAtSdk>>
    BY <1>1, <2>1, <2>2 DEF Kept, SafePin, Named, Prepared, Pending, At
  <2>3. CASE StartRun
    <3>1. sdkPc = "idle" /\ sdkPc' \in {"prepare", "build"}
          /\ (sdkPc' = "build" => call'.build = "no") /\ adapterAtSdk' = adapterAtSdk
      BY <2>3 DEF StartRun
    <3> QED BY <1>1, <2>1, <3>1, Bounds DEF Kept, SafePin, Named, Prepared, Pending, At, Preparing,
           Testing
  <2>4. CASE Terminated
    <3>1. sdkPc' = "restore" /\ adapterAtSdk' = 1
      BY <2>4 DEF Terminated
    <3> QED BY <1>1, <2>1, <3>1, Bounds DEF Kept, SafePin, Named, Prepared, Pending, At, Preparing,
           Testing
  <2> QED BY <2>2, <2>3, <2>4 DEF Release, sdkVars
<1> QED BY <1>3, <1>4 DEF SdkInv

\* A run dies: the adapters whose backup it held are forgotten.
LEMMA RunDiesStep ==
  ASSUME SdkInv, RunDies
  PROVE  SdkInv'
<1>1. /\ sdkPc' = "idle" /\ adapterAtSdk' = 1 /\ backups' = Every(None)
      /\ forgotten' = forgotten \cup {a \in Indices : backups[a] # None}
      /\ UNCHANGED <<call, files, stash, artifact, built, latest, outstanding>>
  BY DEF RunDies, diskVars
<1>2. /\ backups' \in [Indices -> Nat]
      /\ \A b \in Indices : backups'[b] = None
  BY <1>1 DEF Every, None
<1>3. SdkTypeOK'
  BY <1>1, <1>2 DEF SdkInv, SdkTypeOK
<1>4. ASSUME NEW b \in Indices PROVE Kept(b)'
  <2>1. Kept(b)
    BY DEF SdkInv
  <2>2. b \notin forgotten' => b \notin forgotten /\ backups[b] = None
    BY <1>1
  <2> QED BY <1>1, <1>2, <2>1, <2>2 DEF Kept, SafePin, Prepared, Pending, At, Preparing,
         Testing, Pin, None
<1>5. ASSUME NEW b \in Indices PROVE Named(b)'
  <2>1. Named(b)
    BY DEF SdkInv
  <2> QED BY <1>1, <2>1 DEF Named, At
<1> QED BY <1>3, <1>4, <1>5 DEF SdkInv

\* The invariant holds of every run.
LEMMA SdkInvariance == SdkSpec => []SdkInv
<1>1. SdkInv /\ [SdkNext]_sdkVars => SdkInv'
  BY PrepareStep, StayPinnedStep, BackUpStep, ResolvedStep, ResolveFailsStep, BuildStep,
     BuildFailsStep, SkipBuildStep, TestStep, RestoreStep, RunStep, RunDiesStep
     DEF SdkNext
<1> QED BY <1>1, SdkInitInv, PTL DEF SdkSpec

(* Resolvers and builds may fail and runs may be stopped anywhere: the checked-in
   files of each adapter survive and a run with pinned SDKs tests them, unless a
   run died (was killed, or got a signal while it restored) that held the only
   copy of them in memory.                                                       *)
THEOREM SafePins == SdkSpec => []PinIsNeverLost
<1>1. SdkInv => PinIsNeverLost
  BY DEF SdkInv, Kept, SafePin, PinIsNeverLost, At, None, Pin
<1> QED BY <1>1, SdkInvariance, PTL

(* The version that decides what is skipped is the version that runs.          *)
THEOREM SafeVersions == SdkSpec => []VersionIsTheFinishedBuild
<1>1. SdkInv => VersionIsTheFinishedBuild
  BY DEF SdkInv, Named, VersionIsTheFinishedBuild, Version
<1> QED BY <1>1, SdkInvariance, PTL
=============================================================================
