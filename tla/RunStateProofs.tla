-------------------------- MODULE RunStateProofs ---------------------------
(***************************************************************************)
(* Theorems about RunState for any runs, processes, crashes and bounds:    *)
(* types, locks and shared files; gates before edges; with one process     *)
(* that initialises runs, the lifecycle, which the engine implements.      *)
(***************************************************************************)
EXTENDS RunState, TLAPS

\* What a handler in the middle of its work knows of its own local variables.
JobOK ==
    \A p \in Procs :
        /\ pc[p] # "idle" => job[p].run \in Runs
        /\ pc[p] \in {"tr-gate", "tr-complete", "tr-save"} => job[p].edge \in Edges

TypeInv == TypeOK /\ JobOK

LEMMA EdgeFacts ==
    /\ NoManifest \in Manifests
    /\ \A ph \in InitialPhases : NewManifest(ph) \in Manifests
    /\ \A e \in Edges : e[1] \in Phases /\ e[2] \in Phases /\ CanonicalGates(e) \subseteq Gates
    /\ \A ph \in Phases, to \in Phases \cup {"resolve"} :
         ph \notin TerminalPhases /\ CanonicalTarget(to) \in ValidTransitions[ph]
            => <<ph, CanonicalTarget(to)>> \in Edges
<1>1. NoManifest \in Manifests /\ \A ph \in InitialPhases : NewManifest(ph) \in Manifests
  <2>1. <<>> \in Seq(HistoryEntries)
    OBVIOUS
  <2>2. \A ph \in InitialPhases : ph \in Phases
    BY DEF InitialPhases, Phases, LifecyclePhases
  <2>3. \A ph \in InitialPhases : NewManifest(ph) \in Manifests
    BY <2>1, <2>2 DEF NewManifest, Manifests
  <2>4. NewManifest("triage") \in Manifests
    BY <2>3 DEF InitialPhases
  <2>5. NoManifest \in Manifests
    BY <2>4 DEF NoManifest, Manifests
  <2>6. QED BY <2>3, <2>5
<1>2. \A e \in Edges : e[1] \in Phases /\ e[2] \in Phases /\ CanonicalGates(e) \subseteq Gates
  BY DEF Edges, CanonicalGates, Gates
<1>3. ASSUME NEW ph \in Phases, NEW to \in Phases \cup {"resolve"}, ph \notin TerminalPhases,
             CanonicalTarget(to) \in ValidTransitions[ph]
      PROVE  <<ph, CanonicalTarget(to)>> \in Edges
  <2>1. ph \in LifecyclePhases
    BY <1>3 DEF Phases, TerminalPhases
  <2>2. CanonicalTarget(to) \in Phases
    BY DEF CanonicalTarget, Phases, LifecyclePhases
  <2>3. QED BY <1>3, <2>1, <2>2 DEF Edges
<1>4. QED BY <1>1, <1>2, <1>3

\* A manifest stays a manifest along the changes handlers make to it.
LEMMA ManifestTypes ==
    ASSUME NEW m \in Manifests
    PROVE  /\ \A e \in Edges : Advanced(m, e) \in Manifests
           /\ Aborted(m) \in Manifests
           /\ \A f \in Fields : [m EXCEPT !.fields = @ \cup {f}] \in Manifests
           /\ [m EXCEPT !.status = "resolved", !.finalized = TRUE] \in Manifests
<1>1. ASSUME NEW e \in Edges PROVE Advanced(m, e) \in Manifests
  <2>1. e \in HistoryEntries /\ e[2] \in Phases
    BY EdgeFacts DEF HistoryEntries
  <2>2. Append(m.history, e) \in Seq(HistoryEntries)
    BY <2>1 DEF Manifests
  <2>3. QED BY <2>1, <2>2 DEF Advanced, Manifests
<1>2. Aborted(m) \in Manifests
  <2>1. Append(m.history, <<m.phase, "aborted">>) \in Seq(HistoryEntries)
    BY DEF Manifests, HistoryEntries
  <2>2. QED BY <2>1 DEF Aborted, Manifests
<1>3. QED BY <1>1, <1>2 DEF Manifests

LEMMA TypeInit == Init => TypeInv
  BY EdgeFacts, RunStateAssumption
  DEF Init, TypeInv, TypeOK, JobOK, Jobs, NoJob, Labels

-----------------------------------------------------------------------------
(***************************************************************************)
(* Type correctness.  First what the three control operators preserve.     *)
(***************************************************************************)
InTransition == {"tr-gate", "tr-complete", "tr-save"}

ControlInv == pc \in [Procs -> Labels] /\ job \in [Procs -> Jobs] /\ JobOK

\* A handler starts on a run, with the edge it will cross if it is a transition.
LEMMA StartTypes ==
    ASSUME ControlInv, NEW p \in Procs, NEW label \in Labels, NEW j \in Jobs,
           j.run \in Runs, label \in InTransition => j.edge \in Edges,
           Start(p, label, j)
    PROVE  ControlInv'
  BY DEF ControlInv, JobOK, Start, Goto, InTransition

\* A handler that moves on keeps the run and the edge it has.
LEMMA GotoTypes ==
    ASSUME ControlInv, NEW p \in Procs, NEW label \in Labels, pc[p] # "idle",
           label \in InTransition => pc[p] \in InTransition,
           Goto(p, label), job' = job
    PROVE  ControlInv'
  BY DEF ControlInv, JobOK, Goto, InTransition

\* A handler that reads the pointer or the registry moves on with what it read.
LEMMA ReadTypes ==
    ASSUME ControlInv, NEW p \in Procs, NEW label \in Labels, pc[p] # "idle",
           label \notin InTransition, Goto(p, label),
           \/ \E v \in Runs \cup {NoFile, Unnamed} : job' = [job EXCEPT ![p].ptr = v]
           \/ \E v \in SUBSET Runs : job' = [job EXCEPT ![p].reg = v]
    PROVE  ControlInv'
  BY DEF ControlInv, JobOK, Goto, InTransition, Jobs

LEMMA ReturnTypes ==
    ASSUME ControlInv, NEW p \in Procs, Return(p)
    PROVE  ControlInv'
  BY EdgeFacts DEF ControlInv, JobOK, Return, Goto, Labels, NoJob, Jobs

\* The local variables handlers start with.
LEMMA JobTypes ==
    ASSUME NEW r \in Runs, NEW m \in Manifests
    PROVE  /\ [NoJob EXCEPT !.run = r] \in Jobs
           /\ [NoJob EXCEPT !.run = r].run = r
           /\ [NoJob EXCEPT !.run = r, !.man = m] \in Jobs
           /\ [NoJob EXCEPT !.run = r, !.man = m].run = r
           /\ \A e \in Edges :
                 LET j == [NoJob EXCEPT !.run = r, !.man = m, !.edge = e] IN
                 j \in Jobs /\ j.run = r /\ j.edge = e
  BY EdgeFacts DEF NoJob, Jobs

\* What the steps of a handler leave of the shared files.
FilesInv ==
    /\ manifest \in [Runs -> Manifests]
    /\ passed \in [Runs -> SUBSET Gates]
    /\ pointer \in Runs \cup {NoFile, Unnamed}
    /\ registry \in SUBSET Runs
    /\ pointerReadable \in BOOLEAN /\ registryReadable \in BOOLEAN

LocksInv ==
    /\ runLock \in [Runs -> Procs \cup {NoProc}]
    /\ pointerLock \in Procs \cup {NoProc} /\ registryLock \in Procs \cup {NoProc}

LEMMA TypeParts == TypeInv <=> FilesInv /\ LocksInv /\ ControlInv /\ swept \in SUBSET Runs
  BY DEF TypeInv, TypeOK, FilesInv, LocksInv, ControlInv

LEMMA TypePartsPrimed ==
    FilesInv' /\ LocksInv' /\ ControlInv' /\ (swept \in SUBSET Runs)' => TypeInv'
  BY DEF TypeInv, TypeOK, FilesInv, LocksInv, ControlInv

LEMMA FilesSame == ASSUME FilesInv, UNCHANGED files PROVE FilesInv'
  BY DEF FilesInv, files

LEMMA LocksSame == ASSUME LocksInv, UNCHANGED locks PROVE LocksInv'
  BY DEF LocksInv, locks

\* Taking and freeing one lock, the others unchanged.
LEMMA RunLockTypes ==
    ASSUME LocksInv, NEW p \in Procs, UNCHANGED <<pointerLock, registryLock>>,
           (\E r \in Runs : LockRun(p, r)) \/ UnlockRun(p)
    PROVE  LocksInv'
  BY DEF LocksInv, LockRun, UnlockRun

LEMMA PointerLockTypes ==
    ASSUME LocksInv, NEW p \in Procs, UNCHANGED <<runLock, registryLock>>,
           LockPointer(p) \/ UnlockPointer
    PROVE  LocksInv'
  BY DEF LocksInv, LockPointer, UnlockPointer

LEMMA RegistryLockTypes ==
    ASSUME LocksInv, NEW p \in Procs, pointerLock' = pointerLock,
           UNCHANGED runLock \/ UnlockRun(p), LockRegistry(p) \/ UnlockRegistry
    PROVE  LocksInv'
  BY DEF LocksInv, LockRegistry, UnlockRegistry, UnlockRun

LEMMA SaveTypes ==
    ASSUME FilesInv, NEW p \in Procs, NEW m \in Manifests, SaveManifest(p, m),
           UNCHANGED <<passed, pointer, pointerReadable, registry, registryReadable>>
    PROVE  FilesInv'
  BY DEF FilesInv, SaveManifest

LEMMA RecordTypes ==
    ASSUME FilesInv, NEW r \in Runs, NEW g \in Gates, Record(r, g),
           UNCHANGED <<manifest, pointer, pointerReadable, registry, registryReadable>>
    PROVE  FilesInv'
  BY DEF FilesInv, Record

-----------------------------------------------------------------------------
\* One lemma per handler: each of its steps preserves the types.
LEMMA InitTypes ==
    ASSUME TypeInv, NEW p \in Procs,
           (\E r \in Runs : InitCheck(p, r)) \/ InitSave(p) \/ InitPointerLock(p) \/ InitSeed(p)
    PROVE  TypeInv'
<1>0. FilesInv /\ LocksInv /\ ControlInv /\ swept \in SUBSET Runs
  BY TypeParts
<1>1. CASE \E r \in Runs : InitCheck(p, r)
  <2>1. PICK r \in Runs, ph \in InitialPhases :
           Start(p, "in-save", [NoJob EXCEPT !.run = r, !.man = NewManifest(ph)])
           /\ UNCHANGED <<files, locks, swept>>
    BY <1>1 DEF InitCheck
  <2>2. ControlInv'
    <3> DEFINE j == [NoJob EXCEPT !.run = r, !.man = NewManifest(ph)]
    <3>1. j \in Jobs /\ j.run \in Runs
      BY JobTypes, EdgeFacts
    <3>2. "in-save" \in Labels /\ "in-save" \notin InTransition /\ Start(p, "in-save", j)
      BY <2>1 DEF Labels, InTransition
    <3> HIDE DEF j
    <3>3. QED BY <1>0, <3>1, <3>2, StartTypes
  <2>3. QED BY <1>0, <2>1, <2>2, FilesSame, LocksSame, TypePartsPrimed
<1>2. CASE InitSave(p)
  <2>1. FilesInv'
    <3>1. job[p].man \in Manifests
      BY <1>0 DEF ControlInv, Jobs
    <3>2. QED BY <1>0, <1>2, <3>1, SaveTypes DEF InitSave
  <2>2. ControlInv'
    BY <1>0, <1>2, GotoTypes DEF InitSave, Labels, InTransition
  <2>3. QED BY <1>0, <1>2, <2>1, <2>2, LocksSame, TypePartsPrimed DEF InitSave
<1>3. CASE InitPointerLock(p)
  <2>1. ControlInv'
    <3>1. pointer \in Runs \cup {NoFile, Unnamed}
      BY <1>0 DEF FilesInv
    <3>2. QED BY <1>0, <1>3, <3>1, ReadTypes DEF InitPointerLock, Labels, InPointerLock, InTransition
  <2>2. QED BY <1>0, <1>3, <2>1, FilesSame, PointerLockTypes, TypePartsPrimed DEF InitPointerLock
<1>4. CASE InitSeed(p)
  <2>1. FilesInv'
    BY <1>0, <1>4 DEF InitSeed, FilesInv, ControlInv, JobOK
  <2>2. QED BY <1>0, <1>4, <2>1, ReturnTypes, PointerLockTypes, TypePartsPrimed DEF InitSeed
<1>5. QED BY <1>1, <1>2, <1>3, <1>4

LEMMA TransitionTypes ==
    ASSUME TypeInv, NEW p \in Procs,
           \/ \E r \in Runs, to \in Phases \cup {"resolve"} : TransitionLoad(p, r, to)
           \/ GateBlocks(p) \/ GatePasses(p) \/ RecordTriageComplete(p) \/ TransitionSave(p)
    PROVE  TypeInv'
<1>0. FilesInv /\ LocksInv /\ ControlInv /\ swept \in SUBSET Runs
  BY TypeParts
<1>1. CASE \E r \in Runs, to \in Phases \cup {"resolve"} : TransitionLoad(p, r, to)
  <2>1. PICK r \in Runs, to \in Phases \cup {"resolve"} : TransitionLoad(p, r, to)
    BY <1>1
  <2> DEFINE e == <<manifest[r].phase, CanonicalTarget(to)>>
  <2>2. manifest[r] \in Manifests /\ manifest[r].phase \in Phases
    BY <1>0 DEF FilesInv, Manifests
  <2>3. e \in Edges
    BY <2>1, <2>2, EdgeFacts DEF TransitionLoad, MayTransition
  <2>4. ControlInv'
    <3> DEFINE j == [NoJob EXCEPT !.run = r, !.man = manifest[r], !.edge = e]
    <3>1. "tr-gate" \in Labels /\ Start(p, "tr-gate", j)
      BY <2>1 DEF TransitionLoad, Labels, InRunLock
    <3> HIDE DEF e
    <3>2. j \in Jobs /\ j.run \in Runs /\ j.edge \in Edges
      BY <2>2, <2>3, JobTypes
    <3> HIDE DEF j
    <3>3. QED BY <1>0, <3>1, <3>2, StartTypes
  <2>5. LocksInv'
    BY <1>0, <2>1, RunLockTypes DEF TransitionLoad
  <2>6. UNCHANGED <<files, swept>>
    BY <2>1 DEF TransitionLoad
  <2>7. QED BY <1>0, <2>4, <2>5, <2>6, FilesSame, TypePartsPrimed
<1>2. CASE GateBlocks(p)
  BY <1>0, <1>2, FilesSame, RunLockTypes, ReturnTypes, TypePartsPrimed DEF GateBlocks
<1>3. CASE GatePasses(p)
  <2>1. job[p].run \in Runs /\ job[p].edge \in Edges
    BY <1>0, <1>3 DEF ControlInv, JobOK, GatePasses
  <2>2. FilesInv'
    <3>1. job[p].edge \in Gates
      BY <2>1 DEF Gates
    <3>2. QED BY <1>0, <1>3, <2>1, <3>1, RecordTypes DEF GatePasses
  <2>3. ControlInv'
    BY <1>0, <1>3, GotoTypes DEF GatePasses, Labels, InRunLock, InTransition
  <2>4. QED BY <1>0, <1>3, <2>2, <2>3, LocksSame, TypePartsPrimed DEF GatePasses
<1>4. CASE RecordTriageComplete(p)
  <2>1. job[p].run \in Runs
    BY <1>0, <1>4 DEF ControlInv, JobOK, RecordTriageComplete
  <2>2. FilesInv'
    <3>1. TriageComplete \in Gates
      BY DEF Gates
    <3>2. QED BY <1>0, <1>4, <2>1, <3>1, RecordTypes DEF RecordTriageComplete
  <2>3. ControlInv'
    BY <1>0, <1>4, GotoTypes DEF RecordTriageComplete, Labels, InRunLock, InTransition
  <2>4. QED BY <1>0, <1>4, <2>2, <2>3, LocksSame, TypePartsPrimed DEF RecordTriageComplete
<1>5. CASE TransitionSave(p)
  <2>1. Advanced(job[p].man, job[p].edge) \in Manifests
    BY <1>0, <1>5, ManifestTypes DEF ControlInv, JobOK, Jobs, TransitionSave
  <2>2. FilesInv'
    BY <1>0, <1>5, <2>1, SaveTypes DEF TransitionSave
  <2>3. QED BY <1>0, <1>5, <2>2, RunLockTypes, ReturnTypes, TypePartsPrimed DEF TransitionSave
<1>6. QED BY <1>1, <1>2, <1>3, <1>4, <1>5

LEMMA UpdateTypes ==
    ASSUME TypeInv, NEW p \in Procs,
           (\E r \in Runs, f \in Fields : UpdateLoad(p, r, f)) \/ UpdateSave(p)
    PROVE  TypeInv'
<1>0. FilesInv /\ LocksInv /\ ControlInv /\ swept \in SUBSET Runs
  BY TypeParts
<1>1. CASE \E r \in Runs, f \in Fields : UpdateLoad(p, r, f)
  <2>1. PICK r \in Runs, f \in Fields : UpdateLoad(p, r, f)
    BY <1>1
  <2> DEFINE m == [manifest[r] EXCEPT !.fields = @ \cup {f}]
             j == [NoJob EXCEPT !.run = r, !.man = m]
  <2>2. m \in Manifests
    BY <1>0, ManifestTypes DEF FilesInv
  <2>3. Start(p, "up-save", j)
    BY <2>1 DEF UpdateLoad
  <2> HIDE DEF m
  <2>4. j \in Jobs /\ j.run \in Runs
    BY <2>2, JobTypes
  <2>5. "up-save" \in Labels /\ "up-save" \notin InTransition
    BY DEF Labels, InRunLock, InTransition
  <2> HIDE DEF j
  <2>6. ControlInv'
    BY <1>0, <2>3, <2>4, <2>5, StartTypes
  <2>7. LocksInv'
    BY <1>0, <2>1, RunLockTypes DEF UpdateLoad
  <2>8. UNCHANGED <<files, swept>>
    BY <2>1 DEF UpdateLoad
  <2>9. QED BY <1>0, <2>6, <2>7, <2>8, FilesSame, TypePartsPrimed
<1>2. CASE UpdateSave(p)
  <2>1. job[p].man \in Manifests
    BY <1>0 DEF ControlInv, Jobs
  <2>2. FilesInv'
    BY <1>0, <1>2, <2>1, SaveTypes DEF UpdateSave
  <2>3. QED BY <1>0, <1>2, <2>2, RunLockTypes, ReturnTypes, TypePartsPrimed DEF UpdateSave
<1>3. QED BY <1>1, <1>2

LEMMA FinalizeTypes ==
    ASSUME TypeInv, NEW p \in Procs,
           \/ \E r \in Runs : FinalizeLoad(p, r)
           \/ FinalizeStamp(p) \/ SweepPasses(p) \/ SweepBlocks(p)
    PROVE  TypeInv'
<1>0. FilesInv /\ LocksInv /\ ControlInv /\ swept \in SUBSET Runs
  BY TypeParts
<1>m. job[p].man \in Manifests
  BY <1>0 DEF ControlInv, Jobs
<1>1. CASE \E r \in Runs : FinalizeLoad(p, r)
  <2>1. PICK r \in Runs : FinalizeLoad(p, r)
    BY <1>1
  <2> DEFINE j == [NoJob EXCEPT !.run = r, !.man = manifest[r]]
  <2>2. j \in Jobs /\ j.run \in Runs
    <3>1. manifest[r] \in Manifests
      BY <1>0 DEF FilesInv
    <3>2. QED BY <3>1, JobTypes
  <2>3. "fi-stamp" \in Labels /\ "fi-stamp" \notin InTransition /\ Start(p, "fi-stamp", j)
    BY <2>1 DEF FinalizeLoad, Labels, InTransition
  <2> HIDE DEF j
  <2>4. ControlInv'
    BY <1>0, <2>2, <2>3, StartTypes
  <2>5. QED BY <1>0, <2>1, <2>4, FilesSame, LocksSame, TypePartsPrimed DEF FinalizeLoad
<1>2. CASE FinalizeStamp(p)
  <2>1. FilesInv'
    BY <1>0, <1>m, <1>2, ManifestTypes, SaveTypes DEF FinalizeStamp
  <2>2. ControlInv'
    BY <1>0, <1>2, GotoTypes DEF FinalizeStamp, Labels, InTransition
  <2>3. QED BY <1>0, <1>2, <2>1, <2>2, LocksSame, TypePartsPrimed DEF FinalizeStamp
<1>3. CASE SweepPasses(p)
  <2>1. (swept \in SUBSET Runs)'
    BY <1>0, <1>3 DEF SweepPasses, ControlInv, JobOK
  <2>2. QED BY <1>0, <1>3, <2>1, FilesSame, LocksSame, ReturnTypes, TypePartsPrimed DEF SweepPasses
<1>4. CASE SweepBlocks(p)
  <2>1. FilesInv'
    BY <1>0, <1>m, <1>4, SaveTypes DEF SweepBlocks
  <2>2. QED BY <1>0, <1>4, <2>1, LocksSame, ReturnTypes, TypePartsPrimed DEF SweepBlocks
<1>5. QED BY <1>1, <1>2, <1>3, <1>4

LEMMA AbortTypes ==
    ASSUME TypeInv, NEW p \in Procs,
           \/ \E r \in Runs : AbortLoad(p, r)
           \/ AbortRecord(p) \/ AbortCommit(p) \/ AbortPointerLock(p) \/ AbortRelease(p)
           \/ AbortRegistryLock(p) \/ AbortDeregister(p) \/ AbortTeardownRaises(p)
    PROVE  TypeInv'
<1>0. FilesInv /\ LocksInv /\ ControlInv /\ swept \in SUBSET Runs
  BY TypeParts
<1>m. job[p].man \in Manifests /\ job[p].reg \in SUBSET Runs
  BY <1>0 DEF ControlInv, Jobs
<1>1. CASE \E r \in Runs : AbortLoad(p, r)
  <2>1. PICK r \in Runs : AbortLoad(p, r)
    BY <1>1
  <2> DEFINE j == [NoJob EXCEPT !.run = r, !.man = manifest[r]]
             label == IF manifest[r].status = "active" THEN "ab-ledger" ELSE "ab-pointer"
  <2>2. j \in Jobs /\ j.run \in Runs
    <3>1. manifest[r] \in Manifests
      BY <1>0 DEF FilesInv
    <3>2. QED BY <3>1, JobTypes
  <2>3. label \in Labels /\ label \notin InTransition /\ Start(p, label, j)
    BY <2>1 DEF AbortLoad, Labels, InRunLock, InTransition
  <2> HIDE DEF j, label
  <2>4. ControlInv'
    BY <1>0, <2>2, <2>3, StartTypes
  <2>5. LocksInv'
    BY <1>0, <2>1, RunLockTypes DEF AbortLoad
  <2>6. UNCHANGED <<files, swept>>
    BY <2>1 DEF AbortLoad
  <2>7. QED BY <1>0, <2>4, <2>5, <2>6, FilesSame, TypePartsPrimed
<1>2. CASE AbortRecord(p)
  <2>1. FilesInv'
    <3>1. AbortGate \in Gates /\ job[p].run \in Runs
      BY <1>0, <1>2 DEF Gates, ControlInv, JobOK, AbortRecord
    <3>2. QED BY <1>0, <1>2, <3>1, RecordTypes DEF AbortRecord
  <2>2. ControlInv'
    BY <1>0, <1>2, GotoTypes DEF AbortRecord, Labels, InRunLock, InTransition
  <2>3. QED BY <1>0, <1>2, <2>1, <2>2, LocksSame, TypePartsPrimed DEF AbortRecord
<1>3. CASE AbortCommit(p)
  <2>1. FilesInv'
    BY <1>0, <1>m, <1>3, ManifestTypes, SaveTypes DEF AbortCommit
  <2>2. ControlInv'
    BY <1>0, <1>3, GotoTypes DEF AbortCommit, Labels, InRunLock, InTransition
  <2>3. QED BY <1>0, <1>3, <2>1, <2>2, LocksSame, TypePartsPrimed DEF AbortCommit
<1>4. CASE AbortPointerLock(p)
  <2>1. ControlInv'
    <3>1. pointer \in Runs \cup {NoFile, Unnamed}
      BY <1>0 DEF FilesInv
    <3>2. QED BY <1>0, <1>4, <3>1, ReadTypes DEF AbortPointerLock, Labels, InRunLock, InTransition
  <2>2. QED BY <1>0, <1>4, <2>1, FilesSame, PointerLockTypes, TypePartsPrimed DEF AbortPointerLock
<1>5. CASE AbortRelease(p)
  <2>1. FilesInv'
    BY <1>0, <1>5 DEF AbortRelease, FilesInv
  <2>2. ControlInv'
    BY <1>0, <1>5, GotoTypes DEF AbortRelease, Labels, InRunLock, InTransition
  <2>3. QED BY <1>0, <1>5, <2>1, <2>2, PointerLockTypes, TypePartsPrimed DEF AbortRelease
<1>6. CASE AbortRegistryLock(p)
  <2>1. ControlInv'
    <3>1. registry \in SUBSET Runs
      BY <1>0 DEF FilesInv
    <3>2. QED BY <1>0, <1>6, <3>1, ReadTypes DEF AbortRegistryLock, Labels, InRunLock, InTransition
  <2>2. QED BY <1>0, <1>6, <2>1, FilesSame, RegistryLockTypes, TypePartsPrimed DEF AbortRegistryLock
<1>7. CASE AbortDeregister(p)
  <2>1. FilesInv'
    BY <1>0, <1>m, <1>7 DEF AbortDeregister, FilesInv
  <2>2. QED BY <1>0, <1>7, <2>1, RegistryLockTypes, ReturnTypes, TypePartsPrimed DEF AbortDeregister
<1>8. CASE AbortTeardownRaises(p)
  BY <1>0, <1>8, FilesSame, RunLockTypes, ReturnTypes, TypePartsPrimed DEF AbortTeardownRaises
<1>9. QED BY <1>1, <1>2, <1>3, <1>4, <1>5, <1>6, <1>7, <1>8

LEMMA SharedToolTypes ==
    ASSUME TypeInv, NEW p \in Procs,
           \/ \E r \in Runs : StateWriteCall(p, r) \/ RegistryCall(p, r)
           \/ \E r \in Runs, g \in HandGates : LedgerAppend(p, r, g)
           \/ StateWriteLock(p) \/ StateWrite(p)
           \/ RegistryRead(p) \/ RegistryRefuse(p) \/ RegistryWrite(p)
    PROVE  TypeInv'
<1>0. FilesInv /\ LocksInv /\ ControlInv /\ swept \in SUBSET Runs
  BY TypeParts
<1>m. job[p].reg \in SUBSET Runs
  BY <1>0 DEF ControlInv, Jobs
<1>1. CASE \E r \in Runs : StateWriteCall(p, r) \/ RegistryCall(p, r)
  <2>1. PICK r \in Runs, label \in {"sw-wait", "rg-wait-register", "rg-wait-deregister"} :
           Start(p, label, [NoJob EXCEPT !.run = r]) /\ UNCHANGED <<files, locks, swept>>
    BY <1>1 DEF StateWriteCall, RegistryCall
  <2> DEFINE j == [NoJob EXCEPT !.run = r]
  <2>2. j \in Jobs /\ j.run \in Runs
    BY JobTypes, EdgeFacts
  <2>3. label \in Labels /\ label \notin InTransition /\ Start(p, label, j)
    BY <2>1 DEF Labels, InTransition
  <2> HIDE DEF j
  <2>4. ControlInv'
    BY <1>0, <2>2, <2>3, StartTypes
  <2>5. QED BY <1>0, <2>1, <2>4, FilesSame, LocksSame, TypePartsPrimed
<1>2. CASE \E r \in Runs, g \in HandGates : LedgerAppend(p, r, g)
  <2>1. PICK r \in Runs, g \in HandGates : LedgerAppend(p, r, g)
    BY <1>2
  <2>2. g \in Gates
    BY RunStateAssumption DEF Gates
  <2>3. FilesInv'
    BY <1>0, <2>1, <2>2, RecordTypes DEF LedgerAppend
  <2>4. ControlInv'
    BY <1>0, <2>1 DEF LedgerAppend, ControlInv, JobOK
  <2>5. QED BY <1>0, <2>1, <2>3, <2>4, LocksSame, TypePartsPrimed DEF LedgerAppend
<1>3. CASE StateWriteLock(p)
  <2>1. ControlInv'
    <3>1. pointer \in Runs \cup {NoFile, Unnamed}
      BY <1>0 DEF FilesInv
    <3>2. QED BY <1>0, <1>3, <3>1, ReadTypes DEF StateWriteLock, Labels, InPointerLock, InTransition
  <2>2. QED BY <1>0, <1>3, <2>1, FilesSame, PointerLockTypes, TypePartsPrimed DEF StateWriteLock
<1>4. CASE StateWrite(p)
  <2>1. FilesInv'
    BY <1>0, <1>4 DEF StateWrite, FilesInv, ControlInv, JobOK
  <2>2. QED BY <1>0, <1>4, <2>1, PointerLockTypes, ReturnTypes, TypePartsPrimed DEF StateWrite
<1>5. CASE RegistryRead(p)
  <2>1. ControlInv'
    <3>1. registry \in SUBSET Runs
      BY <1>0 DEF FilesInv
    <3>2. QED BY <1>0, <1>5, <3>1, ReadTypes DEF RegistryRead, Labels, InRegistryLock, InTransition
  <2>2. QED BY <1>0, <1>5, <2>1, FilesSame, RegistryLockTypes, TypePartsPrimed DEF RegistryRead
<1>6. CASE RegistryRefuse(p)
  BY <1>0, <1>6, FilesSame, LocksSame, ReturnTypes, TypePartsPrimed DEF RegistryRefuse
<1>7. CASE RegistryWrite(p)
  <2>1. FilesInv'
    BY <1>0, <1>m, <1>7 DEF RegistryWrite, FilesInv, ControlInv, JobOK
  <2>2. QED BY <1>0, <1>7, <2>1, RegistryLockTypes, ReturnTypes, TypePartsPrimed DEF RegistryWrite
<1>8. QED BY <1>1, <1>2, <1>3, <1>4, <1>5, <1>6, <1>7

LEMMA EnvironmentTypes ==
    ASSUME TypeInv, OperatorEdit \/ \E p \in Procs : Crash(p)
    PROVE  TypeInv'
<1>0. FilesInv /\ LocksInv /\ ControlInv /\ swept \in SUBSET Runs
  BY TypeParts
<1>1. CASE OperatorEdit
  <2>1. FilesInv'
    BY <1>0, <1>1 DEF OperatorEdit, FilesInv
  <2>2. LocksInv' /\ ControlInv' /\ (swept \in SUBSET Runs)'
    BY <1>0, <1>1, LocksSame DEF OperatorEdit, ControlInv, JobOK
  <2>3. QED BY <2>1, <2>2, TypePartsPrimed
<1>2. CASE \E p \in Procs : Crash(p)
  <2>1. PICK p \in Procs : Crash(p)
    BY <1>2
  <2>2. LocksInv'
    BY <1>0, <2>1 DEF Crash, LocksInv
  <2>3. QED BY <1>0, <2>1, <2>2, FilesSame, ReturnTypes, TypePartsPrimed DEF Crash
<1>3. QED BY <1>1, <1>2

LEMMA TypeStep == TypeInv /\ [Next]_vars => TypeInv'
<1>1. SUFFICES ASSUME TypeInv, [Next]_vars PROVE TypeInv'
  OBVIOUS
<1>2. CASE UNCHANGED vars
  <2>1. UNCHANGED <<files, locks, pc, job, swept>>
    BY <1>2 DEF vars
  <2>2. ControlInv'
    BY <1>1, <2>1 DEF TypeInv, TypeOK, ControlInv, JobOK
  <2>3. QED BY <1>1, <2>1, <2>2, TypeParts, FilesSame, LocksSame, TypePartsPrimed
<1>3. CASE Next
  BY <1>1, <1>3, InitTypes, TransitionTypes, UpdateTypes, FinalizeTypes, AbortTypes,
     SharedToolTypes, EnvironmentTypes DEF Next, Call, Step
<1>4. QED BY <1>1, <1>2, <1>3

\* Whatever the agents call, in whatever interleaving and whoever is killed,
\* the shared files, locks and local variables keep their types: a saved
\* manifest always has a phase and a status of the lifecycle.
THEOREM TypeCorrect == Spec => []TypeOK
<1>1. Init => TypeInv
  BY TypeInit
<1>2. TypeInv /\ [Next]_vars => TypeInv'
  BY TypeStep
<1>3. TypeInv => TypeOK
  BY DEF TypeInv
<1>4. QED BY <1>1, <1>2, <1>3, PTL DEF Spec

-----------------------------------------------------------------------------
(***************************************************************************)
(* The locks.  What process p holds is a matter of where it stands; a step *)
(* of another process touches neither.                                     *)
(***************************************************************************)
Holds(p) ==
    /\ \A r \in Runs : runLock[r] = p <=> pc[p] \in InRunLock /\ job[p].run = r
    /\ pointerLock = p <=> pc[p] \in InPointerLock
    /\ registryLock = p <=> pc[p] \in InRegistryLock

LabelSets == <<InRunLock, InPointerLock, InRegistryLock>>

LEMMA LockFrame ==
    ASSUME LockInv, NEW p \in Procs, Holds(p)',
           \A q \in Procs \ {p} :
              /\ pc'[q] = pc[q] /\ job'[q] = job[q]
              /\ \A r \in Runs : runLock'[r] = q <=> runLock[r] = q
              /\ pointerLock' = q <=> pointerLock = q
              /\ registryLock' = q <=> registryLock = q
    PROVE  LockInv'
  BY DEF LockInv, Holds

LEMMA LocksFree == ASSUME NEW q \in Procs PROVE q # NoProc
  BY RunStateAssumption

\* A step that neither takes nor frees a lock and stays in the same critical
\* sections, or in none.
LEMMA LockQuiet ==
    ASSUME TypeInv, LockInv, NEW p \in Procs, UNCHANGED locks,
           NEW label, Goto(p, label),
           label \in InRunLock <=> pc[p] \in InRunLock,
           label \in InPointerLock <=> pc[p] \in InPointerLock,
           label \in InRegistryLock <=> pc[p] \in InRegistryLock,
           pc[p] \in InRunLock => job'[p].run = job[p].run,
           \A q \in Procs \ {p} : job'[q] = job[q]
    PROVE  LockInv'
<1>1. pc'[p] = label /\ \A q \in Procs \ {p} : pc'[q] = pc[q]
  BY DEF TypeInv, TypeOK, Goto
<1>2. Holds(p)
  BY DEF LockInv, Holds
<1>3. Holds(p)'
  BY <1>1, <1>2 DEF Holds, locks
<1>4. QED BY <1>1, <1>3, LockFrame DEF locks

LEMMA LockStarts ==
    ASSUME TypeInv, LockInv, NEW p \in Procs, NEW r \in Runs, NEW j, j.run = r,
           \/ /\ UNCHANGED locks
              /\ \E label : /\ Start(p, label, j)
                            /\ label \notin InRunLock \cup InPointerLock \cup InRegistryLock
           \/ /\ LockRun(p, r) /\ UNCHANGED <<pointerLock, registryLock>>
              /\ \E label : /\ Start(p, label, j)
                            /\ label \in InRunLock \ (InPointerLock \cup InRegistryLock)
    PROVE  LockInv'
<1>1. /\ pc[p] = "idle" /\ job'[p] = j
      /\ \A q \in Procs \ {p} : pc'[q] = pc[q] /\ job'[q] = job[q]
  BY DEF TypeInv, TypeOK, Start, Goto
<1>2. Holds(p) /\ pc[p] \notin InRunLock \cup InPointerLock \cup InRegistryLock
  BY <1>1 DEF LockInv, Holds, InRunLock, InPointerLock, InRegistryLock
<1>3. CASE UNCHANGED locks /\ \E label : /\ Start(p, label, j)
                            /\ label \notin InRunLock \cup InPointerLock \cup InRegistryLock
  <2>1. Holds(p)'
    BY <1>2, <1>3 DEF Holds, locks, TypeInv, TypeOK, Start, Goto
  <2>2. QED BY <1>1, <1>3, <2>1, LockFrame DEF locks
<1>4. CASE /\ LockRun(p, r) /\ UNCHANGED <<pointerLock, registryLock>>
           /\ \E label : /\ Start(p, label, j)
                            /\ label \in InRunLock \ (InPointerLock \cup InRegistryLock)
  <2>1. \A q \in Runs : runLock'[q] = IF q = r THEN p ELSE runLock[q]
    BY <1>4 DEF LockRun, TypeInv, TypeOK
  <2>2. pc'[p] \in InRunLock \ (InPointerLock \cup InRegistryLock)
    BY <1>4 DEF TypeInv, TypeOK, Start, Goto
  <2>3. Holds(p)'
    BY <1>1, <1>2, <1>4, <2>1, <2>2 DEF Holds
  <2>4. \A q \in Procs \ {p}, s \in Runs : runLock'[s] = q <=> runLock[s] = q
    BY <1>4, <2>1, LocksFree DEF LockRun
  <2>5. QED BY <1>1, <1>4, <2>3, <2>4, LockFrame
<1>5. QED BY <1>3, <1>4

\* A handler that returns frees what it holds.
LEMMA LockReturns ==
    ASSUME TypeInv, LockInv, NEW p \in Procs, Return(p),
           IF pc[p] \in InRunLock THEN UnlockRun(p) ELSE UNCHANGED runLock,
           pointerLock' = IF pc[p] \in InPointerLock THEN NoProc ELSE pointerLock,
           registryLock' = IF pc[p] \in InRegistryLock THEN NoProc ELSE registryLock
    PROVE  LockInv'
<1>1. /\ pc'[p] = "idle"
      /\ \A q \in Procs \ {p} : pc'[q] = pc[q] /\ job'[q] = job[q]
  BY DEF TypeInv, TypeOK, Return, Goto
<1>2. Holds(p) /\ pc'[p] \notin InRunLock \cup InPointerLock \cup InRegistryLock
  BY <1>1 DEF LockInv, Holds, InRunLock, InPointerLock, InRegistryLock
<1>3. \A r \in Runs : runLock'[r] = IF runLock[r] = p THEN NoProc ELSE runLock[r]
  <2>1. CASE pc[p] \in InRunLock
    BY <1>2, <2>1 DEF UnlockRun, Holds, TypeInv, TypeOK
  <2>2. CASE pc[p] \notin InRunLock
    BY <1>2, <2>2 DEF Holds
  <2>3. QED BY <2>1, <2>2
<1>4. Holds(p)'
  BY <1>2, <1>3, LocksFree DEF Holds
<1>5. QED BY <1>1, <1>2, <1>3, <1>4, LockFrame, LocksFree DEF Holds

\* A handler that takes or frees the pointer's or the registry's lock on its way.
LEMMA LockShared ==
    ASSUME TypeInv, LockInv, NEW p \in Procs, UNCHANGED runLock, NEW label, Goto(p, label),
           job'[p].run = job[p].run, \A q \in Procs \ {p} : job'[q] = job[q],
           label \in InRunLock <=> pc[p] \in InRunLock,
           \/ /\ LockPointer(p) /\ registryLock' = registryLock
              /\ label \in InPointerLock /\ label \notin InRegistryLock
              /\ pc[p] \notin InRegistryLock
           \/ /\ LockRegistry(p) /\ pointerLock' = pointerLock
              /\ label \in InRegistryLock /\ label \notin InPointerLock
              /\ pc[p] \notin InPointerLock
           \/ /\ UnlockPointer /\ registryLock' = registryLock
              /\ pc[p] \in InPointerLock /\ pc[p] \notin InRegistryLock
              /\ label \notin InPointerLock \cup InRegistryLock
    PROVE  LockInv'
<1>1. pc'[p] = label /\ \A q \in Procs \ {p} : pc'[q] = pc[q]
  BY DEF TypeInv, TypeOK, Goto
<1>2. Holds(p)
  BY DEF LockInv, Holds
<1>3. Holds(p)'
  BY <1>1, <1>2, LocksFree DEF Holds, LockPointer, LockRegistry, UnlockPointer
<1>4. \A q \in Procs \ {p} : /\ pointerLock' = q <=> pointerLock = q
                             /\ registryLock' = q <=> registryLock = q
  BY <1>2, LocksFree DEF Holds, LockPointer, LockRegistry, UnlockPointer
<1>5. QED BY <1>1, <1>3, <1>4, LockFrame

-----------------------------------------------------------------------------
LEMMA LockCalls ==
    ASSUME TypeInv, LockInv, NEW p \in Procs, NEW r \in Runs,
           \/ InitCheck(p, r) \/ FinalizeLoad(p, r) \/ AbortLoad(p, r)
           \/ \E to \in Phases \cup {"resolve"} : TransitionLoad(p, r, to)
           \/ \E f \in Fields : UpdateLoad(p, r, f)
           \/ \E g \in HandGates : LedgerAppend(p, r, g)
           \/ StateWriteCall(p, r) \/ RegistryCall(p, r)
    PROVE  LockInv'
<1>1. CASE InitCheck(p, r)
  <2>1. PICK ph \in InitialPhases :
           Start(p, "in-save", [NoJob EXCEPT !.run = r, !.man = NewManifest(ph)])
    BY <1>1 DEF InitCheck
  <2>2. [NoJob EXCEPT !.run = r, !.man = NewManifest(ph)].run = r
    BY DEF NoJob
  <2>3. "in-save" \notin InRunLock \cup InPointerLock \cup InRegistryLock
    BY DEF InRunLock, InPointerLock, InRegistryLock
  <2>4. QED BY <1>1, <2>1, <2>2, <2>3, LockStarts DEF InitCheck
<1>2. CASE FinalizeLoad(p, r)
  <2>1. [NoJob EXCEPT !.run = r, !.man = manifest[r]].run = r
    BY DEF NoJob
  <2>2. "fi-stamp" \notin InRunLock \cup InPointerLock \cup InRegistryLock
    BY DEF InRunLock, InPointerLock, InRegistryLock
  <2>3. QED BY <1>2, <2>1, <2>2, LockStarts DEF FinalizeLoad
<1>3. CASE AbortLoad(p, r)
  <2>1. [NoJob EXCEPT !.run = r, !.man = manifest[r]].run = r
    BY DEF NoJob
  <2>2. {"ab-ledger", "ab-pointer"} \subseteq InRunLock \ (InPointerLock \cup InRegistryLock)
    BY DEF InRunLock, InPointerLock, InRegistryLock
  <2>3. QED BY <1>3, <2>1, <2>2, LockStarts DEF AbortLoad
<1>4. CASE \E to \in Phases \cup {"resolve"} : TransitionLoad(p, r, to)
  <2>1. PICK to \in Phases \cup {"resolve"} : TransitionLoad(p, r, to)
    BY <1>4
  <2> DEFINE j == [NoJob EXCEPT !.run = r, !.man = manifest[r],
                                !.edge = <<manifest[r].phase, CanonicalTarget(to)>>]
  <2>2. Start(p, "tr-gate", j) /\ LockRun(p, r) /\ UNCHANGED <<pointerLock, registryLock>>
    BY <2>1 DEF TransitionLoad
  <2>3. j.run = r
    BY DEF NoJob
  <2>4. "tr-gate" \in InRunLock \ (InPointerLock \cup InRegistryLock)
    BY DEF InRunLock, InPointerLock, InRegistryLock
  <2> HIDE DEF j
  <2>5. QED BY <2>2, <2>3, <2>4, LockStarts
<1>5. CASE \E f \in Fields : UpdateLoad(p, r, f)
  <2>1. PICK f \in Fields : UpdateLoad(p, r, f)
    BY <1>5
  <2> DEFINE j == [NoJob EXCEPT !.run = r, !.man = [manifest[r] EXCEPT !.fields = @ \cup {f}]]
  <2>2. Start(p, "up-save", j) /\ LockRun(p, r) /\ UNCHANGED <<pointerLock, registryLock>>
    BY <2>1 DEF UpdateLoad
  <2>3. j.run = r
    BY DEF NoJob
  <2>4. "up-save" \in InRunLock \ (InPointerLock \cup InRegistryLock)
    BY DEF InRunLock, InPointerLock, InRegistryLock
  <2> HIDE DEF j
  <2>5. QED BY <2>2, <2>3, <2>4, LockStarts
<1>6. CASE \E g \in HandGates : LedgerAppend(p, r, g)
  BY <1>6 DEF LedgerAppend, LockInv, locks
<1>7. CASE StateWriteCall(p, r) \/ RegistryCall(p, r)
  <2>1. [NoJob EXCEPT !.run = r].run = r
    BY DEF NoJob
  <2>2. {"sw-wait", "rg-wait-register", "rg-wait-deregister"}
           \cap (InRunLock \cup InPointerLock \cup InRegistryLock) = {}
    BY DEF InRunLock, InPointerLock, InRegistryLock
  <2>3. \E label \in {"sw-wait", "rg-wait-register", "rg-wait-deregister"} :
           Start(p, label, [NoJob EXCEPT !.run = r]) /\ UNCHANGED locks
    BY <1>7 DEF StateWriteCall, RegistryCall
  <2>4. QED BY <2>1, <2>2, <2>3, LockStarts
<1>8. QED BY <1>1, <1>2, <1>3, <1>4, <1>5, <1>6, <1>7

LEMMA LockSteps ==
    ASSUME TypeInv, LockInv, NEW p \in Procs,
           \/ InitSave(p) \/ GatePasses(p) \/ RecordTriageComplete(p) \/ FinalizeStamp(p)
           \/ AbortRecord(p) \/ AbortCommit(p)
    PROVE  LockInv'
<1>1. /\ UNCHANGED locks /\ job' = job
      /\ \E label : /\ Goto(p, label)
                    /\ label \in InRunLock <=> pc[p] \in InRunLock
                    /\ label \in InPointerLock <=> pc[p] \in InPointerLock
                    /\ label \in InRegistryLock <=> pc[p] \in InRegistryLock
  BY DEF InitSave, GatePasses, RecordTriageComplete, FinalizeStamp, AbortRecord, AbortCommit,
         InRunLock, InPointerLock, InRegistryLock
<1>2. QED BY <1>1, LockQuiet

LEMMA LockEnds ==
    ASSUME TypeInv, LockInv, NEW p \in Procs,
           \/ InitSeed(p) \/ GateBlocks(p) \/ TransitionSave(p) \/ UpdateSave(p)
           \/ SweepPasses(p) \/ SweepBlocks(p) \/ AbortDeregister(p) \/ AbortTeardownRaises(p)
           \/ StateWrite(p) \/ RegistryRefuse(p) \/ RegistryWrite(p)
    PROVE  LockInv'
<1>1. Return(p)
  BY DEF InitSeed, GateBlocks, TransitionSave, UpdateSave, SweepPasses, SweepBlocks,
         AbortDeregister, AbortTeardownRaises, StateWrite, RegistryRefuse, RegistryWrite
<1>2. /\ IF pc[p] \in InRunLock THEN UnlockRun(p) ELSE UNCHANGED runLock
      /\ pointerLock' = IF pc[p] \in InPointerLock THEN NoProc ELSE pointerLock
      /\ registryLock' = IF pc[p] \in InRegistryLock THEN NoProc ELSE registryLock
  BY DEF InitSeed, GateBlocks, TransitionSave, UpdateSave, SweepPasses, SweepBlocks,
         AbortDeregister, AbortTeardownRaises, StateWrite, RegistryRefuse, RegistryWrite,
         InRunLock, InPointerLock, InRegistryLock, UnlockPointer, UnlockRegistry, locks
<1>3. QED BY <1>1, <1>2, LockReturns

LEMMA LockWaits ==
    ASSUME TypeInv, LockInv, NEW p \in Procs,
           \/ InitPointerLock(p) \/ AbortPointerLock(p) \/ AbortRelease(p)
           \/ AbortRegistryLock(p) \/ StateWriteLock(p) \/ RegistryRead(p)
    PROVE  LockInv'
<1>1. job'[p].run = job[p].run /\ \A q \in Procs \ {p} : job'[q] = job[q]
  BY DEF InitPointerLock, AbortPointerLock, AbortRelease, AbortRegistryLock, StateWriteLock,
         RegistryRead, TypeInv, TypeOK, Jobs
<1>2. CASE AbortRelease(p)
  BY <1>1, <1>2, LockShared DEF AbortRelease, InRunLock, InPointerLock, InRegistryLock
<1>3. CASE InitPointerLock(p) \/ AbortPointerLock(p) \/ StateWriteLock(p)
  <2>1. /\ UNCHANGED runLock /\ LockPointer(p) /\ registryLock' = registryLock
        /\ pc[p] \notin InRegistryLock
        /\ \E label : /\ Goto(p, label) /\ label \in InPointerLock /\ label \notin InRegistryLock
                      /\ label \in InRunLock <=> pc[p] \in InRunLock
    BY <1>3 DEF InitPointerLock, AbortPointerLock, StateWriteLock, InRunLock, InPointerLock,
                InRegistryLock
  <2>2. QED BY <1>1, <2>1, LockShared
<1>4. CASE AbortRegistryLock(p) \/ RegistryRead(p)
  <2>1. /\ UNCHANGED runLock /\ LockRegistry(p) /\ pointerLock' = pointerLock
        /\ pc[p] \notin InPointerLock
        /\ \E label : /\ Goto(p, label) /\ label \in InRegistryLock /\ label \notin InPointerLock
                      /\ label \in InRunLock <=> pc[p] \in InRunLock
    BY <1>4 DEF AbortRegistryLock, RegistryRead, InRunLock, InPointerLock, InRegistryLock
  <2>2. QED BY <1>1, <2>1, LockShared
<1>5. QED BY <1>2, <1>3, <1>4

LEMMA LockCrash ==
    ASSUME TypeInv, LockInv, NEW p \in Procs, Crash(p)
    PROVE  LockInv'
<1>1. /\ pc'[p] = "idle"
      /\ \A q \in Procs \ {p} : pc'[q] = pc[q] /\ job'[q] = job[q]
  BY DEF TypeInv, TypeOK, Crash, Return, Goto
<1>2. /\ \A r \in Runs : runLock'[r] = IF runLock[r] = p THEN NoProc ELSE runLock[r]
      /\ pointerLock' = IF pointerLock = p THEN NoProc ELSE pointerLock
      /\ registryLock' = IF registryLock = p THEN NoProc ELSE registryLock
  BY DEF Crash
<1>3. pc'[p] \notin InRunLock \cup InPointerLock \cup InRegistryLock
  BY <1>1 DEF InRunLock, InPointerLock, InRegistryLock
<1>4. Holds(p)'
  BY <1>2, <1>3, LocksFree DEF Holds
<1>5. QED BY <1>1, <1>2, <1>4, LockFrame, LocksFree

LEMMA LockStep == TypeInv /\ LockInv /\ [Next]_vars => LockInv'
<1>1. SUFFICES ASSUME TypeInv, LockInv, [Next]_vars PROVE LockInv'
  OBVIOUS
<1>2. CASE UNCHANGED vars
  BY <1>1, <1>2 DEF vars, locks, LockInv
<1>3. CASE OperatorEdit
  BY <1>1, <1>3 DEF OperatorEdit, locks, LockInv
<1>4. CASE \E p \in Procs : Call(p)
  BY <1>1, <1>4, LockCalls DEF Call
<1>5. CASE \E p \in Procs : Step(p) \/ Crash(p)
  BY <1>1, <1>5, LockSteps, LockEnds, LockWaits, LockCrash DEF Step
<1>6. QED BY <1>1, <1>2, <1>3, <1>4, <1>5 DEF Next

LEMMA LockInit == Init => LockInv
  BY LocksFree DEF Init, LockInv, InRunLock, InPointerLock, InRegistryLock

\* Each lock is held by the process in its critical section, and by nobody
\* else, whatever is called, blocked, refused, raised or killed (the flock
\* blocks of handle_transition, handle_abort, uacp_state_write and
\* uacp_run_registry_update).
THEOREM CriticalSectionsExclude == Spec => []LockInv
<1>1. Init => TypeInv /\ LockInv
  BY TypeInit, LockInit
<1>2. TypeInv /\ LockInv /\ [Next]_vars => (TypeInv /\ LockInv)'
  BY TypeStep, LockStep
<1>3. QED BY <1>1, <1>2, PTL DEF Spec

-----------------------------------------------------------------------------
(***************************************************************************)
(* The shared files.  Under its lock a process has the pointer or the      *)
(* registry as it is on disk, because only the holder replaces the file.   *)
(***************************************************************************)
CopyOf(p) ==
    /\ pc[p] \in InPointerLock => job[p].ptr = pointer
    /\ pc[p] \in InRegistryLock => job[p].reg = registry
CopyInv == \A p \in Procs : CopyOf(p)

\* Every step is a step of one process that leaves the local variables of the
\* others alone, and replaces a shared file only in its own critical section.
LEMMA SharedSteps ==
    ASSUME TypeInv, NEW p \in Procs, Call(p) \/ Step(p) \/ Crash(p)
    PROVE  /\ \A q \in Procs \ {p} : pc'[q] = pc[q] /\ job'[q] = job[q]
           /\ pointer' # pointer => pc[p] \in InPointerLock
           /\ registry' # registry => pc[p] \in InRegistryLock
<1>1. CASE Call(p)
  BY <1>1 DEF Call, TypeInv, TypeOK, InitCheck, FinalizeLoad, AbortLoad, TransitionLoad, UpdateLoad,
         LedgerAppend, StateWriteCall, RegistryCall, Start, Goto, files
<1>2. CASE Step(p)
  <2>1. \A q \in Procs \ {p} : pc'[q] = pc[q] /\ job'[q] = job[q]
    BY <1>2 DEF Step, TypeInv, TypeOK, InitSave, InitPointerLock, InitSeed, GateBlocks, GatePasses,
           RecordTriageComplete, TransitionSave, UpdateSave, FinalizeStamp, SweepPasses,
           SweepBlocks, AbortRecord, AbortCommit, AbortPointerLock, AbortRelease,
           AbortRegistryLock, AbortDeregister, AbortTeardownRaises, StateWriteLock, StateWrite,
           RegistryRead, RegistryRefuse, RegistryWrite, Return, Goto
  <2>2. /\ pointer' # pointer => pc[p] \in InPointerLock
        /\ registry' # registry => pc[p] \in InRegistryLock
    BY <1>2 DEF Step, InitSave, InitPointerLock, InitSeed, GateBlocks, GatePasses,
           RecordTriageComplete, TransitionSave, UpdateSave, FinalizeStamp, SweepPasses,
           SweepBlocks, AbortRecord, AbortCommit, AbortPointerLock, AbortRelease,
           AbortRegistryLock, AbortDeregister, AbortTeardownRaises, StateWriteLock, StateWrite,
           RegistryRead, RegistryRefuse, RegistryWrite, files, InPointerLock, InRegistryLock
  <2>3. QED BY <2>1, <2>2
<1>3. CASE Crash(p)
  BY <1>3 DEF Crash, TypeInv, TypeOK, Return, Goto, files
<1>4. QED BY <1>1, <1>2, <1>3

\* A process that enters such a section has just read the file; one that goes
\* on in it has changed neither file nor copy.
LEMMA CopyStep == TypeInv /\ LockInv /\ CopyInv /\ [Next]_vars => CopyInv'
<1>1. SUFFICES ASSUME TypeInv, LockInv, CopyInv, [Next]_vars PROVE CopyInv'
  OBVIOUS
<1>2. CASE UNCHANGED vars
  BY <1>1, <1>2 DEF vars, files, CopyInv, CopyOf
<1>3. CASE OperatorEdit
  BY <1>1, <1>3 DEF OperatorEdit, CopyInv, CopyOf
<1>4. ASSUME NEW p \in Procs, Call(p) \/ Step(p) \/ Crash(p) PROVE CopyInv'
  <2>1. \A q \in Procs \ {p} : CopyOf(q)'
    <3>1. \A q \in Procs \ {p} : /\ pc[q] \in InPointerLock => pc[p] \notin InPointerLock
                                 /\ pc[q] \in InRegistryLock => pc[p] \notin InRegistryLock
      BY <1>1 DEF LockInv
    <3>2. QED BY <1>1, <1>4, <3>1, SharedSteps DEF CopyInv, CopyOf
  <2>2. CopyOf(p)'
    <3>1. CASE Call(p)
      BY <1>1, <3>1 DEF Call, TypeInv, TypeOK, InitCheck, FinalizeLoad, AbortLoad, TransitionLoad,
             UpdateLoad, LedgerAppend, StateWriteCall, RegistryCall, Start, Goto, files, CopyInv,
             CopyOf, InPointerLock, InRegistryLock
    <3>2. CASE \/ InitPointerLock(p) \/ AbortPointerLock(p) \/ StateWriteLock(p)
               \/ AbortRegistryLock(p) \/ RegistryRead(p)
      BY <1>1, <3>2 DEF InitPointerLock, AbortPointerLock, StateWriteLock, AbortRegistryLock,
             RegistryRead, Goto, files, TypeInv, TypeOK, Jobs, CopyOf, InPointerLock, InRegistryLock
    <3>3. CASE ~(\/ Call(p) \/ InitPointerLock(p) \/ AbortPointerLock(p) \/ StateWriteLock(p)
                 \/ AbortRegistryLock(p) \/ RegistryRead(p))
      <4>1. pc'[p] \notin InPointerLock \cup InRegistryLock
        BY <1>1, <1>4, <3>3 DEF Step, TypeInv, TypeOK, InitSave, InitSeed, GateBlocks, GatePasses,
               RecordTriageComplete, TransitionSave, UpdateSave, FinalizeStamp, SweepPasses,
               SweepBlocks, AbortRecord, AbortCommit, AbortRelease, AbortDeregister,
               AbortTeardownRaises, StateWrite, RegistryRefuse, RegistryWrite, Crash, Return,
               Goto, InPointerLock, InRegistryLock
      <4>2. QED BY <4>1 DEF CopyOf
    <3>4. QED BY <3>1, <3>2, <3>3
  <2>3. QED BY <2>1, <2>2 DEF CopyInv
<1>5. QED BY <1>1, <1>2, <1>3, <1>4 DEF Next

SharedInv == TypeInv /\ LockInv /\ CopyInv

LEMMA SharedHolds == Spec => []SharedInv
<1>1. Init => SharedInv
  BY TypeInit, LockInit DEF Init, SharedInv, CopyInv, CopyOf, InPointerLock, InRegistryLock
<1>2. SharedInv /\ [Next]_vars => SharedInv'
  BY TypeStep, LockStep, CopyStep DEF SharedInv
<1>3. QED BY <1>1, <1>2, PTL DEF Spec

\* Nobody's registry update is lost: what a register or deregister writes is
\* what is on disk, but for its own entry (_handle_uacp_run_registry_update
\* and the deregistration of handle_abort read and write under one lock).
THEOREM NoUpdateIsLost == Spec => RegistryUpdatesOwn
<1>1. ASSUME SharedInv, [Next]_vars, NEW r \in Runs, (r \in registry) # (r \in registry')
      PROVE  \E p \in Procs : /\ job[p].run = r
                              /\ pc[p] \in {"rg-register", "rg-deregister", "ab-deregister"}
  <2>1. PICK p \in Procs : Call(p) \/ Step(p) \/ Crash(p)
    BY <1>1 DEF Next, OperatorEdit, vars, files
  <2>2. pc[p] \in InRegistryLock
    BY <1>1, <2>1, SharedSteps DEF SharedInv
  <2>3. job[p].reg = registry
    BY <1>1, <2>2 DEF SharedInv, CopyInv, CopyOf
  <2>4. AbortDeregister(p) \/ RegistryWrite(p)
    BY <1>1, <2>1, <2>2 DEF Call, Step, InitCheck, FinalizeLoad, AbortLoad, TransitionLoad,
           UpdateLoad, LedgerAppend, StateWriteCall, RegistryCall, Start, InitSave,
           InitPointerLock, InitSeed, GateBlocks, GatePasses, RecordTriageComplete,
           TransitionSave, UpdateSave, FinalizeStamp, SweepPasses, SweepBlocks, AbortRecord,
           AbortCommit, AbortPointerLock, AbortRelease, AbortRegistryLock,
           AbortTeardownRaises, StateWriteLock, StateWrite, RegistryRead, RegistryRefuse,
           Crash, files, InRegistryLock
  <2>5. r = job[p].run
    BY <1>1, <2>3, <2>4 DEF AbortDeregister, RegistryWrite
  <2>6. QED BY <2>2, <2>5 DEF InRegistryLock
<1>2. SharedInv /\ [Next]_vars =>
         [\A r \in Runs : (r \in registry) # (r \in registry') =>
            \E p \in Procs : /\ job[p].run = r
                             /\ pc[p] \in {"rg-register", "rg-deregister", "ab-deregister"}]_vars
  BY <1>1
<1>3. QED BY <1>2, SharedHolds, PTL DEF Spec, RegistryUpdatesOwn

-----------------------------------------------------------------------------
(***************************************************************************)
(* First: no edge is crossed before its canonical gates are on the ledger, *)
(* for any runs, processes, crashes and hand-written records.  A saved     *)
(* history may come from a handler that loaded it many steps ago, so the   *)
(* inductive invariant speaks of every loaded manifest too; it survives    *)
(* because records are only ever added.  Then, with one process that       *)
(* initialises runs: the lifecycle, and that the engine implements it.     *)
(***************************************************************************)

\* Every edge of a history has its gates in the set S of passing records.
Recorded(S, m) ==
    \A i \in DOMAIN m.history :
        m.history[i] \in Edges => CanonicalGates(m.history[i]) \subseteq S

\* What a handler has established of the manifest it will save.
JobGates(p) ==
    /\ pc[p] # "idle" => Recorded(passed[job[p].run], job[p].man)
    /\ pc[p] = "tr-complete" => job[p].edge \in passed[job[p].run]
    /\ pc[p] = "tr-save" => CanonicalGates(job[p].edge) \subseteq passed[job[p].run]

GateInv ==
    /\ \A r \in Runs : Recorded(passed[r], manifest[r])
    /\ \A p \in Procs : JobGates(p)

LEMMA RecordedGrows ==
    ASSUME NEW S, NEW T, S \subseteq T, NEW m, Recorded(S, m)
    PROVE  Recorded(T, m)
  BY DEF Recorded

LEMMA RecordedNew ==
    /\ \A S : Recorded(S, NoManifest)
    /\ \A S, ph : Recorded(S, NewManifest(ph))
  BY DEF Recorded, NoManifest, NewManifest

\* The changes handlers make to a manifest keep its history recorded.
LEMMA RecordedChange ==
    ASSUME NEW S, NEW m \in Manifests, Recorded(S, m)
    PROVE  /\ \A f : Recorded(S, [m EXCEPT !.fields = @ \cup {f}])
           /\ Recorded(S, [m EXCEPT !.status = "resolved", !.finalized = TRUE])
           /\ Recorded(S, Aborted(m))
           /\ \A e \in Edges : CanonicalGates(e) \subseteq S => Recorded(S, Advanced(m, e))
<1>1. m.history \in Seq(HistoryEntries)
  BY DEF Manifests
<1>2. /\ \A f : [m EXCEPT !.fields = @ \cup {f}].history = m.history
      /\ [m EXCEPT !.status = "resolved", !.finalized = TRUE].history = m.history
      /\ Aborted(m).history = Append(m.history, <<m.phase, "aborted">>)
      /\ \A e : Advanced(m, e).history = Append(m.history, e)
  BY DEF Manifests, Aborted, Advanced
<1>3. <<m.phase, "aborted">> \notin Edges
  BY DEF Edges, Phases, LifecyclePhases
<1>4. ASSUME NEW e, e \in Edges => CanonicalGates(e) \subseteq S,
             NEW i \in DOMAIN Append(m.history, e), Append(m.history, e)[i] \in Edges
      PROVE  CanonicalGates(Append(m.history, e)[i]) \subseteq S
  <2>1. CASE i = Len(m.history) + 1
    BY <1>1, <1>4, <2>1
  <2>2. CASE i # Len(m.history) + 1
    <3>1. i \in DOMAIN m.history /\ Append(m.history, e)[i] = m.history[i]
      BY <1>1, <1>4, <2>2
    <3>2. QED BY <1>4, <3>1 DEF Recorded
  <2>3. QED BY <2>1, <2>2
<1>5. QED BY <1>2, <1>3, <1>4 DEF Recorded

\* A step of process p that keeps or adds records, saves only manifests whose
\* history is recorded, and leaves p with a recorded manifest.
LEMMA GateFrame ==
    ASSUME TypeInv, GateInv, NEW p \in Procs,
           \A r \in Runs : passed[r] \subseteq passed'[r],
           \A r \in Runs : manifest'[r] = manifest[r] \/ Recorded(passed'[r], manifest'[r]),
           \A q \in Procs \ {p} : pc'[q] = pc[q] /\ job'[q] = job[q],
           JobGates(p)'
    PROVE  GateInv'
<1>1. \A r \in Runs : Recorded(passed'[r], manifest'[r])
  BY RecordedGrows DEF GateInv
<1>2. ASSUME NEW q \in Procs \ {p} PROVE JobGates(q)'
  <2>1. pc[q] # "idle" => passed[job[q].run] \subseteq passed'[job[q].run]
    BY DEF TypeInv, JobOK
  <2>2. JobGates(q)
    BY DEF GateInv
  <2>3. QED BY <2>1, <2>2, RecordedGrows DEF JobGates
<1>3. QED BY <1>1, <1>2 DEF GateInv

\* The same for a step that leaves manifests and records alone.
LEMMA GateQuiet ==
    ASSUME TypeInv, GateInv, NEW p \in Procs, UNCHANGED <<manifest, passed>>,
           \A q \in Procs \ {p} : pc'[q] = pc[q] /\ job'[q] = job[q],
           JobGates(p)'
    PROVE  GateInv'
  BY GateFrame

\* A handler that returns knows nothing.
LEMMA GateReturn ==
    ASSUME TypeInv, NEW p \in Procs, Return(p)
    PROVE  JobGates(p)' /\ \A q \in Procs \ {p} : pc'[q] = pc[q] /\ job'[q] = job[q]
  BY DEF TypeInv, TypeOK, Return, Goto, JobGates

\* One that starts or moves on outside the last steps of a transition needs
\* its manifest recorded.
LEMMA GateStart ==
    ASSUME TypeInv, NEW p \in Procs, NEW label, NEW j, Start(p, label, j),
           label \notin {"tr-complete", "tr-save"}, Recorded(passed'[j.run], j.man)
    PROVE  JobGates(p)' /\ \A q \in Procs \ {p} : pc'[q] = pc[q] /\ job'[q] = job[q]
  BY DEF TypeInv, TypeOK, Start, Goto, JobGates

LEMMA GateGoto ==
    ASSUME TypeInv, GateInv, NEW p \in Procs, pc[p] # "idle", NEW label, Goto(p, label),
           label \notin {"tr-complete", "tr-save"},
           \/ job' = job
           \/ \E v : job' = [job EXCEPT ![p].ptr = v]
           \/ \E v : job' = [job EXCEPT ![p].reg = v],
           passed' = passed
    PROVE  JobGates(p)' /\ \A q \in Procs \ {p} : pc'[q] = pc[q] /\ job'[q] = job[q]
<1>1. job'[p].run = job[p].run /\ job'[p].man = job[p].man
  BY DEF TypeInv, TypeOK, Jobs
<1>2. JobGates(p)
  BY DEF GateInv
<1>3. QED BY <1>1, <1>2 DEF TypeInv, TypeOK, Goto, JobGates

-----------------------------------------------------------------------------
\* The steps that neither save a manifest nor add a record.
LEMMA GateCalls ==
    ASSUME TypeInv, GateInv, NEW p \in Procs, NEW r \in Runs,
           \/ InitCheck(p, r) \/ FinalizeLoad(p, r) \/ AbortLoad(p, r)
           \/ \E to \in Phases \cup {"resolve"} : TransitionLoad(p, r, to)
           \/ \E f \in Fields : UpdateLoad(p, r, f)
           \/ StateWriteCall(p, r) \/ RegistryCall(p, r)
    PROVE  GateInv'
<1>0. UNCHANGED <<manifest, passed>>
  BY DEF InitCheck, FinalizeLoad, AbortLoad, TransitionLoad, UpdateLoad, StateWriteCall,
         RegistryCall, files
<1>1. manifest[r] \in Manifests /\ Recorded(passed[r], manifest[r])
  BY DEF TypeInv, TypeOK, GateInv
<1>2. ASSUME NEW label, NEW j, label \notin {"tr-complete", "tr-save"}, Start(p, label, j),
             j.run = r, Recorded(passed[r], j.man)
      PROVE  JobGates(p)' /\ \A q \in Procs \ {p} : pc'[q] = pc[q] /\ job'[q] = job[q]
  BY <1>0, <1>2, GateStart
<1>3. JobGates(p)' /\ \A q \in Procs \ {p} : pc'[q] = pc[q] /\ job'[q] = job[q]
  <2>1. CASE InitCheck(p, r)
    <3>1. PICK ph \in InitialPhases :
             Start(p, "in-save", [NoJob EXCEPT !.run = r, !.man = NewManifest(ph)])
      BY <2>1 DEF InitCheck
    <3> DEFINE j == [NoJob EXCEPT !.run = r, !.man = NewManifest(ph)]
    <3>2. j.run = r /\ j.man = NewManifest(ph) /\ Start(p, "in-save", j)
      BY <3>1 DEF NoJob
    <3> HIDE DEF j
    <3>3. QED BY <1>2, <3>2, RecordedNew
  <2>2. CASE FinalizeLoad(p, r) \/ AbortLoad(p, r)
    <3> DEFINE j == [NoJob EXCEPT !.run = r, !.man = manifest[r]]
    <3>1. j.run = r /\ j.man = manifest[r]
      BY DEF NoJob
    <3>2. \E label \in {"fi-stamp", "ab-ledger", "ab-pointer"} : Start(p, label, j)
      BY <2>2 DEF FinalizeLoad, AbortLoad
    <3> HIDE DEF j
    <3>3. QED BY <1>1, <1>2, <3>1, <3>2
  <2>3. CASE \E to \in Phases \cup {"resolve"} : TransitionLoad(p, r, to)
    <3>1. PICK to \in Phases \cup {"resolve"} : TransitionLoad(p, r, to)
      BY <2>3
    <3> DEFINE e == <<manifest[r].phase, CanonicalTarget(to)>>
               j == [NoJob EXCEPT !.run = r, !.man = manifest[r], !.edge = e]
    <3>2. Start(p, "tr-gate", j)
      BY <3>1 DEF TransitionLoad
    <3> HIDE DEF e
    <3>3. j.run = r /\ j.man = manifest[r]
      BY DEF NoJob
    <3> HIDE DEF j
    <3>4. QED BY <1>1, <1>2, <3>2, <3>3
  <2>4. CASE \E f \in Fields : UpdateLoad(p, r, f)
    <3>1. PICK f \in Fields : UpdateLoad(p, r, f)
      BY <2>4
    <3> DEFINE m == [manifest[r] EXCEPT !.fields = @ \cup {f}]
               j == [NoJob EXCEPT !.run = r, !.man = m]
    <3>2. Recorded(passed[r], m)
      BY <1>1, RecordedChange
    <3>3. Start(p, "up-save", j)
      BY <3>1 DEF UpdateLoad
    <3> HIDE DEF m
    <3>4. j.run = r /\ j.man = m
      BY DEF NoJob
    <3> HIDE DEF j
    <3>5. QED BY <1>2, <3>2, <3>3, <3>4
  <2>5. CASE StateWriteCall(p, r) \/ RegistryCall(p, r)
    <3> DEFINE j == [NoJob EXCEPT !.run = r]
    <3>1. \E label \in {"sw-wait", "rg-wait-register", "rg-wait-deregister"} : Start(p, label, j)
      BY <2>5 DEF StateWriteCall, RegistryCall
    <3>2. j.run = r /\ j.man = NoManifest
      BY DEF NoJob
    <3> HIDE DEF j
    <3>3. QED BY <1>2, <3>1, <3>2, RecordedNew
  <2>6. QED BY <2>1, <2>2, <2>3, <2>4, <2>5
<1>4. QED BY <1>0, <1>3, GateQuiet

LEMMA GateMoves ==
    ASSUME TypeInv, GateInv, NEW p \in Procs,
           \/ InitPointerLock(p) \/ AbortPointerLock(p) \/ AbortRelease(p) \/ AbortRegistryLock(p)
           \/ StateWriteLock(p) \/ RegistryRead(p)
    PROVE  GateInv'
<1>1. UNCHANGED <<manifest, passed>>
  BY DEF InitPointerLock, AbortPointerLock, AbortRelease, AbortRegistryLock, StateWriteLock,
         RegistryRead, files
<1>2. /\ pc[p] # "idle"
      /\ \E label : Goto(p, label) /\ label \notin {"tr-complete", "tr-save"}
      /\ \/ job' = job
         \/ \E v : job' = [job EXCEPT ![p].ptr = v]
         \/ \E v : job' = [job EXCEPT ![p].reg = v]
  BY DEF InitPointerLock, AbortPointerLock, AbortRelease, AbortRegistryLock, StateWriteLock,
         RegistryRead
<1>3. JobGates(p)' /\ \A q \in Procs \ {p} : pc'[q] = pc[q] /\ job'[q] = job[q]
  BY <1>1, <1>2, GateGoto
<1>4. QED BY <1>1, <1>3, GateQuiet

LEMMA GateReturns ==
    ASSUME TypeInv, GateInv, NEW p \in Procs,
           \/ InitSeed(p) \/ GateBlocks(p) \/ SweepPasses(p) \/ AbortDeregister(p)
           \/ AbortTeardownRaises(p) \/ StateWrite(p) \/ RegistryRefuse(p) \/ RegistryWrite(p)
           \/ Crash(p)
    PROVE  GateInv'
<1>1. UNCHANGED <<manifest, passed>> /\ Return(p)
  BY DEF InitSeed, GateBlocks, SweepPasses, AbortDeregister, AbortTeardownRaises, StateWrite,
         RegistryRefuse, RegistryWrite, Crash, files
<1>2. QED BY <1>1, GateReturn, GateQuiet

\* The steps that save the loaded manifest, as it is or changed.
LEMMA GateSaves ==
    ASSUME TypeInv, GateInv, NEW p \in Procs,
           \/ InitSave(p) \/ TransitionSave(p) \/ UpdateSave(p) \/ FinalizeStamp(p)
           \/ SweepBlocks(p) \/ AbortCommit(p)
    PROVE  GateInv'
<1>1. /\ passed' = passed /\ job[p].run \in Runs /\ job[p].man \in Manifests
      /\ Recorded(passed[job[p].run], job[p].man) /\ pc[p] # "idle"
  BY DEF TypeInv, TypeOK, JobOK, Jobs, GateInv, JobGates, InitSave, TransitionSave, UpdateSave,
         FinalizeStamp, SweepBlocks, AbortCommit
<1>2. \E m : SaveManifest(p, m) /\ Recorded(passed[job[p].run], m)
  <2>1. CASE InitSave(p) \/ UpdateSave(p) \/ SweepBlocks(p)
    BY <1>1, <2>1 DEF InitSave, UpdateSave, SweepBlocks
  <2>2. CASE TransitionSave(p)
    <3>1. job[p].edge \in Edges /\ CanonicalGates(job[p].edge) \subseteq passed[job[p].run]
      BY <2>2 DEF TransitionSave, TypeInv, JobOK, GateInv, JobGates
    <3>2. Recorded(passed[job[p].run], Advanced(job[p].man, job[p].edge))
      BY <1>1, <3>1, RecordedChange
    <3>3. QED BY <2>2, <3>2 DEF TransitionSave
  <2>3. CASE FinalizeStamp(p)
    <3>1. Recorded(passed[job[p].run],
                   [job[p].man EXCEPT !.status = "resolved", !.finalized = TRUE])
      BY <1>1, RecordedChange
    <3>2. QED BY <2>3, <3>1 DEF FinalizeStamp
  <2>4. CASE AbortCommit(p)
    <3>1. Recorded(passed[job[p].run], Aborted(job[p].man))
      BY <1>1, RecordedChange
    <3>2. QED BY <2>4, <3>1 DEF AbortCommit
  <2>5. QED BY <2>1, <2>2, <2>3, <2>4
<1>3. \A r \in Runs : manifest'[r] = manifest[r] \/ Recorded(passed'[r], manifest'[r])
  BY <1>1, <1>2 DEF SaveManifest, TypeInv, TypeOK
<1>4. \/ Return(p)
      \/ job' = job /\ \E label : Goto(p, label) /\ label \notin {"tr-complete", "tr-save"}
  BY DEF InitSave, TransitionSave, UpdateSave, FinalizeStamp, SweepBlocks, AbortCommit
<1>5. JobGates(p)' /\ \A q \in Procs \ {p} : pc'[q] = pc[q] /\ job'[q] = job[q]
  BY <1>1, <1>4, GateReturn, GateGoto
<1>6. QED BY <1>1, <1>3, <1>5, GateFrame

\* The steps that add a record.
LEMMA GateRecords ==
    ASSUME TypeInv, GateInv, NEW p \in Procs,
           \/ GatePasses(p) \/ RecordTriageComplete(p) \/ AbortRecord(p)
    PROVE  GateInv'
<1>1. job[p].run \in Runs /\ pc[p] # "idle" /\ JobGates(p)
      /\ manifest' = manifest /\ job' = job
  BY DEF TypeInv, JobOK, GateInv, GatePasses, RecordTriageComplete, AbortRecord
<1>2. \A r \in Runs : passed[r] \subseteq passed'[r]
  BY DEF TypeInv, TypeOK, Record, GatePasses, RecordTriageComplete, AbortRecord
<1>3. \A q \in Procs \ {p} : pc'[q] = pc[q] /\ job'[q] = job[q]
  BY <1>1 DEF TypeInv, TypeOK, Goto, GatePasses, RecordTriageComplete, AbortRecord
<1>4. Recorded(passed'[job[p].run], job[p].man)
  BY <1>1, <1>2, RecordedGrows DEF JobGates
<1>5. CASE GatePasses(p)
  <2>1. job[p].edge \in passed'[job[p].run]
    BY <1>1, <1>5 DEF GatePasses, Record, TypeInv, TypeOK
  <2>2. TriageComplete \notin CanonicalGates(job[p].edge)
            => CanonicalGates(job[p].edge) \subseteq passed'[job[p].run]
    BY <2>1 DEF CanonicalGates
  <2>3. pc'[p] = IF TriageComplete \in CanonicalGates(job[p].edge) THEN "tr-complete" ELSE "tr-save"
    BY <1>5 DEF GatePasses, Goto, TypeInv, TypeOK
  <2>4. JobGates(p)'
    BY <1>1, <1>4, <2>1, <2>2, <2>3 DEF JobGates
  <2>5. QED BY <1>1, <1>2, <1>3, <2>4, GateFrame
<1>6. CASE RecordTriageComplete(p)
  <2>1. job[p].edge \in passed[job[p].run]
    BY <1>1, <1>6 DEF RecordTriageComplete, JobGates
  <2>2. CanonicalGates(job[p].edge) \subseteq passed'[job[p].run]
    BY <1>1, <1>6, <2>1 DEF RecordTriageComplete, Record, CanonicalGates, TypeInv, TypeOK
  <2>3. pc'[p] = "tr-save"
    BY <1>6 DEF RecordTriageComplete, Goto, TypeInv, TypeOK
  <2>4. JobGates(p)'
    BY <1>1, <1>4, <2>2, <2>3 DEF JobGates
  <2>5. QED BY <1>1, <1>2, <1>3, <2>4, GateFrame
<1>7. CASE AbortRecord(p)
  <2>1. pc'[p] = "ab-commit"
    BY <1>7 DEF AbortRecord, Goto, TypeInv, TypeOK
  <2>2. JobGates(p)'
    BY <1>1, <1>4, <2>1 DEF JobGates
  <2>3. QED BY <1>1, <1>2, <1>3, <2>2, GateFrame
<1>8. QED BY <1>5, <1>6, <1>7

LEMMA GateAppend ==
    ASSUME TypeInv, GateInv, NEW p \in Procs, NEW r \in Runs, NEW g \in HandGates,
           LedgerAppend(p, r, g)
    PROVE  GateInv'
<1>1. \A q \in Runs : passed[q] \subseteq passed'[q]
  BY DEF TypeInv, TypeOK, Record, LedgerAppend
<1>2. manifest' = manifest /\ pc' = pc /\ job' = job /\ pc[p] = "idle"
  BY DEF LedgerAppend
<1>3. JobGates(p)'
  BY <1>2 DEF JobGates
<1>4. QED BY <1>1, <1>2, <1>3, GateFrame

LEMMA GateInit == Init => GateInv
  BY RecordedNew DEF Init, GateInv, JobGates

LEMMA GateStep == TypeInv /\ GateInv /\ [Next]_vars => GateInv'
<1>1. SUFFICES ASSUME TypeInv, GateInv, [Next]_vars PROVE GateInv'
  OBVIOUS
<1>2. CASE UNCHANGED vars
  BY <1>1, <1>2 DEF vars, files, GateInv, JobGates
<1>3. CASE OperatorEdit
  BY <1>1, <1>3 DEF OperatorEdit, GateInv, JobGates
<1>4. CASE \E p \in Procs : Call(p)
  BY <1>1, <1>4, GateCalls, GateAppend DEF Call
<1>5. CASE \E p \in Procs : Step(p) \/ Crash(p)
  BY <1>1, <1>5, GateMoves, GateReturns, GateSaves, GateRecords DEF Step
<1>6. QED BY <1>1, <1>2, <1>3, <1>4, <1>5 DEF Next

\* Every transition in a saved history has its canonical records on the run's
\* ledger, in every interleaving and after every crash (handle_transition
\* appends them before it replaces the manifest).
THEOREM GatesPrecedeEdges == Spec => []GateBeforeEdge
<1>1. Init => TypeInv /\ GateInv
  BY TypeInit, GateInit
<1>2. TypeInv /\ GateInv /\ [Next]_vars => (TypeInv /\ GateInv)'
  BY TypeStep, GateStep
<1>3. GateInv => GateBeforeEdge
  BY DEF GateInv, GateBeforeEdge, Recorded
<1>4. QED BY <1>1, <1>2, <1>3, PTL DEF Spec

-----------------------------------------------------------------------------
(***************************************************************************)
(* The lifecycle, when one process at most initialises runs.  A handler in *)
(* a run's critical section has the manifest as it is on disk, up to what  *)
(* it will change: of the handlers that save without the run lock, an init *)
(* meets no manifest yet, and a finalize a resolved one.                   *)
(***************************************************************************)
OneInitialiser == \A p, q \in Initialisers : p = q

InTeardown == {"ab-pointer", "ab-release", "ab-registry", "ab-deregister"}

\* What a handler knows of manifest d on disk; m is the one it will save.
Knows(p, m, d) ==
    /\ pc[p] = "in-save" => /\ p \in Initialisers /\ d.status = "absent"
                            /\ m.status = "active" /\ m.phase \in InitialPhases
    /\ pc[p] \in InTransition \cup {"ab-ledger", "ab-commit"} => m = d /\ d.status = "active"
    /\ pc[p] \in InTransition => job[p].edge[1] = d.phase
    /\ pc[p] = "up-save" => /\ d.status \in {"active", "resolved"}
                            /\ m.status = d.status /\ m.phase = d.phase
                            /\ d.status = "active" => d.fields \subseteq m.fields
    /\ pc[p] \in {"fi-stamp", "fi-sweep"} => /\ d.status = "resolved" /\ m.status = "resolved"
                                             /\ m.phase = "resolved"
    /\ pc[p] = "ab-commit" => AbortGate \in passed[job[p].run]
    /\ pc[p] \in InTeardown => d.status = "aborted"

\* Resolved is a phase and a status at once, of manifests and of copies.
Resolved(m) == m.status = "resolved" <=> m.phase = "resolved"

LifeInv ==
    /\ \A r \in Runs : Resolved(manifest[r])
    /\ \A p \in Procs : pc[p] # "idle" => Knows(p, job[p].man, manifest[job[p].run])

\* A step of p that changes manifests only as the others can bear.
LEMMA LifeFrame ==
    ASSUME TypeInv, LifeInv, NEW p \in Procs,
           \A q \in Procs \ {p} : pc'[q] = pc[q] /\ job'[q] = job[q],
           \A r \in Runs : passed[r] \subseteq passed'[r],
           \A r \in Runs : Resolved(manifest'[r]),
           \A q \in Procs \ {p} : pc[q] # "idle" /\ manifest'[job[q].run] # manifest[job[q].run]
               => Knows(q, job[q].man, manifest'[job[q].run]),
           (pc[p] # "idle")' => Knows(p, job[p].man, manifest[job[p].run])'
    PROVE  LifeInv'
<1>1. ASSUME NEW q \in Procs \ {p}, pc[q] # "idle"
      PROVE  Knows(q, job[q].man, manifest[job[q].run])'
  <2>1. Knows(q, job[q].man, manifest'[job[q].run])
    BY <1>1 DEF LifeInv
  <2>2. job[q].run \in Runs
    BY <1>1 DEF TypeInv, JobOK
  <2>3. QED BY <2>1, <2>2 DEF Knows
<1>2. QED BY <1>1 DEF LifeInv

\* A handler that starts, or moves on and saves nothing.
LEMMA LifeCalls ==
    ASSUME TypeInv, LockInv, LifeInv, NEW p \in Procs, NEW r \in Runs,
           \/ InitCheck(p, r) \/ FinalizeLoad(p, r) \/ AbortLoad(p, r)
           \/ \E to \in Phases \cup {"resolve"} : TransitionLoad(p, r, to)
           \/ \E f \in Fields : UpdateLoad(p, r, f)
           \/ StateWriteCall(p, r) \/ RegistryCall(p, r)
    PROVE  LifeInv'
<1>1. /\ UNCHANGED <<manifest, passed>>
      /\ \E label, j : Start(p, label, j)
  BY DEF InitCheck, FinalizeLoad, AbortLoad, TransitionLoad, UpdateLoad, StateWriteCall,
         RegistryCall, files
<1>2. \A q \in Procs \ {p} : pc'[q] = pc[q] /\ job'[q] = job[q]
  BY <1>1 DEF TypeInv, TypeOK, Start, Goto
<1>3. manifest[r] \in Manifests /\ Resolved(manifest[r])
  BY DEF TypeInv, TypeOK, LifeInv
<1>4. Knows(p, job[p].man, manifest[job[p].run])'
  <2>1. CASE InitCheck(p, r)
    <3>1. PICK ph \in InitialPhases :
             Start(p, "in-save", [NoJob EXCEPT !.run = r, !.man = NewManifest(ph)])
      BY <2>1 DEF InitCheck
    <3>2. pc'[p] = "in-save" /\ job'[p].run = r /\ job'[p].man = NewManifest(ph)
      BY <3>1 DEF Start, Goto, TypeInv, TypeOK, NoJob
    <3>3. p \in Initialisers /\ manifest[r].status = "absent"
      BY <2>1 DEF InitCheck
    <3>4. NewManifest(ph).status = "active" /\ NewManifest(ph).phase = ph
      BY DEF NewManifest
    <3>5. QED BY <1>1, <3>2, <3>3, <3>4 DEF Knows, InTransition, InTeardown
  <2>2. CASE FinalizeLoad(p, r)
    <3>1. pc'[p] = "fi-stamp" /\ job'[p].run = r /\ job'[p].man = manifest[r]
      BY <2>2 DEF FinalizeLoad, Start, Goto, TypeInv, TypeOK, NoJob
    <3>2. manifest[r].phase = "resolved"
      BY <1>3, <2>2 DEF FinalizeLoad, TerminalPhases, Manifests, Phases, LifecyclePhases
    <3>3. QED BY <1>1, <1>3, <3>1, <3>2 DEF Knows, Resolved, InTransition, InTeardown
  <2>3. CASE AbortLoad(p, r)
    <3>1. /\ pc'[p] = IF manifest[r].status = "active" THEN "ab-ledger" ELSE "ab-pointer"
          /\ job'[p].run = r /\ job'[p].man = manifest[r]
      BY <2>3 DEF AbortLoad, Start, Goto, TypeInv, TypeOK, NoJob
    <3>2. QED BY <1>1, <2>3, <3>1 DEF AbortLoad, Abortable, Knows, InTransition, InTeardown
  <2>4. CASE \E to \in Phases \cup {"resolve"} : TransitionLoad(p, r, to)
    <3>1. PICK to \in Phases \cup {"resolve"} : TransitionLoad(p, r, to)
      BY <2>4
    <3>2. /\ pc'[p] = "tr-gate" /\ job'[p].run = r /\ job'[p].man = manifest[r]
          /\ job'[p].edge[1] = manifest[r].phase
      BY <3>1 DEF TransitionLoad, Start, Goto, TypeInv, TypeOK, NoJob
    <3>3. manifest[r].status = "active"
      BY <3>1 DEF TransitionLoad, MayTransition
    <3>4. QED BY <1>1, <3>2, <3>3 DEF Knows, InTransition, InTeardown
  <2>5. CASE \E f \in Fields : UpdateLoad(p, r, f)
    <3>1. PICK f \in Fields : UpdateLoad(p, r, f)
      BY <2>5
    <3>2. /\ pc'[p] = "up-save" /\ job'[p].run = r
          /\ job'[p].man = [manifest[r] EXCEPT !.fields = @ \cup {f}]
      BY <3>1 DEF UpdateLoad, Start, Goto, TypeInv, TypeOK, NoJob
    <3>3. manifest[r].status \in {"active", "resolved"}
      BY <1>3, <3>1 DEF UpdateLoad, Manifests
    <3>4. QED BY <1>1, <1>3, <3>2, <3>3 DEF Knows, InTransition, InTeardown, Manifests
  <2>6. CASE StateWriteCall(p, r) \/ RegistryCall(p, r)
    <3>1. pc'[p] \in {"sw-wait", "rg-wait-register", "rg-wait-deregister"}
      BY <2>6 DEF StateWriteCall, RegistryCall, Start, Goto, TypeInv, TypeOK
    <3>2. QED BY <3>1 DEF Knows, InTransition, InTeardown
  <2>7. QED BY <2>1, <2>2, <2>3, <2>4, <2>5, <2>6
<1>5. QED BY <1>1, <1>2, <1>4, LifeFrame DEF LifeInv

LEMMA LifeMoves ==
    ASSUME TypeInv, LifeInv, NEW p \in Procs,
           \/ InitPointerLock(p) \/ AbortPointerLock(p) \/ AbortRelease(p) \/ AbortRegistryLock(p)
           \/ StateWriteLock(p) \/ RegistryRead(p)
           \/ GatePasses(p) \/ RecordTriageComplete(p) \/ AbortRecord(p)
    PROVE  LifeInv'
<1>1. /\ manifest' = manifest /\ pc[p] # "idle"
      /\ \A q \in Procs \ {p} : pc'[q] = pc[q] /\ job'[q] = job[q]
      /\ job'[p].run = job[p].run /\ job'[p].man = job[p].man /\ job'[p].edge = job[p].edge
  BY DEF InitPointerLock, AbortPointerLock, AbortRelease, AbortRegistryLock, StateWriteLock,
         RegistryRead, GatePasses, RecordTriageComplete, AbortRecord, files, Goto, TypeInv,
         TypeOK, Jobs
<1>2. job[p].run \in Runs /\ \A r \in Runs : passed[r] \subseteq passed'[r]
  BY <1>1 DEF InitPointerLock, AbortPointerLock, AbortRelease, AbortRegistryLock, StateWriteLock,
         RegistryRead, GatePasses, RecordTriageComplete, AbortRecord, files, Record, TypeInv,
         TypeOK, JobOK
<1>3. Knows(p, job[p].man, manifest[job[p].run])
  BY <1>1 DEF LifeInv
<1>4. Knows(p, job[p].man, manifest[job[p].run])'
  <2>1. CASE AbortRecord(p)
    BY <1>1, <1>2, <1>3, <2>1 DEF AbortRecord, Record, Goto, Knows, InTransition, InTeardown,
           TypeInv, TypeOK
  <2>2. CASE GatePasses(p) \/ RecordTriageComplete(p)
    <3>1. pc[p] \in InTransition /\ pc'[p] \in InTransition
      BY <2>2 DEF GatePasses, RecordTriageComplete, Goto, InTransition, TypeInv, TypeOK
    <3>2. QED BY <1>1, <1>3, <3>1 DEF Knows, InTransition, InTeardown
  <2>3. CASE AbortPointerLock(p) \/ AbortRelease(p) \/ AbortRegistryLock(p)
    <3>1. pc[p] \in InTeardown /\ pc'[p] \in InTeardown
      BY <2>3 DEF AbortPointerLock, AbortRelease, AbortRegistryLock, Goto, InTeardown, TypeInv, TypeOK
    <3>2. QED BY <1>1, <1>3, <3>1 DEF Knows, InTransition, InTeardown
  <2>4. CASE InitPointerLock(p) \/ StateWriteLock(p) \/ RegistryRead(p)
    <3>1. pc'[p] \in {"in-seed", "sw-write", "rg-register", "rg-deregister"}
      BY <2>4 DEF InitPointerLock, StateWriteLock, RegistryRead, Goto, TypeInv, TypeOK
    <3>2. QED BY <3>1 DEF Knows, InTransition, InTeardown
  <2>5. QED BY <2>1, <2>2, <2>3, <2>4
<1>5. QED BY <1>1, <1>2, <1>4, LifeFrame DEF LifeInv

LEMMA LifeReturns ==
    ASSUME TypeInv, LifeInv, NEW p \in Procs,
           \/ InitSeed(p) \/ GateBlocks(p) \/ SweepPasses(p) \/ AbortDeregister(p)
           \/ AbortTeardownRaises(p) \/ StateWrite(p) \/ RegistryRefuse(p) \/ RegistryWrite(p)
           \/ Crash(p)
    PROVE  LifeInv'
<1>1. UNCHANGED <<manifest, passed>> /\ Return(p)
  BY DEF InitSeed, GateBlocks, SweepPasses, AbortDeregister, AbortTeardownRaises, StateWrite,
         RegistryRefuse, RegistryWrite, Crash, files
<1>2. pc'[p] = "idle" /\ \A q \in Procs \ {p} : pc'[q] = pc[q] /\ job'[q] = job[q]
  BY <1>1 DEF Return, Goto, TypeInv, TypeOK
<1>3. QED BY <1>1, <1>2, LifeFrame DEF LifeInv

\* What the six saves do to the run they serve: the manifest m they replace it by.
LEMMA Saves ==
    ASSUME TypeInv, LifeInv, NEW p \in Procs,
           \/ InitSave(p) \/ TransitionSave(p) \/ UpdateSave(p) \/ FinalizeStamp(p)
           \/ SweepBlocks(p) \/ AbortCommit(p)
    PROVE  LET r == job[p].run
               d == manifest[r]
               e == job[p].edge
           IN /\ r \in Runs /\ passed' = passed
              /\ \A q \in Runs \ {r} : manifest'[q] = manifest[q]
              /\ \A q \in Procs \ {p} : pc'[q] = pc[q] /\ job'[q] = job[q]
              /\ InitSave(p) => /\ p \in Initialisers /\ d.status = "absent"
                                /\ manifest'[r].status = "active"
                                /\ manifest'[r].phase \in InitialPhases
              /\ TransitionSave(p) =>
                    /\ d.status = "active" /\ e \in Edges /\ e[1] = d.phase
                    /\ manifest'[r].phase = e[2] /\ manifest'[r].fields = d.fields
                    /\ manifest'[r].status = IF e[2] = "resolved" THEN "resolved" ELSE "active"
              /\ UpdateSave(p) => /\ d.status \in {"active", "resolved"}
                                  /\ manifest'[r].status = d.status
                                  /\ manifest'[r].phase = d.phase
                                  /\ d.status = "active" => d.fields \subseteq manifest'[r].fields
              /\ FinalizeStamp(p) \/ SweepBlocks(p) =>
                    /\ d.status = "resolved" /\ d.phase = "resolved"
                    /\ manifest'[r].status = "resolved" /\ manifest'[r].phase = "resolved"
              /\ AbortCommit(p) => /\ d.status = "active" /\ d.phase # "resolved"
                                   /\ AbortGate \in passed[r]
                                   /\ manifest'[r].status = "aborted"
                                   /\ manifest'[r].phase = d.phase
                                   /\ manifest'[r].fields = d.fields
<1> DEFINE r == job[p].run
           d == manifest[r]
           e == job[p].edge
<1>1. /\ r \in Runs /\ job[p].man \in Manifests /\ d \in Manifests /\ Resolved(d)
      /\ Knows(p, job[p].man, d) /\ pc[p] # "idle" /\ passed' = passed
  <2>1. pc[p] # "idle" /\ passed' = passed
    BY DEF InitSave, TransitionSave, UpdateSave, FinalizeStamp, SweepBlocks, AbortCommit
  <2>2. QED BY <2>1 DEF TypeInv, TypeOK, JobOK, Jobs, LifeInv
<1>2. \A q \in Procs \ {p} : pc'[q] = pc[q] /\ job'[q] = job[q]
  BY DEF InitSave, TransitionSave, UpdateSave, FinalizeStamp, SweepBlocks, AbortCommit, Return,
         Goto, TypeInv, TypeOK
<1>3. ASSUME NEW m, SaveManifest(p, m)
      PROVE  manifest'[r] = m /\ \A q \in Runs \ {r} : manifest'[q] = manifest[q]
  BY <1>1, <1>3 DEF SaveManifest, TypeInv, TypeOK
<1>4. \A q \in Runs \ {r} : manifest'[q] = manifest[q]
  BY <1>3 DEF InitSave, TransitionSave, UpdateSave, FinalizeStamp, SweepBlocks, AbortCommit
<1>5. InitSave(p) => /\ p \in Initialisers /\ d.status = "absent"
                     /\ manifest'[r].status = "active" /\ manifest'[r].phase \in InitialPhases
  BY <1>1, <1>3 DEF InitSave, Knows
<1>6. ASSUME TransitionSave(p)
      PROVE  /\ d.status = "active" /\ e \in Edges /\ e[1] = d.phase
             /\ manifest'[r].phase = e[2] /\ manifest'[r].fields = d.fields
             /\ manifest'[r].status = IF e[2] = "resolved" THEN "resolved" ELSE "active"
  <2>1. pc[p] \in InTransition /\ e \in Edges
    BY <1>6 DEF TransitionSave, InTransition, TypeInv, JobOK
  <2>2. d.status = "active" /\ e[1] = d.phase /\ job[p].man = d
    BY <1>1, <2>1 DEF Knows
  <2>3. manifest'[r] = Advanced(d, e)
    BY <1>3, <1>6, <2>2 DEF TransitionSave
  <2>4. e[2] \in TerminalPhases <=> e[2] = "resolved"
    BY <2>1, EdgeFacts DEF TerminalPhases, Phases, LifecyclePhases
  <2>5. QED BY <1>1, <2>1, <2>2, <2>3, <2>4 DEF Advanced, Manifests
<1>7. UpdateSave(p) => /\ d.status \in {"active", "resolved"} /\ manifest'[r].status = d.status
                       /\ manifest'[r].phase = d.phase
                       /\ d.status = "active" => d.fields \subseteq manifest'[r].fields
  BY <1>1, <1>3 DEF UpdateSave, Knows
<1>8. FinalizeStamp(p) \/ SweepBlocks(p) =>
         /\ d.status = "resolved" /\ d.phase = "resolved"
         /\ manifest'[r].status = "resolved" /\ manifest'[r].phase = "resolved"
  <2>1. ASSUME FinalizeStamp(p) \/ SweepBlocks(p)
        PROVE  /\ d.status = "resolved" /\ job[p].man.status = "resolved"
               /\ job[p].man.phase = "resolved"
    BY <1>1, <2>1 DEF FinalizeStamp, SweepBlocks, Knows
  <2>2. ASSUME FinalizeStamp(p)
        PROVE  manifest'[r].status = "resolved" /\ manifest'[r].phase = job[p].man.phase
    <3>1. manifest'[r] = [job[p].man EXCEPT !.status = "resolved", !.finalized = TRUE]
      BY <1>3, <2>2 DEF FinalizeStamp
    <3>2. QED BY <1>1, <3>1 DEF Manifests
  <2>3. ASSUME SweepBlocks(p) PROVE manifest'[r] = job[p].man
    BY <1>3, <2>3 DEF SweepBlocks
  <2>4. QED BY <1>1, <2>1, <2>2, <2>3 DEF Resolved
<1>9. AbortCommit(p) => /\ d.status = "active" /\ d.phase # "resolved" /\ AbortGate \in passed[r]
                        /\ manifest'[r].status = "aborted" /\ manifest'[r].phase = d.phase
                        /\ manifest'[r].fields = d.fields
  <2>1. AbortCommit(p) => manifest'[r] = Aborted(job[p].man) /\ job[p].man = d
    BY <1>1, <1>3 DEF AbortCommit, Knows
  <2>2. AbortCommit(p) => d.status = "active" /\ AbortGate \in passed[r]
    BY <1>1 DEF AbortCommit, Knows
  <2>3. /\ Aborted(d).status = "aborted" /\ Aborted(d).phase = d.phase
        /\ Aborted(d).fields = d.fields
    BY <1>1 DEF Aborted, Manifests
  <2>4. QED BY <1>1, <2>1, <2>2, <2>3 DEF Resolved
<1>10. QED BY <1>1, <1>2, <1>4, <1>5, <1>6, <1>7, <1>8, <1>9

\* No other handler is in the way of a save: one in the run's critical section
\* would hold its lock, an init would find a manifest, a finalize needs a
\* resolved run, which stays resolved.
LEMMA LifeSaves ==
    ASSUME OneInitialiser, TypeInv, LockInv, LifeInv, NEW p \in Procs,
           \/ InitSave(p) \/ TransitionSave(p) \/ UpdateSave(p) \/ FinalizeStamp(p)
           \/ SweepBlocks(p) \/ AbortCommit(p)
    PROVE  LifeInv'
<1> DEFINE r == job[p].run
           d == manifest[r]
           e == job[p].edge
<1>1. /\ r \in Runs /\ passed' = passed /\ d \in Manifests /\ Resolved(d)
      /\ \A q \in Runs \ {r} : manifest'[q] = manifest[q]
      /\ \A q \in Procs \ {p} : pc'[q] = pc[q] /\ job'[q] = job[q]
  BY Saves DEF TypeInv, TypeOK, LifeInv
<1>2. Resolved(manifest'[r])
  <2>1. CASE InitSave(p)
    BY <2>1, Saves DEF Resolved, InitialPhases
  <2>2. CASE TransitionSave(p) \/ UpdateSave(p)
    BY <1>1, <2>2, Saves DEF Resolved
  <2>3. CASE FinalizeStamp(p) \/ SweepBlocks(p) \/ AbortCommit(p)
    BY <2>3, Saves DEF Resolved
  <2>4. QED BY <2>1, <2>2, <2>3
<1>3. ASSUME NEW q \in Procs \ {p}, pc[q] # "idle", job[q].run = r
      PROVE  Knows(q, job[q].man, manifest'[r])
  <2>1. Knows(q, job[q].man, d)
    BY <1>3 DEF LifeInv
  <2>2. CASE InitSave(p)
    <3>1. p \in Initialisers /\ d.status = "absent"
      BY <2>2, Saves
    <3>2. pc[q] \notin {"in-save", "up-save", "fi-stamp", "fi-sweep", "ab-ledger", "ab-commit"}
                         \cup InTransition \cup InTeardown
      BY <1>3, <2>1, <3>1 DEF Knows, OneInitialiser
    <3>3. QED BY <3>2 DEF Knows
  <2>3. CASE TransitionSave(p) \/ UpdateSave(p) \/ AbortCommit(p)
    <3>1. pc[p] \in InRunLock /\ pc[q] \notin InRunLock
      BY <1>1, <1>3, <2>3 DEF TransitionSave, UpdateSave, AbortCommit, InRunLock, LockInv
    <3>2. d.status \in {"active", "resolved"} /\ pc[q] # "in-save"
      BY <2>1, <2>3, Saves DEF Knows
    <3>3. pc[q] \in {"fi-stamp", "fi-sweep"} => UpdateSave(p)
      BY <2>1, <2>3, Saves DEF Knows
    <3>4. UpdateSave(p) => manifest'[r].status = d.status
      BY Saves
    <3>5. pc[q] \notin {"in-save", "up-save", "ab-ledger", "ab-commit"}
                         \cup InTransition \cup InTeardown
      BY <3>1, <3>2 DEF InRunLock, InTransition, InTeardown
    <3>6. pc[q] \in {"fi-stamp", "fi-sweep"}
             => /\ manifest'[r].status = "resolved" /\ job[q].man.status = "resolved"
                /\ job[q].man.phase = "resolved"
      BY <2>1, <3>3, <3>4 DEF Knows
    <3>7. QED BY <3>5, <3>6 DEF Knows
  <2>4. CASE FinalizeStamp(p) \/ SweepBlocks(p)
    <3>1. /\ d.status = "resolved" /\ d.phase = "resolved"
          /\ manifest'[r].status = "resolved" /\ manifest'[r].phase = "resolved"
      BY <2>4, Saves
    <3>2. QED BY <2>1, <3>1 DEF Knows, InTransition
  <2>5. QED BY <2>2, <2>3, <2>4
<1>4. (pc[p] # "idle")' => Knows(p, job[p].man, manifest[job[p].run])'
  <2>1. CASE InitSave(p) \/ TransitionSave(p) \/ UpdateSave(p) \/ SweepBlocks(p)
    <3>1. pc'[p] \in {"in-pointer", "idle"}
      BY <2>1 DEF InitSave, TransitionSave, UpdateSave, SweepBlocks, Return, Goto, TypeInv, TypeOK
    <3>2. QED BY <3>1 DEF Knows, InTransition, InTeardown
  <2>2. CASE FinalizeStamp(p)
    <3>1. pc'[p] = "fi-sweep" /\ job' = job
      BY <2>2 DEF FinalizeStamp, Goto, TypeInv, TypeOK
    <3>2. Knows(p, job[p].man, d) /\ pc[p] = "fi-stamp"
      BY <2>2 DEF FinalizeStamp, LifeInv
    <3>3. QED BY <2>2, <3>1, <3>2, Saves DEF Knows, InTransition, InTeardown
  <2>3. CASE AbortCommit(p)
    <3>1. pc'[p] = "ab-pointer" /\ job' = job
      BY <2>3 DEF AbortCommit, Goto, TypeInv, TypeOK
    <3>2. QED BY <2>3, <3>1, Saves DEF Knows, InTransition, InTeardown
  <2>4. QED BY <2>1, <2>2, <2>3
<1>5. \A q \in Runs : Resolved(manifest'[q])
  BY <1>1, <1>2 DEF LifeInv
<1>6. \A q \in Procs \ {p} : pc[q] # "idle" /\ manifest'[job[q].run] # manifest[job[q].run]
               => Knows(q, job[q].man, manifest'[job[q].run])
  BY <1>1, <1>3 DEF TypeInv, JobOK
<1>7. QED BY <1>1, <1>4, <1>5, <1>6, LifeFrame

LEMMA LifeStep == OneInitialiser /\ TypeInv /\ LockInv /\ LifeInv /\ [Next]_vars => LifeInv'
<1>1. SUFFICES ASSUME OneInitialiser, TypeInv, LockInv, LifeInv, [Next]_vars PROVE LifeInv'
  OBVIOUS
<1>2. CASE UNCHANGED vars
  BY <1>1, <1>2 DEF vars, files, LifeInv, Knows
<1>3. CASE OperatorEdit
  BY <1>1, <1>3 DEF OperatorEdit, LifeInv, Knows
<1>4. ASSUME NEW p \in Procs, NEW r \in Runs, NEW g \in HandGates, LedgerAppend(p, r, g)
      PROVE  LifeInv'
  <2>1. UNCHANGED <<manifest, pc, job>> /\ \A s \in Runs : passed[s] \subseteq passed'[s]
    BY <1>1, <1>4 DEF LedgerAppend, Record, TypeInv, TypeOK
  <2>2. pc[p] = "idle"
    BY <1>4 DEF LedgerAppend
  <2>3. QED BY <1>1, <2>1, <2>2, LifeFrame DEF LifeInv
<1>5. CASE \E p \in Procs : Call(p)
  BY <1>1, <1>4, <1>5, LifeCalls DEF Call
<1>6. CASE \E p \in Procs : Step(p) \/ Crash(p)
  BY <1>1, <1>6, LifeMoves, LifeReturns, LifeSaves DEF Step
<1>7. QED BY <1>1, <1>2, <1>3, <1>5, <1>6 DEF Next

StateInv == SharedInv /\ GateInv /\ LifeInv

LEMMA StateHolds == OneInitialiser => (Spec => []StateInv)
<1>1. Init => StateInv
  <2>1. Init => LifeInv
    BY DEF Init, LifeInv, Resolved, NoManifest, NewManifest
  <2>2. Init => SharedInv
    BY TypeInit, LockInit DEF Init, SharedInv, CopyInv, CopyOf, InPointerLock, InRegistryLock
  <2>3. QED BY <2>1, <2>2, GateInit DEF StateInv
<1>2. OneInitialiser /\ StateInv /\ [Next]_vars => StateInv'
  BY TypeStep, LockStep, CopyStep, GateStep, LifeStep DEF StateInv, SharedInv
<1>3. ASSUME OneInitialiser PROVE Spec => []StateInv
  <2>1. StateInv /\ [Next]_vars => StateInv'
    BY <1>2, <1>3
  <2>2. QED BY <1>1, <2>1, PTL DEF Spec
<1>4. QED BY <1>3

\* A step changes a manifest only by one of the six saves of a handler that
\* serves its run.
LEMMA OnlySavesSave ==
    ASSUME TypeInv, NEW p \in Procs, Call(p) \/ Step(p) \/ Crash(p), manifest' # manifest
    PROVE  \/ InitSave(p) \/ TransitionSave(p) \/ UpdateSave(p) \/ FinalizeStamp(p)
           \/ SweepBlocks(p) \/ AbortCommit(p)
  BY DEF Call, Step, InitCheck, FinalizeLoad, AbortLoad, TransitionLoad, UpdateLoad,
         LedgerAppend, StateWriteCall, RegistryCall, InitPointerLock, InitSeed, GateBlocks,
         GatePasses, RecordTriageComplete, SweepPasses, AbortRecord, AbortPointerLock,
         AbortRelease, AbortRegistryLock, AbortDeregister, AbortTeardownRaises, StateWriteLock,
         StateWrite, RegistryRead, RegistryRefuse, RegistryWrite, Crash, files

LEMMA ManifestSteps ==
    ASSUME StateInv, [Next]_vars, NEW r \in Runs, manifest'[r] # manifest[r]
    PROVE  \E p \in Procs :
              /\ job[p].run = r
              /\ \/ InitSave(p) \/ TransitionSave(p) \/ UpdateSave(p) \/ FinalizeStamp(p)
                 \/ SweepBlocks(p) \/ AbortCommit(p)
<1>1. PICK p \in Procs : Call(p) \/ Step(p) \/ Crash(p)
  BY DEF Next, OperatorEdit, vars, files
<1>2. TypeInv /\ LifeInv /\ manifest' # manifest
  BY DEF StateInv, SharedInv
<1>3. \/ InitSave(p) \/ TransitionSave(p) \/ UpdateSave(p) \/ FinalizeStamp(p)
      \/ SweepBlocks(p) \/ AbortCommit(p)
  BY <1>1, <1>2, OnlySavesSave
<1>4. job[p].run = r
  BY <1>2, <1>3, Saves
<1>5. QED BY <1>3, <1>4

\* Nothing brings an aborted run back, or touches its manifest: whatever a
\* handler read before the abort, it cannot save after it
\* (handle_transition, handle_register_artifact and handle_workspace load
\* under the run lock; handle_finalize refuses what is not resolved).
THEOREM AbortedStays == OneInitialiser => (Spec => AbortIsFinal)
<1>1. ASSUME StateInv, [Next]_vars, NEW r \in Runs, manifest[r].status = "aborted"
      PROVE  manifest'[r] = manifest[r]
  <2>1. TypeInv /\ LifeInv
    BY <1>1 DEF StateInv, SharedInv
  <2>2. QED BY <1>1, <2>1, ManifestSteps, Saves
<1>2. StateInv /\ [Next]_vars =>
         [\A r \in Runs : manifest[r].status = "aborted" => manifest'[r] = manifest[r]]_vars
  BY <1>1
<1>3. QED BY <1>2, StateHolds, PTL DEF Spec, AbortIsFinal

\* No save of an active run drops what another handler registered: the copy
\* that is saved is the manifest on disk and something more.
THEOREM FieldsAreKept == OneInitialiser => (Spec => FieldsKeptWhileActive)
<1>1. ASSUME StateInv, [Next]_vars, NEW r \in Runs, manifest[r].status = "active"
      PROVE  manifest[r].fields \subseteq manifest'[r].fields
  <2>1. TypeInv /\ LifeInv
    BY <1>1 DEF StateInv, SharedInv
  <2>2. QED BY <1>1, <2>1, ManifestSteps, Saves
<1>2. StateInv /\ [Next]_vars =>
         [\A r \in Runs : manifest[r].status = "active"
                            => manifest[r].fields \subseteq manifest'[r].fields]_vars
  BY <1>1
<1>3. QED BY <1>2, StateHolds, PTL DEF Spec, FieldsKeptWhileActive

\* A teardown takes nobody else's claim: under the pointer's and the
\* registry's lock it has the file as it is, and its run is aborted
\* (handle_abort releases the pointer only if it names the run).
THEOREM ClaimsAreHeld == OneInitialiser => (Spec => ClaimsHeldWhileActive)
<1> DEFINE Kept(r) == /\ pointer = r => pointer' # Unnamed
                      /\ r \in registry \ registry' =>
                           \E p \in Procs : job[p].run = r /\ pc[p] = "rg-deregister"
<1>1. ASSUME StateInv, [Next]_vars, NEW r \in Runs, manifest[r].status # "aborted"
      PROVE  Kept(r)
  <2>0. TypeInv /\ LockInv /\ CopyInv /\ LifeInv /\ r \notin {NoFile, Unnamed}
    BY <1>1, PointerAssumption DEF StateInv, SharedInv
  <2>1. CASE UNCHANGED <<pointer, registry>>
    BY <2>0, <2>1
  <2>2. CASE ~UNCHANGED <<pointer, registry>>
    <3>1. PICK p \in Procs : Call(p) \/ Step(p) \/ Crash(p)
      BY <1>1, <2>2 DEF Next, OperatorEdit, vars, files
    <3>2. InitSeed(p) \/ AbortRelease(p) \/ StateWrite(p) \/ AbortDeregister(p) \/ RegistryWrite(p)
      BY <2>2, <3>1 DEF Call, Step, InitCheck, FinalizeLoad, AbortLoad, TransitionLoad, UpdateLoad,
             LedgerAppend, StateWriteCall, RegistryCall, InitSave, InitPointerLock, GateBlocks,
             GatePasses, RecordTriageComplete, TransitionSave, UpdateSave, FinalizeStamp,
             SweepPasses, SweepBlocks, AbortRecord, AbortCommit, AbortPointerLock,
             AbortRegistryLock, AbortTeardownRaises, StateWriteLock, RegistryRead,
             RegistryRefuse, Crash, files
    <3>3. job[p].run \in Runs /\ job[p].run # Unnamed /\ Knows(p, job[p].man, manifest[job[p].run])
      BY <2>0, <3>2, PointerAssumption DEF TypeInv, JobOK, LifeInv, InitSeed, AbortRelease,
             StateWrite, AbortDeregister, RegistryWrite
    <3>4. CASE InitSeed(p) \/ StateWrite(p)
      <4>1. job[p].ptr = pointer
        BY <2>0, <3>4 DEF CopyInv, CopyOf, InitSeed, StateWrite, InPointerLock
      <4>2. QED BY <2>0, <3>3, <3>4, <4>1 DEF InitSeed, StateWrite
    <3>5. CASE AbortRelease(p) \/ AbortDeregister(p)
      <4>1. job[p].run # r
        BY <1>1, <3>3, <3>5 DEF Knows, AbortRelease, AbortDeregister, InTeardown
      <4>2. AbortRelease(p) => job[p].ptr = pointer
        BY <2>0 DEF CopyInv, CopyOf, AbortRelease, InPointerLock
      <4>3. AbortDeregister(p) => job[p].reg = registry
        BY <2>0 DEF CopyInv, CopyOf, AbortDeregister, InRegistryLock
      <4>4. QED BY <2>0, <3>5, <4>1, <4>2, <4>3 DEF AbortRelease, AbortDeregister, NamesRun
    <3>6. CASE RegistryWrite(p)
      <4>1. job[p].reg = registry
        BY <2>0, <3>6 DEF CopyInv, CopyOf, RegistryWrite, InRegistryLock
      <4>2. QED BY <2>0, <3>6, <4>1 DEF RegistryWrite
    <3>7. QED BY <3>2, <3>4, <3>5, <3>6
  <2>3. QED BY <2>1, <2>2
<1>2. StateInv /\ [Next]_vars =>
         [\A r \in Runs : manifest[r].status # "aborted" =>
            /\ pointer = r => pointer' # Unnamed
            /\ r \in registry \ registry' =>
                  \E p \in Procs : job[p].run = r /\ pc[p] = "rg-deregister"]_vars
  BY <1>1
<1>3. QED BY <1>2, StateHolds, PTL DEF Spec, ClaimsHeldWhileActive

-----------------------------------------------------------------------------
(***************************************************************************)
(* The engine implements the abstract lifecycle: a save crosses an edge    *)
(* whose gates are recorded, begins or stops a run, or leaves status and   *)
(* phase alone; a record admits a gate; everything else stutters.          *)
(***************************************************************************)
LEMMA LifecycleInit == Init => Lifecycle!Init
  BY DEF Init, Lifecycle!Init, NoManifest, NewManifest

\* The lifecycle's own copies of the graph are the engine's.
LEMMA SameGraph ==
    /\ Lifecycle!Edges = Edges /\ Lifecycle!TriageComplete = TriageComplete
    /\ Lifecycle!InitialPhases = InitialPhases
    /\ \A e : Lifecycle!CanonicalGates(e) = CanonicalGates(e)
  BY DEF Lifecycle!Edges, Edges, Lifecycle!Phases, Phases, Lifecycle!LifecyclePhases,
         LifecyclePhases, Lifecycle!ValidTransitions, ValidTransitions,
         Lifecycle!LifecycleGraph, LifecycleGraph, Lifecycle!TerminalSink, TerminalSink,
         Lifecycle!CanonicalTarget, CanonicalTarget, Lifecycle!TriageComplete, TriageComplete,
         Lifecycle!InitialPhases, InitialPhases, Lifecycle!CanonicalGates, CanonicalGates

\* What the lifecycle sees of the manifests.
StatusOf == [r \in Runs |-> manifest[r].status]
PhaseOf  == [r \in Runs |-> manifest[r].phase]

LEMMA LifecycleQuiet ==
    ASSUME UNCHANGED <<StatusOf, PhaseOf, passed>>
    PROVE  UNCHANGED Lifecycle!lifecycle
  BY DEF Lifecycle!lifecycle, StatusOf, PhaseOf

LEMMA LifecycleSaves ==
    ASSUME StateInv, NEW p \in Procs,
           \/ InitSave(p) \/ TransitionSave(p) \/ UpdateSave(p) \/ FinalizeStamp(p)
           \/ SweepBlocks(p) \/ AbortCommit(p)
    PROVE  [Lifecycle!Next]_(Lifecycle!lifecycle)
<1>0. job[p].run \in Runs
  BY Saves DEF StateInv, SharedInv
<1> PICK r \in Runs : r = job[p].run
  BY <1>0
<1> PICK e : e = job[p].edge
  OBVIOUS
<1> DEFINE d == manifest[r]
<1>1. TypeInv /\ LifeInv /\ r \in Runs /\ passed' = passed
  BY Saves DEF StateInv, SharedInv
<1>2. \A q \in Runs \ {r} : manifest'[q] = manifest[q]
  BY <1>1, Saves
<1>3. /\ StatusOf' = [StatusOf EXCEPT ![r] = manifest'[r].status]
      /\ PhaseOf' = [PhaseOf EXCEPT ![r] = manifest'[r].phase]
      /\ StatusOf[r] = d.status /\ PhaseOf[r] = d.phase
  BY <1>1, <1>2 DEF StatusOf, PhaseOf
<1>4. CASE InitSave(p)
  <2>1. d.status = "absent" /\ manifest'[r].status = "active" /\ manifest'[r].phase \in InitialPhases
    BY <1>1, <1>4, Saves
  <2>2. Lifecycle!Begin(r)
    BY <1>1, <1>3, <2>1, SameGraph DEF Lifecycle!Begin, StatusOf, PhaseOf
  <2>3. QED BY <1>1, <2>2 DEF Lifecycle!Next
<1>5. CASE TransitionSave(p)
  <2>1. /\ d.status = "active" /\ e \in Edges /\ e[1] = d.phase /\ manifest'[r].phase = e[2]
        /\ manifest'[r].status = IF e[2] = "resolved" THEN "resolved" ELSE d.status
    BY <1>1, <1>5, Saves
  <2>2. CanonicalGates(e) \subseteq passed[r]
    BY <1>5 DEF StateInv, GateInv, JobGates, TransitionSave
  <2>3. Lifecycle!Cross(r, e)
    BY <1>1, <1>3, <2>1, <2>2, SameGraph DEF Lifecycle!Cross, StatusOf, PhaseOf
  <2>4. QED BY <1>1, <2>1, <2>3, SameGraph DEF Lifecycle!Next
<1>6. CASE UpdateSave(p) \/ FinalizeStamp(p) \/ SweepBlocks(p)
  <2>1. manifest'[r].status = d.status /\ manifest'[r].phase = d.phase
    BY <1>1, <1>6, Saves
  <2>2. StatusOf' = StatusOf /\ PhaseOf' = PhaseOf
    BY <1>1, <1>2, <2>1 DEF StatusOf, PhaseOf
  <2>3. QED BY <1>1, <2>2, LifecycleQuiet
<1>7. CASE AbortCommit(p)
  <2>1. /\ d.status = "active" /\ AbortGate \in passed[r]
        /\ manifest'[r].status = "aborted" /\ manifest'[r].phase = d.phase
    BY <1>1, <1>7, Saves
  <2>2. PhaseOf' = PhaseOf
    BY <1>1, <1>2, <2>1 DEF PhaseOf
  <2>3. Lifecycle!Stop(r)
    BY <1>1, <1>3, <2>1, <2>2 DEF Lifecycle!Stop, StatusOf, PhaseOf
  <2>4. QED BY <1>1, <2>3 DEF Lifecycle!Next
<1>8. QED BY <1>4, <1>5, <1>6, <1>7

LEMMA LifecycleRecords ==
    ASSUME StateInv, NEW p \in Procs,
           \/ GatePasses(p) \/ RecordTriageComplete(p) \/ AbortRecord(p)
           \/ \E s \in Runs, h \in HandGates : LedgerAppend(p, s, h)
    PROVE  [Lifecycle!Next]_(Lifecycle!lifecycle)
<1>1. \E s \in Runs, g \in Gates : Record(s, g) /\ manifest' = manifest
  BY RunStateAssumption DEF StateInv, SharedInv, TypeInv, JobOK, GatePasses,
     RecordTriageComplete, AbortRecord, LedgerAppend, Gates
<1>2. PICK s \in Runs, g \in Gates : Record(s, g) /\ manifest' = manifest
  BY <1>1
<1>3. Lifecycle!Admit(s, g)
  BY <1>2 DEF Lifecycle!Admit, Record
<1>4. g \in Lifecycle!Edges \cup {Lifecycle!TriageComplete, AbortGate}
  BY SameGraph DEF Gates
<1>5. QED BY <1>2, <1>3, <1>4 DEF Lifecycle!Next

\* Read off manifests and ledgers, every step of every interleaving and crash
\* is a step of RunLifecycle or leaves it unchanged.
THEOREM EngineImplementsLifecycle == OneInitialiser => (Spec => ImplementsLifecycle)
<1>1. ASSUME StateInv, [Next]_vars
      PROVE  [Lifecycle!Next]_(Lifecycle!lifecycle)
  <2>1. CASE UNCHANGED <<manifest, passed>>
    BY <2>1, LifecycleQuiet DEF StatusOf, PhaseOf
  <2>2. CASE manifest' # manifest
    <3>1. PICK p \in Procs : Call(p) \/ Step(p) \/ Crash(p)
      BY <1>1, <2>2 DEF Next, OperatorEdit, vars, files
    <3>2. TypeInv
      BY <1>1 DEF StateInv, SharedInv
    <3>3. QED BY <1>1, <2>2, <3>1, <3>2, OnlySavesSave, LifecycleSaves
  <2>3. CASE passed' # passed
    <3>1. PICK p \in Procs : Call(p) \/ Step(p) \/ Crash(p)
      BY <1>1, <2>3 DEF Next, OperatorEdit, vars, files
    <3>2. \/ GatePasses(p) \/ RecordTriageComplete(p) \/ AbortRecord(p)
          \/ \E s \in Runs, h \in HandGates : LedgerAppend(p, s, h)
      BY <2>3, <3>1 DEF Call, Step, InitCheck, FinalizeLoad, AbortLoad, TransitionLoad,
         UpdateLoad, StateWriteCall, RegistryCall, InitSave, InitPointerLock, InitSeed,
         GateBlocks, TransitionSave, UpdateSave, FinalizeStamp, SweepPasses, SweepBlocks,
         AbortCommit, AbortPointerLock, AbortRelease, AbortRegistryLock, AbortDeregister,
         AbortTeardownRaises, StateWriteLock, StateWrite, RegistryRead, RegistryRefuse,
         RegistryWrite, Crash, files
    <3>3. QED BY <1>1, <3>2, LifecycleRecords
  <2>4. QED BY <2>1, <2>2, <2>3
<1>2. QED BY <1>1, StateHolds, LifecycleInit, PTL DEF Spec, ImplementsLifecycle, Lifecycle!Spec
=============================================================================
