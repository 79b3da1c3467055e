------------------------------ MODULE RunState ------------------------------
(***************************************************************************)
(* The state engine of UACP: the handlers of state_machine.py and state.py *)
(* that create, advance, amend, finalize and abort governed runs, and the  *)
(* shared files they read and write.  Every handler runs in a process of   *)
(* its own (one per tool call of an agent session), so the handlers of     *)
(* several agents interleave between any two file accesses, and a process  *)
(* can be killed between them.                                             *)
(*                                                                         *)
(* One step is one access to a file: a manifest is read, or replaced as a  *)
(* whole by an atomic rename; a ledger line is appended by one write; the  *)
(* pointer and the registry are read under their lock and replaced in a    *)
(* later step.  A process that waits for the lock it takes first has       *)
(* neither read nor written anything, so taking that lock and the first    *)
(* read are one step; the waits of a call that was checked before it       *)
(* queues, or that already holds a lock, are steps of their own.           *)
(***************************************************************************)
EXTENDS PhaseGraph, Naturals, Sequences, FiniteSets

CONSTANTS
    Runs,           \* run ids
    Procs,          \* processes that execute handlers
    NoRun, NoProc,  \* no run, no process
    Fields,         \* what register-artifact and workspace update put in a manifest
    HandGates,      \* passing gate records agents append by hand
    Initialisers,   \* processes whose agent calls uacp_run_init
    Finalisers,     \* processes whose agent calls uacp_run_finalize
    Crashers,       \* processes that may be killed in the middle of a handler
    LateCallers,    \* TRUE: agents of an aborted run still call pointer and registry tools
    OperatorEdits,  \* TRUE: an operator may break and repair the two shared YAML files
    MaxEdges        \* bound on the transitions of a run

ASSUME RunStateAssumption ==
    /\ NoRun \notin Runs /\ NoProc \notin Procs
    /\ Initialisers \subseteq Procs /\ Finalisers \subseteq Procs /\ Crashers \subseteq Procs
    /\ HandGates \subseteq Edges \cup {TriageComplete}
    /\ LateCallers \in BOOLEAN /\ OperatorEdits \in BOOLEAN /\ MaxEdges \in Nat

VARIABLES
    manifest,        \* state/runs/{run}.yaml
    passed,          \* the gates with a passing record in state/gate-ledger/{run}.jsonl
    pointer,         \* the run state/current.yaml names
    pointerReadable, \* state/current.yaml parses to a mapping
    registry,        \* the runs with an entry in state/run-registry.yaml
    registryReadable,\* state/run-registry.yaml parses to a mapping with a list
    runLock,         \* the process that holds gate-ledger/{run}.lock
    pointerLock,     \* the process that holds .current.yaml.lock
    registryLock,    \* the process that holds .run-registry.yaml.lock
    pc, job,         \* per process: the step it is at, and its local variables
    swept            \* history variable: runs a finalize found the closure sweep passing on

files == <<manifest, passed, pointer, pointerReadable, registry, registryReadable>>
locks == <<runLock, pointerLock, registryLock>>
vars  == <<files, locks, pc, job, swept>>

-----------------------------------------------------------------------------
AbortGate  == <<"any", "abort">>
Gates      == Edges \cup {TriageComplete, AbortGate}
NoEdge     == <<"none", "none">>
NoFile     == "no-file"   \* state/current.yaml does not exist
Unnamed    == "unnamed"   \* it exists and its active_run_id is null
ASSUME PointerAssumption == {NoFile, Unnamed} \cap Runs = {}
HistoryEntries == Edges \cup (Phases \X {"aborted"})

Manifests == [phase: Phases, status: {"absent", "active", "resolved", "aborted"},
              history: Seq(HistoryEntries), fields: SUBSET Fields, finalized: BOOLEAN]

\* A manifest as handle_init builds it; `absent' stands for a missing file.
NewManifest(ph) == [phase |-> ph, status |-> "active", history |-> <<>>,
                    fields |-> {}, finalized |-> FALSE]
NoManifest == [NewManifest("triage") EXCEPT !.status = "absent"]

\* The local variables of a handler: the run it serves, the manifest it
\* loaded (or is about to save), the edge it crosses, the pointer and the
\* registry it read.
NoJob == [run |-> NoRun, man |-> NoManifest, edge |-> NoEdge,
          ptr |-> NoFile, reg |-> {}]
Jobs  == [run: Runs \cup {NoRun}, man: Manifests, edge: Edges \cup {NoEdge},
          ptr: Runs \cup {NoFile, Unnamed}, reg: SUBSET Runs]

InRunLock      == {"tr-gate", "tr-complete", "tr-save", "up-save", "ab-ledger", "ab-commit",
                   "ab-pointer", "ab-release", "ab-registry", "ab-deregister"}
InPointerLock  == {"in-seed", "ab-release", "sw-write"}
InRegistryLock == {"ab-deregister", "rg-register", "rg-deregister"}
Labels == InRunLock \cup InPointerLock \cup InRegistryLock
            \cup {"idle", "in-save", "in-pointer", "fi-stamp", "fi-sweep", "sw-wait",
                  "rg-wait-register", "rg-wait-deregister"}

TypeOK ==
    /\ manifest \in [Runs -> Manifests]
    /\ passed \in [Runs -> SUBSET Gates]
    /\ pointer \in Runs \cup {NoFile, Unnamed}
    /\ registry \in SUBSET Runs
    /\ pointerReadable \in BOOLEAN /\ registryReadable \in BOOLEAN
    /\ runLock \in [Runs -> Procs \cup {NoProc}]
    /\ pointerLock \in Procs \cup {NoProc} /\ registryLock \in Procs \cup {NoProc}
    /\ pc \in [Procs -> Labels] /\ job \in [Procs -> Jobs]
    /\ swept \in SUBSET Runs

Init ==
    /\ manifest = [r \in Runs |-> NoManifest] /\ passed = [r \in Runs |-> {}]
    /\ pointer = NoFile /\ registry = {}
    /\ pointerReadable = TRUE /\ registryReadable = TRUE
    /\ runLock = [r \in Runs |-> NoProc] /\ pointerLock = NoProc /\ registryLock = NoProc
    /\ pc = [p \in Procs |-> "idle"] /\ job = [p \in Procs |-> NoJob]
    /\ swept = {}

\* Control: a process moves on, starts a handler with local variables j, or
\* returns from one and forgets them.
Goto(p, label)     == pc' = [pc EXCEPT ![p] = label]
Start(p, label, j) == pc[p] = "idle" /\ Goto(p, label) /\ job' = [job EXCEPT ![p] = j]
Return(p)          == Goto(p, "idle") /\ job' = [job EXCEPT ![p] = NoJob]

\* The locks: flock on a sidecar file of the ledger, the pointer, the registry.
LockRunUnguarded(p, r) == runLock' = [runLock EXCEPT ![r] = p]    \* mutation: no waiting
LockRun(p, r)   == runLock[r] = NoProc /\ runLock' = [runLock EXCEPT ![r] = p]
UnlockRunLeaks(p) == UNCHANGED runLock                            \* mutation: never freed
UnlockRun(p)    == runLock' = [runLock EXCEPT ![job[p].run] = NoProc]
LockPointer(p)  == pointerLock = NoProc /\ pointerLock' = p
UnlockPointerLeaks == UNCHANGED pointerLock                       \* mutation: never freed
UnlockPointer   == pointerLock' = NoProc
LockRegistryUnguarded(p) == registryLock' = p                     \* mutation: no waiting
LockRegistry(p) == registryLock = NoProc /\ registryLock' = p
UnlockRegistry  == registryLock' = NoProc

\* The manifest is replaced by an atomic rename; a ledger line is appended,
\* unless the gate has a passing record.
SaveManifest(p, m) == manifest' = [manifest EXCEPT ![job[p].run] = m]
RecordTruncates(r, g) == passed' = [passed EXCEPT ![r] = {g}]     \* mutation: no O_APPEND
Record(r, g)    == passed' = [passed EXCEPT ![r] = @ \cup {g}]

\* A call on behalf of run r reaches the shared-file tools.
MayCall(r) == LateCallers \/ manifest[r].status # "aborted"

-----------------------------------------------------------------------------
(***************************************************************************)
(* handle_init: no run lock.  The existence check and the save are two     *)
(* steps, and the pointer is seeded after the save, under its lock.        *)
(***************************************************************************)
InitCheck(p, r) ==
    /\ p \in Initialisers /\ manifest[r].status = "absent"
    /\ \E ph \in InitialPhases :
          Start(p, "in-save", [NoJob EXCEPT !.run = r, !.man = NewManifest(ph)])
    /\ UNCHANGED <<files, locks, swept>>

InitSave(p) ==
    /\ pc[p] = "in-save"
    /\ SaveManifest(p, job[p].man)
    /\ Goto(p, "in-pointer")
    /\ UNCHANGED <<passed, pointer, pointerReadable, registry, registryReadable, locks, job, swept>>

InitPointerLock(p) ==
    /\ pc[p] = "in-pointer" /\ LockPointer(p)
    /\ job' = [job EXCEPT ![p].ptr = pointer]
    /\ Goto(p, "in-seed")
    /\ UNCHANGED <<files, runLock, registryLock, swept>>

InitSeed(p) ==
    /\ pc[p] = "in-seed"
    /\ pointer' = IF job[p].ptr = NoFile THEN job[p].run ELSE pointer
    /\ UnlockPointer
    /\ Return(p)
    /\ UNCHANGED <<manifest, passed, pointerReadable, registry, registryReadable,
                   runLock, registryLock, swept>>

-----------------------------------------------------------------------------
(***************************************************************************)
(* handle_transition: one critical section under the run lock.  Any gate   *)
(* may block; a passing one appends the canonical records the ledger does  *)
(* not hold yet, and only then the manifest is replaced.                   *)
(***************************************************************************)
UnlessTerminal(m) == m.phase \notin TerminalPhases   \* mutation: the status is not asked
MayTransition(m)  == m.status = "active" /\ m.phase \notin TerminalPhases

TransitionLoad(p, r, to) ==
    LET m == manifest[r] IN
    /\ m.status # "absent" /\ MayTransition(m)
    /\ CanonicalTarget(to) \in ValidTransitions[m.phase]
    /\ Len(m.history) < MaxEdges
    /\ LockRun(p, r)
    /\ Start(p, "tr-gate", [NoJob EXCEPT !.run = r, !.man = m,
                                         !.edge = <<m.phase, CanonicalTarget(to)>>])
    /\ UNCHANGED <<files, pointerLock, registryLock, swept>>

GateBlocks(p) ==
    /\ pc[p] = "tr-gate"
    /\ UnlockRun(p) /\ Return(p)
    /\ UNCHANGED <<files, pointerLock, registryLock, swept>>

GatePasses(p) ==
    /\ pc[p] = "tr-gate"
    /\ Record(job[p].run, job[p].edge)
    /\ Goto(p, IF TriageComplete \in CanonicalGates(job[p].edge) THEN "tr-complete" ELSE "tr-save")
    /\ UNCHANGED <<manifest, pointer, pointerReadable, registry, registryReadable,
                   locks, job, swept>>

RecordTriageComplete(p) ==
    /\ pc[p] = "tr-complete"
    /\ Record(job[p].run, TriageComplete)
    /\ Goto(p, "tr-save")
    /\ UNCHANGED <<manifest, pointer, pointerReadable, registry, registryReadable,
                   locks, job, swept>>

\* The saved manifest; the mutation takes every target phase for a status.
AdvancedStatus(m, e) ==
    [m EXCEPT !.phase = e[2], !.status = e[2], !.history = Append(@, e)]
Advanced(m, e) ==
    [m EXCEPT !.phase = e[2],
              !.status = IF e[2] \in TerminalPhases THEN "resolved" ELSE @,
              !.history = Append(@, e)]

TransitionSave(p) ==
    /\ pc[p] = "tr-save"
    /\ SaveManifest(p, Advanced(job[p].man, job[p].edge))
    /\ UnlockRun(p) /\ Return(p)
    /\ UNCHANGED <<passed, pointer, pointerReadable, registry, registryReadable,
                   pointerLock, registryLock, swept>>

-----------------------------------------------------------------------------
(***************************************************************************)
(* handle_register_artifact and handle_workspace: load, refuse an aborted  *)
(* run, set a field, save, under the run lock.  A resolved run may still   *)
(* be amended.                                                             *)
(***************************************************************************)
UpdateLoad(p, r, f) ==
    /\ manifest[r].status \notin {"absent", "aborted"}
    /\ LockRun(p, r)
    /\ Start(p, "up-save", [NoJob EXCEPT !.run = r,
                                         !.man = [manifest[r] EXCEPT !.fields = @ \cup {f}]])
    /\ UNCHANGED <<files, pointerLock, registryLock, swept>>

UpdateSave(p) ==
    /\ pc[p] = "up-save"
    /\ SaveManifest(p, job[p].man)
    /\ UnlockRun(p) /\ Return(p)
    /\ UNCHANGED <<passed, pointer, pointerReadable, registry, registryReadable,
                   pointerLock, registryLock, swept>>

-----------------------------------------------------------------------------
(***************************************************************************)
(* handle_finalize: no lock.  It stamps the manifest it loaded, runs the   *)
(* closure sweep over the stamped run, and saves the manifest it loaded    *)
(* again when the sweep blocks.  The sweep's verdict is either.            *)
(***************************************************************************)
FinalizeLoad(p, r) ==
    /\ p \in Finalisers
    /\ manifest[r].status \notin {"absent", "aborted"} /\ manifest[r].phase \in TerminalPhases
    /\ Start(p, "fi-stamp", [NoJob EXCEPT !.run = r, !.man = manifest[r]])
    /\ UNCHANGED <<files, locks, swept>>

FinalizeStamp(p) ==
    /\ pc[p] = "fi-stamp"
    /\ SaveManifest(p, [job[p].man EXCEPT !.status = "resolved", !.finalized = TRUE])
    /\ Goto(p, "fi-sweep")
    /\ UNCHANGED <<passed, pointer, pointerReadable, registry, registryReadable, locks, job, swept>>

SweepPasses(p) ==
    /\ pc[p] = "fi-sweep"
    /\ swept' = swept \cup {job[p].run}
    /\ Return(p)
    /\ UNCHANGED <<files, locks>>

SweepBlocks(p) ==
    /\ pc[p] = "fi-sweep"
    /\ SaveManifest(p, job[p].man)
    /\ Return(p)
    /\ UNCHANGED <<passed, pointer, pointerReadable, registry, registryReadable, locks, swept>>

-----------------------------------------------------------------------------
(***************************************************************************)
(* handle_abort: the marker, the commit, then the teardown of the pointer  *)
(* and of the registry entry, all under the run lock; called again on an   *)
(* aborted run it only completes the teardown.                             *)
(***************************************************************************)
AbortableOnce(m) == m.status = "active"    \* mutation: no second call on an aborted run
Abortable(m)     == m.status \in {"active", "aborted"}

AbortLoad(p, r) ==
    /\ Abortable(manifest[r])
    /\ manifest[r].status = "active" => registryReadable
    /\ LockRun(p, r)
    /\ Start(p, IF manifest[r].status = "active" THEN "ab-ledger" ELSE "ab-pointer",
             [NoJob EXCEPT !.run = r, !.man = manifest[r]])
    /\ UNCHANGED <<files, pointerLock, registryLock, swept>>

AbortRecord(p) ==
    /\ pc[p] = "ab-ledger"
    /\ Record(job[p].run, AbortGate)
    /\ Goto(p, "ab-commit")
    /\ UNCHANGED <<manifest, pointer, pointerReadable, registry, registryReadable,
                   locks, job, swept>>

Aborted(m) == [m EXCEPT !.status = "aborted", !.history = Append(@, <<m.phase, "aborted">>)]

AbortCommit(p) ==
    /\ pc[p] = "ab-commit"
    /\ SaveManifest(p, Aborted(job[p].man))
    /\ Goto(p, "ab-pointer")
    /\ UNCHANGED <<passed, pointer, pointerReadable, registry, registryReadable, locks, job, swept>>

AbortPointerLock(p) ==
    /\ pc[p] = "ab-pointer" /\ LockPointer(p)
    /\ pointerReadable
    /\ job' = [job EXCEPT ![p].ptr = pointer]
    /\ Goto(p, "ab-release")
    /\ UNCHANGED <<files, runLock, registryLock, swept>>

NamesAnyRun(p) == job[p].ptr # NoFile      \* mutation: another run's pointer is nulled
NamesRun(p)    == job[p].ptr = job[p].run

AbortRelease(p) ==
    /\ pc[p] = "ab-release"
    /\ IF NamesRun(p)
       THEN pointer' = Unnamed /\ pointerReadable' = TRUE
       ELSE UNCHANGED <<pointer, pointerReadable>>
    /\ UnlockPointer
    /\ Goto(p, "ab-registry")
    /\ UNCHANGED <<manifest, passed, registry, registryReadable,
                   runLock, registryLock, job, swept>>

AbortRegistryLock(p) ==
    /\ pc[p] = "ab-registry" /\ LockRegistry(p)
    /\ registryReadable
    /\ job' = [job EXCEPT ![p].reg = registry]
    /\ Goto(p, "ab-deregister")
    /\ UNCHANGED <<files, runLock, pointerLock, swept>>

AbortDeregister(p) ==
    /\ pc[p] = "ab-deregister"
    /\ IF job[p].run \in job[p].reg
       THEN registry' = job[p].reg \ {job[p].run} /\ registryReadable' = TRUE
       ELSE UNCHANGED <<registry, registryReadable>>
    /\ UnlockRegistry
    /\ UnlockRun(p) /\ Return(p)
    /\ UNCHANGED <<manifest, passed, pointer, pointerReadable, pointerLock, swept>>

\* An unreadable pointer or registry raises: the abort stays committed, its
\* teardown is left to another call.
AbortTeardownRaises(p) ==
    /\ \/ pc[p] = "ab-pointer" /\ pointerLock = NoProc /\ ~pointerReadable
       \/ pc[p] = "ab-registry" /\ registryLock = NoProc /\ ~registryReadable
    /\ UnlockRun(p) /\ Return(p)
    /\ UNCHANGED <<files, pointerLock, registryLock, swept>>

-----------------------------------------------------------------------------
\* uacp_gate_ledger_append of a passing record: the duplicate test and the
\* append share the run lock, and nothing is asked of the run's status.
LedgerAppend(p, r, g) ==
    /\ pc[p] = "idle" /\ g \in HandGates /\ runLock[r] = NoProc
    /\ Record(r, g)
    /\ UNCHANGED <<manifest, pointer, pointerReadable, registry, registryReadable,
                   locks, pc, job, swept>>

(***************************************************************************)
(* uacp_state_write on state/current.yaml by the agent of run r.  The body *)
(* is checked before the lock.  Once the file exists it must name r; the   *)
(* first write may also name no run.                                       *)
(***************************************************************************)
StateWriteCall(p, r) ==
    /\ MayCall(r)
    /\ Start(p, "sw-wait", [NoJob EXCEPT !.run = r])
    /\ UNCHANGED <<files, locks, swept>>

StateWriteLock(p) ==
    /\ pc[p] = "sw-wait" /\ LockPointer(p)
    /\ job' = [job EXCEPT ![p].ptr = pointer]
    /\ Goto(p, "sw-write")
    /\ UNCHANGED <<files, runLock, registryLock, swept>>

StateWrite(p) ==
    /\ pc[p] = "sw-write"
    /\ pointer' \in IF job[p].ptr = NoFile THEN {job[p].run, Unnamed} ELSE {job[p].run}
    /\ pointerReadable' = TRUE
    /\ UnlockPointer
    /\ Return(p)
    /\ UNCHANGED <<manifest, passed, registry, registryReadable, runLock, registryLock, swept>>

(***************************************************************************)
(* uacp_run_registry_update by the agent of run r: read, replace or drop   *)
(* r's entry, write, under the registry lock.  A broken registry refuses.  *)
(***************************************************************************)
RegistryCall(p, r) ==
    /\ MayCall(r)
    /\ \E label \in {"rg-wait-register", "rg-wait-deregister"} :
          Start(p, label, [NoJob EXCEPT !.run = r])
    /\ UNCHANGED <<files, locks, swept>>

RegistryRead(p) ==
    /\ pc[p] \in {"rg-wait-register", "rg-wait-deregister"} /\ LockRegistry(p)
    /\ registryReadable
    /\ job' = [job EXCEPT ![p].reg = registry]
    /\ Goto(p, IF pc[p] = "rg-wait-register" THEN "rg-register" ELSE "rg-deregister")
    /\ UNCHANGED <<files, runLock, pointerLock, swept>>

RegistryRefuse(p) ==
    /\ pc[p] \in {"rg-wait-register", "rg-wait-deregister"} /\ registryLock = NoProc
    /\ ~registryReadable
    /\ Return(p)
    /\ UNCHANGED <<files, locks, swept>>

RegistryWrite(p) ==
    /\ pc[p] \in {"rg-register", "rg-deregister"}
    /\ registry' = IF pc[p] = "rg-register" THEN job[p].reg \cup {job[p].run}
                                            ELSE job[p].reg \ {job[p].run}
    /\ registryReadable' = TRUE
    /\ UnlockRegistry
    /\ Return(p)
    /\ UNCHANGED <<manifest, passed, pointer, pointerReadable, runLock, pointerLock, swept>>

-----------------------------------------------------------------------------
\* The process is killed: the kernel drops its locks, what it did not write
\* is lost, what it wrote stays.
Crash(p) ==
    LET Freed(lock) == IF lock = p THEN NoProc ELSE lock IN
    /\ p \in Crashers /\ pc[p] # "idle"
    /\ runLock' = [r \in Runs |-> Freed(runLock[r])]
    /\ pointerLock' = Freed(pointerLock) /\ registryLock' = Freed(registryLock)
    /\ Return(p)
    /\ UNCHANGED <<files, swept>>

\* An operator's editor leaves a shared file malformed, or repairs it.
OperatorEdit ==
    /\ OperatorEdits
    /\ \/ pointer # NoFile /\ pointerReadable' = ~pointerReadable /\ UNCHANGED registryReadable
       \/ registryReadable' = ~registryReadable /\ UNCHANGED pointerReadable
    /\ UNCHANGED <<manifest, passed, pointer, registry, locks, pc, job, swept>>

\* What a process does once it has started a handler.
Step(p) ==
    \/ InitSave(p) \/ InitPointerLock(p) \/ InitSeed(p)
    \/ GateBlocks(p) \/ GatePasses(p) \/ RecordTriageComplete(p) \/ TransitionSave(p)
    \/ UpdateSave(p)
    \/ FinalizeStamp(p) \/ SweepPasses(p) \/ SweepBlocks(p)
    \/ AbortRecord(p) \/ AbortCommit(p) \/ AbortPointerLock(p) \/ AbortRelease(p)
    \/ AbortRegistryLock(p) \/ AbortDeregister(p) \/ AbortTeardownRaises(p)
    \/ StateWriteLock(p) \/ StateWrite(p)
    \/ RegistryRead(p) \/ RegistryRefuse(p) \/ RegistryWrite(p)

\* What the agents ask for.
Call(p) ==
    \E r \in Runs :
        \/ InitCheck(p, r) \/ FinalizeLoad(p, r) \/ AbortLoad(p, r)
        \/ \E to \in Phases \cup {"resolve"} : TransitionLoad(p, r, to)
        \/ \E f \in Fields : UpdateLoad(p, r, f)
        \/ \E g \in HandGates : LedgerAppend(p, r, g)
        \/ StateWriteCall(p, r) \/ RegistryCall(p, r)

Next == OperatorEdit \/ \E p \in Procs : Call(p) \/ Step(p) \/ Crash(p)

Spec == Init /\ [][Next]_vars

-----------------------------------------------------------------------------
(***************************************************************************)
(* Fairness.  A started handler keeps running, and the kernel serves the   *)
(* queue of a lock file: a process whose next step is possible again and   *)
(* again takes it.  For a teardown to complete, an agent or an operator    *)
(* must call abort again on an aborted run, and a broken shared file must  *)
(* be repaired for good.                                                   *)
(***************************************************************************)
HandlersRun == \A p \in Procs : SF_vars(Step(p))

TornDown(r) == pointer # r /\ r \notin registry

AbortRetried ==
    \A r \in Runs : SF_vars(manifest[r].status = "aborted" /\ ~TornDown(r)
                            /\ \E p \in Procs : AbortLoad(p, r))

FairSpec == Spec /\ HandlersRun

-----------------------------------------------------------------------------
(***************************************************************************)
(* Properties                                                              *)
(***************************************************************************)

\* The engine implements the lifecycle it promises: read off the manifests and
\* the ledgers, every step is a step of RunLifecycle or leaves it unchanged.
Lifecycle == INSTANCE RunLifecycle WITH
    status <- [r \in Runs |-> manifest[r].status],
    phase  <- [r \in Runs |-> manifest[r].phase],
    gates  <- passed
ImplementsLifecycle == Lifecycle!Spec

\* A run never stands beyond a phase whose canonical gates are not on the
\* ledger: whoever crashed, retried or appended by hand, every transition in
\* a saved history has its FROM->TO record (and TRIAGE_COMPLETE).
GateBeforeEdge ==
    \A r \in Runs : \A i \in DOMAIN manifest[r].history :
        manifest[r].history[i] \in Edges => CanonicalGates(manifest[r].history[i]) \subseteq passed[r]

\* No handler that read a run before its abort, and saves after it, brings
\* the run back or touches its manifest.
AbortIsFinal ==
    [][\A r \in Runs : manifest[r].status = "aborted" => manifest'[r] = manifest[r]]_vars

\* What a live run holds is not taken from it by a teardown: its name leaves
\* the pointer, and its entry the registry, only when the abort is committed,
\* when another run's agent takes the pointer, or by its own deregister.
ClaimsHeldWhileActive ==
    [][\A r \in Runs : manifest[r].status # "aborted" =>
          /\ pointer = r => pointer' # Unnamed
          /\ r \in registry \ registry' =>
                \E p \in Procs : job[p].run = r /\ pc[p] = "rg-deregister"]_vars

\* Concurrent register, deregister and abort calls lose nobody's update: an
\* entry appears or goes only by a call of its own run.
RegistryUpdatesOwn ==
    [][\A r \in Runs : (r \in registry) # (r \in registry') =>
          \E p \in Procs : /\ job[p].run = r
                           /\ pc[p] \in {"rg-register", "rg-deregister", "ab-deregister"}]_vars

\* What handle_finalize promises: a run that is stamped finalized, and has no
\* finalize in flight, passed a closure sweep.  The code does not keep it, since
\* another handler may load the tentative stamp and save it again; no run checks it.
FinalizedOnlyAfterSweep ==
    \A r \in Runs : manifest[r].finalized /\ (\A p \in Procs : job[p].run = r => pc[p] # "fi-sweep")
                        => r \in swept

\* While a run is active, no concurrent handler's save drops an artifact or a
\* workspace field another one registered.
FieldsKeptWhileActive ==
    [][\A r \in Runs : manifest[r].status = "active"
                            => manifest[r].fields \subseteq manifest'[r].fields]_vars

\* What the pointer lock is for: an abort's release of the pointer is not undone.
\* The code does not keep it, since a writer that waited for the lock does not read
\* the status again; no run checks it.
ReleaseNotResurrected ==
    [][\A r \in Runs : pointer' = r /\ pointer # r => manifest[r].status # "aborted"]_vars

\* Each lock is held by the process whose critical section it guards, and by
\* nobody else; no process holds the pointer's and the registry's lock at once.
LockInv ==
    /\ \A p \in Procs, r \in Runs : runLock[r] = p <=> pc[p] \in InRunLock /\ job[p].run = r
    /\ \A p \in Procs : pointerLock = p <=> pc[p] \in InPointerLock
    /\ \A p \in Procs : registryLock = p <=> pc[p] \in InRegistryLock

\* Every handler returns: nobody waits for ever on the lock files.
HandlersReturn == \A p \in Procs : pc[p] # "idle" ~> pc[p] = "idle"

\* An abort that was committed ends, when it is called again until it
\* succeeds, with the pointer and the registry entry released, whatever
\* failed or was killed in between.
AbortTeardownCompletes ==
    <>[](pointerReadable /\ registryReadable) /\ <>[][\A p \in Procs : ~Crash(p)]_vars
        => \A r \in Runs : manifest[r].status = "aborted" ~> TornDown(r)
=============================================================================
