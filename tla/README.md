# TLA+ models of the UACP core

UACP governs the work of coding agents: an agent *run* moves through seven
lifecycle phases, each transition is admitted by gates, every gate leaves a
record, and a run is closed only when a sweep of checks finds manifest, ledger,
documents and code in agreement. All state is files below `.uacp/`; every tool
call is one Python handler, and several agent sessions work on one tree at the
same time. This directory holds TLA+ modules of that core, the TLC configurations
that check them, and TLAPS proofs of the properties that must hold for any number
of runs, processes, documents and files.

Source paths below are relative to the repository; `core/` stands for
`skills/uacp-core/scripts/`, `state/` for `skills/uacp-state/scripts/`, `codeflair/`
for `codeflair/src/codeflair/`.

## 1. Inventory

### Components, their state and their operations

| component | state it keeps | operations | talks to |
|---|---|---|---|
| state engine (`state/state_machine.py`, `state/state.py`) | run manifest `state/runs/{run}.yaml`, pointer `state/current.yaml`, registry `state/run-registry.yaml`, three kinds of `flock` sidecars | init, transition, register-artifact, workspace update, finalize, abort; state write, registry register/deregister | the phase graph, the gate ledger, the gates of heartgate, the closure sweep |
| phase graph (`core/engines/domain/phase_graph.py`) | none, one table | projection on the state machine's transitions, aliases | everything that names a phase |
| gate ledger (`state.py`, `state_machine.py`) | `state/gate-ledger/{run}.jsonl`, append-only | append by an agent, emission by a transition, the abort marker | read back by both writers, by heartgate and by the closure engines |
| heartgate (`core/engines/heartgate/`) | none of its own; reads documents, ledgers, manifests | the forced gate of every transition, the full check an agent invokes, the goal-driven track, the closure sweep | the state engine calls it inside a transition and inside finalize |
| artifact validators (`scripts/validate_uacp_artifacts.py`) | none | one validator per kind of document, each reading some of the earlier ones | loaded by heartgate's adaptive gates |
| entity writer (`core/engines/manifest/entity_writer.py`, `artifact_hashes.py`, part of `core/governed_handlers.py`) | documents, `state/hashes/{run}.json` | create an entity (persist, watermark, register, or roll back), write an artifact or a corpus file | register-artifact of the state engine |
| artifact integrity (`core/engines/artifact_integrity.py`) | none | compares watermarks with files at closure | the entity writer's index |
| write isolation (`core/engines/heartgate/validators/run_registry.py`, `core/engines/domain/boundary.py`) | scope artifacts, registry entries | register scope, overlap gate at PLAN->EXECUTE, file boundary of a scope | state engine, registry |
| manifest projection and check replay (`core/engines/manifest/projection.py`) | none | folds documents into a graph, checks it at each exit, replays frozen checks, the behavioural floor, compares claimed classes with the code | heartgate, the witness |
| scope and behaviour planes (`core/engines/scope_conformance.py`, `behavior_plane.py`, `code_plane.py`) | the forecast record of a run | forecast at plan exit, boundary and cascade checks at closure, the join of forecast and outcome | git, the witness |
| git and witness i/o (`core/engines/io/gitio.py`, `witnessio.py`) | two process memos | changed files, tree token, account of the change, baseline | git, codeflair's command line |
| rework, deferral, evidence engines (`core/engines/rework_completeness.py`, `deferral_`, `evidence_completeness.py`) | none; lineage is in the manifests | what a rework owes, what a closure leaves open | finalize |
| coherence and ledger integrity (`core/engines/coherence.py`, `ledger_integrity.py`) | none | compare manifest, ledger, registry at closure | finalize |
| guardian (`core/engines/guardian/`, `core/hook_kernel.py`) | audit log; the attestations of the contained shell | classifies a tool call, allows or blocks it, audits it | the runtime adapters' hooks |
| runtime adapters (`runtime-adapters/`) | policy and stages, cached per process | hooks before and after a call | the guardian |
| oracle (`core/engines/oracle/`) | corpus files, an index | write, retrieve, rank | the governed writer |
| schemas, layout, io loaders | none | shape checks, reading | everything |
| codeflair (`codeflair/`) | a SQLite code graph | full build, delta, query with a freshness tag, witness of a tree | read by the planes through the witness |
| proving ground, web view, skills, scripts | none that is governed | drive tests, show files, instruct agents | the core |

`PROJECT.json` lists each with its sources and whether it is modelled.

### How they interact

There is no server. A handler is a Python call in the process of some agent
session; handlers of different sessions meet only in the files. The engine
relies on four facts of the platform, and the models take these and no more:
an atomic rename replaces a whole file (`core/filesystem.py`), a ledger line is
one `O_APPEND` write, `flock` excludes other processes, and the kernel drops the
locks of a process that dies. What is *not* given is that a handler sees the same
file twice: every read is a copy that may be stale when it is saved; gates read
documents and the working tree that nobody holds still.

### What is hard here

* handlers that load a manifest, work, and save the copy; some under the run lock
  (transition, register-artifact, workspace, abort), some under none (init,
  finalize);
* a handler that dies between the ledger and the manifest, or between the commit
  of an abort and its teardown, and is called again;
* three locks, nested in one handler and taken alone by others;
* two shared YAML files with read-modify-write updates from all runs;
* an append-only ledger that two kinds of writers fill and a later check compares
  as a multiset: a wrong record can never be taken back;
* a create with three writes and a rollback, between an index of watermarks and a
  check that must neither miss an edit nor accuse the writer;
* gates that read a shared registry, other runs' records or globs over all runs;
  two gates for one exit, written apart;
* seven documents, each compared with its neighbours only, that an agent may write
  again after they were checked;
* accounts of the code that take minutes to make and are kept afterwards, while the code
  is edited, committed and merged, and two readings of the tree by one closure;
* an index of the code that is built while files change, from an indexer that reads
  them one by one;
* decisions by tables that stand in three files, two of which are cached per process.

### What makes each component correct

* *state engine*: no edge precedes its gate records, an abort is final and is torn
  down, no concurrent save loses a field, nobody's pointer or registry entry is taken
  away by another run, every lock is released;
* *gate ledger*: one passing record per gate, at most one edge ahead of the
  history, coherent with it in the end;
* *entity writer*: a frozen check never changes, the closure check accuses what
  bypassed the writer and nothing else, ids of checks are unique;
* *write isolation*: no file is in the boundary of two executing runs;
* *heartgate*: what the full check grants the forced gate does not refuse;
  *goal-driven track*: the budget bounds the
  goal, whatever becomes of its runs, and a run is resolved on its own goal's result;
* *document chain*: what is owed reaches the closure, nothing is left unassessed;
* *rework*: chains have no loop, each finding has an answer of its own, what is owed
  is settled when the rework is created;
* *projection*: additions do not take back failures, a gate that is silent has graded
  what it checks; *planes*: kept accounts are of the tree at hand, silence means
  coverage, an outcome is late work only;
* *guardian*: the run can always go on, governed files have one kind of writer, as
  far as a call shows what it writes, the
  audit tells the decision's story, the attestation cache does not grow;
* *codeflair*: nothing stale is served as trusted, a certified file is there completely.

## 2. Modules

| module | models | EXTENDS |
|---|---|---|
| `PhaseGraph` | the lifecycle graph and its names | - |
| `RunLifecycle` | what the engine promises of a run: the abstract specification | `PhaseGraph` |
| `RunState` | the state engine, one step per file access | `PhaseGraph` |
| `ClosureChecks` | C2, C3, duplicate-gate: closure checks as operators | `PhaseGraph` |
| `GateLedger` | the ledger record by record, with its two writers | `ClosureChecks` |
| `EntityWriter` | the governed write path and the integrity check | - |
| `WritePaths` | declared paths: canonical form, overlap, coverage | - |
| `WriteIsolation` | scopes, registry, overlap gate of several runs | `WritePaths` |
| `PhaseGates` | forced and full gates of every phase, the goal-driven track | `PhaseGraph` |
| `CarryForward` | the documents from EXECUTE to closure and their validators | - |
| `ReworkChain` | rework lineage, dispositions, deferral | - |
| `EvidenceGraph` | the projection, its checks, replay, classes: operators on documents | - |
| `CodeWitness` | git's and codeflair's account of a tree: operators on trees | - |
| `Delivery` | graph gates, forecast, closure sweep and join over both | `EvidenceGraph`, `CodeWitness` |
| `Guardian` | the decision on a tool call, hosts, attestations | `PhaseGraph` |
| `CodeIndex` | codeflair's store beside an edited tree | - |
| `RunStateProofs`, `EntityWriterProofs` | theorems | their module, `TLAPS` |
| `GateLedgerProofs`, `PhaseGatesProofs`, `DeliveryProofs`, `CodeIndexProofs` | theorems, with the facts on cardinality or finite sets they need | their module, `FiniteSetTheorems`, `TLAPS` |
| `AccessProofs` | theorems: who may write what, when | `Guardian`, `WriteIsolation`, `TLAPS` |
| `DocumentProofs` | theorems: what documents owe | `CarryForward`, `ReworkChain`, `TLAPS` |
| `MCRunState`, `MCGateLedger`, `MCEntityWriter`, `MCWriteIsolation`, `MCPhaseGates`, `MCCarryForward`, `MCReworkChain`, `MCDelivery`, `MCGuardian`, `MCCodeIndex` | values for TLC | their module |

How they compose. `RunState` has manifest, ledger, pointer and registry in one
state, and keeps the ledger as the *set* of gates with a passing record, which is
all a transition asks of it; a forced gate passes or blocks there. `GateLedger`
refines that view for what a set cannot answer (how often, in which result).
`PhaseGates` says what the forced gate of each phase computes, and takes
transition and save as the two steps that `RunState` shows the run lock to protect.
`WriteIsolation` keeps the *contents* of registry entries, which `RunState` reduces to
membership. `Delivery` is the graph gate and the closure sweep that `PhaseGates` and
`RunState` leave open; `CarryForward` and `ReworkChain` open up single documents that
are one version in `PhaseGates`. `CodeIndex` is what stands behind the accounts that
`CodeWitness` takes to be right.

### RunState and the code

Every process has a program counter `pc` and local variables `job`. A handler is
a *call* (`InitCheck`, `TransitionLoad`, ...: arguments, early returns, first lock,
first read) followed by *steps*, one per file access. A process that waits for the
lock it takes first has read and written nothing, so waiting is not a state, except
where something was decided before the wait (a pointer write checks its body
before it queues: `StateWriteCall`/`StateWriteLock`) or while another lock is held (the
teardown of an abort).

| handler | actions | lock |
|---|---|---|
| `handle_init` | `InitCheck`, `InitSave`, `InitPointerLock`, `InitSeed` | none, then the pointer's |
| `handle_transition` | `TransitionLoad`, `GateBlocks` or `GatePasses`, `RecordTriageComplete`, `TransitionSave` | run |
| `handle_register_artifact`, `handle_workspace` | `UpdateLoad`, `UpdateSave` | run |
| `handle_finalize` | `FinalizeLoad`, `FinalizeStamp`, `SweepPasses` or `SweepBlocks` | none |
| `handle_abort` | `AbortLoad`, `AbortRecord`, `AbortCommit`, `AbortPointerLock`, `AbortRelease`, `AbortRegistryLock`, `AbortDeregister`, `AbortTeardownRaises` | run, then pointer, then registry |
| `uacp_gate_ledger_append` | `LedgerAppend` | run |
| `uacp_state_write` | `StateWriteCall`, `StateWriteLock`, `StateWrite` | pointer |
| `uacp_run_registry_update` | `RegistryCall`, `RegistryRead`, `RegistryRefuse`, `RegistryWrite` | registry |
| a killed process; an operator's editor | `Crash`; `OperatorEdit` | - |

What a forced gate computes is a free choice (`GateBlocks`/`GatePasses`), and so is the
verdict of the closure sweep. `swept` is the one history variable.

### GateLedger and the code

One run. `AppendRead`/`AppendWrite` are the two sides of the lock in
`uacp_gate_ledger_append`; `TransitionStart`, `GatePasses`, `Emit` and `TransitionSave` the
emission of the missing canonical records one by one and the save. A call of an
agent is `[gate, named, result]`: `gate` is the argument the duplicate test reads,
`named` what the record itself says. In the run the two are equal, as in every
documented use; the code does not compare them. Time stamps are left out
(section 7).

### EntityWriter and the code

A process is a run's agent, since `entity_writer.py` takes a single writer per run
for granted. `Author` is `create_entity` up to its first write: the refusals
(`DuplicateId`, `Frozen`) and the snapshot of file and index. `Persist`, `RecordHash` and
`Register` are the three writes, `StepFails` any of them raising or being refused,
`UndoFile` and `UndoMarks` the rollback. `RawCall`, `RawPersist`, `RawRecordHash`, `RawFails` are
`uacp_artifact_write`, which corpus writes go through; a corpus file belongs to no run and
every run's agent may write it. `EditByHand` changes or removes a file at any time, also
under a call. A text is an id and a body; its hash is the text itself (no collisions).
`Flagged` is `validate_artifact_integrity`. The history variables `last`, `since` and `by` say
what was written last, what happened to a file since, and which run's call did it. A
*story* fixes the documents a behaviour is about.

### WriteIsolation and the code

`AuthorScope`, `Register`, `Deregister` are the agent's calls; `LeavePlan`, `OverlapGate`,
`EnterExecute` the transition out of plan: entered, gate evaluated on the registry as
it is *then*, manifest saved later. `WritePaths` translates `_canon_write_path`,
`_paths_overlap` and `FileBoundary`; a written path is its segments, whether there
are `.` segments among them, and whether it ends in a slash. `Path.resolve` and
`fnmatch` are external and modelled by what the code relies on. A *careful* agent
follows `skills/uacp-state/SKILL.md:35` and `config/uacp.toml:823-826`: it registers its
scope before it leaves plan and changes neither afterwards.

### PhaseGates and the code

Each exit has two gates. `ForcedGate` is what `handle_transition` asks
(`_PHASE_GATE_TABLE`; `ForcedBrainstorm` ... `ForcedVerify` are the `forced_*` methods of
`heartgate.py`), `FullGate` what `uacp_heartgate_check` tells an agent beforehand
(`validate_transition`: `ExitDocument` for the phase-exit globs, `PPV`, then the gates of
the phase). A document is reduced to the version gates tell apart: "bad" fails the
contract of the forced gate, "thin" meets that one only, "good" meets both.
`Source`, `Registered` and `Inherit` follow the scope module a run may reuse from its
parent. `Coherent`, `CoherentForGoal`, `CheckpointCount`, `TriageTrack` and `Budgeted` are
`goal_driven.py`. `Globbed` is the prefix glob by which the execute gates find checkpoints: `Namesakes` says
whose files it takes along (`r` and `r-x`). A run may have no goal (`NoGoal`), and is then
compared with none. `WriteDocument`, `WriteUnit`, `RegisterModule`, `RecordValidation`,
`RecordAttempt`, `RecordCheckpoint`, `WriteBudget` and `WriteEvidence` are the governed
writes the gates read; `Judge` and `Save` the transition, with other runs' steps in
between; `promoted` is the history variable. A `Cast` is a set of runs with their
charters: who inherits from whom, who serves which goal, if any.

### CarryForward and the code

One run from execute to closure. `ContractValid` ... `ClosureValid` are the validators of
`validate_uacp_artifacts.py` for the seven documents, `ExecuteGate`, `VerifyGate`,
`ResolveGate` the adaptive gates that call them, `EvidenceComplete` the closure engine.
`Write` is `uacp_artifact_write`, which does not look at the phase: the kinds in `Reopened`
are rewritten later too, in the runs and theorems any of them. `Ask` is the full gate,
`Cross` the transition; `advised` says that nothing was written since the gate passed.
`owed` and `shed` are history: what the readiness listed when the run entered RESOLVE, and
what the latest version of it lists no more.

### ReworkChain and the code

`Begin` and `Create` are the two halves of `handle_init`: the manifest is found missing
and the parent is read, then the copy is saved, with any steps in between. A rework
carries `Carry(parent)`, the registered VERIFY findings of that moment, at
`depth + 1`. `Evidence`, `Dispositions`, `Addresses`, `Complete` and `Answered` are
`rework_completeness.py`, `DeferralComplete` is `deferral_completeness.py`; `Write`, `Register` and `Close`
the governed write, register-artifact and finalize.

### EvidenceGraph, CodeWitness, Delivery and the code

`EvidenceGraph` has no state: `Nodes`, `Edges` and `Evidence` are the fold of
`projection.py`, the operators from `Uncovered` to `AnchorsUnresolved` its checks, each as the
set of nodes it finds fault with, `EvaluateCheck` and `ReplayFails` the replay of the frozen
checks, `FloorUnmet` the floor, `Underclaimed` the comparison of classes; `PlanSound`,
`ExecuteSound`, `VerifySound`, `TerminalSound` are the scopes in which gates ask them.

`CodeWitness` has no state either. A snapshot is three trees, of the merge base, of HEAD
and of the working directory, and a tree maps files to versions. `ChangedFiles` and
`TreeToken` are git as `gitio.py` and `witnessio.py` read it: the token is HEAD, the status and
the contents of the dirty files, without those whose names git quotes, and without the
merge base. `Account` and `Baseline` are what codeflair says of the changes and of a commit;
`Parsed` and `ParsedBaseline` what `witnessio.py` makes of an answer in which the entries of
some symbols are garbled (nothing: one bad entry takes the whole answer back);
`ClassOf`, `Advisories`, `Predicted` what `projection.py` and `scope_conformance.py` make of it.

`Delivery` puts them under a run, and nothing holds still while a gate works: `Write`, `Edit`,
`Commit`, `BaseMoves`, `WorldChanges`, `Restart` are the agent, the editor, git and the host, and
are possible at every moment until the run is closed. A gate is a *call*: it reads the
documents when it begins (`BeginPlanExit`, `BeginVerifyExit`, `BeginClosure`), asks codeflair
(`AskBaseline`, `AskClass`, `AskCascade`: the token is read, the memo consulted) and judges when it
has an answer (`EndPlanExit`, `EndVerifyExit`, `JudgeScope`, `Join`). In between codeflair looks at
git (`LooksAtGit`), later at the files (`IndexesFiles`, or `IndexesHead` for the baseline), and
its account is stored under the token of the question; or it does not answer
(`CannotTestify`). The closure reads the documents, derives the class witness, then reads
scope and git, derives the cascade witness, then reads scope and git again for the join.
`memo` holds the accounts of this process, of both modes. Entries, questions and verdicts carry
what no gate looks at: the snapshot the question was asked of (`of`), the merge base then
(`base`), and whether codeflair saw another repository than that (`raced`); the properties are
stated with these. A *story* fixes what may be written and edited.

### Guardian and the code

The tables (`StateTools` ... `StageForbidden`) are those of `config/uacp.toml`,
`phase_transitions.py` and `tool_specs.py`, the last by what adapters register. `Classify`,
`StageRefuses`, `Entry`, `Fallback` and `Evaluate` are `guardian.py`, rule by rule in its order.
`AskGuardian`, `PostCall` and `Load` are the Hermes plugin with its per-process cache;
`AskHook` is the shared pre-tool hook that is all a Claude or Kimi session has.
`ShellStart`, `ShellMint`, `Pruned` and `Holds` are the contained shell and its
attestations; `RunTransition`, `RunAbort`, `RunFinalize`, `Write` and `RunOther` the calls
once admitted; `EditPolicy`, `Restart`, `Tick` what happens around them. A call is given
by its tool, its context, the place the guardian finds in its arguments (`touches`) and the
place it will write (`lands`): a shell command that holds the root is judged by the root,
nested arguments are not looked at, so the two differ for raw shells, the general file
tools and tools nobody classified (`LooseTools`).

### CodeIndex and the code

A full build is `StartBuild`, `Scan` (the external indexer, file by file), `ReadBytes` and
`ReadStamp` (`_read_repo_bytes`: the bytes for the hash, then the mtime that may withhold
it), `ScipIngest`, `Floor` or `FloorSkipped` (tree-sitter when SCIP gave nothing), `Mark`.
`StartDelta` to `DeltaCommit` are `delta_reindex` for one source in one transaction, on
`job.draft`: the changes are found in one reading of the tree, `DeltaReindex` and
`DeltaForget` take the files one by one in path order (`Reindexed`, `Forgotten`; `Released` is
the collection of symbols nobody owns), and the tree is edited in between. `Radius`,
`BestSource` and `Heatmap` are the walk of a query and the ranking's choice of source,
`Status` and `Tag` the overlay. A text stands for the bytes and their hash. `store.reused`
is history: a build was added to a store in which an earlier job had left something
(`Used`).

## 3. Runs

Every run explores all reachable states of its instance; every property holds.

| run | instance | checks |
|---|---|---|
| `one_run` | 1 run, 2 killable processes, 1 initialiser and finaliser, 6 edges | `TypeOK`, `LockInv`, `GateBeforeEdge`, `ImplementsLifecycle`, `AbortIsFinal`, `FieldsKeptWhileActive` |
| `two_runs` | 2 runs, 2 killable processes, late callers, operator edits | `ClaimsHeldWhileActive`, `RegistryUpdatesOwn` |
| `teardown` | 1 run, 2 killable processes, operator edits, fairness | `HandlersReturn`, `AbortTeardownCompletes` |
| `ledger` | 2 killable processes, five hand-written records, one of them of a failure | `OnePassPerGate`, `LedgerLeadsByOneEdge`, `ResolvedIsCoherent` |
| `writer` | 3 stories: 2 checks, a check and a document, a corpus file of 2 runs; 2 ids | `FlaggedOnlyIfOutOfBand`, `OutOfBandIsFlagged`, `OneCheckPerId`, `FrozenChecksKept` |
| `isolation` | 3 careful runs, 6 scopes over 4 files | `IsolatedExecution` |
| `gates` | 6 casts of up to 2 of 7 runs, 2 goals, 2 units, budget 1, 3 records | `PromotionsBounded`, `AdviceIsSufficient`, `CountNeverResets`, `ResolvedOnOwnGoal` |
| `rework` | 3 runs, 2 findings, 4 paths, 8 documents | `LineageIsSound`, `EachFindingItsOwnAnswer`, `ParentCannotReopen` |
| `carry` | 2 obligations, 2 items, 25 drafts of 7 documents | `CarryTypeOK`, `OwedReachesClosure`, `NoUnassessedObligation` |
| `delivery` | 10 stories over 3 files in 3 versions | `AccountIsCurrent`, `SilentMeansCovered`, `SilentMeansGraded`, `OutcomeIsLateWork`, `OnlyAPassClears` |
| `guardian` | 1 Hermes and 1 Claude session, 30 calls, 2 attestations, 1 disturbance | `WayOn`, `SameStoryTwice`, `CacheOneLifeDeep`, `OneWriter` |
| `index` | 2 files, 4 texts, 2 names, 3 edits, 3 jobs | `NothingStaleIsTrusted`, `CleanFilesAreComplete` |

What the properties say and why they are not obvious:

* `ImplementsLifecycle` maps the manifests and ledgers on `RunLifecycle` and checks that
  every step of every interleaving is one of its steps or a stutter. A stale save
  that revives an aborted run, a transition whose record is missing, a status that
  does not follow its phase are all steps it does not have.
* `AbortIsFinal` and `FieldsKeptWhileActive` are about handlers that loaded a manifest
  before another handler's save and store it after.
* `GateBeforeEdge` orders two files, across crashes between them and across records
  an agent wrote by hand.
* `ClaimsHeldWhileActive` and `RegistryUpdatesOwn` are about the two files all runs share:
  a lost update drops or revives somebody else's entry.
* `AbortTeardownCompletes` needs the second call on an aborted run to be accepted; and
  `HandlersReturn` that no path leaves a lock behind and that no two handlers take
  two locks in opposite orders.
* `LedgerLeadsByOneEdge` and `OnePassPerGate` are what makes the retry of a crashed
  transition harmless in a file nothing can be removed from. `ResolvedIsCoherent` is the
  consequence a run's owner sees, whether it can be closed: the closure checks accept
  exactly if no agent left by hand a failing record of an edge or one of an edge the run does
  not cross, so nothing a crash or a retry leaves is refused, and nothing hides such a record.
* `FlaggedOnlyIfOutOfBand` and `OutOfBandIsFlagged` are the two halves of the closure
  check's meaning, and pull a rollback in opposite directions: it must restore the
  index so that the writer's failed call is not reported, but must not recompute it
  from the bytes, since that would vouch for an edit made by hand. The first excepts a
  corpus file that another run wrote last, which is reported (section 6, 4).
* `OneCheckPerId` survives a call that died before it registered, because the
  duplicate test is repeated when the half-written check is authored again.
* `IsolatedExecution` does not follow from the gate being right: the registry changes
  between the gate's read and the save, under another lock. It holds because of two
  runs past the gate at least one read the other's entry.
* `PromotionsBounded` is about a counter nobody keeps: the cap is compared with records
  gathered from the ledgers of all runs that name the goal, aborted ones included,
  while every run declares and rewrites a budget of its own. `CountNeverResets` is why
  starting again does not help.
* `ResolvedOnOwnGoal`: only the last record is looked at, and records of any goal may be
  appended before it.
* `AdviceIsSufficient` compares two gates written apart, on all versions of all documents
  they read, inherited scopes and a namesake's checkpoints included.
* `OwedReachesClosure`: each validator compares a document with its neighbours at one
  moment, any of them may be rewritten afterwards; still the items the run left VERIFY
  with are in the closure, but for those a later version of the readiness itself takes
  back (section 6, 10). `NoUnassessedObligation`: the assessment cannot be left out
  by leaving the readiness, which demands it, in an older version.
* `EachFindingItsOwnAnswer`: an entry may omit its id or its path, and what is omitted
  matches everything; still no entry settles two documents. `ParentCannotReopen`: the
  parent's agent goes on writing, and the carry does not follow.
* `OnlyAPassClears` is about a fold over documents in the manifest's order in which
  duplicates are dropped.
* `SilentMeansGraded`: a gate that reports neither an underclaim nor a missing witness has
  asked somebody who could see; the account may be fresh, kept, or of a repository that was
  edited meanwhile, garbled in one entry, and of ambiguous names.
* `AccountIsCurrent`: accounts are kept under a token of commit, status and contents that is
  read before codeflair starts; a commit, a revert or a second edit of a dirty file must
  change it. What the token cannot tell is excepted by name: a repository that changed
  while codeflair ran, a merge base that moved since, a dirty file of a quoted name
  (section 6, 19).
* `OutcomeIsLateWork` relates two readings of scope and git by one closure, under no lock, to
  what was edited, committed, merged or put out of the scope in between.
  `SilentMeansCovered` says that no advice is not the silence of a witness that cannot see.
* `WayOn` is about three tables that are edited apart and a phase name that is spelled in
  two ways; `OneWriter` about every route by which a call may reach a governed file, as far
  as the guardian finds the place: it also names every door by which a call whose
  arguments do not show the place gets through (section 6, 17);
  `SameStoryTwice` about the audit asking again after the configuration was changed;
  `CacheOneLifeDeep` about pruning only when somebody asks.
* `NothingStaleIsTrusted`: edges, bytes and hash of a file come from three moments of a
  build, and the symbol's file from whichever document was first. A node of a removed file is
  served as trusted (section 6, 24); of it the property says that its edges stood in the text
  last certified. `CleanFilesAreComplete`:
  a delta moves symbols between files one file at a time.

Every property of a run comes with a mutation of a mapped definition (dropped lock,
missing status test, truncated append, kept watermark, equality instead of ancestry,
the records of live runs only, any pass instead of a remediation, a token without the
contents, an answer read without its garbled entries, the hash of whichever source wrote
last, ...) under which TLC
refutes it; the mutated forms stand next to the originals, marked `mutation`.

### Bounds, and why they are enough

* **Two processes.** The handlers' conflicts are between one that holds a stale copy
  or a lock and one that moves meanwhile; a third process adds another of the
  latter. The theorems of section 5 are for any number.
* **One run for the manifest, two for the shared files.** Files of a run are
  touched by handlers of that run only, except pointer and registry; those need one
  run that holds a claim and one that acts. `WriteIsolation` takes three runs, so that a
  gate can see two rivals at different stages.
* **`MaxEdges = 6`** is the longest walk of the graph (brainstorm to resolved); the bound
  cuts nothing. `two_runs` sets 0, since transitions touch neither shared file;
  `teardown` sets 0, since the teardown depends on no phase.
* **`HandGates`** in `RunState` is one edge in the middle and `TRIAGE_COMPLETE`, the gate a
  transition records second.
* **`Calls`**, the hand-written records of `GateLedger`, are passing records of an edge, of `TRIAGE_COMPLETE`,
  which a transition records second, and of the edge a run born in triage never crosses; and a
  failing and a passing record of an edge in the middle.
* **`MaxLedger = 7`** admits every record a run born in triage gets by itself (five edges,
  `TRIAGE_COMPLETE`) and one more, by hand or a duplicate if there could be one; a run born in
  brainstorm is full when it has crossed its edges.
* **`Stories`, `Ids`, `Bodies`.** Two checks of one run compete for an id; a check and a document
  share an index; a corpus file has two writing runs. Two texts per path suffice to differ;
  ids are permuted by a symmetry set, since they are only compared. `Edits = {c1, d1, k1}`: one
  check and the other files are edited by hand, and one check is not, so that the two meet.
* **Workspace.** Two directories; a directory, files in it, one file written with a
  dot, a path that climbs into another directory, the empty scope.
* **`gates`.** Runs meet in four ways: through inheritance, through a goal, by name, or not at
  all; a cast for each, one for a run of no goal, and one for a run alone, which writes every
  version of every document, while the others write what matters between them (`worked` leaves a
  standard pair at PROPOSE). `MaxBudget = 1` with two runs of one goal is the
  smallest in which a run can be refused for another's records; `MaxRecords = 3` lets
  one go over the cap and a record of the other goal come last. `Twins` exchanges the
  two goal-driven runs, which differ in nothing.
* **`rework`.** Three runs make a rework of a rework; two findings, so that one entry
  may be asked to answer for both; documents with answers by key, by path, by both
  that disagree, with a fix of another run, without a reason, ill-formed.
* **`carry`.** Two obligations, one required, and two items: some, none, all of each.
  `Reopened = {contract, checkpoint, readiness}`: an agent that amends earlier documents while
  in VERIFY, and the readiness while in RESOLVE.
* **`delivery`.** A story isolates what may interfere: evidence and its remediation
  (`evidenced`); investigations and frozen checks (`investigated`); inheritance (`inherited`); a
  unit that names code, in an index that may be weak (`witnessed`); code and scope in one
  question (`covered`); a branch that moves below committed work (`moved`); a dirty file of a
  quoted name (`escaped`); a forecast and a codeflair that garbles an entry (`forecasted`); a
  git that fails and recovers between any two readings (`blind`); a scope that declares what
  it may not, in a workspace without git (`misdeclared`). Three versions of a file are its
  base, a change that adds a call, and one that makes a short name ambiguous.
  `MaxAccounts = 2` bounds the memo; an account more is one more entry of the same kind. One
  process finalizes: a second has a memo and a call of its own, and to the first is an editor
  of documents and files. `Broad = 2` stands for the fan-in that makes a change one of
  behaviour. This is the largest instance, 782,000 states.
* **`guardian`.** One session of either host: sessions of one host share all the state
  there is. `TTL = 1`, `MaxTime = 2`: an attestation made at the first tick is dead at
  the last. One disturbance (an edit or a restart) between or under any calls. Calls whose
  arguments hide the place (a shell that builds a path, a nested argument) are there beside
  the same calls that show it.
* **`index`.** Two files and two names: a definition that moves, a call across files, a
  file removed and made again. Three edits and three jobs admit a build, an edit during it,
  and two deltas after it.

`CHECK_DEADLOCK FALSE` stands where the system may stop: a resolved or aborted run
whose agents stop calling (`ledger`, `gates`), a finalized one (`carry`), and where a
bound on time, edits or jobs is used up (`guardian`, `index`).

### Fairness

`HandlersRun` is strong fairness of `Step(p)` for each process: a handler that was
started goes on running unless its process is killed, and a lock that is free again
and again is granted in the end, because `flock` waiters are queued by the kernel. No
fairness is assumed of calls: agents may stop calling at any time. `AbortRetried` is
used by `AbortTeardownCompletes` alone; it says that an agent or operator calls abort
again on an aborted run whose teardown is incomplete, which is what the error of the
first call asks for. That property also assumes that a broken shared file is repaired
for good and that processes stop being killed: without either no teardown can
complete. The other modules state no liveness: every one of their steps is an agent's
own choice, and nothing in the code makes an agent go on; `WayOn` is the part of
progress the code owes, that no table stands in the way.

## 4. Hazards

`PROJECT.json` lists them at their lines, each with the properties that would catch it
going wrong. Those without a property:

* the unlocked finalize, the late pointer seed, and the registry compared with the
  scope as text: the code lets them happen (section 6, 1, 2, 7); the definitions
  `RunState!FinalizedOnlyAfterSweep`, `RunState!ReleaseNotResurrected` and
  `WriteIsolation!MirrorAccepted` state the promises, and TLC refutes them;
* `deferred_items` of a manifest: dropped by every save, in whatever order (section 6, 8);
* the prefix glob that counts a namesake's units, and a rollback that stops halfway: the code
  lets them happen (section 6, 11 and 5); `PhaseGates!UnitsAreItsOwn` and
  `EntityWriter!RollbackIsWhole` state the promises, and TLC refutes them;
* time stamps of the ledger taken before the lock (section 7);
* two runs with overlapping registered paths block each other until one is aborted:
  intended, the block goes to the operator.

Two init calls of one id and agents that never register have properties that hold under
an assumption only (section 7); two writers *of one run* in the entity writer are
excluded by its documented assumption of a single writer, and by the model's.

## 5. What is proved

Theorems are for any sets of runs, processes, documents and files, any crash set, and
any bounds. `tlapm` checks every leaf. The assumptions on constants are the named
`ASSUME`s of the modules, which TLC evaluates on every instance.

**`RunStateProofs`** (no assumption but that `NoFile` and `Unnamed` are no runs).
* `TypeCorrect`: `Spec => []TypeOK`. The inductive invariant is `TypeInv == TypeOK /\ JobOK`: `TypeOK`
  alone is not inductive, because a step in the middle of a handler saves `job[p].man` to
  `manifest[job[p].run]` along `job[p].edge`; `JobOK` says that a started handler serves a
  real run, and a transition in flight crosses a real edge.
* `CriticalSectionsExclude`: `[]LockInv`. Each lock is held by exactly the process whose `pc` is
  in its critical section, and an abort may be in two; inductive together with `TypeInv`.
* `NoUpdateIsLost`: `RegistryUpdatesOwn`. From `SharedInv`: a process in a critical section of pointer
  or registry that has read the file has, in its copy, what is on disk (`CopyInv`).

* `GatesPrecedeEdges`: `[]GateBeforeEdge`. A saved history may come from a copy that was loaded
  many steps ago, so `GateInv` claims the same of *every loaded manifest*, and of a
  transition between its records and its save that its edge's records are there. It is
  kept because records are only ever added (`RecordedGrows`): a stale copy is never ahead
  of the ledger. The proof needs no lock, so it covers `handle_init` and
  `handle_finalize`, which take none, and two initialisers as well.
* `AbortedStays`, `FieldsAreKept`, `ClaimsAreHeld`, `EngineImplementsLifecycle`: for one initialising
  process (`OneInitialiser`, section 7). They follow from `LifeInv`, which says what each
  handler in flight knows of the manifest on disk (`Knows`): a handler under the run lock
  has it as it is; a finalize, under none, has a resolved one, and a resolved run is
  neither aborted nor moved by anybody; the initialiser, before its first save, that
  there is none. The refinement is the last: each save is a step of `RunLifecycle`, since
  what is saved is the manifest on disk and one change, and each record is an `Admit`.

**`GateLedgerProofs`**. The run lock makes the read of the passing records and the append one
step to everybody else; the invariants say what a call in flight knows meanwhile.
* `LedgerRunsOneAhead`: `LedgerInv`. A transition's `todo` and the records that are there make up
  the gates of its edge; the ledger may be ahead of the history by that edge, and by
  what was recorded by hand. No assumption beyond the shape of the calls.
* `LedgerKeepsOnePass` (`NamedAsCalled`): `SingleInv` adds that what a call is about to append has
  no passing record yet, and is in its list once. That survives other processes only
  because no other process can append (`OneLacking`).
* `ClosureAcceptsTheWalk` (`NamedAsCalled`): `WalkInv` adds that the history climbs
  the lifecycle one rank an edge from the phase the run was born in, and that each edge of
  it has its record. In resolved, a recorded edge of the way therefore was crossed, at the place
  its rank gives. The statement is an equivalence: the sweep accepts exactly if `LeftByHand` is
  empty, that is, if there is no failing record of an edge and none of an edge off the way,
  whoever wrote it and when. One direction is what a crash or a retry may not break, the other is
  the refusal of section 6, 3.

**`EntityWriterProofs`**. `ChecksStayFrozen`: `Spec => FrozenChecksKept`. The invariant `FrozenInv`: a
registered check is a document of its own run and has a watermark; a call in flight that
writes a registered check carries exactly the watermarked text; and the snapshot a
rollback will restore agrees with the index on all registered checks. The last part is
what a rollback of one document needs so as not to move another's watermark.
`EditsStayReported`, `WriterIsNotAccused` and `ChecksKeepTheirIds` need the larger `WriterInv`: what
each file and watermark is between the steps of a call, by comparison with the text of
the last completed write (`Rests`, `InFlight`, `AgentInv`). They assume nothing; any number of
runs may write a corpus file, and `History` knows of it whose call wrote last (`by`), which is
the one exception `WriterIsNotAccused` makes (section 6, 4).

**`AccessProofs`**, over `Guardian` and `WriteIsolation`: who may write what, and when. Of the
clock it is assumed that an attestation lives at least one tick (`TTL > 0`, section 7).
* `GuardianTypeCorrect`: `GuardianInv` adds to the types what a call in flight is made of
  (`CallsOK`), which `GuardianTypeOK` alone does not carry through a call.
* `AlwaysAWayOn`: `[]WayOn`. `RunInv` ties the run's status to its phase and says that what was
  loaded was readable; the rest is the tables, stage by stage.
* `TheStoryHolds`: `[]SameStoryTwice`. `JudgedInv`: each call under way on Hermes either is a read
  that nobody judged, or its verdict is what the configuration *still loaded* gives for
  it, with or without an attestation. A process keeps what
  it loaded (`Load`): only its end forgets it, and that ends its calls too.
* `OneWriterEach`: `[]OneWriter`, for any tables of calls, in which the place a call writes has
  nothing to do with the place the guardian finds. A Hermes call under way was admitted, by
  `JudgedInv` from the configuration still loaded; so if it writes a governed file and its
  tool is not that file's writer, the guardian did not find the place, and the case split
  over its rules leaves three ways through: a call bound to no run and no place, stages that
  could not be read, a raw shell at execute in observe mode with an attestation. `HookInv`: a
  call that the hook of a Claude session denies is under way there only if the hook could not
  read its payload.
* `NothingOutlivesItsUse`: `[]CacheOneLifeDeep`. `CacheInv` is about pairs of remembered
  attestations, and about a shell between its probe of the cache and its own entry: none
  dies before another was validated, nor before that probe. The probe leaves nothing
  dead behind, and what other shells add after it lives at least a tick from then.
* `CarefulRunsAreIsolated`: if all agents are careful and no declared path
  is a pattern, `Spec => []IsolatedExecution`. `SharedFileOverlaps` shows that two plain paths
  covering one file overlap in canonical form. `IsolationInv`: a run in or past the gate is
  listed with the paths of its scope, and of two runs past the gate one does not conflict
  with the entry of the other, namely the one whose gate was evaluated second. Both
  assumptions are needed (sections 6 and 7).

**`PhaseGatesProofs`**. `GateInv` is types, what a judged run's gate has found, and that a
promoted run still has the records it was promoted on (`PromotedInv`).
* `ResolvedOnItsGoal`, `SpentStaysSpent`: from it, because records are only appended and no
  manifest is taken away.
* `BudgetBoundsTheGoal`: `[]PromotionsBounded`. The promoted runs of a goal inject into the records
  of the goal, so at the moment of a promotion there are at least as many records as
  runs, and the gate has compared the records with a budget.
* `AdviceSuffices`: `[]AdviceIsSufficient`, gate by gate, for any namesakes.

**`DocumentProofs`**, over `CarryForward` and `ReworkChain`. `TypeCorrect` is the first half of
`SafeInv`; the second says that `advised` means the gate holds *now*.
`NothingOwedIsLost`, for any `Reopened`: in resolved, what is owed and was not taken back is in
the readiness as it stands (`OwedInv`), and a finalized run's closure carries that.
`NoneUnassessed` needs `SafeInv` alone.

Of the rework chain, `LineageHasNoLoop`: `LineageInv` says of every rework, and of every copy an
initialiser holds, that its parent exists and is one less deep; any number of
initialisers, each with an id of its own. `OwedIsSettledAtInit`: the verdict is a function
of the carry, the registrations and the documents they name. `NoTwoFindingsByOneWord`:
choosing an answer for each carried document is an injection.

**`DeliveryProofs`**. Documents, files, commits, the merge base, git and the process change under
every call, so an invariant that spoke of the repository as it is would not survive a
step. `KnowledgeInv` speaks of snapshots instead: each kept account that was not raced is one of
*some* snapshot with its token and its merge base (`MemoInv`), and so is the account a
question on hold has by now (`ProbeInv`). Nothing that happens outside touches either, which
is one lemma (`HappensOutside`); the work is in codeflair's two readings and in the answer.
* `KeptAccountsAreCurrent`: `[]AccountIsCurrent`. `TokenTells`: two snapshots with one token have one
  HEAD and the same dirty files, with the same contents but for quoted names; with one merge
  base, the same changes.
* `SilenceIsKnowledge`: `[]SilentMeansCovered`, of the snapshot the question was asked of.
* `SilenceIsAGrade`: `[]SilentMeansGraded`. `CallInv` carries what the first half of a closure found
  through the second: grades by an account of a snapshot with the token (`Graded`), or the
  advice that there were none. `JudgedByTheCode` is about the class of such an account,
  `SourcesDoNotMatter` about checks without code.
* `JoinedWithLateWorkOnly`: `OutcomeIsLateWork`. `CallInv` carries the other finding, that the scope
  and the repository judged had no offenders (`Contained`); whether a file offends depends
  on that file only (`OffendsByItself`), so one that does later has changed.

`RecordedFailuresStand`: the action property `OnlyAPassClears`. Documents that are added leave the evidence kept first and the outcome
of each checkpoint (`EvidenceStays`); the resolved investigations are the *least* set with
the passes that is closed under revision (`PassReachedLeast`), so the set of before bounds
the set of after unless a pass was added. `PassReachedLeast` is about the recursive walk
itself, for any finite set of entries: the recursion has a solution (`WalkExists`), and as
each step that adds nothing is the last, as many steps as there are entries suffice,
whatever cycles the revisions make.

**`CodeIndexProofs`**. `IndexInv`, for any files, texts, edits and jobs, speaks of the store, of the job
at work on it and of the tree below both:
* `SoundStore`: the edges out of a file stand in the text its hash certifies, and a
  floor symbol has its row while the floor certifies its file. It holds of the draft of
  a delta after every file too, in whatever order sources and files share symbols
  (`StampedSound`, `ReleasedSound`, `ForgottenSound`).
* `Whole`, of every file of the store: what scip certifies is there. A draft has it but
  for the files the delta still owes (`Owing`), since a symbol moves away from the file
  that defined it before the file that will is reached.
* `BuildInv`: a file not touched since the build began is as the indexer saw it, and the
  bytes about to be certified are those; reading the bytes *before* the mtime is what
  makes it inductive.

`AnswersAreHonest` is `[]NothingStaleIsTrusted`, from `SoundStore`: a trusted node of a file that is
there is certified by its own source as the tree has it, and the node starts an edge; one of a
removed file has its edges in the text certified last. `CertifiedFilesAreComplete` is
`[]CleanFilesAreComplete`, from `Whole`; `IndexTypeCorrect` comes with the invariant.

Recursion and induction. The library's induction theorems take an operator, which the
provers cannot instantiate. `Least` and `Climb` (in `DeliveryProofs`), and `MinInSet` (in
`CodeIndexProofs`), get the same from a theorem that takes sets: strict inclusion is
well-founded on finite sets, so the intervals up to the members of a set of numbers
have a least one.

Only model-checked: `HandlersReturn` and `AbortTeardownCompletes`. Liveness under fairness is
out of the prover's reach. Every safety and action property of a run is a theorem.


## 6. Disagreements found

Where the code does not do what a document, comment or test of the repository says. The
first eight concern the state engine and the governed writer. Each names what to change
in a configuration to see TLC refute the stated promise; the promises that no run checks
stand at the end of their modules.

1. **A blocked finalize may leave its stamp.** `handle_finalize` saves a tentative stamp
   (`state_machine.py:1313`), sweeps, and reverts it (`:1328`), without the run lock. A
   register-artifact that loads in between stores the stamp again, so the run is
   finalized on disk after the sweep blocked it (against the comment
   `state_machine.py:1315-1317`). `INVARIANT FinalizedOnlyAfterSweep` in
   `RunStateOneRun.cfg`.
2. **A released pointer may be named again.** The pointer lock orders the writers, but
   nobody reads the run's status under it; the seed of a slow init, or a queued state
   write, names a run whose abort was completed meanwhile (against
   `tests/unit/uacp_state/test_pointer_lock.py:3-6`). `PROPERTY ReleaseNotResurrected` in
   `RunStateTwoRuns.cfg`.
3. **A recorded failure can never be closed.** A failing record of an edge and the
   passing one after it are two records of one edge of the history. C2 counts records
   of any result, the ledger cannot be amended, so the run cannot be finalized
   (against `state.py:351-375`, which offers the failing record). `ResolvedIsCoherent` states
   it: closure is refused exactly if a record of this kind, or of an edge off the run's way,
   was left by hand; the `ledger` run has such records, and the theorem holds for any.
4. **Corpus files belong to no run, their watermarks do.** Lessons and knowledge files
   are overwritten on purpose (`skills/uacp-resolve/references/lesson-corpus-extraction.md:31`),
   but each run keeps the watermark of its own last write (`governed_handlers.py:556`),
   so the earlier run is reported as tampered with. `FlaggedOnlyIfOutOfBand` excepts exactly
   that (`WrittenByAnother`); without the exception the corpus story of the `writer` run, two
   runs and one file, refutes it.
5. **A rollback may stop halfway.** Its docstring restores file and index "to its EXACT prior
   state" (`entity_writer.py:311-316`). If somebody removed the fresh file meanwhile, `unlink`
   raises (`:346`), the `except` swallows it, and the index is not restored: the watermark of a
   call that failed stays, and a later file with that text is vouched for although no call
   completed it. `PROPERTY RollbackIsWhole` in `EntityWriterEdits.cfg`.
6. **Wildcards are registered.** `skills/uacp-state/SKILL.md:31` and `state.py:610-612` say that
   registration rejects them; `_canon_write_path` accepts `executions/**`, and
   `_paths_overlap` compares patterns as names, while `FileBoundary` expands them. Two
   careful runs then execute on one file: `Scopes <- Patterns` in
   `WriteIsolationCareful.cfg`, `IsolatedExecution` fails.
7. **The registry is compared with the scope as text.** Registered paths are canonical
   and end in `/`; C6 (`coherence.py:489`) and `SC_SCOPE_REGISTRY_DISAGREE`
   (`scope_conformance.py:332`) compare strings with the scope's own text, so a run that
   declared `x/a` in both is reported. `Scopes <- Written`, `INVARIANT MirrorAccepted`.
8. **`deferred_items` do not survive.** `RunManifest` has no such field, so every
   `_save_manifest` drops what `deferral_completeness.py` looks for in the manifest;
   `DF_DEFERRAL_DROPPED_AT_RESOLVE`, which its docstring (`:3-9`) announces, cannot be
   reported of a manifest the engine has saved. No model: it is a missing field.

Heartgate and the documents.

9. **The full check does not always imply the forced one.** At brainstorm the full
   check looks for a package by a glob over all runs, the forced gate for the run's own;
   at execute the forced gate of a standard run compares every declared work unit with
   its checkpoint, the full one does not. `AdviceIsSufficient` is stated outside these two
   phases. To see the others: add `"brainstorm"` to its list and `r2` to `Audited` (without `Twins`);
   or add `"execute"`, and let the agent write the `"bundle"` in `Versions1`.
10. **The closure is checked against the readiness as it stands.** `uacp_artifact_write` does not
    look at the phase, so the readiness may be rewritten in RESOLVE, and what its new version
    lists no more the closure need not carry. `lifecycle-semantic-gates.md:49` (in
    `skills/uacp-core/references/`) wants risks and deferred items "carried forward (not dropped
    from VERIFY readiness)", `skills/uacp-resolve/SKILL.md:182` has RESOLVE preserve them.
    `OwedReachesClosure` says that this is the only way to lose one (`shed`); `INVARIANT
    NothingIsShed` in `CarryForward.cfg` fails.
11. **A namesake's units count.** The execute gates find a run's checkpoints by the glob
    `{run_id}-checkpoint-*.yaml` (`heartgate.py:420,491,523`), which takes along those of a run
    whose id continues with `-checkpoint-`. The plan of one run is then covered by another's
    units, against the comment `heartgate.py:513-515` ("Each required work_unit must have an
    after_work_unit checkpoint"), read of the run's own. `PROPERTY UnitsAreItsOwn` in
    `PhaseGates.cfg`.

Guardian.

12. `_sandbox_contained_shell` (`core/governed_handlers.py:412-476`) loads the policy with the
    call's `workspace`, takes its root from there, and then refuses a workspace below that
    root: a call that names `workspace`, as the tool's schema invites it to, is refused,
    one that names `workdir` or `cwd` is not. The field `named` of a call in `Guardian`.
13. `uacp_run_status` is documented as a read-only governed tool
    (`docs/runtime/runtime-enforcement.md:358`) and registered, but the classifier does not
    know it: it falls to the class of unknown extensions and is blocked on Hermes.
    `OneWriter` and `WayOn` are not about reads, so they hold all the same.
14. `docs/runtime/runtime-integration-guide.md:305` says that writes below `docs/` and
    `config/` block through any tool but the named one; classification is by the tool's
    name, and a general write tool is blocked there only inside `.uacp/`.
15. `runtime-integration-guide.md:288` says that an edit of the policy has no effect on a
    running session. The decision does come from the cached policy, but an attestation's
    version is compared with the file as it is now, so an edit takes the attestations
    away at once (`EditPolicy`; `SameStoryTwice` excepts calls that leaned on one).
16. A manifest's phase `resolved` is not a stage of the policy. A context stamped with
    it verbatim (`runtime-integration-guide.md:110`) is refused the finalize it needs; the
    alias `resolve` passes. `WayOn` says that some spelling does.
17. `runtime-integration-guide.md:304` says that a direct write below `state/` by a tool other
    than `uacp_state_write` blocks in both modes, and so does the comment at
    `guardian.py:197-199`. It does if the guardian finds the place. Of a command that holds the
    workspace root it takes the root only (`guardian.py:477-484`), nested arguments are not
    scanned (`:432-452`); a raw shell at execute with an attestation is then a policy default,
    and observe mode downgrades it (`:194-206`). `INVARIANT StateHasOneWriter` in `Guardian.cfg`
    fails; `OneWriter` names the doors.

Planes and codeflair.

18. `scope_conformance.py:470-472` says that the diff check and the closure join "can never
    disagree". They are one function called twice, with a derivation between, and the join
    reads the scope (`:1087-1090`) and git (`:1118-1120`) anew under no lock: what is edited,
    committed, merged or put out of the scope meanwhile is an outcome of a run the blocking
    check let close. `OutcomeIsLateWork` states what is left of it; `PROPERTY JoinAgrees` in
    `Delivery.cfg` fails.
19. `derive_witness` "returns the memoized result on an unchanged tree AND an unchanged claim"
    (`witnessio.py:711-712`). The token is read (`:721`) before codeflair runs, for up to 120
    seconds and once more after a timeout, and the account is stored under it (`:735`): an
    edit that is reverted when codeflair is done leaves an account of another tree. The token
    does not hold the merge base, which may move below an unchanged HEAD; a name that git
    quotes is not unescaped, and the file hashes to `__missing__` (`:320-323`, `:361-365`); and
    codeflair takes a git status that fails for a clean tree (`codeflair/witness.py:159-161`).
    `AccountIsCurrent` excepts these; `INVARIANT KeptIsOfTheTree` in `Delivery.cfg` fails.
20. `forget_file` deletes every symbol of a file no source has a hash of, "any residual
    (bare-added, unowned) symbols" (`codeflair/store.py:315-317`). They may be owned: a source
    whose hash of the file was withheld, because the file changed during its build, still
    owns its symbols there, and its edges and its ownership stay behind without their
    rows. A later build of the store brings the rows back and, with them, edges of a text
    that is gone. This takes four edits and four jobs (`MaxEdits = 4`, `MaxJobs = 4`) and a
    `Used` that looks at the rows only; it is why `Used` looks at edges and hashes as well.
21. A rebuild on an existing store keeps symbols and edges that are gone from the tree
    and certifies the new hash of their file (`codeflair/cli.py:63-78`). Both properties of
    `CodeIndex` are stated for stores that were not reused this way.
22. "If NOTHING was indexed ... the watermark is NOT advanced" (`cli.py:74-78`): what was
    produced is counted over the whole store (`cli.py:97-98`), so a failed rebuild of a
    store that had rows advances it.
23. A delta may lose edges: files are processed in the order of their paths, and a
    symbol that moves to a later file is collected with its file's old rows before the
    later file adds it again; edges to it from unchanged files go with it
    (`delta.py:110-113`, `store.py:372-375`). `CleanFilesAreComplete` excepts the symbols of
    `collected`.
24. "trusted" means "working hash == that source's recorded hash" (`codeflair/overlay.py:18-19`),
    "clean store" (`design/codeflair/10-freshness.md:78`). A file that was removed has no working
    bytes, is not among those a caller can supply, and its nodes stay trusted
    (`overlay.py:131-132`, `:170-171`) until a delta forgets it. `INVARIANT TrustedIsClean` in
    `CodeIndex.cfg` fails; of such nodes `NothingStaleIsTrusted` says less.

## 7. Assumptions, and what lies behind them

* **One process per run calls `uacp_run_init`** (`Initialisers = {p1}`). The existence check
  and the first save of `handle_init` share no lock. With two initialisers TLC refutes
  `AbortIsFinal`: the slower save replaces the manifest of a run that was created and
  aborted meanwhile. `AbortedStays`, `FieldsAreKept`, `ClaimsAreHeld` and
  `EngineImplementsLifecycle` need the assumption; `TypeCorrect`, `CriticalSectionsExclude`,
  `NoUpdateIsLost` and `GatesPrecedeEdges` do not. In `ReworkChain` the same race could make a
  loop of parents, so each initialiser has an id of its own.
* **Agents register their scope** (`Careless = {}`). The gate never asks whether the run
  itself is listed. With `Careless = {r2}` TLC finds an unlisted run and a listed one
  executing on one file.
* **C3 is asked of runs created in triage.** `_check_c3_phase_path` wants the history to
  start at triage, while `handle_init` accepts brainstorm: no run created there passes.
* **The ledger has no time.** A hand-written record is stamped before its handler queues
  for the run lock (`state.py:339`), so stamps can be out of order, which
  `ledger_integrity.py` reports. A model with stamps refutes the order at once and says no
  more than this sentence.
* **One agent writes for a run** in `EntityWriter`, as `entity_writer.py` documents, and a step
  of a rollback does not itself fail.
* **Hashes and tokens have no collisions**, and a record names the gate its call was
  tested for (`NamedAsCalled` in `GateLedgerProofs`).
* **An attestation lives for at least one tick** (`TTL > 0` in `Guardian`): the handler takes
  no less than 30 seconds (`core/governed_handlers.py:346`).
* **What a text defines and calls are names, and it calls from what it defines**
  (`CodeIndexAssumption`): both producers attribute a reference to the definition that
  encloses it.
* **Checkpoints are a list and entries a finite map** in the documents a story begins
  with, and no entry has the id `Nobody`, which stands for an absent field
  (`StoryAssumption`).
* `.` segments of a path are a flag, since their place is never asked.
* **Documents of a run are its own.** `CarryForward` takes every PIV document to name the
  run's contract; the code does not compare the reference. `PhaseGates` knows globs over
  all runs, a namesake's checkpoints and inherited documents.
* **A gate of `Delivery` reads its documents when it begins**, each once, in one step; the scope is
  read again where the code does so. git's half of an account is one reading (status, diff, merge
  base), and so is codeflair's pass over the files; between the token, the two and the verdict
  anything may happen. One process finalizes.
* **What git quotes is a set of files** (`Quoted`), and an account is garbled symbol by symbol
  (`garbled`): which names and answers these are is not asked.
* **`PhaseGates` asks the full gate of a run only if its agent does**; only the forced gate
  is between a run and its next phase.
* **One indexing job at a time** in `CodeIndex`, names unique in the tree, and the indexer's
  reading of one file atomic. Two processes that index at once write in SQLite's
  transactions, one after the other, but each with facts of its own time.
* **Sessions tell the truth about themselves**: the phase in a call is the caller's claim,
  which the guardian does not compare with the manifest. The properties of `Guardian`
  are about what follows from the claim.

## 8. Not modelled

* *state engine*: the event log and escalation events, workspace creation by git.
* *heartgate*: the semantic review markdown, the coherence lenses C4 to C6 of PLAN, guard
  fields, the wording of lessons. The second PPV failure, which shuts the full gate, is in
  `PhaseGates` and has no property of its own. Unreadable manifests and ledgers, which count as
  no record in the budget of a goal (`goal_driven.py:160-163`, `:188-189`, `:212-213`): the cap is
  that of the records that can be read.
* *rework*: one evidence file that binds both to `r` and to `r-x`
  (`_run_bound_under`, `rework_completeness.py:300-304`); in `ReworkChain` a document is one run's.
* *guardian*: `normalize_tool_name`, patterns of network writes, the scanning of shell text
  (string matching, whose result is an input here), bubblewrap itself. The allowlist is
  per tool class; a general write tool is in no stage's allowlist.
* *projection*: investigation status and its escalations; the ledger of the witness.
* *planes*: the resort for more than 500 changed files, which skips the memos; containment
  when git cannot be observed passes with a warning; `.uacp/code-index.db` is not tied to a
  tree by anything, and the model follows the code in trusting it.
* *codeflair*: coupling weights (which accumulate on rebuild, `store.py:178-192`), the ranking,
  tracing and expansion of queries, the commit read after the scan, the granularity of
  modification times (`scip_ingest.py:336-340`), two sources for one file, which no real
  producer makes.
* *oracle*: retrieval and ranking are numeric and read-only; the corpus writer swaps two
  environment variables of its process under a lock (`corpus_writer.py:49-110`), and its host
  is single-threaded.
* *schemas, layout, loaders*: shapes of documents; what gates do with an ill-formed one is
  in the modules that read it.
* *proving ground, web view, skills, scripts*: they drive or show the core, or instruct
  agents. `validate_uacp_artifacts.py` is in `CarryForward` as far as heartgate loads it.
* Threads inside a process, power loss, file systems whose rename is not atomic.

## 9. Plan

What is left, the most useful first:

1. Two initialisers: which of the lifecycle's promises survive, and the smallest lock
   that restores them.
2. Finalize composed with the sweep: `RunState!FinalizeLoad` ... `SweepPasses` around
   `Delivery`'s closure, and two processes that finalize at once, each with a memo.
3. Escalation events and the investigation status of the projection.
4. Coherence checks C4 to C6 beside C2 and C3, once the comparison with the registry is
   on canonical paths.
5. Codeflair: couplings, two index processes on one store.

## 10. Running

    tlc -workers 2 -config RunStateOneRun.cfg MCRunState.tla
    tlapm RunStateProofs.tla

`PROJECT.json` names module and configuration of every run, the mutation for each
property, and the source lines of every definition.
