---------------------------- MODULE PhaseGates ------------------------------
(***************************************************************************)
(* Heartgate: what admits a run out of each phase.  A transition asks the  *)
(* forced gate of the phase (state_machine._PHASE_GATE_TABLE); an agent    *)
(* may ask the full gate (validate_transition) beforehand.  Gates read     *)
(* documents and ledgers that every session writes at any time and under   *)
(* no lock of the run.  A standard run is admitted by documents, a         *)
(* goal-driven one by the CHECKPOINT records of all runs under its goal.   *)
(*                                                                         *)
(* A document is reduced to the version a gate tells apart: "bad" fails    *)
(* the contract the forced gate measures, "thin" meets that one and not    *)
(* the full gate's, "good" meets both.  Nothing deletes a document.  The   *)
(* graph gate and the overlap gate can only block a crossing further; they *)
(* are in Delivery and WriteIsolation.                                     *)
(***************************************************************************)
EXTENDS PhaseGraph, Naturals, Sequences, FiniteSets

CONSTANTS
    Runs, Goals, Units,  \* run ids, goal ids, work units that PIVs require
    NoRecord, NoGoal,    \* what no CHECKPOINT record and no goal equals
    Namesakes,           \* [Runs -> SUBSET Runs]: whose id continues "<id>-checkpoint-"
    Casts,               \* the sets of runs looked at together: [Runs -> Charter]
    Drafts,              \* [Runs -> [DocumentKinds -> versions the agent may write]]
    Audited,             \* the runs whose agent records its failed attempts too
    MaxBudget,           \* the largest max_checkpoints anybody declares
    MaxRecords           \* bound on the CHECKPOINT records of a goal's runs together

Versions == {"absent", "bad", "thin", "good"}
DocumentKinds ==
    {"package", "triage", "intent", "envelope", "reuse", "module", "selection", "scope",
     "piv", "bundle", "verification", "readiness", "dispositions", "lessons"}

\* track and goal (if any) of the manifest, the track TRIAGE decided, the run it
\* inherits from (itself for none), the phases it may be created in, and those
\* in which its agent is still at work (a bound: the run is left there).
Charter == [track: {"standard", "goal-driven"}, goal: Goals \cup {NoGoal},
            decided: {"standard", "goal-driven"}, parent: Runs,
            start: SUBSET InitialPhases, worked: SUBSET Phases]

ASSUME PhaseGatesAssumption ==
    /\ IsFiniteSet(Runs) /\ NoGoal \notin Goals /\ Namesakes \in [Runs -> SUBSET Runs]
    /\ Audited \subseteq Runs /\ Casts \subseteq [Runs -> Charter]
    /\ Drafts \in [Runs -> [DocumentKinds -> SUBSET (Versions \ {"absent"})]]
    /\ MaxBudget \in Nat /\ MaxRecords \in Nat
    /\ NoRecord \notin [goal: Goals, verdict: {"keep", "roll_back"}]

VARIABLES
    charter,      \* [Runs -> Charter], fixed when the run is created
    phase,        \* [Runs -> Phases \cup {"none"}], current_phase
    aborted,      \* the aborted runs
    registered,   \* [Runs -> {"none", "module", "other"}], artifacts["proposal"]
    inherited,    \* runs whose inherited_artifacts hold the parent's scope module
    doc,          \* [Runs -> [DocumentKinds -> Versions]]
    unit,         \* [Runs -> [Units -> {"none", "block", "clean"}]], after_work_unit files
    validations,  \* [Runs -> Seq({"good", "bad"})], PLAN_VALIDATION pass records
    attempts,     \* [Runs -> [passed, failed]], PPV records of the current phase
    checkpoints,  \* [Runs -> Seq of records], CHECKPOINT records
    budget,       \* [Runs -> 0 .. MaxBudget], 0 for a missing or invalid budget file
    evidence,     \* does the file exist that the records name as evidence?
    judged,       \* runs whose forced gate has passed, before the manifest is saved
    promoted      \* history: goal-driven runs admitted to verify on their checkpoints

files   == <<doc, unit, budget, evidence>>
ledgers == <<validations, attempts, checkpoints>>
vars    == <<charter, phase, aborted, registered, inherited, files, ledgers, judged, promoted>>

CheckpointRecord == [goal: Goals, verdict: {"keep", "roll_back"}]

TypeOK ==
    /\ charter \in [Runs -> Charter] /\ phase \in [Runs -> Phases \cup {"none"}]
    /\ aborted \subseteq Runs /\ inherited \subseteq Runs
    /\ judged \subseteq Runs /\ promoted \subseteq Runs
    /\ registered \in [Runs -> {"none", "module", "other"}]
    /\ doc \in [Runs -> [DocumentKinds -> Versions]]
    /\ unit \in [Runs -> [Units -> {"none", "block", "clean"}]]
    /\ validations \in [Runs -> Seq({"good", "bad"})]
    /\ attempts \in [Runs -> [passed: BOOLEAN, failed: 0 .. 2]]
    /\ checkpoints \in [Runs -> Seq(CheckpointRecord \cup {NoRecord})]
    /\ budget \in [Runs -> 0 .. MaxBudget] /\ evidence \in BOOLEAN

Init ==
    /\ charter \in Casts
    /\ phase = [r \in Runs |-> "none"]
    /\ aborted = {} /\ inherited = {} /\ judged = {} /\ promoted = {}
    /\ registered = [r \in Runs |-> "none"]
    /\ doc = [r \in Runs |-> [k \in DocumentKinds |-> "absent"]]
    /\ unit = [r \in Runs |-> [u \in Units |-> "none"]]
    /\ validations = [r \in Runs |-> <<>>]
    /\ attempts = [r \in Runs |-> [passed |-> FALSE, failed |-> 0]]
    /\ checkpoints = [r \in Runs |-> <<>>]
    /\ budget = [r \in Runs |-> 0] /\ evidence = FALSE

-----------------------------------------------------------------------------
(* The goal-driven track (heartgate/goal_driven.py).                       *)

GoalDriven(r) == charter[r].track = "goal-driven"

\* The entries of r's checkpoint manifest that have the shape of one.
Entries(r) == {i \in DOMAIN checkpoints[r] : checkpoints[r][i] # NoRecord}

\* The cap counts the records, well-formed or not, of every run whose manifest
\* names the goal, whatever became of the run.
CountOwn(g) ==                             \* mutation: the run alone, the goal is forgotten
    IF \E r \in Runs : Len(checkpoints[r]) > 0 THEN 1 ELSE 0
CountLive(g) ==                            \* mutation: the runs the registry still lists
    Cardinality(UNION {{r} \X DOMAIN checkpoints[r] :
        r \in {q \in Runs \ aborted : phase[q] # "none" /\ charter[q].goal = g}})
CheckpointCount(g) ==
    Cardinality(UNION {{r} \X DOMAIN checkpoints[r] :
        r \in {q \in Runs : phase[q] # "none" /\ charter[q].goal = g}})

\* load_convergence_budget: the file is there and declares a positive cap.
Budgeted(r) == budget[r] > 0

\* The manifest of checkpoints may stand for the documents: every record is an
\* entry with its evidence, the goal the first one names is within the budget,
\* and the last one is a keep.
Coherent(r) ==
    /\ checkpoints[r] # <<>> /\ Entries(r) = DOMAIN checkpoints[r] /\ evidence
    /\ Budgeted(r) /\ CheckpointCount(checkpoints[r][1].goal) <= budget[r]
    /\ checkpoints[r][Len(checkpoints[r])].verdict = "keep"

\* At closure the promoted entry must also name the goal of the run, if it has one.
CoherentAnyGoal(r) == Coherent(r)          \* mutation: the goal is not compared
CoherentForGoal(r) ==
    /\ Coherent(r)
    /\ charter[r].goal # NoGoal => checkpoints[r][Len(checkpoints[r])].goal = charter[r].goal

-----------------------------------------------------------------------------
(* The forced gates (the forced_... methods of heartgate.py).             *)

Measured(r, kind) == doc[r][kind] \in {"thin", "good"}

\* The run's own scope package; its location is bound to the run.
ForcedBrainstorm(r) == Measured(r, "package")

\* An envelope names the run's own scope module or, with "reuse", the parent's.
Source(r) == IF doc[r]["reuse"] # "absent" THEN charter[r].parent ELSE r

\* The module must be what the projection loads: registered, or inherited.
Registered(r) == IF Source(r) = r THEN registered[r] = "module" ELSE r \in inherited

ForcedCoverage(r) ==
    \/ doc[r]["envelope"] = "absent"
    \/ Measured(r, "envelope") /\ Measured(Source(r), "module") /\ Registered(r)

\* One record that meets the contract is enough, wherever it stands.
PlanValidated(r) == \E i \in DOMAIN validations[r] : validations[r][i] = "good"

\* The scope declares its writes, each within reach of a tool of execute or of
\* an authority to patch the framework itself.
ScopeArtifact(r) == Measured(r, "scope")

ForcedPlan(r) == ScopeArtifact(r) /\ PlanValidated(r)

\* The glob "<id>-checkpoint-*.yaml" matches on the name alone, so it takes the
\* checkpoint files of every namesake with the run's own.
Globbed(r) == {r} \cup Namesakes[r]

\* Any checkpoint file makes the run governed; without one the evidence gates
\* of execute and verify ask nothing.
Governed(r) == \E q \in Globbed(r), u \in Units : unit[q][u] # "none"

\* A "thin" PIV declares no work units.
PIVSatisfied(r) ==
    /\ Measured(r, "piv")
    /\ doc[r]["piv"] = "good" =>
          \A u \in Units : \E q \in Globbed(r) : unit[q][u] = "clean"

ForcedExecute(r) ==
    Governed(r) => IF GoalDriven(r) THEN Coherent(r) ELSE PIVSatisfied(r)

ForcedVerify(r) ==
    Governed(r) => IF GoalDriven(r) THEN CoherentForGoal(r)
                   ELSE Measured(r, "verification") /\ Measured(r, "readiness")

ForcedGate(r) ==
    CASE phase[r] = "brainstorm" -> ForcedBrainstorm(r)
      [] phase[r] = "propose"    -> ForcedCoverage(r)
      [] phase[r] = "plan"       -> ForcedPlan(r)
      [] phase[r] = "execute"    -> ForcedExecute(r)
      [] phase[r] = "verify"     -> ForcedVerify(r)
      [] OTHER                   -> TRUE

-----------------------------------------------------------------------------
(* The full gate, what an agent learns from uacp_heartgate_check.  The     *)
(* transition artifact itself is well-formed, with owned warnings only.    *)

\* validators/ppv.py: a pass record for the phase and fewer than two failures.
PPV(r) == attempts[r].passed /\ attempts[r].failed < 2

\* validators/phase_exit.py, the globs; the ledger record of the crossing in
\* is there (RunState!GateBeforeEdge).
ExitDocument(r) ==
    CASE phase[r] = "brainstorm" -> \E q \in Runs : doc[q]["package"] # "absent"
      [] phase[r] = "triage"     -> doc[r]["triage"] # "absent"
      [] phase[r] = "propose"    -> budget[r] > 0 \/ \E k \in {"triage", "envelope"} :
                                                        doc[r][k] # "absent"
      [] phase[r] = "plan"       -> \E k \in {"selection", "scope", "piv"} : doc[r][k] # "absent"
      [] phase[r] = "execute"    -> Governed(r) \/ doc[r]["bundle"] # "absent"
      [] phase[r] = "verify"     -> \E k \in {"verification", "readiness"} : doc[r][k] # "absent"
      [] OTHER                   -> TRUE

\* triage_track: without the triage document the run counts as standard.
TriageTrack(r) == IF doc[r]["triage"] = "absent" THEN "standard" ELSE charter[r].decided

\* A goal-driven manifest needs TRIAGE's decision for it, and a budget.
BudgetGate(r) == GoalDriven(r) => TriageTrack(r) = "goal-driven" /\ Budgeted(r)

PackageGate(r) ==
    doc[r]["envelope"] = "good" /\ Measured(Source(r), "module") /\ Registered(r)

SelectionGate(r) == doc[r]["selection"] = "good"

EvidenceGate(r) ==
    IF GoalDriven(r) THEN Coherent(r)
    ELSE doc[r]["piv"] = "good" /\ Governed(r) /\ doc[r]["bundle"] = "good"

ReadinessIgnored(r) ==                     \* mutation: the readiness need not be ready
    IF GoalDriven(r) THEN CoherentForGoal(r) ELSE doc[r]["verification"] = "good"
ResolveGate(r) ==
    IF GoalDriven(r) THEN CoherentForGoal(r)
    ELSE doc[r]["verification"] = "good" /\ doc[r]["readiness"] = "good"

\* manifest/validators.py: the sections of the intent document; the facts and
\* assumptions of every cluster that was verified; the lessons.
IntentDocument(r) == doc[r]["intent"] = "good"
Dispositions(r)   == doc[r]["dispositions"] = "good"
Lessons(r)        == doc[r]["lessons"] = "good"

FullGate(r) ==
    /\ ExitDocument(r) /\ PPV(r)
    /\ CASE phase[r] = "triage"  -> IntentDocument(r)
         [] phase[r] = "propose" -> PackageGate(r) /\ BudgetGate(r)
         [] phase[r] = "plan"    -> SelectionGate(r) /\ ScopeArtifact(r) /\ PlanValidated(r)
         [] phase[r] = "execute" -> EvidenceGate(r)
         [] phase[r] = "verify"  -> ResolveGate(r) /\ Dispositions(r) /\ Lessons(r)
         [] OTHER                -> TRUE

-----------------------------------------------------------------------------
Active(r) == phase[r] \in LifecyclePhases \cap charter[r].worked /\ r \notin aborted

\* handle_init.  A run that inherits copies the parent's references of that
\* moment; what the parent itself inherited is not handed on.
Inherit(r) ==
    inherited' = IF charter[r].parent # r /\ registered[charter[r].parent] = "module"
                 THEN inherited \cup {r} ELSE inherited

InitRun(r) ==
    /\ phase[r] = "none"
    /\ charter[r].parent # r => phase[charter[r].parent] # "none"
    /\ \E ph \in charter[r].start : phase' = [phase EXCEPT ![r] = ph]
    /\ Inherit(r)
    /\ UNCHANGED <<charter, aborted, registered, files, ledgers, judged, promoted>>

\* An agent writes, or writes again, a document that a gate will still read:
\* one for the exit of its phase, or the module that another run may reuse.
\* (The gate a judged run has passed is behind it.)
KindsOf(r) ==
    IF r \in judged THEN {} ELSE
    CASE phase[r] = "brainstorm" -> {"package"}
      [] phase[r] = "triage"     -> {"triage", "intent"}
      [] phase[r] = "propose"    -> {"envelope", "reuse"}
      [] phase[r] = "plan"       -> {"selection", "scope"}
      [] phase[r] = "execute"    -> {"piv", "bundle"}
      [] phase[r] = "verify"     -> {"verification", "readiness", "dispositions", "lessons"}

WriteDocument(r) ==
    /\ Active(r)
    /\ \E k \in KindsOf(r) \cup {"module"} : \E v \in Drafts[r][k] :
        doc' = [doc EXCEPT ![r][k] = v]
    /\ UNCHANGED <<charter, phase, aborted, registered, inherited, unit, budget, evidence,
                   ledgers, judged, promoted>>

\* What a goal-driven run's unit says is never read, only that there is one.
WriteUnit(r) ==
    /\ Active(r) /\ phase[r] \in {"execute", "verify"}
    /\ IF GoalDriven(r) THEN unit' = [unit EXCEPT ![r] = [u \in Units |-> "block"]]
       ELSE \E u \in Units, v \in {"block", "clean"} : unit' = [unit EXCEPT ![r][u] = v]
    /\ UNCHANGED <<charter, phase, aborted, registered, inherited, doc, budget, evidence,
                   ledgers, judged, promoted>>

\* handle_register_artifact: one path per artifact type, the latest stands.
RegisterModule(r) ==
    /\ Active(r) /\ r \notin judged /\ phase[r] = "propose" /\ Drafts[r]["module"] # {}
    /\ \E x \in {"module", "other"} : registered' = [registered EXCEPT ![r] = x]
    /\ UNCHANGED <<charter, phase, aborted, inherited, files, ledgers, judged, promoted>>

\* uacp_gate_ledger_append takes the run lock, which a judged run holds.
RecordValidation(r) ==
    /\ Active(r) /\ r \notin judged /\ phase[r] = "plan"
    /\ Len(validations[r]) < IF r \in Audited THEN 2 ELSE 1
    /\ \E v \in {"good"} \cup (IF r \in Audited THEN {"bad"} ELSE {}) :
        validations' = [validations EXCEPT ![r] = Append(@, v)]
    /\ UNCHANGED <<charter, phase, aborted, registered, inherited, files, attempts,
                   checkpoints, judged, promoted>>

RecordAttempt(r) ==
    /\ Active(r) /\ r \notin judged /\ r \in Audited
    /\ \/ attempts' = [attempts EXCEPT ![r].passed = TRUE]
       \/ attempts[r].failed < 2 /\ attempts' = [attempts EXCEPT ![r].failed = @ + 1]
    /\ UNCHANGED <<charter, phase, aborted, registered, inherited, files, validations,
                   checkpoints, judged, promoted>>

RecordCheckpoint(r) ==
    /\ Active(r) /\ r \notin judged /\ GoalDriven(r) /\ phase[r] \in {"execute", "verify"}
    /\ Cardinality(UNION {{q} \X DOMAIN checkpoints[q] : q \in Runs}) < MaxRecords
    /\ \E e \in CheckpointRecord \cup {NoRecord} :
        checkpoints' = [checkpoints EXCEPT ![r] = Append(@, e)]
    /\ UNCHANGED <<charter, phase, aborted, registered, inherited, files, validations,
                   attempts, judged, promoted>>

\* The budget file may be written again at any time.
WriteBudget(r) ==
    /\ Active(r) /\ GoalDriven(r)
    /\ \E n \in 0 .. MaxBudget : budget' = [budget EXCEPT ![r] = n]
    /\ UNCHANGED <<charter, phase, aborted, registered, inherited, doc, unit, evidence,
                   ledgers, judged, promoted>>

WriteEvidence(r) ==
    /\ Active(r) /\ GoalDriven(r)
    /\ evidence' = TRUE
    /\ UNCHANGED <<charter, phase, aborted, registered, inherited, doc, unit, budget,
                   ledgers, judged, promoted>>

\* handle_transition up to the gate's verdict, then the save, under one lock.
Judge(r) ==
    /\ Active(r) /\ r \notin judged /\ ForcedGate(r)
    /\ judged' = judged \cup {r}
    /\ promoted' = IF phase[r] = "execute" /\ GoalDriven(r) /\ Governed(r)
                   THEN promoted \cup {r} ELSE promoted
    /\ UNCHANGED <<charter, phase, aborted, registered, inherited, files, ledgers>>

Targets(r) == ValidTransitions[phase[r]]

Save(r) ==
    /\ r \in judged
    /\ \E to \in Targets(r) : phase' = [phase EXCEPT ![r] = to]
    /\ judged' = judged \ {r}
    /\ attempts' = [attempts EXCEPT ![r] = [passed |-> FALSE, failed |-> 0]]
    /\ UNCHANGED <<charter, aborted, registered, inherited, files, validations, checkpoints,
                   promoted>>

\* An aborted run takes no step; what its records still count for is a matter
\* of the goal, so only goal-driven runs are looked at.
Abort(r) ==
    /\ Active(r) /\ r \notin judged /\ GoalDriven(r)
    /\ aborted' = aborted \cup {r}
    /\ UNCHANGED <<charter, phase, registered, inherited, files, ledgers, judged, promoted>>

Step(r) ==
    \/ InitRun(r) \/ WriteDocument(r) \/ WriteUnit(r) \/ RegisterModule(r)
    \/ RecordValidation(r) \/ RecordAttempt(r) \/ RecordCheckpoint(r) \/ WriteBudget(r) \/ WriteEvidence(r)
    \/ Judge(r) \/ Save(r) \/ Abort(r)

Next == \E r \in Runs : Step(r)

Spec == Init /\ [][Next]_vars

-----------------------------------------------------------------------------
\* The convergence budget bounds a goal, not a run: of the runs of one goal
\* whose checkpoints name it, no more are promoted than the largest budget any
\* of them declared, however many are started, aborted or started again.
Promoted(g) ==
    {r \in promoted : charter[r].goal = g /\ checkpoints[r][1].goal = g}
PromotionsBounded == \A g \in Goals : Cardinality(Promoted(g)) <= MaxBudget

\* What was spent on a goal stays spent: no step lowers the count, an abort
\* of one of its runs included.
CountNeverResets == [][\A g \in Goals : CheckpointCount(g)' >= CheckpointCount(g)]_vars

\* A run cannot be closed on the result of another goal: a governed goal-driven
\* run enters resolved only with a keep of its own goal on record.
ResolvedOnOwnGoal ==
    [][\A r \in Runs :
        phase[r] = "verify" /\ phase'[r] = "resolved" /\ GoalDriven(r) /\ r \in promoted
            => \E i \in DOMAIN checkpoints[r] :
                  /\ checkpoints[r][i].verdict = "keep"
                  /\ charter[r].goal \in {NoGoal, checkpoints[r][i].goal}]_vars

\* Outside brainstorm and execute, an agent whose full check passed is not
\* stopped by the forced gate: the two agree on what they both measure.
AdviceIsSufficient ==
    \A r \in Runs :
        phase[r] \in {"propose", "plan", "verify"} /\ FullGate(r) => ForcedGate(r)

-----------------------------------------------------------------------------
\* What the evidence gate of execute is there for (heartgate.py:458): a standard
\* run whose plan names units has done each of them when the gate has passed.
\* The code does not keep it: the glob counts a namesake's units.  No run checks it.
UnitsAreItsOwn ==
    [][\A r \in judged' \ judged :
        phase[r] = "execute" /\ ~GoalDriven(r) /\ doc[r]["piv"] = "good"
            /\ (\E u \in Units : unit[r][u] # "none")
            => \A u \in Units : unit[r][u] = "clean"]_vars
=============================================================================
