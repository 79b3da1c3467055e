-------------------------- MODULE PhaseGatesProofs --------------------------
(***************************************************************************)
(* The convergence budget of a goal bounds its promotions, what was spent  *)
(* stays spent, a goal-driven run is resolved on a keep of its own goal,   *)
(* and an advised run is not stopped by the forced gate: for any runs,     *)
(* goals, units, drafts and bounds.  The invariant says what a promoted    *)
(* run has left behind, and what a run that was judged keeps until the     *)
(* manifest is saved.                                                      *)
(***************************************************************************)
EXTENDS PhaseGates, FiniteSetTheorems, TLAPS

\* Both tracks' gates read the records and the files as they were written.
Kept(r) == \E i \in DOMAIN checkpoints[r] :
    /\ checkpoints[r][i].verdict = "keep"
    /\ charter[r].goal \in {NoGoal, checkpoints[r][i].goal}

JudgedInv ==
    \A r \in judged :
        /\ phase[r] \in LifecyclePhases
        /\ phase[r] = "verify" /\ GoalDriven(r) /\ r \in promoted => Kept(r)

PromotedInv ==
    \A r \in promoted : GoalDriven(r) /\ Governed(r)
                            /\ checkpoints[r] # <<>> /\ phase[r] # "none"

\* A crossing leads to a phase of the lifecycle.
LEMMA TargetsArePhases ==
    ASSUME NEW r \in Runs, phase[r] \in LifecyclePhases
    PROVE  Targets(r) \subseteq Phases
<1>1. LifecycleGraph[phase[r]] \subseteq Phases \cup {"resolve", TerminalSink}
  BY DEF LifecycleGraph, LifecyclePhases, Phases, TerminalSink
<1>2. Targets(r) = {CanonicalTarget(to) : to \in LifecycleGraph[phase[r]] \ {TerminalSink}}
  BY DEF Targets, ValidTransitions
<1>3. \A to \in Phases \cup {"resolve"} : CanonicalTarget(to) \in Phases
  BY DEF CanonicalTarget, Phases
<1> QED BY <1>1, <1>2, <1>3

LEMMA TypeInit == Init => TypeOK /\ JudgedInv /\ PromotedInv
<1> SUFFICES ASSUME Init PROVE TypeOK /\ JudgedInv /\ PromotedInv
  OBVIOUS
<1>1. charter \in [Runs -> Charter]
  BY PhaseGatesAssumption DEF Init
<1>2. <<>> \in Seq({"good", "bad"}) /\ <<>> \in Seq(CheckpointRecord \cup {NoRecord})
  OBVIOUS
<1>3. 0 \in 0 .. MaxBudget
  BY PhaseGatesAssumption
<1>4. doc \in [Runs -> [DocumentKinds -> Versions]]
  BY DEF Init, Versions
<1>5. validations \in [Runs -> Seq({"good", "bad"})]
      /\ checkpoints \in [Runs -> Seq(CheckpointRecord \cup {NoRecord})]
  BY <1>2 DEF Init
<1>6. attempts \in [Runs -> [passed: BOOLEAN, failed: 0 .. 2]]
      /\ unit \in [Runs -> [Units -> {"none", "block", "clean"}]]
  BY DEF Init
<1> QED BY <1>1, <1>3, <1>4, <1>5, <1>6 DEF Init, TypeOK, JudgedInv, PromotedInv

LEMMA TypeStep ==
    ASSUME TypeOK, JudgedInv, [Next]_vars
    PROVE  TypeOK'
<1> USE DEF TypeOK, files, ledgers
<1>1. ASSUME NEW r \in Runs, InitRun(r) PROVE TypeOK'
  <2>1. charter[r].start \subseteq Phases
    BY DEF Charter, InitialPhases, Phases, LifecyclePhases
  <2> QED BY <1>1, <2>1 DEF InitRun, Inherit
<1>2. ASSUME NEW r \in Runs, WriteDocument(r) PROVE TypeOK'
  <2>1. phase[r] \in LifecyclePhases
    BY <1>2 DEF WriteDocument, Active
  <2>2. PICK k \in KindsOf(r) \cup {"module"} :
            \E v \in Drafts[r][k] : doc' = [doc EXCEPT ![r][k] = v]
    BY <1>2 DEF WriteDocument
  <2>6. PICK v \in Drafts[r][k] : doc' = [doc EXCEPT ![r][k] = v]
    BY <2>2
  <2>3. phase[r] # "resolve"
    BY DEF Phases
  <2>4. k \in DocumentKinds
    <3>1. phase[r] \in {"brainstorm", "triage", "propose", "plan", "execute", "verify"}
      BY <2>1, <2>3 DEF LifecyclePhases
    <3>2. KindsOf(r) \subseteq DocumentKinds
      <4>1. CASE r \in judged
        BY <4>1 DEF KindsOf
      <4>2. CASE r \notin judged
        BY <3>1, <4>2 DEF KindsOf, DocumentKinds
      <4> QED BY <4>1, <4>2
    <3> QED BY <2>2, <3>2 DEF DocumentKinds
  <2>5. v \in Versions
    <3>1. Drafts[r] \in [DocumentKinds -> SUBSET (Versions \ {"absent"})]
      BY PhaseGatesAssumption
    <3>2. Drafts[r][k] \subseteq Versions
      BY <2>4, <3>1
    <3> QED BY <2>6, <3>2
  <2>7. [doc[r] EXCEPT ![k] = v] \in [DocumentKinds -> Versions]
    BY <2>4, <2>5
  <2>8. doc' \in [Runs -> [DocumentKinds -> Versions]]
    <3>1. doc[r] \in [DocumentKinds -> Versions]
      OBVIOUS
    <3>2. doc' = [doc EXCEPT ![r] = [doc[r] EXCEPT ![k] = v]]
      BY <2>6
    <3> QED BY <2>7, <3>1, <3>2
  <2> QED BY <1>2, <2>8 DEF WriteDocument
<1>3. ASSUME NEW r \in Runs, WriteUnit(r) PROVE TypeOK'
  <2> DEFINE Values == {"none", "block", "clean"}
  <2>1. CASE unit' = [unit EXCEPT ![r] = [u \in Units |-> "block"]]
    BY <1>3, <2>1 DEF WriteUnit
  <2>2. ASSUME NEW u \in Units, NEW v \in {"block", "clean"},
               unit' = [unit EXCEPT ![r][u] = v]
        PROVE  TypeOK'
    <3>1. [unit[r] EXCEPT ![u] = v] \in [Units -> Values]
      OBVIOUS
    <3>2. unit' \in [Runs -> [Units -> Values]]
      BY <2>2, <3>1
    <3> QED BY <1>3, <3>2 DEF WriteUnit
  <2> QED BY <1>3, <2>1, <2>2 DEF WriteUnit
<1>4. ASSUME NEW r \in Runs, RegisterModule(r) PROVE TypeOK'
  BY <1>4 DEF RegisterModule
<1>5. ASSUME NEW r \in Runs, RecordValidation(r) PROVE TypeOK'
  <2>1. PICK v \in {"good", "bad"} : validations' = [validations EXCEPT ![r] = Append(validations[r], v)]
    BY <1>5 DEF RecordValidation
  <2>2. Append(validations[r], v) \in Seq({"good", "bad"})
    OBVIOUS
  <2> QED BY <1>5, <2>1, <2>2 DEF RecordValidation
<1>6. ASSUME NEW r \in Runs, RecordAttempt(r) PROVE TypeOK'
  <2>1. attempts[r] \in [passed: BOOLEAN, failed: 0 .. 2]
    OBVIOUS
  <2>2. attempts'[r] \in [passed: BOOLEAN, failed: 0 .. 2]
    <3>1. CASE attempts' = [attempts EXCEPT ![r].passed = TRUE]
      BY <2>1, <3>1
    <3>2. CASE attempts[r].failed < 2
               /\ attempts' = [attempts EXCEPT ![r].failed = attempts[r].failed + 1]
      <4>1. attempts[r].failed + 1 \in 0 .. 2
        BY <2>1, <3>2
      <4> QED BY <2>1, <3>2, <4>1
    <3> QED BY <1>6, <3>1, <3>2 DEF RecordAttempt
  <2>3. \E x : attempts' = [attempts EXCEPT ![r] = x]
    BY <1>6 DEF RecordAttempt
  <2>4. attempts' \in [Runs -> [passed: BOOLEAN, failed: 0 .. 2]]
    BY <2>2, <2>3
  <2> QED BY <1>6, <2>4 DEF RecordAttempt
<1>7. ASSUME NEW r \in Runs, RecordCheckpoint(r) PROVE TypeOK'
  <2>1. PICK e \in CheckpointRecord \cup {NoRecord} :
            checkpoints' = [checkpoints EXCEPT ![r] = Append(checkpoints[r], e)]
    BY <1>7 DEF RecordCheckpoint
  <2>2. Append(checkpoints[r], e) \in Seq(CheckpointRecord \cup {NoRecord})
    OBVIOUS
  <2> QED BY <1>7, <2>1, <2>2 DEF RecordCheckpoint
<1>8. ASSUME NEW r \in Runs, WriteBudget(r) PROVE TypeOK'
  <2>1. budget' \in [Runs -> 0 .. MaxBudget]
    BY <1>8 DEF WriteBudget
  <2>2. evidence' = evidence
    BY <1>8 DEF WriteBudget
  <2> QED BY <1>8, <2>1, <2>2 DEF WriteBudget
<1>12. ASSUME NEW r \in Runs, WriteEvidence(r) PROVE TypeOK'
  <2>1. evidence' \in BOOLEAN
    BY <1>12 DEF WriteEvidence
  <2>2. UNCHANGED <<charter, phase, aborted, registered, inherited, doc, unit, budget,
                    validations, attempts, checkpoints, judged, promoted>>
    BY <1>12 DEF WriteEvidence
  <2> QED BY <2>1, <2>2
<1>9. ASSUME NEW r \in Runs, Judge(r) \/ Abort(r) PROVE TypeOK'
  BY <1>9 DEF Judge, Abort
<1>10. ASSUME NEW r \in Runs, Save(r) PROVE TypeOK'
  <2>1. phase[r] \in LifecyclePhases
    BY <1>10 DEF Save, JudgedInv
  <2>3. Targets(r) \subseteq Phases
    BY <2>1, TargetsArePhases
  <2>4. phase' \in [Runs -> Phases \cup {"none"}]
    BY <1>10, <2>3 DEF Save
  <2>5. attempts' \in [Runs -> [passed: BOOLEAN, failed: 0 .. 2]]
    BY <1>10 DEF Save
  <2> QED BY <1>10, <2>4, <2>5 DEF Save
<1>11. CASE UNCHANGED vars
  BY <1>11 DEF vars
<1> QED BY <1>1, <1>2, <1>3, <1>4, <1>5, <1>6, <1>7, <1>8, <1>9, <1>10, <1>11, <1>12 DEF Next, Step

-----------------------------------------------------------------------------
\* What no step takes back: charters, records and the files that govern a run.
Grows ==
    /\ charter' = charter /\ promoted \subseteq promoted'
    /\ \A r \in Runs :
        /\ phase[r] # "none" => phase'[r] # "none"
        /\ Governed(r) => Governed(r)'
        /\ DOMAIN checkpoints[r] \subseteq DOMAIN checkpoints'[r]
        /\ \A i \in DOMAIN checkpoints[r] : checkpoints'[r][i] = checkpoints[r][i]

LEMMA StepGrows ==
    ASSUME TypeOK, JudgedInv, [Next]_vars
    PROVE  Grows
<1> USE DEF Grows, files, ledgers
<1>1. CASE UNCHANGED <<charter, phase, promoted, unit, checkpoints>>
  BY <1>1 DEF Governed
<1>2. ASSUME NEW r \in Runs, InitRun(r) PROVE Grows
  BY <1>2 DEF InitRun, Governed, Charter, InitialPhases, TypeOK
<1>3. ASSUME NEW r \in Runs, WriteUnit(r) PROVE Grows
  <2>1. ASSUME NEW q \in Runs, NEW u \in Units, unit[q][u] # "none"
        PROVE  unit'[q][u] # "none"
    <3>1. unit \in [Runs -> [Units -> {"none", "block", "clean"}]]
      BY DEF TypeOK
    <3>2. CASE unit' = [unit EXCEPT ![r] = [w \in Units |-> "block"]]
      BY <2>1, <3>1, <3>2
    <3>3. ASSUME NEW w \in Units, NEW v \in {"block", "clean"},
                 unit' = [unit EXCEPT ![r][w] = v]
          PROVE  unit'[q][u] # "none"
      BY <2>1, <3>1, <3>3
    <3> QED BY <1>3, <3>2, <3>3 DEF WriteUnit
  <2>2. UNCHANGED <<charter, phase, promoted, checkpoints>>
    BY <1>3 DEF WriteUnit
  <2>3. \A q \in Runs : Globbed(q) \subseteq Runs
    BY PhaseGatesAssumption DEF Globbed
  <2>4. \A q \in Runs : Governed(q) => Governed(q)'
    BY <2>1, <2>3 DEF Governed, Globbed
  <2> QED BY <2>2, <2>4
<1>4. ASSUME NEW r \in Runs, RecordCheckpoint(r) PROVE Grows
  <2>1. PICK e \in CheckpointRecord \cup {NoRecord} :
            checkpoints' = [checkpoints EXCEPT ![r] = Append(checkpoints[r], e)]
    BY <1>4 DEF RecordCheckpoint
  <2>2. \A q \in Runs : checkpoints[q] \in Seq(CheckpointRecord \cup {NoRecord})
    BY DEF TypeOK
  <2>3. \A q \in Runs : q # r => checkpoints'[q] = checkpoints[q]
    BY <2>1 DEF TypeOK
  <2>4. checkpoints'[r] = Append(checkpoints[r], e)
    BY <2>1 DEF TypeOK
  <2>5. /\ DOMAIN checkpoints[r] \subseteq DOMAIN checkpoints'[r]
        /\ \A i \in DOMAIN checkpoints[r] : checkpoints'[r][i] = checkpoints[r][i]
    BY <2>2, <2>4
  <2>6. UNCHANGED <<charter, phase, promoted, unit>>
    BY <1>4 DEF RecordCheckpoint
  <2> QED BY <2>3, <2>5, <2>6 DEF Governed
<1>5. ASSUME NEW r \in Runs, Judge(r) PROVE Grows
  BY <1>5 DEF Judge, Governed
<1>6. ASSUME NEW r \in Runs, Save(r) PROVE Grows
  <2>1. phase[r] \in LifecyclePhases
    BY <1>6 DEF Save, JudgedInv
  <2>2. "none" \notin Targets(r)
    BY <2>1, TargetsArePhases DEF Phases, LifecyclePhases
  <2>3. PICK to \in Targets(r) : phase' = [phase EXCEPT ![r] = to]
    BY <1>6 DEF Save
  <2>4. \A q \in Runs : phase[q] # "none" => phase'[q] # "none"
    BY <2>2, <2>3 DEF TypeOK
  <2>5. UNCHANGED <<charter, promoted, unit, checkpoints>>
    BY <1>6 DEF Save
  <2> QED BY <2>4, <2>5 DEF Governed
<1>7. ASSUME NEW r \in Runs, WriteDocument(r) \/ RegisterModule(r) \/ RecordValidation(r)
                \/ RecordAttempt(r) \/ WriteBudget(r) \/ WriteEvidence(r) \/ Abort(r)
      PROVE  Grows
  BY <1>1, <1>7 DEF WriteDocument, RegisterModule, RecordValidation, RecordAttempt, WriteBudget,
                    WriteEvidence, Abort
<1>8. CASE UNCHANGED vars
  BY <1>1, <1>8 DEF vars
<1> QED BY <1>2, <1>3, <1>4, <1>5, <1>6, <1>7, <1>8 DEF Next, Step

\* A checkpoint manifest that is coherent for the goal holds a keep of it.
LEMMA CoherentKeeps ==
    ASSUME TypeOK, NEW r \in Runs, CoherentForGoal(r)
    PROVE  Kept(r)
<1> DEFINE n == Len(checkpoints[r])
           last == checkpoints[r][n]
<1>1. checkpoints[r] \in Seq(CheckpointRecord \cup {NoRecord}) /\ checkpoints[r] # <<>>
  BY DEF TypeOK, CoherentForGoal, Coherent
<1>2. n \in DOMAIN checkpoints[r] /\ last \in CheckpointRecord \cup {NoRecord}
  BY <1>1
<1>3. last.verdict = "keep" /\ charter[r].goal \in {NoGoal, last.goal}
  BY DEF CoherentForGoal, Coherent
<1> QED BY <1>2, <1>3 DEF Kept

LEMMA JudgedStep ==
    ASSUME TypeOK, JudgedInv, PromotedInv, [Next]_vars
    PROVE  (JudgedInv /\ PromotedInv)'
<1>1. Grows
  BY StepGrows
<1>2. \A r \in Runs : Kept(r) => Kept(r)'
  BY <1>1 DEF Grows, Kept
<1>3. \A r \in Runs : GoalDriven(r)' = GoalDriven(r)
  BY <1>1 DEF Grows, GoalDriven
<1>4. \A r \in promoted : GoalDriven(r)' /\ Governed(r)'
                            /\ checkpoints'[r] # <<>> /\ phase'[r] # "none"
  <2> TAKE r \in promoted
  <2>1. r \in Runs /\ checkpoints[r] \in Seq(CheckpointRecord \cup {NoRecord})
    BY DEF TypeOK
  <2>2. GoalDriven(r) /\ Governed(r) /\ checkpoints[r] # <<>> /\ phase[r] # "none"
    BY DEF PromotedInv
  <2>3. 1 \in DOMAIN checkpoints[r]
    BY <2>1, <2>2
  <2>4. 1 \in DOMAIN checkpoints'[r]
    BY <1>1, <2>1, <2>3 DEF Grows
  <2>5. checkpoints'[r] # <<>>
    BY <2>4
  <2> QED BY <1>1, <1>3, <2>1, <2>2, <2>5 DEF Grows
<1>5. CASE promoted' = promoted
           /\ (\A r \in judged' : r \in judged /\ phase'[r] = phase[r])
  BY <1>2, <1>3, <1>4, <1>5 DEF JudgedInv, PromotedInv, TypeOK
<1>6. ASSUME NEW r \in Runs, Judge(r) PROVE (JudgedInv /\ PromotedInv)'
  <2>1. phase' = phase /\ judged' = judged \cup {r} /\ phase[r] \in LifecyclePhases
    BY <1>6 DEF Judge, Active
  <2>2. ForcedGate(r) /\ UNCHANGED <<unit, checkpoints>>
    BY <1>6 DEF Judge, files, ledgers
  <2>3. phase[r] = "verify" /\ GoalDriven(r) /\ r \in promoted => Kept(r)
    <3> SUFFICES ASSUME phase[r] = "verify", GoalDriven(r), r \in promoted PROVE Kept(r)
      OBVIOUS
    <3>1. ForcedVerify(r)
      BY <2>2 DEF ForcedGate
    <3>2. CoherentForGoal(r)
      BY <3>1 DEF ForcedVerify, PromotedInv
    <3> QED BY <3>2, CoherentKeeps
  <2>4. r \in promoted' =>
            r \in promoted \/ (phase[r] = "execute" /\ GoalDriven(r) /\ Governed(r))
    BY <1>6 DEF Judge
  <2>5. promoted' \subseteq promoted \cup {r}
    BY <1>6 DEF Judge
  <2>6. JudgedInv'
    <3>1. ASSUME NEW q \in judged', phase'[q] = "verify", GoalDriven(q)', q \in promoted'
          PROVE  Kept(q)'
      <4>0. q \in Runs
        BY <2>1 DEF TypeOK
      <4>1. q \in promoted
        BY <2>1, <2>4, <2>5, <3>1
      <4>2. q \in judged => Kept(q)
        BY <1>3, <2>1, <3>1, <4>0, <4>1 DEF JudgedInv
      <4>3. q = r => Kept(q)
        BY <1>3, <2>1, <2>3, <3>1, <4>1
      <4> QED BY <1>2, <2>1, <4>0, <4>2, <4>3
    <3> QED BY <2>1, <3>1 DEF JudgedInv
  <2>7. phase[r] = "execute" /\ GoalDriven(r) /\ Governed(r) => checkpoints[r] # <<>>
    BY <2>2 DEF ForcedGate, ForcedExecute, Coherent
  <2>8. r \in promoted' => GoalDriven(r)' /\ Governed(r)'
                                /\ checkpoints'[r] # <<>> /\ phase'[r] # "none"
    <3>1. CASE r \in promoted
      BY <1>4, <3>1
    <3>2. CASE phase[r] = "execute" /\ GoalDriven(r) /\ Governed(r)
      BY <1>3, <2>1, <2>2, <2>7, <3>2 DEF Governed
    <3> QED BY <2>4, <3>1, <3>2
  <2> QED BY <1>4, <2>5, <2>6, <2>8 DEF PromotedInv
<1>7. ASSUME NEW r \in Runs, Save(r) PROVE (JudgedInv /\ PromotedInv)'
  BY <1>5, <1>7 DEF Save, TypeOK
<1>8. ASSUME NEW r \in Runs, InitRun(r) PROVE (JudgedInv /\ PromotedInv)'
  <2>1. r \notin judged
    BY <1>8 DEF InitRun, JudgedInv, LifecyclePhases
  <2> QED BY <1>5, <1>8, <2>1 DEF InitRun, TypeOK
<1>9. ASSUME NEW r \in Runs, WriteDocument(r) \/ WriteUnit(r) \/ RegisterModule(r)
                \/ RecordValidation(r) \/ RecordAttempt(r) \/ RecordCheckpoint(r)
                \/ WriteBudget(r) \/ WriteEvidence(r) \/ Abort(r)
      PROVE  (JudgedInv /\ PromotedInv)'
  BY <1>5, <1>9 DEF WriteDocument, WriteUnit, RegisterModule, RecordValidation, RecordAttempt,
                    RecordCheckpoint, WriteBudget, WriteEvidence, Abort
<1>10. CASE UNCHANGED vars
  BY <1>5, <1>10 DEF vars
<1> QED BY <1>6, <1>7, <1>8, <1>9, <1>10 DEF Next, Step

GateInv == TypeOK /\ JudgedInv /\ PromotedInv

LEMMA GateStep == GateInv /\ [Next]_vars => GateInv'
BY TypeStep, JudgedStep DEF GateInv

\* A governed goal-driven run enters resolved on a keep of its own goal.
THEOREM ResolvedOnItsGoal == Spec => ResolvedOnOwnGoal
<1>1. ASSUME GateInv, [Next]_vars, NEW r \in Runs,
             phase[r] = "verify", phase'[r] = "resolved", GoalDriven(r), r \in promoted
      PROVE  Kept(r)
  <2>1. PICK q \in Runs : InitRun(q) \/ Save(q)
    BY <1>1 DEF Next, Step, WriteDocument, WriteUnit, RegisterModule, RecordValidation,
                RecordAttempt, RecordCheckpoint, WriteBudget, WriteEvidence, Judge, Abort, vars
  <2>2. q = r /\ Save(r)
    BY <1>1, <2>1 DEF InitRun, Save, GateInv, TypeOK
  <2> QED BY <1>1, <2>2 DEF Save, GateInv, JudgedInv
<1>2. GateInv /\ [Next]_vars =>
        [\A r \in Runs :
            phase[r] = "verify" /\ phase'[r] = "resolved" /\ GoalDriven(r) /\ r \in promoted
                => \E i \in DOMAIN checkpoints[r] :
                      /\ checkpoints[r][i].verdict = "keep"
                      /\ charter[r].goal \in {NoGoal, checkpoints[r][i].goal}]_vars
  BY <1>1 DEF Kept
<1>3. Init => GateInv
  BY TypeInit DEF GateInv
<1> QED BY <1>2, <1>3, GateStep, PTL DEF Spec, ResolvedOnOwnGoal

-----------------------------------------------------------------------------
\* What counts for a goal, one pair for each record.
Spending(g) == {q \in Runs : phase[q] # "none" /\ charter[q].goal = g}
Pairs(G, records) == UNION {{r} \X DOMAIN records[r] : r \in G}
Spent(g) == Pairs(Spending(g), checkpoints)

LEMMA PairsAreFinite ==
    ASSUME NEW G, G \subseteq Runs, NEW records,
           \A r \in Runs : records[r] \in Seq(CheckpointRecord \cup {NoRecord})
    PROVE  IsFiniteSet(Pairs(G, records))
<1> DEFINE parts == {{r} \X DOMAIN records[r] : r \in G}
           f == [r \in G |-> {r} \X DOMAIN records[r]]
<1>1. IsFiniteSet(G)
  BY PhaseGatesAssumption, FS_Subset
<1>2. f \in Surjection(G, parts)
  BY DEF Surjection
<1>3. IsFiniteSet(parts)
  BY <1>1, <1>2, FS_Surjection
<1>4. ASSUME NEW r \in Runs PROVE IsFiniteSet({r} \X DOMAIN records[r])
  <2>1. records[r] \in Seq(CheckpointRecord \cup {NoRecord})
    OBVIOUS
  <2>2. DOMAIN records[r] = 1 .. Len(records[r]) /\ Len(records[r]) \in Int
    BY <2>1
  <2>3. IsFiniteSet(DOMAIN records[r])
    BY <2>2, FS_Interval
  <2> QED BY <2>3, FS_Singleton, FS_Product
<1>5. \A T \in parts : IsFiniteSet(T)
  BY <1>4
<1> HIDE DEF parts
<1>6. IsFiniteSet(UNION parts)
  BY <1>3, <1>5, FS_UNION
<1> QED BY <1>6 DEF parts, Pairs

LEMMA SpentIsFinite ==
    ASSUME TypeOK, NEW g
    PROVE  IsFiniteSet(Spent(g)) /\ CheckpointCount(g) = Cardinality(Spent(g))
<1>1. Spending(g) \subseteq Runs
  BY DEF Spending
<1>2. \A r \in Runs : checkpoints[r] \in Seq(CheckpointRecord \cup {NoRecord})
  BY DEF TypeOK
<1>3. IsFiniteSet(Spent(g))
  BY <1>1, <1>2, PairsAreFinite DEF Spent
<1>4. CheckpointCount(g) = Cardinality(Spent(g))
  BY DEF CheckpointCount, Spent, Pairs, Spending
<1> QED BY <1>3, <1>4

\* What was spent on a goal stays spent, an abort of one of its runs included.
THEOREM SpentStaysSpent == Spec => CountNeverResets
<1>1. ASSUME GateInv, [Next]_vars, NEW g \in Goals
      PROVE  CheckpointCount(g)' >= CheckpointCount(g)
  <2>1. Grows /\ TypeOK'
    BY <1>1, StepGrows, TypeStep DEF GateInv
  <2>2. Spent(g) \subseteq Spent(g)'
    BY <2>1 DEF Spent, Pairs, Spending, Grows
  <2>3. IsFiniteSet(Spent(g)) /\ CheckpointCount(g) = Cardinality(Spent(g))
    BY <1>1, SpentIsFinite DEF GateInv
  <2>4. IsFiniteSet(Spent(g)') /\ CheckpointCount(g)' = Cardinality(Spent(g)')
    <3>1. Spending(g)' \subseteq Runs
      BY DEF Spending
    <3>2. \A r \in Runs : checkpoints'[r] \in Seq(CheckpointRecord \cup {NoRecord})
      BY <2>1 DEF TypeOK
    <3>3. IsFiniteSet(Spent(g)')
      BY <3>1, <3>2, PairsAreFinite DEF Spent
    <3>4. CheckpointCount(g)' = Cardinality(Spent(g)')
      BY DEF CheckpointCount, Spent, Pairs, Spending
    <3> QED BY <3>3, <3>4
  <2>5. Cardinality(Spent(g)) <= Cardinality(Spent(g)')
    BY <2>2, <2>4, FS_Subset
  <2>6. Cardinality(Spent(g)) \in Nat /\ Cardinality(Spent(g)') \in Nat
    BY <2>3, <2>4, FS_CardinalityType
  <2> QED BY <2>3, <2>4, <2>5, <2>6
<1>2. GateInv /\ [Next]_vars => [\A g \in Goals : CheckpointCount(g)' >= CheckpointCount(g)]_vars
  BY <1>1
<1>3. Init => GateInv
  BY TypeInit DEF GateInv
<1> QED BY <1>2, <1>3, GateStep, PTL DEF Spec, CountNeverResets

-----------------------------------------------------------------------------
\* Runs of a goal that each have a record are no more than its records.
LEMMA EachHasSpent ==
    ASSUME TypeOK, NEW g, NEW P, P \subseteq Spending(g),
           \A r \in P : checkpoints[r] # <<>>
    PROVE  IsFiniteSet(P) /\ Cardinality(P) <= CheckpointCount(g)
<1> DEFINE f == [r \in P |-> <<r, 1>>]
<1>1. ASSUME NEW r \in P PROVE <<r, 1>> \in Spent(g)
  <2>1. r \in Runs /\ checkpoints[r] \in Seq(CheckpointRecord \cup {NoRecord})
    BY DEF Spending, TypeOK
  <2>2. 1 \in DOMAIN checkpoints[r]
    BY <2>1
  <2> QED BY <2>2 DEF Spent, Pairs
<1>2. f \in Injection(P, Spent(g))
  BY <1>1 DEF Injection, IsInjective
<1> QED BY <1>2, SpentIsFinite, FS_Injection

\* However many runs are started, aborted or started again under a goal, no more
\* are promoted than the largest budget any of them may declare.
THEOREM BudgetBoundsTheGoal == Spec => []PromotionsBounded
<1>1. ASSUME GateInv, PromotionsBounded, [Next]_vars, NEW g \in Goals
      PROVE  Cardinality(Promoted(g)') <= MaxBudget
  <2>1. Grows /\ GateInv'
    BY <1>1, StepGrows, GateStep DEF GateInv
  <2>2. \A r \in promoted : r \in Runs /\ 1 \in DOMAIN checkpoints[r]
    <3> TAKE r \in promoted
    <3>1. r \in Runs /\ checkpoints[r] \in Seq(CheckpointRecord \cup {NoRecord})
      BY <1>1 DEF GateInv, TypeOK
    <3>2. checkpoints[r] # <<>>
      BY <1>1 DEF GateInv, PromotedInv
    <3> QED BY <3>1, <3>2
  <2>3. \A r \in promoted : charter'[r] = charter[r] /\ checkpoints'[r][1] = checkpoints[r][1]
    BY <2>1, <2>2 DEF Grows
  <2>4. CASE promoted' = promoted
    <3>1. Promoted(g)' = Promoted(g)
      BY <2>3, <2>4 DEF Promoted
    <3> QED BY <1>1, <3>1 DEF PromotionsBounded
  <2>5. ASSUME NEW r \in Runs, Judge(r), promoted' # promoted
        PROVE  Cardinality(Promoted(g)') <= MaxBudget
    <3>1. phase[r] = "execute" /\ GoalDriven(r) /\ Governed(r) /\ promoted' = promoted \cup {r}
      BY <2>5 DEF Judge
    <3>2. Coherent(r) /\ UNCHANGED <<charter, phase, checkpoints>>
      BY <2>5, <3>1 DEF Judge, ForcedGate, ForcedExecute, files, ledgers
    <3>3. CASE r \in Promoted(g)'
      <4>1. checkpoints[r][1].goal = g
        BY <3>2, <3>3 DEF Promoted
      <4>2. CheckpointCount(g) <= budget[r] /\ budget[r] \in 0 .. MaxBudget
        BY <1>1, <3>2, <4>1 DEF Coherent, GateInv, TypeOK
      <4>3. \A q \in Promoted(g)' : q \in Spending(g) /\ checkpoints[q] # <<>>
        BY <2>1, <3>2 DEF GateInv, PromotedInv, TypeOK, Promoted, Spending
      <4>4. IsFiniteSet(Promoted(g)') /\ Cardinality(Promoted(g)') <= CheckpointCount(g)
        BY <1>1, <4>3, EachHasSpent DEF GateInv
      <4>5. Cardinality(Promoted(g)') \in Nat
        BY <4>4, FS_CardinalityType
      <4>6. CheckpointCount(g) \in Nat
        BY <1>1, SpentIsFinite, FS_CardinalityType DEF GateInv
      <4>7. MaxBudget \in Nat
        BY PhaseGatesAssumption
      <4> QED BY <4>2, <4>4, <4>5, <4>6, <4>7
    <3>4. CASE r \notin Promoted(g)'
      <4>1. Promoted(g)' = Promoted(g)
        BY <3>1, <3>2, <3>4 DEF Promoted
      <4> QED BY <1>1, <4>1 DEF PromotionsBounded
    <3> QED BY <3>3, <3>4
  <2>6. promoted' = promoted \/ \E r \in Runs : Judge(r)
    BY <1>1 DEF Next, Step, InitRun, WriteDocument, WriteUnit, RegisterModule, RecordValidation,
                RecordAttempt, RecordCheckpoint, WriteBudget, WriteEvidence, Save, Abort, vars
  <2> QED BY <2>4, <2>5, <2>6
<1>2. GateInv /\ PromotionsBounded /\ [Next]_vars => (GateInv /\ PromotionsBounded)'
  BY <1>1, GateStep DEF PromotionsBounded
<1>3. Init => GateInv /\ PromotionsBounded
  <2>1. Init => \A g : Promoted(g) = {}
    BY DEF Init, Promoted
  <2>2. Cardinality({}) = 0 /\ MaxBudget \in Nat
    BY FS_EmptySet, PhaseGatesAssumption
  <2>3. Init => PromotionsBounded
    BY <2>1, <2>2 DEF PromotionsBounded
  <2> QED BY <2>3, TypeInit DEF GateInv
<1> QED BY <1>2, <1>3, PTL DEF Spec

-----------------------------------------------------------------------------
\* An agent whose full check passed is not stopped by the forced gate outside
\* brainstorm and execute.
THEOREM AdviceSuffices == Spec => []AdviceIsSufficient
<1>1. ASSUME NEW r \in Runs, FullGate(r), phase[r] \in {"propose", "plan", "verify"}
      PROVE  ForcedGate(r)
  <2>1. CASE phase[r] = "propose"
    <3>1. PackageGate(r)
      BY <1>1, <2>1 DEF FullGate
    <3> QED BY <2>1, <3>1 DEF PackageGate, Measured, ForcedCoverage, ForcedGate
  <2>2. CASE phase[r] = "plan"
    <3>1. ScopeArtifact(r) /\ PlanValidated(r)
      BY <1>1, <2>2 DEF FullGate
    <3> QED BY <2>2, <3>1 DEF ForcedPlan, ForcedGate
  <2>3. CASE phase[r] = "verify"
    <3>1. ResolveGate(r)
      BY <1>1, <2>3 DEF FullGate
    <3> QED BY <2>3, <3>1 DEF ResolveGate, ForcedVerify, Measured, ForcedGate
  <2> QED BY <1>1, <2>1, <2>2, <2>3
<1>2. AdviceIsSufficient
  BY <1>1 DEF AdviceIsSufficient
<1> QED BY <1>2, PTL
=============================================================================
