----------------------------- MODULE GateLedger -----------------------------
(***************************************************************************)
(* The gate ledger of one run, state/gate-ledger/{run}.jsonl, record by    *)
(* record, as handle_transition and uacp_gate_ledger_append write it, next *)
(* to the history the manifest keeps.  The closure sweep compares the two: *)
(* a difference no later call can undo leaves the run unclosable, since    *)
(* the ledger is append-only.                                              *)
(***************************************************************************)
EXTENDS ClosureChecks

CONSTANTS
    Procs, NoProc,
    StartPhases,    \* the phases the run may have been created in
    HandCalls,      \* arguments of uacp_gate_ledger_append: [gate, named, result]
    Crashers,       \* processes that may be killed
    MaxLedger       \* bound on the ledger's length for records appended by hand

ASSUME GateLedgerAssumption ==
    /\ NoProc \notin Procs /\ Crashers \subseteq Procs
    /\ StartPhases \subseteq InitialPhases
    /\ MaxLedger \in Nat

VARIABLES
    ledger, history, phase,  \* the two files
    lock,                    \* the process that holds the run lock
    pc, job

vars == <<ledger, history, phase, lock, pc, job>>

NoEdge == <<"none", "none">>
NoCall == [gate |-> NoEdge, named |-> NoEdge, result |-> "pass"]
NoJob  == [call |-> NoCall, edge |-> NoEdge, todo |-> <<>>]

Gates == TransitionGates \cup {TriageComplete}

ASSUME HandCallsAssumption ==
    HandCalls \subseteq [gate: Gates, named: Gates, result: {"pass", "fail"}]

TypeOK ==
    /\ ledger \in Seq([gate: Gates, result: {"pass", "fail"}])
    /\ history \in Seq(Edges) /\ phase \in Phases
    /\ lock \in Procs \cup {NoProc}
    /\ pc \in [Procs -> {"idle", "append", "gate", "emit"}]
    /\ job \in [Procs -> [call: HandCalls \cup {NoCall},
                          edge: Edges \cup {NoEdge}, todo: Seq(Gates)]]

Init ==
    /\ ledger = <<>> /\ history = <<>> /\ phase \in StartPhases
    /\ lock = NoProc
    /\ pc = [p \in Procs |-> "idle"] /\ job = [p \in Procs |-> NoJob]

Goto(p, label) == pc' = [pc EXCEPT ![p] = label]
Return(p)      == Goto(p, "idle") /\ job' = [job EXCEPT ![p] = NoJob]

\* The gates with a passing record: the idempotency read of both handlers.
Passing == {ledger[i].gate : i \in {k \in DOMAIN ledger : ledger[k].result = "pass"}}

AppendRecord(gate, result) ==
    ledger' = Append(ledger, [gate |-> gate, result |-> result])

-----------------------------------------------------------------------------
IsCanonical(g) == g \in TransitionGates \/ g = TriageComplete

\* Under the lock a canonical passing record that is there already is not
\* appended again; the test reads the argument `gate', the record may name another.
NeverDeduplicated(c) == FALSE              \* mutation: records by hand always append
Deduplicated(c) == IsCanonical(c.gate) /\ c.result = "pass" /\ c.gate \in Passing

\* uacp_gate_ledger_append, up to its append.
AppendRead(p, c) ==
    /\ pc[p] = "idle" /\ lock = NoProc /\ Len(ledger) < MaxLedger
    /\ ~Deduplicated(c)
    /\ lock' = p
    /\ job' = [job EXCEPT ![p].call = c]
    /\ Goto(p, "append")
    /\ UNCHANGED <<ledger, history, phase>>

AppendWrite(p) ==
    /\ pc[p] = "append"
    /\ AppendRecord(job[p].call.named, job[p].call.result)
    /\ lock' = NoProc
    /\ Return(p)
    /\ UNCHANGED <<history, phase>>

-----------------------------------------------------------------------------
\* handle_transition: the edge's canonical gates the ledger lacks are
\* appended one by one, then the manifest is saved.
TransitionStart(p, e) ==
    /\ pc[p] = "idle" /\ lock = NoProc
    /\ e[1] = phase
    /\ lock' = p
    /\ job' = [job EXCEPT ![p].edge = e]
    /\ Goto(p, "gate")
    /\ UNCHANGED <<ledger, history, phase>>

\* The records to emit for e, given the gates that have a passing one.
MissingNothing(e, already) ==              \* mutation: a retry emits every record again
    IF e[1] = "triage" THEN <<e, TriageComplete>> ELSE <<e>>
Missing(e, already) ==
    LET edge == IF e \in already THEN <<>> ELSE <<e>>
    IN  IF e[1] = "triage" /\ TriageComplete \notin already
        THEN Append(edge, TriageComplete) ELSE edge

GateBlocks(p) ==
    /\ pc[p] = "gate"
    /\ lock' = NoProc
    /\ Return(p)
    /\ UNCHANGED <<ledger, history, phase>>

GatePasses(p) ==
    /\ pc[p] = "gate"
    /\ job' = [job EXCEPT ![p].todo = Missing(job[p].edge, Passing)]
    /\ Goto(p, "emit")
    /\ UNCHANGED <<ledger, history, phase, lock>>

Emit(p) ==
    /\ pc[p] = "emit" /\ job[p].todo # <<>>
    /\ AppendRecord(Head(job[p].todo), "pass")
    /\ job' = [job EXCEPT ![p].todo = Tail(@)]
    /\ UNCHANGED <<history, phase, lock, pc>>

CrossUnrecorded(e) == phase' = e[2] /\ UNCHANGED history   \* mutation: no history entry
Cross(e) == phase' = e[2] /\ history' = Append(history, e)

TransitionSave(p) ==
    /\ pc[p] = "emit" /\ job[p].todo = <<>>
    /\ Cross(job[p].edge)
    /\ lock' = NoProc
    /\ Return(p)
    /\ UNCHANGED ledger

Crash(p) ==
    /\ p \in Crashers /\ pc[p] # "idle"
    /\ lock' = IF lock = p THEN NoProc ELSE lock
    /\ Return(p)
    /\ UNCHANGED <<ledger, history, phase>>

Step(p) == \/ AppendWrite(p)
           \/ GateBlocks(p) \/ GatePasses(p) \/ Emit(p) \/ TransitionSave(p)

Next == \E p \in Procs :
    \/ Step(p) \/ Crash(p)
    \/ \E c \in HandCalls : AppendRead(p, c)
    \/ \E e \in Edges : TransitionStart(p, e)

Spec == Init /\ [][Next]_vars

-----------------------------------------------------------------------------
\* However transitions, hand-written records and crashes interleave, each
\* canonical gate gets at most one passing record.
OnePassPerGate ==
    \A g \in Gates :
        Cardinality({i \in At(ledger, g) : ledger[i].result = "pass"}) <= 1

\* Of the gates nobody records by hand, the ledger runs ahead of the history
\* by the edge being crossed at most, also when a process died between the two.
LedgerLeadsByOneEdge ==
    LET ahead == {e \in TransitionGates : At(ledger, e) # {}} \
                 {history[i] : i \in DOMAIN history}
    IN  \A e \in ahead \ {c.named : c \in HandCalls} : e[1] = phase

\* What only an agent can have left on the ledger of a finished run: a check
\* that failed, or an edge that does not lie on the way this run took.
OnTheWay(e) == e \in Edges /\ (e[1] = "brainstorm" => history[1][1] = "brainstorm")
LeftByHand ==
    {i \in DOMAIN ledger : /\ ledger[i].gate \in TransitionGates
                           /\ ledger[i].result = "fail" \/ ~OnTheWay(ledger[i].gate)}

\* The closure sweep accepts the ledger and the history of a run that was driven
\* to resolved exactly if nothing of the kind was left by hand: no interleaving,
\* crash or retry on the way leaves a difference behind, nor hides one.
\* (C3 refuses every history that starts in brainstorm.)
ResolvedIsCoherent ==
    phase = "resolved" =>
        /\ C2LedgerMatchesHistory(history, ledger) /\ NoDuplicateGate(ledger)
               <=> LeftByHand = {}
        /\ history[1][1] = "triage" => C3PhasePath(history)
=============================================================================
