--------------------------- MODULE ClosureChecks ----------------------------
(***************************************************************************)
(* The checks of the closure sweep that read a run's gate ledger and its   *)
(* history: engines/coherence.py (C2, C3) and engines/ledger_integrity.py. *)
(* A ledger is a sequence of records [gate, result], a history the         *)
(* sequence of the edges <<from, to>> of its phase_transition entries.     *)
(***************************************************************************)
EXTENDS PhaseGraph, Naturals, Sequences, FiniteSets

\* Gates named FROM->TO; any other name is ignored by the checks below.
TransitionGates == Phases \X Phases

\* The positions of a ledger at which gate g is recorded, whatever its result.
At(ledger, g) == {i \in DOMAIN ledger : ledger[i].gate = g}

\* C2: the transition gates of the ledger and the edges of the history are
\* the same multiset.
C2LedgerMatchesHistory(history, ledger) ==
    \A e \in TransitionGates :
        Cardinality({i \in DOMAIN history : history[i] = e}) = Cardinality(At(ledger, e))

\* C3: the history is a contiguous legal walk from triage that visits no
\* phase twice.
C3PhasePath(history) ==
    /\ history # <<>> => history[1][1] = "triage"
    /\ \A i \in DOMAIN history :
        LET e == history[i] IN
        /\ e[1] \in LifecyclePhases /\ e[2] \in ValidTransitions[e[1]]
        /\ i > 1 => e[1] = history[i - 1][2]
        /\ e[2] # history[1][1] /\ \A k \in 1 .. i - 1 : e[2] # history[k][2]

\* LI_DUPLICATE_GATE: a transition gate is recorded at most once.
NoDuplicateGate(ledger) ==
    \A e \in TransitionGates : Cardinality(At(ledger, e)) <= 1
=============================================================================
