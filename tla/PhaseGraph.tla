----------------------------- MODULE PhaseGraph -----------------------------
(***************************************************************************)
(* The lifecycle graph of engines/domain/phase_graph.py, its projection on *)
(* the graph the run manifest moves along, and the names both share.       *)
(***************************************************************************)

\* The phases of the governance lifecycle and the sink of its early exits.
LifecyclePhases ==
    {"brainstorm", "triage", "propose", "plan", "execute", "verify", "resolve"}
TerminalSink == "terminal"

\* Each phase with its exits_to targets.
LifecycleGraph ==
    [ph \in LifecyclePhases |->
        CASE ph = "brainstorm" -> {"triage"}
          [] ph = "triage"     -> {"propose", "terminal"}
          [] ph = "propose"    -> {"plan"}
          [] ph = "plan"       -> {"execute"}
          [] ph = "execute"    -> {"verify"}
          [] ph = "verify"     -> {"resolve"}
          [] ph = "resolve"    -> {"terminal"}]

\* `resolve' is what documents and skills call the status `resolved'.
CanonicalTarget(to) == IF to = "resolve" THEN "resolved" ELSE to

\* Edges into the sink are dropped, the phase `resolve' becomes a status.
ValidTransitions ==
    [ph \in LifecyclePhases |->
        {CanonicalTarget(to) : to \in LifecycleGraph[ph] \ {TerminalSink}}]

TerminalPhases == {"resolved", "aborted"}

\* What a manifest's current_phase can be.
Phases == (LifecyclePhases \ {"resolve"}) \cup {"resolved"}

\* A run starts in one of these (handle_init's _VALID_INITIAL_PHASES).
InitialPhases == {"triage", "brainstorm"}

\* The edges of the graph, and the canonical gate-ledger records a transition
\* along an edge must find or append: FROM->TO, and TRIAGE_COMPLETE on
\* leaving triage.
Edges == {e \in Phases \X Phases :
            e[1] \in LifecyclePhases /\ e[2] \in ValidTransitions[e[1]]}
TriageComplete == <<"triage", "complete">>
CanonicalGates(e) == {e} \cup (IF e[1] = "triage" THEN {TriageComplete} ELSE {})
=============================================================================
