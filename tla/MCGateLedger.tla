---------------------------- MODULE MCGateLedger ----------------------------
EXTENDS GateLedger

\* Records agents write by hand, named as the call says.
HandCall(g, result) == [gate |-> g, named |-> g, result |-> result]

\* Passing records of two gates the run will cross, one of the gate a run born
\* in triage never crosses, and one that is no edge; a failed check of a gate that
\* is crossed afterwards.
Calls == {HandCall(g, "pass") : g \in {<<"triage", "propose">>, TriageComplete,
                                       <<"brainstorm", "triage">>}}
         \cup {HandCall(<<"plan", "execute">>, result) : result \in {"pass", "fail"}}
=============================================================================
