----------------------------- MODULE MCRunState -----------------------------
(***************************************************************************)
(* RunState with fairness for the liveness runs and mutations of the       *)
(* handlers the properties must notice.                                    *)
(***************************************************************************)
EXTENDS RunState

\* Canonical records an agent may append by hand before the transition does.
ByHand == {<<"propose", "plan">>, TriageComplete}

TeardownSpec == FairSpec /\ AbortRetried
=============================================================================
