---------------------------- MODULE RunLifecycle ----------------------------
(***************************************************************************)
(* What the state engine promises of a governed run, whoever calls it and  *)
(* whatever crashes: it starts in an initial phase, crosses one edge of    *)
(* the phase graph at a time and only after the canonical gates of that    *)
(* edge are on record, and ends resolved, or aborted where it stood after  *)
(* an ABORT record.  Records are never withdrawn.                          *)
(***************************************************************************)
EXTENDS PhaseGraph

CONSTANTS Runs, AbortGate

VARIABLES status, phase, gates

lifecycle == <<status, phase, gates>>

Init ==
    /\ status = [r \in Runs |-> "absent"]
    /\ phase = [r \in Runs |-> "triage"]
    /\ gates = [r \in Runs |-> {}]

Begin(r) ==
    /\ status[r] = "absent"
    /\ \E ph \in InitialPhases : phase' = [phase EXCEPT ![r] = ph]
    /\ status' = [status EXCEPT ![r] = "active"]
    /\ UNCHANGED gates

Admit(r, g) ==
    /\ gates' = [gates EXCEPT ![r] = @ \cup {g}]
    /\ UNCHANGED <<status, phase>>

Cross(r, e) ==
    /\ status[r] = "active" /\ phase[r] = e[1]
    /\ CanonicalGates(e) \subseteq gates[r]
    /\ phase' = [phase EXCEPT ![r] = e[2]]
    /\ status' = [status EXCEPT ![r] = IF e[2] = "resolved" THEN "resolved" ELSE @]
    /\ UNCHANGED gates

Stop(r) ==
    /\ status[r] = "active" /\ AbortGate \in gates[r]
    /\ status' = [status EXCEPT ![r] = "aborted"]
    /\ UNCHANGED <<phase, gates>>

Next == \E r \in Runs :
    \/ Begin(r) \/ Stop(r)
    \/ \E e \in Edges : Cross(r, e)
    \/ \E g \in Edges \cup {TriageComplete, AbortGate} : Admit(r, g)

Spec == Init /\ [][Next]_lifecycle
=============================================================================
