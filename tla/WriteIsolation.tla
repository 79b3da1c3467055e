--------------------------- MODULE WriteIsolation ---------------------------
(***************************************************************************)
(* Several runs on their way from PLAN to EXECUTE: the scope each declares,*)
(* the run registry they publish it in, and the overlap gate a transition  *)
(* out of plan runs on what it reads there.  The gate holds the lock of    *)
(* its own run only, so the registry changes between its read and the save *)
(* of the manifest.                                                        *)
(*                                                                         *)
(* One agent drives each run.  A careful one follows uacp-state/SKILL.md:  *)
(* it registers what its scope declares before it leaves plan, widens      *)
(* nothing afterwards and deregisters when the run is over.                *)
(***************************************************************************)
EXTENDS WritePaths, Naturals

CONSTANTS
    Runs,
    Scopes,       \* the sets of write paths a scope artifact may declare
    None,         \* no scope artifact, no registry entry
    Careless      \* runs whose agent registers, deregisters and rescopes as it likes

ASSUME WriteIsolationAssumption ==
    /\ None \notin Scopes /\ Careless \subseteq Runs
    /\ None \notin {{Canon(p) : p \in s} : s \in Scopes}
    /\ \A f \in Files : Len(f) \in Nat
    /\ \A s \in Scopes : \A p \in s : Len(p.segs) \in Nat

VARIABLES
    phase,        \* manifest: plan, execute, verify, resolved, or aborted
    scope,        \* plans/{run}-scope.yaml
    registry,     \* state/run-registry.yaml: the write paths of each listed run
    pc            \* the step of the transition out of plan a run is in

vars == <<phase, scope, registry, pc>>

Entries == {{Canon(p) : p \in s} : s \in Scopes}
Executing == {"execute", "verify"}
Over == {"resolved", "aborted"}

TypeOK ==
    /\ phase \in [Runs -> {"plan"} \cup Executing \cup Over]
    /\ scope \in [Runs -> Scopes \cup {None}]
    /\ registry \in [Runs -> Entries \cup {None}]
    /\ pc \in [Runs -> {"idle", "overlap", "save"}]

Init ==
    /\ phase = [r \in Runs |-> "plan"]
    /\ scope = [r \in Runs |-> None] /\ registry = [r \in Runs |-> None]
    /\ pc = [r \in Runs |-> "idle"]

-----------------------------------------------------------------------------
\* The entity writer puts a scope artifact, in whatever phase it is asked to.
AuthorScope(r, s) ==
    /\ pc[r] = "idle" /\ (phase[r] = "plan" \/ r \in Careless)
    /\ scope' = [scope EXCEPT ![r] = s]
    /\ UNCHANGED <<phase, registry, pc>>

\* uacp_run_registry_update, op=register: every path must canonicalise, and
\* the entry replaces the run's former one.  One step, under the registry lock.
Register(r) ==
    /\ pc[r] = "idle" /\ (phase[r] = "plan" \/ r \in Careless)
    /\ scope[r] # None /\ \A p \in scope[r] : Usable(p)
    /\ registry' = [registry EXCEPT ![r] = {Canon(p) : p \in scope[r]}]
    /\ UNCHANGED <<phase, scope, pc>>

\* op=deregister, also by the teardown of an abort.
Deregister(r) ==
    /\ pc[r] = "idle" /\ (phase[r] \in Over \/ r \in Careless)
    /\ registry' = [registry EXCEPT ![r] = None]
    /\ UNCHANGED <<phase, scope, pc>>

\* handle_transition out of plan, up to the overlap gate: the scope gate wants
\* a scope; the PLAN_VALIDATION gate may block, which is no step.  A careful
\* agent calls it once it has registered the scope as it stands.
Registered(r) ==
    /\ \A p \in scope[r] : Usable(p)
    /\ registry[r] = {Canon(p) : p \in scope[r]}
LeavePlan(r) ==
    /\ pc[r] = "idle" /\ phase[r] = "plan" /\ scope[r] # None
    /\ Registered(r) \/ r \in Careless
    /\ pc' = [pc EXCEPT ![r] = "overlap"]
    /\ UNCHANGED <<phase, scope, registry>>

\* validate_run_registry_overlap compares its own scope with the entries of
\* the other listed runs.
Conflict(s, entry) == \E p \in s, q \in entry : Overlap(p, q)
Rivals(r) == {o \in Runs \ {r} : registry[o] # None /\ Conflict(scope[r], registry[o])}

OverlapGate(r) ==
    /\ pc[r] = "overlap"
    /\ pc' = [pc EXCEPT ![r] = IF Rivals(r) = {} THEN "save" ELSE "idle"]
    /\ UNCHANGED <<phase, scope, registry>>

EnterExecute(r) ==
    /\ pc[r] = "save"
    /\ phase' = [phase EXCEPT ![r] = "execute"]
    /\ pc' = [pc EXCEPT ![r] = "idle"]
    /\ UNCHANGED <<scope, registry>>

\* The later transitions, whose own gates are not modelled here.
Onward(ph) == IF ph = "execute" THEN "verify" ELSE "resolved"
Advance(r) ==
    /\ pc[r] = "idle" /\ phase[r] \in Executing
    /\ phase' = [phase EXCEPT ![r] = Onward(@)]
    /\ UNCHANGED <<scope, registry, pc>>

\* handle_abort waits for the run lock the transition holds.
Abort(r) ==
    /\ pc[r] = "idle" /\ phase[r] \notin Over
    /\ phase' = [phase EXCEPT ![r] = "aborted"]
    /\ UNCHANGED <<scope, registry, pc>>

\* The transition dies before its save, or fails; the manifest is as it was.
Crash(r) ==
    /\ pc[r] # "idle"
    /\ pc' = [pc EXCEPT ![r] = "idle"]
    /\ UNCHANGED <<phase, scope, registry>>

Next ==
    \E r \in Runs :
        \/ \E s \in Scopes : AuthorScope(r, s)
        \/ Register(r) \/ Deregister(r)
        \/ LeavePlan(r) \/ OverlapGate(r) \/ EnterExecute(r)
        \/ Advance(r) \/ Abort(r) \/ Crash(r)

Spec == Init /\ [][Next]_vars

-----------------------------------------------------------------------------
\* No file is inside the declared write boundary of two runs that execute at
\* the same time, however their registrations, gates and aborts interleave and
\* however the paths are written.
IsolatedExecution ==
    \A r, o \in Runs :
        r # o /\ phase[r] \in Executing /\ phase[o] \in Executing =>
            \A p \in scope[r], q \in scope[o], f \in Files : ~(Covers(p, f) /\ Covers(q, f))

\* _check_c6_scope_registry (and SC_SCOPE_REGISTRY_DISAGREE): a listed run's
\* entry and its scope declare the same set of strings.
C6Agrees(r) == scope[r] # None /\ registry[r] # None => scope[r] = registry[r]

\* A run that registered what its scope declares, and changed neither since,
\* passes the closure check that compares the two.  The code does not keep it,
\* since the registry has the canonical text; no run checks it.
MirrorAccepted ==
    \A r \in Runs \ Careless : phase[r] \in Executing \cup {"resolved"} => C6Agrees(r)
=============================================================================
