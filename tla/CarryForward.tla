---------------------------- MODULE CarryForward ----------------------------
(***************************************************************************)
(* The documents a run hands from EXECUTE to its closure, as the full gate *)
(* reads them: adaptive_gates.py, which loads and runs the validators of   *)
(* scripts/validate_uacp_artifacts.py.  A contract of obligations, the     *)
(* checkpoint that shows evidence for them, VERIFY's assessment of each,   *)
(* its package and readiness, RESOLVE's package and the closure: each is   *)
(* compared with some of the earlier ones, none is held still.             *)
(*                                                                         *)
(* The agent works as the skills tell it: it asks the full gate, crosses   *)
(* if that passes, and asks again when it has written since.  The forced   *)
(* gates, which ask less of the same documents, are in PhaseGates.  The    *)
(* documents name the run's own contract, which nothing makes them do.     *)
(***************************************************************************)
EXTENDS Naturals, FiniteSets

CONSTANTS
    Obligations,  \* evidence obligations
    Items,        \* residual risks and deferred items (the rules are the same)
    Offers,       \* [Kinds -> the contents the agent may write]
    Reopened,     \* kinds the agent writes in later phases too
    Missing       \* no such file

Results == {"pass", "warn", "block"}   \* "warn" for warn and deferred, with their owner
Contract   == [all: SUBSET Obligations, required: SUBSET Obligations]
Checkpoint == [shown: SUBSET (Obligations \X Results), deferred: BOOLEAN,
               status: {"ready", "ready_with_deferred_items", "blocked"}]
Assessment == [states: SUBSET (Obligations \X Results), overall: Results]
Package    == [open: BOOLEAN, ready: BOOLEAN]    \* an open blocker; ready_for_resolve
Readiness  == [open: BOOLEAN, ready: BOOLEAN, overall: Results, items: SUBSET Items]
Selection  == [items: SUBSET Items]
ClosureDoc == [items: SUBSET Items, decision: {"resolved", "blocked"},
               run_status: {"resolved", "blocked"}]

\* Where each document belongs.  The contract is PLAN's; the runs start after it.
PhaseOf == [contract |-> "execute", checkpoint |-> "execute",
            assessment |-> "verify", package |-> "verify", readiness |-> "verify",
            selection |-> "resolved", closure |-> "resolved"]
Kinds == DOMAIN PhaseOf

Contents ==
    [k \in Kinds |-> CASE k = "contract"  -> Contract   [] k = "checkpoint" -> Checkpoint
                       [] k = "assessment" -> Assessment [] k = "package"   -> Package
                       [] k = "readiness" -> Readiness  [] k = "selection"  -> Selection
                       [] k = "closure"   -> ClosureDoc]

ASSUME CarryAssumption ==
    /\ DOMAIN Offers = Kinds /\ \A k \in Kinds : Offers[k] \subseteq Contents[k]
    /\ Reopened \subseteq Kinds

VARIABLES
    phase,     \* current_phase, from execute on
    finalized, \* finalized_at is set
    doc,       \* [Kinds -> contents or Missing]
    advised,   \* has the full gate of this phase passed since the last write?
    owed,      \* history: the readiness' items when the run left verify
    shed       \* history: those of them that a readiness written since leaves out

carryVars == <<phase, finalized, doc, advised, owed, shed>>

CarryTypeOK ==
    /\ phase \in {"execute", "verify", "resolved"} /\ finalized \in BOOLEAN
    /\ DOMAIN doc = Kinds /\ \A k \in Kinds : doc[k] \in Offers[k] \cup {Missing}
    /\ advised \in BOOLEAN /\ owed \subseteq Items /\ shed \subseteq owed

CarryInit ==
    /\ phase = "execute" /\ finalized = FALSE
    /\ doc = [k \in Kinds |-> Missing]
    /\ advised = FALSE /\ owed = {} /\ shed = {}

Present(k) == doc[k] # Missing

-----------------------------------------------------------------------------
(* The validators, each for a document that is present.                    *)

\* validate_piv_contract: obligations there are, and a checkpoint policy.
ContractValid == doc["contract"].all # {}

\* validate_execution_checkpoint.  "ready" needs a pass for every required
\* obligation; "ready_with_deferred_items" excuses the ones without evidence.
Shown(results) ==
    {o \in doc["contract"].required : \E r \in results : <<o, r>> \in doc["checkpoint"].shown}

CheckpointValid ==
    /\ Present("contract")
    /\ doc["checkpoint"].shown # {}
    /\ \A s \in doc["checkpoint"].shown : s[1] \in doc["contract"].all
    /\ doc["checkpoint"].status = "ready" => Shown({"pass"}) = doc["contract"].required
    /\ doc["checkpoint"].status = "ready_with_deferred_items" /\ Shown({"warn"}) # {}
           => doc["checkpoint"].deferred

\* validate_piv_assessment: every obligation once; a blocked one may stand
\* unless the whole is said to pass.
AssessmentValid ==
    /\ Present("contract") /\ doc["assessment"].states # {}
    /\ \A s, t \in doc["assessment"].states : s[1] = t[1] => s = t
    /\ LET named == {s[1] : s \in doc["assessment"].states} IN
        /\ doc["contract"].all \subseteq named
        /\ doc["contract"].all # {} => named \subseteq doc["contract"].all
    /\ doc["assessment"].overall = "pass" => \A s \in doc["assessment"].states : s[2] # "block"

\* validate_verify_package_selection.
PackageValid == ~(doc["package"].open /\ doc["package"].ready)

UnassessedReadiness ==            \* mutation: a contract needs no assessment
    /\ Present("package")
    /\ doc["readiness"].open => ~doc["readiness"].ready /\ doc["readiness"].overall # "pass"

\* validate_verify_resolve_readiness: its own blockers, not the package's.
ReadinessValid ==
    /\ Present("package")
    /\ doc["readiness"].open => ~doc["readiness"].ready /\ doc["readiness"].overall # "pass"
    /\ Present("contract") => Present("assessment")

CarriesSome(k, from) ==           \* mutation: something is carried
    doc[from].items # {} => doc[k].items # {}
Carries(k, from) == doc[from].items \subseteq doc[k].items

\* validate_resolve_package_selection.
SelectionValid ==
    /\ Present("readiness") /\ doc["readiness"].ready /\ ~doc["readiness"].open
    /\ Carries("selection", "readiness")

\* validate_resolve_closure, which validates the readiness again.
ClosureValid ==
    /\ Present("selection") /\ Present("readiness")
    /\ doc["readiness"].ready /\ ReadinessValid
    /\ ~(doc["closure"].decision = "blocked" /\ doc["closure"].run_status = "resolved")
    /\ Carries("closure", "readiness") /\ Carries("closure", "selection")

-----------------------------------------------------------------------------
(* The adaptive gates.                                                     *)

ExecuteGate ==
    /\ Present("contract") /\ Present("checkpoint")
    /\ doc["checkpoint"].status # "blocked"
    /\ ContractValid /\ CheckpointValid

VerifyGate ==
    /\ Present("package") /\ Present("readiness")
    /\ doc["readiness"].ready /\ ~doc["readiness"].open
    /\ PackageValid /\ ReadinessValid
    /\ Present("assessment") => AssessmentValid

ResolveGate ==
    /\ Present("selection") /\ Present("closure") /\ Present("readiness")
    /\ doc["readiness"].ready /\ doc["closure"].decision = "resolved"
    /\ ReadinessValid /\ SelectionValid /\ ClosureValid

Gate == CASE phase = "execute"  -> ExecuteGate
          [] phase = "verify"   -> VerifyGate
          [] phase = "resolved" -> ResolveGate

\* engines/evidence_completeness.py: each phase the history says was left, and
\* RESOLVE itself, left a file named after the run (and its ledger record).
LeftEvidence(ph) == \E k \in Kinds : PhaseOf[k] = ph /\ k # "contract" /\ Present(k)
EvidenceComplete == \A ph \in {"execute", "verify", "resolved"} : LeftEvidence(ph)

-----------------------------------------------------------------------------
\* uacp_artifact_write does not look at the phase.
WriteDoc(k) ==
    /\ PhaseOf[k] = phase \/ (k \in Reopened /\ Present(k))
    /\ \E c \in Offers[k] :
          /\ doc' = [doc EXCEPT ![k] = c]
          /\ shed' = IF k = "readiness" THEN owed \ c.items ELSE shed
    /\ advised' = FALSE
    /\ UNCHANGED <<phase, finalized, owed>>

\* uacp_heartgate_check.
Ask ==
    /\ Gate /\ ~finalized
    /\ advised' = TRUE
    /\ UNCHANGED <<phase, finalized, doc, owed, shed>>

SpelledResolve(ph) == IF ph = "execute" THEN "verify" ELSE "resolve"  \* mutation: the stage
After(ph) == IF ph = "execute" THEN "verify" ELSE "resolved"

\* uacp_run_transition.
Cross ==
    /\ advised /\ phase # "resolved"
    /\ phase' = After(phase)
    /\ owed' = IF phase = "verify" THEN doc["readiness"].items ELSE owed
    /\ shed' = {} /\ advised' = FALSE
    /\ UNCHANGED <<finalized, doc>>

\* uacp_run_finalize with the evidence engine of its sweep.
Finalize ==
    /\ advised /\ phase = "resolved" /\ ~finalized /\ EvidenceComplete
    /\ finalized' = TRUE
    /\ UNCHANGED <<phase, doc, advised, owed, shed>>

CarryNext == (\E k \in Kinds : ~finalized /\ WriteDoc(k)) \/ Ask \/ Cross \/ Finalize

CarrySpec == CarryInit /\ [][CarryNext]_carryVars

-----------------------------------------------------------------------------
\* What VERIFY handed over is lost in one way only: the risks and deferred items
\* of the readiness with which the run entered resolved are in the closure it is
\* finalized with, whatever the other documents went through and in whatever order,
\* but for those that a later version of the readiness itself took back.
OwedReachesClosure == finalized => owed \ shed \subseteq doc["closure"].items

\* What lifecycle-semantic-gates.md asks of a closure, without the exception.  (Not so:
\* nothing keeps the readiness from being written again in resolved; README, section 6.)
NothingIsShed == finalized => owed \subseteq doc["closure"].items

\* A contract cannot be dodged by leaving its assessment out: a run that enters
\* resolved with obligations has each of them assessed, and once, those the
\* checkpoint showed no evidence for included.
NoUnassessedObligation ==
    [][phase = "verify" /\ phase' = "resolved" /\ Present("contract") =>
        /\ Present("assessment")
        /\ \A o \in doc["contract"].all :
            Cardinality({r \in Results : <<o, r>> \in doc["assessment"].states}) = 1]_carryVars
=============================================================================
