------------------------------ MODULE Guardian ------------------------------
(***************************************************************************)
(* The gate in front of a tool call and what it is asked to remember:      *)
(* engines/guardian (the decision), the tables of config/uacp.toml and     *)
(* engines/domain/phase_transitions.py it decides by, the Hermes adapter   *)
(* that reads policy and stages once per process and asks before and after *)
(* every call, the attestations a contained shell leaves behind, and the   *)
(* far narrower hook that is all a Claude or Kimi session has.             *)
(*                                                                         *)
(* The tables come from three files and the run moves by a fourth; nothing *)
(* but the properties below says that they fit together.  The audit file   *)
(* and how a command or an argument spells a path are not modelled: a call *)
(* comes with the place the guardian finds in it and the one it lands in.  *)
(***************************************************************************)
EXTENDS Naturals, FiniteSets, PhaseGraph

CONSTANTS
    Hermes, Claude,    \* sessions of either host; a host's sessions share one process
    Calls,             \* [Hosts -> the calls its agents may make]
    TTL,               \* how many ticks an attestation lives
    MaxTime, MaxMints, \* bounds on the clock and on the attestations
    MaxDisturbances    \* bound on edits of the configuration and restarts

Sessions == Hermes \cup Claude
Hosts == {"hermes", "claude"}
HostOf(s) == IF s \in Hermes THEN "hermes" ELSE "claude"

-----------------------------------------------------------------------------
(* The tables.                                                             *)

StateTools == {"uacp_state_write", "uacp_gate_ledger_append", "uacp_run_registry_update",
    "uacp_escalation_event", "uacp_run_init", "uacp_run_transition",
    "uacp_run_register_artifact", "uacp_run_finalize", "uacp_run_abort"}
ArtifactTools == {"uacp_artifact_write", "uacp_entity_write", "uacp_corpus_write"}
\* What the hosts bring: Bash is `terminal', Write, Edit, MultiEdit and
\* NotebookEdit are `write_file'.  The last three stand for tools that only a
\* pattern, a provider or nothing classifies.
RawShells == {"terminal", "execute_code"}
ReadTools == {"read_file", "search_files"}
HostTools == RawShells \cup ReadTools \cup {"write_file", "send_message", "mcp_other", "unlisted"}

\* tool_specs: what an adapter registers.
AdapterTools == StateTools \cup ArtifactTools \cup
    {"uacp_doc_write", "uacp_config_write", "uacp_sandbox_check", "uacp_contained_shell",
     "uacp_heartgate_check", "uacp_oracle_query", "uacp_run_status"}

\* [guardian.protected_categories].*.allowed_tools
AllowedTools(category) ==
    CASE category = "state.uacp"           -> StateTools
      [] category = "artifact.uacp"        -> ArtifactTools
      [] category = "docs.uacp"            -> {"uacp_doc_write"}
      [] category = "config.uacp"          -> {"uacp_config_write"}
      [] category = "exec.shell.contained" -> {"uacp_contained_shell"}
      [] category = "evidence.containment" -> {"uacp_sandbox_check"}
      [] category = "lifecycle.transition" -> {"uacp_heartgate_check"}
      [] OTHER                             -> {}

Entered == {"state.uacp", "artifact.uacp", "docs.uacp", "config.uacp",
            "exec.shell.contained", "evidence.containment", "lifecycle.transition"}

\* [guardian.self_attesting_tools].names: every tool a category is entered by.
SelfAttesting == UNION {AllowedTools(c) : c \in Entered}

\* Guardian.classify: the table by tool name, the patterns, and for what no
\* entry names the provider.  uacp_run_status has no entry.
Classify(tool) ==
    CASE tool \in SelfAttesting -> CHOOSE c \in Entered : tool \in AllowedTools(c)
      [] tool = "terminal"      -> "exec.shell"
      [] tool = "execute_code"  -> "exec.code_with_tool_proxy"
      [] tool = "write_file"    -> "file.write"
      [] tool = "send_message"  -> "external.message"
      [] tool \in ReadTools     -> "read.local"
      [] tool = "uacp_oracle_query"                -> "external.network_read"
      [] tool \in {"uacp_run_status", "mcp_other"} -> "runtime.extension"
      [] OTHER                                     -> "external.unknown_mutator"

\* [guardian.protected_categories].*.default_decision, "allow" where there is none.
Default(category) ==
    CASE category \in Entered \ {"evidence.containment", "lifecycle.transition"} -> "block"
      [] category \in {"exec.shell", "exec.code_with_tool_proxy", "runtime.extension"} -> "pending"
      [] category \in {"file.write", "external.message"}                -> "approval"
      [] category \in {"evidence.containment", "lifecycle.transition",
                       "external.network_read"}                         -> "audit"
      [] OTHER                                                          -> "allow"

NeedsContainment ==
    {"state.uacp", "docs.uacp", "config.uacp", "exec.shell", "exec.code_with_tool_proxy"}
IsProtected(category) == category \notin {"read.local", "external.network_read"}
ReadOnly == {"read.local", "evidence.containment", "lifecycle.transition", "external.network_read"}

\* STAGE_ALLOWED_TOOLS and STAGE_FORBIDDEN_TOOLS.
EveryStage == {"uacp_artifact_write", "uacp_entity_write", "uacp_state_write",
    "uacp_heartgate_check", "uacp_run_transition", "uacp_run_register_artifact"}
Records == {"uacp_run_registry_update", "uacp_escalation_event", "uacp_gate_ledger_append"}
Contained == {"uacp_contained_shell", "uacp_sandbox_check"}
StageAllowed(stage) ==
    EveryStage
        \cup (IF stage # "brainstorm" THEN Records ELSE {})
        \cup (IF stage = "resolve" THEN {"uacp_corpus_write", "uacp_run_finalize"}
                                   ELSE {"uacp_run_abort"})
        \cup (CASE stage = "brainstorm" -> {"uacp_run_init"}
                [] stage = "triage"     -> {"uacp_run_init", "uacp_doc_write", "uacp_config_write"}
                [] stage = "propose"    -> {"uacp_doc_write"}
                [] stage = "execute"    -> {"uacp_doc_write", "uacp_config_write"} \cup Contained \cup RawShells
                [] stage = "verify"     -> Contained
                [] OTHER                -> {})
StageForbidden(stage) == IF stage = "execute" THEN {} ELSE RawShells

\* mutation: the phase is stamped as the manifest spells it
StageAsIs(ph) == ph
\* _skill_phase: the name by which documents and tables know a manifest's phase.
StageOf(ph) == IF ph = "resolved" THEN "resolve" ELSE ph

-----------------------------------------------------------------------------
(* A call: the stage it is stamped with ("" for none), whether it names a  *)
(* run and the rest of the context, the place _extract_paths finds in its  *)
(* arguments (of a command that holds the root, only the root; of nested   *)
(* arguments, nothing), the place it lands in, whether its working         *)
(* directory is under the root, the attestation it cites (0 for none) and  *)
(* whether a contained shell names its workspace as `workspace'.           *)

FileKinds == {"state", "artifact", "docs", "config"}
CategoryOf == [state |-> "state.uacp", artifact |-> "artifact.uacp",
               docs |-> "docs.uacp", config |-> "config.uacp"]
Places == FileKinds \cup {"inside", "outside"}
Stages == LifecyclePhases \cup {"resolved", ""}
Call == [tool: AdapterTools \cup HostTools, stage: Stages, run: BOOLEAN, rest: BOOLEAN, touches: Places,
         lands: Places,
         home: BOOLEAN, att: 0..MaxMints, named: BOOLEAN]

ASSUME GuardianAssumption ==
    /\ Hermes \cap Claude = {}
    /\ DOMAIN Calls = Hosts
    /\ Calls["hermes"] \cup Calls["claude"] \subseteq Call
    /\ TTL \in Nat \ {0} /\ {MaxTime, MaxMints, MaxDisturbances} \subseteq Nat

Complete(c) == c.run /\ c.stage # "" /\ c.rest
TouchesRoot(c) == c.home \/ c.touches # "outside"
IsBound(c) == c.run \/ c.stage # "" \/ TouchesRoot(c)

-----------------------------------------------------------------------------
(* Guardian.evaluate: "allow", "audit" (allow with audit), "block" and     *)
(* "pending" (block pending heartgate), by the first rule that speaks.     *)

Blocks(decision) == decision \in {"block", "pending"}

\* _phase_layer_check; stages that could not be read impose nothing.
StageRefuses(stages, c) ==
    /\ stages = "code" /\ c.stage # ""
    /\ \/ c.stage \notin LifecyclePhases
       \/ c.tool \in StageForbidden(c.stage)
       \/ c.tool \notin StageAllowed(c.stage) /\ IsProtected(Classify(c.tool))

\* mutation: only the category of raw file writes counts as a write
WritesDirectlyRaw(c, file, category) ==
    \/ Classify(c.tool) = category
    \/ Classify(c.tool) = "file.write" /\ c.touches = file
\* _is_direct_uacp_state_write and _is_direct_uacp_artifact_write
WritesDirectly(c, file, category) ==
    \/ Classify(c.tool) = category
    \/ Classify(c.tool) \notin ReadOnly /\ c.touches = file

\* A governed category is entered by its own tools, with a complete context.
Entry(c, category) ==
    IF c.tool \in AllowedTools(category) /\ Complete(c) THEN "audit" ELSE "block"

\* The rules for what no governed tool and no governed place decides.
Fallback(mode, c, verified) ==
    LET category == Classify(c.tool)
        default  == Default(category)
    IN  IF IsBound(c)
        THEN IF \/ IsProtected(category) /\ ~Complete(c)
                \/ category \in NeedsContainment /\ ~verified
             THEN "block"
             ELSE IF default \in {"block", "pending"}
             THEN IF mode = "observe" THEN "audit" ELSE default
             ELSE IF default = "allow" THEN "allow" ELSE "audit"
        ELSE IF default = "allow" THEN "allow" ELSE "audit"

Evaluate(policy, stages, c, verified) ==
    LET category == Classify(c.tool)
    IN  IF StageRefuses(stages, c) THEN "block"
        ELSE IF WritesDirectly(c, "state", "state.uacp") THEN Entry(c, "state.uacp")
        ELSE IF WritesDirectly(c, "artifact", "artifact.uacp") THEN Entry(c, "artifact.uacp")
        ELSE IF c.tool \in AllowedTools(category) THEN Entry(c, category)
        ELSE Fallback(policy.mode, c, verified)

-----------------------------------------------------------------------------
VARIABLES
    disk,     \* the configuration: [ok, version, mode] of the policy, stages readable
    loaded,   \* what the Hermes process has read of it, once
    attests,  \* [Hosts -> attestations in the process' memory]
    minted,   \* attestations so far (their ids)
    clock,
    run,      \* the manifest: [phase, status, finalized]
    call,     \* [Sessions -> the call in flight or NoCall]
    disturbed \* edits and restarts so far

guardianVars == <<disk, loaded, attests, minted, clock, run, call, disturbed>>

NoCall == [step |-> "none"]
NoProbe == [at |-> 0, version |-> 0]
NotLoaded == [mode |-> "none", stages |-> "unread"]

Modes == {"enforce", "observe"}
Attestation == [id: 1..MaxMints, expires: Nat, version: Nat, validated: 0..MaxTime]

GuardianTypeOK ==
    /\ disk \in [ok: BOOLEAN, version: Nat, mode: Modes, stages: BOOLEAN]
    /\ loaded \in [mode: Modes \cup {"none"}, stages: {"unread", "code", "none"}]
    /\ attests \in [Hosts -> SUBSET Attestation]
    /\ minted \in 0..MaxMints /\ clock \in 0..MaxTime /\ disturbed \in 0..MaxDisturbances
    /\ run \in [phase: Phases, status: {"active", "resolved", "aborted"}, finalized: BOOLEAN]
    /\ DOMAIN call = Sessions
    /\ \A s \in Sessions : call[s] # NoCall =>
          call[s].c \in Calls[HostOf(s)] /\ call[s].step \in {"admitted", "contained", "ran"}

GuardianInit ==
    /\ disk \in [ok: {TRUE}, version: {1}, mode: Modes, stages: {TRUE}]
    /\ loaded = NotLoaded
    /\ attests = [h \in Hosts |-> {}] /\ minted = 0
    /\ clock = 0 /\ disturbed = 0
    /\ run \in [phase: InitialPhases, status: {"active"}, finalized: {FALSE}]
    /\ call = [s \in Sessions |-> NoCall]

-----------------------------------------------------------------------------
(* Attestations.                                                           *)

\* mutation: pruning comes after the early return for a call that cites none
PrunedWhenAsked(h, asked) ==
    IF asked = 0 THEN attests[h] ELSE {r \in attests[h] : r.id = asked \/ r.expires > clock}
\* _prune_expired_attestations: all that are dead but the one asked about.
Pruned(h, asked) == {r \in attests[h] : r.id = asked \/ r.expires > clock}

\* _validate_contained_shell_attestation, for an id that was given
Holds(h, id) ==
    \E r \in attests[h] : r.id = id /\ r.expires > clock /\ r.version = disk.version

\* _filesystem_guard_verified: the version is read from disk, not from `loaded'.
AsksCache(c) == c.tool \notin SelfAttesting /\ c.att # 0 /\ disk.ok
Verified(c) == c.tool \in SelfAttesting \/ (AsksCache(c) /\ Holds("hermes", c.att))

-----------------------------------------------------------------------------
(* Before the call.                                                        *)

\* load_phase_transitions: stages that cannot be parsed count as none.
ReadStages == IF disk.stages THEN "code" ELSE "none"

\* mutation: the configuration is read on every call
Reload == IF ~disk.ok THEN loaded ELSE [mode |-> disk.mode, stages |-> ReadStages]
\* _policy and _phase_config: read on first use, then kept for the process.
Load == IF loaded.mode # "none" \/ ~disk.ok THEN loaded
        ELSE [mode |-> disk.mode, stages |-> ReadStages]

Judge(ld, c) == Evaluate([mode |-> ld.mode], ld.stages, c, Verified(c))

\* With no policy only a read that names no run passes, unjudged.
Unjudged(c) == IF c.tool \in ReadTools /\ ~c.run THEN "unjudged" ELSE "block"

\* on_pre_tool_call.  A refused call leaves what was loaded and pruned.
AskGuardian(s, c) ==
    LET ld == Load
        decision == IF ld.mode = "none" THEN Unjudged(c) ELSE Judge(ld, c)
    IN  /\ call[s] = NoCall
        /\ loaded' = ld
        /\ attests' = IF ld.mode # "none" /\ AsksCache(c)
                      THEN [attests EXCEPT !["hermes"] = Pruned("hermes", c.att)] ELSE attests
        /\ call' = IF Blocks(decision) THEN call
                   ELSE [call EXCEPT ![s] = [step |-> "admitted", c |-> c, before |-> decision,
                                             unread |-> FALSE, probe |-> NoProbe]]
        /\ UNCHANGED <<disk, minted, clock, run, disturbed>>

\* guardian_pretooluse.main: a raw write into .uacp is denied; a payload or a
\* path the hook cannot make sense of (`unread', which makes no difference to other calls) is let through.
HookDenies(c) == c.tool = "write_file" /\ c.touches \in {"state", "artifact", "config"}
AskHook(s, c, unread) ==
    /\ call[s] = NoCall
    /\ IF HookDenies(c) THEN unread ELSE ~unread
    /\ call' = [call EXCEPT ![s] = [step |-> "admitted", c |-> c, before |-> "unjudged",
                                    unread |-> unread, probe |-> NoProbe]]
    /\ UNCHANGED <<disk, loaded, attests, minted, clock, run, disturbed>>

-----------------------------------------------------------------------------
(* The call.                                                               *)

Admitted(s, tools) == call[s].step = "admitted" /\ call[s].c.tool \in tools
\* Hermes is told when a call has run, Claude's hook is not.
Done(s) == call' = IF s \in Hermes THEN [call EXCEPT ![s].step = "ran"]
                                    ELSE [call EXCEPT ![s] = NoCall]
\* Every governed handler loads the policy and wants the context.
Served(c) == disk.ok /\ Complete(c)

\* uacp_run_transition: along an edge, or refused by a gate.
RunTransition(s) ==
    /\ Admitted(s, {"uacp_run_transition"}) /\ Done(s)
    /\ \/ /\ run.status = "active" /\ run.phase \in LifecyclePhases /\ Served(call[s].c)
          /\ \E to \in ValidTransitions[run.phase] :
                run' = [run EXCEPT !.phase = to,
                                   !.status = IF to = "resolved" THEN "resolved" ELSE "active"]
       \/ run' = run
    /\ UNCHANGED <<disk, loaded, attests, minted, clock, disturbed>>

RunAbort(s) ==
    /\ Admitted(s, {"uacp_run_abort"}) /\ Done(s)
    /\ run' = IF run.status = "active" /\ Served(call[s].c)
              THEN [run EXCEPT !.status = "aborted"] ELSE run
    /\ UNCHANGED <<disk, loaded, attests, minted, clock, disturbed>>

\* uacp_run_finalize: at a terminal phase, if the closure sweep lets it.
RunFinalize(s) ==
    /\ Admitted(s, {"uacp_run_finalize"}) /\ Done(s)
    /\ \/ /\ run.phase = "resolved" /\ run.status # "aborted" /\ Served(call[s].c)
          /\ run' = [run EXCEPT !.finalized = TRUE]
       \/ run' = run
    /\ UNCHANGED <<disk, loaded, attests, minted, clock, disturbed>>

\* A write of one of the four kinds of files.  A governed writer keeps to its
\* own; whatever else writes, a shell included, writes where it is told.  A write
\* that lands in the configuration may make the stages file readable or garbled.
Serves(tool) == CASE tool \in ArtifactTools       -> {"artifact"}
                  [] tool = "uacp_state_write"    -> {"state"}
                  [] tool = "uacp_doc_write"      -> {"docs"}
                  [] tool = "uacp_config_write"   -> {"config"}
                  [] OTHER                        -> FileKinds
LooseTools == RawShells \cup {"write_file", "mcp_other", "unlisted"}
Writers == ArtifactTools \cup
    {"uacp_state_write", "uacp_doc_write", "uacp_config_write"} \cup LooseTools

Lands(c) == c.lands \in Serves(c.tool) /\ (c.tool \in SelfAttesting => Served(c))

Write(s) ==
    /\ Admitted(s, Writers) /\ Done(s)
    /\ \E readable \in BOOLEAN :
          /\ readable # disk.stages => call[s].c.lands = "config" /\ Lands(call[s].c)
          /\ disk' = [disk EXCEPT !.stages = readable]
    /\ UNCHANGED <<loaded, attests, minted, clock, run, disturbed>>

\* _sandbox_contained_shell up to the probe.  The policy's root is the
\* `workspace' of the call, and the workspace must not be that root: a call
\* that names it is refused.  A cited attestation must hold.
ShellStart(s) ==
    LET h == HostOf(s)
        c == call[s].c
    IN  /\ Admitted(s, {"uacp_contained_shell"})
        /\ IF Served(c)
           THEN /\ attests' = [attests EXCEPT ![h] = Pruned(h, c.att)]
                /\ \/ /\ ~c.named /\ (c.att # 0 => Holds(h, c.att))
                      /\ call' = [call EXCEPT ![s].step = "contained",
                                   ![s].probe = [at |-> clock, version |-> disk.version]]
                   \/ Done(s)
           ELSE Done(s) /\ attests' = attests
        /\ UNCHANGED <<disk, loaded, minted, clock, run, disturbed>>

\* _run_bwrap_contained_shell: the command ran, however it ended.  The version
\* is the one ShellStart read.
ShellMint(s) ==
    LET h == HostOf(s)
        probe == call[s].probe
    IN  /\ call[s].step = "contained" /\ minted < MaxMints
        /\ minted' = minted + 1
        /\ attests' = [attests EXCEPT ![h] = @ \cup
              {[id |-> minted + 1, expires |-> clock + TTL, version |-> probe.version,
                validated |-> probe.at]}]
        /\ Done(s)
        /\ UNCHANGED <<disk, loaded, clock, run, disturbed>>

\* Every other tool changes nothing that is modelled.
RunOther(s) ==
    /\ call[s].step = "admitted" /\ Done(s)
    /\ call[s].c.tool \notin Writers \cup
          {"uacp_run_transition", "uacp_run_abort", "uacp_run_finalize", "uacp_contained_shell"}
    /\ UNCHANGED <<disk, loaded, attests, minted, clock, run, disturbed>>

\* on_post_tool_call: judged once more, for the audit record.
PostCall(s) ==
    /\ call[s].step = "ran"
    /\ call' = [call EXCEPT ![s] = NoCall]
    /\ attests' = IF AsksCache(call[s].c)
                  THEN [attests EXCEPT !["hermes"] = Pruned("hermes", call[s].c.att)] ELSE attests
    /\ loaded' = Load
    /\ UNCHANGED <<disk, minted, clock, run, disturbed>>

-----------------------------------------------------------------------------
(* Around it.                                                              *)

Disturb == disturbed < MaxDisturbances /\ disturbed' = disturbed + 1

\* Somebody edits the policy; an edit that cannot be parsed or does not
\* validate makes every load of it fail.
EditPolicy ==
    /\ Disturb
    /\ \/ \E mode \in Modes \ {disk.mode} : disk' = [disk EXCEPT !.mode = mode]
       \/ disk' = [disk EXCEPT !.version = @ + 1]
       \/ disk' = [disk EXCEPT !.ok = ~disk.ok]
    /\ UNCHANGED <<loaded, attests, minted, clock, run, call>>

\* A host's process ends, and with it all it remembers and all it was doing.
Restart(h) ==
    /\ Disturb
    /\ attests' = [attests EXCEPT ![h] = {}]
    /\ loaded' = IF h = "hermes" THEN NotLoaded ELSE loaded
    /\ call' = [s \in Sessions |-> IF HostOf(s) = h THEN NoCall ELSE call[s]]
    /\ UNCHANGED <<disk, minted, clock, run>>

Tick ==
    /\ clock < MaxTime /\ clock' = clock + 1
    /\ UNCHANGED <<disk, loaded, attests, minted, run, call, disturbed>>

GuardianNext ==
    \/ \E s \in Hermes, c \in Calls["hermes"] : AskGuardian(s, c)
    \/ \E s \in Claude, c \in Calls["claude"], unread \in BOOLEAN : AskHook(s, c, unread)
    \/ \E s \in Sessions :
          \/ RunTransition(s) \/ RunAbort(s) \/ RunFinalize(s) \/ Write(s)
          \/ ShellStart(s) \/ ShellMint(s) \/ RunOther(s) \/ PostCall(s)
    \/ EditPolicy \/ \E h \in Hosts : Restart(h) \/ Tick

GuardianSpec == GuardianInit /\ [][GuardianNext]_guardianVars

-----------------------------------------------------------------------------
(* Properties.                                                             *)

\* The run can always go on: wherever it stands, a call that moves it, stamped
\* with the stage of its phase and a complete context, would be admitted by
\* what the Hermes process has loaded or would load.  The edges of the
\* lifecycle, the stages and the categories stand in three files.
WayOn ==
    \A tool \in {"uacp_run_transition", "uacp_run_finalize", "uacp_run_abort"} :
        /\ loaded.mode # "none" \/ disk.ok
        /\ CASE tool = "uacp_run_transition" -> run.status = "active"
             [] tool = "uacp_run_finalize"   -> run.status = "resolved"
             [] tool = "uacp_run_abort"      -> run.status = "active"
        => ~Blocks(Judge(Load, [tool |-> tool, stage |-> StageOf(run.phase), run |-> TRUE,
                                rest |-> TRUE, touches |-> "state", lands |-> "state", home |-> TRUE,
                                att |-> 0, named |-> TRUE]))

\* The audit after a call tells the story of the decision before it, whatever
\* was edited meanwhile, unless the call leaned on an attestation that has
\* been lost since: policy and stages are those of the process, only the
\* attestation is looked up again.
SameStoryTwice ==
    \A s \in Hermes : call[s] # NoCall /\ call[s].before # "unjudged" =>
        \/ Judge(Load, call[s].c) = call[s].before
        \/ call[s].c.att # 0 /\ ~Verified(call[s].c)

\* The memory of a process holds no attestation that was dead when a shell
\* whose attestation it also holds was let in: it does not grow with the
\* session (the reason _prune_expired_attestations gives).
CacheOneLifeDeep ==
    \A h \in Hosts : \A r, s \in attests[h] : r.expires > s.validated

\* A call under way that will write one of the four kinds of files is a governed
\* writer of that kind, whatever the mode, the configuration and the process did, but
\* for what the guardian did not see: no other writer in whose arguments it found the
\* state or an artifact is under way, and one in which it found neither was bound to
\* no run and no place, came while the stages could not be read, or is a shell that an
\* attestation and observe mode let in at execute.  On Claude this holds as far as the
\* host's own file tools go and the hook could read their payload.
OneWriter ==
    \A s \in Sessions : LET c == call[s].c IN
        /\ Admitted(s, Writers) /\ c.lands \in FileKinds /\ Lands(c)
        /\ c.tool \notin AllowedTools(CategoryOf[c.lands])
        => \/ /\ s \in Hermes /\ c.touches \notin {"state", "artifact"}
              /\ \/ ~IsBound(c)
                 \/ loaded.stages = "none"
                 \/ /\ loaded.mode = "observe" /\ c.tool \in RawShells
                    /\ c.stage = "execute" /\ c.att # 0
           \/ /\ s \in Claude
              /\ \/ c.tool # "write_file" \/ call[s].unread
                 \/ c.touches \notin {"state", "artifact", "config"}

\* What runtime-integration-guide.md says observe mode does not waive.  (Not so for
\* a shell whose command holds the root: README, section 6.)
StateHasOneWriter ==
    \A s \in Hermes : LET c == call[s].c IN
        Admitted(s, Writers) /\ c.lands = "state" /\ IsBound(c) /\ loaded.stages = "code" =>
            c.tool \in AllowedTools("state.uacp")
=============================================================================
