---------------------------- MODULE AccessProofs ----------------------------
(***************************************************************************)
(* Who may write what.  The guardian and the hook, for any sessions, calls,*)
(* configurations, edits and restarts; then write isolation for any number *)
(* of runs, any scopes without patterns and any workspace, when every agent*)
(* is careful.                                                             *)
(***************************************************************************)
EXTENDS Guardian, WriteIsolation, TLAPS

\* The tables: which category a tool is entered by.
LEMMA StateToolClass ==
    ASSUME NEW tool \in StateTools
    PROVE  Classify(tool) = "state.uacp" /\ tool \in SelfAttesting
<1>1. "state.uacp" \in Entered /\ tool \in AllowedTools("state.uacp")
  BY DEF Entered, AllowedTools
<1>2. tool \in SelfAttesting
  BY <1>1 DEF SelfAttesting
<1>3. ASSUME NEW c \in Entered, tool \in AllowedTools(c) PROVE c = "state.uacp"
  BY <1>3 DEF Entered, AllowedTools, StateTools, ArtifactTools
<1>4. (CHOOSE c \in Entered : tool \in AllowedTools(c)) = "state.uacp"
  BY <1>1, <1>3
<1> QED BY <1>2, <1>4 DEF Classify, StateTools, ReadTools

LEMMA WriterClass ==
    /\ \A tool \in ArtifactTools : Classify(tool) = "artifact.uacp"
    /\ Classify("uacp_doc_write") = "docs.uacp"
    /\ Classify("uacp_config_write") = "config.uacp"
    /\ Classify("write_file") = "file.write"
    /\ Classify("mcp_other") = "runtime.extension"
    /\ Classify("unlisted") = "external.unknown_mutator"
    /\ Classify("terminal") = "exec.shell"
    /\ Classify("execute_code") = "exec.code_with_tool_proxy"
    /\ LooseTools \cap SelfAttesting = {}
<1>1. ASSUME NEW tool \in ArtifactTools PROVE Classify(tool) = "artifact.uacp"
  <2>1. "artifact.uacp" \in Entered /\ tool \in AllowedTools("artifact.uacp")
    BY DEF Entered, AllowedTools
  <2>2. ASSUME NEW c \in Entered, tool \in AllowedTools(c) PROVE c = "artifact.uacp"
    BY <2>2 DEF Entered, AllowedTools, StateTools, ArtifactTools
  <2>3. tool \in SelfAttesting
    BY <2>1 DEF SelfAttesting
  <2>4. (CHOOSE c \in Entered : tool \in AllowedTools(c)) = "artifact.uacp"
    BY <2>1, <2>2
  <2> QED BY <2>3, <2>4 DEF Classify, ArtifactTools, ReadTools
<1>2. ASSUME NEW tool, NEW category \in Entered, tool \in AllowedTools(category),
             tool \notin RawShells \cup ReadTools,
             tool \notin {"write_file", "send_message", "uacp_oracle_query", "uacp_run_status", "mcp_other"},
             \A c \in Entered : tool \in AllowedTools(c) => c = category
      PROVE  Classify(tool) = category
  <2>1. tool \in SelfAttesting
    BY <1>2 DEF SelfAttesting
  <2>2. (CHOOSE c \in Entered : tool \in AllowedTools(c)) = category
    BY <1>2
  <2> QED BY <1>2, <2>1, <2>2 DEF Classify, RawShells
<1>3. Classify("uacp_doc_write") = "docs.uacp"
  <2>1. "docs.uacp" \in Entered /\ "uacp_doc_write" \in AllowedTools("docs.uacp")
    BY DEF Entered, AllowedTools
  <2>2. \A c \in Entered : "uacp_doc_write" \in AllowedTools(c) => c = "docs.uacp"
    BY DEF Entered, AllowedTools, StateTools, ArtifactTools
  <2> QED BY <1>2, <2>1, <2>2 DEF RawShells, ReadTools
<1>4. Classify("uacp_config_write") = "config.uacp"
  <2>1. "config.uacp" \in Entered /\ "uacp_config_write" \in AllowedTools("config.uacp")
    BY DEF Entered, AllowedTools
  <2>2. \A c \in Entered : "uacp_config_write" \in AllowedTools(c) => c = "config.uacp"
    BY DEF Entered, AllowedTools, StateTools, ArtifactTools
  <2> QED BY <1>2, <2>1, <2>2 DEF RawShells, ReadTools
<1>5. LooseTools \cap SelfAttesting = {}
  BY DEF LooseTools, RawShells, SelfAttesting, Entered, AllowedTools, StateTools, ArtifactTools
<1>6. Classify("write_file") = "file.write" /\ Classify("mcp_other") = "runtime.extension"
  BY <1>5 DEF LooseTools, Classify, ReadTools
<1>7. /\ Classify("unlisted") = "external.unknown_mutator" /\ Classify("terminal") = "exec.shell"
      /\ Classify("execute_code") = "exec.code_with_tool_proxy"
  BY <1>5 DEF LooseTools, RawShells, Classify, ReadTools
<1> QED BY <1>1, <1>3, <1>4, <1>5, <1>6, <1>7

-----------------------------------------------------------------------------
\* The judgment: one of four words, and an attestation can only help.
Words == {"allow", "audit", "block", "pending"}

LEMMA EvaluateWord ==
    ASSUME NEW policy, NEW stages, NEW c, NEW v
    PROVE  Evaluate(policy, stages, c, v) \in Words
<1>1. Fallback(policy.mode, c, v) \in Words
  BY DEF Fallback, Words
<1>2. \A category : Entry(c, category) \in Words
  BY DEF Entry, Words
<1> QED BY <1>1, <1>2 DEF Evaluate, Words

LEMMA VerifiedCannotHurt ==
    ASSUME NEW policy, NEW stages, NEW c, ~Blocks(Evaluate(policy, stages, c, FALSE))
    PROVE  Evaluate(policy, stages, c, TRUE) = Evaluate(policy, stages, c, FALSE)
<1>1. ~Blocks(Fallback(policy.mode, c, FALSE)) =>
        Fallback(policy.mode, c, TRUE) = Fallback(policy.mode, c, FALSE)
  BY DEF Fallback, Blocks
<1> QED BY <1>1 DEF Evaluate

-----------------------------------------------------------------------------
\* The calls in flight.
CallRecord(s) ==
    [step : {"admitted", "contained", "ran"}, c : Calls[HostOf(s)],
     before : {"unjudged", "allow", "audit"}, unread : BOOLEAN,
     probe : [at : 0..MaxTime, version : Nat]]

CallsOK ==
    /\ DOMAIN call = Sessions
    /\ \A s \in Sessions : call[s] = NoCall \/ call[s] \in CallRecord(s)

GuardianInv == GuardianTypeOK /\ CallsOK

LEMMA NotInFlight == \A s : NoCall \notin CallRecord(s) /\ NoCall.step = "none"
BY DEF NoCall, CallRecord

LEMMA HostKnown == \A s : HostOf(s) \in Hosts
BY DEF HostOf, Hosts

LEMMA LoadTyped ==
    ASSUME GuardianTypeOK
    PROVE  Load \in [mode: Modes \cup {"none"}, stages: {"unread", "code", "none"}]
BY DEF GuardianTypeOK, Load, ReadStages

\* A refused call, and the parts of a step that a call has in common with others.
LEMMA DoneCalls ==
    ASSUME CallsOK, NEW s \in Sessions, call[s] # NoCall, Done(s)
    PROVE  CallsOK'
<1>1. call[s] \in CallRecord(s)
  BY DEF CallsOK
<1>2. CASE call' = [call EXCEPT ![s].step = "ran"]
  <2>1. call'[s] \in CallRecord(s)
    BY <1>1, <1>2 DEF CallsOK, CallRecord
  <2> QED BY <1>2, <2>1 DEF CallsOK
<1>3. CASE call' = [call EXCEPT ![s] = NoCall]
  BY <1>3 DEF CallsOK
<1> QED BY <1>2, <1>3 DEF Done

LEMMA GuardianInitial == GuardianInit => GuardianInv
<1> SUFFICES ASSUME GuardianInit PROVE GuardianInv
  OBVIOUS
<1>1. InitialPhases \subseteq Phases
  BY DEF InitialPhases, Phases, LifecyclePhases
<1>2. CallsOK
  BY DEF GuardianInit, CallsOK
<1>3. attests \in [Hosts -> SUBSET Attestation] /\ loaded = NotLoaded
  BY DEF GuardianInit
<1>4. disk \in [ok: BOOLEAN, version: Nat, mode: Modes, stages: BOOLEAN]
  <2>1. {TRUE} \subseteq BOOLEAN /\ {1} \subseteq Nat
    OBVIOUS
  <2>2. [ok: {TRUE}, version: {1}, mode: Modes, stages: {TRUE}]
            \subseteq [ok: BOOLEAN, version: Nat, mode: Modes, stages: BOOLEAN]
    BY <2>1
  <2> QED BY <2>2 DEF GuardianInit
<1>5. minted \in 0..MaxMints /\ clock \in 0..MaxTime /\ disturbed \in 0..MaxDisturbances
  BY GuardianAssumption DEF GuardianInit
<1>6. run \in [phase: Phases, status: {"active", "resolved", "aborted"}, finalized: BOOLEAN]
  BY <1>1 DEF GuardianInit
<1>7. DOMAIN call = Sessions /\ \A s \in Sessions : call[s] = NoCall
  BY DEF GuardianInit
<1>8. GuardianTypeOK
  BY <1>3, <1>4, <1>5, <1>6, <1>7 DEF GuardianTypeOK, NotLoaded
<1> QED BY <1>2, <1>8 DEF GuardianInv

\* The calls keep their shape.
LEMMA CallsStep ==
    ASSUME GuardianInv, [GuardianNext]_guardianVars
    PROVE  CallsOK'
<1> USE DEF GuardianInv
<1>1. ASSUME NEW s \in Hermes, NEW c \in Calls["hermes"], AskGuardian(s, c) PROVE CallsOK'
  <2>1. CASE call' = call
    BY <2>1 DEF CallsOK
  <2>2. CASE call' # call
    <3> DEFINE decision == IF Load.mode = "none" THEN Unjudged(c) ELSE Judge(Load, c)
    <3>1. /\ ~Blocks(decision)
          /\ call' = [call EXCEPT ![s] = [step |-> "admitted", c |-> c, before |-> decision,
                                          unread |-> FALSE, probe |-> NoProbe]]
      BY <1>1, <2>2 DEF AskGuardian
    <3>2. decision \in {"unjudged", "allow", "audit"}
      <4>1. Judge(Load, c) \in Words
        BY EvaluateWord DEF Judge
      <4>2. Unjudged(c) \in {"unjudged", "block"}
        BY DEF Unjudged
      <4> QED BY <3>1, <4>1, <4>2 DEF Words, Blocks
    <3> HIDE DEF decision
    <3>3. HostOf(s) = "hermes" /\ s \in Sessions
      BY DEF HostOf, Sessions
    <3>4. NoProbe \in [at : 0..MaxTime, version : Nat]
      BY GuardianAssumption DEF NoProbe
    <3>5. call'[s] \in CallRecord(s)
      BY <3>1, <3>2, <3>3, <3>4 DEF CallsOK, CallRecord
    <3> QED BY <3>1, <3>5 DEF CallsOK
  <2> QED BY <2>1, <2>2
<1>2. ASSUME NEW s \in Claude, NEW c \in Calls["claude"], NEW unread \in BOOLEAN,
             AskHook(s, c, unread)
      PROVE CallsOK'
  <2>1. HostOf(s) = "claude" /\ s \in Sessions
    BY GuardianAssumption DEF HostOf, Sessions
  <2>2. NoProbe \in [at : 0..MaxTime, version : Nat]
    BY GuardianAssumption DEF NoProbe
  <2>3. call'[s] \in CallRecord(s)
    BY <1>2, <2>1, <2>2 DEF AskHook, CallsOK, CallRecord
  <2> QED BY <1>2, <2>3 DEF AskHook, CallsOK
<1>3. ASSUME NEW s \in Sessions,
             RunTransition(s) \/ RunAbort(s) \/ RunFinalize(s) \/ Write(s) \/ ShellMint(s)
                \/ RunOther(s)
      PROVE CallsOK'
  <2>1. Done(s) /\ call[s].step # "none"
    BY <1>3 DEF RunTransition, RunAbort, RunFinalize, Write, ShellMint, RunOther, Admitted
  <2> QED BY <2>1, NotInFlight, DoneCalls
<1>4. ASSUME NEW s \in Sessions, ShellStart(s) PROVE CallsOK'
  <2>1. call[s].step # "none"
    BY <1>4 DEF ShellStart, Admitted
  <2>2. CASE call' = [call EXCEPT ![s].step = "contained",
                       ![s].probe = [at |-> clock, version |-> disk.version]]
    <3>1. call[s] \in CallRecord(s)
      BY <2>1, NotInFlight DEF CallsOK
    <3>2. [at |-> clock, version |-> disk.version] \in [at : 0..MaxTime, version : Nat]
      BY DEF GuardianTypeOK
    <3>3. call'[s] \in CallRecord(s)
      BY <2>2, <3>1, <3>2 DEF CallsOK, CallRecord
    <3> QED BY <2>2, <3>3 DEF CallsOK
  <2>3. CASE Done(s)
    BY <2>1, <2>3, NotInFlight, DoneCalls
  <2> QED BY <1>4, <2>2, <2>3 DEF ShellStart
<1>5. ASSUME NEW s \in Sessions, PostCall(s) PROVE CallsOK'
  BY <1>5 DEF PostCall, CallsOK
<1>6. ASSUME NEW h \in Hosts, Restart(h) PROVE CallsOK'
  BY <1>6 DEF Restart, CallsOK
<1>7. CASE EditPolicy \/ Tick \/ UNCHANGED guardianVars
  BY <1>7 DEF EditPolicy, Tick, guardianVars, CallsOK
<1> QED BY <1>1, <1>2, <1>3, <1>4, <1>5, <1>6, <1>7 DEF GuardianNext

LEMMA PrunedShrinks == \A h, asked : Pruned(h, asked) \subseteq attests[h]
BY DEF Pruned

LEMMA GuardianStep ==
    ASSUME GuardianInv, [GuardianNext]_guardianVars
    PROVE  GuardianInv'
<1> USE DEF GuardianInv
<1>1. CallsOK'
  BY CallsStep
<1>2. (\A s \in Sessions : call[s] # NoCall =>
          call[s].c \in Calls[HostOf(s)] /\ call[s].step \in {"admitted", "contained", "ran"})'
  BY <1>1 DEF CallsOK, CallRecord
<1>3. ASSUME NEW s \in Hermes, NEW c \in Calls["hermes"], AskGuardian(s, c) PROVE GuardianTypeOK'
  <2>1. loaded' = Load /\ UNCHANGED <<disk, minted, clock, run, disturbed>>
    BY <1>3 DEF AskGuardian
  <2>2. attests' \in [Hosts -> SUBSET Attestation]
    BY <1>3, PrunedShrinks DEF AskGuardian, GuardianTypeOK
  <2> QED BY <1>1, <1>2, <2>1, <2>2, LoadTyped DEF GuardianTypeOK, CallsOK
<1>4. ASSUME NEW s \in Claude, NEW c \in Calls["claude"], NEW unread \in BOOLEAN,
             AskHook(s, c, unread)
      PROVE GuardianTypeOK'
  BY <1>1, <1>2, <1>4 DEF AskHook, GuardianTypeOK, CallsOK
<1>5. ASSUME NEW s \in Sessions, RunTransition(s) \/ RunAbort(s) \/ RunFinalize(s)
      PROVE GuardianTypeOK'
  <2>1. UNCHANGED <<disk, loaded, attests, minted, clock, disturbed>>
    BY <1>5 DEF RunTransition, RunAbort, RunFinalize
  <2>2. run' \in [phase: Phases, status: {"active", "resolved", "aborted"}, finalized: BOOLEAN]
    <3>1. \A ph \in LifecyclePhases : ValidTransitions[ph] \subseteq Phases
      BY DEF ValidTransitions, LifecycleGraph, LifecyclePhases, CanonicalTarget, TerminalSink, Phases
    <3> QED BY <1>5, <3>1 DEF RunTransition, RunAbort, RunFinalize, GuardianTypeOK
  <2> QED BY <1>1, <1>2, <2>1, <2>2 DEF GuardianTypeOK, CallsOK
<1>6. ASSUME NEW s \in Sessions, Write(s) \/ RunOther(s) PROVE GuardianTypeOK'
  BY <1>1, <1>2, <1>6 DEF Write, RunOther, GuardianTypeOK, CallsOK
<1>7. ASSUME NEW s \in Sessions, ShellStart(s) PROVE GuardianTypeOK'
  <2>1. attests' \in [Hosts -> SUBSET Attestation]
    BY <1>7, PrunedShrinks, HostKnown DEF ShellStart, GuardianTypeOK
  <2> QED BY <1>1, <1>2, <1>7, <2>1 DEF ShellStart, GuardianTypeOK, CallsOK
<1>8. ASSUME NEW s \in Sessions, ShellMint(s) PROVE GuardianTypeOK'
  <2> DEFINE new == [id |-> minted + 1, expires |-> clock + TTL,
                     version |-> call[s].probe.version, validated |-> call[s].probe.at]
  <2>1. call[s] \in CallRecord(s)
    BY <1>8, NotInFlight DEF ShellMint, CallsOK
  <2>2. new \in Attestation
    BY <1>8, <2>1, GuardianAssumption DEF ShellMint, CallRecord, Attestation, GuardianTypeOK
  <2> HIDE DEF new
  <2>3. attests' = [attests EXCEPT ![HostOf(s)] = @ \cup {new}]
    BY <1>8 DEF ShellMint, new
  <2>4. attests' \in [Hosts -> SUBSET Attestation]
    BY <2>2, <2>3, HostKnown DEF GuardianTypeOK
  <2>5. minted' \in 0..MaxMints /\ UNCHANGED <<disk, loaded, clock, run, disturbed>>
    BY <1>8, GuardianAssumption DEF ShellMint, GuardianTypeOK
  <2> QED BY <1>1, <1>2, <2>4, <2>5 DEF GuardianTypeOK, CallsOK
<1>9. ASSUME NEW s \in Sessions, PostCall(s) PROVE GuardianTypeOK'
  <2>1. attests' \in [Hosts -> SUBSET Attestation]
    BY <1>9, PrunedShrinks DEF PostCall, GuardianTypeOK
  <2> QED BY <1>1, <1>2, <1>9, <2>1, LoadTyped DEF PostCall, GuardianTypeOK, CallsOK
<1>10. CASE EditPolicy
  <2>1. disk' \in [ok: BOOLEAN, version: Nat, mode: Modes, stages: BOOLEAN]
    <3>1. CASE \E mode \in Modes \ {disk.mode} : disk' = [disk EXCEPT !.mode = mode]
      BY <3>1 DEF GuardianTypeOK
    <3>2. CASE disk' = [disk EXCEPT !.version = @ + 1]
      BY <3>2 DEF GuardianTypeOK
    <3>3. CASE disk' = [disk EXCEPT !.ok = ~disk.ok]
      BY <3>3 DEF GuardianTypeOK
    <3> QED BY <1>10, <3>1, <3>2, <3>3 DEF EditPolicy
  <2>2. disturbed' \in 0..MaxDisturbances
    BY <1>10, GuardianAssumption DEF EditPolicy, Disturb, GuardianTypeOK
  <2>3. UNCHANGED <<loaded, attests, minted, clock, run, call>>
    BY <1>10 DEF EditPolicy
  <2>4. GuardianTypeOK'
    BY <1>1, <1>2, <2>1, <2>2, <2>3 DEF GuardianTypeOK, CallsOK
  <2> QED BY <1>1, <2>4
<1>11. ASSUME NEW h \in Hosts, Restart(h) PROVE GuardianTypeOK'
  <2>1. attests' \in [Hosts -> SUBSET Attestation] /\ disturbed' \in 0..MaxDisturbances
    BY <1>11, GuardianAssumption DEF Restart, Disturb, GuardianTypeOK
  <2> QED BY <1>1, <1>2, <1>11, <2>1 DEF Restart, GuardianTypeOK, CallsOK, NotLoaded
<1>12. CASE Tick
  BY <1>1, <1>2, <1>12, GuardianAssumption DEF Tick, GuardianTypeOK, CallsOK
<1>13. CASE UNCHANGED guardianVars
  BY <1>1, <1>2, <1>13 DEF guardianVars, GuardianTypeOK, CallsOK
<1> QED BY <1>1, <1>3, <1>4, <1>5, <1>6, <1>7, <1>8, <1>9, <1>10, <1>11, <1>12, <1>13
        DEF GuardianNext

\* Whatever is asked, edited and restarted, the state stays what it may be.
THEOREM GuardianTypeCorrect == GuardianSpec => []GuardianTypeOK
<1>1. GuardianInv => GuardianTypeOK
  BY DEF GuardianInv
<1> QED BY <1>1, GuardianInitial, GuardianStep, PTL DEF GuardianSpec

-----------------------------------------------------------------------------
\* The run's status and phase go together, and what was loaded was readable.
RunInv ==
    /\ run.status = "active" => run.phase \in LifecyclePhases
    /\ run.status = "resolved" => run.phase = "resolved"
    /\ loaded.mode # "none" => loaded.stages \in {"code", "none"}

LEMMA LoadRead ==
    ASSUME RunInv
    PROVE  Load.mode # "none" => Load.stages \in {"code", "none"}
BY DEF RunInv, Load, ReadStages

LEMMA RunInitial == GuardianInit => RunInv
BY DEF GuardianInit, RunInv, InitialPhases, LifecyclePhases, NotLoaded

LEMMA RunStep ==
    ASSUME GuardianTypeOK, RunInv, [GuardianNext]_guardianVars
    PROVE  RunInv'
<1>1. CASE run' = run /\ loaded' \in {loaded, Load, NotLoaded}
  BY <1>1, LoadRead DEF RunInv, NotLoaded
<1>2. ASSUME NEW s \in Sessions, RunTransition(s) PROVE RunInv'
  <2>1. ASSUME run.status = "active", run.phase \in LifecyclePhases,
               NEW to \in ValidTransitions[run.phase],
               run' = [run EXCEPT !.phase = to,
                                  !.status = IF to = "resolved" THEN "resolved" ELSE "active"]
        PROVE  RunInv'
    <3>1. to \in LifecyclePhases \cup {"resolved"}
      BY <2>1 DEF ValidTransitions, LifecycleGraph, LifecyclePhases, CanonicalTarget, TerminalSink
    <3>2. run'.phase = to /\ run'.status = IF to = "resolved" THEN "resolved" ELSE "active"
      BY <2>1 DEF GuardianTypeOK
    <3> QED BY <1>2, <3>1, <3>2 DEF RunTransition, RunInv
  <2> QED BY <1>1, <1>2, <2>1 DEF RunTransition
<1>3. ASSUME NEW s \in Sessions, RunAbort(s) \/ RunFinalize(s) PROVE RunInv'
  <2>1. loaded' = loaded /\ run'.phase = run.phase /\ run'.status \in {run.status, "aborted"}
    BY <1>3 DEF RunAbort, RunFinalize, GuardianTypeOK
  <2> QED BY <2>1 DEF RunInv
<1>4. ASSUME NEW s \in Sessions,
             Write(s) \/ ShellStart(s) \/ ShellMint(s) \/ RunOther(s) \/ PostCall(s)
      PROVE RunInv'
  BY <1>1, <1>4 DEF Write, ShellStart, ShellMint, RunOther, PostCall
<1>5. ASSUME NEW s \in Hermes, NEW c \in Calls["hermes"], AskGuardian(s, c) PROVE RunInv'
  BY <1>1, <1>5 DEF AskGuardian
<1>6. ASSUME NEW s \in Claude, NEW c \in Calls["claude"], NEW unread \in BOOLEAN,
             AskHook(s, c, unread)
      PROVE RunInv'
  BY <1>1, <1>6 DEF AskHook
<1>7. CASE EditPolicy \/ (\E h \in Hosts : Restart(h)) \/ Tick \/ UNCHANGED guardianVars
  BY <1>1, <1>7 DEF EditPolicy, Restart, Tick, guardianVars
<1> QED BY <1>2, <1>3, <1>4, <1>5, <1>6, <1>7 DEF GuardianNext

\* A call that moves the run, stamped with the stage of its phase, is entered by
\* the state category: no stage refuses it.
LEMMA MoverAdmitted ==
    ASSUME NEW policy, NEW stages, NEW v, NEW c, c.tool \in StateTools, Complete(c),
           c.stage \in LifecyclePhases, c.tool \in StageAllowed(c.stage)
    PROVE  Evaluate(policy, stages, c, v) = "audit"
<1>1. Classify(c.tool) = "state.uacp" /\ c.tool \in AllowedTools("state.uacp")
  BY StateToolClass DEF AllowedTools
<1>2. c.tool \notin StageForbidden(c.stage)
  BY DEF StageForbidden, StateTools, RawShells
<1>3. ~StageRefuses(stages, c)
  BY <1>2 DEF StageRefuses
<1>4. WritesDirectly(c, "state", "state.uacp") /\ Entry(c, "state.uacp") = "audit"
  BY <1>1 DEF WritesDirectly, Entry
<1> QED BY <1>3, <1>4 DEF Evaluate

\* Wherever the run stands, in every configuration that was or could be loaded,
\* the call that moves it on is admitted: the edges of the lifecycle, the tables of
\* the stages and the categories fit together.
THEOREM AlwaysAWayOn == GuardianSpec => []WayOn
<1>1. ASSUME GuardianInv, RunInv PROVE WayOn
  <2> SUFFICES ASSUME NEW tool \in {"uacp_run_transition", "uacp_run_finalize", "uacp_run_abort"},
                      CASE tool = "uacp_run_transition" -> run.status = "active"
                        [] tool = "uacp_run_finalize"   -> run.status = "resolved"
                        [] tool = "uacp_run_abort"      -> run.status = "active"
               PROVE  ~Blocks(Judge(Load, [tool |-> tool, stage |-> StageOf(run.phase),
                            run |-> TRUE, rest |-> TRUE, touches |-> "state",
                            lands |-> "state", home |-> TRUE,
                            att |-> 0, named |-> TRUE]))
    BY DEF WayOn
  <2> DEFINE c == [tool |-> tool, stage |-> StageOf(run.phase), run |-> TRUE, rest |-> TRUE,
                   touches |-> "state", lands |-> "state", home |-> TRUE, att |-> 0, named |-> TRUE]
  <2>1. c.tool \in StateTools /\ Complete(c)
    BY <1>1 DEF StateTools, Complete, StageOf, GuardianInv, GuardianTypeOK, Phases, LifecyclePhases
  <2>2. c.stage \in LifecyclePhases /\ c.tool \in StageAllowed(c.stage)
    <3>1. CASE tool = "uacp_run_finalize"
      <4>1. c.stage = "resolve"
        BY <1>1, <3>1 DEF RunInv, StageOf
      <4> QED BY <3>1, <4>1 DEF StageAllowed, LifecyclePhases
    <3>2. CASE tool # "uacp_run_finalize"
      <4>1. run.phase \in LifecyclePhases /\ run.phase \notin {"resolve", "resolved"}
        BY <1>1, <3>2 DEF RunInv, GuardianInv, GuardianTypeOK, Phases, LifecyclePhases
      <4>2. c.stage = run.phase
        BY <4>1 DEF StageOf
      <4> QED BY <3>2, <4>1, <4>2 DEF StageAllowed, EveryStage
    <3> QED BY <3>1, <3>2
  <2> HIDE DEF c
  <2>3. Judge(Load, c) = "audit"
    BY <2>1, <2>2, MoverAdmitted DEF Judge
  <2> QED BY <2>3 DEF Blocks, c
<1>2. GuardianInit => GuardianInv /\ RunInv
  BY GuardianInitial, RunInitial
<1>3. GuardianInv /\ RunInv /\ [GuardianNext]_guardianVars => (GuardianInv /\ RunInv)'
  BY GuardianStep, RunStep DEF GuardianInv
<1>4. GuardianInv /\ RunInv => WayOn
  BY <1>1
<1> QED BY <1>2, <1>3, <1>4, PTL DEF GuardianSpec

-----------------------------------------------------------------------------
\* Every call in flight on Hermes passed for a reason that can be told again:
\* with no policy as a read, else judged by what the process has loaded.
JudgedBy(c, before, v) ==
    /\ before = Evaluate([mode |-> loaded.mode], loaded.stages, c, v)
    /\ v => c.tool \in SelfAttesting \/ c.att # 0
JudgedInv ==
    \A s \in Hermes : call[s] # NoCall =>
        \/ call[s].before = "unjudged" /\ call[s].c.tool \in ReadTools
        \/ loaded.mode # "none" /\ \E v \in BOOLEAN : JudgedBy(call[s].c, call[s].before, v)

\* A call that goes on keeps its text and its decision.
Continues(s) ==
    \/ call'[s] = call[s]
    \/ call'[s] = NoCall
    \/ /\ call[s] # NoCall /\ call'[s].c = call[s].c
       /\ call'[s].before = call[s].before /\ call'[s].unread = call[s].unread

LEMMA DoneContinues ==
    ASSUME CallsOK, NEW s \in Sessions, call[s] # NoCall, Done(s), NEW t \in Sessions
    PROVE  Continues(t)
<1>1. call[s] \in CallRecord(s)
  BY DEF CallsOK
<1>2. CASE call' = [call EXCEPT ![s].step = "ran"]
  BY <1>1, <1>2 DEF CallsOK, CallRecord, Continues
<1>3. CASE call' = [call EXCEPT ![s] = NoCall]
  BY <1>3 DEF CallsOK, Continues
<1> QED BY <1>2, <1>3 DEF Done

\* Only a question to the guardian or to the hook starts a call.
LEMMA OthersContinue ==
    ASSUME CallsOK, NEW s \in Sessions, NEW t \in Sessions,
           RunTransition(s) \/ RunAbort(s) \/ RunFinalize(s) \/ Write(s)
              \/ ShellStart(s) \/ ShellMint(s) \/ RunOther(s) \/ PostCall(s)
    PROVE  Continues(t)
<1>1. CASE Done(s) /\ call[s].step # "none"
  BY <1>1, DoneContinues, NotInFlight
<1>2. CASE PostCall(s)
  BY <1>2 DEF PostCall, CallsOK, Continues
<1>3. CASE ShellStart(s)
  <2>1. call[s] \in CallRecord(s) /\ call[s] # NoCall
    BY <1>3, NotInFlight DEF ShellStart, Admitted, CallsOK
  <2>2. CASE call' = [call EXCEPT ![s].step = "contained",
                       ![s].probe = [at |-> clock, version |-> disk.version]]
    BY <2>1, <2>2 DEF CallsOK, CallRecord, Continues
  <2> QED BY <1>1, <1>3, <2>1, <2>2 DEF ShellStart, Admitted
<1> QED BY <1>1, <1>2, <1>3 DEF RunTransition, RunAbort, RunFinalize, Write, ShellMint, RunOther,
                                Admitted

LEMMA JudgedInitial == GuardianInit => JudgedInv
BY DEF GuardianInit, JudgedInv, Sessions

LEMMA JudgedStep ==
    ASSUME GuardianInv, JudgedInv, [GuardianNext]_guardianVars
    PROVE  JudgedInv'
<1> USE DEF GuardianInv
\* What was loaded stays, for the calls that were judged by it.
<1>1. ASSUME loaded' \in {loaded, Load}, NEW s \in Hermes, Continues(s), call'[s] # NoCall
      PROVE  \/ call'[s].before = "unjudged" /\ call'[s].c.tool \in ReadTools
             \/ loaded'.mode # "none" /\ \E v \in BOOLEAN : JudgedBy(call[s].c, call[s].before, v)'
  <2>1. call[s] # NoCall /\ call'[s].c = call[s].c /\ call'[s].before = call[s].before
    BY <1>1 DEF Continues
  <2>2. CASE call[s].before = "unjudged" /\ call[s].c.tool \in ReadTools
    BY <2>1, <2>2
  <2>3. CASE loaded.mode # "none" /\ \E v \in BOOLEAN : JudgedBy(call[s].c, call[s].before, v)
    <3>1. loaded' = loaded
      BY <1>1, <2>3 DEF Load
    <3> QED BY <2>1, <2>3, <3>1 DEF JudgedBy
  <2> QED BY <2>1, <2>2, <2>3 DEF JudgedInv
<1>2. ASSUME NEW s \in Hermes, NEW c \in Calls["hermes"], AskGuardian(s, c) PROVE JudgedInv'
  <2>1. loaded' = Load /\ call[s] = NoCall
    BY <1>2 DEF AskGuardian
  <2>2. CASE call' = call
    BY <1>1, <2>1, <2>2 DEF JudgedInv, Continues
  <2>3. CASE call' # call
    <3> DEFINE decision == IF Load.mode = "none" THEN Unjudged(c) ELSE Judge(Load, c)
    <3>1. /\ ~Blocks(decision)
          /\ call' = [call EXCEPT ![s] = [step |-> "admitted", c |-> c, before |-> decision,
                                          unread |-> FALSE, probe |-> NoProbe]]
      BY <1>2, <2>3 DEF AskGuardian
    <3>2. s \in Sessions /\ DOMAIN call = Sessions
      BY DEF Sessions, CallsOK
    <3>3. call'[s].c = c /\ call'[s].before = decision /\ \A t \in Sessions \ {s} : call'[t] = call[t]
      BY <3>1, <3>2
    <3>4. CASE Load.mode = "none"
      <4>1. decision = "unjudged" /\ c.tool \in ReadTools
        BY <3>1, <3>4 DEF Unjudged, Blocks
      <4>2. ASSUME NEW t \in Hermes, t # s, call'[t] # NoCall
            PROVE  \/ call'[t].before = "unjudged" /\ call'[t].c.tool \in ReadTools
                   \/ loaded'.mode # "none" /\ \E v \in BOOLEAN : JudgedBy(call[t].c, call[t].before, v)'
        BY <1>1, <2>1, <3>3, <4>2 DEF Continues, Sessions
      <4> QED BY <3>3, <4>1, <4>2 DEF JudgedInv
    <3>5. CASE Load.mode # "none"
      <4>1. Verified(c) \in BOOLEAN /\ (Verified(c) => c.tool \in SelfAttesting \/ c.att # 0)
        BY DEF Verified, AsksCache
      <4>2. decision = Evaluate([mode |-> Load.mode], Load.stages, c, Verified(c))
        BY <3>5 DEF Judge
      <4>3. \E v \in BOOLEAN : /\ decision = Evaluate([mode |-> Load.mode], Load.stages, c, v)
                                /\ (v => c.tool \in SelfAttesting \/ c.att # 0)
        BY <4>1, <4>2
      <4>4. ASSUME NEW t \in Hermes, t # s, call'[t] # NoCall
            PROVE  \/ call'[t].before = "unjudged" /\ call'[t].c.tool \in ReadTools
                   \/ loaded'.mode # "none" /\ \E v \in BOOLEAN : JudgedBy(call[t].c, call[t].before, v)'
        BY <1>1, <2>1, <3>3, <4>4 DEF Continues, Sessions
      <4> HIDE DEF decision
      <4>5. loaded'.mode # "none" /\ \E v \in BOOLEAN : JudgedBy(call[s].c, call[s].before, v)'
        BY <2>1, <3>3, <3>5, <4>3 DEF JudgedBy
      <4> QED BY <4>4, <4>5 DEF JudgedInv
    <3> QED BY <3>4, <3>5
  <2> QED BY <2>2, <2>3
<1>3. ASSUME NEW s \in Claude, NEW c \in Calls["claude"], NEW unread \in BOOLEAN,
             AskHook(s, c, unread)
      PROVE JudgedInv'
  <2>1. loaded' = loaded /\ \A t \in Hermes : call'[t] = call[t]
    BY <1>3, GuardianAssumption DEF AskHook, CallsOK, Sessions
  <2> QED BY <1>1, <2>1 DEF JudgedInv, Continues
<1>4. ASSUME NEW s \in Sessions,
             RunTransition(s) \/ RunAbort(s) \/ RunFinalize(s) \/ Write(s)
                \/ ShellStart(s) \/ ShellMint(s) \/ RunOther(s) \/ PostCall(s)
      PROVE JudgedInv'
  <2>1. loaded' \in {loaded, Load}
    BY <1>4 DEF RunTransition, RunAbort, RunFinalize, Write, ShellStart, ShellMint, RunOther, PostCall
  <2>2. \A t \in Hermes : Continues(t)
    BY <1>4, OthersContinue DEF Sessions
  <2> QED BY <1>1, <2>1, <2>2 DEF JudgedInv
<1>5. ASSUME NEW h \in Hosts, Restart(h) PROVE JudgedInv'
  <2>1. CASE h = "hermes"
    BY <1>5, <2>1 DEF Restart, JudgedInv, HostOf, Sessions
  <2>2. CASE h # "hermes"
    <3>1. loaded' = loaded /\ \A t \in Hermes : call'[t] = call[t]
      BY <1>5, <2>2 DEF Restart, HostOf, Sessions
    <3> QED BY <1>1, <3>1 DEF JudgedInv, Continues
  <2> QED BY <2>1, <2>2
<1>6. CASE EditPolicy \/ Tick \/ UNCHANGED guardianVars
  <2>1. loaded' = loaded /\ call' = call
    BY <1>6 DEF EditPolicy, Tick, guardianVars
  <2> QED BY <1>1, <2>1 DEF JudgedInv, Continues
<1> QED BY <1>2, <1>3, <1>4, <1>5, <1>6 DEF GuardianNext

\* The audit after a call judges as the decision before it did: the process keeps
\* what it loaded, and an attestation that came to hold meanwhile changes nothing
\* for a call that was let through without it.
THEOREM TheStoryHolds == GuardianSpec => []SameStoryTwice
<1>1. ASSUME GuardianInv, JudgedInv PROVE SameStoryTwice
  <2> SUFFICES ASSUME NEW s \in Hermes, call[s] # NoCall, call[s].before # "unjudged"
               PROVE  \/ Judge(Load, call[s].c) = call[s].before
                      \/ call[s].c.att # 0 /\ ~Verified(call[s].c)
    BY DEF SameStoryTwice
  <2>1. PICK v \in BOOLEAN : loaded.mode # "none" /\ JudgedBy(call[s].c, call[s].before, v)
    BY <1>1 DEF JudgedInv
  <2>2. Load = loaded
    BY <2>1 DEF Load
  <2>3. call[s].before \in {"allow", "audit"}
    BY <1>1 DEF GuardianInv, CallsOK, CallRecord, Sessions
  <2>4. Verified(call[s].c) \in BOOLEAN
    BY DEF Verified
  <2>5. CASE Verified(call[s].c) = v
    BY <2>1, <2>2, <2>5 DEF Judge, JudgedBy
  <2>6. CASE v = FALSE /\ Verified(call[s].c) = TRUE
    <3>1. ~Blocks(Evaluate([mode |-> loaded.mode], loaded.stages, call[s].c, FALSE))
      BY <2>1, <2>3, <2>6 DEF JudgedBy, Blocks
    <3>2. Evaluate([mode |-> loaded.mode], loaded.stages, call[s].c, TRUE) = call[s].before
      BY <2>1, <2>6, <3>1, VerifiedCannotHurt DEF JudgedBy
    <3> QED BY <2>2, <2>6, <3>2 DEF Judge
  <2>7. CASE v = TRUE /\ Verified(call[s].c) = FALSE
    BY <2>1, <2>7 DEF JudgedBy, Verified
  <2> QED BY <2>4, <2>5, <2>6, <2>7
<1>2. GuardianInit => GuardianInv /\ JudgedInv
  BY GuardianInitial, JudgedInitial
<1>3. GuardianInv /\ JudgedInv /\ [GuardianNext]_guardianVars => (GuardianInv /\ JudgedInv)'
  BY GuardianStep, JudgedStep
<1>4. GuardianInv /\ JudgedInv => SameStoryTwice
  BY <1>1
<1> QED BY <1>2, <1>3, <1>4, PTL DEF GuardianSpec

-----------------------------------------------------------------------------
\* What the hook denies is under way on Claude only if it could not read it.
HookInv == \A s \in Claude : call[s] # NoCall /\ HookDenies(call[s].c) => call[s].unread

LEMMA HookStep ==
    ASSUME GuardianInv, HookInv, [GuardianNext]_guardianVars
    PROVE  HookInv'
<1> USE DEF GuardianInv
<1>1. ASSUME NEW s \in Hermes, NEW c \in Calls["hermes"], AskGuardian(s, c) PROVE HookInv'
  <2>1. \A t \in Claude : call'[t] = call[t]
    BY <1>1, GuardianAssumption DEF AskGuardian
  <2> QED BY <2>1 DEF HookInv
<1>2. ASSUME NEW s \in Claude, NEW c \in Calls["claude"], NEW unread \in BOOLEAN,
             AskHook(s, c, unread)
      PROVE HookInv'
  <2>1. \A t \in Claude \ {s} : call'[t] = call[t]
    BY <1>2 DEF AskHook
  <2>2. call'[s].c = c /\ call'[s].unread = unread /\ (HookDenies(c) => unread)
    BY <1>2 DEF AskHook, CallsOK, Sessions
  <2> QED BY <2>1, <2>2 DEF HookInv
<1>3. ASSUME NEW s \in Sessions,
             RunTransition(s) \/ RunAbort(s) \/ RunFinalize(s) \/ Write(s)
                \/ ShellStart(s) \/ ShellMint(s) \/ RunOther(s) \/ PostCall(s)
      PROVE HookInv'
  BY <1>3, OthersContinue DEF HookInv, Sessions, Continues
<1>4. ASSUME NEW h \in Hosts, Restart(h) PROVE HookInv'
  BY <1>4 DEF Restart, HookInv, Sessions
<1>5. CASE EditPolicy \/ Tick \/ UNCHANGED guardianVars
  BY <1>5 DEF EditPolicy, Tick, guardianVars, HookInv
<1> QED BY <1>1, <1>2, <1>3, <1>4, <1>5 DEF GuardianNext

\* What writes at its caller's choice gets past the guardian if it finds neither state
\* nor artifact in the call, and then only in one of three ways.
LEMMA LooseWriterSlips ==
    ASSUME NEW policy, NEW stages \in {"code", "none"}, NEW v \in BOOLEAN, NEW c,
           c.tool \in LooseTools, ~Blocks(Evaluate(policy, stages, c, v))
    PROVE  /\ c.touches \notin {"state", "artifact"}
           /\ \/ ~IsBound(c)
              \/ stages = "none"
              \/ policy.mode = "observe" /\ c.tool \in RawShells /\ c.stage = "execute" /\ v
<1> DEFINE category == Classify(c.tool)
<1>1. /\ category \in {"file.write", "runtime.extension", "external.unknown_mutator",
                        "exec.shell", "exec.code_with_tool_proxy"}
      /\ c.tool \in RawShells => category \in {"exec.shell", "exec.code_with_tool_proxy"}
  BY WriterClass DEF LooseTools, RawShells
<1>2. category \notin ReadOnly /\ IsProtected(category)
  BY <1>1 DEF ReadOnly, IsProtected
<1>3. /\ c.tool \notin AllowedTools("state.uacp") /\ c.tool \notin AllowedTools("artifact.uacp")
      /\ AllowedTools(category) = {}
  BY <1>1 DEF AllowedTools, StateTools, ArtifactTools, LooseTools, RawShells
<1> HIDE DEF category
<1>4. c.touches # "state"
  BY <1>2, <1>3 DEF Evaluate, WritesDirectly, Entry, Blocks, category
<1>5. c.touches # "artifact"
  BY <1>2, <1>3 DEF Evaluate, WritesDirectly, Entry, Blocks, category
<1>6. ~StageRefuses(stages, c)
  BY DEF Evaluate, Blocks
<1>7. ~WritesDirectly(c, "state", "state.uacp") /\ ~WritesDirectly(c, "artifact", "artifact.uacp")
  BY <1>1, <1>4, <1>5 DEF WritesDirectly, category
<1>8. ~Blocks(Fallback(policy.mode, c, v))
  BY <1>3, <1>6, <1>7 DEF Evaluate, category
<1>9. ASSUME stages = "code", IsBound(c)
      PROVE  policy.mode = "observe" /\ c.tool \in RawShells /\ c.stage = "execute" /\ v
  <2>1. Complete(c)
    BY <1>2, <1>8, <1>9 DEF Fallback, Blocks, category
  <2>2. /\ c.stage \in LifecyclePhases /\ c.tool \notin StageForbidden(c.stage)
        /\ c.tool \in StageAllowed(c.stage)
    BY <1>2, <1>6, <1>9, <2>1 DEF StageRefuses, Complete, category
  <2>3. c.tool \in RawShells /\ c.stage = "execute"
    BY <2>2 DEF LooseTools, StageAllowed, EveryStage, Records, Contained, RawShells
  <2>4. category \in NeedsContainment /\ Default(category) = "pending"
    BY <1>1, <2>3 DEF NeedsContainment, Default, Entered
  <2>5. v /\ policy.mode = "observe"
    BY <1>8, <1>9, <2>4 DEF Fallback, Blocks, category
  <2> QED BY <2>3, <2>5
<1> QED BY <1>4, <1>5, <1>9

\* A file of .uacp is written by the tool of its kind: on Hermes, for every table and
\* mode, unless the guardian did not see where the call lands and one of three doors was
\* open; on Claude as far as its hook could read the payload.
THEOREM OneWriterEach == GuardianSpec => []OneWriter
<1>1. ASSUME GuardianInv, RunInv, JudgedInv, HookInv PROVE OneWriter
  <2> SUFFICES ASSUME NEW s \in Sessions, Admitted(s, Writers), call[s].c.lands \in FileKinds,
                      Lands(call[s].c),
                      call[s].c.tool \notin AllowedTools(CategoryOf[call[s].c.lands])
               PROVE  \/ /\ s \in Hermes /\ call[s].c.touches \notin {"state", "artifact"}
                         /\ \/ ~IsBound(call[s].c)
                            \/ loaded.stages = "none"
                            \/ /\ loaded.mode = "observe" /\ call[s].c.tool \in RawShells
                               /\ call[s].c.stage = "execute" /\ call[s].c.att # 0
                      \/ /\ s \in Claude
                         /\ \/ call[s].c.tool # "write_file" \/ call[s].unread
                            \/ call[s].c.touches \notin {"state", "artifact", "config"}
    BY DEF OneWriter
  <2> DEFINE c == call[s].c
  <2>1. c.tool \in Writers /\ call[s] # NoCall
    BY NotInFlight DEF Admitted
  <2>2. c.tool \in LooseTools
    BY <2>1 DEF Writers, Lands, Serves, AllowedTools, CategoryOf, ArtifactTools, StateTools
  <2>3. CASE s \in Hermes
    <3>1. c.tool \notin ReadTools
      BY <2>2 DEF ReadTools, LooseTools, RawShells
    <3>2. PICK v \in BOOLEAN : loaded.mode # "none" /\ JudgedBy(c, call[s].before, v)
      BY <1>1, <2>1, <2>3, <3>1 DEF JudgedInv
    <3>3. call[s].before \in {"unjudged", "allow", "audit"}
      BY <1>1, <2>1 DEF GuardianInv, CallsOK, CallRecord
    <3>4. ~Blocks(Evaluate([mode |-> loaded.mode], loaded.stages, c, v))
      BY <3>2, <3>3 DEF JudgedBy, Blocks
    <3>5. loaded.stages \in {"code", "none"}
      BY <1>1, <3>2 DEF RunInv
    <3>6. v => c.att # 0
      BY <2>2, <3>2, WriterClass DEF JudgedBy
    <3> HIDE DEF c
    <3>7. /\ c.touches \notin {"state", "artifact"}
          /\ \/ ~IsBound(c)
             \/ loaded.stages = "none"
             \/ loaded.mode = "observe" /\ c.tool \in RawShells /\ c.stage = "execute" /\ v
      BY <2>2, <3>4, <3>5, LooseWriterSlips
    <3> QED BY <2>3, <3>6, <3>7 DEF c
  <2>4. CASE s \in Claude
    BY <1>1, <2>1, <2>4 DEF HookInv, HookDenies
  <2> QED BY <2>3, <2>4 DEF Sessions
<1>2. GuardianInit => GuardianInv /\ RunInv /\ JudgedInv /\ HookInv
  BY GuardianInitial, RunInitial, JudgedInitial DEF GuardianInit, HookInv, Sessions
<1>3. GuardianInv /\ RunInv /\ JudgedInv /\ HookInv /\ [GuardianNext]_guardianVars
        => (GuardianInv /\ RunInv /\ JudgedInv /\ HookInv)'
  BY GuardianStep, RunStep, JudgedStep, HookStep DEF GuardianInv
<1>4. GuardianInv /\ RunInv /\ JudgedInv /\ HookInv => OneWriter
  BY <1>1
<1> QED BY <1>2, <1>3, <1>4, PTL DEF GuardianSpec

-----------------------------------------------------------------------------
\* The attestations of a process, and the shells that are about to leave one.
CacheOf(h) ==
    /\ \A r \in attests[h] : r.id <= minted /\ r.validated <= clock
    /\ \A r, s \in attests[h] : r.id = s.id => r = s
    /\ \A r, s \in attests[h] : r.expires > s.validated
ProbeOf(s) ==
    call[s] # NoCall /\ call[s].step = "contained" =>
        /\ call[s].probe.at <= clock
        /\ \A r \in attests[HostOf(s)] : r.expires > call[s].probe.at
CacheInv == (\A h \in Hosts : CacheOf(h)) /\ (\A s \in Sessions : ProbeOf(s))

LEMMA CacheInitial == GuardianInit => CacheInv
BY DEF GuardianInit, CacheInv, CacheOf, ProbeOf

\* Steps that at most forget attestations and let the clock go on.
LEMMA CacheShrinks ==
    ASSUME GuardianInv, CacheInv, minted' = minted, clock' \in {clock, clock + 1},
           \A h \in Hosts : attests'[h] \subseteq attests[h],
           \A s \in Sessions : call'[s] # NoCall /\ call'[s].step = "contained" =>
               call[s] # NoCall /\ call[s].step = "contained" /\ call'[s].probe = call[s].probe
    PROVE  CacheInv'
<1> USE DEF GuardianInv
<1>1. clock \in Nat /\ minted \in Nat /\ clock <= clock'
  BY GuardianAssumption DEF GuardianTypeOK
<1>2. \A h \in Hosts : \A r \in attests[h] : r.validated \in Nat /\ r.validated <= clock
  BY GuardianAssumption DEF CacheInv, CacheOf, GuardianTypeOK, Attestation
<1>3. ASSUME NEW h \in Hosts PROVE CacheOf(h)'
  <2>1. \A r \in attests'[h] : r \in attests[h] /\ r.id <= minted /\ r.validated <= clock'
    BY <1>1, <1>2 DEF CacheInv, CacheOf
  <2>2. CacheOf(h)
    BY DEF CacheInv
  <2> QED BY <2>1, <2>2 DEF CacheOf
<1>4. ASSUME NEW s \in Sessions PROVE ProbeOf(s)'
  <2> SUFFICES ASSUME call'[s] # NoCall, call'[s].step = "contained"
               PROVE  /\ call'[s].probe.at <= clock'
                      /\ \A r \in attests'[HostOf(s)] : r.expires > call'[s].probe.at
    BY DEF ProbeOf
  <2>1. /\ call[s] # NoCall /\ call[s].step = "contained" /\ call'[s].probe = call[s].probe
        /\ call[s].probe.at <= clock
        /\ \A r \in attests[HostOf(s)] : r.expires > call[s].probe.at
    BY DEF CacheInv, ProbeOf
  <2>2. call[s].probe.at \in Nat
    BY <2>1, GuardianAssumption DEF CallsOK, CallRecord
  <2> QED BY <1>1, <2>1, <2>2, HostKnown
<1> QED BY <1>3, <1>4 DEF CacheInv

LEMMA DoneContained ==
    ASSUME CallsOK, NEW s \in Sessions, call[s] # NoCall, Done(s), NEW t \in Sessions,
           call'[t] # NoCall, call'[t].step = "contained"
    PROVE  t # s /\ call'[t] = call[t]
<1>1. call[s] \in CallRecord(s)
  BY DEF CallsOK
<1>2. CASE call' = [call EXCEPT ![s].step = "ran"]
  BY <1>1, <1>2 DEF CallsOK, CallRecord
<1>3. CASE call' = [call EXCEPT ![s] = NoCall]
  BY <1>3 DEF CallsOK
<1> QED BY <1>2, <1>3 DEF Done

LEMMA CacheStep ==
    ASSUME GuardianInv, CacheInv, [GuardianNext]_guardianVars
    PROVE  CacheInv'
<1> USE DEF GuardianInv
<1>1. ASSUME NEW s \in Hermes, NEW c \in Calls["hermes"], AskGuardian(s, c) PROVE CacheInv'
  <2>1. \A h \in Hosts : attests'[h] \subseteq attests[h]
    BY <1>1, PrunedShrinks DEF AskGuardian, GuardianTypeOK
  <2>2. \A t \in Sessions : call'[t] = call[t] \/ call'[t].step = "admitted"
    BY <1>1 DEF AskGuardian, CallsOK
  <2>3. minted' = minted /\ clock' = clock
    BY <1>1 DEF AskGuardian
  <2> QED BY <2>1, <2>2, <2>3, CacheShrinks
<1>2. ASSUME NEW s \in Claude, NEW c \in Calls["claude"], NEW unread \in BOOLEAN,
             AskHook(s, c, unread)
      PROVE CacheInv'
  <2>1. \A t \in Sessions : call'[t] = call[t] \/ call'[t].step = "admitted"
    BY <1>2 DEF AskHook, CallsOK
  <2> QED BY <1>2, <2>1, CacheShrinks DEF AskHook
<1>3. ASSUME NEW s \in Sessions,
             RunTransition(s) \/ RunAbort(s) \/ RunFinalize(s) \/ Write(s) \/ RunOther(s)
      PROVE CacheInv'
  <2>1. Done(s) /\ call[s] # NoCall /\ UNCHANGED <<attests, minted, clock>>
    BY <1>3, NotInFlight DEF RunTransition, RunAbort, RunFinalize, Write, RunOther, Admitted
  <2> QED BY <2>1, DoneContained, CacheShrinks
<1>4. ASSUME NEW s \in Sessions, PostCall(s) PROVE CacheInv'
  <2>1. \A h \in Hosts : attests'[h] \subseteq attests[h]
    BY <1>4, PrunedShrinks DEF PostCall, GuardianTypeOK
  <2>2. \A t \in Sessions : call'[t] # NoCall => call'[t] = call[t]
    BY <1>4 DEF PostCall, CallsOK
  <2> QED BY <1>4, <2>1, <2>2, CacheShrinks DEF PostCall
<1>5. ASSUME NEW h \in Hosts, Restart(h) PROVE CacheInv'
  <2>1. \A g \in Hosts : attests'[g] \subseteq attests[g]
    BY <1>5 DEF Restart, GuardianTypeOK
  <2>2. \A t \in Sessions : call'[t] # NoCall => call'[t] = call[t]
    BY <1>5 DEF Restart
  <2> QED BY <1>5, <2>1, <2>2, CacheShrinks DEF Restart
<1>6. CASE EditPolicy \/ UNCHANGED guardianVars
  BY <1>6, CacheShrinks DEF EditPolicy, guardianVars
<1>7. CASE Tick
  BY <1>7, CacheShrinks DEF Tick
\* A shell that is let in has outlived what its process forgets.
<1>8. ASSUME NEW s \in Sessions, ShellStart(s) PROVE CacheInv'
  <2> DEFINE h == HostOf(s)
             c == call[s].c
  <2>0. call[s] # NoCall /\ call[s] \in CallRecord(s) /\ h \in Hosts
    BY <1>8, NotInFlight, HostKnown DEF ShellStart, Admitted, CallsOK
  <2>1. \A g \in Hosts : attests'[g] \subseteq attests[g]
    BY <1>8, PrunedShrinks DEF ShellStart, GuardianTypeOK
  <2>2. minted' = minted /\ clock' = clock
    BY <1>8 DEF ShellStart
  <2>3. CASE Done(s)
    BY <2>0, <2>1, <2>2, <2>3, DoneContained, CacheShrinks
  <2>4. ASSUME attests' = [attests EXCEPT ![h] = Pruned(h, c.att)],
               c.att # 0 => Holds(h, c.att),
               call' = [call EXCEPT ![s].step = "contained",
                         ![s].probe = [at |-> clock, version |-> disk.version]]
        PROVE  CacheInv'
    <3>1. attests'[h] = Pruned(h, c.att)
      BY <2>0, <2>4 DEF GuardianTypeOK
    <3>2. ASSUME NEW r \in attests'[h] PROVE r.expires > clock
      <4>1. r \in attests[h] /\ (r.id = c.att \/ r.expires > clock)
        BY <3>1 DEF Pruned
      <4>2. CASE r.id = c.att
        <5>1. c.att # 0
          BY <2>0, <4>1, <4>2 DEF GuardianTypeOK, Attestation
        <5>2. PICK q \in attests[h] : q.id = c.att /\ q.expires > clock
          BY <2>4, <5>1 DEF Holds
        <5>3. q = r
          BY <2>0, <4>1, <4>2, <5>2 DEF CacheInv, CacheOf
        <5> QED BY <5>2, <5>3
      <4> QED BY <4>1, <4>2
    <3>3. /\ call'[s].probe.at = clock
          /\ \A t \in Sessions \ {s} : call'[t] = call[t]
      BY <2>0, <2>4 DEF CallsOK, CallRecord
    <3>4. ASSUME NEW g \in Hosts PROVE CacheOf(g)'
      <4>1. CacheOf(g) /\ attests'[g] \subseteq attests[g]
        BY <2>1 DEF CacheInv
      <4> QED BY <2>2, <4>1 DEF CacheOf
    <3>5. ASSUME NEW t \in Sessions PROVE ProbeOf(t)'
      <4>1. CASE t = s
        <5>1. clock <= clock
          BY GuardianAssumption DEF GuardianTypeOK
        <5> QED BY <2>2, <3>2, <3>3, <4>1, <5>1 DEF ProbeOf
      <4>2. CASE t # s
        <5>1. ProbeOf(t) /\ call'[t] = call[t]
          BY <3>3, <4>2 DEF CacheInv
        <5>2. attests'[HostOf(t)] \subseteq attests[HostOf(t)]
          BY <2>1, HostKnown
        <5> QED BY <2>2, <5>1, <5>2 DEF ProbeOf
      <4> QED BY <4>1, <4>2
    <3> QED BY <3>4, <3>5 DEF CacheInv
  <2> QED BY <1>8, <2>3, <2>4 DEF ShellStart
\* What a shell leaves outlives every shell that is under way.
<1>9. ASSUME NEW s \in Sessions, ShellMint(s) PROVE CacheInv'
  <2> DEFINE h == HostOf(s)
             new == [id |-> minted + 1, expires |-> clock + TTL,
                     version |-> call[s].probe.version, validated |-> call[s].probe.at]
  <2>0. call[s] # NoCall /\ call[s] \in CallRecord(s) /\ h \in Hosts
    BY <1>9, NotInFlight, HostKnown DEF ShellMint, CallsOK
  <2>1. minted' = minted + 1 /\ clock' = clock /\ Done(s) /\ minted \in Nat /\ clock \in Nat
    BY <1>9, GuardianAssumption DEF ShellMint, GuardianTypeOK
  <2>2. new.id = minted + 1 /\ new.expires = clock + TTL /\ new.validated = call[s].probe.at
    OBVIOUS
  <2>3. /\ call[s].probe.at <= clock /\ call[s].probe.at \in Nat
        /\ \A r \in attests[h] : r.expires > call[s].probe.at
    <3>1. call[s].step = "contained"
      BY <1>9 DEF ShellMint
    <3> QED BY <2>0, <3>1, GuardianAssumption DEF CacheInv, ProbeOf, CallRecord
  <2>4. attests' = [attests EXCEPT ![h] = @ \cup {new}]
    BY <1>9 DEF ShellMint
  <2> HIDE DEF new
  <2>5. attests'[h] = attests[h] \cup {new} /\ \A g \in Hosts \ {h} : attests'[g] = attests[g]
    BY <2>0, <2>4 DEF GuardianTypeOK
  <2>6. \A g \in Hosts : \A r \in attests[g] :
          r.id \in Nat /\ r.validated \in Nat /\ r.expires \in Nat
          /\ r.id <= minted /\ r.validated <= clock
    BY GuardianAssumption DEF CacheInv, CacheOf, GuardianTypeOK, Attestation
  <2>7. clock + TTL > clock /\ clock + TTL \in Nat
    BY <2>1, GuardianAssumption
  <2>8. ASSUME NEW g \in Hosts PROVE CacheOf(g)'
    <3>1. CacheOf(g)
      BY DEF CacheInv
    <3>2. CASE g # h
      BY <2>1, <2>5, <2>6, <3>1, <3>2 DEF CacheOf
    <3>3. CASE g = h
      <4>1. \A r \in attests'[g] : r = new \/ r \in attests[g]
        BY <2>5, <3>3
      <4>2. \A r \in attests'[g] : r.id <= minted + 1 /\ r.validated <= clock
        BY <2>1, <2>2, <2>3, <2>6, <4>1
      <4>3. \A r, q \in attests'[g] : r.id = q.id => r = q
        BY <2>1, <2>2, <2>6, <3>1, <4>1 DEF CacheOf
      <4>4. \A r, q \in attests'[g] : r.expires > q.validated
        <5>1. \A q \in attests'[g] : q.validated \in Nat /\ q.validated <= clock
          BY <2>2, <2>3, <2>6, <4>1
        <5>2. \A q \in attests'[g] : new.expires > q.validated
          BY <2>1, <2>2, <2>7, <5>1
        <5>3. \A r \in attests[g] : r.expires > new.validated
          BY <2>2, <2>3, <3>3
        <5> QED BY <3>1, <4>1, <5>2, <5>3 DEF CacheOf
      <4> QED BY <2>1, <4>2, <4>3, <4>4 DEF CacheOf
    <3> QED BY <3>2, <3>3
  <2>9. ASSUME NEW t \in Sessions PROVE ProbeOf(t)'
    <3> SUFFICES ASSUME call'[t] # NoCall, call'[t].step = "contained"
                 PROVE  /\ call'[t].probe.at <= clock'
                        /\ \A r \in attests'[HostOf(t)] : r.expires > call'[t].probe.at
      BY DEF ProbeOf
    <3>1. call'[t] = call[t]
      BY <2>0, <2>1, DoneContained
    <3>2. /\ call[t].probe.at <= clock
          /\ \A r \in attests[HostOf(t)] : r.expires > call[t].probe.at
      BY <3>1 DEF CacheInv, ProbeOf
    <3>3. call[t].probe.at \in Nat
      <4>1. call[t] \in CallRecord(t)
        BY <3>1 DEF CallsOK
      <4> QED BY <4>1, GuardianAssumption DEF CallRecord
    <3>4. new.expires > call[t].probe.at
      BY <2>1, <2>2, <2>7, <3>2, <3>3
    <3>5. \A r \in attests'[HostOf(t)] : r \in attests[HostOf(t)] \/ r = new
      BY <2>5, HostKnown
    <3> QED BY <2>1, <3>1, <3>2, <3>4, <3>5
  <2> QED BY <2>8, <2>9 DEF CacheInv
<1> QED BY <1>1, <1>2, <1>3, <1>4, <1>5, <1>6, <1>7, <1>8, <1>9 DEF GuardianNext

\* However long a process lives, it remembers no attestation that was dead when a
\* shell whose attestation it also remembers was let in.
THEOREM NothingOutlivesItsUse == GuardianSpec => []CacheOneLifeDeep
<1>1. CacheInv => CacheOneLifeDeep
  BY DEF CacheInv, CacheOf, CacheOneLifeDeep
<1>2. GuardianInit => GuardianInv /\ CacheInv
  BY GuardianInitial, CacheInitial
<1>3. GuardianInv /\ CacheInv /\ [GuardianNext]_guardianVars => (GuardianInv /\ CacheInv)'
  BY GuardianStep, CacheStep
<1> QED BY <1>1, <1>2, <1>3, PTL DEF GuardianSpec

-----------------------------------------------------------------------------
\* No declared path is a pattern.
PlainScopes == \A s \in Scopes : \A p \in s : ~Has(p, Glob)

-----------------------------------------------------------------------------
\* Two plain paths that cover one file overlap: both begin the file, so the
\* shorter begins the longer.
LEMMA SharedFileOverlaps ==
    ASSUME NEW p, NEW q, NEW f, Len(p.segs) \in Nat, Len(q.segs) \in Nat, Len(f) \in Nat,
           Usable(p), Usable(q), ~Has(p, Glob), ~Has(q, Glob), Covers(p, f), Covers(q, f)
    PROVE  Overlap(p, Canon(q))
<1>1. StartsWith(f, p.segs) /\ StartsWith(f, q.segs)
  BY DEF Covers, Resolved, Usable
<1>2. Usable(Canon(q)) /\ Canon(Canon(q)).segs = q.segs /\ Canon(p).segs = p.segs
  BY DEF Usable, Canon, Has
<1>3. StartsWith(p.segs, q.segs) \/ StartsWith(q.segs, p.segs)
  <2>1. CASE Len(q.segs) <= Len(p.segs)
    <3>1. ASSUME NEW i \in 1..Len(q.segs) PROVE p.segs[i] = q.segs[i]
      BY <1>1, <2>1 DEF StartsWith
    <3> QED BY <3>1, <2>1 DEF StartsWith
  <2>2. CASE Len(p.segs) <= Len(q.segs)
    <3>1. ASSUME NEW i \in 1..Len(p.segs) PROVE q.segs[i] = p.segs[i]
      BY <1>1, <2>2 DEF StartsWith
    <3> QED BY <3>1, <2>2 DEF StartsWith
  <2> QED BY <2>1, <2>2
<1> QED BY <1>2, <1>3 DEF Overlap

-----------------------------------------------------------------------------
\* Past r: the run has read the registry and been let through.
Past(r) == pc[r] = "save" \/ phase[r] \in Executing

\* A run in or past the gate is listed with its scope, and of two runs past it
\* at least one found the other's entry without conflict.
IsolationInv ==
    /\ TypeOK
    /\ \A r \in Runs : pc[r] # "idle" => phase[r] = "plan"
    /\ \A r \in Runs : pc[r] # "idle" \/ phase[r] \in Executing => scope[r] # None /\ Registered(r)
    /\ \A r, o \in Runs : r # o /\ Past(r) /\ Past(o) =>
          ~Conflict(scope[r], registry[o]) \/ ~Conflict(scope[o], registry[r])

LEMMA IsolationInit == Init => IsolationInv
BY DEF Init, IsolationInv, TypeOK, Past, Executing, Over

\* A step that gives no run entry past the gate and changes scope and entry
\* only of a run that is neither in the gate nor past it.
LEMMA NoneEnters ==
    ASSUME IsolationInv, TypeOK', NEW r \in Runs,
           \A o \in Runs \ {r} : /\ phase'[o] = phase[o] /\ pc'[o] = pc[o]
                                 /\ scope'[o] = scope[o] /\ registry'[o] = registry[o],
           Past(r)' => Past(r) /\ scope'[r] = scope[r] /\ registry'[r] = registry[r],
           pc'[r] # "idle" => phase'[r] = "plan",
           pc'[r] # "idle" \/ phase'[r] \in Executing => scope'[r] # None /\ Registered(r)'
    PROVE  IsolationInv'
<1>1. ASSUME NEW o \in Runs, pc'[o] # "idle" \/ phase'[o] \in Executing
      PROVE  scope'[o] # None /\ Registered(o)'
  <2>1. CASE o = r
    BY <1>1, <2>1
  <2>2. CASE o # r
    BY <1>1, <2>2 DEF IsolationInv, Registered
  <2> QED BY <2>1, <2>2
<1>2. ASSUME NEW o \in Runs, Past(o)'
      PROVE  Past(o) /\ scope'[o] = scope[o] /\ registry'[o] = registry[o]
  BY <1>2 DEF Past
<1>3. ASSUME NEW o \in Runs, NEW u \in Runs, o # u, Past(o)', Past(u)'
      PROVE  ~Conflict(scope'[o], registry'[u]) \/ ~Conflict(scope'[u], registry'[o])
  BY <1>2, <1>3 DEF IsolationInv
<1>4. \A o \in Runs : pc'[o] # "idle" => phase'[o] = "plan"
  BY DEF IsolationInv
<1> HIDE DEF IsolationInv
<1> QED BY <1>1, <1>3, <1>4 DEF IsolationInv, Conflict

\* The gate is where a run gets past: it saw the entries of the others.
LEMMA GateKeepsIsolation ==
    ASSUME IsolationInv, Careless = {}, NEW r \in Runs, OverlapGate(r)
    PROVE  IsolationInv'
<1>1. TypeOK'
  BY DEF IsolationInv, TypeOK, OverlapGate
<1>2. phase' = phase /\ scope' = scope /\ registry' = registry /\ phase[r] = "plan"
      /\ \A o \in Runs \ {r} : pc'[o] = pc[o]
  BY DEF IsolationInv, OverlapGate, TypeOK
<1>3. ASSUME NEW o \in Runs, pc'[o] # "idle" \/ phase'[o] \in Executing
      PROVE  scope'[o] # None /\ Registered(o)'
  <2>1. pc[o] # "idle" \/ phase[o] \in Executing
    BY <1>2, <1>3 DEF OverlapGate
  <2> QED BY <2>1, <1>2 DEF IsolationInv, Registered
<1>4. \A o \in Runs : pc'[o] # "idle" => phase'[o] = "plan"
  BY <1>2 DEF IsolationInv
<1>5. ASSUME NEW o \in Runs \ {r}, Past(r)', Past(o)'
      PROVE  ~Conflict(scope[r], registry[o])
  <2>1. pc'[r] = "save"
    BY <1>2, <1>5 DEF Past, Executing
  <2>2. Rivals(r) = {}
    BY <2>1 DEF OverlapGate, IsolationInv, TypeOK
  <2>3. registry[o] # None
    <3>1. Past(o)
      BY <1>2, <1>5 DEF Past
    <3>2. scope[o] \in Scopes /\ registry[o] = {Canon(p) : p \in scope[o]}
      BY <3>1 DEF IsolationInv, TypeOK, Past, Registered
    <3> QED BY <3>2, WriteIsolationAssumption
  <2> QED BY <2>2, <2>3 DEF Rivals
<1>6. ASSUME NEW o \in Runs, NEW u \in Runs, o # u, Past(o)', Past(u)'
      PROVE  ~Conflict(scope[o], registry[u]) \/ ~Conflict(scope[u], registry[o])
  <2>1. CASE o = r
    BY <1>5, <1>6, <2>1
  <2>2. CASE u = r
    BY <1>5, <1>6, <2>2
  <2>3. CASE o # r /\ u # r
    <3>1. Past(o) /\ Past(u)
      BY <1>2, <1>6, <2>3 DEF Past
    <3> QED BY <3>1, <1>6 DEF IsolationInv
  <2> QED BY <2>1, <2>2, <2>3
<1> QED BY <1>1, <1>2, <1>3, <1>4, <1>6 DEF IsolationInv, Conflict

LEMMA IsolationStep ==
    ASSUME IsolationInv, Careless = {}, [Next]_vars
    PROVE  IsolationInv'
<1>1. ASSUME NEW r \in Runs, NEW s \in Scopes, AuthorScope(r, s) PROVE IsolationInv'
  <2>1. TypeOK'
    BY <1>1 DEF IsolationInv, TypeOK, AuthorScope
  <2>2. phase' = phase /\ pc' = pc /\ registry' = registry /\ pc[r] = "idle" /\ phase[r] = "plan"
        /\ \A o \in Runs \ {r} : scope'[o] = scope[o]
    BY <1>1 DEF AuthorScope, IsolationInv, TypeOK
  <2> QED BY <2>1, <2>2, NoneEnters DEF Past, Executing
<1>2. ASSUME NEW r \in Runs, Register(r) PROVE IsolationInv'
  <2>1. {Canon(p) : p \in scope[r]} \in Entries
    BY <1>2 DEF IsolationInv, TypeOK, Register, Entries
  <2>2. TypeOK'
    BY <1>2, <2>1 DEF IsolationInv, TypeOK, Register
  <2>3. phase' = phase /\ pc' = pc /\ scope' = scope /\ pc[r] = "idle" /\ phase[r] = "plan"
        /\ \A o \in Runs \ {r} : registry'[o] = registry[o]
    BY <1>2 DEF Register, IsolationInv, TypeOK
  <2> QED BY <2>2, <2>3, NoneEnters DEF Past, Executing
<1>3. ASSUME NEW r \in Runs, Deregister(r) PROVE IsolationInv'
  <2>1. TypeOK'
    BY <1>3 DEF IsolationInv, TypeOK, Deregister
  <2>2. phase' = phase /\ pc' = pc /\ scope' = scope /\ pc[r] = "idle" /\ phase[r] \in Over
        /\ \A o \in Runs \ {r} : registry'[o] = registry[o]
    BY <1>3 DEF Deregister, IsolationInv, TypeOK
  <2> QED BY <2>1, <2>2, NoneEnters DEF Past, Executing, Over
<1>4. ASSUME NEW r \in Runs, LeavePlan(r) PROVE IsolationInv'
  <2>1. TypeOK'
    BY <1>4 DEF IsolationInv, TypeOK, LeavePlan
  <2>2. phase' = phase /\ registry' = registry /\ scope' = scope /\ phase[r] = "plan"
        /\ pc'[r] = "overlap" /\ scope[r] # None /\ Registered(r)
        /\ \A o \in Runs \ {r} : pc'[o] = pc[o]
    BY <1>4 DEF LeavePlan, IsolationInv, TypeOK
  <2>3. Registered(r)'
    BY <2>2 DEF Registered
  <2> QED BY <2>1, <2>2, <2>3, NoneEnters DEF Past, Executing
<1>5. ASSUME NEW r \in Runs, EnterExecute(r) PROVE IsolationInv'
  <2>1. TypeOK'
    BY <1>5 DEF IsolationInv, TypeOK, EnterExecute, Executing
  <2>2. registry' = registry /\ scope' = scope /\ pc[r] = "save" /\ pc'[r] = "idle"
        /\ \A o \in Runs \ {r} : pc'[o] = pc[o] /\ phase'[o] = phase[o]
    BY <1>5 DEF EnterExecute, IsolationInv, TypeOK
  <2>3. Registered(r)' /\ scope[r] # None /\ Past(r)
    BY <2>2 DEF IsolationInv, Registered, Past
  <2> QED BY <2>1, <2>2, <2>3, NoneEnters
<1>6. ASSUME NEW r \in Runs, Advance(r) \/ Abort(r) PROVE IsolationInv'
  <2>1. TypeOK'
    BY <1>6 DEF IsolationInv, TypeOK, Advance, Abort, Executing, Over, Onward
  <2>2. registry' = registry /\ scope' = scope /\ pc' = pc /\ pc[r] = "idle"
        /\ (phase'[r] \in Executing => phase[r] \in Executing)
        /\ \A o \in Runs \ {r} : phase'[o] = phase[o]
    BY <1>6 DEF Advance, Abort, IsolationInv, TypeOK, Executing
  <2>3. phase[r] \in Executing => Registered(r)' /\ scope[r] # None /\ Past(r)
    BY <2>2 DEF IsolationInv, Registered, Past
  <2>4. Past(r)' => Past(r)
    BY <2>2 DEF Past
  <2> QED BY <2>1, <2>2, <2>3, <2>4, NoneEnters
<1>7. ASSUME NEW r \in Runs, Crash(r) PROVE IsolationInv'
  <2>1. TypeOK'
    BY <1>7 DEF IsolationInv, TypeOK, Crash
  <2>2. registry' = registry /\ scope' = scope /\ phase' = phase /\ pc'[r] = "idle"
        /\ phase[r] = "plan" /\ \A o \in Runs \ {r} : pc'[o] = pc[o]
    BY <1>7 DEF Crash, IsolationInv, TypeOK
  <2> QED BY <2>1, <2>2, NoneEnters DEF Past, Executing
<1>8. CASE UNCHANGED vars
  BY <1>8 DEF vars, IsolationInv, TypeOK, Past, Registered, Conflict
<1>9. CASE Next
  BY <1>9, <1>1, <1>2, <1>3, <1>4, <1>5, <1>6, <1>7, GateKeepsIsolation DEF Next
<1> QED BY <1>8, <1>9

LEMMA InvIsolates ==
    ASSUME IsolationInv, PlainScopes
    PROVE  IsolatedExecution
<1> SUFFICES ASSUME NEW r \in Runs, NEW o \in Runs, r # o,
                    phase[r] \in Executing, phase[o] \in Executing,
                    NEW p \in scope[r], NEW q \in scope[o], NEW f \in Files,
                    Covers(p, f), Covers(q, f)
             PROVE  FALSE
  BY DEF IsolatedExecution
<1>1. /\ scope[r] \in Scopes /\ scope[o] \in Scopes
      /\ Registered(r) /\ Registered(o)
  BY DEF IsolationInv, TypeOK
<1>2. Overlap(p, Canon(q)) /\ Overlap(q, Canon(p))
  BY <1>1, SharedFileOverlaps, WriteIsolationAssumption DEF PlainScopes, Registered
<1>3. Conflict(scope[r], registry[o]) /\ Conflict(scope[o], registry[r])
  BY <1>1, <1>2 DEF Conflict, Registered
<1>4. Past(r) /\ Past(o)
  BY DEF Past
<1> QED BY <1>3, <1>4 DEF IsolationInv

\* When every agent registers its scope before it leaves plan and no path is a
\* pattern, runs that execute together have disjoint write boundaries.
THEOREM CarefulRunsAreIsolated ==
    ASSUME Careless = {}, PlainScopes
    PROVE  Spec => []IsolatedExecution
<1>1. Init => IsolationInv
  BY IsolationInit
<1>2. IsolationInv /\ [Next]_vars => IsolationInv'
  BY IsolationStep
<1>3. IsolationInv => IsolatedExecution
  BY InvIsolates
<1> QED BY <1>1, <1>2, <1>3, PTL DEF Spec
=============================================================================
