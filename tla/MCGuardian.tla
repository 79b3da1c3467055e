----------------------------- MODULE MCGuardian -----------------------------
(* The calls of a small session on either host.                            *)
EXTENDS Guardian

Full(tool, stage, place) ==
    [tool |-> tool, stage |-> stage, run |-> TRUE, rest |-> TRUE, touches |-> place, lands |-> place,
     home |-> TRUE, att |-> 0, named |-> FALSE]
Bare(tool, place) ==
    [Full(tool, "", place) EXCEPT !.run = FALSE, !.rest = FALSE, !.home = FALSE]

Shell(stage, id) == [Full("uacp_contained_shell", stage, "outside") EXCEPT !.att = id]
Terminal(id) == [Full("terminal", "execute", "inside") EXCEPT !.att = id]

\* The guardian finds less than the call does: the root of a path in a command, nothing
\* of a nested argument.
Hidden(c, place) == [c EXCEPT !.lands = place]

HermesCalls ==
    {Full("uacp_run_transition", "verify", "state")}
    \cup {Full("uacp_run_finalize", stage, "state") : stage \in {"resolve", "resolved"}}
    \cup {Full("uacp_run_abort", "plan", "state")}
    \cup {Shell("execute", id) : id \in 0..1} \cup {Terminal(id) : id \in {0, 2}}
    \cup {Hidden(Terminal(id), "state") : id \in 0..1}
    \cup {[Terminal(1) EXCEPT !.touches = place, !.lands = place] : place \in {"state", "docs"}}
    \cup {Hidden(Bare("mcp_other", "outside"), "artifact"), Hidden(Full("unlisted", "plan", "inside"), "config")}
    \cup {[Shell("verify", 0) EXCEPT !.named = TRUE]}
    \cup {Full("write_file", "execute", place) : place \in {"state", "docs"}}
    \cup {Bare("write_file", place) : place \in {"artifact"}}
    \cup {Full("mcp_other", "plan", place) : place \in {"artifact", "config"}}
    \cup {Full("uacp_artifact_write", "plan", place) : place \in {"artifact", "state"}}
    \cup {Full("uacp_doc_write", "execute", "docs"), Full("uacp_config_write", "triage", "config"),
          Full("uacp_run_status", "plan", "inside"), Bare("read_file", "inside")}

ClaudeCalls ==
    {Bare("write_file", place) : place \in {"state", "docs"}}
    \cup {Bare("mcp_other", "artifact"), Full("uacp_artifact_write", "plan", "artifact")}

MCCalls == [h \in Hosts |-> IF h = "hermes" THEN HermesCalls ELSE ClaudeCalls]
=============================================================================
