---------------------------- MODULE EvidenceGraph ----------------------------
(***************************************************************************)
(* engines/manifest/projection.py as operators on the documents d that a   *)
(* run's manifest registers: the graph they project to, the checks of the  *)
(* plan, execute and verify exits and of the closure sweep, the replay of  *)
(* the frozen checks, the floor of kinds and the class a target entails.   *)
(*                                                                         *)
(*   d.own, d.up    the run's proposal and plan, and those it inherited:   *)
(*                  [intents, units : id -> claim, duties : id -> unit]    *)
(*   d.checkpoints  in the manifest's order: [key, id, unit, remediation,  *)
(*                  evidence : sequence of [obligation, result]]           *)
(*   d.assessments  id -> [obligation, unit, result, refs]                 *)
(*   d.checks       id -> [target, class, kind, bind]                      *)
(*   d.entries      id -> [verdict, supersedes]                            *)
(*                                                                         *)
(* A claim is [from, anchor, refs, entailed, said]: the intents a unit     *)
(* derives from, the section an intent is anchored to, the declared code,  *)
(* the class an oracle entailed and the class its words say.  Classes are  *)
(* their ranks.  Facts stand for what an anchor or a bind names in the     *)
(* world: a section, a field, a symbol of the code index, a command.       *)
(***************************************************************************)
EXTENDS Integers, Sequences, FiniteSets

CONSTANT Nobody    \* a field that is not there

Results == {"pass", "warn", "deferred", "block"}
Verdicts == {"pass", "fail", "error", "open"}
Kinds == {"field_equals", "obligation_satisfied", "symbol_resolves", "behavioral",
          "edge_exists"}

\* verification_floor.py: the classes, weakest first, and the kind each demands.
\* 0 is no class, Garbled a class that is none of them.
Ranks == 0..4
Garbled == 9
Floor == <<"field_equals", "obligation_satisfied", "symbol_resolves", "behavioral">>

Largest(S) == CHOOSE n \in S : \A m \in S : m <= n

\* f, and g where f has nothing.
Over(f, g) == [x \in DOMAIN f \cup DOMAIN g |-> IF x \in DOMAIN f THEN f[x] ELSE g[x]]

-----------------------------------------------------------------------------
(* The projection.  Own documents come first and a node keeps its first    *)
(* writer; edges are those of every document.                              *)

Scope(d) == Over(d.own.intents, d.up.intents)
Work(d)  == Over(d.own.units, d.up.units)
Claims(d) == Over(Scope(d), Work(d))
Targets(d) == DOMAIN Claims(d)
Duties(d) == DOMAIN d.own.duties \cup DOMAIN d.up.duties

\* The edges of f, which maps a source to one destination or none, and of F,
\* which maps it to a set of them.
ToOne(f, rel) == {<<x, rel, f[x]>> : x \in {y \in DOMAIN f : f[y] # Nobody}}
ToSet(F, rel) == UNION {{<<x, rel, y>> : y \in F[x]} : x \in DOMAIN F}
Field(f, Get(_)) == [x \in DOMAIN f |-> Get(f[x])]

PlanEdges(p) ==
    ToSet(Field(p.units, LAMBDA u : u.from), "derives_from")
        \cup ToOne(p.duties, "obligation_for")

CheckpointIds(d) == {d.checkpoints[i].id : i \in DOMAIN d.checkpoints}

Edges(d) ==
    PlanEdges(d.own) \cup PlanEdges(d.up)
        \cup {<<c.id, "checkpoint_of", c.unit>> :
                c \in {d.checkpoints[i] : i \in DOMAIN d.checkpoints}}
        \cup ToOne(Field(d.assessments, LAMBDA a : a.obligation), "obligation_id")
        \cup ToOne(Field(d.assessments, LAMBDA a : a.unit), "work_unit_id")
        \cup ToSet(Field(d.assessments, LAMBDA a : a.refs), "evidence_refs")
        \cup ToOne(Field(d.checks, LAMBDA k : k.target), "measured_by")
        \cup ToOne(Field(d.entries, LAMBDA e : e.supersedes), "supersedes")

Nodes(d) == Targets(d) \cup Duties(d) \cup CheckpointIds(d) \cup DOMAIN d.assessments
                \cup DOMAIN d.checks \cup DOMAIN d.entries

Reached(d, rel) == {e[3] : e \in {x \in Edges(d) : x[2] = rel}}
Sources(d, rel) == {e[1] : e \in {x \in Edges(d) : x[2] = rel}}

\* A checkpoint's outcome: the worst of its evidence, pass only if all of it passes.
Rollup(evidence) ==
    LET results == {evidence[j].result : j \in DOMAIN evidence}
    IN  CASE "block" \in results -> "block"
          [] "block" \notin results /\ "warn" \in results -> "warn"
          [] {"block", "warn"} \cap results = {} /\ "deferred" \in results -> "deferred"
          [] results = {"pass"} -> "pass"
          [] results = {} -> "none"

FirstOf(d, id) == CHOOSE i \in DOMAIN d.checkpoints :
    /\ d.checkpoints[i].id = id
    /\ \A j \in DOMAIN d.checkpoints : d.checkpoints[j].id = id => i <= j
Outcome(d, id) == Rollup(d.checkpoints[FirstOf(d, id)].evidence)

\* The evidence nodes: one for each checkpoint id and obligation, the first.
Items(d) == UNION {{<<i, j>> : j \in DOMAIN d.checkpoints[i].evidence} :
                       i \in DOMAIN d.checkpoints}
Item(d, p) == d.checkpoints[p[1]].evidence[p[2]]
Named(d, p) == <<d.checkpoints[p[1]].id, Item(d, p).obligation>>
Before(p, q) == p[1] < q[1] \/ (p[1] = q[1] /\ p[2] < q[2])
Evidence(d) == {p \in Items(d) :
    \A q \in Items(d) : Named(d, q) = Named(d, p) => ~Before(q, p)}

-----------------------------------------------------------------------------
(* The structural checks: each is the set of nodes it finds fault with.    *)

Uncovered(d) == DOMAIN Scope(d) \ Reached(d, "derives_from")

Orphans(d) == IF Sources(d, "derives_from") = {} THEN {}
              ELSE DOMAIN Work(d) \ Sources(d, "derives_from")

Phantoms(d) == {e \in Edges(d) : e[3] \notin Nodes(d)}

WithoutObligation(d) == DOMAIN Work(d) \ Reached(d, "obligation_for")
WithoutCheckpoint(d) == DOMAIN Work(d) \ Reached(d, "checkpoint_of")

Passing(d) == {a \in DOMAIN d.assessments : d.assessments[a].result = "pass"}

\* The unit of an obligation is the one of its last edge, the inherited one.
DutyOf(d) == Over(d.up.duties, d.own.duties)
Unverified(d) ==
    DOMAIN Work(d) \ ({d.assessments[a].unit : a \in Passing(d)}
        \cup {DutyOf(d)[o] : o \in DOMAIN DutyOf(d) \cap
                                    {d.assessments[a].obligation : a \in Passing(d)}})

\* Only a remediation that passes clears an obligation's block.
Blocks(d) == {Item(d, p).obligation :
    p \in {q \in Evidence(d) : Item(d, q).result = "block"}}
ClearedByAnyPass(d) == {Item(d, p).obligation :      \* mutation: any pass clears a block
    p \in {q \in Evidence(d) : Item(d, q).result = "pass"}}
Cleared(d) == {Item(d, p).obligation :
    p \in {q \in Evidence(d) : /\ Item(d, q).result = "pass"
                               /\ d.checkpoints[q[1]].remediation}}
BlockedDuties(d) == Blocks(d) \ Cleared(d)

Contradicted(d) == {a \in Passing(d) :
    \/ d.assessments[a].obligation \in BlockedDuties(d)
    \/ \E c \in d.assessments[a].refs \cap CheckpointIds(d) : Outcome(d, c) = "block"}

Unchecked(d) == IF DOMAIN d.checks = {} THEN {}
                ELSE Targets(d) \ Reached(d, "measured_by")

\* A failed move is resolved by a chain of revisions that ends in a pass.
Revisions(d, S) == {d.entries[n].supersedes :
    n \in {m \in S : d.entries[m].supersedes # m}} \cap DOMAIN d.entries
PassReached(d) ==
    LET within[n \in 0..Cardinality(DOMAIN d.entries)] ==
            IF n = 0 THEN {e \in DOMAIN d.entries : d.entries[e].verdict = "pass"}
            ELSE within[n - 1] \cup Revisions(d, within[n - 1])
    IN  within[Cardinality(DOMAIN d.entries)]
OpenInvestigations(d) ==
    {e \in DOMAIN d.entries : d.entries[e].verdict \in {"fail", "error"}} \ PassReached(d)

AnchorsUnresolved(d, holds) ==
    {i \in DOMAIN Scope(d) : Scope(d)[i].anchor \notin holds \cup {Nobody}}

-----------------------------------------------------------------------------
(* The frozen checks: replay, the floor, the class a target entails.       *)

\* FAIL and ERROR both block, and are one here.
ObligationSatisfied(d, o) ==
    /\ o \in Duties(d)
    /\ \E a \in Passing(d) : d.assessments[a].obligation = o
    /\ o \notin BlockedDuties(d)

EvaluateCheck(d, holds, check) ==
    CASE check.kind = "obligation_satisfied" -> ObligationSatisfied(d, check.bind)
      [] check.kind = "edge_exists" -> check.bind \in Edges(d)
      [] OTHER -> check.bind \in holds

ReplayFails(d, holds) == {k \in DOMAIN d.checks : ~EvaluateCheck(d, holds, d.checks[k])}

ChecksOf(d, t) == {d.checks[k] : k \in {c \in DOMAIN d.checks : d.checks[c].target = t}}

FloorUnmet(d) == {t \in Targets(d) : \E k \in ChecksOf(d, t) :
    /\ k.class \in DOMAIN Floor
    /\ \A other \in ChecksOf(d, t) : other.kind # Floor[k.class]}

Behavioral(d) == \E k \in DOMAIN d.checks : d.checks[k].kind = "behavioral"

\* witness : the class the code account derives for a target, 0 for none.
DeclaredRank(d, t) == Largest({0} \cup ({k.class : k \in ChecksOf(d, t)} \cap Ranks))
ByItsWords(d, witness, t) ==            \* mutation: the witness is heard where nothing was entailed
    IF Claims(d)[t].entailed # 0 THEN Largest({Claims(d)[t].entailed, Claims(d)[t].said})
    ELSE Largest({witness[t], Claims(d)[t].said})
Oracle(d, witness, t) == Largest({witness[t], Claims(d)[t].entailed, Claims(d)[t].said})

Invalid(d) == {t \in Targets(d) : Claims(d)[t].entailed = Garbled}
Underclaimed(d, witness) == Invalid(d) \cup
    {t \in Targets(d) : ChecksOf(d, t) # {} /\ Oracle(d, witness, t) > DeclaredRank(d, t)}

-----------------------------------------------------------------------------
(* The gates.                                                              *)

PlanSound(d, holds) ==
    /\ Uncovered(d) = {} /\ Orphans(d) = {} /\ Phantoms(d) = {}
    /\ WithoutObligation(d) = {} /\ AnchorsUnresolved(d, holds) = {}

ExecuteSound(d, holds) == WithoutCheckpoint(d) = {} /\ AnchorsUnresolved(d, holds) = {}

\* The class underclaim, which waits for the witness, is the last of them.
ChecksSound(d, holds) == ReplayFails(d, holds) = {} /\ FloorUnmet(d) = {}

VerifySound(d, holds) ==
    /\ Unverified(d) = {} /\ Contradicted(d) = {} /\ Unchecked(d) = {} /\ Phantoms(d) = {}
    /\ OpenInvestigations(d) = {} /\ AnchorsUnresolved(d, holds) = {}
    /\ ChecksSound(d, holds)

TerminalSound(d, holds) ==
    /\ Uncovered(d) = {} /\ Orphans(d) = {} /\ Phantoms(d) = {} /\ Contradicted(d) = {}
    /\ Unchecked(d) = {} /\ OpenInvestigations(d) = {} /\ AnchorsUnresolved(d, holds) = {}
    /\ ChecksSound(d, holds)
=============================================================================
