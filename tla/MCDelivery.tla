----------------------------- MODULE MCDelivery -----------------------------
EXTENDS Delivery, TLC

CONSTANTS i1, i2, u1, u2, o1, o2, c1, c2, c3, a1, k1, k2, e1, e2, e3, f, g, x, t1, t2

Empty == <<>>
Sym(file, owner, name) == [file |-> file, owner |-> owner, name |-> name]
m  == Sym(f, "A", "m")
m2 == Sym(f, "B", "m")
h  == Sym(g, Unowned, "h")
Short == Sym(f, Unowned, "m")

\* f: a method, called by h and next to it; rewritten to call h; joined by a second
\* of its name.  g: h calls the method, or no longer.  x: nothing, a function, the
\* same function calling the method.
MCVersions == 0..2
q == Sym(x, Unowned, "q")
MCSource ==
    [file \in {f, g, x} |-> [v \in MCVersions |->
        CASE file = f /\ v = 0 -> [symbols |-> {m}, edges |-> {}]
          [] file = f /\ v = 1 -> [symbols |-> {m}, edges |-> {<<m, "calls", h>>}]
          [] file = f /\ v = 2 -> [symbols |-> {m, m2}, edges |-> {<<m, "calls", m2>>}]
          [] file = g /\ v = 0 -> [symbols |-> {h}, edges |-> {<<h, "calls", m>>, <<h, "references", m>>}]
          [] file = g /\ v = 1 -> [symbols |-> {h}, edges |-> {<<h, "calls", m2>>}]
          [] file = x /\ v = 1 -> [symbols |-> {q}, edges |-> {}]
          [] file = x /\ v = 2 -> [symbols |-> {q}, edges |-> {<<q, "calls", m>>}]
          [] OTHER -> [symbols |-> {}, edges |-> {}]]]
MCBase == [file \in {f, g, x} |-> 0]

Claim(from, anchor, refs, entailed, said) ==
    [from |-> from, anchor |-> anchor, refs |-> refs, entailed |-> entailed, said |-> said]
Plain(from) == Claim(from, Nobody, {}, 0, 0)
Plan(intents, units, duties) == [intents |-> intents, units |-> units, duties |-> duties]
NoPlan == Plan(Empty, Empty, Empty)
Docs(own, up) == [own |-> own, up |-> up, checkpoints |-> <<>>, assessments |-> Empty,
                  checks |-> Empty, entries |-> Empty]
ScopeDoc(paths, refs) == [paths |-> paths, refs |-> refs, radius |-> TRUE, products |-> {}]
Shown(o, result) == [obligation |-> o, result |-> result]
Checkpoint(key, id, unit, remediation, evidence) ==
    [kind |-> "checkpoint", doc |-> [key |-> key, id |-> id, unit |-> unit,
                                     remediation |-> remediation, evidence |-> evidence]]
Assessed(o, result, refs) ==
    [kind |-> "assessments", doc |-> a1 :> [obligation |-> o, unit |-> Nobody,
                                            result |-> result, refs |-> refs]]
Check(id, target, class, kind, bind) ==
    [kind |-> "check", id |-> id,
     doc |-> [target |-> target, class |-> class, kind |-> kind, bind |-> bind]]
Entry(id, verdict, supersedes) ==
    [kind |-> "entry", id |-> id, doc |-> [verdict |-> verdict, supersedes |-> supersedes]]
Scoped(doc) == [kind |-> "scope", doc |-> doc]
Planned(doc) == [kind |-> "plan", doc |-> doc]

OnePlan == Plan(i1 :> Plain({}), u1 :> Plain({i1}), o1 :> u1)
Well == [git |-> "ok", up |-> TRUE, weak |-> {}, garbled |-> {}]
Story(d, s, drafts, edits, truths, worlds) ==
    [docs |-> d, scope |-> s, mirror |-> None, drafts |-> drafts, edits |-> edits,
     commits |-> TRUE, moves |-> FALSE, truths |-> truths, worlds |-> worlds]
Quiet(d, drafts, truths) == Story(d, ScopeDoc({}, {}), drafts, {}, truths, {Well})

\* Evidence that fails, that passes, that remedies; a copy of a checkpoint's id.
Evidenced == Quiet(Docs(OnePlan, NoPlan),
    {Checkpoint(1, c1, u1, FALSE, <<Shown(o1, "block")>>),
     Checkpoint(2, c2, u1, FALSE, <<Shown(o1, "pass")>>),
     Checkpoint(3, c3, u1, TRUE, <<Shown(o1, "pass"), Shown(o1, "warn")>>),
     Checkpoint(4, c1, u1, FALSE, <<Shown(o1, "pass")>>),
     Checkpoint(1, c1, u1, FALSE, <<Shown(o1, "deferred")>>),
     Assessed(o1, "pass", {}), Assessed(o1, "pass", {c1}), Assessed(o1, "warn", {})}, {{}})

\* Investigations and checks: a failed move, revisions of it and of each other.
Investigated == Quiet([Docs(OnePlan, NoPlan) EXCEPT
        !.checkpoints = <<Checkpoint(1, c1, u1, FALSE, <<Shown(o1, "pass")>>).doc>>,
        !.assessments = Assessed(o1, "pass", {c1}).doc],
    {Entry(e1, "fail", Nobody), Entry(e2, "open", e1), Entry(e2, "pass", e1),
     Entry(e3, "pass", e2), Entry(e3, "fail", e1),
     Check(k1, u1, 2, "obligation_satisfied", o1), Check(k2, i1, 1, "field_equals", t1),
     Check(k2, i1, 3, "edge_exists", <<u1, "derives_from", i1>>)}, {{t1}, {}})

\* A child of a run: what it plans over what it inherits.
Inherited == Quiet(Docs(NoPlan, Plan((i1 :> Claim({}, t1, {}, 0, 0)) @@ (i2 :> Plain({})),
                                     u1 :> Plain({i1}), o1 :> u1)),
    {Planned(Plan(Empty, u2 :> Plain({i2}), o2 :> u2)),
     Planned(Plan(Empty, (u1 :> Plain({i2})) @@ (u2 :> Plain({})), (o2 :> u2) @@ (o1 :> u2))),
     Planned(Plan(Empty, u2 :> Claim({i2}, Nobody, {}, Garbled, 3), o2 :> c1)),
     Checkpoint(1, c1, u1, FALSE, <<Shown(o1, "pass")>>),
     Checkpoint(2, c2, u2, FALSE, <<Shown(o2, "pass")>>),
     Assessed(o1, "pass", {}), Assessed(o2, "pass", {}),
     [kind |-> "assessments", doc |-> (a1 :> [obligation |-> o1, unit |-> u1, result |-> "pass",
        refs |-> {}]) @@ (k1 :> [obligation |-> o2, unit |-> Nobody, result |-> "pass", refs |-> {}])],
     Check(k2, i1, 1, "field_equals", t1), Check(k1, u2, 3, "field_equals", t1)},
    {{t1}, {}})

\* A unit that names code, checked: what the tree says of its class.
Coded == [Docs(Plan(i1 :> Plain({}), u1 :> Claim({i1}, Nobody, {Short}, 2, 1), o1 :> u1), NoPlan)
    EXCEPT !.checkpoints = <<Checkpoint(1, c1, u1, FALSE, <<Shown(o1, "pass")>>).doc>>,
           !.assessments = Assessed(o1, "pass", {}).doc,
           !.checks = (k1 :> Check(k1, u1, 2, "obligation_satisfied", o1).doc)
                        @@ (k2 :> Check(k2, i1, 1, "field_equals", t1).doc)]
Uncoded == [Coded EXCEPT !.own.units = u1 :> Plain({i1})]
Sees(s, edits, worlds) == Story(Uncoded, s, {}, edits, {{t1}}, worlds)
Uncommitted(told) == [told EXCEPT !.commits = FALSE]

Witnessed == Uncommitted(Story(Coded, ScopeDoc({f, g}, {}), {Check(e2, u1, 4, "behavioral", t1)},
    {<<f, 1>>, <<f, 2>>}, {{t1}}, {Well, [Well EXCEPT !.weak = {f}]}))

\* Code and scope in one question: edited, reverted, committed.
Covered == Story([Coded EXCEPT !.own.units[u1].refs = {m}], ScopeDoc({f, g}, {m}), {},
    {<<f, 0>>, <<f, 1>>}, {{t1}}, {Well})

\* The branch moves under what is committed; a file of a quoted name.
Moved == [Sees(ScopeDoc({f, g, x}, {m, q}), {<<f, 1>>, <<x, 1>>}, {Well}) EXCEPT !.moves = TRUE]
Escaped == Uncommitted(Sees(ScopeDoc({f, g, x}, {m}), {<<f, 1>>, <<x, 0>>, <<x, 1>>, <<x, 2>>}, {Well}))

\* A scope that declares code and paths: the forecast and what came of it.  A
\* codeflair that garbles what it says of h, a git that fails.
Forecasted == Uncommitted(Story(Uncoded, ScopeDoc({f}, {m}),
    {Scoped(ScopeDoc({f, g}, {m})), Scoped(ScopeDoc({f}, {h}))},
    {<<f, 2>>, <<g, 1>>}, {{t1}}, {Well, [Well EXCEPT !.garbled = {h}]}))
Blind == Uncommitted(Sees(ScopeDoc({f, g}, {m}), {<<f, 0>>, <<f, 2>>}, {Well, [Well EXCEPT !.git = "error"]}))

\* Scopes that declare what they may not or what the registry does not list, and a
\* workspace without git.
Listed(told, paths) == [told EXCEPT !.mirror = paths]
Misdeclared == Uncommitted(Listed(Story(Uncoded, ScopeDoc({f, Outside}, {}),
    {Scoped([ScopeDoc({f}, {}) EXCEPT !.products = {x}]),
     Scoped([ScopeDoc(NoList, {m}) EXCEPT !.radius = FALSE]), Scoped(ScopeDoc(NoList, {m})),
     Scoped(ScopeDoc(None, {m})), Scoped(ScopeDoc({f}, {}))},
    {<<x, 1>>}, {{t1}}, {Well, [Well EXCEPT !.git = "none", !.up = FALSE]}), {f}))

MCTells == [evidenced |-> Evidenced, investigated |-> Investigated, inherited |-> Inherited,
            witnessed |-> Witnessed, covered |-> Covered, moved |-> Moved, escaped |-> Escaped,
            forecasted |-> Forecasted, blind |-> Blind, misdeclared |-> Misdeclared]
MCStories == DOMAIN MCTells
=============================================================================
