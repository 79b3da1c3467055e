------------------------------ MODULE Delivery ------------------------------
(***************************************************************************)
(* The gates that hold a run's documents and its code against each other:  *)
(* the graph gate of the plan, execute and verify exits (state_machine.py) *)
(* and the closure sweep (heartgate.py, validate_closure), with what they  *)
(* learn of the world: git's changed files, codeflair's witness of the     *)
(* change and its baseline of the declared code.  Nothing is locked: the   *)
(* documents are written, the files edited and committed, the merge base   *)
(* moved and git lost at any time, also while a gate waits for codeflair   *)
(* (120 seconds, and again after a timeout), which itself looks at git     *)
(* first and at the files later.  A memo in the process holds the accounts *)
(* under the token read before; a record on disk holds the forecast of the *)
(* plan exit, which the closure joins with what happened.                  *)
(*                                                                         *)
(* A run plays one story of Stories, which says what may be written and    *)
(* edited in it; the gates are the same in all of them.                    *)
(***************************************************************************)
EXTENDS EvidenceGraph, CodeWitness

CONSTANTS
    Stories,         \* names of stories
    Tells,           \* [Stories -> [docs, scope, mirror, drafts, edits, commits, moves,
                     \*   truths, worlds]]
    DiffBlocks,      \* [verification] sc_diff_containment = block
    ForecastBlocks,  \* [verification] plan_cascade_forecast = block
    FloorBlocks,     \* [verification] behavioral_floor = block
    MaxAccounts,     \* bound on the accounts a gate finds in the memo
    Outside,         \* a write path that leaves the workspace
    NoList,          \* declared paths that are no list
    None

ASSUME DeliveryAssumption ==
    /\ {DiffBlocks, ForecastBlocks, FloorBlocks} \subseteq BOOLEAN /\ MaxAccounts \in Nat

\* Classes are ranks: a claim of class none of them is Garbled, no class is 0.
WellRanked(p) == \A claims \in {p.intents, p.units} : \A t \in DOMAIN claims :
    claims[t].entailed \in Nat /\ claims[t].said \in Nat

IsSequence(s) == s \in Seq({s[i] : i \in DOMAIN s})

DraftKinds == {"plan", "checkpoint", "assessments", "check", "entry", "scope"}

ASSUME StoryAssumption == \A t \in Stories :
    /\ Tells[t].edits \subseteq Files \X Versions
    /\ {Tells[t].commits, Tells[t].moves} \subseteq BOOLEAN
    /\ DOMAIN Tells[t].docs = {"own", "up", "checkpoints", "assessments", "checks", "entries"}
    /\ WellRanked(Tells[t].docs.own) /\ WellRanked(Tells[t].docs.up)
    /\ IsSequence(Tells[t].docs.checkpoints)
    /\ IsFiniteSet(DOMAIN Tells[t].docs.entries) /\ Nobody \notin DOMAIN Tells[t].docs.entries
    /\ \A draft \in Tells[t].drafts :
            /\ draft.kind \in DraftKinds
            /\ draft.kind = "plan" => WellRanked(draft.doc)
            /\ draft.kind = "entry" => draft.id # Nobody

Phases == {"plan", "execute", "verify", "resolved", "closed"}

VARIABLES
    story,     \* the story of this run
    phase,     \* current_phase
    docs,      \* the registered documents, see EvidenceGraph
    scope,     \* the scope document: [paths, refs, radius, products]
    holds,     \* the facts that hold in the world
    git,       \* "ok", "error", "none"
    prober,    \* [up, weak, garbled]: does codeflair run, the files without SCIP,
               \* the symbols whose entries it garbles
    base,      \* the tree of the merge base with the default branch
    head,      \* the committed tree
    work,      \* the working tree
    memo,      \* the accounts of this process: [mode, token, refs, account, base, raced]
    forecast,  \* the forecast of record, None when there is none
    call,      \* the gate that is running, None when there is none
    probe      \* its question to codeflair, None when there is none

world == <<holds, git, prober>>
tree  == <<base, head, work>>
known == <<memo, forecast>>
asked == <<call, probe>>
vars  == <<story, phase, docs, scope, world, tree, known, asked>>

Now == [base |-> base, head |-> head, work |-> work]
ProberOf(w) == [up |-> w.up, weak |-> w.weak, garbled |-> w.garbled]

Init ==
    /\ story \in Stories /\ phase = "plan"
    /\ docs = Tells[story].docs /\ scope = Tells[story].scope
    /\ holds \in Tells[story].truths
    /\ \E w \in Tells[story].worlds : git = w.git /\ prober = ProberOf(w)
    /\ base = Base /\ head = Base /\ work = Base
    /\ memo = {} /\ forecast = None /\ call = None /\ probe = None

-----------------------------------------------------------------------------
(* What is compared                                                        *)

\* _normalize_write_paths: absent (None) is empty, garbled is no boundary at all.
Declares(s) == s.paths # NoList
Paths(s) == IF s.paths \in {None, NoList} THEN {} ELSE s.paths

\* changed_files: a repository git cannot read reports no files.  The names of the
\* committed ones keep their quotes, which no path and no suffix matches.
Observed == git = "ok"
Offenders(t, paths) ==
    OutOfBoundary(ChangedFiles(t), paths) \cup (CommittedFiles(t) \cap Quoted)
ChangedCode(t) == (Dirty(t) \cup (CommittedFiles(t) \ Quoted)) \cap Code

\* validate_class_underclaim takes one account for the references of all targets.
UnionRefs(d) == UNION {Claims(d)[t].refs : t \in Targets(d)}
Classes(d, account) ==
    [t \in Targets(d) |-> IF Testifies(account) THEN ClassOf(account, Claims(d)[t].refs) ELSE 0]

-----------------------------------------------------------------------------
(* The agent, the editor and the world                                     *)

\* A key that is written again keeps its place in the manifest.
Put(seq, c) ==
    IF \E i \in DOMAIN seq : seq[i].key = c.key
    THEN [i \in DOMAIN seq |-> IF seq[i].key = c.key THEN c ELSE seq[i]]
    ELSE Append(seq, c)

\* A draft is [kind, id, doc].  A frozen check is not written again; the plan is
\* written whole, the verification package too.
With(d, draft) ==
    CASE draft.kind = "plan" -> [d EXCEPT !.own = draft.doc]
      [] draft.kind = "checkpoint" -> [d EXCEPT !.checkpoints = Put(@, draft.doc)]
      [] draft.kind = "assessments" -> [d EXCEPT !.assessments = draft.doc]
      [] draft.kind = "check" -> [d EXCEPT !.checks = Over(@, [id \in {draft.id} |-> draft.doc])]
      [] draft.kind = "entry" -> [d EXCEPT !.entries = Over([id \in {draft.id} |-> draft.doc], @)]
      [] draft.kind = "scope" -> d

Open == phase # "closed"

Write(draft) ==
    /\ Open
    /\ docs' = With(docs, draft)
    /\ scope' = IF draft.kind = "scope" THEN draft.doc ELSE scope
    /\ UNCHANGED <<story, phase, world, tree, known, asked>>

Edit(f, v) ==
    /\ Open /\ work[f] # v
    /\ work' = [work EXCEPT ![f] = v]
    /\ UNCHANGED <<story, phase, docs, scope, world, base, head, known, asked>>

Commit ==
    /\ Open /\ Tells[story].commits /\ head # work
    /\ head' = work
    /\ UNCHANGED <<story, phase, docs, scope, world, base, work, known, asked>>

\* The default branch takes what is committed, or is taken back, or is not there: git
\* then compares HEAD with nothing but the working tree.
BaseMoves ==
    /\ Open /\ Tells[story].moves
    /\ base' \in {Base, head}
    /\ UNCHANGED <<story, phase, docs, scope, world, head, work, known, asked>>

WorldChanges ==
    /\ Open
    /\ holds' \in Tells[story].truths
    /\ \E w \in Tells[story].worlds : git' = w.git /\ prober' = ProberOf(w)
    /\ UNCHANGED <<story, phase, docs, scope, tree, known, asked>>

\* The memo lives in the process, and so does a gate.
Restart ==
    /\ Open /\ (memo # {} \/ call # None)
    /\ memo' = {} /\ call' = None /\ probe' = None
    /\ UNCHANGED <<story, phase, docs, scope, world, tree, forecast>>

-----------------------------------------------------------------------------
(* Asking codeflair: the token, the memo, and without an entry there the   *)
(* program, which looks at git and then indexes the files.                 *)

\* An account on hold: "git" until the changed files are observed, "files" until the
\* files are indexed.  "of" is what the repository was when the token was taken, raced
\* says that the account is of another: ghosts, which the gates never look at.
Question(mode, refs, token) ==
    [mode |-> mode, refs |-> refs, token |-> token, step |-> "git", changed |-> {},
     account |-> Unavailable, of |-> Now, raced |-> FALSE]

\* _compute_tree_token, _head_sha: no git, no token, and no memo.
Token(mode) == IF ~Observed THEN None ELSE IF mode = "baseline" THEN head ELSE TreeToken(Now)
Kept(mode, refs, token) ==
    {e \in memo : e.mode = mode /\ e.refs = refs /\ e.token = token}

\* What is asked about no code is not asked.
Asked(mode, refs) ==
    LET q == Question(mode, refs, Token(mode))
        kept == Kept(mode, refs, q.token)
    IN  CASE refs = {} -> [q EXCEPT !.step = "done"]
          [] refs # {} /\ (q.token = None \/ kept = {}) -> q
          [] OTHER -> LET e == CHOOSE e \in kept : TRUE
                      IN  [q EXCEPT !.step = "done", !.account = e.account,
                                    !.raced = e.raced \/ e.base # base]

Ask(mode, refs) ==
    /\ probe = None /\ probe' = Asked(mode, refs)
    /\ UNCHANGED <<story, phase, docs, scope, world, tree, known, call>>

\* The answer is kept under the token of the question, whatever it is.
Answer(account, raced) ==
    /\ probe' = [probe EXCEPT !.step = "done", !.account = account, !.raced = raced]
    /\ memo' = IF probe.token = None THEN memo
               ELSE memo \cup {[mode |-> probe.mode, token |-> probe.token,
                                refs |-> probe.refs, account |-> account,
                                base |-> probe.of.base, raced |-> raced]}
    /\ UNCHANGED <<story, phase, docs, scope, world, tree, forecast, call>>

Waits(step) == probe # None /\ probe.step = step

\* codeflair or git is not there, or does not answer in time twice.
CannotTestify ==
    /\ Waits("git") \/ Waits("files")
    /\ ~Observed \/ ~prober.up
    /\ Answer(Unavailable, FALSE)

\* changed_files of witness.py: a status or a diff that fails has no lines.
Visible == IF Observed THEN {ChangedFiles(Now)} ELSE {{}, Dirty(Now), CommittedFiles(Now)}
LooksAtGit ==
    /\ Waits("git") /\ probe.mode = "diff" /\ git # "none" /\ prober.up
    /\ \E changed \in Visible :
           probe' = [probe EXCEPT !.step = "files", !.changed = changed,
                                  !.raced = changed # ChangedFiles(probe.of)]
    /\ UNCHANGED <<story, phase, docs, scope, world, tree, known, call>>

IndexesFiles ==
    /\ Waits("files") /\ git # "none" /\ prober.up
    /\ LET account == Account(probe.changed, work, prober.weak, probe.refs)
       IN  Answer(IF Symbols(work) = {} THEN Unavailable ELSE Parsed(account, prober.garbled),
                  probe.raced \/ work # probe.of.work)

\* The baseline is of the committed tree, in a directory of its own.
IndexesHead ==
    /\ Waits("git") /\ probe.mode = "baseline" /\ Observed /\ prober.up
    /\ LET account == Baseline(head, prober.weak, probe.refs)
       IN  Answer(IF Symbols(head) = {} THEN Unavailable
                  ELSE ParsedBaseline(account, prober.garbled), head # probe.of.head)

-----------------------------------------------------------------------------
(* The exits.  A gate reads the documents when it begins and judges them   *)
(* when codeflair has answered; one that blocks leaves the phase, not the  *)
(* traces of what it derived.                                              *)

Begin(gate, stops) ==
    /\ call = None /\ Cardinality(memo) <= MaxAccounts
    /\ call' = [gate |-> gate, docs |-> docs, scope |-> scope, stops |-> stops,
                advice |-> {}, class |-> None, judged |-> None]
    /\ UNCHANGED <<story, phase, docs, scope, world, tree, known, probe>>

Running(gate) == call # None /\ call.gate = gate
Done == probe # None /\ probe.step = "done"
Heard == probe.refs # {} /\ Testifies(probe.account)

End(sound, next) ==
    /\ phase' = IF sound THEN next ELSE phase
    /\ call' = None /\ probe' = None
    /\ UNCHANGED <<story, docs, scope, world, tree, memo>>

BeginPlanExit == phase = "plan" /\ Begin("plan", ~PlanSound(docs, holds))

\* validate_cascade_forecast: written by every derivation, blocked or not.
Forecasts(s) == s.refs # {} /\ s.paths \notin {None, NoList}
AskBaseline == Running("plan")
    /\ Ask("baseline", IF Forecasts(call.scope) THEN call.scope.refs ELSE {})

Predictions == Predicted(probe.account, call.scope.refs, Paths(call.scope))
ForecastStops == Heard /\ ForecastBlocks /\ Paths(call.scope) # {} /\ Predictions # {}
EndPlanExit ==
    /\ Running("plan") /\ Done
    /\ forecast' = IF Heard THEN [boundary |-> Paths(call.scope), predicted |-> Predictions,
                                  joined |-> FALSE, outcome |-> {}]
                   ELSE forecast
    /\ End(~call.stops /\ ~ForecastStops, "execute")

ExecuteExit ==
    /\ phase = "execute" /\ call = None
    /\ phase' = IF ExecuteSound(docs, holds) THEN "verify" ELSE phase
    /\ UNCHANGED <<story, docs, scope, world, tree, known, asked>>

BeginVerifyExit == phase = "verify" /\ Begin("verify", ~VerifySound(docs, holds))

\* validate_class_underclaim, of the verify exit and of the closure.
AskClass == (Running("verify") \/ (Running("close") /\ call.class = None))
    /\ Ask("diff", UnionRefs(call.docs))

Underclaims == Underclaimed(call.docs, Classes(call.docs, probe.account)) # {}
EndVerifyExit ==
    /\ Running("verify") /\ Done
    /\ End(~call.stops /\ ~Underclaims, "resolved")
    /\ UNCHANGED forecast

-----------------------------------------------------------------------------
(* The closure: the read-only sweep of the engines, then the join, which   *)
(* reads git and the scope once more.                                      *)

BehaviorStops == FloorBlocks /\ Observed /\ ChangedCode(Now) # {} /\ ~Behavioral(docs)
BeginClosure == phase = "resolved"
    /\ Begin("close", ~TerminalSound(docs, holds) \/ BehaviorStops)

Escapes(s) == Outside \in Paths(s)
ProductsOut(s) == Declares(s) /\ s.products \ Paths(s) # {}
DiffStops(s) == /\ Declares(s) /\ Observed /\ Offenders(Now, Paths(s)) # {}
                /\ DiffBlocks /\ Paths(s) # {}
\* _check_scope_registry: the listed paths of the run, if it is listed.
Mirror == Tells[story].mirror
MirrorDiffers(s) == Declares(s) /\ Mirror # None /\ Mirror # Paths(s)
ScopeStops(s) == Escapes(s) \/ ~s.radius \/ MirrorDiffers(s) \/ ProductsOut(s) \/ DiffStops(s)

\* Warnings of what the class oracle and the diff check could not see.
Unseen == (IF probe.refs # {} /\ ~Testifies(probe.account)
           THEN {"CHK_CLASS_WITNESS_UNAVAILABLE"} ELSE {})
       \cup (IF Declares(scope) /\ git = "error" THEN {"SC_DIFF_UNAVAILABLE"} ELSE {})

\* The class is judged, then the scope read and held against git's changes.
JudgeScope ==
    /\ Running("close") /\ call.class = None /\ Done
    /\ call' = [call EXCEPT !.scope = scope, !.stops = @ \/ Underclaims \/ ScopeStops(scope),
                            !.advice = Unseen, !.class = [of |-> probe.of, raced |-> probe.raced],
                            !.judged = IF Observed THEN Now ELSE None]
    /\ probe' = None
    /\ UNCHANGED <<story, phase, docs, scope, world, tree, known>>

AskCascade == Running("close") /\ call.class # None /\ Ask("diff", call.scope.refs)

AtForecast == OutOfBoundary(ChangedFiles(Now), forecast.boundary)   \* mutation: the boundary of the forecast
AtJoin == Offenders(Now, Paths(scope))

\* Any violation of severity block reverts the stamp, warnings do not; the record is
\* joined either way.
Joins == Running("close") /\ call.class # None /\ Done
Join ==
    /\ Joins
    /\ forecast' = IF forecast # None /\ Declares(scope) /\ Observed
                   THEN [forecast EXCEPT !.joined = TRUE, !.outcome = AtJoin]
                   ELSE forecast
    /\ End(~call.stops, "closed")

Closed == phase = "closed" /\ UNCHANGED vars

\* What happens to the run, its code and its process.
Happens ==
    \/ \E draft \in Tells[story].drafts : Write(draft)
    \/ \E e \in Tells[story].edits : Edit(e[1], e[2])
    \/ Commit \/ BaseMoves \/ WorldChanges \/ Restart

Asks == AskBaseline \/ AskClass \/ AskCascade
Answers == CannotTestify \/ LooksAtGit \/ IndexesFiles \/ IndexesHead
Begins == BeginPlanExit \/ BeginVerifyExit \/ BeginClosure
Ends == EndPlanExit \/ ExecuteExit \/ EndVerifyExit \/ JudgeScope \/ Join

Next == Happens \/ Asks \/ Answers \/ Begins \/ Ends \/ Closed

Spec == Init /\ [][Next]_vars

-----------------------------------------------------------------------------
(* Properties                                                              *)

\* Documents that only gained one: a checkpoint or an investigation entry.
Extends(d, e) ==
    /\ Len(d.checkpoints) <= Len(e.checkpoints)
    /\ d.checkpoints = SubSeq(e.checkpoints, 1, Len(d.checkpoints))
    /\ \A x \in DOMAIN d.entries : x \in DOMAIN e.entries /\ e.entries[x] = d.entries[x]
    /\ <<d.own, d.up, d.assessments, d.checks>> = <<e.own, e.up, e.assessments, e.checks>>

\* No entry supersedes one that is not there, or not there yet.
Chained(d) == \A e \in DOMAIN d.entries :
    d.entries[e].supersedes \in DOMAIN d.entries \cup {Nobody}

\* A document that is added takes back nothing recorded before it: a pass stops
\* being contradicted only when the addition is a remediation that passes, and,
\* unless an entry waited for it, a failed move stops being open only when it is
\* a pass.  Failing evidence and failed moves are gathered order-blind, first
\* copy first (_check_contradicted, _open_investigation_ids).
OnlyAPassClears ==
    [][Extends(docs, docs') =>
        /\ \A a \in Contradicted(docs) \ Contradicted(docs') :
               LET c == docs'.checkpoints[Len(docs'.checkpoints)]
               IN  /\ c.remediation
                   /\ \E j \in DOMAIN c.evidence :
                         /\ c.evidence[j].obligation = docs.assessments[a].obligation
                         /\ c.evidence[j].result = "pass"
        /\ Chained(docs) /\ OpenInvestigations(docs) \ OpenInvestigations(docs') # {} =>
               \E e \in DOMAIN docs'.entries \ DOMAIN docs.entries :
                   docs'.entries[e].verdict = "pass"]_vars

\* Facts of an account but for the sources that happened to be indexed.
Facts(account) == [account EXCEPT !.ingestion = "scip"]

\* What a snapshot's changes, files and references come to.
AccountOf(t, refs) == Account(ChangedFiles(t), t.work, {}, refs)

\* What the memo would answer now is what a derivation that nothing disturbs would
\* find, or that there is none: no edit, commit, revert or lost git makes a kept
\* account speak of another tree.  Excepted are what derive_witness does not look at:
\* a repository that changed while codeflair ran, a merge base that moved since, a
\* dirty file git quotes.
AccountIsCurrent ==
    \A e \in memo : e.account # Unavailable /\ ~e.raced =>
        /\ e.mode = "diff" /\ e.token = TreeToken(Now) /\ e.base = base
              /\ Dirty(Now) \cap Quoted = {} => Facts(e.account) = Facts(AccountOf(Now, e.refs))
        /\ e.mode = "baseline" /\ e.token = head =>
               Facts(e.account) = Facts(Baseline(head, {}, e.refs))

\* Silence is knowledge: a closure without advice, of a run that declares code, has
\* every touched symbol declared or next to a declared one, every declared symbol
\* touched or next to a touched one, every changed file readable and every
\* reference resolved: in the repository as it was when the closure asked, unless it
\* changed while codeflair ran.
SilentMeansCovered ==
    Joins /\ ~probe.raced /\ call.scope.refs # {}
          /\ call.advice \cup Advisories(probe.account, call.scope.refs) = {} =>
        LET then == AccountOf(probe.of, call.scope.refs)
        IN  /\ UndeclaredCascade(then) = {} /\ OverDeclared(then) = {}
            /\ then.opaque = {} /\ then.unresolved = {}

\* A closure that does not stop, and does not say that the class witness is missing,
\* has graded every target that is checked: its checks declare at least the class its
\* code has in the repository, the class its documents entail and the class they say,
\* whatever was written, edited, answered from the memo or garbled on the way.
SilentMeansGraded ==
    Joins /\ ~call.stops /\ "CHK_CLASS_WITNESS_UNAVAILABLE" \notin call.advice
          /\ ~call.class.raced /\ Dirty(call.class.of) \cap Quoted = {} =>
        LET d == call.docs
            then == AccountOf(call.class.of, UnionRefs(d))
        IN  \A t \in Targets(d) : ChecksOf(d, t) # {} =>
                \A c \in {ClassOf(then, Claims(d)[t].refs), Claims(d)[t].entailed,
                           Claims(d)[t].said} : c <= DeclaredRank(d, t)

\* A run that closes under a blocking diff check is joined with late work and nothing
\* else: what offends has been edited, committed, merged or put out of the scope
\* between the check and the join, which read git and the scope on their own.
OutcomeIsLateWork ==
    [][Joins /\ phase' = "closed" /\ forecast' # forecast
        /\ DiffBlocks /\ Declares(call.scope) /\ Paths(call.scope) # {} /\ call.judged # None =>
            \A f \in forecast'.outcome :
                <<base[f], head[f], work[f], f \in Paths(scope)>>
                  # <<call.judged.base[f], call.judged.head[f], call.judged.work[f],
                      f \in Paths(call.scope)>>]_vars

-----------------------------------------------------------------------------
(* What the documents and comments promise, and the code does not keep: no *)
(* run checks these.                                                       *)

\* derive_witness "returns the memoized result on an unchanged tree AND an unchanged
\* claim" (witnessio.py): the account, then, is of that tree.
KeptIsOfTheTree ==
    \A e \in memo : e.mode = "diff" /\ e.account # Unavailable /\ e.token = TreeToken(Now) =>
        Facts(e.account) = Facts(AccountOf(Now, e.refs))

\* The sweep and the join "can never disagree on what counts" (_diff_offenders): a run
\* that the blocking check let close has no outcome.
JoinAgrees ==
    [][Joins /\ phase' = "closed" /\ forecast' # forecast
        /\ DiffBlocks /\ Declares(call.scope) /\ Paths(call.scope) # {} /\ call.judged # None =>
            forecast'.outcome = {}]_vars
=============================================================================
