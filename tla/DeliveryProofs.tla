--------------------------- MODULE DeliveryProofs ---------------------------
(***************************************************************************)
(* What codeflair tells a gate is of the repository as it was when the     *)
(* gate asked, unless that changed while codeflair ran: so a silent        *)
(* closure has seen everything and graded every target, and what its join  *)
(* finds over its diff check came later; failures on record outlive what   *)
(* is added to them.  For any files, versions, stories and switches.       *)
(***************************************************************************)
EXTENDS Delivery, FiniteSetTheorems, TLAPS

Snapshots == [base : Trees, head : Trees, work : Trees]

\* A token tells one HEAD and one work tree from another, but for the contents of
\* dirty files of quoted names; it tells nothing of the merge base.
LEMMA TokenTells ==
    ASSUME NEW t \in Snapshots, NEW u \in Snapshots, TreeToken(t) = TreeToken(u)
    PROVE  /\ t.head = u.head /\ Dirty(t) = Dirty(u)
           /\ t.base = u.base => ChangedFiles(t) = ChangedFiles(u)
           /\ Dirty(t) \cap Quoted = {} => t.work = u.work
<1>1. t.head = u.head /\ Dirty(t) = Dirty(u)
  BY DEF TreeToken
<1>2. t.base = u.base => ChangedFiles(t) = ChangedFiles(u)
  BY <1>1 DEF ChangedFiles, CommittedFiles
<1>3. ASSUME Dirty(t) \cap Quoted = {} PROVE t.work = u.work
  <2> DEFINE a == [f \in Dirty(t) \ Quoted |-> t.work[f]]
             b == [f \in Dirty(u) \ Quoted |-> u.work[f]]
  <2>1. a = b
    BY DEF TreeToken
  <2>2. \A f \in Dirty(t) : t.work[f] = u.work[f]
    BY <1>1, <1>3, <2>1
  <2>3. \A f \in Files : t.work[f] = u.work[f]
    BY <1>1, <2>2 DEF Dirty
  <2>4. t.work \in Trees /\ u.work \in Trees
    BY DEF Snapshots
  <2> QED BY <2>3, <2>4 DEF Trees
<1> QED BY <1>1, <1>2, <1>3

\* Which sources were indexed changes the ingestion of an account and nothing else.
LEMMA SourcesDoNotMatter ==
    ASSUME NEW changed, NEW tr, NEW weak, NEW refs
    PROVE  LET a == Account(changed, tr, weak, refs)
               b == Account(changed, tr, {}, refs)
           IN  /\ Facts(a) = Facts(b)
               /\ a.touched = b.touched /\ a.inbound = b.inbound /\ a.declared = b.declared
               /\ a.neighborhood = b.neighborhood
               /\ a.opaque = b.opaque /\ a.unresolved = b.unresolved
<1> DEFINE touched == {s \in Symbols(tr) : s.file \in changed \ Quoted}
           inbound == [s \in touched |-> Inbound(tr, s)]
           opaque  == {f \in changed : f \in Quoted \/ SymbolsOf(tr, f) = {}}
           Rec(i) == [touched |-> touched, inbound |-> inbound,
                      neighborhood |-> Neighborhood(tr, touched),
                      declared |-> Resolved(tr, refs), unresolved |-> Unresolved(tr, refs),
                      opaque |-> opaque, ingestion |-> i]
<1>1. \A x : Account(changed, tr, x, refs) = Rec(Floored(tr, x, touched))
  BY DEF Account
<1> HIDE DEF touched, inbound, opaque
<1>2. \A i : Facts(Rec(i)) = Rec("scip")
  BY DEF Facts
<1>3. \A i, j : /\ Rec(i).touched = Rec(j).touched /\ Rec(i).inbound = Rec(j).inbound
               /\ Rec(i).declared = Rec(j).declared /\ Rec(i).neighborhood = Rec(j).neighborhood
               /\ Rec(i).opaque = Rec(j).opaque /\ Rec(i).unresolved = Rec(j).unresolved
  OBVIOUS
<1> HIDE DEF Rec
<1> QED BY <1>1, <1>2, <1>3

LEMMA FactsOfBaseline ==
    ASSUME NEW h, NEW weak, NEW refs
    PROVE  Facts(Baseline(h, weak, refs)) = Facts(Baseline(h, {}, refs))
BY DEF Facts, Baseline

-----------------------------------------------------------------------------
\* The documents stay documents, and their claims ranked.
Documents(d) ==
    /\ DOMAIN d = {"own", "up", "checkpoints", "assessments", "checks", "entries"}
    /\ WellRanked(d.own) /\ WellRanked(d.up)
    /\ IsSequence(d.checkpoints)
    /\ IsFiniteSet(DOMAIN d.entries) /\ Nobody \notin DOMAIN d.entries
DocsInv == story \in Stories /\ Documents(docs)

\* A checkpoint that is written again or added leaves a sequence.
LEMMA PutSequence ==
    ASSUME NEW s, NEW c, IsSequence(s)
    PROVE  IsSequence(Put(s, c)) /\ Len(Put(s, c)) <= Len(s) + 1
<1> DEFINE S == {s[i] : i \in DOMAIN s}
           r == Put(s, c)
<1>1. s \in Seq(S) /\ Len(s) \in Nat /\ DOMAIN s = 1..Len(s)
  BY DEF IsSequence
<1> HIDE DEF S
<1>2. CASE \E i \in DOMAIN s : s[i].key = c.key
  <2>1. r = [i \in DOMAIN s |-> IF s[i].key = c.key THEN c ELSE s[i]]
    BY <1>2 DEF Put
  <2> HIDE DEF r
  <2>2. DOMAIN r = 1..Len(s) /\ r = [i \in 1..Len(s) |-> r[i]]
    BY <1>1, <2>1
  <2>3. r \in Seq({r[i] : i \in DOMAIN r}) /\ Len(r) = Len(s)
    BY <1>1, <2>2
  <2> QED BY <1>1, <2>3 DEF IsSequence, r
<1>3. CASE ~\E i \in DOMAIN s : s[i].key = c.key
  <2>1. r = Append(s, c)
    BY <1>3 DEF Put
  <2> HIDE DEF r
  <2>2. /\ DOMAIN r = 1..(Len(s) + 1) /\ Len(r) = Len(s) + 1
        /\ r \in Seq(S \cup {c})
    BY <1>1, <2>1
  <2>3. r = [i \in 1..Len(r) |-> r[i]] /\ Len(r) \in Nat
    BY <2>2
  <2>4. r \in Seq({r[i] : i \in DOMAIN r})
    BY <1>1, <2>2, <2>3
  <2> QED BY <1>1, <2>2, <2>4 DEF IsSequence, r
<1> QED BY <1>2, <1>3

LEMMA DocsStep ==
    ASSUME DocsInv, [Next]_vars
    PROVE  DocsInv'
<1>1. ASSUME NEW draft \in Tells[story].drafts, Write(draft) PROVE DocsInv'
  <2>1. /\ draft.kind \in DraftKinds /\ (draft.kind = "plan" => WellRanked(draft.doc))
        /\ draft.kind = "entry" => draft.id # Nobody
    BY StoryAssumption DEF DocsInv, Documents
  <2>2. docs' = With(docs, draft) /\ story' = story
    BY <1>1 DEF Write
  <2>3. CASE draft.kind = "plan"
    <3>1. docs' = [docs EXCEPT !.own = draft.doc]
      BY <2>2, <2>3 DEF With
    <3> QED BY <2>1, <2>2, <2>3, <3>1 DEF DocsInv, Documents
  <2>4. CASE draft.kind = "checkpoint"
    <3>1. docs' = [docs EXCEPT !.checkpoints = Put(docs.checkpoints, draft.doc)]
      BY <2>2, <2>4 DEF With
    <3>2. IsSequence(Put(docs.checkpoints, draft.doc))
      BY PutSequence DEF DocsInv, Documents
    <3> QED BY <2>2, <3>1, <3>2 DEF DocsInv, Documents
  <2>5. CASE draft.kind = "entry"
    <3> DEFINE new == Over([id \in {draft.id} |-> draft.doc], docs.entries)
    <3>1. docs' = [docs EXCEPT !.entries = new]
      BY <2>2, <2>5 DEF With
    <3>2. DOMAIN new = DOMAIN docs.entries \cup {draft.id}
      BY DEF Over
    <3> HIDE DEF new
    <3>3. IsFiniteSet(DOMAIN new) /\ Nobody \notin DOMAIN new
      BY <2>1, <2>5, <3>2, FS_AddElement DEF DocsInv, Documents
    <3> QED BY <2>2, <3>1, <3>3 DEF DocsInv, Documents
  <2>6. CASE draft.kind \in {"assessments", "check", "scope"}
    <3>1. /\ DOMAIN docs' = DOMAIN docs /\ docs'.own = docs.own /\ docs'.up = docs.up
          /\ docs'.checkpoints = docs.checkpoints /\ docs'.entries = docs.entries
      BY <2>2, <2>6 DEF With, DocsInv, Documents
    <3> QED BY <2>2, <3>1 DEF DocsInv, Documents
  <2> QED BY <2>1, <2>3, <2>4, <2>5, <2>6 DEF DraftKinds
<1>2. CASE UNCHANGED <<story, docs>>
  BY <1>2 DEF DocsInv, Documents
<1>3. ASSUME NEW e \in Tells[story].edits, Edit(e[1], e[2]) PROVE DocsInv'
  BY <1>2, <1>3 DEF Edit
<1>4. CASE Commit \/ BaseMoves \/ WorldChanges \/ Restart
  BY <1>2, <1>4 DEF Commit, BaseMoves, WorldChanges, Restart
<1>5. CASE Asks \/ Answers
  BY <1>2, <1>5 DEF Asks, AskBaseline, AskClass, AskCascade, Ask, Answers, CannotTestify,
                    LooksAtGit, IndexesFiles, IndexesHead, Answer
<1>6. CASE Begins \/ Ends
  BY <1>2, <1>6 DEF Begins, BeginPlanExit, BeginVerifyExit, BeginClosure, Begin,
                    Ends, EndPlanExit, ExecuteExit, EndVerifyExit, JudgeScope, Join, End
<1>7. CASE UNCHANGED vars
  BY <1>2, <1>7 DEF vars
<1> QED BY <1>1, <1>3, <1>4, <1>5, <1>6, <1>7 DEF Next, Happens, Closed

\* Every claim of the projection is a claim of one of the two plans.
LEMMA ClaimsRanked ==
    ASSUME NEW d, Documents(d), NEW t \in Targets(d)
    PROVE  Claims(d)[t].entailed \in Nat /\ Claims(d)[t].said \in Nat
BY DEF Targets, Claims, Scope, Work, Over, Documents, WellRanked

\* Three numbers have a largest.
LEMMA LargestOfThree ==
    ASSUME NEW a \in Nat, NEW e \in Nat, NEW s \in Nat
    PROVE  /\ Largest({a, e, s}) \in Nat
           /\ \A m \in {a, e, s} : m <= Largest({a, e, s})
<1>1. \A S : (\E n \in S : \A m \in S : m <= n) =>
            Largest(S) \in S /\ \A m \in S : m <= Largest(S)
  BY DEF Largest
<1>2. \E n \in {a, e, s} : \A m \in {a, e, s} : m <= n
  <2>1. CASE e <= a /\ s <= a
    BY <2>1
  <2>2. CASE a <= e /\ s <= e
    BY <2>2
  <2>3. CASE a <= s /\ e <= s
    BY <2>3
  <2> QED BY <2>1, <2>2, <2>3
<1> QED BY <1>1, <1>2

LEMMA RanksHaveALargest ==
    ASSUME NEW S, S \subseteq 0..4, S # {}
    PROVE  \E n \in S : \A m \in S : m <= n
<1>1. \A m \in S : m = 0 \/ m = 1 \/ m = 2 \/ m = 3 \/ m = 4
  OBVIOUS
<1>2. CASE 4 \in S
  BY <1>1, <1>2
<1>3. CASE 4 \notin S /\ 3 \in S
  BY <1>1, <1>3
<1>4. CASE 4 \notin S /\ 3 \notin S /\ 2 \in S
  BY <1>1, <1>4
<1>5. CASE 4 \notin S /\ 3 \notin S /\ 2 \notin S /\ 1 \in S
  BY <1>1, <1>5
<1>6. CASE 4 \notin S /\ 3 \notin S /\ 2 \notin S /\ 1 \notin S
  <2>1. \A m \in S : m = 0
    BY <1>1, <1>6
  <2>2. PICK n \in S : TRUE
    OBVIOUS
  <2>3. \A m \in S : m <= n
    BY <2>1, <2>2
  <2> QED BY <2>2, <2>3
<1> QED BY <1>2, <1>3, <1>4, <1>5, <1>6

LEMMA ClassIsARank ==
    ASSUME NEW account, NEW refs
    PROVE  ClassOf(account, refs) \in Nat
<1> DEFINE honored == UNION {CanonicalTouched(account, r) : r \in refs}
           classes == {WitnessClass(InboundCount(account, s)) : s \in honored}
<1>1. ClassOf(account, refs) =
          IF classes = {} THEN 0 ELSE CHOOSE c \in classes : \A e \in classes : e <= c
  BY DEF ClassOf
<1>2. classes \subseteq {1, 3, 4}
  BY DEF WitnessClass
<1> HIDE DEF classes
<1>3. classes # {} => \E c \in classes : \A e \in classes : e <= c
  <2>1. classes \subseteq 0..4
    BY <1>2
  <2> QED BY <2>1, RanksHaveALargest
<1>4. CASE classes = {}
  BY <1>1, <1>4
<1>5. CASE classes # {}
  <2> DEFINE top == CHOOSE c \in classes : \A e \in classes : e <= c
  <2>1. top \in classes
    BY <1>3, <1>5
  <2>2. ClassOf(account, refs) = top
    BY <1>1, <1>5
  <2> HIDE DEF top
  <2> QED BY <1>2, <2>1, <2>2
<1> QED BY <1>4, <1>5

LEMMA DeclaredIsARank ==
    ASSUME NEW d, NEW t
    PROVE  DeclaredRank(d, t) \in Nat
<1> DEFINE S == {0} \cup ({k.class : k \in ChecksOf(d, t)} \cap Ranks)
<1>1. S \subseteq 0..4 /\ 0 \in S
  BY DEF Ranks
<1>2. DeclaredRank(d, t) = Largest(S)
  BY DEF DeclaredRank
<1> HIDE DEF S
<1>3. \E n \in S : \A m \in S : m <= n
  BY <1>1, RanksHaveALargest
<1>4. Largest(S) \in S
  BY <1>3 DEF Largest
<1>5. Largest(S) \in 0..4
  BY <1>1, <1>4
<1> QED BY <1>2, <1>5

-----------------------------------------------------------------------------
\* What the memo and a question on hold know.  None of it is about the repository as
\* it is, so that nothing that happens there can spoil it.
IsAccount(account, t, refs) ==
    \E weak : account = Account(ChangedFiles(t), t.work, weak, refs)

Truthful(e) == e.account # Unavailable /\ ~e.raced =>
    /\ e.mode = "diff" => \E t \in Snapshots :
           e.token = TreeToken(t) /\ e.base = t.base /\ IsAccount(e.account, t, e.refs)
    /\ e.mode = "baseline" => \E weak : e.account = Baseline(e.token, weak, e.refs)

MemoInv == \A e \in memo : Truthful(e)

TreesInv == story \in Stories /\ {base, head, work} \subseteq Trees

\* A question that is answered knows a snapshot its token and its merge base fit.
Known(p) == \E t \in Snapshots :
    TreeToken(t) = TreeToken(p.of) /\ t.base = p.of.base /\ IsAccount(p.account, t, p.refs)

TokenOf(p) == IF p.mode = "baseline" THEN p.of.head ELSE TreeToken(p.of)
IsQuestion(p) ==
    /\ p = [mode |-> p.mode, refs |-> p.refs, token |-> p.token, step |-> p.step,
            changed |-> p.changed, account |-> p.account, of |-> p.of, raced |-> p.raced]
    /\ p.of \in Snapshots /\ p.token \in {None, TokenOf(p)}
    /\ p.step = "files" => p.mode = "diff" /\ (~p.raced => p.changed = ChangedFiles(p.of))
    /\ p.step = "done" /\ p.mode = "diff" /\ p.account # Unavailable /\ ~p.raced => Known(p)

ProbeInv ==
    /\ call = None => probe = None
    /\ probe # None =>
         /\ IsQuestion(probe)
         /\ call.gate # "plan" =>
              /\ probe.mode = "diff"
              /\ probe.refs = IF call.gate = "close" /\ call.class # None
                              THEN call.scope.refs ELSE UnionRefs(call.docs)

\* What happens in the world leaves the process alone, or ends it.
LEMMA HappensOutside ==
    ASSUME Happens
    PROVE  /\ UNCHANGED <<memo, call, probe>> \/ (memo' = {} /\ call' = None /\ probe' = None)
           /\ UNCHANGED <<forecast, phase, story>> /\ phase # "closed"
BY DEF Happens, Write, Edit, Commit, BaseMoves, WorldChanges, Restart, Open, known, asked

LEMMA TreesStep ==
    ASSUME TreesInv, [Next]_vars
    PROVE  TreesInv'
<1>1. ASSUME NEW e \in Tells[story].edits, Edit(e[1], e[2]) PROVE TreesInv'
  <2>1. e[1] \in Files /\ e[2] \in Versions
    BY StoryAssumption DEF TreesInv
  <2>2. work' \in Trees
    BY <1>1, <2>1 DEF Edit, TreesInv, Trees
  <2> QED BY <1>1, <2>2 DEF Edit, TreesInv
<1>2. CASE Commit \/ BaseMoves
  BY <1>2, WitnessAssumption DEF Commit, BaseMoves, TreesInv, Trees
<1>3. CASE UNCHANGED <<story, tree>>
  BY <1>3 DEF tree, TreesInv
<1>4. ASSUME NEW draft \in Tells[story].drafts, Write(draft) PROVE TreesInv'
  BY <1>3, <1>4 DEF Write
<1>5. CASE WorldChanges \/ Restart
  BY <1>3, <1>5 DEF WorldChanges, Restart
<1>6. CASE Asks
  BY <1>3, <1>6 DEF Asks, AskBaseline, AskClass, AskCascade, Ask
<1>7. CASE Answers
  BY <1>3, <1>7 DEF Answers, CannotTestify, LooksAtGit, IndexesFiles, IndexesHead, Answer
<1>8. CASE Begins
  BY <1>3, <1>8 DEF Begins, BeginPlanExit, BeginVerifyExit, BeginClosure, Begin
<1>9. CASE Ends
  BY <1>3, <1>9 DEF Ends, EndPlanExit, ExecuteExit, EndVerifyExit, JudgeScope, Join, End
<1>10. CASE UNCHANGED vars
  BY <1>3, <1>10 DEF vars
<1> QED BY <1>1, <1>2, <1>4, <1>5, <1>6, <1>7, <1>8, <1>9, <1>10 DEF Next, Happens, Closed

LEMMA NowIsOne ==
    ASSUME TreesInv
    PROVE  /\ Now \in Snapshots
           /\ Now.base = base /\ Now.head = head /\ Now.work = work
BY DEF TreesInv, Now, Snapshots

\* What the memo changes of a question.
LEMMA AnsweredAtOnce ==
    ASSUME NEW q, IsQuestion(q), NEW account, NEW raced, NEW p,
           p = [q EXCEPT !.step = "done", !.account = account, !.raced = raced]
    PROVE  p = [mode |-> q.mode, refs |-> q.refs, token |-> q.token, step |-> "done",
                changed |-> q.changed, account |-> account, of |-> q.of, raced |-> raced]
BY DEF IsQuestion

LEMMA NotAsked ==
    ASSUME NEW q, IsQuestion(q), NEW p, p = [q EXCEPT !.step = "done"]
    PROVE  p = [mode |-> q.mode, refs |-> q.refs, token |-> q.token, step |-> "done",
                changed |-> q.changed, account |-> q.account, of |-> q.of, raced |-> q.raced]
BY DEF IsQuestion

\* A question is answered at once by an entry of this token and merge base.
LEMMA AskedIsOne ==
    ASSUME TreesInv, MemoInv, NEW mode \in {"diff", "baseline"}, NEW refs
    PROVE  /\ IsQuestion(Asked(mode, refs))
           /\ Asked(mode, refs).mode = mode /\ Asked(mode, refs).refs = refs
<1> DEFINE q == Question(mode, refs, Token(mode))
           kept == Kept(mode, refs, q.token)
           e == CHOOSE x \in kept : TRUE
           hit == [q EXCEPT !.step = "done", !.account = e.account, !.raced = e.raced \/ e.base # base]
<1>1. q = [mode |-> mode, refs |-> refs, token |-> Token(mode), step |-> "git", changed |-> {},
           account |-> Unavailable, of |-> Now, raced |-> FALSE]
  BY DEF Question
<1>2. Now \in Snapshots /\ Now.head = head /\ Now.base = base
  BY NowIsOne
<1>3. Token(mode) \in {None, IF mode = "baseline" THEN Now.head ELSE TreeToken(Now)}
  BY <1>2 DEF Token
<1> HIDE DEF q
<1>4. IsQuestion(q) /\ q.mode = mode /\ q.refs = refs
  BY <1>1, <1>2, <1>3 DEF IsQuestion, TokenOf
<1>5. LET p == [q EXCEPT !.step = "done"] IN IsQuestion(p) /\ p.mode = mode /\ p.refs = refs
  <2> DEFINE p == [q EXCEPT !.step = "done"]
  <2>1. p = [mode |-> mode, refs |-> refs, token |-> Token(mode), step |-> "done", changed |-> {},
             account |-> Unavailable, of |-> Now, raced |-> FALSE]
    <3>1. p = [q EXCEPT !.step = "done"]
      OBVIOUS
    <3> HIDE DEF p
    <3>2. p = [mode |-> q.mode, refs |-> q.refs, token |-> q.token, step |-> "done",
               changed |-> q.changed, account |-> q.account, of |-> q.of, raced |-> q.raced]
      BY <1>4, <3>1, NotAsked
    <3> QED BY <1>1, <3>2
  <2> HIDE DEF p
  <2>2. IsQuestion(p) /\ p.mode = mode /\ p.refs = refs
    BY <2>1, <1>2, <1>3 DEF IsQuestion, TokenOf
  <2> QED BY <2>2 DEF p
<1>6. ASSUME kept # {}, q.token # None PROVE IsQuestion(hit) /\ hit.mode = mode /\ hit.refs = refs
  <2>1. e \in memo /\ e.mode = mode /\ e.refs = refs /\ e.token = q.token
    BY <1>6 DEF Kept
  <2>2. Truthful(e)
    BY <2>1 DEF MemoInv
  <2> HIDE DEF e
  <2>3. hit = [mode |-> mode, refs |-> refs, token |-> Token(mode), step |-> "done", changed |-> {},
               account |-> e.account, of |-> Now, raced |-> e.raced \/ e.base # base]
    <3> DEFINE r == e.raced \/ e.base # base
    <3>1. hit = [q EXCEPT !.step = "done", !.account = e.account, !.raced = r]
      OBVIOUS
    <3> HIDE DEF hit
    <3> HIDE DEF r
    <3>2. hit = [mode |-> q.mode, refs |-> q.refs, token |-> q.token, step |-> "done",
                 changed |-> q.changed, account |-> e.account, of |-> q.of, raced |-> r]
      BY <1>4, <3>1, AnsweredAtOnce
    <3>3. hit = [mode |-> mode, refs |-> refs, token |-> Token(mode), step |-> "done",
                 changed |-> {}, account |-> e.account, of |-> Now, raced |-> r]
      BY <1>1, <3>2
    <3> QED BY <3>3 DEF r
  <2> HIDE DEF hit
  <2>4. ASSUME mode = "diff", e.account # Unavailable, ~e.raced, e.base = base
        PROVE  Known(hit)
    <3>1. PICK t \in Snapshots : e.token = TreeToken(t) /\ e.base = t.base /\ IsAccount(e.account, t, e.refs)
      BY <2>1, <2>2, <2>4 DEF Truthful
    <3>2. e.token = TreeToken(Now)
      BY <1>1, <1>3, <1>6, <2>1, <2>4
    <3> QED BY <1>2, <2>1, <2>3, <2>4, <3>1, <3>2 DEF Known
  <2> QED BY <1>2, <1>3, <2>3, <2>4 DEF IsQuestion, TokenOf
<1>7. \/ Asked(mode, refs) = q \/ Asked(mode, refs) = [q EXCEPT !.step = "done"]
      \/ kept # {} /\ q.token # None /\ Asked(mode, refs) = hit
  <2>1. CASE refs = {}
    BY <2>1 DEF Asked, q
  <2>2. CASE refs # {} /\ (q.token = None \/ kept = {})
    BY <2>2 DEF Asked, q
  <2>3. CASE refs # {} /\ q.token # None /\ kept # {}
    BY <2>3 DEF Asked, q
  <2> QED BY <2>1, <2>2, <2>3
<1> QED BY <1>4, <1>5, <1>6, <1>7

\* An answer that is true of the question's snapshot is one that may be kept.
LEMMA AnswerKept ==
    ASSUME MemoInv, ProbeInv, probe # None, NEW account, NEW raced, Answer(account, raced),
           account # Unavailable /\ ~raced =>
             /\ probe.mode = "diff" => IsAccount(account, probe.of, probe.refs)
             /\ probe.mode = "baseline" =>
                    \E weak : account = Baseline(probe.of.head, weak, probe.refs)
    PROVE  MemoInv' /\ ProbeInv'
<1>1. IsQuestion(probe)
  BY DEF ProbeInv
<1>2. probe' = [mode |-> probe.mode, refs |-> probe.refs, token |-> probe.token, step |-> "done",
                changed |-> probe.changed, account |-> account, of |-> probe.of, raced |-> raced]
  BY <1>1 DEF Answer, IsQuestion
<1>3. probe.of \in Snapshots /\ probe.token \in {None, TokenOf(probe)}
  BY <1>1 DEF IsQuestion
<1>4. IsQuestion(probe') /\ probe'.mode = probe.mode /\ probe'.refs = probe.refs
  BY <1>2, <1>3 DEF IsQuestion, TokenOf, Known
<1>5. call' = call
  BY DEF Answer
<1>6. ProbeInv'
  BY <1>4, <1>5 DEF ProbeInv
<1> DEFINE e == [mode |-> probe.mode, token |-> probe.token, refs |-> probe.refs,
                 account |-> account, base |-> probe.of.base, raced |-> raced]
<1>7. ASSUME probe.token # None PROVE Truthful(e)
  BY <1>3, <1>7 DEF Truthful, TokenOf
<1>8. memo' = IF probe.token = None THEN memo ELSE memo \cup {e}
  BY DEF Answer
<1> HIDE DEF e
<1>9. MemoInv'
  BY <1>7, <1>8 DEF MemoInv
<1> QED BY <1>6, <1>9

LEMMA KnowledgeStep ==
    ASSUME TreesInv, MemoInv, ProbeInv, [Next]_vars
    PROVE  MemoInv' /\ ProbeInv'
<1>1. CASE UNCHANGED <<memo, call, probe>>
  BY <1>1 DEF MemoInv, ProbeInv
<1>2. CASE Happens
  BY <1>1, <1>2, HappensOutside DEF MemoInv, ProbeInv
<1>3. ASSUME NEW mode \in {"diff", "baseline"}, NEW refs, Ask(mode, refs), call # None,
             call.gate # "plan" =>
               /\ mode = "diff"
               /\ refs = IF call.gate = "close" /\ call.class # None
                         THEN call.scope.refs ELSE UnionRefs(call.docs)
      PROVE  MemoInv' /\ ProbeInv'
  <2>1. probe' = Asked(mode, refs) /\ memo' = memo /\ call' = call
    BY <1>3 DEF Ask, known
  <2> QED BY <1>3, <2>1, AskedIsOne DEF MemoInv, ProbeInv
<1>4. CASE AskBaseline
  BY <1>3, <1>4 DEF AskBaseline, Running
<1>5. CASE AskClass
  BY <1>3, <1>5 DEF AskClass, Running
<1>6. CASE AskCascade
  BY <1>3, <1>6 DEF AskCascade, Running
<1>7. CASE CannotTestify
  BY <1>7, AnswerKept DEF CannotTestify, Waits
<1>8. CASE LooksAtGit
  <2>1. /\ IsQuestion(probe) /\ probe # None /\ probe.step = "git" /\ probe.mode = "diff"
        /\ memo' = memo /\ call' = call
    BY <1>8 DEF LooksAtGit, Waits, ProbeInv, known
  <2>2. PICK changed \in Visible :
          probe' = [probe EXCEPT !.step = "files", !.changed = changed,
                                 !.raced = changed # ChangedFiles(probe.of)]
    BY <1>8 DEF LooksAtGit
  <2>3. probe' = [mode |-> probe.mode, refs |-> probe.refs, token |-> probe.token, step |-> "files",
                  changed |-> changed, account |-> probe.account, of |-> probe.of,
                  raced |-> changed # ChangedFiles(probe.of)]
    BY <2>1, <2>2 DEF IsQuestion
  <2>4. IsQuestion(probe') /\ probe'.mode = probe.mode /\ probe'.refs = probe.refs
    BY <2>1, <2>3 DEF IsQuestion, TokenOf
  <2> QED BY <2>1, <2>4 DEF MemoInv, ProbeInv
<1>9. CASE IndexesFiles
  <2> DEFINE account == Account(probe.changed, work, prober.weak, probe.refs)
             told == IF Symbols(work) = {} THEN Unavailable ELSE Parsed(account, prober.garbled)
             raced == probe.raced \/ work # probe.of.work
  <2>1. IsQuestion(probe) /\ probe # None /\ probe.step = "files"
    BY <1>9 DEF IndexesFiles, Waits, ProbeInv
  <2>2. Answer(told, raced)
    BY <1>9 DEF IndexesFiles
  <2>3. probe.mode = "diff" /\ (~probe.raced => probe.changed = ChangedFiles(probe.of))
    BY <2>1 DEF IsQuestion
  <2>4. told # Unavailable => told = account
    BY DEF Parsed
  <2>5. told # Unavailable /\ ~raced => IsAccount(told, probe.of, probe.refs)
    BY <2>3, <2>4 DEF IsAccount
  <2> HIDE DEF told, raced
  <2> QED BY <2>1, <2>2, <2>3, <2>5, AnswerKept
<1>10. CASE IndexesHead
  <2> DEFINE account == Baseline(head, prober.weak, probe.refs)
             told == IF Symbols(head) = {} THEN Unavailable
                     ELSE ParsedBaseline(account, prober.garbled)
             raced == head # probe.of.head
  <2>1. probe # None /\ probe.mode = "baseline"
    BY <1>10 DEF IndexesHead, Waits
  <2>2. Answer(told, raced)
    BY <1>10 DEF IndexesHead
  <2>3. told # Unavailable => told = account
    BY DEF ParsedBaseline
  <2>4. told # Unavailable /\ ~raced => \E weak : told = Baseline(probe.of.head, weak, probe.refs)
    BY <2>3
  <2> HIDE DEF told, raced
  <2> QED BY <2>1, <2>2, <2>4, AnswerKept
<1>11. CASE Begins
  <2>1. call = None /\ UNCHANGED <<memo, probe>>
    BY <1>11 DEF Begins, BeginPlanExit, BeginVerifyExit, BeginClosure, Begin, known
  <2> QED BY <2>1 DEF MemoInv, ProbeInv
<1>12. CASE EndPlanExit \/ EndVerifyExit \/ JudgeScope \/ Join
  <2>1. memo' = memo /\ probe' = None
    BY <1>12 DEF EndPlanExit, EndVerifyExit, JudgeScope, Join, End, known
  <2> QED BY <2>1 DEF MemoInv, ProbeInv
<1>13. CASE ExecuteExit
  BY <1>1, <1>13 DEF ExecuteExit, known, asked
<1>14. CASE UNCHANGED vars
  BY <1>1, <1>14 DEF vars, known, asked
<1> QED BY <1>2, <1>4, <1>5, <1>6, <1>7, <1>8, <1>9, <1>10, <1>11, <1>12, <1>13, <1>14
        DEF Next, Asks, Answers, Ends, Closed

KnowledgeInv == TreesInv /\ MemoInv /\ ProbeInv

LEMMA KnowledgeInit == Init => KnowledgeInv
BY WitnessAssumption DEF Init, KnowledgeInv, TreesInv, MemoInv, ProbeInv, Trees

LEMMA KnowledgeKept == KnowledgeInv /\ [Next]_vars => KnowledgeInv'
BY TreesStep, KnowledgeStep DEF KnowledgeInv

\* No edit, commit, revert or lost git makes an account of the memo speak of another
\* tree, but for what changed while it was made and what its token does not hold.
THEOREM KeptAccountsAreCurrent == Spec => []AccountIsCurrent
<1>1. KnowledgeInv => AccountIsCurrent
  <2> SUFFICES ASSUME KnowledgeInv, NEW e \in memo, e.account # Unavailable, ~e.raced
               PROVE  /\ e.mode = "diff" /\ e.token = TreeToken(Now) /\ e.base = base
                            /\ Dirty(Now) \cap Quoted = {} =>
                                Facts(e.account) = Facts(AccountOf(Now, e.refs))
                      /\ e.mode = "baseline" /\ e.token = head =>
                            Facts(e.account) = Facts(Baseline(head, {}, e.refs))
    BY DEF AccountIsCurrent
  <2>1. Truthful(e)
    BY DEF KnowledgeInv, MemoInv
  <2>2. ASSUME e.mode = "diff", e.token = TreeToken(Now), e.base = base, Dirty(Now) \cap Quoted = {}
        PROVE  Facts(e.account) = Facts(AccountOf(Now, e.refs))
    <3>1. PICK t \in Snapshots :
            e.token = TreeToken(t) /\ e.base = t.base /\ IsAccount(e.account, t, e.refs)
      BY <2>1, <2>2 DEF Truthful
    <3>2. Now \in Snapshots /\ Now.base = base
      BY NowIsOne DEF KnowledgeInv
    <3>3. ChangedFiles(t) = ChangedFiles(Now) /\ t.work = Now.work
      BY <2>2, <3>1, <3>2, TokenTells
    <3>4. PICK weak : e.account = Account(ChangedFiles(Now), Now.work, weak, e.refs)
      BY <3>1, <3>3 DEF IsAccount
    <3> QED BY <3>4, SourcesDoNotMatter DEF AccountOf
  <2>3. ASSUME e.mode = "baseline", e.token = head
        PROVE  Facts(e.account) = Facts(Baseline(head, {}, e.refs))
    <3>1. PICK weak : e.account = Baseline(head, weak, e.refs)
      BY <2>1, <2>3 DEF Truthful
    <3> QED BY <3>1, FactsOfBaseline
  <2> QED BY <2>2, <2>3
<1> QED BY <1>1, KnowledgeInit, KnowledgeKept, PTL DEF Spec

\* An answer to a question is the account of the snapshot it was asked of.
LEMMA AnswerIsOf ==
    ASSUME NEW p, IsQuestion(p), p.step = "done", p.mode = "diff", p.account # Unavailable,
           ~p.raced, Dirty(p.of) \cap Quoted = {} \/ p.account.opaque = {}
    PROVE  LET then == AccountOf(p.of, p.refs)
           IN  /\ p.account.touched = then.touched /\ p.account.inbound = then.inbound
               /\ p.account.declared = then.declared
               /\ p.account.neighborhood = then.neighborhood
               /\ p.account.opaque = then.opaque /\ p.account.unresolved = then.unresolved
<1>1. PICK t \in Snapshots :
        TreeToken(t) = TreeToken(p.of) /\ t.base = p.of.base /\ IsAccount(p.account, t, p.refs)
  BY DEF IsQuestion, Known
<1>2. PICK weak : p.account = Account(ChangedFiles(t), t.work, weak, p.refs)
  BY <1>1 DEF IsAccount
<1>3. p.of \in Snapshots
  BY DEF IsQuestion
<1>4. ChangedFiles(t) = ChangedFiles(p.of) /\ Dirty(t) = Dirty(p.of)
  BY <1>1, <1>3, TokenTells
<1>5. Dirty(t) \cap Quoted = {}
  <2>1. CASE p.account.opaque = {}
    <3>1. p.account.opaque = {f \in ChangedFiles(t) : f \in Quoted \/ SymbolsOf(t.work, f) = {}}
      BY <1>2 DEF Account
    <3> QED BY <2>1, <3>1 DEF ChangedFiles
  <2> QED BY <1>4, <2>1
<1>6. t.work = p.of.work
  BY <1>1, <1>3, <1>5, TokenTells
<1>7. p.account = Account(ChangedFiles(p.of), p.of.work, weak, p.refs)
  BY <1>2, <1>4, <1>6
<1> QED BY <1>7, SourcesDoNotMatter DEF AccountOf

\* A closure without advice has accounted for everything that was touched and declared
\* when it asked, whatever the memo had and whatever happened since.
THEOREM SilenceIsKnowledge == Spec => []SilentMeansCovered
<1>1. KnowledgeInv => SilentMeansCovered
  <2> SUFFICES ASSUME KnowledgeInv, Joins, ~probe.raced, call.scope.refs # {},
                      call.advice \cup Advisories(probe.account, call.scope.refs) = {}
               PROVE  LET then == AccountOf(probe.of, call.scope.refs)
                      IN  /\ UndeclaredCascade(then) = {} /\ OverDeclared(then) = {}
                          /\ then.opaque = {} /\ then.unresolved = {}
    BY DEF SilentMeansCovered
  <2> DEFINE then == AccountOf(probe.of, call.scope.refs)
  <2>1. probe # None /\ probe.step = "done" /\ call.gate = "close" /\ call.class # None
    BY DEF Joins, Done, Running
  <2>2. IsQuestion(probe) /\ probe.mode = "diff" /\ probe.refs = call.scope.refs
    BY <2>1 DEF KnowledgeInv, ProbeInv
  <2>3. Testifies(probe.account) /\ AdvisoriesOf(probe.account) = {}
    BY DEF Advisories
  <2>4. probe.account # Unavailable
    BY <2>3 DEF Testifies
  <2>5. /\ UndeclaredCascade(probe.account) = {} /\ OverDeclared(probe.account) = {}
        /\ probe.account.opaque = {} /\ probe.account.unresolved = {}
    BY <2>3 DEF AdvisoriesOf
  <2>6. /\ probe.account.touched = then.touched /\ probe.account.declared = then.declared
        /\ probe.account.neighborhood = then.neighborhood
        /\ probe.account.opaque = then.opaque /\ probe.account.unresolved = then.unresolved
    BY <2>1, <2>2, <2>4, <2>5, AnswerIsOf
  <2> HIDE DEF then
  <2>7. UndeclaredCascade(then) = {} /\ OverDeclared(then) = {}
    BY <2>5, <2>6 DEF UndeclaredCascade, OverDeclared, Adjacent
  <2> QED BY <2>5, <2>6, <2>7 DEF then
<1> QED BY <1>1, KnowledgeInit, KnowledgeKept, PTL DEF Spec

-----------------------------------------------------------------------------
\* What a closure that does not stop has found: grades, and no work out of its scope.
GradedBy(c, t) ==
    LET then == AccountOf(c.class.of, UnionRefs(c.docs))
    IN  \A k \in {ClassOf(then, Claims(c.docs)[t].refs), Claims(c.docs)[t].entailed,
                  Claims(c.docs)[t].said} : k <= DeclaredRank(c.docs, t)
Graded(c) ==
    ~c.stops /\ "CHK_CLASS_WITNESS_UNAVAILABLE" \notin c.advice
      /\ ~c.class.raced /\ Dirty(c.class.of) \cap Quoted = {} =>
        \A t \in Targets(c.docs) : ChecksOf(c.docs, t) # {} => GradedBy(c, t)
Contained(c) ==
    ~c.stops /\ DiffBlocks /\ Declares(c.scope) /\ Paths(c.scope) # {} /\ c.judged # None =>
        Offenders(c.judged, Paths(c.scope)) = {}

CallInv ==
    /\ call # None =>
         /\ call = [gate |-> call.gate, docs |-> call.docs, scope |-> call.scope,
                    stops |-> call.stops, advice |-> call.advice, class |-> call.class,
                    judged |-> call.judged]
         /\ phase # "closed" /\ Documents(call.docs)
         /\ call.class # None => Graded(call) /\ Contained(call)
    /\ forecast # None =>
         forecast = [boundary |-> forecast.boundary, predicted |-> forecast.predicted,
                     joined |-> forecast.joined, outcome |-> forecast.outcome]

\* No code, no class.
LEMMA NoCodeNoClass ==
    ASSUME NEW account
    PROVE  ClassOf(account, {}) = 0
BY DEF ClassOf

LEMMA ClassReadsFacts ==
    ASSUME NEW a, NEW b, NEW refs, a.touched = b.touched, a.inbound = b.inbound
    PROVE  ClassOf(a, refs) = ClassOf(b, refs)
BY DEF ClassOf, CanonicalTouched, InboundCount

\* The class that is judged is the one of the repository the question was asked of.
LEMMA JudgedByTheCode ==
    ASSUME KnowledgeInv, CallInv, Running("close"), call.class = None, Done, ~Underclaims,
           "CHK_CLASS_WITNESS_UNAVAILABLE" \notin Unseen, ~probe.raced,
           Dirty(probe.of) \cap Quoted = {},
           NEW t \in Targets(call.docs), ChecksOf(call.docs, t) # {}
    PROVE  LET then == AccountOf(probe.of, UnionRefs(call.docs))
           IN  \A k \in {ClassOf(then, Claims(call.docs)[t].refs), Claims(call.docs)[t].entailed,
                         Claims(call.docs)[t].said} : k <= DeclaredRank(call.docs, t)
<1> DEFINE d == call.docs
           refs == Claims(d)[t].refs
           then == AccountOf(probe.of, UnionRefs(d))
           classes == Classes(d, probe.account)
<1>1. /\ call # None /\ call.gate = "close" /\ probe # None /\ probe.step = "done"
      /\ IsQuestion(probe) /\ probe.mode = "diff" /\ probe.refs = UnionRefs(d)
  BY DEF Running, Done, KnowledgeInv, ProbeInv
<1>2. Documents(d)
  BY <1>1 DEF CallInv
<1>3. Oracle(d, classes, t) <= DeclaredRank(d, t)
  <2>1. ~(Oracle(d, classes, t) > DeclaredRank(d, t))
    BY DEF Underclaims, Underclaimed
  <2>2. Oracle(d, classes, t) \in Nat
    BY <1>2, ClaimsRanked, ClassIsARank, LargestOfThree DEF Oracle, Classes
  <2> QED BY <2>1, <2>2, DeclaredIsARank
<1>4. classes[t] = ClassOf(then, refs)
  <2>1. classes[t] = IF Testifies(probe.account) THEN ClassOf(probe.account, refs) ELSE 0
    BY DEF Classes
  <2>2. CASE UnionRefs(d) = {}
    <3>1. refs = {}
      BY <2>2 DEF UnionRefs
    <3> QED BY <2>1, <3>1, NoCodeNoClass
  <2>3. CASE UnionRefs(d) # {}
    <3>1. Testifies(probe.account)
      BY <1>1, <2>3 DEF Unseen
    <3>2. probe.account # Unavailable
      BY <3>1 DEF Testifies
    <3>3. probe.account.touched = then.touched /\ probe.account.inbound = then.inbound
      BY <1>1, <3>2, AnswerIsOf
    <3> HIDE DEF then
    <3> QED BY <2>1, <3>1, <3>3, ClassReadsFacts
  <2> QED BY <2>2, <2>3
<1>5. ClassOf(then, refs) \in Nat
  BY ClassIsARank
<1>6. Claims(d)[t].entailed \in Nat /\ Claims(d)[t].said \in Nat /\ DeclaredRank(d, t) \in Nat
  BY <1>2, ClaimsRanked, DeclaredIsARank
<1> HIDE DEF d, refs, then, classes
<1>7. Oracle(d, classes, t) = Largest({ClassOf(then, refs), Claims(d)[t].entailed, Claims(d)[t].said})
  BY <1>4 DEF Oracle
<1>8. \A k \in {ClassOf(then, refs), Claims(d)[t].entailed, Claims(d)[t].said} :
          k <= Oracle(d, classes, t) /\ k \in Nat
  BY <1>5, <1>6, <1>7, LargestOfThree
<1>9. Oracle(d, classes, t) \in Nat
  BY <1>5, <1>6, <1>7, LargestOfThree
<1>10. \A k \in {ClassOf(then, refs), Claims(d)[t].entailed, Claims(d)[t].said} : k <= DeclaredRank(d, t)
  BY <1>3, <1>6, <1>8, <1>9
<1> QED BY <1>10 DEF d, refs, then

LEMMA CallStep ==
    ASSUME KnowledgeInv, DocsInv, CallInv, [Next]_vars
    PROVE  CallInv'
<1>1. CASE UNCHANGED <<call, phase, forecast>>
  BY <1>1 DEF CallInv
<1>2. CASE Happens
  BY <1>1, <1>2, HappensOutside DEF CallInv
<1>3. CASE Asks \/ Answers
  BY <1>1, <1>3 DEF Asks, AskBaseline, AskClass, AskCascade, Ask, Answers, CannotTestify,
                    LooksAtGit, IndexesFiles, IndexesHead, Answer, known
<1>4. CASE Begins
  <2>1. PICK stops, gate :
          call' = [gate |-> gate, docs |-> docs, scope |-> scope, stops |-> stops,
                   advice |-> {}, class |-> None, judged |-> None]
    BY <1>4 DEF Begins, BeginPlanExit, BeginVerifyExit, BeginClosure, Begin
  <2>2. UNCHANGED <<phase, forecast>> /\ phase # "closed"
    BY <1>4 DEF Begins, BeginPlanExit, BeginVerifyExit, BeginClosure, Begin, known
  <2> QED BY <2>1, <2>2 DEF CallInv, DocsInv
<1>5. CASE EndPlanExit \/ EndVerifyExit \/ Join
  <2>1. call' = None
    BY <1>5 DEF EndPlanExit, EndVerifyExit, Join, End
  <2>2. \/ forecast' = forecast
        \/ \E b, p : forecast' = [boundary |-> b, predicted |-> p, joined |-> FALSE, outcome |-> {}]
        \/ forecast # None /\ \E o : forecast' = [forecast EXCEPT !.joined = TRUE, !.outcome = o]
    BY <1>5 DEF EndPlanExit, EndVerifyExit, Join
  <2> QED BY <2>1, <2>2 DEF CallInv
<1>6. CASE ExecuteExit
  <2>1. call = None /\ call' = None /\ forecast' = forecast
    BY <1>6 DEF ExecuteExit, asked, known
  <2> QED BY <2>1 DEF CallInv
<1>7. CASE JudgeScope
  <2> DEFINE c == [gate |-> call.gate, docs |-> call.docs, scope |-> scope,
                   stops |-> call.stops \/ Underclaims \/ ScopeStops(scope), advice |-> Unseen,
                   class |-> [of |-> probe.of, raced |-> probe.raced],
                   judged |-> IF Observed THEN Now ELSE None]
  <2>1. Running("close") /\ call.class = None /\ Done /\ call # None
    BY <1>7 DEF JudgeScope, Running
  <2>2. call' = c /\ UNCHANGED <<phase, forecast>>
    BY <1>7, <2>1 DEF JudgeScope, CallInv, known
  <2>3. Graded(c)
    <3> SUFFICES ASSUME ~Underclaims, "CHK_CLASS_WITNESS_UNAVAILABLE" \notin Unseen,
                        ~probe.raced, Dirty(probe.of) \cap Quoted = {},
                        NEW t \in Targets(call.docs), ChecksOf(call.docs, t) # {}
                 PROVE  GradedBy(c, t)
      BY DEF Graded
    <3> QED BY <2>1, JudgedByTheCode DEF GradedBy
  <2>4. Contained(c)
    BY DEF Contained, ScopeStops, DiffStops
  <2>5. phase # "closed" /\ Documents(call.docs)
    BY <2>1 DEF CallInv
  <2> QED BY <2>2, <2>3, <2>4, <2>5 DEF CallInv
<1>8. CASE UNCHANGED vars
  BY <1>1, <1>8 DEF vars, known, asked
<1> QED BY <1>2, <1>3, <1>4, <1>5, <1>6, <1>7, <1>8 DEF Next, Ends, Closed

GateInv == KnowledgeInv /\ DocsInv /\ CallInv

LEMMA GateInit == Init => GateInv
BY KnowledgeInit, StoryAssumption DEF Init, GateInv, DocsInv, Documents, CallInv

LEMMA GateStep == GateInv /\ [Next]_vars => GateInv'
BY KnowledgeKept, DocsStep, CallStep DEF GateInv

\* A closure that neither stops nor misses the class witness has graded every checked
\* target by its code, its documents and its words.
THEOREM SilenceIsAGrade == Spec => []SilentMeansGraded
<1>1. GateInv => SilentMeansGraded
  BY DEF GateInv, CallInv, Joins, Running, Graded, GradedBy, SilentMeansGraded
<1> QED BY <1>1, GateInit, GateStep, PTL DEF Spec

\* Whether a file offends depends on that file only.
LEMMA OffendsByItself ==
    ASSUME NEW t, NEW u, NEW P, NEW Q, NEW f,
           <<t.base[f], t.head[f], t.work[f], f \in P>> = <<u.base[f], u.head[f], u.work[f], f \in Q>>,
           f \in Offenders(t, P)
    PROVE  f \in Offenders(u, Q)
BY DEF Offenders, OutOfBoundary, ChangedFiles, CommittedFiles, Dirty

\* Under a blocking diff check a closed run is joined with what changed, in the
\* repository or in the scope, after that check, and nothing else.
THEOREM JoinedWithLateWorkOnly == Spec => OutcomeIsLateWork
<1> DEFINE Late ==
      Joins /\ phase' = "closed" /\ forecast' # forecast
        /\ DiffBlocks /\ Declares(call.scope) /\ Paths(call.scope) # {} /\ call.judged # None =>
            \A f \in forecast'.outcome :
                <<base[f], head[f], work[f], f \in Paths(scope)>>
                  # <<call.judged.base[f], call.judged.head[f], call.judged.work[f],
                      f \in Paths(call.scope)>>
<1>1. GateInv /\ [Next]_vars => [Late]_vars
  <2> SUFFICES ASSUME GateInv, [Next]_vars, Joins, phase' = "closed", forecast' # forecast,
                      DiffBlocks, Declares(call.scope), Paths(call.scope) # {},
                      call.judged # None, NEW f \in forecast'.outcome,
                      <<base[f], head[f], work[f], f \in Paths(scope)>>
                        = <<call.judged.base[f], call.judged.head[f], call.judged.work[f],
                            f \in Paths(call.scope)>>
               PROVE  FALSE
    BY DEF vars
  <2>1. call # None /\ call.gate = "close" /\ call.class # None /\ phase # "closed"
    BY DEF Joins, Running, GateInv, CallInv
  <2>2. Join
    <3>1. ~Happens
      BY HappensOutside
    <3>2. ~(Asks \/ Answers \/ Begins)
      BY DEF Asks, AskBaseline, AskClass, AskCascade, Ask, Answers, CannotTestify, LooksAtGit,
             IndexesFiles, IndexesHead, Answer, Begins, BeginPlanExit, BeginVerifyExit,
             BeginClosure, Begin, known
    <3>3. ~(EndPlanExit \/ ExecuteExit \/ EndVerifyExit \/ JudgeScope)
      BY <2>1 DEF EndPlanExit, ExecuteExit, EndVerifyExit, JudgeScope, Running, known
    <3>4. ~UNCHANGED vars
      BY DEF vars, known
    <3> QED BY <3>1, <3>2, <3>3, <3>4 DEF Next, Ends, Closed
  <2>3. ~call.stops
    BY <2>1, <2>2 DEF Join, End
  <2>4. forecast # None /\ forecast' = [forecast EXCEPT !.joined = TRUE, !.outcome = AtJoin]
    BY <2>2 DEF Join
  <2>5. forecast'.outcome = AtJoin
    BY <2>4 DEF GateInv, CallInv
  <2>6. f \in Offenders(Now, Paths(scope))
    BY <2>5 DEF AtJoin
  <2>7. Now.base = base /\ Now.head = head /\ Now.work = work
    BY DEF Now
  <2>8. f \in Offenders(call.judged, Paths(call.scope))
    BY <2>6, <2>7, OffendsByItself
  <2>9. Offenders(call.judged, Paths(call.scope)) = {}
    BY <2>1, <2>3 DEF GateInv, CallInv, Contained
  <2> QED BY <2>8, <2>9
<1> QED BY <1>1, GateInit, GateStep, PTL DEF Spec, OutcomeIsLateWork

-----------------------------------------------------------------------------
\* A set of numbers that is not empty has a least one: strict inclusion is
\* well-founded on finite sets, and so on the intervals up to its members.
LEMMA Least ==
    ASSUME NEW S \in SUBSET Nat, S # {}
    PROVE  \E k \in S : \A j \in S : k <= j
<1> DEFINE upTo == {0..k : k \in S}
<1>1. upTo # {}
  OBVIOUS
<1>2. upTo \subseteq FiniteSubsetsOf(Nat)
  <2>1. \A k \in S : IsFiniteSet(0..k) /\ 0..k \subseteq Nat
    BY FS_Interval
  <2> QED BY <2>1 DEF FiniteSubsetsOf
<1> HIDE DEF upTo
<1>3. PICK least \in upTo : \A other \in upTo : <<other, least>> \notin StrictSubsetOrdering(Nat)
  BY <1>1, <1>2, FS_StrictSubsetOrderingWellFounded, WFMin
<1>4. PICK k \in S : least = 0..k
  BY DEF upTo
<1>5. SUFFICES ASSUME NEW j \in S, j < k PROVE FALSE
  OBVIOUS
<1>6. 0..j \in upTo
  BY DEF upTo
<1>7. 0..j \subseteq 0..k /\ k \in 0..k /\ k \notin 0..j /\ 0..j \in SUBSET Nat /\ 0..k \in SUBSET Nat
  BY <1>5
<1>8. 0..j # 0..k
  BY <1>7
<1>9. <<0..j, 0..k>> \in StrictSubsetOrdering(Nat)
  BY <1>7, <1>8 DEF StrictSubsetOrdering
<1> QED BY <1>3, <1>4, <1>6, <1>9

\* What has 0, and the next number with every number below N, has them up to N.
LEMMA Climb ==
    ASSUME NEW N \in Nat, NEW S, 0 \in S, \A k \in 0..N : k \in S /\ k < N => k + 1 \in S
    PROVE  \A k \in 0..N : k \in S
<1> DEFINE missing == {k \in 0..N : k \notin S}
<1> SUFFICES ASSUME missing # {} PROVE FALSE
  OBVIOUS
<1>1. PICK k \in missing : \A j \in missing : k <= j
  <2>1. missing \in SUBSET Nat
    OBVIOUS
  <2> HIDE DEF missing
  <2> QED BY <2>1, Least
<1>2. k # 0 /\ k - 1 \in 0..N /\ k - 1 \notin missing
  BY <1>1
<1> QED BY <1>2

-----------------------------------------------------------------------------
\* The walk of PassReached, one revision a step.
Passes(d) == {e \in DOMAIN d.entries : d.entries[e].verdict = "pass"}
Steps(d, g, N) == [n \in 0..N |-> IF n = 0 THEN Passes(d) ELSE g[n - 1] \cup Revisions(d, g[n - 1])]

\* The recursion of the walk has a solution, for any number of steps.
LEMMA WalkExists ==
    ASSUME NEW d, NEW N \in Nat
    PROVE  \E g : g = Steps(d, g, N)
<1> DEFINE S == {k \in 0..N : \E g : g = Steps(d, g, k)}
<1>1. 0 \in S
  <2> DEFINE g == [n \in 0..0 |-> Passes(d)]
  <2>1. g = Steps(d, g, 0)
    <3>1. ASSUME NEW n \in 0..0 PROVE g[n] = Steps(d, g, 0)[n]
      BY DEF Steps
    <3> QED BY <3>1 DEF Steps
  <2> HIDE DEF g
  <2> QED BY <2>1
<1>2. ASSUME NEW k \in 0..N, k \in S, k < N PROVE k + 1 \in S
  <2>1. PICK g : g = Steps(d, g, k)
    BY <1>2
  <2> DEFINE h == [n \in 0..(k + 1) |-> IF n <= k THEN g[n] ELSE g[k] \cup Revisions(d, g[k])]
  <2>2. ASSUME NEW n \in 0..k
        PROVE  g[n] = IF n = 0 THEN Passes(d) ELSE g[n - 1] \cup Revisions(d, g[n - 1])
    BY <2>1 DEF Steps
  <2>3. ASSUME NEW n \in 0..(k + 1)
        PROVE  h[n] = IF n = 0 THEN Passes(d) ELSE h[n - 1] \cup Revisions(d, h[n - 1])
    <3>1. CASE n = 0
      <4>1. n \in 0..k /\ h[n] = g[n]
        BY <3>1
      <4> HIDE DEF h
      <4> QED BY <2>2, <3>1, <4>1
    <3>2. CASE n # 0 /\ n <= k
      <4>1. n \in 0..k /\ h[n] = g[n] /\ h[n - 1] = g[n - 1]
        BY <3>2
      <4>2. g[n] = g[n - 1] \cup Revisions(d, g[n - 1])
        BY <2>2, <3>2, <4>1
      <4> HIDE DEF h
      <4> QED BY <3>2, <4>1, <4>2
    <3>3. CASE n = k + 1
      <4>1. h[n] = g[k] \cup Revisions(d, g[k]) /\ h[n - 1] = g[k]
        BY <3>3
      <4>2. n # 0
        BY <3>3
      <4> HIDE DEF h
      <4> QED BY <4>1, <4>2
    <3> QED BY <3>1, <3>2, <3>3
  <2>4. h = Steps(d, h, k + 1)
    <3>1. h = [n \in 0..(k + 1) |-> h[n]]
      OBVIOUS
    <3> HIDE DEF h
    <3> QED BY <2>3, <3>1 DEF Steps
  <2> HIDE DEF h
  <2> QED BY <1>2, <2>4
<1> HIDE DEF S
<1>3. N \in S
  BY <1>1, <1>2, Climb
<1> QED BY <1>3 DEF S

\* What a chain of revisions brings to a pass: the least set with the passes
\* and with whatever one of its members revises, for any finite set of entries
\* (the walk of _open_investigation_ids, cycles of revisions included).
THEOREM PassReachedLeast ==
    ASSUME NEW d, IsFiniteSet(DOMAIN d.entries)
    PROVE  /\ PassReached(d) \subseteq DOMAIN d.entries
           /\ Passes(d) \subseteq PassReached(d)
           /\ Revisions(d, PassReached(d)) \subseteq PassReached(d)
           /\ \A T : Passes(d) \subseteq T /\ Revisions(d, T) \subseteq T => PassReached(d) \subseteq T
<1> DEFINE N == Cardinality(DOMAIN d.entries)
           within == CHOOSE g : g = Steps(d, g, N)
<1>1. N \in Nat
  BY FS_CardinalityType
<1>2. PassReached(d) = within[N]
  BY DEF PassReached, Steps, Passes
<1> HIDE DEF N
<1>3. within = Steps(d, within, N)
  BY <1>1, WalkExists
<1> HIDE DEF within
<1>4. within[0] = Passes(d)
  BY <1>1, <1>3 DEF Steps
<1>5. \A n \in 0..N : n < N => within[n + 1] = within[n] \cup Revisions(d, within[n])
  <2> SUFFICES ASSUME NEW n \in 0..N, n < N
               PROVE  within[n + 1] = within[n] \cup Revisions(d, within[n])
    OBVIOUS
  <2>1. n + 1 \in 0..N /\ n + 1 # 0 /\ (n + 1) - 1 = n
    BY <1>1
  <2>2. within[n + 1] = IF n + 1 = 0 THEN Passes(d)
                        ELSE within[(n + 1) - 1] \cup Revisions(d, within[(n + 1) - 1])
    BY <1>3, <2>1 DEF Steps
  <2> QED BY <2>1, <2>2
<1>6. \A R : Revisions(d, R) \subseteq DOMAIN d.entries
  BY DEF Revisions
<1>7. \A R, T : R \subseteq T => Revisions(d, R) \subseteq Revisions(d, T)
  BY DEF Revisions
<1>8. \A n \in 0..N : within[n] \subseteq DOMAIN d.entries /\ Passes(d) \subseteq within[n]
  <2> DEFINE S == {n \in 0..N : within[n] \subseteq DOMAIN d.entries /\ Passes(d) \subseteq within[n]}
  <2>1. 0 \in S
    BY <1>1, <1>4 DEF Passes
  <2>2. ASSUME NEW n \in 0..N, n \in S, n < N PROVE n + 1 \in S
    BY <1>1, <1>5, <1>6, <2>2
  <2> HIDE DEF S
  <2>3. \A n \in 0..N : n \in S
    BY <1>1, <2>1, <2>2, Climb
  <2> QED BY <2>3 DEF S
<1>9. ASSUME NEW T, Passes(d) \subseteq T, Revisions(d, T) \subseteq T PROVE within[N] \subseteq T
  <2> DEFINE S == {n \in 0..N : within[n] \subseteq T}
  <2>1. 0 \in S
    BY <1>1, <1>4, <1>9
  <2>2. ASSUME NEW n \in 0..N, n \in S, n < N PROVE n + 1 \in S
    <3>1. Revisions(d, within[n]) \subseteq T
      BY <1>7, <1>9, <2>2
    <3>2. within[n + 1] = within[n] \cup Revisions(d, within[n]) /\ n + 1 \in 0..N
      BY <1>1, <1>5, <2>2
    <3> QED BY <2>2, <3>1, <3>2
  <2> HIDE DEF S
  <2>3. N \in S
    BY <1>1, <2>1, <2>2, Climb
  <2> QED BY <2>3 DEF S
\* A step that adds nothing is the last one, and there are no more entries than steps.
<1>10. Revisions(d, within[N]) \subseteq within[N]
  <2> DEFINE Stands(n) == Revisions(d, within[n]) \subseteq within[n]
             S == {n \in 0..N : Stands(n) \/ Cardinality(within[n]) >= n}
  <2>1. \A n \in 0..N : IsFiniteSet(within[n]) /\ Cardinality(within[n]) \in Nat
    BY <1>8, FS_Subset, FS_CardinalityType
  <2>2. 0 \in S
    BY <1>1, <2>1
  <2>3. ASSUME NEW n \in 0..N, n \in S, n < N PROVE n + 1 \in S
    <3>1. n + 1 \in 0..N /\ within[n + 1] = within[n] \cup Revisions(d, within[n])
      BY <1>1, <1>5, <2>3
    <3>2. CASE Stands(n)
      <4>1. within[n + 1] = within[n]
        BY <3>1, <3>2
      <4> QED BY <3>1, <3>2, <4>1
    <3>3. CASE ~Stands(n)
      <4>1. Cardinality(within[n]) >= n
        BY <2>3, <3>3
      <4>2. within[n] \subseteq within[n + 1] /\ within[n] # within[n + 1]
        BY <3>1, <3>3
      <4>3. /\ Cardinality(within[n]) <= Cardinality(within[n + 1])
            /\ Cardinality(within[n]) # Cardinality(within[n + 1])
        BY <2>1, <3>1, <4>2, FS_Subset
      <4>4. Cardinality(within[n]) \in Nat /\ Cardinality(within[n + 1]) \in Nat
        BY <2>1, <3>1
      <4>5. Cardinality(within[n + 1]) >= n + 1
        BY <4>1, <4>3, <4>4
      <4> QED BY <3>1, <4>5
    <3> QED BY <3>2, <3>3
  <2>4. N \in S
    <3> HIDE DEF S
    <3> QED BY <1>1, <2>2, <2>3, Climb
  <2>5. CASE Cardinality(within[N]) >= N
    <3>1. N \in 0..N /\ within[N] \subseteq DOMAIN d.entries
      BY <1>1, <1>8
    <3>2. Cardinality(within[N]) <= Cardinality(DOMAIN d.entries) /\ N = Cardinality(DOMAIN d.entries)
      BY <3>1, FS_Subset DEF N
    <3>3. Cardinality(within[N]) = Cardinality(DOMAIN d.entries)
      BY <1>1, <2>1, <2>5, <3>1, <3>2
    <3>4. within[N] = DOMAIN d.entries
      BY <3>1, <3>3, FS_Subset
    <3> QED BY <1>6, <3>4
  <2> QED BY <2>4, <2>5
<1>11. N \in 0..N
  BY <1>1
<1> QED BY <1>2, <1>8, <1>9, <1>10, <1>11

-----------------------------------------------------------------------------
\* Checkpoints that are added leave the evidence and the outcomes before them.
LEMMA EvidenceStays ==
    ASSUME NEW d, NEW e, IsSequence(d.checkpoints), IsSequence(e.checkpoints), Extends(d, e)
    PROVE  /\ Evidence(d) \subseteq Evidence(e)
           /\ \A p \in Evidence(d) : e.checkpoints[p[1]] = d.checkpoints[p[1]]
           /\ \A q \in Evidence(e) : q[1] \in DOMAIN e.checkpoints /\ q[2] \in DOMAIN e.checkpoints[q[1]].evidence
           /\ \A q \in Evidence(e) : q[1] \in DOMAIN d.checkpoints => q \in Evidence(d)
           /\ \A c \in CheckpointIds(d) : c \in CheckpointIds(e) /\ Outcome(e, c) = Outcome(d, c)
<1> DEFINE m == Len(d.checkpoints)
           n == Len(e.checkpoints)
<1>1. /\ m \in Nat /\ n \in Nat /\ m <= n
      /\ DOMAIN d.checkpoints = 1..m /\ DOMAIN e.checkpoints = 1..n
  BY DEF IsSequence, Extends
<1>2. \A i \in 1..m : e.checkpoints[i] = d.checkpoints[i]
  <2>1. d.checkpoints = SubSeq(e.checkpoints, 1, m)
    BY DEF Extends
  <2>2. \A i \in 1..m : SubSeq(e.checkpoints, 1, m)[i] = e.checkpoints[i]
    BY <1>1 DEF IsSequence
  <2> QED BY <2>1, <2>2
<1> HIDE DEF m, n
<1>3. \A p \in Items(d) : p[1] \in 1..m /\ p[2] \in DOMAIN d.checkpoints[p[1]].evidence /\ p = <<p[1], p[2]>>
  BY <1>1 DEF Items
<1>4. \A p \in Items(e) : p[1] \in 1..n /\ p[2] \in DOMAIN e.checkpoints[p[1]].evidence /\ p = <<p[1], p[2]>>
  BY <1>1 DEF Items
<1>5. ASSUME NEW p \in Items(d)
      PROVE  p \in Items(e) /\ Named(e, p) = Named(d, p)
  <2>1. p[1] \in 1..m /\ p[1] \in 1..n /\ e.checkpoints[p[1]] = d.checkpoints[p[1]]
    BY <1>1, <1>2, <1>3
  <2>2. p \in Items(e)
    BY <1>1, <1>3, <2>1 DEF Items
  <2> QED BY <2>1, <2>2 DEF Named, Item
<1>6. ASSUME NEW p \in Items(e), p[1] \in 1..m
      PROVE  p \in Items(d)
  BY <1>1, <1>2, <1>4, <1>6 DEF Items
<1>7. ASSUME NEW p \in Evidence(d) PROVE p \in Evidence(e)
  <2>1. p \in Items(d) /\ \A q \in Items(d) : Named(d, q) = Named(d, p) => ~Before(q, p)
    BY <1>7 DEF Evidence
  <2>2. ASSUME NEW q \in Items(e), Named(e, q) = Named(e, p), Before(q, p) PROVE FALSE
    <3>1. q[1] \in 1..m
      BY <1>1, <1>3, <1>4, <2>1, <2>2 DEF Before
    <3>2. q \in Items(d)
      BY <1>6, <3>1
    <3> QED BY <1>5, <2>1, <2>2, <3>2
  <2> QED BY <1>5, <2>1, <2>2 DEF Evidence
<1>8. ASSUME NEW q \in Evidence(e), q[1] \in DOMAIN d.checkpoints PROVE q \in Evidence(d)
  <2>1. q \in Items(e) /\ \A p \in Items(e) : Named(e, p) = Named(e, q) => ~Before(p, q)
    BY <1>8 DEF Evidence
  <2>2. q \in Items(d)
    BY <1>1, <1>6, <1>8, <2>1
  <2>3. \A p \in Items(d) : Named(d, p) = Named(d, q) => ~Before(p, q)
    BY <1>5, <2>1, <2>2
  <2> QED BY <2>2, <2>3 DEF Evidence
<1>9. ASSUME NEW c \in CheckpointIds(d) PROVE c \in CheckpointIds(e) /\ Outcome(e, c) = Outcome(d, c)
  <2> DEFINE First(x, i) == /\ i \in DOMAIN x.checkpoints /\ x.checkpoints[i].id = c
                            /\ \A j \in DOMAIN x.checkpoints : x.checkpoints[j].id = c => i <= j
  <2>1. PICK k \in 1..m : d.checkpoints[k].id = c
    BY <1>1 DEF CheckpointIds
  <2>2. c \in CheckpointIds(e)
    BY <1>1, <1>2, <2>1 DEF CheckpointIds
  <2>3. \E i \in 1..m : First(d, i)
    <3> DEFINE S == {i \in 1..m : d.checkpoints[i].id = c}
    <3>1. S \in SUBSET Nat /\ S # {}
      BY <2>1
    <3>2. PICK i \in S : \A j \in S : i <= j
      <4> HIDE DEF S
      <4> QED BY <3>1, Least
    <3> QED BY <1>1, <3>2
  <2>4. ASSUME NEW i, First(d, i) PROVE First(e, i)
    BY <1>1, <1>2, <2>4
  <2>5. \A x, y : First(e, x) /\ First(e, y) => x = y
    BY <1>1
  <2>6. First(d, FirstOf(d, c))
    BY <2>3 DEF FirstOf
  <2>7. First(e, FirstOf(e, c))
    BY <2>3, <2>4 DEF FirstOf
  <2> HIDE DEF First
  <2>8. FirstOf(e, c) = FirstOf(d, c)
    BY <2>4, <2>5, <2>6, <2>7
  <2>9. FirstOf(d, c) \in 1..m
    BY <1>1, <2>6 DEF First
  <2> QED BY <1>2, <2>2, <2>8, <2>9 DEF Outcome
<1>10. \A p \in Evidence(d) : e.checkpoints[p[1]] = d.checkpoints[p[1]]
  BY <1>2, <1>3 DEF Evidence
<1>11. \A q \in Evidence(e) : q[1] \in DOMAIN e.checkpoints /\ q[2] \in DOMAIN e.checkpoints[q[1]].evidence
  BY <1>1, <1>4 DEF Evidence
<1> QED BY <1>7, <1>8, <1>9, <1>10, <1>11

\* Only an added remediation that passes takes a contradiction back.
LEMMA ContradictionsStay ==
    ASSUME NEW d, NEW e, IsSequence(d.checkpoints), IsSequence(e.checkpoints), Extends(d, e),
           Len(e.checkpoints) <= Len(d.checkpoints) + 1,
           NEW a \in Contradicted(d) \ Contradicted(e)
    PROVE  LET c == e.checkpoints[Len(e.checkpoints)]
           IN  /\ c.remediation
               /\ \E j \in DOMAIN c.evidence :
                     /\ c.evidence[j].obligation = d.assessments[a].obligation
                     /\ c.evidence[j].result = "pass"
<1>1. e.assessments = d.assessments /\ Passing(e) = Passing(d)
  BY DEF Extends, Passing
<1>2. a \in Passing(d) /\ a \in Passing(e)
  BY <1>1 DEF Contradicted
<1> DEFINE o == d.assessments[a].obligation
<1>3. CASE \E c \in d.assessments[a].refs \cap CheckpointIds(d) : Outcome(d, c) = "block"
  <2>1. \E c \in e.assessments[a].refs \cap CheckpointIds(e) : Outcome(e, c) = "block"
    BY <1>1, <1>3, EvidenceStays
  <2> QED BY <1>2, <2>1 DEF Contradicted
<1>4. CASE o \in BlockedDuties(d)
  <2>1. o \in Blocks(d) /\ o \notin Cleared(d)
    BY <1>4 DEF BlockedDuties
  <2>2. PICK p \in Evidence(d) : Item(d, p).result = "block" /\ Item(d, p).obligation = o
    BY <2>1 DEF Blocks
  <2>3. p \in Evidence(e) /\ Item(e, p) = Item(d, p)
    BY EvidenceStays DEF Item
  <2>4. o \in Blocks(e)
    BY <2>2, <2>3 DEF Blocks
  <2>5. o \notin BlockedDuties(e)
    BY <1>1, <1>2 DEF Contradicted
  <2>6. o \in Cleared(e)
    BY <2>4, <2>5 DEF BlockedDuties
  <2>7. PICK q \in Evidence(e) : /\ Item(e, q).result = "pass" /\ Item(e, q).obligation = o
                                /\ e.checkpoints[q[1]].remediation
    BY <2>6 DEF Cleared
  <2>8. q[1] \notin DOMAIN d.checkpoints
    <3> SUFFICES ASSUME q[1] \in DOMAIN d.checkpoints PROVE FALSE
      OBVIOUS
    <3>1. q \in Evidence(d) /\ e.checkpoints[q[1]] = d.checkpoints[q[1]]
      BY EvidenceStays
    <3>2. Item(d, q) = Item(e, q)
      BY <3>1 DEF Item
    <3> QED BY <2>1, <2>7, <3>1, <3>2 DEF Cleared
  <2>9. q[1] \in DOMAIN e.checkpoints /\ q[2] \in DOMAIN e.checkpoints[q[1]].evidence
    BY EvidenceStays
  <2>10. /\ Len(d.checkpoints) \in Nat /\ Len(e.checkpoints) \in Nat
         /\ DOMAIN d.checkpoints = 1..Len(d.checkpoints) /\ DOMAIN e.checkpoints = 1..Len(e.checkpoints)
    BY DEF IsSequence
  <2>11. q[1] = Len(e.checkpoints)
    BY <2>8, <2>9, <2>10
  <2> QED BY <2>7, <2>9, <2>11 DEF Item
<1> QED BY <1>2, <1>3, <1>4 DEF Contradicted

\* Entries that are no passes open no way from an earlier entry to a pass.
LEMMA OpenStays ==
    ASSUME NEW d, NEW e, IsFiniteSet(DOMAIN d.entries), IsFiniteSet(DOMAIN e.entries),
           Nobody \notin DOMAIN e.entries, Extends(d, e), Chained(d),
           \A x \in DOMAIN e.entries \ DOMAIN d.entries : e.entries[x].verdict # "pass"
    PROVE  OpenInvestigations(d) \subseteq OpenInvestigations(e)
<1> DEFINE P == PassReached(d)
<1>1. \A x \in DOMAIN d.entries : x \in DOMAIN e.entries /\ e.entries[x] = d.entries[x]
  BY DEF Extends
<1>2. P \subseteq DOMAIN d.entries /\ Passes(d) \subseteq P /\ Revisions(d, P) \subseteq P
  BY PassReachedLeast
<1> HIDE DEF P
<1>3. Passes(e) \subseteq P
  BY <1>1, <1>2 DEF Passes
<1>4. Revisions(e, P) \subseteq P
  <2> SUFFICES ASSUME NEW x \in Revisions(e, P) PROVE x \in P
    OBVIOUS
  <2>1. PICK n \in P : e.entries[n].supersedes # n /\ x = e.entries[n].supersedes /\ x \in DOMAIN e.entries
    BY DEF Revisions
  <2>2. n \in DOMAIN d.entries /\ d.entries[n] = e.entries[n]
    BY <1>1, <1>2, <2>1
  <2>3. x \in DOMAIN d.entries
    BY <2>1, <2>2 DEF Chained
  <2>4. x \in Revisions(d, P)
    BY <2>1, <2>2, <2>3 DEF Revisions
  <2> QED BY <1>2, <2>4
<1>5. PassReached(e) \subseteq P
  BY <1>3, <1>4, PassReachedLeast
<1> QED BY <1>1, <1>5 DEF OpenInvestigations, P

\* No step adds two checkpoints.
LEMMA CheckpointsGrowByOne ==
    ASSUME DocsInv, [Next]_vars
    PROVE  Len(docs'.checkpoints) <= Len(docs.checkpoints) + 1
<1>1. IsSequence(docs.checkpoints) /\ Len(docs.checkpoints) \in Nat
  BY DEF DocsInv, Documents, IsSequence
<1>2. ASSUME NEW draft \in Tells[story].drafts, Write(draft)
      PROVE  docs'.checkpoints = docs.checkpoints \/ docs'.checkpoints = Put(docs.checkpoints, draft.doc)
  <2>1. draft.kind \in DraftKinds
    BY StoryAssumption DEF DocsInv
  <2> QED BY <1>2, <2>1 DEF Write, With, DraftKinds, DocsInv, Documents
<1>3. ASSUME NEW draft \in Tells[story].drafts, Write(draft)
      PROVE  Len(docs'.checkpoints) <= Len(docs.checkpoints) + 1
  BY <1>1, <1>2, <1>3, PutSequence
<1>4. CASE docs' = docs
  BY <1>1, <1>4
<1>5. ASSUME NEW e \in Tells[story].edits, Edit(e[1], e[2]) PROVE docs' = docs
  BY <1>5 DEF Edit
<1>6. CASE Commit \/ BaseMoves \/ WorldChanges \/ Restart
  BY <1>4, <1>6 DEF Commit, BaseMoves, WorldChanges, Restart
<1>7. CASE Asks \/ Answers
  BY <1>4, <1>7 DEF Asks, AskBaseline, AskClass, AskCascade, Ask, Answers, CannotTestify,
                    LooksAtGit, IndexesFiles, IndexesHead, Answer
<1>8. CASE Begins \/ Ends
  BY <1>4, <1>8 DEF Begins, BeginPlanExit, BeginVerifyExit, BeginClosure, Begin,
                    Ends, EndPlanExit, ExecuteExit, EndVerifyExit, JudgeScope, Join, End
<1>9. CASE UNCHANGED vars
  BY <1>4, <1>9 DEF vars
<1> QED BY <1>3, <1>4, <1>5, <1>6, <1>7, <1>8, <1>9 DEF Next, Happens, Closed

\* Whatever documents are added in whatever order, a contradiction and an open
\* investigation outlive them, but for a remediation and a revision that passes.
THEOREM RecordedFailuresStand == Spec => OnlyAPassClears
<1> DEFINE Clears ==
      Extends(docs, docs') =>
        /\ \A a \in Contradicted(docs) \ Contradicted(docs') :
               LET c == docs'.checkpoints[Len(docs'.checkpoints)]
               IN  /\ c.remediation
                   /\ \E j \in DOMAIN c.evidence :
                         /\ c.evidence[j].obligation = docs.assessments[a].obligation
                         /\ c.evidence[j].result = "pass"
        /\ Chained(docs) /\ OpenInvestigations(docs) \ OpenInvestigations(docs') # {} =>
               \E e \in DOMAIN docs'.entries \ DOMAIN docs.entries :
                   docs'.entries[e].verdict = "pass"
<1>1. Init => DocsInv
  BY StoryAssumption DEF Init, DocsInv, Documents
<1>2. DocsInv /\ [Next]_vars => DocsInv'
  BY DocsStep
<1>3. DocsInv /\ DocsInv' /\ [Next]_vars => [Clears]_vars
  <2> SUFFICES ASSUME DocsInv, DocsInv', [Next]_vars, Extends(docs, docs') PROVE Clears
    BY DEF vars
  <2>1. Len(docs'.checkpoints) <= Len(docs.checkpoints) + 1
    BY CheckpointsGrowByOne
  <2>2. /\ IsSequence(docs.checkpoints) /\ IsSequence(docs'.checkpoints)
        /\ IsFiniteSet(DOMAIN docs.entries) /\ IsFiniteSet(DOMAIN docs'.entries)
        /\ Nobody \notin DOMAIN docs'.entries
    BY DEF DocsInv, Documents
  <2>3. ASSUME NEW a \in Contradicted(docs) \ Contradicted(docs')
        PROVE  LET c == docs'.checkpoints[Len(docs'.checkpoints)]
               IN  /\ c.remediation
                   /\ \E j \in DOMAIN c.evidence :
                         /\ c.evidence[j].obligation = docs.assessments[a].obligation
                         /\ c.evidence[j].result = "pass"
    BY <2>1, <2>2, ContradictionsStay
  <2>4. ASSUME Chained(docs),
               \A x \in DOMAIN docs'.entries \ DOMAIN docs.entries : docs'.entries[x].verdict # "pass"
        PROVE  OpenInvestigations(docs) \subseteq OpenInvestigations(docs')
    BY <2>2, <2>4, OpenStays
  <2> QED BY <2>3, <2>4
<1> QED BY <1>1, <1>2, <1>3, PTL DEF Spec, OnlyAPassClears
=============================================================================
