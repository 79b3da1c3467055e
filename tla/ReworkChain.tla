---------------------------- MODULE ReworkChain -----------------------------
(***************************************************************************)
(* The findings->fix loop.  A rework is a new run created over a parent    *)
(* whose VERIFY findings it carries (handle_init); it may close when its   *)
(* own VERIFY and RESOLVE documents answer every carried finding           *)
(* (engines/rework_completeness.py) and its closure document leaves no     *)
(* deferral without an owner (engines/deferral_completeness.py).           *)
(*                                                                         *)
(* handle_init takes no lock: it checks that the manifest is missing and   *)
(* reads the parent, then saves; every run's agent goes on writing and     *)
(* registering documents in between, and after it has closed.  The lock,   *)
(* the crashes and the revert of a refused finalize are in RunState.       *)
(***************************************************************************)
EXTENDS Naturals, FiniteSets, Functions

CONSTANTS
    Runs,         \* ids of runs of the standard track (no other may rework or be reworked)
    Keys,         \* artifact types: the keys of manifest.artifacts
    FindingKeys,  \* those whose part before ":" is a VERIFY kind or its alias
    Paths,        \* paths under verification/, resolutions/ and executions/
    BoundTo,      \* [Paths -> Runs], the run a path is named after
    Drafts,       \* the documents the agents write: a set of <<path, document>>
    Registrations,  \* and register: a set of <<run, key, path>>
    Closure,      \* the key of the closure document ("lessons")
    Unsaid, NoRun    \* a field an entry omits; no run

\* One item of a handled_findings_chain.  id and path name the finding; fix is
\* the proof of a remediation; an acceptance may come without its rationale;
\* formed: the item meets the grammar of validate_handled_findings_chain.
Entry == [id: Keys \cup {Unsaid}, path: Paths \cup {Unsaid},
          handling: {"remediated", "accepted", "unreasoned"},
          fix: Paths \cup {Unsaid}, formed: BOOLEAN]

\* What a document says of itself, its chain, and whether each deferred item
\* it lists has owner, residual risk and next-phase obligation.
Document == [run: Runs, phase: {"execute", "verify", "resolve"},
             chain: SUBSET Entry, owned: BOOLEAN]

ASSUME ReworkAssumption ==
    /\ FindingKeys \subseteq Keys /\ Closure \in Keys \ FindingKeys
    /\ BoundTo \in [Paths -> Runs] /\ Drafts \subseteq Paths \X Document
    /\ Registrations \subseteq Runs \X Keys \X Paths
    /\ IsFiniteSet(Paths) /\ \A x \in Drafts : IsFiniteSet(x[2].chain)
    /\ NoRun \notin Runs /\ Unsaid \notin Paths \cup Keys \cup Document

VARIABLES
    status,     \* [Runs -> {"none", "open", "closed"}]
    parent,     \* [Runs -> Runs \cup {NoRun}], reworks
    depth,      \* [Runs -> Nat], rework_depth
    carried,    \* [Runs -> finding keys -> paths], carried_findings
    artifacts,  \* [Runs -> keys -> paths]
    files,      \* [Paths -> Document \cup {Unsaid}], Unsaid for a missing file
    creating    \* runs whose handle_init has read what it will save:
                \* [Runs -> set of [parent, depth, carried], at most one]

manifests == <<status, parent, depth, carried, artifacts>>
vars == <<manifests, files, creating>>

\* Functions from some of the keys of S to paths: the dictionaries of a manifest.
Dictionaries(S) == UNION {[K -> Paths] : K \in SUBSET S}
Empty == <<>>

TypeOK ==
    /\ status \in [Runs -> {"none", "open", "closed"}]
    /\ parent \in [Runs -> Runs \cup {NoRun}]
    /\ depth \in [Runs -> 0 .. Cardinality(Runs) - 1]
    /\ \A r \in Runs : /\ carried[r] \in Dictionaries(FindingKeys)
                       /\ artifacts[r] \in Dictionaries(Keys)
                       /\ Cardinality(creating[r]) <= 1
    /\ files \in [Paths -> Document \cup {Unsaid}]

Init ==
    /\ status = [r \in Runs |-> "none"]
    /\ parent = [r \in Runs |-> NoRun]
    /\ depth = [r \in Runs |-> 0]
    /\ carried = [r \in Runs |-> Empty]
    /\ artifacts = [r \in Runs |-> Empty]
    /\ files = [p \in Paths |-> Unsaid]
    /\ creating = [r \in Runs |-> {}]

-----------------------------------------------------------------------------
(* handle_init.                                                            *)

\* The parent's registrations under a key of a VERIFY kind, at this moment.
Carry(p) == Restrict(artifacts[p], DOMAIN artifacts[p] \cap FindingKeys)

AnyId(r) == TRUE                       \* mutation: an existing manifest is replaced
Fresh(r) == status[r] = "none"

\* The checks and the read of the parent; a parent without findings is refused,
\* one that is still open, or itself a rework, is not.
Begin(r) ==
    /\ Fresh(r) /\ creating[r] = {}
    /\ \/ creating' = [creating EXCEPT ![r] =
                          {[parent |-> NoRun, depth |-> 0, carried |-> Empty]}]
       \/ \E p \in Runs \ {r} :
            /\ status[p] # "none" /\ DOMAIN Carry(p) # {}
            /\ creating' = [creating EXCEPT ![r] =
                  {[parent |-> p, depth |-> depth[p] + 1, carried |-> Carry(p)]}]
    /\ UNCHANGED <<manifests, files>>

Create(r) ==
    /\ \E m \in creating[r] : /\ parent' = [parent EXCEPT ![r] = m.parent]
                              /\ depth' = [depth EXCEPT ![r] = m.depth]
                              /\ carried' = [carried EXCEPT ![r] = m.carried]
    /\ status' = [status EXCEPT ![r] = "open"]
    /\ artifacts' = [artifacts EXCEPT ![r] = Empty]
    /\ creating' = [creating EXCEPT ![r] = {}]
    /\ UNCHANGED files

-----------------------------------------------------------------------------
(* The closure engines.                                                    *)

Exists(p) == p \in Paths /\ files[p] # Unsaid

\* The chains that count: in a registered document that calls itself VERIFY or
\* RESOLVE evidence of this run.
Evidence(r) ==
    {p \in Range(artifacts[r]) :
        Exists(p) /\ files[p].phase \in {"verify", "resolve"} /\ files[p].run = r}
Dispositions(r) == UNION {files[p].chain : p \in Evidence(r)}

\* An entry must name a finding; every name it gives must be this finding's.
NamesEither(e, k, path) == e.id = k \/ e.path = path      \* mutation: one is enough
Addresses(e, k, path) ==
    /\ e.id # Unsaid \/ e.path # Unsaid
    /\ e.id \in {k, Unsaid} /\ e.path \in {path, Unsaid}

\* A remediation is proven by a file of this run, an acceptance by its reason.
Complete(r, e) ==
    CASE e.handling = "remediated" -> Exists(e.fix) /\ BoundTo[e.fix] = r
      [] OTHER -> e.handling = "accepted"

LiveCarry(r) ==                        \* mutation: what the parent has by now
    IF parent[r] = NoRun THEN Empty ELSE Carry(parent[r])
Owed(r) == carried[r]

Answered(r, k) ==
    \E e \in Dispositions(r) : Addresses(e, k, Owed(r)[k]) /\ Complete(r, e) /\ e.formed

\* Beyond max_rework_depth an unanswered finding needs an adjudication too; it
\* blocks either way.
ReworkComplete(r) == \A k \in DOMAIN Owed(r) : Answered(r, k)

\* The deferred items of the closure document.  (The manifest's own list, which
\* the engine also reads, is not a field of RunManifest: every save drops it.)
DeferralComplete(r) ==
    Closure \in DOMAIN artifacts[r] /\ Exists(artifacts[r][Closure])
        => files[artifacts[r][Closure]].owned

-----------------------------------------------------------------------------
\* A governed write; the writer need not have created the run it names.
Write(p) ==
    /\ \E x \in Drafts : x[1] = p /\ files' = [files EXCEPT ![p] = x[2]]
    /\ UNCHANGED <<manifests, creating>>

\* handle_register_artifact only records the path, of a closed run too.
Register(r) ==
    /\ status[r] # "none"
    /\ \E k \in Keys, p \in Paths :
        /\ <<r, k, p>> \in Registrations
        /\ artifacts' = [artifacts EXCEPT ![r] =
                [j \in DOMAIN @ \cup {k} |-> IF j = k THEN p ELSE @[j]]]
    /\ UNCHANGED <<status, parent, depth, carried, files, creating>>

\* handle_finalize with the sweep of validate_closure.
Close(r) ==
    /\ status[r] = "open" /\ ReworkComplete(r) /\ DeferralComplete(r)
    /\ status' = [status EXCEPT ![r] = "closed"]
    /\ UNCHANGED <<parent, depth, carried, artifacts, files, creating>>

Next ==
    \/ \E r \in Runs : Begin(r) \/ Create(r) \/ Register(r) \/ Close(r)
    \/ \E p \in Paths : Write(p)

Spec == Init /\ [][Next]_vars

Closes(r) == status[r] = "open" /\ status'[r] = "closed"

-----------------------------------------------------------------------------
\* The depth that the cap counts is the length of the chain, so the chain has
\* no loop, and no rework is without a finding.
LineageIsSound ==
    \A r \in Runs : parent[r] # NoRun =>
        /\ depth[r] = depth[parent[r]] + 1
        /\ DOMAIN carried[r] # {}

\* The entries fit to answer for r, of whatever finding: in a document of its
\* own, and a fix existing under its own name.
Own(r) == {p \in Paths : files[p] # Unsaid /\ files[p].run = r}
Fit(r) == {e \in UNION {files[p].chain : p \in Own(r)} :
              /\ e.formed /\ e.handling # "unreasoned"
              /\ e.handling = "remediated" =>
                    e.fix # Unsaid /\ files[e.fix] # Unsaid /\ BoundTo[e.fix] = r}

\* Findings of different documents are not settled by one word: a rework closes
\* with at least as many fit entries as documents it carries.
EachFindingItsOwnAnswer ==
    [][\A r \in Runs : Closes(r) =>
            Cardinality(Fit(r)) >= Cardinality(Range(carried[r]))]_vars

\* What a rework owes is settled when it is created: nothing the parent's agent
\* writes or registers later lets it close, or keeps it from closing.
ParentCannotReopen ==
    [][\A r \in Runs :
        /\ artifacts'[r] = artifacts[r] /\ status'[r] = status[r] /\ status[r] # "none"
        /\ creating[r] = {}
        /\ \A p \in Paths : BoundTo[p] = r \/ p \in Range(artifacts[r])
                                => files'[p] = files[p]
        => ReworkComplete(r)' = ReworkComplete(r)]_vars
=============================================================================
