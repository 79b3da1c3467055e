----------------------------- MODULE CodeIndex -----------------------------
(***************************************************************************)
(* The code graph store of codeflair beside a working tree that is edited  *)
(* while it is indexed.  Two sources write the store: scip, an external    *)
(* indexer that reads the files one by one and whose result is ingested    *)
(* when it is done, and tree_sitter, the floor used when scip found        *)
(* nothing.  Each source keeps, per file, the hash of the bytes it         *)
(* certifies; a query judges every node by the hash of the node's own      *)
(* source.  A full build appends to the store that is there; the witness   *)
(* deletes the store first; a delta re-indexes the files whose hash moved. *)
(*                                                                         *)
(* A text stands for the bytes of a file and for their hash.  A scip       *)
(* symbol is <<0, name>>, wherever it is defined; a tree_sitter symbol is  *)
(* <<file, name>>.  Files are numbered in the order of their paths.        *)
(***************************************************************************)
EXTENDS Integers, FiniteSets, FiniteSetsExt

CONSTANTS
    Files,      \* paths, as positive numbers
    Texts,      \* contents a file may have
    Gone,       \* no such file; also: no hash recorded
    Names,      \* what a text may define or call
    Defs,       \* text -> the names it defines
    Calls,      \* text -> the pairs <<caller, callee>> it holds
    MaxEdits,   \* bound on the edits of the tree
    MaxJobs     \* bound on the builds and deltas

ASSUME CodeIndexAssumption ==
    /\ Files \subseteq Nat \ {0}
    /\ IsFiniteSet(Files)
    /\ Gone \notin Texts
    /\ \A t \in Texts : Defs[t] \subseteq Names /\ Calls[t] \subseteq Defs[t] \X Names
    /\ Defs[Gone] = {} /\ Calls[Gone] = {}
    /\ MaxEdits \in Nat /\ MaxJobs \in Nat

VARIABLES
    tree,       \* the working tree
    store,      \* the committed store
    job,        \* the one indexing job at work
    stamped,    \* files whose mtime is not before the start of the build
    edits,
    jobs

vars == <<tree, store, job, stamped, edits, jobs>>

Sources == {"scip", "tree_sitter"}
External == 0
NoRow == -1
Symbols == ({0} \cup Files) \X Names
Edges == {e \in Symbols \X Symbols \X Sources : e[1] # e[2]}
TreeTexts == Texts \cup {Gone}

Present(t) == {f \in Files : t[f] # Gone}

\* Symbols and edges one text in one file gives a source.
SymbolsOf(source, f, t) ==
    {<<IF source = "scip" THEN 0 ELSE f, n>> : n \in Defs[t]}

ProducedEdges(source, f, t) ==
    LET scope == IF source = "scip" THEN 0 ELSE f
        known == IF source = "scip" THEN Names ELSE Defs[t]
    IN {e \in Edges : /\ e[3] = source
                      /\ e[1][1] = scope /\ e[2][1] = scope
                      /\ e[2][2] \in known
                      /\ <<e[1][2], e[2][2]>> \in Calls[t]}

EmptyStore ==
    [row       |-> [s \in Symbols |-> NoRow],
     edges     |-> {},
     owns      |-> {},
     fresh     |-> [s \in Sources |-> [f \in Files |-> Gone]],
     files     |-> [f \in Files |-> Gone],
     marked    |-> FALSE,
     reused    |-> FALSE,
     collected |-> {}]

Rows(st) == {s \in Symbols : st.row[s] # NoRow}

\* An earlier job has left something behind.
Used(st) == Rows(st) # {} \/ st.edges # {} \/ st.fresh # EmptyStore.fresh

Idle == [phase |-> "idle", source |-> "scip", todo |-> {},
         seen |-> [f \in Files |-> Gone], bytes |-> [f \in Files |-> Gone],
         draft |-> EmptyStore]

TypeOK ==
    /\ tree \in [Files -> TreeTexts]
    /\ store.row \in [Symbols -> Files \cup {External, NoRow}]
    /\ store.edges \subseteq Edges
    /\ store.owns \subseteq Sources \X Symbols
    /\ store.fresh \in [Sources -> [Files -> TreeTexts]]
    /\ store.files \in [Files -> TreeTexts]
    /\ job.phase \in {"idle", "scan", "read", "stat", "ingest", "floor", "mark", "delta", "forget"}
    /\ stamped \subseteq Files

-----------------------------------------------------------------------------
(* The tree, edited by whoever works in it.  A descriptor has one defining *)
(* file in any one tree.                                                   *)

Edit(f, t) ==
    /\ edits < MaxEdits
    /\ t # tree[f]
    /\ \A g \in Files \ {f} : Defs[t] \cap Defs[tree[g]] = {}
    /\ tree' = [tree EXCEPT ![f] = t]
    /\ stamped' = stamped \cup {f}
    /\ edits' = edits + 1
    /\ UNCHANGED <<store, job, jobs>>

-----------------------------------------------------------------------------
(* A full build.                                                           *)

\* The witness deletes the store before it builds; the index command opens
\* the one that is there.
StartBuild(wipe) ==
    /\ job.phase = "idle"
    /\ jobs < MaxJobs
    /\ job' = [Idle EXCEPT !.phase = "scan", !.todo = Files]
    /\ stamped' = {}
    /\ store' = IF wipe THEN EmptyStore ELSE store
    /\ jobs' = jobs + 1
    /\ UNCHANGED <<tree, edits>>

\* The indexer reads one file, at a time of its own.
Scan(f) ==
    /\ job.phase = "scan"
    /\ f \in job.todo
    /\ job' = [job EXCEPT !.seen[f] = tree[f], !.todo = @ \ {f}]
    /\ UNCHANGED <<tree, store, stamped, edits, jobs>>

ScanDone ==
    /\ job.phase = "scan"
    /\ job.todo = {}
    /\ job' = [job EXCEPT !.phase = "read", !.todo = Present(job.seen)]
    /\ UNCHANGED <<tree, store, stamped, edits, jobs>>

\* The indexer is missing or fails: nothing of it is kept.
ScanFails ==
    /\ job.phase = "scan"
    /\ job' = [Idle EXCEPT !.phase = "floor"]
    /\ UNCHANGED <<tree, store, stamped, edits, jobs>>

\* The bytes of the next document are read for their hash ...
ReadBytes ==
    /\ job.phase = "read"
    /\ job.todo # {}
    /\ LET f == Min(job.todo)
       IN job' = [job EXCEPT !.bytes[f] = tree[f], !.phase = "stat"]
    /\ UNCHANGED <<tree, store, stamped, edits, jobs>>

\* ... and its mtime after them: a file edited since the build began, or
\* gone by now, is not certified.
Withheld(f) == f \in stamped \/ tree[f] = Gone

ReadStamp ==
    /\ job.phase = "stat"
    /\ LET f == Min(job.todo)
       IN job' = [job EXCEPT !.bytes[f] = IF Withheld(f) THEN Gone ELSE @,
                             !.todo = @ \ {f},
                             !.phase = "read"]
    /\ UNCHANGED <<tree, store, stamped, edits, jobs>>

ReadDone ==
    /\ job.phase = "read"
    /\ job.todo = {}
    /\ job' = [job EXCEPT !.phase = "ingest"]
    /\ UNCHANGED <<tree, store, stamped, edits, jobs>>

\* The files one source certifies from now on: its own hash and the global one.
Certified(st, source, hashes) ==
    LET hashed(old) == [f \in Files |-> IF hashes[f] = Gone THEN old[f] ELSE hashes[f]]
    IN [st EXCEPT !.fresh[source] = hashed(@), !.files = hashed(@)]

\* Symbols are upserted, at the first document that defines them or, when
\* none does, at no file; edges are added; only the definitions are owned.
\* What an earlier build left stays.
ScipIngested(st) ==
    LET docs     == Present(job.seen)
        defined  == UNION {SymbolsOf("scip", f, job.seen[f]) : f \in docs}
        produced == UNION {ProducedEdges("scip", f, job.seen[f]) : f \in docs}
        named    == defined \cup {e[2] : e \in produced}
        site(s)  == Min({f \in docs : s[2] \in Defs[job.seen[f]]})
    IN Certified(
         [st EXCEPT
            !.row = [s \in Symbols |-> IF s \in defined THEN site(s)
                                       ELSE IF s \in named THEN External ELSE @[s]],
            !.owns = @ \cup {"scip"} \X defined,
            !.edges = @ \cup produced,
            !.reused = @ \/ Used(st)],
         "scip", job.bytes)

ScipIngest ==
    /\ job.phase = "ingest"
    /\ store' = ScipIngested(store)
    /\ job' = [Idle EXCEPT !.phase = "floor"]
    /\ UNCHANGED <<tree, stamped, edits, jobs>>

\* The floor parses the bytes it hashes, file by file, and links a call to
\* every definition of that name it met.
FloorIngested(st) ==
    LET defined == UNION {SymbolsOf("tree_sitter", f, tree[f]) : f \in Files}
        linked  == {e \in Edges : /\ e[3] = "tree_sitter"
                                  /\ e[1] \in defined /\ e[2] \in defined
                                  /\ <<e[1][2], e[2][2]>> \in Calls[tree[e[1][1]]]}
    IN Certified(
         [st EXCEPT !.row = [s \in Symbols |-> IF s \in defined THEN s[1] ELSE @[s]],
                    !.owns = @ \cup {"tree_sitter"} \X defined,
                    !.edges = @ \cup linked],
         "tree_sitter", tree)

\* The floor is for a store without a symbol, where the parser is installed.
Floor ==
    /\ job.phase = "floor"
    /\ Rows(store) = {}
    /\ store' = FloorIngested(store)
    /\ job' = [Idle EXCEPT !.phase = "mark"]
    /\ UNCHANGED <<tree, stamped, edits, jobs>>

FloorSkipped ==
    /\ job.phase = "floor"
    /\ job' = [Idle EXCEPT !.phase = "mark"]
    /\ UNCHANGED <<tree, store, stamped, edits, jobs>>

\* The watermark: the store is not empty, or git and the literals gave couplings.
Mark(coupled) ==
    /\ job.phase = "mark"
    /\ store' = [store EXCEPT !.marked = @ \/ coupled \/ Rows(store) # {} \/ store.edges # {}]
    /\ job' = Idle
    /\ UNCHANGED <<tree, stamped, edits, jobs>>

-----------------------------------------------------------------------------
(* A delta: one source, the files whose hash moved, file by file in one    *)
(* transaction.                                                            *)

Changed(st, source, now) == {f \in Present(now) : st.fresh[source][f] # now[f]}
Removed(st, source, now) == {f \in Files : st.fresh[source][f] # Gone /\ now[f] = Gone}

\* The changes are found at the start, from one reading of the tree.
StartDelta(source) ==
    /\ job.phase = "idle"
    /\ jobs < MaxJobs
    /\ job' = [Idle EXCEPT !.phase = "delta", !.source = source, !.seen = tree,
                           !.todo = Changed(store, source, tree), !.draft = store]
    /\ jobs' = jobs + 1
    /\ UNCHANGED <<tree, store, stamped, edits>>

\* mutation: what the source owns in any file
OwnedAnywhere(st, source, f) == {s \in Symbols : <<source, s>> \in st.owns}

OwnedIn(st, source, f) == {s \in Symbols : <<source, s>> \in st.owns /\ st.row[s] = f}

\* Delete and replace: the edges of one source that start in one file.
Replaced(st, source, f, new) ==
    [st EXCEPT !.edges =
        {e \in @ : ~(e[3] = source /\ st.row[e[1]] = f)} \cup new]

\* A source stops defining symbols: those nobody owns any more go, with
\* every edge from or to them, of any source and any file.
Released(st, source, dropped) ==
    LET owns   == st.owns \ ({source} \X dropped)
        orphan == {s \in dropped : \A o \in Sources : <<o, s>> \notin owns}
    IN [st EXCEPT !.owns  = owns,
                  !.edges = {e \in @ : e[1] \notin orphan /\ e[2] \notin orphan},
                  !.row   = [s \in Symbols |-> IF s \in orphan THEN NoRow ELSE @[s]],
                  !.collected = @ \cup orphan]

Reindexed(st, source, f, t) ==
    LET before == OwnedIn(st, source, f)
        new    == SymbolsOf(source, f, t)
        upsert == [st EXCEPT !.row = [s \in Symbols |-> IF s \in new THEN f ELSE @[s]],
                             !.owns = @ \cup {source} \X new]
        edged  == Replaced(upsert, source, f, ProducedEdges(source, f, t))
        stamp  == [edged EXCEPT !.fresh[source][f] = t, !.files[f] = t]
    IN Released(stamp, source, before \ new)

Forgotten(st, source, f) ==
    LET unfresh == [Replaced(st, source, f, {}) EXCEPT !.fresh[source][f] = Gone]
        left    == Released(unfresh, source, OwnedIn(st, source, f))
    IN IF \A s \in Sources : left.fresh[s][f] = Gone
       THEN [left EXCEPT !.row = [s \in Symbols |-> IF @[s] = f THEN NoRow ELSE @[s]],
                         !.files[f] = Gone]
       ELSE left

DeltaReindex ==
    /\ job.phase = "delta"
    /\ job.todo # {}
    /\ LET f == Min(job.todo)
       IN job' = [job EXCEPT !.draft = Reindexed(@, job.source, f, job.seen[f]),
                             !.todo = @ \ {f}]
    /\ UNCHANGED <<tree, store, stamped, edits, jobs>>

DeltaReindexed ==
    /\ job.phase = "delta"
    /\ job.todo = {}
    /\ job' = [job EXCEPT !.phase = "forget", !.todo = Removed(store, job.source, job.seen)]
    /\ UNCHANGED <<tree, store, stamped, edits, jobs>>

DeltaForget ==
    /\ job.phase = "forget"
    /\ job.todo # {}
    /\ LET f == Min(job.todo)
       IN job' = [job EXCEPT !.draft = Forgotten(@, job.source, f), !.todo = @ \ {f}]
    /\ UNCHANGED <<tree, store, stamped, edits, jobs>>

DeltaCommit ==
    /\ job.phase = "forget"
    /\ job.todo = {}
    /\ store' = [job.draft EXCEPT !.marked = TRUE]
    /\ job' = Idle
    /\ UNCHANGED <<tree, stamped, edits, jobs>>

-----------------------------------------------------------------------------
Init ==
    /\ tree \in [Files -> TreeTexts]
    /\ \A f, g \in Files : f # g => Defs[tree[f]] \cap Defs[tree[g]] = {}
    /\ store = EmptyStore
    /\ job = Idle
    /\ stamped = {}
    /\ edits = 0 /\ jobs = 0

Next ==
    \/ \E f \in Files, t \in TreeTexts : Edit(f, t)
    \/ \E wipe \in BOOLEAN : StartBuild(wipe)
    \/ \E f \in Files : Scan(f)
    \/ ScanDone \/ ScanFails
    \/ ReadBytes \/ ReadStamp \/ ReadDone
    \/ ScipIngest \/ Floor \/ FloorSkipped
    \/ \E coupled \in BOOLEAN : Mark(coupled)
    \/ \E source \in Sources : StartDelta(source)
    \/ DeltaReindex \/ DeltaReindexed \/ DeltaForget \/ DeltaCommit

Spec == Init /\ [][Next]_vars

-----------------------------------------------------------------------------
(* A query, with the tree it runs beside.                                  *)

\* mutation: the hash of whichever source wrote last (the files table)
GlobalStatus(st, source, f, t) ==
    IF st.files[f] = Gone THEN "unknown"
    ELSE IF st.files[f] = t THEN "clean" ELSE "stale"

\* A node's file is judged by the hash its own source recorded; a node of no
\* one source is clean only if every recorded hash agrees.
Status(st, source, f, t) ==
    LET hashes == {st.fresh[s][f] : s \in {o \in Sources : source \in {o, ""}}} \ {Gone}
    IN IF hashes = {} THEN "unknown"
       ELSE IF hashes = {t} THEN "clean" ELSE "stale"

\* What the live overlay sees in a file, or nothing when it is down.
Views(f) == {<<>>, <<{s \in Symbols : s[1] \in {0, f} /\ s[2] \in Defs[tree[f]]}>>}

\* The tag of a node; view is <<>> when the overlay is absent or failed.
Tag(sym, source, view) ==
    LET f == store.row[sym]
        status == Status(store, source, f, tree[f])
    IN IF f \notin Present(tree) \/ status = "clean" THEN "trusted"
       ELSE IF status = "unknown" THEN "unverified"
       ELSE IF view = <<>> THEN "stale"
       ELSE IF sym \in view[1] THEN "live" ELSE "unreconciled"

\* Walking callers from a seed, a node is reached by an edge it starts.
Radius(seed, hops) ==
    LET within[h \in 0 .. hops] ==
          IF h = 0 THEN {seed}
          ELSE within[h - 1] \cup {e[1] : e \in {d \in store.edges : d[2] \in within[h - 1]}}
    IN within[hops]

\* The sources of a node's strongest edges: parsed before syntactic.
BestSource(sym) ==
    LET found == {e[3] : e \in {d \in store.edges : d[1] = sym}}
    IN IF "scip" \in found THEN "scip"
       ELSE IF "tree_sitter" \in found THEN "tree_sitter" ELSE ""

\* The answer to a query: the nodes around the seed, the seed left out, each
\* with the source it will be judged by.  Their rank and the cut at k are left out.
Heatmap(seed) ==
    {[symbol |-> n, source |-> BestSource(n)] : n \in Radius(seed, 2) \ {seed}}

-----------------------------------------------------------------------------
(* Properties.                                                             *)

\* No answer vouches for what the text it was read from never said.  A node of a
\* file that is there and that a query serves as trusted is defined in that file,
\* and its edges stand in the file's text, whatever was edited during or after the
\* build; the overlay confirms no node whose symbol is gone.  A node of a removed
\* file is served as trusted too: its edges stand in the text its source certified
\* last, if it certified one.  For every store not built over an older one.
NothingStaleIsTrusted ==
    ~store.reused =>
      \A seed \in Rows(store) : \A entry \in Heatmap(seed) :
        LET n == entry.symbol
            source == entry.source
            f == store.row[n]
            Stand(text) == \A e \in store.edges : e[1] = n /\ e[3] = source =>
                              <<n[2], e[2][2]>> \in Calls[text]
        IN /\ f \in Present(tree) =>
                \A view \in Views(f) :
                  /\ Tag(n, source, view) \in {"trusted", "live"} => n[2] \in Defs[tree[f]]
                  /\ Tag(n, source, view) = "trusted" => Stand(tree[f])
           /\ f \in Files \ Present(tree) /\ store.fresh[source][f] # Gone =>
                Stand(store.fresh[source][f])

\* What overlay.py says "trusted" means: the working bytes have the hash of the node's
\* source.  (Not so for a removed file, which has none; README, section 6.)
TrustedIsClean ==
    \A seed \in Rows(store) : \A entry \in Heatmap(seed) :
        LET f == store.row[entry.symbol] IN
        f \in Files /\ Tag(entry.symbol, entry.source, <<>>) = "trusted" =>
            Status(store, entry.source, f, tree[f]) = "clean"

\* A file certified by scip and unchanged since is in the store completely:
\* its definitions, located there and owned, and its calls, except those to
\* a symbol a delta collected.
CleanFilesAreComplete ==
    ~store.reused =>
      \A f \in Present(tree) : store.fresh["scip"][f] = tree[f] =>
        /\ \A s \in SymbolsOf("scip", f, tree[f]) :
             store.row[s] = f /\ <<"scip", s>> \in store.owns
        /\ \A e \in ProducedEdges("scip", f, tree[f]) :
             e \in store.edges \/ e[2] \in store.collected
=============================================================================
