-------------------------- MODULE CodeIndexProofs --------------------------
(***************************************************************************)
(* The code graph store for any files, texts, edits and jobs: what a query *)
(* may trust, and what a certified file has in the store.                  *)
(***************************************************************************)
EXTENDS CodeIndex, FiniteSetTheorems, TLAPS

-----------------------------------------------------------------------------
\* A set of numbers that is not empty has a least one: the intervals 0..k are
\* finite sets, and strict inclusion is well-founded on those.
LEMMA MinInSet ==
    ASSUME NEW S \in SUBSET Nat, S # {}
    PROVE  Min(S) \in S /\ \A y \in S : Min(S) <= y
<1> DEFINE T == {0..k : k \in S}
<1>1. T \subseteq FiniteSubsetsOf(Nat)
  <2>1. \A k \in S : IsFiniteSet(0..k) /\ 0..k \subseteq Nat
    BY FS_Interval
  <2> QED BY <2>1 DEF FiniteSubsetsOf
<1>2. T # {}
  OBVIOUS
<1>3. IsWellFoundedOn(StrictSubsetOrdering(Nat), FiniteSubsetsOf(Nat))
  BY FS_StrictSubsetOrderingWellFounded
<1> HIDE DEF T
<1>4. PICK x \in T : \A y \in T : ~ (<<y, x>> \in StrictSubsetOrdering(Nat))
  BY <1>1, <1>2, <1>3, WFMin
<1>5. PICK k \in S : x = 0..k
  BY DEF T
<1>6. ASSUME NEW j \in S, j < k PROVE FALSE
  <2>1. 0..j \in T /\ 0..j \subseteq 0..k /\ k \in 0..k /\ k \notin 0..j
    BY <1>6 DEF T
  <2>2. 0..j # 0..k
    BY <2>1
  <2>3. 0..j \in SUBSET Nat /\ 0..k \in SUBSET Nat
    OBVIOUS
  <2>4. <<0..j, 0..k>> \in StrictSubsetOrdering(Nat)
    BY <2>1, <2>2, <2>3 DEF StrictSubsetOrdering
  <2> QED BY <1>4, <1>5, <2>1, <2>4
<1>7. \A j \in S : k <= j
  BY <1>6
<1> QED BY <1>7 DEF Min

-----------------------------------------------------------------------------

\* A store, a job and a tree, field by field.
Stores ==
    [row : [Symbols -> Files \cup {External, NoRow}], edges : SUBSET Edges,
     owns : SUBSET (Sources \X Symbols), fresh : [Sources -> [Files -> TreeTexts]],
     files : [Files -> TreeTexts], marked : BOOLEAN, reused : BOOLEAN, collected : SUBSET Symbols]
Phases == {"idle", "scan", "read", "stat", "ingest", "floor", "mark", "delta", "forget"}
JobRecords ==
    [phase : Phases, source : Sources, todo : SUBSET Files, seen : [Files -> TreeTexts],
     bytes : [Files -> TreeTexts], draft : Stores]
Typed ==
    /\ tree \in [Files -> TreeTexts]
    /\ store \in Stores
    /\ job \in JobRecords
    /\ stamped \subseteq Files

\* No descriptor has two defining files.
Disjoint(t, u) == Defs[t] \cap Defs[u] = {}
Apart(texts) == \A f, g \in Files : f # g => Disjoint(texts[f], texts[g])

\* Each source keeps to symbols of its own scope.
Scoped(st) ==
    /\ \A e \in st.edges : e[3] = "scip" <=> e[1][1] = 0
    /\ \A s \in Symbols : <<"scip", s>> \in st.owns => s[1] = 0
    /\ \A s \in Symbols : <<"tree_sitter", s>> \in st.owns => s[1] # 0
\* A floor symbol stands in its file while the floor certifies that file.
FloorKept(st) ==
    /\ \A s \in Symbols : s[1] # 0 /\ st.row[s] # NoRow =>
          st.row[s] = s[1] /\ st.fresh["tree_sitter"][s[1]] # Gone /\ <<"tree_sitter", s>> \in st.owns
    /\ \A e \in st.edges : e[3] = "tree_sitter" => st.row[e[1]] # NoRow
\* An edge out of a certified file is a call in the certified text.
EdgesStand(st) ==
    \A e \in st.edges : \A f \in Files :
        st.row[e[1]] = f /\ st.fresh[e[3]][f] # Gone => <<e[1][2], e[2][2]>> \in Calls[st.fresh[e[3]][f]]
SoundStore(st) == ~st.reused => Scoped(st) /\ FloorKept(st) /\ EdgesStand(st)

\* What scip certifies of a file is in the store completely.
Whole(st, f) ==
    LET t == st.fresh["scip"][f]
    IN  ~st.reused /\ t # Gone =>
          /\ \A s \in SymbolsOf("scip", f, t) : st.row[s] = f /\ <<"scip", s>> \in st.owns
          /\ \A e \in ProducedEdges("scip", f, t) : e \in st.edges \/ e[2] \in st.collected

Unscanned == IF job.phase = "scan" THEN job.todo ELSE {}
Beginning == {"scan", "read", "stat", "ingest"}
\* While a build reads: a file not stamped is as it was seen, and the bytes
\* that will be certified are the bytes the indexer saw.
BuildInv ==
    job.phase \in Beginning =>
      /\ \A f \in Files \ stamped : f \in Unscanned \/ job.seen[f] = tree[f]
      /\ \A f \in Files \ stamped, g \in Files : f # g => Disjoint(tree[f], job.seen[g])
      /\ \A f \in Files : job.bytes[f] # Gone =>
            \/ job.phase = "stat" /\ f = Min(job.todo)
            \/ /\ job.bytes[f] = job.seen[f]
               /\ \A g \in Files : f # g => Disjoint(job.seen[f], job.seen[g])
      /\ job.phase = "stat" =>
            /\ job.todo # {}
            /\ \A f \in Files \ stamped : f = Min(job.todo) => job.bytes[f] = tree[f]
      /\ job.phase = "scan" => \A f \in Files : job.bytes[f] = Gone

Delta == {"delta", "forget"}
\* What a scip delta has yet to bring up to date.
Owing ==
    IF job.source # "scip" THEN {}
    ELSE job.todo \cup (IF job.phase = "delta" THEN Removed(store, "scip", job.seen) ELSE {})
\* While a delta works: its draft is sound, and complete but for what it owes.
DeltaInv ==
    job.phase \in Delta =>
      /\ Apart(job.seen)
      /\ job.draft.reused = store.reused
      /\ SoundStore(job.draft)
      /\ \A f \in job.todo : IF job.phase = "delta" THEN job.seen[f] # Gone ELSE job.seen[f] = Gone
      /\ \A f \in Files \ Owing :
            /\ job.source = "scip" => job.draft.fresh["scip"][f] = job.seen[f]
            /\ Whole(job.draft, f)

IndexInv ==
    /\ Typed
    /\ Apart(tree)
    /\ SoundStore(store)
    /\ \A f \in Files : Whole(store, f)
    /\ BuildInv
    /\ DeltaInv

-----------------------------------------------------------------------------
\* Symbols and edges.
LEMMA Parts ==
    /\ \A s \in Symbols : s[1] \in {0} \cup Files /\ s[2] \in Names /\ s = <<s[1], s[2]>>
    /\ \A e \in Edges : e[1] \in Symbols /\ e[2] \in Symbols /\ e[3] \in Sources
    /\ \A f \in Files : f # 0 /\ f # NoRow /\ f # External /\ f \in Nat
    /\ External # NoRow
BY CodeIndexAssumption DEF Symbols, Edges, NoRow, External

\* What a text gives a source, by parts.
LEMMA Defined ==
    ASSUME NEW source \in Sources, NEW f \in Files, NEW t \in TreeTexts
    PROVE  /\ SymbolsOf(source, f, t) \subseteq Symbols
           /\ \A s \in SymbolsOf(source, f, t) :
                 s[2] \in Defs[t] /\ s[1] = IF source = "scip" THEN 0 ELSE f
           /\ \A s \in Symbols : s[2] \in Defs[t] /\ s[1] = (IF source = "scip" THEN 0 ELSE f)
                 => s \in SymbolsOf(source, f, t)
<1>1. Defs[t] \subseteq Names
  BY CodeIndexAssumption DEF TreeTexts
<1> QED BY <1>1, Parts DEF SymbolsOf, Symbols

LEMMA Produced ==
    ASSUME NEW source \in Sources, NEW f \in Files, NEW t \in TreeTexts,
           NEW e \in ProducedEdges(source, f, t)
    PROVE  /\ e \in Edges /\ e[3] = source /\ e[1] \in SymbolsOf(source, f, t)
           /\ <<e[1][2], e[2][2]>> \in Calls[t]
           /\ (source = "scip" <=> e[1][1] = 0)
<1>1. /\ e \in Edges /\ e[3] = source /\ e[1][1] = (IF source = "scip" THEN 0 ELSE f)
      /\ <<e[1][2], e[2][2]>> \in Calls[t]
  BY DEF ProducedEdges
<1>2. e[1] \in Symbols
  BY <1>1, Parts
<1>3. Calls[t] \subseteq Defs[t] \X Names
  BY CodeIndexAssumption DEF TreeTexts
<1>4. e[1][2] \in Defs[t]
  BY <1>1, <1>3
<1>5. e[1] \in SymbolsOf(source, f, t)
  BY <1>1, <1>2, <1>4, Defined
<1> QED BY <1>1, <1>5, Parts DEF Sources

\* The empty store is a store.
LEMMA EmptyTyped == EmptyStore \in Stores
BY DEF EmptyStore, Stores, TreeTexts

-----------------------------------------------------------------------------
\* What the steps of a delta do to a store, field by field.
Orphans(st, source, dropped) ==
    {s \in dropped : \A o \in Sources : <<o, s>> \notin st.owns \ ({source} \X dropped)}

LEMMA ReleasedFields ==
    ASSUME NEW st \in Stores, NEW source \in Sources, NEW dropped \in SUBSET Symbols
    PROVE  LET r == Released(st, source, dropped)
               orphans == Orphans(st, source, dropped)
           IN  /\ r \in Stores
               /\ r.row = [s \in Symbols |-> IF s \in orphans THEN NoRow ELSE st.row[s]]
               /\ r.edges = {e \in st.edges : e[1] \notin orphans /\ e[2] \notin orphans}
               /\ r.owns = st.owns \ ({source} \X dropped)
               /\ r.fresh = st.fresh /\ r.reused = st.reused /\ r.files = st.files
               /\ r.collected = st.collected \cup orphans
<1> DEFINE orphans == Orphans(st, source, dropped)
<1>1. orphans \subseteq Symbols
  BY DEF Orphans
<1> HIDE DEF orphans
<1>2. Released(st, source, dropped) =
        [st EXCEPT !.owns  = st.owns \ ({source} \X dropped),
                   !.edges = {e \in @ : e[1] \notin orphans /\ e[2] \notin orphans},
                   !.row   = [s \in Symbols |-> IF s \in orphans THEN NoRow ELSE @[s]],
                   !.collected = @ \cup orphans]
  BY DEF Released, Orphans, orphans
<1>3. [s \in Symbols |-> IF s \in orphans THEN NoRow ELSE st.row[s]]
         \in [Symbols -> Files \cup {External, NoRow}]
  BY DEF Stores
<1>4. /\ {e \in st.edges : e[1] \notin orphans /\ e[2] \notin orphans} \in SUBSET Edges
      /\ st.owns \ ({source} \X dropped) \in SUBSET (Sources \X Symbols)
      /\ st.collected \cup orphans \in SUBSET Symbols
  BY <1>1 DEF Stores
<1>5. LET r == Released(st, source, dropped)
      IN  /\ r \in Stores
          /\ r.row = [s \in Symbols |-> IF s \in orphans THEN NoRow ELSE st.row[s]]
          /\ r.edges = {e \in st.edges : e[1] \notin orphans /\ e[2] \notin orphans}
          /\ r.owns = st.owns \ ({source} \X dropped)
          /\ r.fresh = st.fresh /\ r.reused = st.reused /\ r.files = st.files
          /\ r.collected = st.collected \cup orphans
  BY <1>2, <1>3, <1>4 DEF Stores
<1> QED BY <1>5 DEF orphans

LEMMA ReplacedFields ==
    ASSUME NEW st \in Stores, NEW source \in Sources, NEW f \in Files, NEW new \in SUBSET Edges
    PROVE  LET r == Replaced(st, source, f, new)
           IN  /\ r \in Stores
               /\ r.edges = {e \in st.edges : ~(e[3] = source /\ st.row[e[1]] = f)} \cup new
               /\ r.row = st.row /\ r.owns = st.owns /\ r.fresh = st.fresh /\ r.files = st.files
               /\ r.reused = st.reused /\ r.collected = st.collected
BY DEF Replaced, Stores

\* A re-indexed file before what it no longer defines is released.
Stamped(st, source, f, t) ==
    [Replaced([st EXCEPT !.row = [s \in Symbols |-> IF s \in SymbolsOf(source, f, t) THEN f ELSE @[s]],
                         !.owns = @ \cup {source} \X SymbolsOf(source, f, t)],
              source, f, ProducedEdges(source, f, t))
       EXCEPT !.fresh[source][f] = t, !.files[f] = t]

LEMMA StampedFields ==
    ASSUME NEW st \in Stores, NEW source \in Sources, NEW f \in Files, NEW t \in TreeTexts
    PROVE  LET r == Stamped(st, source, f, t)
               new == SymbolsOf(source, f, t)
           IN  /\ r \in Stores
               /\ r.row = [s \in Symbols |-> IF s \in new THEN f ELSE st.row[s]]
               /\ r.owns = st.owns \cup {source} \X new
               /\ r.edges = {e \in st.edges : ~(e[3] = source /\ r.row[e[1]] = f)}
                              \cup ProducedEdges(source, f, t)
               /\ r.fresh = [st.fresh EXCEPT ![source][f] = t]
               /\ r.reused = st.reused /\ r.collected = st.collected
<1> DEFINE new == SymbolsOf(source, f, t)
           up == [st EXCEPT !.row = [s \in Symbols |-> IF s \in new THEN f ELSE @[s]],
                            !.owns = @ \cup {source} \X new]
           edged == Replaced(up, source, f, ProducedEdges(source, f, t))
<1>1. new \subseteq Symbols
  BY Defined
<1>2. ProducedEdges(source, f, t) \in SUBSET Edges
  BY DEF ProducedEdges
<1> HIDE DEF new
<1>3. [s \in Symbols |-> IF s \in new THEN f ELSE st.row[s]] \in [Symbols -> Files \cup {External, NoRow}]
  BY DEF Stores
<1>4. /\ up \in Stores
      /\ up.row = [s \in Symbols |-> IF s \in new THEN f ELSE st.row[s]]
      /\ up.owns = st.owns \cup {source} \X new
      /\ up.edges = st.edges /\ up.fresh = st.fresh /\ up.files = st.files
      /\ up.reused = st.reused /\ up.collected = st.collected
  BY <1>1, <1>3 DEF Stores
<1> HIDE DEF up
<1>5. /\ edged \in Stores
      /\ edged.row = up.row /\ edged.owns = up.owns
      /\ edged.edges = {e \in up.edges : ~(e[3] = source /\ up.row[e[1]] = f)} \cup ProducedEdges(source, f, t)
      /\ edged.fresh = up.fresh /\ edged.files = up.files
      /\ edged.reused = up.reused /\ edged.collected = up.collected
  BY <1>2, <1>4, ReplacedFields
<1> HIDE DEF edged
<1>6. Stamped(st, source, f, t) = [edged EXCEPT !.fresh[source][f] = t, !.files[f] = t]
  BY DEF Stamped, edged, up, new
<1>7. [edged.fresh EXCEPT ![source][f] = t] \in [Sources -> [Files -> TreeTexts]]
      /\ [edged.files EXCEPT ![f] = t] \in [Files -> TreeTexts]
  BY <1>5 DEF Stores
<1>8. /\ Stamped(st, source, f, t) \in Stores
      /\ Stamped(st, source, f, t).fresh = [edged.fresh EXCEPT ![source][f] = t]
      /\ Stamped(st, source, f, t).row = edged.row /\ Stamped(st, source, f, t).owns = edged.owns
      /\ Stamped(st, source, f, t).edges = edged.edges
      /\ Stamped(st, source, f, t).reused = edged.reused
      /\ Stamped(st, source, f, t).collected = edged.collected
  BY <1>5, <1>6, <1>7 DEF Stores
<1> QED BY <1>4, <1>5, <1>8 DEF new

LEMMA ReindexedIs ==
    ASSUME NEW st, NEW source, NEW f, NEW t
    PROVE  Reindexed(st, source, f, t) =
             Released(Stamped(st, source, f, t), source,
                      OwnedIn(st, source, f) \ SymbolsOf(source, f, t))
BY DEF Reindexed, Stamped

Unstamped(st, source, f) == [Replaced(st, source, f, {}) EXCEPT !.fresh[source][f] = Gone]

LEMMA UnstampedFields ==
    ASSUME NEW st \in Stores, NEW source \in Sources, NEW f \in Files
    PROVE  LET r == Unstamped(st, source, f)
           IN  /\ r \in Stores
               /\ r.edges = {e \in st.edges : ~(e[3] = source /\ st.row[e[1]] = f)}
               /\ r.row = st.row /\ r.owns = st.owns
               /\ r.fresh = [st.fresh EXCEPT ![source][f] = Gone]
               /\ r.reused = st.reused /\ r.collected = st.collected
<1> DEFINE mid == Replaced(st, source, f, {})
<1>1. /\ mid \in Stores
      /\ mid.edges = {e \in st.edges : ~(e[3] = source /\ st.row[e[1]] = f)}
      /\ mid.row = st.row /\ mid.owns = st.owns /\ mid.fresh = st.fresh
      /\ mid.reused = st.reused /\ mid.collected = st.collected
  BY ReplacedFields
<1> HIDE DEF mid
<1>2. Gone \in TreeTexts
  BY DEF TreeTexts
<1>3. [mid.fresh EXCEPT ![source][f] = Gone] \in [Sources -> [Files -> TreeTexts]]
  BY <1>1, <1>2 DEF Stores
<1>4. Unstamped(st, source, f) = [mid EXCEPT !.fresh[source][f] = Gone]
  BY DEF Unstamped, mid
<1> QED BY <1>1, <1>3, <1>4 DEF Stores

LeftBy(st, source, f) ==
    Released(Unstamped(st, source, f), source, OwnedIn(st, source, f))

\* Rows that nobody certifies any more may be swept along.
LEMMA ForgottenFields ==
    ASSUME NEW st \in Stores, NEW source \in Sources, NEW f \in Files
    PROVE  LET r == Forgotten(st, source, f)
               left == LeftBy(st, source, f)
           IN  /\ r \in Stores
               /\ r.edges = left.edges /\ r.owns = left.owns /\ r.fresh = left.fresh
               /\ r.reused = left.reused /\ r.collected = left.collected
               /\ \A s \in Symbols :
                     \/ r.row[s] = left.row[s]
                     \/ left.row[s] = f /\ r.row[s] = NoRow /\ \A o \in Sources : left.fresh[o][f] = Gone
<1> DEFINE left == LeftBy(st, source, f)
<1>1. left \in Stores
  BY UnstampedFields, ReleasedFields DEF LeftBy, OwnedIn
<1>2. Forgotten(st, source, f) =
        IF \A s \in Sources : left.fresh[s][f] = Gone
        THEN [left EXCEPT !.row = [s \in Symbols |-> IF @[s] = f THEN NoRow ELSE @[s]],
                          !.files[f] = Gone]
        ELSE left
  BY DEF Forgotten, LeftBy, Unstamped
<1> HIDE DEF left
<1>3. CASE \A s \in Sources : left.fresh[s][f] = Gone
  <2> DEFINE swept == [s \in Symbols |-> IF left.row[s] = f THEN NoRow ELSE left.row[s]]
  <2>1. swept \in [Symbols -> Files \cup {External, NoRow}]
    BY <1>1 DEF Stores
  <2>2. [left.files EXCEPT ![f] = Gone] \in [Files -> TreeTexts]
    BY <1>1 DEF Stores, TreeTexts
  <2>3. Forgotten(st, source, f) =
          [left EXCEPT !.row = [s \in Symbols |-> IF @[s] = f THEN NoRow ELSE @[s]], !.files[f] = Gone]
    BY <1>2, <1>3
  <2>4. /\ Forgotten(st, source, f).row = swept
        /\ Forgotten(st, source, f) \in Stores
        /\ Forgotten(st, source, f).edges = left.edges /\ Forgotten(st, source, f).owns = left.owns
        /\ Forgotten(st, source, f).fresh = left.fresh /\ Forgotten(st, source, f).reused = left.reused
        /\ Forgotten(st, source, f).collected = left.collected
    BY <1>1, <2>1, <2>2, <2>3 DEF Stores
  <2> QED BY <1>3, <2>4 DEF left
<1>4. CASE ~ \A s \in Sources : left.fresh[s][f] = Gone
  BY <1>1, <1>2, <1>4 DEF left
<1> QED BY <1>3, <1>4

-----------------------------------------------------------------------------
\* A re-indexed file: its edges are those of the text it is stamped with.
LEMMA StampedSound ==
    ASSUME NEW st \in Stores, NEW source \in Sources, NEW f \in Files, NEW t \in Texts,
           Scoped(st), FloorKept(st), EdgesStand(st)
    PROVE  LET r == Stamped(st, source, f, t) IN Scoped(r) /\ FloorKept(r) /\ EdgesStand(r)
<1> DEFINE r == Stamped(st, source, f, t)
           new == SymbolsOf(source, f, t)
<1>0. t \in TreeTexts /\ t # Gone
  BY CodeIndexAssumption DEF TreeTexts
<1>1. /\ r \in Stores
      /\ r.row = [s \in Symbols |-> IF s \in new THEN f ELSE st.row[s]]
      /\ r.owns = st.owns \cup {source} \X new
      /\ r.edges = {e \in st.edges : ~(e[3] = source /\ r.row[e[1]] = f)} \cup ProducedEdges(source, f, t)
      /\ r.fresh = [st.fresh EXCEPT ![source][f] = t]
  BY <1>0, StampedFields
<1>2. \A s \in new : s \in Symbols /\ s[2] \in Defs[t] /\ s[1] = IF source = "scip" THEN 0 ELSE f
  BY <1>0, Defined
<1>3. \A e \in ProducedEdges(source, f, t) :
         /\ e \in Edges /\ e[3] = source /\ e[1] \in new /\ <<e[1][2], e[2][2]>> \in Calls[t]
         /\ (source = "scip" <=> e[1][1] = 0)
  <2> SUFFICES ASSUME NEW e \in ProducedEdges(source, f, t)
               PROVE  /\ e \in Edges /\ e[3] = source /\ e[1] \in new /\ <<e[1][2], e[2][2]>> \in Calls[t]
                      /\ (source = "scip" <=> e[1][1] = 0)
    OBVIOUS
  <2> QED BY <1>0, Produced
<1>4. st.edges \subseteq Edges /\ st.fresh \in [Sources -> [Files -> TreeTexts]]
  BY DEF Stores
<1> HIDE DEF r, new
<1>5. \A o \in Sources, g \in Files : r.fresh[o][g] = IF o = source /\ g = f THEN t ELSE st.fresh[o][g]
  BY <1>1, <1>4
<1>6. \A e \in r.edges : e \in Edges /\ e[1] \in Symbols /\ e[3] \in Sources
                          /\ (e \in st.edges \/ e \in ProducedEdges(source, f, t))
  BY <1>1, <1>3, <1>4, Parts
<1>7. Scoped(r)
  <2>1. \A e \in r.edges : e[3] = "scip" <=> e[1][1] = 0
    BY <1>3, <1>6 DEF Scoped
  <2>2. \A s \in Symbols : <<"scip", s>> \in r.owns => s[1] = 0
    BY <1>1, <1>2 DEF Scoped
  <2>3. \A s \in Symbols : <<"tree_sitter", s>> \in r.owns => s[1] # 0
    BY <1>1, <1>2, Parts DEF Scoped
  <2> QED BY <2>1, <2>2, <2>3 DEF Scoped
<1>8. FloorKept(r)
  <2>1. ASSUME NEW s \in Symbols, s[1] # 0, r.row[s] # NoRow
        PROVE  r.row[s] = s[1] /\ r.fresh["tree_sitter"][s[1]] # Gone /\ <<"tree_sitter", s>> \in r.owns
    <3>1. s[1] \in Files
      BY <2>1, Parts
    <3>2. CASE s \in new
      <4>1. source = "tree_sitter" /\ s[1] = f /\ r.row[s] = f
        BY <1>1, <1>2, <2>1, <3>2 DEF Sources
      <4> QED BY <1>0, <1>1, <1>5, <3>2, <4>1 DEF Sources
    <3>3. CASE s \notin new
      <4>1. r.row[s] = st.row[s]
        BY <1>1, <3>3
      <4>2. st.row[s] = s[1] /\ st.fresh["tree_sitter"][s[1]] # Gone /\ <<"tree_sitter", s>> \in st.owns
        BY <2>1, <4>1 DEF FloorKept
      <4> QED BY <1>0, <1>1, <1>5, <3>1, <4>1, <4>2 DEF Sources
    <3> QED BY <3>2, <3>3
  <2>2. ASSUME NEW e \in r.edges, e[3] = "tree_sitter" PROVE r.row[e[1]] # NoRow
    <3>1. CASE e[1] \in new
      BY <1>1, <1>2, <3>1, Parts
    <3>2. CASE e[1] \notin new
      <4>1. e \in st.edges
        BY <1>3, <1>6, <3>2
      <4> QED BY <1>1, <1>6, <2>2, <3>2, <4>1 DEF FloorKept
    <3> QED BY <3>1, <3>2
  <2> QED BY <2>1, <2>2 DEF FloorKept
<1>9. EdgesStand(r)
  <2> SUFFICES ASSUME NEW e \in r.edges, NEW g \in Files, r.row[e[1]] = g, r.fresh[e[3]][g] # Gone
               PROVE  <<e[1][2], e[2][2]>> \in Calls[r.fresh[e[3]][g]]
    BY DEF EdgesStand
  <2>1. CASE e \in ProducedEdges(source, f, t)
    <3>1. e[3] = source /\ r.row[e[1]] = f
      BY <1>1, <1>2, <1>3, <2>1
    <3>2. r.fresh[e[3]][g] = t
      BY <1>5, <3>1
    <3> QED BY <1>3, <2>1, <3>2
  <2>2. CASE e \notin ProducedEdges(source, f, t)
    <3>1. e \in st.edges /\ ~(e[3] = source /\ r.row[e[1]] = f)
      BY <1>1, <2>2
    <3>2. e[1] \notin new
      <4>1. ASSUME e[1] \in new PROVE FALSE
        <5>1. r.row[e[1]] = f
          BY <1>1, <1>2, <4>1
        <5>2. (source = "scip") <=> (e[1][1] = 0)
          BY <1>2, <4>1, Parts
        <5>3. (e[3] = "scip") <=> (e[1][1] = 0)
          BY <3>1 DEF Scoped
        <5>4. e[3] = source
          BY <1>6, <5>2, <5>3 DEF Sources
        <5> QED BY <3>1, <5>1, <5>4
      <4> QED BY <4>1
    <3>3. r.row[e[1]] = st.row[e[1]]
      BY <1>1, <1>6, <3>2
    <3>4. r.fresh[e[3]][g] = st.fresh[e[3]][g]
      BY <1>5, <1>6, <3>1
    <3> QED BY <3>1, <3>3, <3>4 DEF EdgesStand
  <2> QED BY <2>1, <2>2
<1> QED BY <1>7, <1>8, <1>9 DEF r

\* A source releases only what it owns: symbols that go take their edges along.
LEMMA ReleasedSound ==
    ASSUME NEW st \in Stores, NEW source \in Sources, NEW dropped \in SUBSET Symbols,
           \A s \in dropped : <<source, s>> \in st.owns,
           Scoped(st), FloorKept(st), EdgesStand(st)
    PROVE  LET r == Released(st, source, dropped) IN Scoped(r) /\ FloorKept(r) /\ EdgesStand(r)
<1> DEFINE r == Released(st, source, dropped)
           orphans == Orphans(st, source, dropped)
<1>1. /\ r \in Stores
      /\ r.row = [s \in Symbols |-> IF s \in orphans THEN NoRow ELSE st.row[s]]
      /\ r.edges = {e \in st.edges : e[1] \notin orphans /\ e[2] \notin orphans}
      /\ r.owns = st.owns \ ({source} \X dropped)
      /\ r.fresh = st.fresh
  BY ReleasedFields
<1>2. orphans = {s \in dropped : \A o \in Sources : <<o, s>> \notin st.owns \ ({source} \X dropped)}
  BY DEF Orphans
<1>3. st.edges \subseteq Edges
  BY DEF Stores
<1> HIDE DEF r, orphans
<1>4. \A e \in r.edges : e \in st.edges /\ e[1] \in Symbols /\ r.row[e[1]] = st.row[e[1]]
  BY <1>1, <1>3, Parts
<1>5. Scoped(r)
  BY <1>1 DEF Scoped
<1>6. FloorKept(r)
  <2>1. ASSUME NEW s \in Symbols, s[1] # 0, r.row[s] # NoRow
        PROVE  r.row[s] = s[1] /\ r.fresh["tree_sitter"][s[1]] # Gone /\ <<"tree_sitter", s>> \in r.owns
    <3>1. s \notin orphans /\ r.row[s] = st.row[s]
      BY <1>1, <2>1
    <3>2. st.row[s] = s[1] /\ st.fresh["tree_sitter"][s[1]] # Gone /\ <<"tree_sitter", s>> \in st.owns
      BY <2>1, <3>1 DEF FloorKept
    <3>3. <<"scip", s>> \notin st.owns
      BY <2>1 DEF Scoped
    <3>4. <<"tree_sitter", s>> \in r.owns
      <4>1. CASE s \in dropped
        <5>1. source = "tree_sitter"
          BY <3>3, <4>1 DEF Sources
        <5>2. \A o \in Sources : <<o, s>> \notin st.owns \ ({source} \X dropped)
          BY <3>3, <4>1, <5>1 DEF Sources
        <5> QED BY <1>2, <3>1, <4>1, <5>2
      <4>2. CASE s \notin dropped
        BY <1>1, <3>2, <4>2
      <4> QED BY <4>1, <4>2
    <3> QED BY <1>1, <3>1, <3>2, <3>4
  <2>2. \A e \in r.edges : e[3] = "tree_sitter" => r.row[e[1]] # NoRow
    BY <1>4 DEF FloorKept
  <2> QED BY <2>1, <2>2 DEF FloorKept
<1>7. EdgesStand(r)
  BY <1>1, <1>4 DEF EdgesStand
<1> QED BY <1>5, <1>6, <1>7 DEF r

\* A file re-indexed, or forgotten, leaves a sound store sound.
LEMMA ReindexedSound ==
    ASSUME NEW st \in Stores, NEW source \in Sources, NEW f \in Files, NEW t \in Texts,
           SoundStore(st)
    PROVE  LET r == Reindexed(st, source, f, t)
           IN  r \in Stores /\ r.reused = st.reused /\ SoundStore(r)
<1> DEFINE mid == Stamped(st, source, f, t)
           new == SymbolsOf(source, f, t)
           dropped == OwnedIn(st, source, f) \ new
           orphans == Orphans(mid, source, dropped)
           r == Released(mid, source, dropped)
<1>1. t \in TreeTexts /\ t # Gone
  BY CodeIndexAssumption DEF TreeTexts
<1>2. /\ mid \in Stores
      /\ mid.row = [s \in Symbols |-> IF s \in new THEN f ELSE st.row[s]]
      /\ mid.owns = st.owns \cup {source} \X new
      /\ mid.edges = {e \in st.edges : ~(e[3] = source /\ mid.row[e[1]] = f)}
                        \cup ProducedEdges(source, f, t)
      /\ mid.fresh = [st.fresh EXCEPT ![source][f] = t]
      /\ mid.reused = st.reused /\ mid.collected = st.collected
  BY <1>1, StampedFields
<1>3. ~st.reused => Scoped(mid) /\ FloorKept(mid) /\ EdgesStand(mid)
  BY StampedSound DEF SoundStore
<1>4. Reindexed(st, source, f, t) = r
  BY ReindexedIs
<1> HIDE DEF mid
<1>5. dropped \in SUBSET Symbols /\ \A s \in dropped : <<source, s>> \in mid.owns
  BY <1>2 DEF OwnedIn
<1> HIDE DEF dropped
<1>6. /\ r \in Stores
      /\ r.row = [s \in Symbols |-> IF s \in orphans THEN NoRow ELSE mid.row[s]]
      /\ r.edges = {e \in mid.edges : e[1] \notin orphans /\ e[2] \notin orphans}
      /\ r.owns = mid.owns \ ({source} \X dropped)
      /\ r.fresh = mid.fresh /\ r.reused = mid.reused /\ r.files = mid.files
      /\ r.collected = mid.collected \cup orphans
  BY <1>2, <1>5, ReleasedFields
<1>7. ~st.reused => Scoped(r) /\ FloorKept(r) /\ EdgesStand(r)
  BY <1>2, <1>3, <1>5, ReleasedSound
<1> HIDE DEF r
<1> QED BY <1>2, <1>4, <1>6, <1>7 DEF SoundStore

\* A forgotten file: what its source owned there goes, and no row of the floor
\* stays behind without a hash.
LEMMA ForgottenSound ==
    ASSUME NEW st \in Stores, NEW source \in Sources, NEW f \in Files, SoundStore(st)
    PROVE  LET r == Forgotten(st, source, f)
           IN  r \in Stores /\ r.reused = st.reused /\ SoundStore(r)
<1> DEFINE mid == Unstamped(st, source, f)
           dropped == OwnedIn(st, source, f)
           orphans == Orphans(mid, source, dropped)
           left == LeftBy(st, source, f)
           r == Forgotten(st, source, f)
<1>1. /\ mid \in Stores /\ mid.reused = st.reused
      /\ mid.edges = {e \in st.edges : ~(e[3] = source /\ st.row[e[1]] = f)}
      /\ mid.row = st.row /\ mid.owns = st.owns
      /\ mid.fresh = [st.fresh EXCEPT ![source][f] = Gone]
  BY UnstampedFields
<1>2. dropped \in SUBSET Symbols /\ \A s \in Symbols : s \in dropped <=> <<source, s>> \in st.owns /\ st.row[s] = f
  BY DEF OwnedIn
<1>3. /\ left \in Stores /\ left.reused = mid.reused
      /\ left.row = [s \in Symbols |-> IF s \in orphans THEN NoRow ELSE mid.row[s]]
      /\ left.edges = {e \in mid.edges : e[1] \notin orphans /\ e[2] \notin orphans}
      /\ left.owns = mid.owns \ ({source} \X dropped) /\ left.fresh = mid.fresh
  BY <1>1, <1>2, ReleasedFields DEF LeftBy
<1>4. /\ r \in Stores /\ r.reused = left.reused
      /\ r.edges = left.edges /\ r.owns = left.owns /\ r.fresh = left.fresh
      /\ \A s \in Symbols :
            \/ r.row[s] = left.row[s]
            \/ left.row[s] = f /\ r.row[s] = NoRow /\ \A o \in Sources : left.fresh[o][f] = Gone
  BY ForgottenFields
<1>5. orphans = {s \in dropped : \A o \in Sources : <<o, s>> \notin mid.owns \ ({source} \X dropped)}
  BY DEF Orphans
<1>6. st.edges \subseteq Edges /\ st.fresh \in [Sources -> [Files -> TreeTexts]]
  BY DEF Stores
<1> HIDE DEF mid, dropped, orphans, left, r
<1> SUFFICES ASSUME ~st.reused PROVE Scoped(r) /\ FloorKept(r) /\ EdgesStand(r)
  BY <1>1, <1>3, <1>4 DEF SoundStore, r
<1>7. Scoped(st) /\ FloorKept(st) /\ EdgesStand(st)
  BY DEF SoundStore
<1>8. \A o \in Sources, g \in Files : r.fresh[o][g] = IF o = source /\ g = f THEN Gone ELSE st.fresh[o][g]
  BY <1>1, <1>3, <1>4, <1>6
<1>9. /\ \A s \in Symbols : r.row[s] = st.row[s] \/ r.row[s] = NoRow
      /\ \A e \in r.edges : e \in st.edges /\ e[1] \in Symbols /\ e[1] \notin orphans /\ e[3] \in Sources
  BY <1>1, <1>3, <1>4, <1>6, Parts
<1>10. Scoped(r)
  BY <1>1, <1>3, <1>4, <1>7, <1>9 DEF Scoped
\* A row of the floor that goes is an orphan.
<1>11. ASSUME NEW s \in Symbols, s[1] # 0, st.row[s] # NoRow
       PROVE  \/ r.row[s] = st.row[s] /\ ~(source = "tree_sitter" /\ s[1] = f)
              \/ r.row[s] = NoRow /\ s \in orphans
  <2>1. st.row[s] = s[1] /\ st.fresh["tree_sitter"][s[1]] # Gone /\ <<"tree_sitter", s>> \in st.owns
    BY <1>7, <1>11 DEF FloorKept
  <2>2. <<"scip", s>> \notin st.owns
    BY <1>7, <1>11 DEF Scoped
  <2>3. CASE source = "tree_sitter" /\ s[1] = f
    <3>1. s \in dropped
      BY <1>2, <2>1, <2>3
    <3>2. s \in orphans
      BY <1>1, <1>5, <2>2, <2>3, <3>1 DEF Sources
    <3>3. left.row[s] = NoRow
      BY <1>3, <3>2
    <3> QED BY <1>4, <3>2, <3>3
  <2>4. CASE ~(source = "tree_sitter" /\ s[1] = f)
    <3>1. s \notin dropped
      BY <1>2, <2>1, <2>2, <2>4 DEF Sources
    <3>2. left.row[s] = st.row[s]
      BY <1>1, <1>3, <1>5, <3>1
    <3>3. s[1] \in Files
      BY <1>11, Parts
    <3>4. left.fresh["tree_sitter"][s[1]] # Gone
      BY <1>4, <1>8, <2>1, <2>4, <3>3 DEF Sources
    <3> QED BY <1>4, <2>1, <2>4, <3>2, <3>4 DEF Sources
  <2> QED BY <2>3, <2>4
<1>12. FloorKept(r)
  <2>1. ASSUME NEW s \in Symbols, s[1] # 0, r.row[s] # NoRow
        PROVE  r.row[s] = s[1] /\ r.fresh["tree_sitter"][s[1]] # Gone /\ <<"tree_sitter", s>> \in r.owns
    <3>1. r.row[s] = st.row[s] /\ st.row[s] # NoRow /\ ~(source = "tree_sitter" /\ s[1] = f)
      BY <1>9, <1>11, <2>1
    <3>2. st.row[s] = s[1] /\ st.fresh["tree_sitter"][s[1]] # Gone /\ <<"tree_sitter", s>> \in st.owns
      BY <1>7, <2>1, <3>1 DEF FloorKept
    <3>3. s[1] \in Files
      BY <2>1, Parts
    <3>4. <<"tree_sitter", s>> \in r.owns
      BY <1>1, <1>2, <1>3, <1>4, <3>1, <3>2
    <3> QED BY <1>8, <3>1, <3>2, <3>3, <3>4 DEF Sources
  <2>2. ASSUME NEW e \in r.edges, e[3] = "tree_sitter" PROVE r.row[e[1]] # NoRow
    <3>1. st.row[e[1]] # NoRow /\ e[1][1] # 0
      BY <1>7, <1>9, <2>2 DEF FloorKept, Scoped
    <3> QED BY <1>9, <1>11, <3>1
  <2> QED BY <2>1, <2>2 DEF FloorKept
<1>13. EdgesStand(r)
  <2> SUFFICES ASSUME NEW e \in r.edges, NEW g \in Files, r.row[e[1]] = g, r.fresh[e[3]][g] # Gone
               PROVE  <<e[1][2], e[2][2]>> \in Calls[r.fresh[e[3]][g]]
    BY DEF EdgesStand
  <2>1. e \in st.edges /\ st.row[e[1]] = g
    BY <1>9, Parts
  <2>2. r.fresh[e[3]][g] = st.fresh[e[3]][g]
    BY <1>8, <1>9
  <2> QED BY <1>7, <2>1, <2>2 DEF EdgesStand
<1> QED BY <1>10, <1>12, <1>13

-----------------------------------------------------------------------------
LEMMA ScipProduced ==
    ASSUME NEW g \in Files, NEW u \in TreeTexts
    PROVE  \A e \in ProducedEdges("scip", g, u) : e[3] = "scip" /\ e[1] \in SymbolsOf("scip", g, u)
<1>1. "scip" \in Sources
  BY DEF Sources
<1>2. ASSUME NEW e \in ProducedEdges("scip", g, u)
      PROVE  /\ e \in Edges /\ e[3] = "scip" /\ e[1] \in SymbolsOf("scip", g, u)
             /\ <<e[1][2], e[2][2]>> \in Calls[u]
             /\ ("scip" = "scip" <=> e[1][1] = 0)
  BY <1>1, Produced
<1> QED BY <1>2

\* A file that is whole stays so while others are re-indexed or forgotten.
LEMMA StampedWhole ==
    ASSUME NEW st \in Stores, NEW source \in Sources, NEW f \in Files, NEW t \in Texts,
           NEW g \in Files, Whole(st, g),
           source = "scip" => g # f /\ Disjoint(st.fresh["scip"][g], t)
    PROVE  Whole(Stamped(st, source, f, t), g)
<1> DEFINE r == Stamped(st, source, f, t)
           new == SymbolsOf(source, f, t)
           u == st.fresh["scip"][g]
<1>0. t \in TreeTexts /\ t # Gone /\ u \in TreeTexts /\ "scip" \in Sources
  BY CodeIndexAssumption DEF TreeTexts, Stores, Sources
<1>1. /\ r \in Stores
      /\ r.row = [s \in Symbols |-> IF s \in new THEN f ELSE st.row[s]]
      /\ r.owns = st.owns \cup {source} \X new
      /\ r.edges = {e \in st.edges : ~(e[3] = source /\ r.row[e[1]] = f)} \cup ProducedEdges(source, f, t)
      /\ r.fresh = [st.fresh EXCEPT ![source][f] = t]
      /\ r.reused = st.reused /\ r.collected = st.collected
  BY <1>0, StampedFields
<1>2. \A s \in new : s \in Symbols /\ s[2] \in Defs[t] /\ s[1] = IF source = "scip" THEN 0 ELSE f
  BY <1>0, Defined
<1>3. \A s \in SymbolsOf("scip", g, u) : s \in Symbols /\ s[2] \in Defs[u] /\ s[1] = 0
  BY <1>0, Defined
<1>4. \A e \in ProducedEdges("scip", g, u) : e[3] = "scip" /\ e[1] \in SymbolsOf("scip", g, u)
  BY <1>0, ScipProduced
<1>5. st.fresh \in [Sources -> [Files -> TreeTexts]]
  BY DEF Stores
<1> HIDE DEF r, new
<1>6. r.fresh["scip"][g] = u
  BY <1>0, <1>1, <1>5
<1>7. SymbolsOf("scip", g, u) \cap new = {}
  <2>1. CASE source = "scip"
    BY <1>2, <1>3, <2>1 DEF Disjoint
  <2>2. CASE source # "scip"
    BY <1>2, <1>3, <2>2, Parts
  <2> QED BY <2>1, <2>2
<1> HIDE DEF u
<1> SUFFICES ASSUME ~st.reused, u # Gone
             PROVE  /\ \A s \in SymbolsOf("scip", g, u) : r.row[s] = g /\ <<"scip", s>> \in r.owns
                    /\ \A e \in ProducedEdges("scip", g, u) : e \in r.edges \/ e[2] \in r.collected
  BY <1>1, <1>6 DEF Whole, r
<1>8. /\ \A s \in SymbolsOf("scip", g, u) : st.row[s] = g /\ <<"scip", s>> \in st.owns
      /\ \A e \in ProducedEdges("scip", g, u) : e \in st.edges \/ e[2] \in st.collected
  BY DEF Whole, u
<1>9. \A s \in SymbolsOf("scip", g, u) : r.row[s] = g /\ <<"scip", s>> \in r.owns
  BY <1>1, <1>3, <1>7, <1>8
<1>10. ASSUME NEW e \in ProducedEdges("scip", g, u) PROVE e \in r.edges \/ e[2] \in r.collected
  <2>1. ~(e[3] = source /\ r.row[e[1]] = f)
    BY <1>4, <1>9
  <2> QED BY <1>1, <1>8, <2>1
<1> QED BY <1>9, <1>10

LEMMA StampedWholeSelf ==
    ASSUME NEW st \in Stores, NEW f \in Files, NEW t \in Texts
    PROVE  Whole(Stamped(st, "scip", f, t), f)
<1> DEFINE r == Stamped(st, "scip", f, t)
           new == SymbolsOf("scip", f, t)
<1>0. t \in TreeTexts /\ "scip" \in Sources
  BY DEF TreeTexts, Sources
<1>1. /\ r \in Stores
      /\ r.row = [s \in Symbols |-> IF s \in new THEN f ELSE st.row[s]]
      /\ r.owns = st.owns \cup {"scip"} \X new
      /\ r.edges = {e \in st.edges : ~(e[3] = "scip" /\ r.row[e[1]] = f)} \cup ProducedEdges("scip", f, t)
      /\ r.fresh = [st.fresh EXCEPT !["scip"][f] = t]
      /\ r.reused = st.reused /\ r.collected = st.collected
  BY <1>0, StampedFields
<1>2. new \subseteq Symbols
  BY <1>0, Defined
<1>3. st.fresh \in [Sources -> [Files -> TreeTexts]]
  BY DEF Stores
<1> HIDE DEF r
<1>4. r.fresh["scip"][f] = t
  BY <1>0, <1>1, <1>3
<1> HIDE DEF new
<1>5. \A s \in new : r.row[s] = f /\ <<"scip", s>> \in r.owns
  BY <1>1, <1>2
<1>6. \A e \in ProducedEdges("scip", f, t) : e \in r.edges
  BY <1>1
<1> QED BY <1>4, <1>5, <1>6 DEF Whole, r, new

LEMMA ReleasedWhole ==
    ASSUME NEW st \in Stores, NEW source \in Sources, NEW dropped \in SUBSET Symbols,
           NEW g \in Files, Whole(st, g),
           ~st.reused => dropped \cap SymbolsOf("scip", g, st.fresh["scip"][g]) = {}
    PROVE  Whole(Released(st, source, dropped), g)
<1> DEFINE r == Released(st, source, dropped)
           orphans == Orphans(st, source, dropped)
           u == st.fresh["scip"][g]
<1>1. /\ r \in Stores
      /\ r.row = [s \in Symbols |-> IF s \in orphans THEN NoRow ELSE st.row[s]]
      /\ r.edges = {e \in st.edges : e[1] \notin orphans /\ e[2] \notin orphans}
      /\ r.owns = st.owns \ ({source} \X dropped)
      /\ r.fresh = st.fresh /\ r.reused = st.reused /\ r.files = st.files
      /\ r.collected = st.collected \cup orphans
  BY ReleasedFields
<1>2. orphans \subseteq dropped
  BY DEF Orphans
<1>3. u \in TreeTexts /\ "scip" \in Sources
  BY DEF Stores, Sources
<1>4. SymbolsOf("scip", g, u) \subseteq Symbols
  BY <1>3, Defined
<1>5. \A e \in ProducedEdges("scip", g, u) : e[1] \in SymbolsOf("scip", g, u)
  BY <1>3, Produced
<1> HIDE DEF r, orphans
<1> SUFFICES ASSUME ~st.reused, u # Gone
             PROVE  /\ \A s \in SymbolsOf("scip", g, u) : r.row[s] = g /\ <<"scip", s>> \in r.owns
                    /\ \A e \in ProducedEdges("scip", g, u) : e \in r.edges \/ e[2] \in r.collected
  BY <1>1 DEF Whole, r
<1>6. /\ \A s \in SymbolsOf("scip", g, u) : st.row[s] = g /\ <<"scip", s>> \in st.owns
      /\ \A e \in ProducedEdges("scip", g, u) : e \in st.edges \/ e[2] \in st.collected
  BY DEF Whole
<1>7. dropped \cap SymbolsOf("scip", g, u) = {}
  OBVIOUS
<1> HIDE DEF u
<1>8. \A s \in SymbolsOf("scip", g, u) : s \notin dropped /\ s \notin orphans
  BY <1>2, <1>7
<1>9. \A s \in SymbolsOf("scip", g, u) : r.row[s] = g /\ <<"scip", s>> \in r.owns
  BY <1>1, <1>4, <1>6, <1>8
<1>10. \A e \in ProducedEdges("scip", g, u) : e \in r.edges \/ e[2] \in r.collected
  BY <1>1, <1>5, <1>6, <1>8
<1> QED BY <1>9, <1>10

\* What a source owns in a file is no symbol that scip has certified in another,
\* and the floor owns none of scip's.
LEMMA OwnedElsewhere ==
    ASSUME NEW st \in Stores, NEW source \in Sources, NEW f \in Files, NEW g \in Files,
           Whole(st, g), SoundStore(st), ~st.reused, source = "scip" => g # f
    PROVE  OwnedIn(st, source, f) \cap SymbolsOf("scip", g, st.fresh["scip"][g]) = {}
<1> DEFINE u == st.fresh["scip"][g]
<1>1. u \in TreeTexts /\ "scip" \in Sources
  BY DEF Stores, Sources
<1>2. \A s \in SymbolsOf("scip", g, u) : s \in Symbols /\ s[1] = 0 /\ s[2] \in Defs[u]
  BY <1>1, Defined
<1>3. u # Gone => \A s \in SymbolsOf("scip", g, u) : st.row[s] = g
  BY DEF Whole
<1>4. u = Gone => SymbolsOf("scip", g, u) = {}
  BY <1>2, CodeIndexAssumption
<1> HIDE DEF u
<1>5. ASSUME NEW s \in SymbolsOf("scip", g, u), s \in OwnedIn(st, source, f) PROVE FALSE
  <2>1. <<source, s>> \in st.owns /\ st.row[s] = f /\ s \in Symbols
    BY <1>5 DEF OwnedIn
  <2>2. CASE source = "scip"
    BY <1>3, <1>4, <1>5, <2>1, <2>2
  <2>3. CASE source # "scip"
    <3>1. source = "tree_sitter"
      BY <2>3 DEF Sources
    <3> QED BY <1>2, <1>5, <2>1, <3>1 DEF SoundStore, Scoped
  <2> QED BY <2>2, <2>3
<1> QED BY <1>5 DEF u

\* Re-indexing makes its own file whole and leaves the others whole.
LEMMA ReindexedWhole ==
    ASSUME NEW st \in Stores, NEW source \in Sources, NEW f \in Files, NEW t \in Texts,
           NEW g \in Files, SoundStore(st),
           IF source = "scip" /\ g = f THEN TRUE ELSE Whole(st, g),
           source = "scip" /\ g # f => Disjoint(st.fresh["scip"][g], t)
    PROVE  LET r == Reindexed(st, source, f, t)
           IN  /\ Whole(r, g)
               /\ r.fresh["scip"][g] = IF source = "scip" /\ g = f THEN t ELSE st.fresh["scip"][g]
<1> DEFINE mid == Stamped(st, source, f, t)
           new == SymbolsOf(source, f, t)
           dropped == OwnedIn(st, source, f) \ new
           orphans == Orphans(mid, source, dropped)
           r == Released(mid, source, dropped)
<1>1. t \in TreeTexts /\ "scip" \in Sources
  BY DEF TreeTexts, Sources
<1>2. /\ mid \in Stores
      /\ mid.row = [s \in Symbols |-> IF s \in new THEN f ELSE st.row[s]]
      /\ mid.owns = st.owns \cup {source} \X new
      /\ mid.edges = {e \in st.edges : ~(e[3] = source /\ mid.row[e[1]] = f)}
                        \cup ProducedEdges(source, f, t)
      /\ mid.fresh = [st.fresh EXCEPT ![source][f] = t]
      /\ mid.reused = st.reused /\ mid.collected = st.collected
  BY <1>1, StampedFields
<1>3. Reindexed(st, source, f, t) = r
  BY ReindexedIs
<1>4. st.fresh \in [Sources -> [Files -> TreeTexts]]
  BY DEF Stores
<1>5. Whole(mid, g)
  <2>1. CASE source = "scip" /\ g = f
    BY <2>1, StampedWholeSelf
  <2>2. CASE ~(source = "scip" /\ g = f)
    BY <2>2, StampedWhole
  <2> QED BY <2>1, <2>2
<1> HIDE DEF mid
<1>6. mid.fresh["scip"][g] = IF source = "scip" /\ g = f THEN t ELSE st.fresh["scip"][g]
  BY <1>1, <1>2, <1>4
<1>7. dropped \in SUBSET Symbols
  BY DEF OwnedIn
<1>8. ~st.reused => dropped \cap SymbolsOf("scip", g, mid.fresh["scip"][g]) = {}
  <2>1. CASE source = "scip" /\ g = f
    BY <1>6, <2>1
  <2>2. CASE ~(source = "scip" /\ g = f)
    <3>1. ~st.reused => OwnedIn(st, source, f) \cap SymbolsOf("scip", g, st.fresh["scip"][g]) = {}
      BY <2>2, OwnedElsewhere
    <3> QED BY <1>6, <2>2, <3>1
  <2> QED BY <2>1, <2>2
<1> HIDE DEF dropped
<1>9. /\ r \in Stores
      /\ r.row = [s \in Symbols |-> IF s \in orphans THEN NoRow ELSE mid.row[s]]
      /\ r.edges = {e \in mid.edges : e[1] \notin orphans /\ e[2] \notin orphans}
      /\ r.owns = mid.owns \ ({source} \X dropped)
      /\ r.fresh = mid.fresh /\ r.reused = mid.reused /\ r.files = mid.files
      /\ r.collected = mid.collected \cup orphans
  BY <1>2, <1>7, ReleasedFields
<1>10. Whole(r, g)
  BY <1>2, <1>5, <1>7, <1>8, ReleasedWhole
<1> HIDE DEF r
<1> QED BY <1>3, <1>6, <1>9, <1>10

\* Forgetting a file leaves the others whole.
LEMMA ForgottenWhole ==
    ASSUME NEW st \in Stores, NEW source \in Sources, NEW f \in Files, NEW g \in Files,
           SoundStore(st), Whole(st, g), source = "scip" => g # f
    PROVE  LET r == Forgotten(st, source, f)
           IN  Whole(r, g) /\ r.fresh["scip"][g] = st.fresh["scip"][g]
<1> DEFINE mid == Unstamped(st, source, f)
           dropped == OwnedIn(st, source, f)
           orphans == Orphans(mid, source, dropped)
           left == LeftBy(st, source, f)
           r == Forgotten(st, source, f)
           u == st.fresh["scip"][g]
<1>1. /\ mid \in Stores
      /\ mid.edges = {e \in st.edges : ~(e[3] = source /\ st.row[e[1]] = f)}
      /\ mid.row = st.row /\ mid.owns = st.owns
      /\ mid.fresh = [st.fresh EXCEPT ![source][f] = Gone]
      /\ mid.reused = st.reused /\ mid.collected = st.collected
  BY UnstampedFields
<1>2. dropped \in SUBSET Symbols
  BY DEF OwnedIn
<1>3. left = Released(mid, source, dropped)
  BY DEF LeftBy
<1>4. /\ r \in Stores
      /\ r.edges = left.edges /\ r.owns = left.owns /\ r.fresh = left.fresh
      /\ r.reused = left.reused /\ r.collected = left.collected
      /\ \A s \in Symbols :
            \/ r.row[s] = left.row[s]
            \/ left.row[s] = f /\ r.row[s] = NoRow /\ \A o \in Sources : left.fresh[o][f] = Gone
  BY ForgottenFields
<1>5. st.fresh \in [Sources -> [Files -> TreeTexts]] /\ u \in TreeTexts /\ "scip" \in Sources
  BY DEF Stores, Sources
<1> HIDE DEF mid, dropped, left, r
<1>6. ~st.reused => dropped \cap SymbolsOf("scip", g, u) = {}
  BY OwnedElsewhere DEF dropped
<1>7. \A e \in ProducedEdges("scip", g, u) : e[3] = "scip" /\ e[1] \in SymbolsOf("scip", g, u)
  BY <1>5, ScipProduced
<1>8. SymbolsOf("scip", g, u) \subseteq Symbols
  BY <1>5, Defined
<1>9. mid.fresh["scip"][g] = u
  BY <1>1, <1>5
<1>10. Whole(mid, g)
  <2> HIDE DEF u
  <2> SUFFICES ASSUME ~st.reused, u # Gone
               PROVE  /\ \A s \in SymbolsOf("scip", g, u) : mid.row[s] = g /\ <<"scip", s>> \in mid.owns
                      /\ \A e \in ProducedEdges("scip", g, u) : e \in mid.edges \/ e[2] \in mid.collected
    BY <1>1, <1>9 DEF Whole
  <2>1. /\ \A s \in SymbolsOf("scip", g, u) : st.row[s] = g /\ <<"scip", s>> \in st.owns
        /\ \A e \in ProducedEdges("scip", g, u) : e \in st.edges \/ e[2] \in st.collected
    BY DEF Whole, u
  <2>2. \A e \in ProducedEdges("scip", g, u) : ~(e[3] = source /\ st.row[e[1]] = f)
    BY <1>7, <2>1
  <2> QED BY <1>1, <2>1, <2>2
<1>11. left \in Stores /\ left.fresh = mid.fresh /\ left.reused = mid.reused
  <2>1. /\ left \in Stores
        /\ left.row = [s \in Symbols |-> IF s \in orphans THEN NoRow ELSE mid.row[s]]
        /\ left.edges = {e \in mid.edges : e[1] \notin orphans /\ e[2] \notin orphans}
        /\ left.owns = mid.owns \ ({source} \X dropped)
        /\ left.fresh = mid.fresh /\ left.reused = mid.reused /\ left.files = mid.files
        /\ left.collected = mid.collected \cup orphans
    BY <1>1, <1>2, <1>3, ReleasedFields
  <2> QED BY <2>1
<1>12. Whole(left, g)
  BY <1>1, <1>2, <1>3, <1>6, <1>9, <1>10, ReleasedWhole
<1>13. r.fresh["scip"][g] = u /\ left.fresh["scip"][g] = u
  BY <1>4, <1>9, <1>11
<1>14. Whole(r, g)
  <2> HIDE DEF u
  <2> SUFFICES ASSUME ~left.reused, u # Gone
               PROVE  /\ \A s \in SymbolsOf("scip", g, u) : r.row[s] = g /\ <<"scip", s>> \in r.owns
                      /\ \A e \in ProducedEdges("scip", g, u) : e \in r.edges \/ e[2] \in r.collected
    BY <1>4, <1>13 DEF Whole
  <2>1. /\ \A s \in SymbolsOf("scip", g, u) : left.row[s] = g /\ <<"scip", s>> \in left.owns
        /\ \A e \in ProducedEdges("scip", g, u) : e \in left.edges \/ e[2] \in left.collected
    BY <1>12, <1>13 DEF Whole
  <2>2. ASSUME NEW s \in SymbolsOf("scip", g, u) PROVE r.row[s] = g
    <3>1. left.row[s] = g /\ s \in Symbols
      BY <1>8, <2>1 DEF u
    <3>2. g = f => left.fresh["scip"][f] # Gone
      BY <1>13
    <3> QED BY <1>4, <1>5, <3>1, <3>2
  <2> QED BY <1>4, <2>1, <2>2
<1> QED BY <1>13, <1>14 DEF r, u

-----------------------------------------------------------------------------
\* A store as it is created, and a job at rest.
LEMMA EmptySound ==
    SoundStore(EmptyStore) /\ ~EmptyStore.reused /\ \A f \in Files : Whole(EmptyStore, f)
<1>1. /\ EmptyStore.edges = {} /\ EmptyStore.owns = {} /\ ~EmptyStore.reused
      /\ \A s \in Symbols : EmptyStore.row[s] = NoRow
      /\ \A f \in Files : EmptyStore.fresh["scip"][f] = Gone
  BY DEF EmptyStore, Sources
<1> QED BY <1>1 DEF SoundStore, Scoped, FloorKept, EdgesStand, Whole

\* The job at rest.
LEMMA IdleFields ==
    /\ Idle \in JobRecords
    /\ Idle.phase = "idle" /\ Idle.source = "scip" /\ Idle.todo = {} /\ Idle.draft = EmptyStore
    /\ \A f \in Files : Idle.seen[f] = Gone /\ Idle.bytes[f] = Gone
BY EmptyTyped DEF Idle, JobRecords, Phases, Sources, TreeTexts

\* A job of which nothing is asked: at rest, or done with its build.
LEMMA QuietJob ==
    ASSUME NEW ph \in {"idle", "floor", "mark"}, job' = [Idle EXCEPT !.phase = ph]
    PROVE  job' \in JobRecords /\ BuildInv' /\ DeltaInv'
<1>1. job' \in JobRecords /\ job'.phase = ph
  BY IdleFields DEF JobRecords, Phases
<1> QED BY <1>1 DEF BuildInv, DeltaInv, Beginning, Delta

\* A step that touches neither the store nor the job.
LEMMA EditStep ==
    ASSUME IndexInv, NEW f \in Files, NEW t \in TreeTexts, Edit(f, t)
    PROVE  IndexInv'
<1> USE DEF IndexInv
<1>1. /\ tree \in [Files -> TreeTexts] /\ tree' = [tree EXCEPT ![f] = t]
      /\ stamped' = stamped \cup {f} /\ store' = store /\ job' = job
      /\ \A g \in Files \ {f} : Defs[t] \cap Defs[tree[g]] = {}
  BY DEF Typed, Edit
<1>2. Typed'
  BY <1>1 DEF Typed
<1>3. Apart(tree)'
  <2> SUFFICES ASSUME NEW g \in Files, NEW h \in Files, g # h
               PROVE  Disjoint(tree'[g], tree'[h])
    BY DEF Apart
  <2>1. Disjoint(tree[g], tree[h])
    BY DEF Apart
  <2>2. tree'[g] = (IF g = f THEN t ELSE tree[g]) /\ tree'[h] = (IF h = f THEN t ELSE tree[h])
    BY <1>1
  <2> QED BY <1>1, <2>1, <2>2 DEF Disjoint
<1>4. BuildInv'
  <2>1. \A g \in Files \ stamped' : g \in Files \ stamped /\ tree'[g] = tree[g]
    BY <1>1
  <2>2. Unscanned' = Unscanned
    BY <1>1 DEF Unscanned
  <2> SUFFICES ASSUME job.phase \in Beginning PROVE BuildInv'
    BY <1>1 DEF BuildInv
  <2>3. /\ \A g \in Files \ stamped' : g \in Unscanned' \/ job'.seen[g] = tree'[g]
        /\ \A g \in Files \ stamped', h \in Files : g # h => Disjoint(tree'[g], job'.seen[h])
    BY <1>1, <2>1, <2>2 DEF BuildInv
  <2>4. \A g \in Files : job'.bytes[g] # Gone =>
            \/ job'.phase = "stat" /\ g = Min(job'.todo)
            \/ /\ job'.bytes[g] = job'.seen[g]
               /\ \A h \in Files : g # h => Disjoint(job'.seen[g], job'.seen[h])
    BY <1>1 DEF BuildInv
  <2>5. /\ job'.phase = "stat" =>
            /\ job'.todo # {}
            /\ \A g \in Files \ stamped' : g = Min(job'.todo) => job'.bytes[g] = tree'[g]
        /\ job'.phase = "scan" => \A g \in Files : job'.bytes[g] = Gone
    BY <1>1, <2>1 DEF BuildInv
  <2> QED BY <2>3, <2>4, <2>5 DEF BuildInv
<1>5. DeltaInv'
  BY <1>1 DEF DeltaInv, Owing
<1>6. SoundStore(store)' /\ \A g \in Files : Whole(store, g)'
  BY <1>1
<1> QED BY <1>2, <1>3, <1>4, <1>5, <1>6

-----------------------------------------------------------------------------
\* A full build up to the ingest: the store waits.
LEMMA StartBuildStep ==
    ASSUME IndexInv, NEW wipe \in BOOLEAN, StartBuild(wipe)
    PROVE  IndexInv'
<1> USE DEF IndexInv
<1>1. /\ job' = [Idle EXCEPT !.phase = "scan", !.todo = Files]
      /\ stamped' = {} /\ tree' = tree /\ store' \in {EmptyStore, store}
  BY DEF StartBuild
<1>2. /\ job' \in JobRecords /\ job'.phase = "scan" /\ job'.todo = Files
      /\ \A f \in Files : job'.seen[f] = Gone /\ job'.bytes[f] = Gone
  BY <1>1, IdleFields DEF JobRecords, Phases
<1>3. Typed'
  BY <1>1, <1>2, EmptyTyped DEF Typed
<1>4. BuildInv'
  <2>1. \A g, h \in Files : Disjoint(tree'[g], job'.seen[h])
    BY <1>2, CodeIndexAssumption DEF Disjoint
  <2>2. Unscanned' = Files
    BY <1>2 DEF Unscanned
  <2> QED BY <1>2, <2>1, <2>2 DEF BuildInv
<1>5. DeltaInv'
  BY <1>2 DEF DeltaInv, Delta
<1>6. SoundStore(store)' /\ \A g \in Files : Whole(store, g)'
  BY <1>1, EmptySound
<1> QED BY <1>1, <1>3, <1>4, <1>5, <1>6

\* The indexer reads one file: it sees the text of the tree, or the file is stamped later.
LEMMA ScanStep ==
    ASSUME IndexInv, NEW f \in Files, Scan(f)
    PROVE  IndexInv'
<1> USE DEF IndexInv
<1>1. /\ job.phase = "scan" /\ f \in job.todo
      /\ job' = [job EXCEPT !.seen[f] = tree[f], !.todo = @ \ {f}]
      /\ tree' = tree /\ store' = store /\ stamped' = stamped
  BY DEF Scan
<1>2. /\ job \in JobRecords /\ tree \in [Files -> TreeTexts]
  BY DEF Typed
<1>3. /\ job' \in JobRecords /\ job'.phase = "scan" /\ job'.todo = job.todo \ {f}
      /\ job'.bytes = job.bytes
      /\ \A g \in Files : job'.seen[g] = IF g = f THEN tree[f] ELSE job.seen[g]
  BY <1>1, <1>2 DEF JobRecords
<1>4. Typed'
  BY <1>1, <1>3 DEF Typed
<1>5. job.phase \in Beginning
  BY <1>1 DEF Beginning
<1>6. BuildInv'
  <2>1. \A g \in Files \ stamped : g \in Unscanned' \/ job'.seen[g] = tree[g]
    BY <1>1, <1>3, <1>5 DEF BuildInv, Unscanned
  <2>2. \A g \in Files \ stamped, h \in Files : g # h => Disjoint(tree[g], job'.seen[h])
    BY <1>3, <1>5 DEF BuildInv, Apart
  <2>3. \A g \in Files : job'.bytes[g] = Gone
    BY <1>1, <1>3, <1>5 DEF BuildInv
  <2> QED BY <1>1, <1>3, <2>1, <2>2, <2>3 DEF BuildInv
<1>7. DeltaInv'
  BY <1>3 DEF DeltaInv, Delta
<1> QED BY <1>1, <1>4, <1>6, <1>7

LEMMA ScanDoneStep ==
    ASSUME IndexInv, ScanDone
    PROVE  IndexInv'
<1> USE DEF IndexInv
<1>1. /\ job.phase = "scan" /\ job.todo = {}
      /\ job' = [job EXCEPT !.phase = "read", !.todo = Present(job.seen)]
      /\ tree' = tree /\ store' = store /\ stamped' = stamped
  BY DEF ScanDone
<1>2. /\ job' \in JobRecords /\ job'.phase = "read" /\ job'.bytes = job.bytes /\ job'.seen = job.seen
  BY <1>1 DEF Typed, JobRecords, Phases, Present
<1>3. Typed'
  BY <1>1, <1>2 DEF Typed
<1>4. BuildInv'
  BY <1>1, <1>2 DEF BuildInv, Unscanned, Beginning
<1>5. DeltaInv'
  BY <1>2 DEF DeltaInv, Delta
<1> QED BY <1>1, <1>3, <1>4, <1>5

\* The bytes are read before the mtime, so a file not stamped by then has them still.
LEMMA ReadBytesStep ==
    ASSUME IndexInv, ReadBytes
    PROVE  IndexInv'
<1> USE DEF IndexInv
<1> DEFINE f == Min(job.todo)
<1>1. /\ job.phase = "read" /\ job.todo # {}
      /\ job' = [job EXCEPT !.bytes[f] = tree[f], !.phase = "stat"]
      /\ tree' = tree /\ store' = store /\ stamped' = stamped
  BY DEF ReadBytes
<1>2. job \in JobRecords /\ tree \in [Files -> TreeTexts] /\ job.todo \in SUBSET Files
  BY DEF Typed, JobRecords
<1>3. f \in job.todo /\ f \in Files
  <2>1. job.todo \in SUBSET Nat
    BY <1>2, CodeIndexAssumption
  <2> QED BY <1>1, <1>2, <2>1, MinInSet
<1> HIDE DEF f
<1>4. /\ job' \in JobRecords /\ job'.phase = "stat" /\ job'.todo = job.todo /\ job'.seen = job.seen
      /\ \A g \in Files : job'.bytes[g] = IF g = f THEN tree[f] ELSE job.bytes[g]
  BY <1>1, <1>2, <1>3 DEF JobRecords, Phases
<1>5. f = Min(job'.todo)
  BY <1>4 DEF f
<1>6. Typed'
  BY <1>1, <1>4 DEF Typed
<1>7. BuildInv'
  <2>0. job.phase \in Beginning /\ Unscanned = {} /\ Unscanned' = {}
    BY <1>1, <1>4 DEF Beginning, Unscanned
  <2>1. /\ \A g \in Files \ stamped' : g \in Unscanned' \/ job'.seen[g] = tree'[g]
        /\ \A g \in Files \ stamped', h \in Files : g # h => Disjoint(tree'[g], job'.seen[h])
    BY <1>1, <1>4, <2>0 DEF BuildInv
  <2>2. \A g \in Files : job'.bytes[g] # Gone =>
            \/ job'.phase = "stat" /\ g = Min(job'.todo)
            \/ /\ job'.bytes[g] = job'.seen[g]
               /\ \A h \in Files : g # h => Disjoint(job'.seen[g], job'.seen[h])
    BY <1>1, <1>4, <1>5, <2>0 DEF BuildInv
  <2>3. /\ job'.todo # {}
        /\ \A g \in Files \ stamped' : g = Min(job'.todo) => job'.bytes[g] = tree'[g]
    BY <1>1, <1>4, <1>5
  <2> QED BY <1>4, <2>1, <2>2, <2>3 DEF BuildInv
<1>8. DeltaInv'
  BY <1>4 DEF DeltaInv, Delta
<1> QED BY <1>1, <1>6, <1>7, <1>8

\* A file that was not edited since the build began was seen as it is, and nothing
\* that was seen anywhere shares a definition with it.
LEMMA ReadStampStep ==
    ASSUME IndexInv, ReadStamp
    PROVE  IndexInv'
<1> USE DEF IndexInv
<1> DEFINE f == Min(job.todo)
<1>1. /\ job.phase = "stat"
      /\ job' = [job EXCEPT !.bytes[f] = IF Withheld(f) THEN Gone ELSE @,
                            !.todo = @ \ {f}, !.phase = "read"]
      /\ tree' = tree /\ store' = store /\ stamped' = stamped
  BY DEF ReadStamp
<1>2. job \in JobRecords /\ tree \in [Files -> TreeTexts] /\ job.todo \in SUBSET Files
  BY DEF Typed, JobRecords
<1>3. job.phase \in Beginning /\ Unscanned = {} /\ job.todo # {}
  BY <1>1 DEF Beginning, Unscanned, BuildInv
<1>4. f \in job.todo /\ f \in Files
  <2>1. job.todo \in SUBSET Nat
    BY <1>2, CodeIndexAssumption
  <2> QED BY <1>2, <1>3, <2>1, MinInSet
<1> HIDE DEF f
<1>5. /\ job' \in JobRecords /\ job'.phase = "read" /\ job'.seen = job.seen
      /\ \A g \in Files : job'.bytes[g] = IF g = f /\ Withheld(f) THEN Gone ELSE job.bytes[g]
  BY <1>1, <1>2, <1>4 DEF JobRecords, Phases, TreeTexts
<1>6. Typed'
  BY <1>1, <1>5 DEF Typed
<1>7. BuildInv'
  <2>1. /\ \A g \in Files \ stamped' : g \in Unscanned' \/ job'.seen[g] = tree'[g]
        /\ \A g \in Files \ stamped', h \in Files : g # h => Disjoint(tree'[g], job'.seen[h])
    BY <1>1, <1>3, <1>5 DEF BuildInv
  <2>2. ASSUME NEW g \in Files, job'.bytes[g] # Gone
        PROVE  /\ job'.bytes[g] = job'.seen[g]
               /\ \A h \in Files : g # h => Disjoint(job'.seen[g], job'.seen[h])
    <3>1. job'.bytes[g] = job.bytes[g]
      BY <1>5, <2>2
    <3>2. CASE g = f
      <4>1. f \notin stamped
        BY <1>5, <2>2, <3>2 DEF Withheld
      <4>2. job.bytes[f] = tree[f] /\ job.seen[f] = tree[f]
        BY <1>1, <1>3, <1>4, <4>1 DEF BuildInv, f
      <4> QED BY <1>3, <1>5, <3>1, <3>2, <4>1, <4>2 DEF BuildInv
    <3>3. CASE g # f
      BY <1>3, <1>5, <2>2, <3>1, <3>3 DEF BuildInv, f
    <3> QED BY <3>2, <3>3
  <2> QED BY <1>5, <2>1, <2>2 DEF BuildInv
<1>8. DeltaInv'
  BY <1>5 DEF DeltaInv, Delta
<1> QED BY <1>1, <1>6, <1>7, <1>8

LEMMA ReadDoneStep ==
    ASSUME IndexInv, ReadDone
    PROVE  IndexInv'
<1> USE DEF IndexInv
<1>1. /\ job.phase = "read"
      /\ job' = [job EXCEPT !.phase = "ingest"]
      /\ tree' = tree /\ store' = store /\ stamped' = stamped
  BY DEF ReadDone
<1>2. /\ job' \in JobRecords /\ job'.phase = "ingest" /\ job'.bytes = job.bytes /\ job'.seen = job.seen
  BY <1>1 DEF Typed, JobRecords, Phases
<1>3. Typed'
  BY <1>1, <1>2 DEF Typed
<1>4. BuildInv'
  BY <1>1, <1>2 DEF BuildInv, Unscanned, Beginning
<1>5. DeltaInv'
  BY <1>2 DEF DeltaInv, Delta
<1> QED BY <1>1, <1>3, <1>4, <1>5

-----------------------------------------------------------------------------
\* What a source certifies.
LEMMA CertifiedFields ==
    ASSUME NEW st \in Stores, NEW source \in Sources, NEW hashes \in [Files -> TreeTexts]
    PROVE  LET r == Certified(st, source, hashes)
           IN  /\ r \in Stores
               /\ r.row = st.row /\ r.edges = st.edges /\ r.owns = st.owns
               /\ r.reused = st.reused /\ r.collected = st.collected
               /\ \A o \in Sources, f \in Files :
                     r.fresh[o][f] = IF o = source /\ hashes[f] # Gone THEN hashes[f] ELSE st.fresh[o][f]
<1> DEFINE hashed(old) == [f \in Files |-> IF hashes[f] = Gone THEN old[f] ELSE hashes[f]]
           r == Certified(st, source, hashes)
<1>1. r = [st EXCEPT !.fresh[source] = hashed(@), !.files = hashed(@)]
  BY DEF Certified
<1>2. st.fresh \in [Sources -> [Files -> TreeTexts]] /\ st.files \in [Files -> TreeTexts]
  BY DEF Stores
<1>3. \A old \in [Files -> TreeTexts] : hashed(old) \in [Files -> TreeTexts]
  OBVIOUS
<1>4. st.fresh[source] \in [Files -> TreeTexts]
  BY <1>2
<1>5. \A f \in Files : hashed(st.fresh[source])[f] = IF hashes[f] # Gone THEN hashes[f] ELSE st.fresh[source][f]
  OBVIOUS
<1> HIDE DEF hashed, r
<1>6. [st.fresh EXCEPT ![source] = hashed(@)] \in [Sources -> [Files -> TreeTexts]]
  BY <1>2, <1>3, <1>4
<1>7. /\ r \in Stores
      /\ r.row = st.row /\ r.edges = st.edges /\ r.owns = st.owns
      /\ r.reused = st.reused /\ r.collected = st.collected
      /\ r.fresh = [st.fresh EXCEPT ![source] = hashed(@)]
  BY <1>1, <1>2, <1>3, <1>6 DEF Stores
<1>8. \A o \in Sources, f \in Files :
         r.fresh[o][f] = IF o = source /\ hashes[f] # Gone THEN hashes[f] ELSE st.fresh[o][f]
  BY <1>2, <1>5, <1>7
<1> QED BY <1>7, <1>8 DEF r

\* What the indexer's result is made of.
Docs == Present(job.seen)
ScipDefined == UNION {SymbolsOf("scip", f, job.seen[f]) : f \in Docs}
ScipProducedEdges == UNION {ProducedEdges("scip", f, job.seen[f]) : f \in Docs}
ScipNamed == ScipDefined \cup {e[2] : e \in ScipProducedEdges}
Site(s) == Min({f \in Docs : s[2] \in Defs[job.seen[f]]})

\* Every definition is placed at a document that holds it.
LEMMA SiteHolds ==
    ASSUME job \in JobRecords, NEW s \in ScipDefined
    PROVE  /\ s \in Symbols /\ s[1] = 0
           /\ Site(s) \in Files /\ s[2] \in Defs[job.seen[Site(s)]]
<1>0. "scip" \in Sources /\ job.seen \in [Files -> TreeTexts]
  BY DEF Sources, JobRecords
<1>1. PICK f \in Docs : s \in SymbolsOf("scip", f, job.seen[f])
  BY DEF ScipDefined
<1>2. f \in Files /\ job.seen[f] \in TreeTexts
  BY <1>0, <1>1 DEF Docs, Present
<1>3. s \in Symbols /\ s[1] = 0 /\ s[2] \in Defs[job.seen[f]]
  BY <1>0, <1>1, <1>2, Defined
<1> DEFINE S == {g \in Docs : s[2] \in Defs[job.seen[g]]}
<1>4. S \in SUBSET Nat /\ S # {} /\ S \subseteq Files
  BY <1>1, <1>3, CodeIndexAssumption DEF Docs, Present
<1> HIDE DEF S
<1>5. Min(S) \in S
  BY <1>4, MinInSet
<1>6. Site(s) = Min(S)
  BY DEF Site, S
<1>7. \A g \in S : g \in Files /\ s[2] \in Defs[job.seen[g]]
  BY <1>4 DEF S
<1> QED BY <1>3, <1>5, <1>6, <1>7

LEMMA ScipEdge ==
    ASSUME job \in JobRecords, NEW e \in ScipProducedEdges
    PROVE  /\ e \in Edges /\ e[3] = "scip" /\ e[1] \in ScipDefined /\ e[2][1] = 0
           /\ \E f \in Docs : e[1][2] \in Defs[job.seen[f]] /\ <<e[1][2], e[2][2]>> \in Calls[job.seen[f]]
<1>0. "scip" \in Sources /\ job.seen \in [Files -> TreeTexts]
  BY DEF Sources, JobRecords
<1>1. PICK f \in Docs : e \in ProducedEdges("scip", f, job.seen[f])
  BY DEF ScipProducedEdges
<1>2. f \in Files /\ job.seen[f] \in TreeTexts
  BY <1>0, <1>1 DEF Docs, Present
<1>3. /\ e \in Edges /\ e[3] = "scip" /\ e[2][1] = 0 /\ <<e[1][2], e[2][2]>> \in Calls[job.seen[f]]
  BY <1>1 DEF ProducedEdges
<1>4. e[1] \in SymbolsOf("scip", f, job.seen[f])
  BY <1>1, <1>2, ScipProduced
<1>5. e[1][2] \in Defs[job.seen[f]]
  BY <1>0, <1>2, <1>4, Defined
<1>6. e[1] \in ScipDefined
  BY <1>1, <1>4 DEF ScipDefined
<1> QED BY <1>1, <1>3, <1>5, <1>6

LEMMA IngestedFields ==
    ASSUME NEW st \in Stores, job \in JobRecords
    PROVE  LET r == ScipIngested(st)
           IN  /\ r \in Stores
               /\ r.row = [s \in Symbols |-> IF s \in ScipDefined THEN Site(s)
                                             ELSE IF s \in ScipNamed THEN External ELSE st.row[s]]
               /\ r.owns = st.owns \cup {"scip"} \X ScipDefined
               /\ r.edges = st.edges \cup ScipProducedEdges
               /\ r.reused = (st.reused \/ Used(st))
               /\ \A o \in Sources, f \in Files :
                     r.fresh[o][f] = IF o = "scip" /\ job.bytes[f] # Gone THEN job.bytes[f] ELSE st.fresh[o][f]
<1> DEFINE row == [s \in Symbols |-> IF s \in ScipDefined THEN Site(s)
                                    ELSE IF s \in ScipNamed THEN External ELSE st.row[s]]
           mid == [st EXCEPT !.row = row, !.owns = @ \cup {"scip"} \X ScipDefined,
                             !.edges = @ \cup ScipProducedEdges, !.reused = @ \/ Used(st)]
           r == ScipIngested(st)
<1>1. r = Certified(mid, "scip", job.bytes)
  BY DEF ScipIngested, ScipDefined, ScipProducedEdges, ScipNamed, Site, Docs
<1>2. row \in [Symbols -> Files \cup {External, NoRow}]
  BY SiteHolds DEF Stores
<1>3. ScipDefined \subseteq Symbols /\ "scip" \in Sources
  BY SiteHolds DEF Sources
<1>4. ScipProducedEdges \subseteq Edges
  <2>1. ASSUME NEW e \in ScipProducedEdges PROVE e \in Edges
    BY ScipEdge
  <2> QED BY <2>1
<1>5. Used(st) \in BOOLEAN /\ st.reused \in BOOLEAN
  BY DEF Used, Stores
<1> HIDE DEF row, r
<1>6. /\ mid \in Stores /\ mid.row = row /\ mid.owns = st.owns \cup {"scip"} \X ScipDefined
      /\ mid.edges = st.edges \cup ScipProducedEdges /\ mid.reused = (st.reused \/ Used(st))
      /\ mid.fresh = st.fresh
  BY <1>2, <1>3, <1>4, <1>5 DEF Stores
<1>7. job.bytes \in [Files -> TreeTexts]
  BY DEF JobRecords
<1> HIDE DEF mid
<1>8. /\ r \in Stores
      /\ r.row = mid.row /\ r.edges = mid.edges /\ r.owns = mid.owns
      /\ r.reused = mid.reused /\ r.collected = mid.collected
      /\ \A o \in Sources, f \in Files :
            r.fresh[o][f] = IF o = "scip" /\ job.bytes[f] # Gone THEN job.bytes[f] ELSE mid.fresh[o][f]
  BY <1>1, <1>3, <1>6, <1>7, CertifiedFields
<1> QED BY <1>6, <1>8 DEF r, row

\* What is ingested into a store that nothing was left in: a certified file holds
\* the bytes the indexer read, and no other file it read defines the same.
LEMMA ScipIngestStep ==
    ASSUME IndexInv, ScipIngest
    PROVE  IndexInv'
<1> USE DEF IndexInv
<1>1. /\ job.phase = "ingest" /\ store' = ScipIngested(store)
      /\ job' = [Idle EXCEPT !.phase = "floor"] /\ tree' = tree /\ stamped' = stamped
  BY DEF ScipIngest
<1>2. job \in JobRecords /\ store \in Stores
  BY DEF Typed
<1>3. job' \in JobRecords /\ BuildInv' /\ DeltaInv'
  BY <1>1, QuietJob
<1> DEFINE r == ScipIngested(store)
<1>4. /\ r \in Stores
      /\ r.row = [s \in Symbols |-> IF s \in ScipDefined THEN Site(s)
                                    ELSE IF s \in ScipNamed THEN External ELSE store.row[s]]
      /\ r.owns = store.owns \cup {"scip"} \X ScipDefined
      /\ r.edges = store.edges \cup ScipProducedEdges
      /\ r.reused = (store.reused \/ Used(store))
      /\ \A o \in Sources, f \in Files :
            r.fresh[o][f] = IF o = "scip" /\ job.bytes[f] # Gone THEN job.bytes[f] ELSE store.fresh[o][f]
  BY <1>2, IngestedFields
<1> HIDE DEF r
<1>5. Typed'
  BY <1>1, <1>3, <1>4 DEF Typed, r
\* A certified file is one of the documents, alone with its definitions.
<1>6. ASSUME NEW f \in Files, job.bytes[f] # Gone
      PROVE  /\ job.seen[f] = job.bytes[f] /\ f \in Docs
             /\ \A g \in Files : f # g => Disjoint(job.seen[f], job.seen[g])
  BY <1>1, <1>6 DEF BuildInv, Beginning, Docs, Present
<1>7. ASSUME ~r.reused
      PROVE  /\ ~store.reused /\ store.edges = {} /\ \A s \in Symbols : store.row[s] = NoRow
             /\ \A o \in Sources, f \in Files : store.fresh[o][f] = Gone
  <2>1. ~store.reused /\ ~Used(store)
    BY <1>4, <1>7
  <2>2. store.fresh = EmptyStore.fresh
    BY <2>1 DEF Used
  <2>3. \A o \in Sources, f \in Files : EmptyStore.fresh[o][f] = Gone
    BY DEF EmptyStore
  <2>4. store.edges = {} /\ \A s \in Symbols : store.row[s] = NoRow
    BY <2>1 DEF Used, Rows
  <2> QED BY <2>1, <2>2, <2>3, <2>4
<1>8. ASSUME ~r.reused, NEW f \in Files, r.fresh["scip"][f] # Gone
      PROVE  /\ r.fresh["scip"][f] = job.seen[f] /\ f \in Docs
             /\ \A g \in Files : f # g => Disjoint(job.seen[f], job.seen[g])
  BY <1>4, <1>6, <1>7, <1>8 DEF Sources
<1>9. ASSUME ~r.reused, NEW f \in Files, r.fresh["scip"][f] # Gone, NEW s \in ScipDefined,
             s[2] \in Defs[job.seen[f]]
      PROVE  Site(s) = f
  <2>1. Site(s) \in Files /\ s[2] \in Defs[job.seen[Site(s)]]
    BY <1>2, SiteHolds
  <2> QED BY <1>8, <1>9, <2>1 DEF Disjoint
<1>10. ASSUME ~r.reused PROVE Scoped(r) /\ FloorKept(r) /\ EdgesStand(r)
  <2>0. \A s \in ScipDefined : s \in Symbols /\ s[1] = 0
    BY <1>2, SiteHolds
  <2>1. \A e \in r.edges : e \in ScipProducedEdges
    BY <1>4, <1>7, <1>10
  <2>2. ASSUME NEW e \in r.edges
        PROVE  /\ e \in Edges /\ e[3] = "scip" /\ e[1] \in ScipDefined /\ e[2][1] = 0
               /\ \E f \in Docs : e[1][2] \in Defs[job.seen[f]]
                                    /\ <<e[1][2], e[2][2]>> \in Calls[job.seen[f]]
    BY <1>2, <2>1, ScipEdge
  <2>3. Scoped(r)
    <3>1. Scoped(store)
      BY <1>7, <1>10 DEF SoundStore
    <3>2. \A e \in r.edges : e[3] = "scip" <=> e[1][1] = 0
      BY <2>0, <2>2
    <3>3. \A s \in Symbols : <<"scip", s>> \in r.owns => s[1] = 0
      BY <1>4, <2>0, <3>1 DEF Scoped
    <3>4. \A s \in Symbols : <<"tree_sitter", s>> \in r.owns => s[1] # 0
      BY <1>4, <3>1 DEF Scoped
    <3> QED BY <3>2, <3>3, <3>4 DEF Scoped
  <2>4. FloorKept(r)
    <3>1. ASSUME NEW s \in Symbols, s[1] # 0 PROVE r.row[s] = NoRow
      <4>1. s \notin ScipDefined
        BY <2>0, <3>1
      <4>2. s \notin ScipNamed
        <5>1. ASSUME NEW e \in ScipProducedEdges PROVE e[2][1] = 0
          BY <1>2, ScipEdge
        <5> QED BY <3>1, <4>1, <5>1 DEF ScipNamed
      <4> QED BY <1>4, <1>7, <1>10, <4>1, <4>2
    <3>2. \A e \in r.edges : e[3] # "tree_sitter"
      BY <2>2
    <3> QED BY <3>1, <3>2 DEF FloorKept
  <2>5. EdgesStand(r)
    <3> SUFFICES ASSUME NEW e \in r.edges, NEW f \in Files, r.row[e[1]] = f, r.fresh[e[3]][f] # Gone
                 PROVE  <<e[1][2], e[2][2]>> \in Calls[r.fresh[e[3]][f]]
      BY DEF EdgesStand
    <3>1. e[3] = "scip" /\ e[1] \in ScipDefined /\ e[1] \in Symbols
      BY <2>0, <2>2
    <3>2. Site(e[1]) = f
      BY <1>4, <3>1
    <3>3. PICK g \in Docs : e[1][2] \in Defs[job.seen[g]] /\ <<e[1][2], e[2][2]>> \in Calls[job.seen[g]]
      BY <2>2
    <3>4. e[1][2] \in Defs[job.seen[f]]
      BY <1>2, <3>1, <3>2, SiteHolds
    <3>5. g = f
      BY <1>8, <1>10, <3>1, <3>3, <3>4 DEF Disjoint, Docs, Present
    <3> QED BY <1>8, <1>10, <3>1, <3>3, <3>5
  <2> QED BY <2>3, <2>4, <2>5
<1>11. ASSUME NEW f \in Files PROVE Whole(r, f)
  <2> SUFFICES ASSUME ~r.reused, r.fresh["scip"][f] # Gone
               PROVE  /\ \A s \in SymbolsOf("scip", f, r.fresh["scip"][f]) :
                            r.row[s] = f /\ <<"scip", s>> \in r.owns
                      /\ \A e \in ProducedEdges("scip", f, r.fresh["scip"][f]) :
                            e \in r.edges \/ e[2] \in r.collected
    BY DEF Whole
  <2>1. r.fresh["scip"][f] = job.seen[f] /\ f \in Docs
    BY <1>8
  <2>2. job.seen[f] \in TreeTexts /\ "scip" \in Sources
    BY <1>2 DEF JobRecords, Sources
  <2>3. ASSUME NEW s \in SymbolsOf("scip", f, job.seen[f]) PROVE r.row[s] = f /\ <<"scip", s>> \in r.owns
    <3>1. s \in ScipDefined
      BY <2>1 DEF ScipDefined
    <3>2. s \in Symbols /\ s[2] \in Defs[job.seen[f]]
      BY <2>2, Defined
    <3>3. Site(s) = f
      BY <1>9, <3>1, <3>2
    <3> QED BY <1>4, <3>1, <3>2, <3>3
  <2>4. \A e \in ProducedEdges("scip", f, job.seen[f]) : e \in r.edges
    BY <1>4, <2>1 DEF ScipProducedEdges
  <2> QED BY <2>1, <2>3, <2>4
<1>12. SoundStore(r)
  BY <1>10 DEF SoundStore
<1>13. store' = r
  BY <1>1 DEF r
<1>14. SoundStore(store)' /\ \A f \in Files : Whole(store, f)'
  BY <1>11, <1>12, <1>13
<1> QED BY <1>1, <1>3, <1>5, <1>14

-----------------------------------------------------------------------------
\* What the floor finds.
FloorDefined == UNION {SymbolsOf("tree_sitter", f, tree[f]) : f \in Files}
FloorLinked ==
    {e \in Edges : /\ e[3] = "tree_sitter" /\ e[1] \in FloorDefined /\ e[2] \in FloorDefined
                   /\ <<e[1][2], e[2][2]>> \in Calls[tree[e[1][1]]]}

LEMMA FloorSymbols ==
    ASSUME tree \in [Files -> TreeTexts], NEW s \in FloorDefined
    PROVE  s \in Symbols /\ s[1] \in Files /\ s[1] # 0 /\ tree[s[1]] # Gone
<1>1. PICK f \in Files : s \in SymbolsOf("tree_sitter", f, tree[f])
  BY DEF FloorDefined
<1>2. "tree_sitter" \in Sources /\ tree[f] \in TreeTexts
  BY DEF Sources
<1>3. s \in Symbols /\ s[2] \in Defs[tree[f]] /\ s[1] = f
  BY <1>1, <1>2, Defined
<1>4. tree[f] # Gone
  BY <1>3, CodeIndexAssumption
<1> QED BY <1>3, <1>4, Parts

LEMMA FloorFields ==
    ASSUME NEW st \in Stores, tree \in [Files -> TreeTexts]
    PROVE  LET r == FloorIngested(st)
           IN  /\ r \in Stores
               /\ r.row = [s \in Symbols |-> IF s \in FloorDefined THEN s[1] ELSE st.row[s]]
               /\ r.owns = st.owns \cup {"tree_sitter"} \X FloorDefined
               /\ r.edges = st.edges \cup FloorLinked
               /\ r.reused = st.reused /\ r.collected = st.collected
               /\ \A o \in Sources, f \in Files :
                     r.fresh[o][f] = IF o = "tree_sitter" /\ tree[f] # Gone THEN tree[f] ELSE st.fresh[o][f]
<1> DEFINE row == [s \in Symbols |-> IF s \in FloorDefined THEN s[1] ELSE st.row[s]]
           mid == [st EXCEPT !.row = row, !.owns = @ \cup {"tree_sitter"} \X FloorDefined,
                             !.edges = @ \cup FloorLinked]
           r == FloorIngested(st)
<1>1. r = Certified(mid, "tree_sitter", tree)
  BY DEF FloorIngested, FloorDefined, FloorLinked
<1>2. row \in [Symbols -> Files \cup {External, NoRow}]
  BY FloorSymbols DEF Stores
<1>3. FloorDefined \subseteq Symbols /\ "tree_sitter" \in Sources
  BY FloorSymbols DEF Sources
<1>4. FloorLinked \subseteq Edges
  BY DEF FloorLinked
<1> HIDE DEF row, r
<1>5. /\ mid \in Stores /\ mid.row = row /\ mid.owns = st.owns \cup {"tree_sitter"} \X FloorDefined
      /\ mid.edges = st.edges \cup FloorLinked /\ mid.reused = st.reused
      /\ mid.fresh = st.fresh /\ mid.collected = st.collected
  BY <1>2, <1>3, <1>4 DEF Stores
<1> HIDE DEF mid
<1>6. /\ r \in Stores
      /\ r.row = mid.row /\ r.edges = mid.edges /\ r.owns = mid.owns
      /\ r.reused = mid.reused /\ r.collected = mid.collected
      /\ \A o \in Sources, f \in Files :
            r.fresh[o][f] = IF o = "tree_sitter" /\ tree[f] # Gone THEN tree[f] ELSE mid.fresh[o][f]
  BY <1>1, <1>3, <1>5, CertifiedFields
<1> QED BY <1>5, <1>6 DEF r, row

\* The floor fills a store without a symbol: no edge of it stands there yet.
LEMMA FloorStep ==
    ASSUME IndexInv, Floor
    PROVE  IndexInv'
<1> USE DEF IndexInv
<1>1. /\ Rows(store) = {} /\ store' = FloorIngested(store)
      /\ job' = [Idle EXCEPT !.phase = "mark"] /\ tree' = tree /\ stamped' = stamped
  BY DEF Floor
<1>2. tree \in [Files -> TreeTexts] /\ store \in Stores
  BY DEF Typed
<1>3. job' \in JobRecords /\ BuildInv' /\ DeltaInv'
  BY <1>1, QuietJob
<1> DEFINE r == FloorIngested(store)
<1>4. /\ r \in Stores
      /\ r.row = [s \in Symbols |-> IF s \in FloorDefined THEN s[1] ELSE store.row[s]]
      /\ r.owns = store.owns \cup {"tree_sitter"} \X FloorDefined
      /\ r.edges = store.edges \cup FloorLinked
      /\ r.reused = store.reused /\ r.collected = store.collected
      /\ \A o \in Sources, f \in Files :
            r.fresh[o][f] = IF o = "tree_sitter" /\ tree[f] # Gone THEN tree[f] ELSE store.fresh[o][f]
  BY <1>2, FloorFields
<1> HIDE DEF r
<1>5. Typed'
  BY <1>1, <1>3, <1>4 DEF Typed, r
<1>6. \A s \in Symbols : store.row[s] = NoRow
  BY <1>1 DEF Rows
<1>7. \A s \in FloorDefined : s \in Symbols /\ s[1] \in Files /\ s[1] # 0 /\ tree[s[1]] # Gone
  BY <1>2, FloorSymbols
<1>8. store.edges \subseteq Edges
  BY <1>2 DEF Stores
<1>9. ASSUME ~r.reused PROVE Scoped(r) /\ FloorKept(r) /\ EdgesStand(r)
  <2>1. Scoped(store) /\ FloorKept(store)
    BY <1>4, <1>9 DEF SoundStore
  <2>2. \A e \in store.edges : e \in Edges /\ e[1] \in Symbols /\ e[3] = "scip" /\ e[1][1] = 0
    <3>1. ASSUME NEW e \in store.edges PROVE e[3] = "scip"
      BY <1>6, <1>8, <2>1, Parts DEF FloorKept, Sources
    <3> QED BY <1>8, <2>1, <3>1, Parts DEF Scoped
  <2>3. \A e \in FloorLinked : /\ e[3] = "tree_sitter" /\ e[1] \in FloorDefined
                              /\ <<e[1][2], e[2][2]>> \in Calls[tree[e[1][1]]]
    BY DEF FloorLinked
  <2>4. Scoped(r)
    <3>1. \A e \in r.edges : e[3] = "scip" <=> e[1][1] = 0
      BY <1>4, <1>7, <2>2, <2>3
    <3>2. \A s \in Symbols : <<"scip", s>> \in r.owns => s[1] = 0
      BY <1>4, <2>1 DEF Scoped
    <3>3. \A s \in Symbols : <<"tree_sitter", s>> \in r.owns => s[1] # 0
      BY <1>4, <1>7, <2>1 DEF Scoped
    <3> QED BY <3>1, <3>2, <3>3 DEF Scoped
  <2>5. FloorKept(r)
    <3>1. ASSUME NEW s \in Symbols, s[1] # 0, r.row[s] # NoRow
          PROVE  r.row[s] = s[1] /\ r.fresh["tree_sitter"][s[1]] # Gone /\ <<"tree_sitter", s>> \in r.owns
      <4>1. s \in FloorDefined
        BY <1>4, <1>6, <3>1
      <4> QED BY <1>4, <1>7, <4>1 DEF Sources
    <3>2. \A e \in r.edges : e[3] = "tree_sitter" => r.row[e[1]] # NoRow
      <4>1. ASSUME NEW e \in store.edges, e[3] = "tree_sitter" PROVE FALSE
        BY <2>2, <4>1
      <4>2. ASSUME NEW e \in FloorLinked PROVE r.row[e[1]] # NoRow
        <5>1. e[1] \in FloorDefined /\ e[1] \in Symbols /\ e[1][1] \in Files
          BY <1>7, <2>3
        <5>2. r.row[e[1]] = e[1][1]
          BY <1>4, <5>1
        <5> QED BY <5>1, <5>2, Parts
      <4> QED BY <1>4, <4>1, <4>2
    <3> QED BY <3>1, <3>2 DEF FloorKept
  <2>6. EdgesStand(r)
    <3> SUFFICES ASSUME NEW e \in r.edges, NEW f \in Files, r.row[e[1]] = f, r.fresh[e[3]][f] # Gone
                 PROVE  <<e[1][2], e[2][2]>> \in Calls[r.fresh[e[3]][f]]
      BY DEF EdgesStand
    <3>1. CASE e \in store.edges
      <4>1. e[1] \notin FloorDefined
        BY <1>7, <2>2, <3>1
      <4>2. r.row[e[1]] = NoRow
        BY <1>4, <1>6, <2>2, <3>1, <4>1
      <4> QED BY <4>2, Parts
    <3>2. CASE e \in FloorLinked
      <4>1. e[1] \in FloorDefined /\ f = e[1][1]
        BY <1>4, <1>7, <2>3, <3>2
      <4>2. r.fresh[e[3]][f] = tree[f]
        BY <1>4, <1>7, <2>3, <3>2, <4>1 DEF Sources
      <4> QED BY <2>3, <3>2, <4>1, <4>2
    <3> QED BY <1>4, <3>1, <3>2
  <2> QED BY <2>4, <2>5, <2>6
<1>10. ASSUME NEW f \in Files PROVE Whole(r, f)
  <2> DEFINE u == store.fresh["scip"][f]
  <2>1. r.fresh["scip"][f] = u /\ u \in TreeTexts /\ "scip" \in Sources
    BY <1>2, <1>4 DEF Sources, Stores
  <2>2. \A s \in SymbolsOf("scip", f, u) : s \in Symbols /\ s[1] = 0
    BY <2>1, Defined
  <2>3. Whole(store, f)
    OBVIOUS
  <2> SUFFICES ASSUME ~r.reused, u # Gone
               PROVE  /\ \A s \in SymbolsOf("scip", f, u) : r.row[s] = f /\ <<"scip", s>> \in r.owns
                      /\ \A e \in ProducedEdges("scip", f, u) : e \in r.edges \/ e[2] \in r.collected
    BY <2>1 DEF Whole
  <2>4. /\ \A s \in SymbolsOf("scip", f, u) : store.row[s] = f /\ <<"scip", s>> \in store.owns
        /\ \A e \in ProducedEdges("scip", f, u) : e \in store.edges \/ e[2] \in store.collected
    BY <1>4, <2>3 DEF Whole
  <2> HIDE DEF u
  <2>5. \A s \in SymbolsOf("scip", f, u) : s \notin FloorDefined
    BY <1>7, <2>2
  <2> QED BY <1>4, <2>2, <2>4, <2>5
<1>11. SoundStore(r)
  BY <1>9 DEF SoundStore
<1>12. store' = r
  BY <1>1 DEF r
<1>13. SoundStore(store)' /\ \A f \in Files : Whole(store, f)'
  BY <1>10, <1>11, <1>12
<1> QED BY <1>1, <1>3, <1>5, <1>13

\* The mark says nothing about symbols, edges and hashes.
LEMMA MarkedSame ==
    ASSUME NEW st \in Stores, NEW m \in BOOLEAN, SoundStore(st), \A f \in Files : Whole(st, f)
    PROVE  LET r == [st EXCEPT !.marked = m]
           IN  r \in Stores /\ SoundStore(r) /\ \A f \in Files : Whole(r, f)
<1> DEFINE r == [st EXCEPT !.marked = m]
<1>1. /\ r \in Stores /\ r.row = st.row /\ r.edges = st.edges /\ r.owns = st.owns
      /\ r.fresh = st.fresh /\ r.reused = st.reused /\ r.collected = st.collected
  BY DEF Stores
<1> HIDE DEF r
<1>2. SoundStore(r)
  BY <1>1 DEF SoundStore, Scoped, FloorKept, EdgesStand
<1>3. \A f \in Files : Whole(r, f)
  BY <1>1 DEF Whole
<1> QED BY <1>1, <1>2, <1>3 DEF r

\* The steps that keep nothing of the job.
LEMMA RestStep ==
    ASSUME IndexInv, ScanFails \/ FloorSkipped \/ \E coupled \in BOOLEAN : Mark(coupled)
    PROVE  IndexInv'
<1> USE DEF IndexInv
<1>1. store \in Stores
  BY DEF Typed
<1>2. CASE ScanFails \/ FloorSkipped
  <2>1. /\ \E ph \in {"idle", "floor", "mark"} : job' = [Idle EXCEPT !.phase = ph]
        /\ tree' = tree /\ stamped' = stamped /\ store' = store
    BY <1>2 DEF ScanFails, FloorSkipped
  <2>2. job' \in JobRecords /\ BuildInv' /\ DeltaInv'
    BY <2>1, QuietJob
  <2> QED BY <2>1, <2>2 DEF Typed
<1>3. ASSUME NEW coupled \in BOOLEAN, Mark(coupled) PROVE IndexInv'
  <2>1. /\ job' = Idle /\ tree' = tree /\ stamped' = stamped
        /\ store' = [store EXCEPT !.marked = @ \/ coupled \/ Rows(store) # {} \/ store.edges # {}]
    BY <1>3 DEF Mark
  <2>2. job' \in JobRecords /\ BuildInv' /\ DeltaInv'
    BY <2>1, IdleFields DEF BuildInv, DeltaInv, Beginning, Delta
  <2> DEFINE m == store.marked \/ coupled \/ Rows(store) # {} \/ store.edges # {}
  <2>3. m \in BOOLEAN
    OBVIOUS
  <2>4. store' = [store EXCEPT !.marked = m]
    BY <2>1
  <2> HIDE DEF m
  <2>5. store' \in Stores /\ SoundStore(store') /\ \A f \in Files : Whole(store', f)
    BY <1>1, <2>3, <2>4, MarkedSame
  <2> QED BY <2>1, <2>2, <2>5 DEF Typed
<1> QED BY <1>2, <1>3

\* A delta begins with the changes of one reading of the tree: what it owes
\* is what the store does not certify as read.
LEMMA StartDeltaStep ==
    ASSUME IndexInv, NEW source \in Sources, StartDelta(source)
    PROVE  IndexInv'
<1> USE DEF IndexInv
<1>1. /\ job' = [Idle EXCEPT !.phase = "delta", !.source = source, !.seen = tree,
                             !.todo = Changed(store, source, tree), !.draft = store]
      /\ tree' = tree /\ store' = store /\ stamped' = stamped
  BY DEF StartDelta
<1>2. tree \in [Files -> TreeTexts] /\ store \in Stores /\ Changed(store, source, tree) \in SUBSET Files
  BY DEF Typed, Changed, Present
<1>3. /\ job' \in JobRecords /\ job'.phase = "delta" /\ job'.source = source /\ job'.seen = tree
      /\ job'.todo = Changed(store, source, tree) /\ job'.draft = store
  BY <1>1, <1>2, IdleFields DEF JobRecords, Phases
<1>4. Typed' /\ BuildInv'
  BY <1>1, <1>3 DEF Typed, BuildInv, Beginning
<1>5. \A f \in job'.todo : job'.seen[f] # Gone
  BY <1>3 DEF Changed, Present
<1>6. ASSUME NEW f \in Files, f \notin Owing', source = "scip"
      PROVE  store.fresh["scip"][f] = tree[f]
  <2>1. f \notin Changed(store, "scip", tree) /\ f \notin Removed(store, "scip", tree)
    BY <1>1, <1>3, <1>6 DEF Owing
  <2> QED BY <2>1 DEF Changed, Removed, Present
<1>7. DeltaInv'
  BY <1>1, <1>3, <1>5, <1>6 DEF DeltaInv
<1> QED BY <1>1, <1>4, <1>7

\* One file is re-indexed: it is owed no more, and the others are as they were.
LEMMA DeltaReindexStep ==
    ASSUME IndexInv, DeltaReindex
    PROVE  IndexInv'
<1> USE DEF IndexInv
<1> DEFINE f == Min(job.todo)
           t == job.seen[f]
           r == Reindexed(job.draft, job.source, f, t)
<1>1. /\ job.phase = "delta" /\ job.todo # {} /\ tree' = tree /\ store' = store /\ stamped' = stamped
      /\ job' = [job EXCEPT !.draft = r, !.todo = @ \ {f}]
  BY DEF DeltaReindex
<1>2. job \in JobRecords /\ job.draft \in Stores /\ job.source \in Sources /\ job.todo \subseteq Files
  BY DEF Typed, JobRecords
<1>3. job.todo \in SUBSET Nat
  BY <1>2, CodeIndexAssumption
<1> HIDE DEF f
<1>4. f \in job.todo /\ f \in Files
  BY <1>1, <1>2, <1>3, MinInSet DEF f
<1>5. /\ Apart(job.seen) /\ job.draft.reused = store.reused /\ SoundStore(job.draft)
      /\ \A g \in job.todo : job.seen[g] # Gone
      /\ \A g \in Files \ Owing : /\ job.source = "scip" => job.draft.fresh["scip"][g] = job.seen[g]
                                  /\ Whole(job.draft, g)
  BY <1>1 DEF DeltaInv, Delta
<1>6. t \in Texts /\ job.seen \in [Files -> TreeTexts]
  BY <1>2, <1>4, <1>5 DEF JobRecords, TreeTexts
<1> HIDE DEF t
<1>7. r \in Stores /\ r.reused = job.draft.reused /\ SoundStore(r)
  BY <1>2, <1>4, <1>5, <1>6, ReindexedSound
<1> HIDE DEF r
<1>8. /\ job' \in JobRecords /\ job'.phase = "delta" /\ job'.source = job.source /\ job'.seen = job.seen
      /\ job'.todo = job.todo \ {f} /\ job'.draft = r
  BY <1>1, <1>2, <1>7 DEF JobRecords
<1>9. Typed' /\ BuildInv'
  BY <1>1, <1>8 DEF Typed, BuildInv, Beginning
<1>10. ASSUME NEW g \in Files, g \notin Owing'
       PROVE  (job.source = "scip" => r.fresh["scip"][g] = job.seen[g]) /\ Whole(r, g)
  <2>1. (job.source = "scip" /\ g = f) \/ g \notin Owing
    BY <1>1, <1>8, <1>10 DEF Owing
  <2>2. IF job.source = "scip" /\ g = f THEN TRUE ELSE Whole(job.draft, g)
    BY <1>5, <2>1
  <2>3. ASSUME job.source = "scip", g # f PROVE Disjoint(job.draft.fresh["scip"][g], t)
    BY <1>4, <1>5, <2>1, <2>3 DEF Apart, t
  <2>4. /\ Whole(r, g)
        /\ r.fresh["scip"][g] = IF job.source = "scip" /\ g = f THEN t ELSE job.draft.fresh["scip"][g]
    BY <1>2, <1>4, <1>5, <1>6, <2>2, <2>3, ReindexedWhole DEF r
  <2> QED BY <1>5, <2>1, <2>4 DEF t
<1>11. DeltaInv'
  BY <1>1, <1>5, <1>7, <1>8, <1>10 DEF DeltaInv
<1> QED BY <1>1, <1>9, <1>11

\* What is owed when the changed files are done is what is gone.
LEMMA DeltaReindexedStep ==
    ASSUME IndexInv, DeltaReindexed
    PROVE  IndexInv'
<1> USE DEF IndexInv
<1> DEFINE gone == Removed(store, job.source, job.seen)
<1>1. /\ job.phase = "delta" /\ job.todo = {} /\ tree' = tree /\ store' = store /\ stamped' = stamped
      /\ job' = [job EXCEPT !.phase = "forget", !.todo = gone]
  BY DEF DeltaReindexed
<1>2. job \in JobRecords /\ gone \subseteq Files /\ \A g \in gone : job.seen[g] = Gone
  BY DEF Typed, Removed
<1>3. job.source = "scip" => gone = Owing
  BY <1>1 DEF Owing
<1> HIDE DEF gone
<1>4. /\ job' \in JobRecords /\ job'.phase = "forget" /\ job'.source = job.source /\ job'.seen = job.seen
      /\ job'.todo = gone /\ job'.draft = job.draft
  BY <1>1, <1>2 DEF JobRecords, Phases
<1>5. Typed' /\ BuildInv'
  BY <1>1, <1>4 DEF Typed, BuildInv, Beginning
<1>6. Owing' = Owing
  BY <1>1, <1>3, <1>4 DEF Owing
<1>7. DeltaInv'
  <2>1. /\ Apart(job.seen) /\ job.draft.reused = store.reused /\ SoundStore(job.draft)
        /\ \A g \in Files \ Owing : /\ job.source = "scip" => job.draft.fresh["scip"][g] = job.seen[g]
                                    /\ Whole(job.draft, g)
    BY <1>1 DEF DeltaInv, Delta
  <2> QED BY <1>1, <1>2, <1>4, <1>6, <2>1 DEF DeltaInv
<1> QED BY <1>1, <1>5, <1>7

\* What a forgotten file records for its source: nothing.
LEMMA ForgottenFresh ==
    ASSUME NEW st \in Stores, NEW source \in Sources, NEW f \in Files
    PROVE  Forgotten(st, source, f).fresh = [st.fresh EXCEPT ![source][f] = Gone]
<1> DEFINE mid == Unstamped(st, source, f)
           dropped == OwnedIn(st, source, f)
           orphans == Orphans(mid, source, dropped)
           left == LeftBy(st, source, f)
           r == Forgotten(st, source, f)
<1>1. /\ mid \in Stores
      /\ mid.edges = {e \in st.edges : ~(e[3] = source /\ st.row[e[1]] = f)}
      /\ mid.row = st.row /\ mid.owns = st.owns
      /\ mid.fresh = [st.fresh EXCEPT ![source][f] = Gone]
      /\ mid.reused = st.reused /\ mid.collected = st.collected
  BY UnstampedFields
<1>2. left = Released(mid, source, dropped) /\ dropped \in SUBSET Symbols
  BY DEF LeftBy, OwnedIn, Unstamped
<1>3. /\ r \in Stores
      /\ r.edges = left.edges /\ r.owns = left.owns /\ r.fresh = left.fresh
      /\ r.reused = left.reused /\ r.collected = left.collected
      /\ \A s \in Symbols :
            \/ r.row[s] = left.row[s]
            \/ left.row[s] = f /\ r.row[s] = NoRow /\ \A o \in Sources : left.fresh[o][f] = Gone
  BY ForgottenFields
<1> HIDE DEF mid, dropped, left, r
<1>4. /\ left \in Stores
      /\ left.row = [s \in Symbols |-> IF s \in orphans THEN NoRow ELSE mid.row[s]]
      /\ left.edges = {e \in mid.edges : e[1] \notin orphans /\ e[2] \notin orphans}
      /\ left.owns = mid.owns \ ({source} \X dropped)
      /\ left.fresh = mid.fresh /\ left.reused = mid.reused /\ left.files = mid.files
      /\ left.collected = mid.collected \cup orphans
  BY <1>1, <1>2, ReleasedFields
<1>5. r.fresh = [st.fresh EXCEPT ![source][f] = Gone]
  BY <1>1, <1>3, <1>4
<1> QED BY <1>5 DEF r

\* A forgotten file has no hash, as it has no text.
LEMMA DeltaForgetStep ==
    ASSUME IndexInv, DeltaForget
    PROVE  IndexInv'
<1> USE DEF IndexInv
<1> DEFINE f == Min(job.todo)
           r == Forgotten(job.draft, job.source, f)
<1>1. /\ job.phase = "forget" /\ job.todo # {} /\ tree' = tree /\ store' = store /\ stamped' = stamped
      /\ job' = [job EXCEPT !.draft = r, !.todo = @ \ {f}]
  BY DEF DeltaForget
<1>2. job \in JobRecords /\ job.draft \in Stores /\ job.source \in Sources /\ job.todo \subseteq Files
  BY DEF Typed, JobRecords
<1>3. job.todo \in SUBSET Nat
  BY <1>2, CodeIndexAssumption
<1> HIDE DEF f
<1>4. f \in job.todo /\ f \in Files
  BY <1>1, <1>2, <1>3, MinInSet DEF f
<1>5. /\ Apart(job.seen) /\ job.draft.reused = store.reused /\ SoundStore(job.draft)
      /\ \A g \in job.todo : job.seen[g] = Gone
      /\ \A g \in Files \ Owing : /\ job.source = "scip" => job.draft.fresh["scip"][g] = job.seen[g]
                                  /\ Whole(job.draft, g)
  BY <1>1 DEF DeltaInv, Delta
<1>6. r \in Stores /\ r.reused = job.draft.reused /\ SoundStore(r)
  BY <1>2, <1>4, <1>5, ForgottenSound
<1>7. r.fresh = [job.draft.fresh EXCEPT ![job.source][f] = Gone]
  BY <1>2, <1>4, ForgottenFresh
<1> HIDE DEF r
<1>8. /\ job' \in JobRecords /\ job'.phase = "forget" /\ job'.source = job.source /\ job'.seen = job.seen
      /\ job'.todo = job.todo \ {f} /\ job'.draft = r
  BY <1>1, <1>2, <1>6 DEF JobRecords
<1>9. Typed' /\ BuildInv'
  BY <1>1, <1>8 DEF Typed, BuildInv, Beginning
<1>10. ASSUME NEW g \in Files, g \notin Owing'
       PROVE  (job.source = "scip" => r.fresh["scip"][g] = job.seen[g]) /\ Whole(r, g)
  <2>1. CASE job.source = "scip" /\ g = f
    <3>1. r.fresh["scip"][g] = Gone
      BY <1>2, <1>4, <1>7, <2>1 DEF Stores
    <3> QED BY <1>4, <1>5, <2>1, <3>1 DEF Whole
  <2>2. CASE ~(job.source = "scip" /\ g = f)
    <3>1. g \notin Owing
      BY <1>1, <1>8, <1>10, <2>2 DEF Owing
    <3>2. Whole(job.draft, g) /\ (job.source = "scip" => g # f)
      BY <1>5, <2>2, <3>1
    <3>3. Whole(r, g) /\ r.fresh["scip"][g] = job.draft.fresh["scip"][g]
      BY <1>2, <1>4, <1>5, <3>2, ForgottenWhole DEF r
    <3> QED BY <1>5, <3>1, <3>3
  <2> QED BY <2>1, <2>2
<1>11. DeltaInv'
  BY <1>1, <1>5, <1>6, <1>8, <1>10 DEF DeltaInv
<1> QED BY <1>1, <1>9, <1>11

\* Nothing is owed when the last file is forgotten, and the draft is the store.
LEMMA DeltaCommitStep ==
    ASSUME IndexInv, DeltaCommit
    PROVE  IndexInv'
<1> USE DEF IndexInv
<1>1. /\ job.phase = "forget" /\ job.todo = {} /\ tree' = tree /\ stamped' = stamped /\ job' = Idle
      /\ store' = [job.draft EXCEPT !.marked = TRUE]
  BY DEF DeltaCommit
<1>2. Owing = {}
  BY <1>1 DEF Owing
<1>3. SoundStore(job.draft) /\ \A g \in Files : Whole(job.draft, g)
  BY <1>1, <1>2 DEF DeltaInv, Delta
<1>4. job.draft \in Stores
  BY DEF Typed, JobRecords
<1>5. store' \in Stores /\ SoundStore(store') /\ \A g \in Files : Whole(store', g)
  BY <1>1, <1>3, <1>4, MarkedSame
<1>6. job' \in JobRecords /\ BuildInv' /\ DeltaInv'
  BY <1>1, IdleFields DEF BuildInv, DeltaInv, Beginning, Delta
<1> QED BY <1>1, <1>5, <1>6 DEF Typed

-----------------------------------------------------------------------------
\* The invariant holds at the start and is kept by every step.
LEMMA IndexInitial == Init => IndexInv
<1> SUFFICES ASSUME Init PROVE IndexInv
  OBVIOUS
<1>1. Typed
  BY EmptyTyped, IdleFields DEF Init, Typed
<1>2. Apart(tree)
  BY DEF Init, Apart, Disjoint
<1>3. SoundStore(store) /\ \A f \in Files : Whole(store, f)
  BY EmptySound DEF Init
<1>4. BuildInv /\ DeltaInv
  BY IdleFields DEF Init, BuildInv, DeltaInv, Beginning, Delta
<1> QED BY <1>1, <1>2, <1>3, <1>4 DEF IndexInv

LEMMA IndexUnchanged ==
    ASSUME IndexInv, UNCHANGED vars
    PROVE  IndexInv'
<1>1. tree' = tree /\ store' = store /\ job' = job /\ stamped' = stamped
  BY DEF vars
<1>2. Owing' = Owing /\ Unscanned' = Unscanned
  BY <1>1 DEF Owing, Unscanned
<1>3. Typed' /\ BuildInv' /\ DeltaInv'
  BY <1>1, <1>2 DEF IndexInv, Typed, BuildInv, DeltaInv
<1> QED BY <1>1, <1>3 DEF IndexInv

LEMMA IndexStep == IndexInv /\ [Next]_vars => IndexInv'
<1> SUFFICES ASSUME IndexInv, [Next]_vars PROVE IndexInv'
  OBVIOUS
<1>1. ASSUME NEW f \in Files, NEW t \in TreeTexts, Edit(f, t) PROVE IndexInv'
  BY <1>1, EditStep
<1>2. ASSUME NEW wipe \in BOOLEAN, StartBuild(wipe) PROVE IndexInv'
  BY <1>2, StartBuildStep
<1>3. ASSUME NEW f \in Files, Scan(f) PROVE IndexInv'
  BY <1>3, ScanStep
<1>4. CASE ScanDone
  BY <1>4, ScanDoneStep
<1>5. CASE ReadBytes
  BY <1>5, ReadBytesStep
<1>6. CASE ReadStamp
  BY <1>6, ReadStampStep
<1>7. CASE ReadDone
  BY <1>7, ReadDoneStep
<1>8. CASE ScipIngest
  BY <1>8, ScipIngestStep
<1>9. CASE Floor
  BY <1>9, FloorStep
<1>10. CASE ScanFails \/ FloorSkipped \/ \E coupled \in BOOLEAN : Mark(coupled)
  BY <1>10, RestStep
<1>11. ASSUME NEW source \in Sources, StartDelta(source) PROVE IndexInv'
  BY <1>11, StartDeltaStep
<1>12. CASE DeltaReindex
  BY <1>12, DeltaReindexStep
<1>13. CASE DeltaReindexed
  BY <1>13, DeltaReindexedStep
<1>14. CASE DeltaForget
  BY <1>14, DeltaForgetStep
<1>15. CASE DeltaCommit
  BY <1>15, DeltaCommitStep
<1>16. CASE UNCHANGED vars
  BY <1>16, IndexUnchanged
<1> QED
  BY <1>1, <1>2, <1>3, <1>4, <1>5, <1>6, <1>7, <1>8, <1>9, <1>10, <1>11, <1>12, <1>13, <1>14, <1>15, <1>16
  DEF Next

-----------------------------------------------------------------------------
\* A query walks two hops.
Callers(nodes) == {e[1] : e \in {d \in store.edges : d[2] \in nodes}}

\* The walk of two hops, written out.
LEMMA RadiusIs ==
    ASSUME NEW seed
    PROVE  Radius(seed, 2) = ({seed} \cup Callers({seed})) \cup Callers({seed} \cup Callers({seed}))
<1> DEFINE Walk(g) == [h \in 0 .. 2 |->
              IF h = 0 THEN {seed}
              ELSE g[h - 1] \cup {e[1] : e \in {d \in store.edges : d[2] \in g[h - 1]}}]
           one == {seed} \cup Callers({seed})
           two == one \cup Callers(one)
           walk == [h \in 0 .. 2 |-> IF h = 0 THEN {seed} ELSE IF h = 1 THEN one ELSE two]
           within == CHOOSE g : g = Walk(g)
<1>1. Radius(seed, 2) = within[2]
  BY DEF Radius
<1>2. walk = Walk(walk)
  <2> SUFFICES ASSUME NEW h \in 0 .. 2 PROVE walk[h] = Walk(walk)[h]
    OBVIOUS
  <2>1. CASE h = 0
    BY <2>1
  <2>2. CASE h = 1
    <3>1. walk[h] = one /\ Walk(walk)[h] = {seed} \cup {e[1] : e \in {d \in store.edges : d[2] \in {seed}}}
      BY <2>2
    <3> QED BY <3>1 DEF Callers
  <2>3. CASE h = 2
    <3>1. walk[h] = two /\ Walk(walk)[h] = one \cup {e[1] : e \in {d \in store.edges : d[2] \in one}}
      BY <2>3
    <3> QED BY <3>1 DEF Callers
  <2> QED BY <2>1, <2>2, <2>3
<1>3. within = Walk(within)
  <2> HIDE DEF Walk, walk
  <2> QED BY <1>2
<1> HIDE DEF within
<1>4. within[0] = {seed}
  BY <1>3
<1>5. within[1] = within[0] \cup {e[1] : e \in {d \in store.edges : d[2] \in within[0]}}
  BY <1>3
<1>6. within[2] = within[1] \cup {e[1] : e \in {d \in store.edges : d[2] \in within[1]}}
  BY <1>3
<1> QED BY <1>1, <1>4, <1>5, <1>6 DEF Callers

\* A node of an answer is a symbol that starts an edge of the source it is judged by.
LEMMA AnswersStartEdges ==
    ASSUME store \in Stores, NEW seed, NEW entry \in Heatmap(seed)
    PROVE  /\ entry.symbol \in Symbols /\ entry.source \in Sources
           /\ \E e \in store.edges : e[1] = entry.symbol /\ e[3] = entry.source
<1>1. PICK n \in Radius(seed, 2) \ {seed} : entry = [symbol |-> n, source |-> BestSource(n)]
  BY DEF Heatmap
<1>2. \E d \in store.edges : d[1] = n
  BY <1>1, RadiusIs DEF Callers
<1>3. PICK d \in store.edges : d[1] = n
  BY <1>2
<1>4. d \in Edges
  BY DEF Stores
<1>5. n \in Symbols /\ d[3] \in Sources
  BY <1>3, <1>4, Parts
<1> DEFINE found == {e[3] : e \in {b \in store.edges : b[1] = n}}
<1>6. d[3] \in found
  BY <1>3
<1>7. BestSource(n) = IF "scip" \in found THEN "scip"
                      ELSE IF "tree_sitter" \in found THEN "tree_sitter" ELSE ""
  BY DEF BestSource
<1> HIDE DEF found
<1>8. BestSource(n) \in found /\ BestSource(n) \in Sources
  BY <1>5, <1>6, <1>7 DEF Sources
<1>9. PICK e \in store.edges : e[1] = n /\ e[3] = BestSource(n)
  BY <1>8 DEF found
<1> QED BY <1>1, <1>5, <1>8, <1>9

\* A node is clean only by the hash of its own source.
LEMMA CleanIsCertified ==
    ASSUME NEW st \in Stores, NEW source \in Sources, NEW f \in Files, NEW t,
           Status(st, source, f, t) = "clean"
    PROVE  st.fresh[source][f] = t
<1> DEFINE hashes == {st.fresh[s][f] : s \in {o \in Sources : source \in {o, ""}}} \ {Gone}
<1>1. Status(st, source, f, t) = IF hashes = {} THEN "unknown"
                                ELSE IF hashes = {t} THEN "clean" ELSE "stale"
  BY DEF Status
<1> HIDE DEF hashes
<1>2. hashes = {t}
  BY <1>1
<1>3. {o \in Sources : source \in {o, ""}} = {source}
  BY DEF Sources
<1>4. hashes = {st.fresh[source][f]} \ {Gone}
  BY <1>3 DEF hashes
<1> QED BY <1>2, <1>4

\* A sound store answers honestly.
LEMMA SoundIsHonest ==
    ASSUME Typed, SoundStore(store)
    PROVE  NothingStaleIsTrusted
<1>1. tree \in [Files -> TreeTexts] /\ store \in Stores
  BY DEF Typed
<1>2. ASSUME ~store.reused, NEW seed \in Rows(store), NEW entry \in Heatmap(seed),
             store.row[entry.symbol] \in Present(tree), NEW view \in Views(store.row[entry.symbol])
      PROVE  LET n == entry.symbol
                 source == entry.source
                 f == store.row[n]
             IN  /\ Tag(n, source, view) \in {"trusted", "live"} => n[2] \in Defs[tree[f]]
                 /\ Tag(n, source, view) = "trusted" =>
                      \A e \in store.edges : e[1] = n /\ e[3] = source =>
                         <<n[2], e[2][2]>> \in Calls[tree[f]]
  <2> DEFINE n == entry.symbol
             source == entry.source
             f == store.row[n]
             status == Status(store, source, f, tree[f])
  <2>1. /\ n \in Symbols /\ source \in Sources
        /\ \E e \in store.edges : e[1] = n /\ e[3] = source
    BY <1>1, <1>2, AnswersStartEdges
  <2>2. f \in Files /\ tree[f] # Gone /\ f \in Present(tree) /\ view \in Views(f)
    BY <1>2 DEF Present
  <2>3. tree[f] \in Texts
    BY <1>1, <2>2 DEF TreeTexts
  <2>4. EdgesStand(store)
    BY <1>2 DEF SoundStore
  <2>5. Tag(n, source, view) =
          IF f \notin Present(tree) \/ status = "clean" THEN "trusted"
          ELSE IF status = "unknown" THEN "unverified"
          ELSE IF view = <<>> THEN "stale"
          ELSE IF n \in view[1] THEN "live" ELSE "unreconciled"
    BY DEF Tag
  <2> HIDE DEF n, source, f
  <2>6. ASSUME Tag(n, source, view) = "trusted" PROVE status = "clean"
    <3> HIDE DEF status
    <3> QED BY <2>2, <2>5, <2>6
  <2>7. ASSUME Tag(n, source, view) = "live" PROVE view # <<>> /\ n \in view[1]
    <3> HIDE DEF status
    <3> QED BY <2>5, <2>7
  <2>8. ASSUME Tag(n, source, view) = "trusted", NEW e \in store.edges, e[1] = n, e[3] = source
        PROVE  <<n[2], e[2][2]>> \in Calls[tree[f]]
    <3>1. store.fresh[source][f] = tree[f]
      BY <1>1, <2>1, <2>2, <2>6, <2>8, CleanIsCertified
    <3>2. store.row[e[1]] = f
      BY <2>8 DEF f
    <3> QED BY <2>2, <2>4, <2>8, <3>1, <3>2 DEF EdgesStand
  <2>9. ASSUME Tag(n, source, view) = "trusted" PROVE n[2] \in Defs[tree[f]]
    <3>1. PICK e \in store.edges : e[1] = n /\ e[3] = source
      BY <2>1
    <3>2. <<n[2], e[2][2]>> \in Calls[tree[f]]
      BY <2>8, <2>9, <3>1
    <3> QED BY <2>3, <3>2, CodeIndexAssumption
  <2>10. ASSUME Tag(n, source, view) = "live" PROVE n[2] \in Defs[tree[f]]
    <3>1. view = <<{s \in Symbols : s[1] \in {0, f} /\ s[2] \in Defs[tree[f]]}>>
      BY <2>2, <2>7, <2>10 DEF Views
    <3> QED BY <2>7, <2>10, <3>1
  <2>11. /\ Tag(n, source, view) \in {"trusted", "live"} => n[2] \in Defs[tree[f]]
         /\ Tag(n, source, view) = "trusted" =>
              \A e \in store.edges : e[1] = n /\ e[3] = source =>
                 <<n[2], e[2][2]>> \in Calls[tree[f]]
    BY <2>8, <2>9, <2>10
  <2> QED BY <2>11 DEF n, source, f
<1>3. ASSUME ~store.reused, NEW seed \in Rows(store), NEW entry \in Heatmap(seed),
             store.row[entry.symbol] \in Files,
             store.fresh[entry.source][store.row[entry.symbol]] # Gone,
             NEW e \in store.edges, e[1] = entry.symbol, e[3] = entry.source
      PROVE  <<entry.symbol[2], e[2][2]>> \in
                Calls[store.fresh[entry.source][store.row[entry.symbol]]]
  BY <1>3 DEF SoundStore, EdgesStand
<1> QED BY <1>2, <1>3 DEF NothingStaleIsTrusted

\* A store of whole files is complete.
LEMMA WholeIsComplete ==
    ASSUME Typed, \A f \in Files : Whole(store, f)
    PROVE  CleanFilesAreComplete
<1> SUFFICES ASSUME ~store.reused, NEW f \in Present(tree), store.fresh["scip"][f] = tree[f]
             PROVE  /\ \A s \in SymbolsOf("scip", f, tree[f]) :
                         store.row[s] = f /\ <<"scip", s>> \in store.owns
                    /\ \A e \in ProducedEdges("scip", f, tree[f]) :
                         e \in store.edges \/ e[2] \in store.collected
  BY DEF CleanFilesAreComplete
<1>1. f \in Files /\ tree[f] # Gone /\ Whole(store, f)
  BY DEF Present
<1> QED BY <1>1 DEF Whole

-----------------------------------------------------------------------------
\* Every value of the specification is of its type.
THEOREM IndexTypeCorrect == Spec => []TypeOK
<1>1. IndexInv => TypeOK
  BY DEF IndexInv, Typed, Stores, JobRecords, Phases, TypeOK
<1> QED BY <1>1, IndexInitial, IndexStep, PTL DEF Spec

\* Whatever is edited while an index is built, scanned or brought up to date,
\* an answer out of a store that no build reused vouches only for
\* definitions and calls that stand in the text of the file they are shown
\* in, or, of a removed file, in the text its source certified last
\* (overlay.py, _file_status and reconcile_overlay).
THEOREM AnswersAreHonest == Spec => []NothingStaleIsTrusted
<1>1. IndexInv => NothingStaleIsTrusted
  BY SoundIsHonest DEF IndexInv
<1> QED BY <1>1, IndexInitial, IndexStep, PTL DEF Spec

\* A file the hash of which says that scip has read it as it is has all its
\* definitions and calls in the store, after any builds and deltas.
THEOREM CertifiedFilesAreComplete == Spec => []CleanFilesAreComplete
<1>1. IndexInv => CleanFilesAreComplete
  BY WholeIsComplete DEF IndexInv
<1> QED BY <1>1, IndexInitial, IndexStep, PTL DEF Spec

=============================================================================
