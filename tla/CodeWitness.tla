----------------------------- MODULE CodeWitness -----------------------------
(***************************************************************************)
(* What git and codeflair say of a repository, as operators on snapshots   *)
(* t : [base, head, work], the trees of the merge base with the default    *)
(* branch, of HEAD and of the working directory.  A tree maps each file to *)
(* a version, Source gives the symbols and the edges a version holds.  The *)
(* wire of codeflair/witness.py and the                                    *)
(* parser of io/witnessio.py are one account here; the comparisons that    *)
(* projection.py and scope_conformance.py make with it follow.             *)
(*                                                                         *)
(* A symbol is [file, owner, name], with Unowned for the owner of one that  *)
(* no class qualifies.  A declared reference is one too: without an owner  *)
(* it may be the shorthand of a symbol that has one.  Tree-sitter's names  *)
(* are taken to be those of SCIP; what it cannot vouch for is not used.    *)
(***************************************************************************)
EXTENDS Integers, FiniteSets

CONSTANTS
    Files,      \* the files of the workspace outside the governed namespace
    Indexed,    \* those of the indexed language
    Code,       \* those with a source-code suffix
    Versions,   \* what a file may hold
    Source,     \* [Files -> [Versions -> [symbols, edges : <<src, reason, dst>>]]]
    Quoted,     \* files whose names git prints in quotes, with escapes
    Base,       \* the tree the run branches off
    Broad,      \* the fan-in that makes a change a change of behaviour
    Unowned,    \* no class qualifies the name
    Unavailable \* a witness that cannot testify

ASSUME WitnessAssumption ==
    /\ Indexed \subseteq Files /\ Code \subseteq Files /\ Quoted \subseteq Files
    /\ Base \in [Files -> Versions] /\ Broad \in Nat \ {0, 1}

Trees == [Files -> Versions]

-----------------------------------------------------------------------------
(* git: the changed files, the token of a tree                             *)

Dirty(t) == {f \in Files : t.work[f] # t.head[f]}
CommittedFiles(t) == {f \in Files : t.head[f] # t.base[f]}
ChangedFiles(t) == Dirty(t) \cup CommittedFiles(t)

\* HEAD, the status and the contents of the dirty files: a quoted name opens no
\* file, and its contents are "__missing__".  The merge base is no part of it.
StatusOnly(t) == <<t.head, Dirty(t)>>                 \* mutation: the status without the contents
TreeToken(t) == <<t.head, Dirty(t), [f \in Dirty(t) \ Quoted |-> t.work[f]]>>

-----------------------------------------------------------------------------
(* codeflair: an index of the tree, built afresh for every account         *)

SymbolsOf(tree, f) == IF f \in Indexed THEN Source[f][tree[f]].symbols ELSE {}
Symbols(tree) == UNION {SymbolsOf(tree, f) : f \in Files}

\* Edges to what no file of the tree defines are dropped.
AllEdges(tree) == UNION {Source[f][tree[f]].edges : f \in Indexed}
CodeEdges(tree) == {e \in AllEdges(tree) : {e[1], e[3]} \subseteq Symbols(tree)}

Inbound(tree, s) ==
    Cardinality({e \in AllEdges(tree) : e[3] = s /\ e[2] \in {"calls", "references"}})

Neighborhood(tree, S) == {e \in CodeEdges(tree) : e[1] \in S \/ e[3] \in S}

\* A reference names a symbol in full, or by the last part of its name.
NamesMatch(s, ref) ==
    /\ s.file = ref.file /\ s.name = ref.name
    /\ ref.owner \in {s.owner, Unowned}
MatchRef(tree, ref) == {s \in Symbols(tree) : NamesMatch(s, ref)}
Resolved(tree, refs) ==
    {s \in Symbols(tree) : \E r \in refs : MatchRef(tree, r) = {s}}
Unresolved(tree, refs) == {r \in refs : Cardinality(MatchRef(tree, r)) # 1}

\* The floor is the weakest source of the symbols the account is about.
Floored(tree, weak, S) ==
    LET about == IF S = {} THEN Symbols(tree) ELSE S IN
    CASE \E s \in S : s.file \in weak -> "treesitter"
      [] S = {} /\ about # {} /\ \A s \in about : s.file \in weak -> "treesitter"
      [] about = {} -> "none"
      [] OTHER -> "scip"

\* Of the tree work, with the changed files that were observed before it was read.
\* No symbol is in a file of a quoted name, which therefore tells nothing.
Account(changed, work, weak, refs) ==
    LET touched == {s \in Symbols(work) : s.file \in changed \ Quoted}
    IN  [touched      |-> touched,
         inbound      |-> [s \in touched |-> Inbound(work, s)],
         neighborhood |-> Neighborhood(work, touched),
         declared     |-> Resolved(work, refs),
         unresolved   |-> Unresolved(work, refs),
         opaque       |-> {f \in changed : f \in Quoted \/ SymbolsOf(work, f) = {}},
         ingestion    |-> Floored(work, weak, touched)]

Baseline(head, weak, refs) ==
    LET resolved == Resolved(head, refs)
    IN  [declared     |-> resolved,
         unresolved   |-> Unresolved(head, refs),
         neighborhood |-> Neighborhood(head, resolved),
         ingestion    |-> Floored(head, weak, resolved)]

\* The account on the wire: one entry that has lost its shape and all of it is
\* refused.  Counts and stamps are read leniently, for nothing rests on them alone.
Endpoints(edges) == {e[1] : e \in edges} \cup {e[3] : e \in edges}
EntriesDropped(account, garbled) ==        \* mutation: what cannot be read is left out
    [account EXCEPT !.touched = @ \ garbled]
Parsed(account, garbled) ==
    IF garbled \cap (account.touched \cup account.declared \cup Endpoints(account.neighborhood)) = {}
    THEN account ELSE Unavailable
ParsedBaseline(account, garbled) ==
    IF garbled \cap (account.declared \cup Endpoints(account.neighborhood)) = {}
    THEN account ELSE Unavailable

\* An account is used only if it rests on SCIP.
Testifies(account) == account # Unavailable /\ account.ingestion = "scip"

-----------------------------------------------------------------------------
(* The comparisons                                                         *)

WitnessClass(count) == IF count >= Broad THEN 4 ELSE IF count >= 1 THEN 3 ELSE 1

\* An authored reference among the touched symbols: itself, or what it shortens
\* if that is one symbol only.
CanonicalTouched(account, ref) ==
    LET shortened == {s \in account.touched : NamesMatch(s, ref) /\ ref.owner = Unowned}
    IN  IF ref \in account.touched THEN {ref}
        ELSE IF Cardinality(shortened) = 1 THEN shortened ELSE {}

\* The account's own count, which it has for every touched symbol; the fallback on
\* the neighborhood is for an account of an older codeflair.
InboundCount(account, s) == account.inbound[s]

ClassOf(account, refs) ==
    LET honored == UNION {CanonicalTouched(account, r) : r \in refs}
        classes == {WitnessClass(InboundCount(account, s)) : s \in honored}
    IN  IF classes = {} THEN 0 ELSE CHOOSE c \in classes : \A e \in classes : e <= c

Untouched(account, refs) == {r \in refs : CanonicalTouched(account, r) = {}}

\* Hop-1 neighbours, by edges of either direction and any reason.
Adjacent(account, S) ==
    {e[3] : e \in {x \in account.neighborhood : x[1] \in S /\ x[1] # x[3]}}
        \cup {e[1] : e \in {x \in account.neighborhood : x[3] \in S /\ x[1] # x[3]}}

UndeclaredCascade(account) ==
    account.touched \ (account.declared \cup Adjacent(account, account.declared))
OverDeclared(account) ==
    account.declared \ (account.touched \cup Adjacent(account, account.touched))

\* The advisories of the cascade witness: none means everything is accounted for.
AdvisoriesOf(account) ==
    {c \in {"SC_WITNESS_UNRESOLVED_CLAIM", "SC_UNDECLARED_CASCADE",
            "SC_SCOPE_OVERDECLARED", "SC_WITNESS_UNRESOLVED_TOUCHED"} :
        CASE c = "SC_WITNESS_UNRESOLVED_CLAIM" -> account.unresolved # {}
          [] c = "SC_UNDECLARED_CASCADE" -> UndeclaredCascade(account) # {}
          [] c = "SC_SCOPE_OVERDECLARED" -> OverDeclared(account) # {}
          [] c = "SC_WITNESS_UNRESOLVED_TOUCHED" -> account.opaque # {}}
Advisories(account, refs) ==
    IF refs = {} THEN {}
    ELSE IF ~Testifies(account) THEN {"SC_WITNESS_UNAVAILABLE"}
    ELSE AdvisoriesOf(account)

\* Files the declared code reaches, as committed, outside a boundary of files.
OutOfBoundary(files, paths) == files \ paths
Predicted(account, refs, paths) ==
    LET neighbours == Endpoints(account.neighborhood)
        own == {r.file : r \in refs}
    IN  OutOfBoundary({s.file : s \in neighbours \ account.declared}, paths) \ own
=============================================================================
