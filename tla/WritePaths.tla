----------------------------- MODULE WritePaths -----------------------------
(***************************************************************************)
(* Declared write paths: how the run registry and the overlap gate         *)
(* normalise and compare them (validators/run_registry.py), and which      *)
(* files the boundary of scope_conformance (domain/boundary.py) lets a     *)
(* declaration cover.  A path as written is its segments, whether there    *)
(* are `.' segments among them, and whether it ends in a slash.            *)
(***************************************************************************)
EXTENDS Sequences, SequencesExt

CONSTANTS
    Up, Glob,        \* the segments `..' and `**'
    Files            \* files of the workspace: sequences of plain names

Has(p, seg) == \E i \in DOMAIN p.segs : p.segs[i] = seg

\* _canon_write_path returns a path, or the empty string for a climbing one.
Usable(p) == ~Has(p, Up) /\ p.segs # <<>>
Canon(p) == [segs |-> p.segs, dots |-> FALSE, slash |-> TRUE]

StartsWith(s, t) == Len(t) <= Len(s) /\ \A i \in 1..Len(t) : s[i] = t[i]

\* _paths_overlap: one is an ancestor of the other.  `**' is a name like any other.
SamePath(p, q) == Usable(p) /\ Usable(q) /\ Canon(p) = Canon(q)   \* mutation: equality only
Overlap(p, q) ==
    /\ Usable(p) /\ Usable(q)
    /\ \/ StartsWith(Canon(p).segs, Canon(q).segs)
       \/ StartsWith(Canon(q).segs, Canon(p).segs)

-----------------------------------------------------------------------------
\* Path.resolve, for a path that climbs: `..' takes back one segment.
Climb(done, seg) ==
    IF seg = Up /\ done # <<>> /\ Last(done) # Up THEN Front(done) ELSE Append(done, seg)
Resolved(p) == IF Has(p, Up) THEN FoldLeft(Climb, <<>>, p.segs) ELSE p.segs

\* fnmatch: segment i of the pattern ends at segment cut[i] of the file; `**'
\* matches one or more segments, any other segment itself.
Matches(file, segs) ==
    \E cut \in [0..Len(segs) -> 0..Len(file)] :
        /\ cut[0] = 0 /\ cut[Len(segs)] = Len(file)
        /\ \A i \in 1..Len(segs) :
              IF segs[i] = Glob THEN cut[i] > cut[i-1]
              ELSE cut[i] = cut[i-1] + 1 /\ file[cut[i]] = segs[i]

\* FileBoundary: the files that a declared path lets its run write.  A pattern
\* is matched as it is written, a plain path is resolved first.
Covers(p, file) ==
    IF Has(p, Glob) THEN ~p.slash /\ ~p.dots /\ Matches(file, p.segs)
    ELSE StartsWith(file, Resolved(p))
=============================================================================
