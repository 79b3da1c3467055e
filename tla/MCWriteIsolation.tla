-------------------------- MODULE MCWriteIsolation --------------------------
(***************************************************************************)
(* WriteIsolation on a workspace of two directories: x with the files a    *)
(* and b below it, y with c.                                               *)
(***************************************************************************)
EXTENDS WriteIsolation

CONSTANTS x, y, a, b, c

Tree == {<<x, a>>, <<x, b>>, <<x, b, a>>, <<y, c>>}

Path(segs) == [segs |-> segs, dots |-> FALSE, slash |-> FALSE]
Dir(segs)  == [segs |-> segs, dots |-> FALSE, slash |-> TRUE]
Dotted(segs) == [segs |-> segs, dots |-> TRUE, slash |-> FALSE]

\* A directory, files below it, the same file written with a dot, a detour.
Plain == {{Dir(<<x>>)}, {Path(<<x, a>>)}, {Dotted(<<x, a>>), Dir(<<y>>)},
          {Path(<<x, b>>)}, {Path(<<y, Up, x>>)}, {}}
\* A directory, and everything below it as a pattern.
Patterns == {{Dir(<<x, b>>)}, {Path(<<x, Glob>>)}}
Written  == {{Path(<<x, a>>)}, {Dir(<<x, b>>)}}
=============================================================================
