--------------------------- MODULE MCReworkChain ----------------------------
EXTENDS ReworkChain, TLC

CONSTANTS r1, r2, r3, k1, k2, closing, f1, f2, e1, e2

\* r1's two findings, r2's evidence and its fix; a path of each remaining run.
OwnerOf == (f1 :> r1) @@ (f2 :> r1) @@ (e1 :> r2) @@ (e2 :> r2)

Answer(id, path, handling, fix, formed) ==
    [id |-> id, path |-> path, handling |-> handling, fix |-> fix, formed |-> formed]
Doc(r, ph, chain, owned) == [run |-> r, phase |-> ph, chain |-> chain, owned |-> owned]

Fixed1    == Answer(k1, Unsaid, "remediated", e2, TRUE)      \* the finding by its key
Accepted2 == Answer(Unsaid, f2, "accepted", Unsaid, TRUE)       \* by its path
Crossed   == Answer(k1, f2, "accepted", Unsaid, TRUE)        \* key and path disagree
Foreign   == Answer(k2, Unsaid, "remediated", f2, TRUE)      \* the fix is another run's
Unreasoned == Answer(k1, f1, "unreasoned", Unsaid, TRUE)
Unformed   == Answer(k2, Unsaid, "accepted", Unsaid, FALSE)
Report    == Doc(r1, "verify", {}, TRUE)

AllDrafts ==
    {<<f1, Report>>, <<f2, Report>>, <<f2, Doc(r1, "resolve", {Fixed1, Accepted2}, TRUE)>>,
     <<e1, Doc(r2, "verify", {Fixed1, Accepted2}, TRUE)>>,
     <<e1, Doc(r2, "verify", {Crossed, Unreasoned, Unformed}, TRUE)>>,
     <<e1, Doc(r2, "verify", {Fixed1, Foreign}, FALSE)>>,
     <<e1, Doc(r2, "execute", {Fixed1, Accepted2}, TRUE)>>,
     <<e2, Doc(r2, "resolve", {}, FALSE)>>}

\* r1 registers its findings, under one document or two; r2 its evidence, a
\* finding of its own, or a document of r1.
AllRegistrations ==
    {<<r1, k1, f1>>, <<r1, k2, f2>>, <<r1, k1, f2>>,
     <<r2, closing, e1>>, <<r2, closing, f2>>, <<r2, k1, e1>>}
=============================================================================
