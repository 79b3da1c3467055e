--------------------------- MODULE MCEntityWriter ---------------------------
\* Which of two ids a text declares is never asked, only whether it is the same one.
EXTENDS EntityWriter, TLC

CONSTANTS r1, r2, c1, c2, d1, k1

\* Two checks of one run; a check and a document; a corpus file that two runs write.
OneRunTwoRuns == {{<<r1, c1>>, <<r1, c2>>}, {<<r1, c1>>, <<r1, d1>>}, {<<Corpus, k1>>}}

Renamings == Permutations(Ids)
=============================================================================
