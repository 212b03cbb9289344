--------------------------- MODULE MCReviewPosts ---------------------------
EXTENDS ReviewPosts, TLC
\* The second finding has two versions; a push moves one of them out of the diff.
MCVersion == {<<1, 1>>, <<2, 1>>, <<2, 2>>}
MCAnchored == {<<1, 1, 0>>, <<1, 1, 1>>, <<2, 1, 0>>, <<2, 2, 0>>, <<2, 2, 1>>}
Symm == Permutations(Call)
=============================================================================
