----------------------------- MODULE MCCatalog ------------------------------
\* Instances of Catalog for TLC.
EXTENDS Catalog, TLC

CONSTANTS r1, r2, a1, a2, d1, d2, i1, i2

TwoRoles == {r1, r2}
TwoApps == {a1, a2}
TwoDomains == {d1, d2}
TwoIds == {i1, i2}

\* A refresh and a fetch of one application, a refresh of another.
ThreeTasks == {<<a1, "refresh">>, <<a1, "fetch">>, <<a2, "refresh">>}

Symmetric == Permutations(TwoRoles) \cup Permutations(TwoDomains) \cup Permutations(TwoIds)

=============================================================================
