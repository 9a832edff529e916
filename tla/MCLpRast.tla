----------------------------- MODULE MCLpRast -----------------------------
EXTENDS LpRast, TLC

\* No tiles at all, and two rows of two.
MCFbTiles == {<<0, 0>>, <<2, 2>>}

\* One row, one column.
MCFbTilesSmall == {<<2, 1>>, <<1, 2>>}

\* One row only.
MCFbTilesRow == {<<2, 1>>}

Symmetry == Permutations(Contexts) \cup Permutations(Fences)
============================================================================
