----------------------------- MODULE MCLpSetup -----------------------------
EXTENDS LpSetup

Triangle(tex, opaque, cover1, cover2) ==
  [tex |-> tex, opaque |-> opaque, cover |-> <<cover1, cover2>>]

\* A blended triangle over both tiles, an opaque one that covers the first tile
\* and part of the second, and an opaque one that covers both.
MCDraws ==
  {Triangle("a", FALSE, "part", "part"), Triangle("b", TRUE, "whole", "part"),
   Triangle("a", TRUE, "whole", "whole")}

\* Depth alone, and colour with stencil.
MCClears == {{"z"}, {"c", "s"}, {"c"}}
=============================================================================
