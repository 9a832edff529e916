------------------------------ MODULE MCOSMesa ------------------------------
EXTENDS OSMesa, TLC

\* One list of attributes: all contexts may share their buffers.  RGBA is
\* supported with bytes and not with 5_6_5.
MCAttribsSame == {
  [format |-> "RGBA", depthBits |-> 24, stencilBits |-> 8, accumBits |-> 0]}

MCSizes == {<<2, 2>>, <<4, 2>>}

MCOneSize == {<<2, 2>>}

Symmetry ==
  Permutations(Threads) \cup Permutations(Contexts) \cup Permutations(Mems)
    \cup Permutations(Pictures)
=============================================================================
