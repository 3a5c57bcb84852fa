------------------------- MODULE MCMediaTransaction -------------------------
EXTENDS MediaTransaction, TLC

CONSTANTS r1, r2

\* Two images of different content. Content-addressed names are shared by equal
\* content: r1 :> "a.iso" @@ r2 :> "a.iso" is the other instance to explore.
MCName == r1 :> "a.iso" @@ r2 :> "b.iso"
=============================================================================
