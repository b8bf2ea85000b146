----------------------------- MODULE MCShipper -----------------------------
EXTENDS Shipper

\* A batch that is bisected into unequal halves beside a single line.
Sizes == <<3, 1>>

\* Nothing, the middle, both ends.
Poisons == {{}, {2}, {1, 3}}
=============================================================================
