------------------------------- MODULE MCHashline -------------------------------
EXTENDS Hashline
CONSTANTS x, y, p, q

MCTexts == {x, y, p, q}
\* x and y are lines of the file, p and q are new ones; no collisions.
MCHash == [t \in MCTexts |-> t]
MCFiles == UNION {[1..n -> {x, y}] : n \in 0..3}
MCContents == {<<p>>, <<q, q>>}
=============================================================================
