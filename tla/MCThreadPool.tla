------------------------------ MODULE MCThreadPool ------------------------------
EXTENDS ThreadPool

Mul(chunks) == [kind |-> "mul", chunks |-> chunks]
OpX == [kind |-> "op", chunks |-> 0]
Nop == [kind |-> "nop", chunks |-> 0]

\* Two products in a row, one of them split by thread; products around a node
\* that is skipped; an operator that ends the graph.
SomeGraphs == {<<Mul(4), Mul(1)>>, <<OpX, Nop, Mul(4)>>}
=============================================================================
