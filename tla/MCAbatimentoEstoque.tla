------------------------- MODULE MCAbatimentoEstoque -------------------------
EXTENDS AbatimentoEstoque, TLC

CONSTANTS n1, n2, w1, w2

MCProduto == {1, 2}
\* Both notas need both products; the second cannot be served after the first.
MCQtd == [n \in Nota |-> IF n = n1 THEN <<1, 1>> ELSE <<1, 2>>]
MCSaldo == <<2, 2>>

Simetria == Permutations({w1, w2})
=============================================================================
