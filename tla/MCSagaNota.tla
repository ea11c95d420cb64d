----------------------------- MODULE MCSagaNota -----------------------------
EXTENDS SagaNota, TLC

CONSTANTS n1, n2, r1, r2, w1, w2

MCProduto == {1, 2}
\* The notas share the second product, and there is enough of it for one.
MCQtd == [n \in Nota |-> IF n = n1 THEN <<1, 1>> ELSE <<0, 1>>]
MCSaldo == <<1, 1>>
\* One print of each nota, or every print of the only one.
MCAlvo == [r \in Pedido |-> IF r = r2 /\ n2 \in Nota THEN n2 ELSE n1]

\* One nota of one product, in stock once.
MCUmProduto == {1}
MCUmaQtd == [n \in Nota |-> <<1>>]
MCUmSaldo == <<1>>

Simetria == Permutations({w1, w2})
=============================================================================
