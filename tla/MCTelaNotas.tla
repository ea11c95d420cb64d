----------------------------- MODULE MCTelaNotas -----------------------------
EXTENDS TelaNotas

CONSTANTS n1, r1, r2, k1, k2

\* One nota that this operator (r1) and another (r2) may print.
MCAlvo == [r \in Pedido |-> n1]
=============================================================================
