--------------------------- MODULE MCImpressaoNota ---------------------------
EXTENDS ImpressaoNota, TLC

CONSTANTS n1, r1, r2

\* Every request prints the same nota: notas share nothing but the consumers.
MCAlvo == [r \in Pedido |-> n1]

Simetria == Permutations(Pedido)
=============================================================================
