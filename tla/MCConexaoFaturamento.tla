------------------------ MODULE MCConexaoFaturamento ------------------------
EXTENDS ConexaoFaturamento

CONSTANTS uuid, numero, notaId

\* Two indexes of notas_fiscais and one of nota_fiscal_itens.
MCTabelaDe == [i \in Indice |-> IF i = notaId THEN 2 ELSE 1]
=============================================================================
