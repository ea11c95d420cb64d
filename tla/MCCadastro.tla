----------------------------- MODULE MCCadastro -----------------------------
EXTENDS Cadastro, TLC

CONSTANTS c1, c2, q1, q2, q3, semCodigo

\* "P" and "p " are the same product, whose key is "P".
MCChave(grafias) == [g \in grafias |-> IF g = "S" THEN "S" ELSE "P"]
MCGrafia == {"p ", "S"}
MCChaves == MCChave(MCGrafia)
MCDuasGrafias == {"P", "p "}
MCDuasChaves == MCChave(MCDuasGrafias)

ItemDe(g) == [codigo |-> g, quantidade |-> 1, preco |-> 1]

\* A nota of two products, and one that the validation refuses.
MCPedidos == {<<ItemDe("p "), ItemDe("S")>>, <<ItemDe(semCodigo)>>}

\* One product written twice, with and without a quantity.
MCRepetidos == {<<ItemDe("P"), ItemDe("p ")>>,
                <<ItemDe("P"), [ItemDe("P") EXCEPT !.quantidade = 0]>>}

Simetria == Permutations({c1, c2}) \cup Permutations({q1, q2, q3})
=============================================================================
