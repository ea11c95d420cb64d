\* Two notas that compete for two products, two workers; one failing call, one crash,
\* one lock wait that times out, no lock lost.
SPECIFICATION FairSpec
CONSTANTS
    n1 = n1  n2 = n2  w1 = w1  w2 = w2
    Nota = {n1, n2}
    Trabalhador = {w1, w2}
    Produto <- MCProduto
    Qtd <- MCQtd
    SaldoInicial <- MCSaldo
    AtrasoDoContador = 0
    MaxEmissoes = 1
    MaxQuedas = 1
    MaxFalhas = 1
    MaxEsperas = 1
    MaxPerdas = 0
CHECK_DEADLOCK FALSE
INVARIANTS
    TypeOK ExclusaoMutua SemImpasse LeituraValida CacheCoerente
    DecisoesContadas
PROPERTIES TudoAssenta ImplementaAtomico
