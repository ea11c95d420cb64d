\* One nota delivered twice, enough failures to use up every retry, a crash and a lost lock.
SPECIFICATION Spec
CONSTANTS
    n1 = n1  n2 = n2  w1 = w1  w2 = w2
    Nota = {n1}
    Trabalhador = {w1, w2}
    Produto <- MCProduto
    Qtd <- MCQtd
    SaldoInicial <- MCSaldo
    AtrasoDoContador = 1
    MaxEmissoes = 2
    MaxQuedas = 1
    MaxFalhas = 4
    MaxEsperas = 0
    MaxPerdas = 1
SYMMETRY Simetria
CHECK_DEADLOCK FALSE
INVARIANTS Conservacao AbatidaTemDebito SilencioSoDeDuplicata RespostasContadas
PROPERTY LiberacaoSoDoDono
