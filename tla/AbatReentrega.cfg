\* One crash between the commit and the idempotency key.
SPECIFICATION Spec
CONSTANTS
    n1 = n1  n2 = n2  w1 = w1  w2 = w2
    Nota = {n1}
    Trabalhador = {w1, w2}
    Produto <- MCProduto
    Qtd <- MCQtd
    SaldoInicial <- MCSaldo
    AtrasoDoContador = 0
    MaxEmissoes = 1
    MaxQuedas = 1
    MaxFalhas = 0
    MaxEsperas = 0
    MaxPerdas = 0
CHECK_DEADLOCK FALSE
INVARIANT DebitoUnico
