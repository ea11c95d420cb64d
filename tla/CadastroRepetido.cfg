\* One product in two spellings, one nota and no failures.
SPECIFICATION Spec
CONSTANTS
    c1 = c1  c2 = c2  q1 = q1  q2 = q2  q3 = q3  semCodigo = semCodigo
    SemCodigo = semCodigo
    Grafia <- MCDuasGrafias
    Chave <- MCDuasChaves
    Produto = {c1, c2}
    Nota = {q1}
    Pedidos <- MCRepetidos
    NumerosDados = {0, 2}
    MaxInt = 2
    MaxFalhas = 0
    MaxPerdas = 0
CHECK_DEADLOCK FALSE
INVARIANT NotaSemProdutoRepetido
