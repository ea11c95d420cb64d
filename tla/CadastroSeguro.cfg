\* Two products, one of them written otherwise than its key, three creations of notas,
\* one failing call and one lost entry of the cache.  2 is the greatest number: three
\* notas are enough for two automatic numbers after it was given.
SPECIFICATION Spec
CONSTANTS
    c1 = c1  c2 = c2  q1 = q1  q2 = q2  q3 = q3  semCodigo = semCodigo
    SemCodigo = semCodigo
    Grafia <- MCGrafia
    Chave <- MCChaves
    Produto = {c1, c2}
    Nota = {q1, q2, q3}
    Pedidos <- MCPedidos
    NumerosDados = {0, 2}
    MaxInt = 2
    MaxFalhas = 1
    MaxPerdas = 1
SYMMETRY Simetria
CHECK_DEADLOCK FALSE
INVARIANTS TypeOK CriadoUmaVez AceitaCadastrada CatalogoNoCache NumeroRepetidoTemCausa
