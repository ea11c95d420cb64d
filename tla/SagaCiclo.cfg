\* Two notas printed once each, enough stock for one of them, two workers;
\* faturamento-api may fail and crash once; three lock waits may time out.
SPECIFICATION FairSagaSpec
CONSTANTS
    n1 = n1  n2 = n2  r1 = r1  r2 = r2  w1 = w1  w2 = w2
    Nota = {n1, n2}
    Trabalhador = {w1, w2}
    Pedido = {r1, r2}
    Produto <- MCProduto
    Qtd <- MCQtd
    SaldoInicial <- MCSaldo
    Alvo <- MCAlvo
    AtrasoDoContador = 0
    MaxEmissoes = 2
    MaxQuedas = 0
    MaxFalhas = 0
    MaxEsperas = 3
    MaxPerdas = 0
    JaLigadas = {"confirmacao", "falha", "erro"}
    Instaveis = {"confirmacao"}
    MaxErros = 1
    MaxReinicios = 1
CHECK_DEADLOCK FALSE
PROPERTIES ImplementaCiclo TodaNotaTermina
