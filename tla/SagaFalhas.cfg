\* One nota printed twice, failures and a crash on the side of estoque-api, a
\* failing call of faturamento-api, which may lose its connection.
SPECIFICATION SagaSpec
CONSTANTS
    n1 = n1  n2 = n2  r1 = r1  r2 = r2  w1 = w1  w2 = w2
    Nota = {n1}
    Trabalhador = {w1}
    Pedido = {r1, r2}
    Produto <- MCUmProduto
    Qtd <- MCUmaQtd
    SaldoInicial <- MCUmSaldo
    Alvo <- MCAlvo
    AtrasoDoContador = 0
    MaxEmissoes = 2
    MaxQuedas = 1
    MaxFalhas = 3
    MaxEsperas = 0
    MaxPerdas = 0
    JaLigadas = {"confirmacao", "falha", "erro"}
    Instaveis = {"confirmacao"}
    MaxErros = 1
    MaxReinicios = 0
CHECK_DEADLOCK FALSE
INVARIANTS FechadaTemDebito PresaFoiDebitada DebitoContado
PROPERTIES StatusFinalEstavel ImplementaImpressao
