\* One operator and one failing call.
SPECIFICATION TelaSpec
CONSTANTS
    n1 = n1  r1 = r1  r2 = r2  k1 = k1  k2 = k2
    Nota = {n1}
    Pedido = {r1}
    DaTela = {r1}
    Carga = {k1}
    Alvo <- MCAlvo
    JaLigadas = {"confirmacao", "falha", "erro"}
    Instaveis = {}
    MaxErros = 1
    MaxQuedas = 0
    MaxRespostas = 1
    MaxAberturas = 1
    MaxDesconexoes = 0
CHECK_DEADLOCK FALSE
INVARIANT IntegridadeNaFalha
