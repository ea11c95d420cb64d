\* One nota, two operators, two loads at once, one failing call, one dropped connection.
SPECIFICATION FairTelaSpec
CONSTANTS
    n1 = n1  r1 = r1  r2 = r2  k1 = k1  k2 = k2
    Nota = {n1}
    Pedido = {r1, r2}
    DaTela = {r1}
    Carga = {k1, k2}
    Alvo <- MCAlvo
    JaLigadas = {"confirmacao", "falha", "erro"}
    Instaveis = {}
    MaxErros = 1
    MaxQuedas = 0
    MaxRespostas = 1
    MaxAberturas = 1
    MaxDesconexoes = 1
CHECK_DEADLOCK FALSE
INVARIANTS TelaTypeOK TelaJustificada DivergenciaTemCausa EsperaNaTelaTemCausa
PROPERTY FimMostrado
