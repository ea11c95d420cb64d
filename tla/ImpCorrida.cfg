\* Two concurrent prints of one nota, nothing fails.
SPECIFICATION Spec
CONSTANTS
    n1 = n1  r1 = r1  r2 = r2
    Nota = {n1}
    Pedido = {r1, r2}
    Alvo <- MCAlvo
    JaLigadas = {"confirmacao", "falha", "erro"}
    Instaveis = {}
    MaxErros = 0
    MaxRespostas = 3
    MaxQuedas = 0
CHECK_DEADLOCK FALSE
PROPERTY SoAbertaEhImpressa
