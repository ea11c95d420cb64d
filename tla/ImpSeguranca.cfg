\* Two concurrent prints of one nota, contradictory answers, two failing calls and a crash.
SPECIFICATION Spec
CONSTANTS
    n1 = n1  r1 = r1  r2 = r2
    Nota = {n1}
    Pedido = {r1, r2}
    Alvo <- MCAlvo
    JaLigadas = {}
    Instaveis = {"confirmacao", "falha", "erro"}
    MaxErros = 2
    MaxRespostas = 3
    MaxQuedas = 1
SYMMETRY Simetria
CHECK_DEADLOCK FALSE
INVARIANTS TypeOK PublicadaNaoAberta StatusJustificado EventosContados PresaTemCausa
