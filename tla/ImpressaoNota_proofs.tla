------------------------ MODULE ImpressaoNota_proofs ------------------------
(***************************************************************************)
(* Proofs about ImpressaoNota, for any notas, requests and bounds.         *)
(***************************************************************************)
EXTENDS ImpressaoNota, FiniteSetTheorems, TLAPS

USE DEF Vai, SemErro, ComErro

-----------------------------------------------------------------------------
(* Types *)

\* Counting one more of nota n changes no other count.
LEMMA MaisTipo ==
  ASSUME NEW f \in [Nota -> Nat], NEW n \in Nota
  PROVE  /\ Mais(f, n) \in [Nota -> Nat]
         /\ \A m \in Nota : Mais(f, n)[m] = IF m = n THEN f[m] + 1 ELSE f[m]
BY DEF Mais

LEMMA EnviadasNat ==
  ASSUME TypeOK, NEW c \in Consumidor, NEW n \in Nota
  PROVE  Enviadas(c, n) \in Nat
BY DEF TypeOK, Enviadas, Consumidor

\* An answer of estoque-api is counted, and none is taken back.
LEMMA RespostaTipo ==
  ASSUME TypeOK, NEW n \in Nota, EstoqueResponder(n)
  PROVE  /\ abatidas' \in [Nota -> Nat] /\ falhas' \in [Nota -> Nat] /\ erros' \in [Nota -> Nat]
         /\ \A m \in Nota : /\ abatidas'[m] >= abatidas[m]
                            /\ falhas'[m] >= falhas[m]
                            /\ erros'[m] >= erros[m]
<1>1. abatidas \in [Nota -> Nat] /\ falhas \in [Nota -> Nat] /\ erros \in [Nota -> Nat]
  BY DEF TypeOK
<1>2. ASSUME NEW f \in [Nota -> Nat], NEW g, g = f \/ g = Mais(f, n)
      PROVE  g \in [Nota -> Nat] /\ \A m \in Nota : g[m] >= f[m]
  <2>1. CASE g = f
    BY <2>1
  <2>2. CASE g = Mais(f, n)
    BY <2>2, MaisTipo
  <2> QED
    BY <1>2, <2>1, <2>2
<1>3. abatidas' = abatidas \/ abatidas' = Mais(abatidas, n)
  BY Zenon DEF EstoqueResponder
<1>4. falhas' = falhas \/ falhas' = Mais(falhas, n)
  BY Zenon DEF EstoqueResponder
<1>5. erros' = erros \/ erros' = Mais(erros, n)
  BY Zenon DEF EstoqueResponder
<1> QED
  BY <1>1, <1>2, <1>3, <1>4, <1>5

\* A discarded message was sent, and the others stay where they were.
LEMMA DescarteTipo ==
  ASSUME TypeOK, NEW ps, NEW ns, Descartar(ps, ns)
  PROVE  /\ recebidas' \in [Consumidor -> [Nota -> Nat]]
         /\ perdidas' \in [Nota -> Nat]
         /\ \A c \in Consumidor, n \in Nota :
               recebidas'[c][n] = Enviadas(c, n) \/ recebidas'[c][n] = recebidas[c][n]
<1>1. \A c \in Consumidor, n \in Nota : recebidas[c][n] \in Nat /\ Enviadas(c, n) \in Nat
  BY EnviadasNat DEF TypeOK
<1>2. \A n \in Nota : perdidas[n] \in Nat /\ perdidas[n] + 1 \in Nat
  BY DEF TypeOK
<1>3. perdidas' \in [Nota -> Nat]
  BY <1>2, Zenon DEF Descartar
<1>4. recebidas' = [c \in Consumidor |-> [n \in Nota |->
         IF <<c, n>> \in ps THEN Enviadas(c, n) ELSE recebidas[c][n]]]
  BY Zenon DEF Descartar
<1>5. \A c \in Consumidor, n \in Nota :
         recebidas'[c][n] = Enviadas(c, n) \/ recebidas'[c][n] = recebidas[c][n]
  BY <1>4, Zenon
<1>6. recebidas' \in [Consumidor -> [Nota -> Nat]]
  BY <1>1, <1>4, Zenon
<1> QED
  BY <1>3, <1>5, <1>6

\* A connection that opens or closes discards messages and touches no nota.
LEMMA MudaConexao ==
  ASSUME TypeOK, NEW c \in Consumidor, Ligar(c) \/ ConexaoCai(c)
  PROVE  /\ conexao' \in [Consumidor -> {"nova", "ligada", "caida"}]
         /\ errosFeitos' \in Nat
         /\ \E ps, ns : Descartar(ps, ns)
         /\ UNCHANGED <<status, pedido, publicacoes, abatidas, falhas, erros,
                        compensacoes, mao, compensar, quedasFeitas, mudas, atrasadas>>
<1>1. CASE Ligar(c)
  <2>1. \E ps, ns : Descartar(ps, ns)
    BY <1>1, Zenon DEF Ligar
  <2> QED
    BY <1>1, <2>1 DEF Ligar, TypeOK, respostaVars
<1>2. CASE ConexaoCai(c)
  <2>1. \E ps, ns : Descartar(ps, ns)
    BY <1>2, Zenon DEF ConexaoCai
  <2> QED
    BY <1>2, <2>1 DEF ConexaoCai, TypeOK, respostaVars
<1> QED
  BY <1>1, <1>2

LEMMA InitTipo == Init => TypeOK
  BY DEF Init, TypeOK, Status, Consumidor, Aberta

LEMMA PassoTipo == TypeOK /\ [Etapa]_vars => TypeOK'
<1> SUFFICES ASSUME TypeOK, [Etapa]_vars
             PROVE  TypeOK'
  OBVIOUS
<1> USE AlvoAssumption
    DEF TypeOK, Status, Aberta, EmProcessamento, Fechada, Cancelada
<1>1. ASSUME NEW r \in Pedido, Validar(r)
      PROVE  TypeOK'
  <2>1. pedido' \in [Pedido -> {"novo", "validado", "atualizado", "ok", "erro"}]
    BY <1>1 DEF Validar
  <2>2. errosFeitos' \in Nat
    BY <1>1 DEF Validar
  <2> QED
    BY <1>1, <2>1, <2>2 DEF Validar, respostaVars, consumoVars, historia
<1>2. ASSUME NEW r \in Pedido, AtualizarStatus(r)
      PROVE  TypeOK'
  <2>1. Alvo[r] \in Nota
    OBVIOUS
  <2>2. pedido' \in [Pedido -> {"novo", "validado", "atualizado", "ok", "erro"}]
    BY <1>2 DEF AtualizarStatus
  <2>3. status' \in [Nota -> Status]
    BY <1>2 DEF AtualizarStatus, UpdateStatus
  <2>4. atrasadas' \in [Nota -> Nat]
    <3>1. Mais(atrasadas, Alvo[r]) \in [Nota -> Nat]
      BY <2>1, MaisTipo
    <3>2. atrasadas' = atrasadas \/ atrasadas' = Mais(atrasadas, Alvo[r])
      BY <1>2, Zenon DEF AtualizarStatus
    <3> QED
      BY <3>1, <3>2
  <2>5. mudas' \in [Nota -> Nat]
    <3>1. Mais(mudas, Alvo[r]) \in [Nota -> Nat]
      BY <2>1, MaisTipo
    <3>2. mudas' = mudas \/ mudas' = Mais(mudas, Alvo[r])
      BY <1>2, Zenon DEF AtualizarStatus
    <3> QED
      BY <3>1, <3>2
  <2>6. errosFeitos' \in Nat
    BY <1>2 DEF AtualizarStatus
  <2> QED
    BY <1>2, <2>2, <2>3, <2>4, <2>5, <2>6 DEF AtualizarStatus, respostaVars, consumoVars
<1>3. ASSUME NEW r \in Pedido, Publicar(r)
      PROVE  TypeOK'
  <2>1. Alvo[r] \in Nota
    OBVIOUS
  <2>2. pedido' \in [Pedido -> {"novo", "validado", "atualizado", "ok", "erro"}]
    BY <1>3 DEF Publicar
  <2>3. publicacoes' \in [Nota -> Nat]
    <3>1. Mais(publicacoes, Alvo[r]) \in [Nota -> Nat]
      BY <2>1, MaisTipo
    <3>2. publicacoes' = publicacoes \/ publicacoes' = Mais(publicacoes, Alvo[r])
      BY <1>3, Zenon DEF Publicar
    <3> QED
      BY <3>1, <3>2
  <2>4. mudas' \in [Nota -> Nat]
    <3>1. Mais(mudas, Alvo[r]) \in [Nota -> Nat]
      BY <2>1, MaisTipo
    <3>2. mudas' = mudas \/ mudas' = Mais(mudas, Alvo[r])
      BY <1>3, Zenon DEF Publicar
    <3> QED
      BY <3>1, <3>2
  <2>5. errosFeitos' \in Nat
    BY <1>3 DEF Publicar
  <2> QED
    BY <1>3, <2>2, <2>3, <2>4, <2>5 DEF Publicar, respostaVars, consumoVars
<1>4. ASSUME NEW c \in Consumidor, NEW n \in Nota, Receber(c, n)
      PROVE  TypeOK'
  BY <1>4, MaisTipo DEF Receber, UpdateStatus, respostaVars, consumoVars, historia
<1>5. ASSUME NEW c \in Consumidor, Aplicar(c)
      PROVE  TypeOK'
  <2>1. status' \in [Nota -> Status]
    BY <1>5 DEF Aplicar, UpdateStatus, StatusFinal
  <2>2. mao[c] \in Nota
    BY <1>5 DEF Aplicar
  <2>3. perdidas' \in [Nota -> Nat]
    BY <1>5, <2>2 DEF Aplicar, Mais
  <2>4. errosFeitos' \in Nat
    BY <1>5 DEF Aplicar
  <2>5. mao' \in [Consumidor -> Nota \cup {Nenhuma}] /\ compensar' \in Nota \cup {Nenhuma}
    BY <1>5, <2>2 DEF Aplicar
  <2> QED
    BY <1>5, <2>1, <2>3, <2>4, <2>5 DEF Aplicar, respostaVars
<1>6. ASSUME PublicarCompensacao
      PROVE  TypeOK'
  <2>1. compensar \in Nota
    BY <1>6 DEF PublicarCompensacao
  <2>2. compensacoes' \in [Nota -> Nat]
    BY <1>6, <2>1, MaisTipo DEF PublicarCompensacao
  <2>3. errosFeitos' \in Nat
    BY <1>6 DEF PublicarCompensacao
  <2> QED
    BY <1>6, <2>2, <2>3 DEF PublicarCompensacao, respostaVars, historia
<1>7. ASSUME Queda
      PROVE  TypeOK'
  <2>1. recebidas' \in [Consumidor -> [Nota -> Nat]] /\ perdidas' \in [Nota -> Nat]
    <3>1. \E ps, ns : Descartar(ps, ns)
      BY <1>7, Zenon DEF Queda
    <3> QED
      BY <3>1, DescarteTipo
  <2>2. mudas' \in [Nota -> Nat]
    <3>1. \A n \in Nota : mudas[n] \in Nat /\ mudas[n] + 1 \in Nat
      OBVIOUS
    <3> QED
      BY <1>7, <3>1, Zenon DEF Queda
  <2>3. pedido' \in [Pedido -> {"novo", "validado", "atualizado", "ok", "erro"}]
    BY <1>7 DEF Queda
  <2>4. mao' \in [Consumidor -> Nota \cup {Nenhuma}] /\ compensar' \in Nota \cup {Nenhuma}
    BY <1>7 DEF Queda
  <2>5. quedasFeitas' \in Nat
    BY <1>7 DEF Queda
  <2>6. conexao' \in [Consumidor -> {"nova", "ligada", "caida"}]
    BY <1>7 DEF Queda
  <2> QED
    BY <1>7, <2>1, <2>2, <2>3, <2>4, <2>5, <2>6 DEF Queda, respostaVars
<1>8. ASSUME NEW n \in Nota, EstoqueResponder(n)
      PROVE  TypeOK'
  <2>1. abatidas' \in [Nota -> Nat] /\ falhas' \in [Nota -> Nat] /\ erros' \in [Nota -> Nat]
    BY <1>8, RespostaTipo
  <2> QED
    BY <1>8, <2>1 DEF EstoqueResponder, consumoVars, historia
<1>9. CASE UNCHANGED vars
  BY <1>9 DEF vars, UpdateStatus, respostaVars, consumoVars, historia
<1>10. ASSUME NEW c \in Consumidor, Ligar(c) \/ ConexaoCai(c)
       PROVE  TypeOK'
  <2>1. recebidas' \in [Consumidor -> [Nota -> Nat]] /\ perdidas' \in [Nota -> Nat]
    BY <1>10, MudaConexao, DescarteTipo
  <2> QED
    BY <1>10, MudaConexao, <2>1
<1> QED
  BY <1>1, <1>2, <1>3, <1>4, <1>5, <1>6, <1>7, <1>8, <1>9, <1>10 DEF Etapa, Passo

\* The bound on the answers only restricts the steps.
LEMMA LimiteSoRestringe == Spec => SpecLivre
<1>1. [Next]_vars => [Etapa]_vars
  BY DEF Next, Etapa
<1> QED
  BY <1>1, PTL DEF Spec, SpecLivre

\* Type correctness of the print handler and the three consumers.
THEOREM TipoCorreto == SpecLivre => []TypeOK
  BY InitTipo, PassoTipo, PTL DEF SpecLivre

-----------------------------------------------------------------------------
(* Requests *)

\* A request that is about to publish has already moved its nota.
PedidoInv ==
    /\ \A r \in Pedido : pedido[r] = "atualizado" => status[Alvo[r]] # Aberta
    /\ PublicadaNaoAberta

LEMMA InitPedido == Init => PedidoInv
  BY DEF Init, PedidoInv, PublicadaNaoAberta

LEMMA PassoPedido == TypeOK /\ PedidoInv /\ [Etapa]_vars => PedidoInv'
<1> SUFFICES ASSUME TypeOK, PedidoInv, [Etapa]_vars
             PROVE  PedidoInv'
  OBVIOUS
<1> USE AlvoAssumption
    DEF TypeOK, PedidoInv, PublicadaNaoAberta, Aberta, EmProcessamento
<1>1. ASSUME NEW r \in Pedido, Validar(r)
      PROVE  PedidoInv'
  BY <1>1, MaisTipo DEF Validar, UpdateStatus, respostaVars, consumoVars, historia
<1>2. ASSUME NEW r \in Pedido, AtualizarStatus(r)
      PROVE  PedidoInv'
  <2>1. Alvo[r] \in Nota /\ pedido[r] = "validado" /\ publicacoes' = publicacoes
    BY <1>2 DEF AtualizarStatus
  <2>2. CASE status' = [status EXCEPT ![Alvo[r]] = EmProcessamento]
    <3>1. \A q \in Pedido : q # r => pedido'[q] = pedido[q]
      BY <1>2 DEF AtualizarStatus
    <3>2. status'[Alvo[r]] # Aberta /\ \A n \in Nota : n # Alvo[r] => status'[n] = status[n]
      BY <2>1, <2>2
    <3> QED
      BY <2>1, <3>1, <3>2
  <2>3. CASE status' = status /\ pedido' = [pedido EXCEPT ![r] = "erro"]
    BY <2>1, <2>3
  <2> QED
    BY <1>2, <2>2, <2>3 DEF AtualizarStatus, UpdateStatus
<1>3. ASSUME NEW r \in Pedido, Publicar(r)
      PROVE  PedidoInv'
  <2>1. Alvo[r] \in Nota /\ pedido[r] = "atualizado" /\ status' = status
    BY <1>3 DEF Publicar
  <2>2. \A n \in Nota : n # Alvo[r] => publicacoes'[n] = publicacoes[n]
    BY <1>3, <2>1 DEF Publicar, Mais
  <2>3. \A q \in Pedido : pedido'[q] = "atualizado" => pedido[q] = "atualizado"
    BY <1>3 DEF Publicar
  <2> QED
    BY <2>1, <2>2, <2>3
<1>4. ASSUME NEW c \in Consumidor, NEW n \in Nota, Receber(c, n)
      PROVE  PedidoInv'
  BY <1>4, MaisTipo DEF Receber, UpdateStatus, respostaVars, consumoVars, historia
<1>5. ASSUME NEW c \in Consumidor, Aplicar(c)
      PROVE  PedidoInv'
  BY <1>5 DEF Aplicar, UpdateStatus, StatusFinal, Fechada, Cancelada, respostaVars
<1>6. ASSUME PublicarCompensacao
      PROVE  PedidoInv'
  BY <1>6, MaisTipo DEF PublicarCompensacao, UpdateStatus, respostaVars, consumoVars, historia
<1>7. ASSUME Queda
      PROVE  PedidoInv'
  BY <1>7, MaisTipo DEF Queda, UpdateStatus, respostaVars, consumoVars, historia
<1>8. ASSUME NEW n \in Nota, EstoqueResponder(n)
      PROVE  PedidoInv'
  BY <1>8, MaisTipo DEF EstoqueResponder, UpdateStatus, respostaVars, consumoVars, historia
<1>9. CASE UNCHANGED vars
  BY <1>9 DEF vars, UpdateStatus, respostaVars, consumoVars, historia
<1>10. ASSUME NEW c \in Consumidor, Ligar(c) \/ ConexaoCai(c)
       PROVE  PedidoInv'
  BY <1>10, MudaConexao
<1> QED
  BY <1>1, <1>2, <1>3, <1>4, <1>5, <1>6, <1>7, <1>8, <1>9, <1>10 DEF Etapa, Passo

\* Whatever fails and however requests and answers interleave, an event sent to
\* estoque-api is of a nota that no later request can print.
THEOREM PublicadaCorreta == SpecLivre => []PublicadaNaoAberta
<1>1. PedidoInv => PublicadaNaoAberta
  BY DEF PedidoInv
<1> QED
  BY InitTipo, PassoTipo, InitPedido, PassoPedido, <1>1, PTL DEF SpecLivre

-----------------------------------------------------------------------------
(* Answers *)

\* A consumer takes no more messages than were sent, and what it holds it took.
ConsumoInv ==
    \A c \in Consumidor :
        /\ \A n \in Nota : recebidas[c][n] <= Enviadas(c, n)
        /\ mao[c] # Nenhuma => recebidas[c][mao[c]] > 0

LEMMA InitConsumo == Init => ConsumoInv
  BY DEF Init, ConsumoInv, Enviadas, Consumidor

LEMMA PassoConsumo == TypeOK /\ ConsumoInv /\ [Etapa]_vars => ConsumoInv'
<1> SUFFICES ASSUME TypeOK, ConsumoInv, [Etapa]_vars
             PROVE  ConsumoInv'
  OBVIOUS
<1> USE NenhumaAssumption DEF TypeOK, ConsumoInv
<1>1. ASSUME NEW r \in Pedido, Validar(r)
      PROVE  ConsumoInv'
  BY <1>1, MaisTipo DEF Validar, UpdateStatus, respostaVars, consumoVars, historia, Enviadas
<1>2. ASSUME NEW r \in Pedido, AtualizarStatus(r)
      PROVE  ConsumoInv'
  BY <1>2, MaisTipo DEF AtualizarStatus, UpdateStatus, respostaVars, consumoVars, historia, Enviadas
<1>3. ASSUME NEW r \in Pedido, Publicar(r)
      PROVE  ConsumoInv'
  BY <1>3, MaisTipo DEF Publicar, UpdateStatus, respostaVars, consumoVars, historia, Enviadas
<1>4. ASSUME NEW c \in Consumidor, NEW n \in Nota, Receber(c, n)
      PROVE  ConsumoInv'
  <2>1. \A d \in Consumidor, m \in Nota : Enviadas(d, m)' = Enviadas(d, m)
    BY <1>4 DEF Receber, respostaVars, Enviadas
  <2>2. \A d \in Consumidor, m \in Nota : Enviadas(d, m) \in Nat
    BY EnviadasNat
  <2>3. \A d \in Consumidor, m \in Nota :
           recebidas'[d][m] = IF d = c /\ m = n THEN recebidas[d][m] + 1 ELSE recebidas[d][m]
    BY <1>4 DEF Receber
  <2>4. recebidas[c][n] < Enviadas(c, n)
    BY <1>4 DEF Receber, NaFila
  <2>5. \A d \in Consumidor, m \in Nota : recebidas'[d][m] <= Enviadas(d, m)'
    BY <2>1, <2>2, <2>3, <2>4
  <2>6. \A d \in Consumidor : mao'[d] # Nenhuma => recebidas'[d][mao'[d]] > 0
    <3> TAKE d \in Consumidor
    <3>1. CASE d = c
      BY <1>4, <2>3, <3>1 DEF Receber
    <3>2. CASE d # c
      BY <1>4, <2>3, <3>2 DEF Receber
    <3> QED
      BY <3>1, <3>2
  <2> QED
    BY <2>5, <2>6
<1>5. ASSUME NEW c \in Consumidor, Aplicar(c)
      PROVE  ConsumoInv'
  BY <1>5, MaisTipo DEF Aplicar, UpdateStatus, respostaVars, consumoVars, historia, Enviadas
<1>6. ASSUME PublicarCompensacao
      PROVE  ConsumoInv'
  <2>1. compensar \in Nota /\ recebidas' = recebidas /\ mao' = mao
    BY <1>6 DEF PublicarCompensacao
  <2>2. \A n \in Nota : compensacoes'[n] \in Nat /\ compensacoes'[n] >= compensacoes[n]
    BY <1>6, <2>1 DEF PublicarCompensacao, Mais
  <2>3. \A c \in Consumidor, n \in Nota :
           Enviadas(c, n) \in Nat /\ Enviadas(c, n)' \in Nat /\ Enviadas(c, n)' >= Enviadas(c, n)
    BY <1>6, <2>2 DEF PublicarCompensacao, respostaVars, Enviadas, Consumidor
  <2> QED
    BY <2>1, <2>3
<1>7. ASSUME Queda
      PROVE  ConsumoInv'
  <2>1. \A c \in Consumidor, n \in Nota : Enviadas(c, n)' = Enviadas(c, n)
    BY <1>7 DEF Queda, respostaVars, Enviadas
  <2>2. \A c \in Consumidor, n \in Nota : Enviadas(c, n) \in Nat
    BY EnviadasNat
  <2>3. \A c \in Consumidor, n \in Nota :
           recebidas'[c][n] = Enviadas(c, n) \/ recebidas'[c][n] = recebidas[c][n]
    <3>1. \E ps, ns : Descartar(ps, ns)
      BY <1>7, Zenon DEF Queda
    <3> QED
      BY <3>1, DescarteTipo
  <2>4. \A c \in Consumidor : mao'[c] = Nenhuma
    BY <1>7 DEF Queda
  <2> QED
    BY <2>1, <2>2, <2>3, <2>4
<1>8. ASSUME NEW n \in Nota, EstoqueResponder(n)
      PROVE  ConsumoInv'
  <2>1. \A m \in Nota : /\ abatidas'[m] \in Nat /\ abatidas'[m] >= abatidas[m]
                       /\ falhas'[m] \in Nat /\ falhas'[m] >= falhas[m]
                       /\ erros'[m] \in Nat /\ erros'[m] >= erros[m]
    BY <1>8, RespostaTipo
  <2>2. recebidas' = recebidas /\ mao' = mao /\ compensacoes' = compensacoes
    BY <1>8 DEF EstoqueResponder, consumoVars
  <2>3. \A c \in Consumidor, m \in Nota :
           Enviadas(c, m) \in Nat /\ Enviadas(c, m)' \in Nat /\ Enviadas(c, m)' >= Enviadas(c, m)
    BY <2>1, <2>2 DEF Enviadas, Consumidor
  <2> QED
    BY <2>2, <2>3
<1>9. CASE UNCHANGED vars
  BY <1>9 DEF vars, UpdateStatus, respostaVars, consumoVars, historia, Enviadas
<1>10. ASSUME NEW c \in Consumidor, Ligar(c) \/ ConexaoCai(c)
       PROVE  ConsumoInv'
  <2>1. \A d \in Consumidor, n \in Nota : Enviadas(d, n)' = Enviadas(d, n)
    BY <1>10, MudaConexao DEF Enviadas
  <2>2. \A d \in Consumidor, n \in Nota : Enviadas(d, n) \in Nat
    BY EnviadasNat
  <2>3. \A d \in Consumidor, n \in Nota :
           recebidas'[d][n] = Enviadas(d, n) \/ recebidas'[d][n] = recebidas[d][n]
    BY <1>10, MudaConexao, DescarteTipo
  <2>4. mao' = mao
    BY <1>10, MudaConexao
  <2>5. \A d \in Consumidor, n \in Nota :
           recebidas'[d][n] <= Enviadas(d, n)' /\ recebidas'[d][n] >= recebidas[d][n]
    BY <2>1, <2>2, <2>3
  <2>6. \A d \in Consumidor, n \in Nota : recebidas[d][n] \in Nat /\ recebidas'[d][n] \in Nat
    BY <2>2, <2>3
  <2>7. \A d \in Consumidor : mao'[d] # Nenhuma => recebidas'[d][mao'[d]] > 0
    <3> TAKE d \in Consumidor
    <3> SUFFICES ASSUME mao[d] # Nenhuma
                 PROVE  recebidas'[d][mao[d]] > 0
      BY <2>4
    <3>1. mao[d] \in Nota /\ recebidas[d][mao[d]] > 0
      OBVIOUS
    <3> QED
      BY <3>1, <2>5, <2>6
  <2> QED
    BY <2>5, <2>7
<1> QED
  BY <1>1, <1>2, <1>3, <1>4, <1>5, <1>6, <1>7, <1>8, <1>9, <1>10 DEF Etapa, Passo

\* No consumer handles a message that was never sent to its queue.
THEOREM ConsumoCorreto == SpecLivre => []ConsumoInv
  BY InitTipo, PassoTipo, InitConsumo, PassoConsumo, PTL DEF SpecLivre

\* A compensation is announced only of a nota that has a dead letter.
CompensacaoInv ==
    \A n \in Nota : compensacoes[n] > 0 \/ compensar = n => erros[n] > 0

LEMMA InitCompensacao == Init => CompensacaoInv
  BY NenhumaAssumption DEF Init, CompensacaoInv

LEMMA PassoCompensacao ==
  TypeOK /\ ConsumoInv /\ CompensacaoInv /\ [Etapa]_vars => CompensacaoInv'
<1> SUFFICES ASSUME TypeOK, ConsumoInv, CompensacaoInv, [Etapa]_vars
             PROVE  CompensacaoInv'
  OBVIOUS
<1> USE NenhumaAssumption DEF TypeOK, CompensacaoInv
<1>1. CASE UNCHANGED <<compensacoes, compensar, erros>>
  BY <1>1
<1>2. ASSUME NEW n \in Nota, EstoqueResponder(n)
      PROVE  CompensacaoInv'
  <2>1. \A m \in Nota : erros[m] \in Nat /\ erros'[m] \in Nat /\ erros'[m] >= erros[m]
    BY <1>2, RespostaTipo
  <2>2. UNCHANGED <<compensacoes, compensar>>
    BY <1>2 DEF EstoqueResponder, consumoVars
  <2> QED
    BY <2>1, <2>2
<1>3. ASSUME NEW c \in Consumidor, Aplicar(c)
      PROVE  CompensacaoInv'
  <2>1. UNCHANGED <<compensacoes, erros>>
    BY <1>3 DEF Aplicar, respostaVars
  <2>2. compensar' = compensar \/ (c = "erro" /\ compensar' = mao[c])
    BY <1>3 DEF Aplicar
  <2>3. mao[c] \in Nota /\ recebidas[c][mao[c]] > 0
    BY <1>3 DEF Aplicar, ConsumoInv
  <2>4. recebidas[c][mao[c]] <= Enviadas(c, mao[c])
    BY <2>3 DEF ConsumoInv
  <2>5. c = "erro" => erros[mao[c]] > 0
    BY <2>3, <2>4 DEF Enviadas
  <2> QED
    BY <2>1, <2>2, <2>5
<1>4. CASE PublicarCompensacao
  <2>1. compensar \in Nota /\ compensar' = Nenhuma /\ erros' = erros
    BY <1>4 DEF PublicarCompensacao, respostaVars
  <2>2. \A n \in Nota : compensacoes'[n] > 0 => compensacoes[n] > 0 \/ n = compensar
    BY <1>4 DEF PublicarCompensacao, Mais
  <2> QED
    BY <2>1, <2>2
<1>5. CASE Queda
  BY <1>5 DEF Queda, respostaVars
<1>6. ASSUME NEW c \in Consumidor, Ligar(c) \/ ConexaoCai(c)
      PROVE  CompensacaoInv'
  BY <1>1, <1>6 DEF Ligar, ConexaoCai, respostaVars
<1>7. ASSUME \/ \E r \in Pedido : Validar(r) \/ AtualizarStatus(r) \/ Publicar(r)
             \/ \E c \in Consumidor, n \in Nota : Receber(c, n)
             \/ UNCHANGED vars
      PROVE  CompensacaoInv'
  BY <1>1, <1>7 DEF Validar, AtualizarStatus, Publicar, Receber, respostaVars, consumoVars, vars
<1> QED
  BY <1>2, <1>3, <1>4, <1>5, <1>6, <1>7 DEF Etapa, Passo

LEMMA InitStatus == Init => StatusJustificado
  BY DEF Init, StatusJustificado, Aberta, Fechada, Cancelada

LEMMA PassoStatus ==
  TypeOK /\ ConsumoInv /\ StatusJustificado /\ [Etapa]_vars => StatusJustificado'
<1> SUFFICES ASSUME TypeOK, ConsumoInv, StatusJustificado, [Etapa]_vars
             PROVE  StatusJustificado'
  OBVIOUS
<1> USE AlvoAssumption
    DEF TypeOK, StatusJustificado, Consumidor, Aberta, EmProcessamento, Fechada, Cancelada
<1>1. ASSUME NEW r \in Pedido, Validar(r)
      PROVE  StatusJustificado'
  BY <1>1, MaisTipo DEF Validar, UpdateStatus, respostaVars, consumoVars, historia
<1>2. ASSUME NEW r \in Pedido, AtualizarStatus(r)
      PROVE  StatusJustificado'
  BY <1>2, MaisTipo DEF AtualizarStatus, UpdateStatus, respostaVars, consumoVars, historia
<1>3. ASSUME NEW r \in Pedido, Publicar(r)
      PROVE  StatusJustificado'
  BY <1>3, MaisTipo DEF Publicar, UpdateStatus, respostaVars, consumoVars, historia
<1>4. ASSUME NEW c \in Consumidor, NEW n \in Nota, Receber(c, n)
      PROVE  StatusJustificado'
  BY <1>4, MaisTipo DEF Receber, UpdateStatus, respostaVars, consumoVars, historia
<1>5. ASSUME NEW c \in Consumidor, Aplicar(c)
      PROVE  StatusJustificado'
  <2>1. mao[c] \in Nota /\ recebidas[c][mao[c]] > 0
    BY <1>5 DEF Aplicar, ConsumoInv
  <2>2. CASE UNCHANGED status
    BY <1>5, <2>2 DEF Aplicar
  <2>3. CASE status' = [status EXCEPT ![mao[c]] = StatusFinal(c)]
    BY <1>5, <2>1, <2>3 DEF Aplicar, StatusFinal
  <2> QED
    BY <1>5, <2>2, <2>3 DEF Aplicar, UpdateStatus
<1>6. ASSUME PublicarCompensacao
      PROVE  StatusJustificado'
  BY <1>6, MaisTipo DEF PublicarCompensacao, UpdateStatus, respostaVars, consumoVars, historia
<1>7. ASSUME Queda
      PROVE  StatusJustificado'
  <2>1. \A c \in Consumidor, n \in Nota :
           recebidas'[c][n] = Enviadas(c, n) \/ recebidas'[c][n] = recebidas[c][n]
    <3>1. \E ps, ns : Descartar(ps, ns)
      BY <1>7, Zenon DEF Queda
    <3> QED
      BY <3>1, DescarteTipo
  <2>2. \A c \in Consumidor, n \in Nota :
           /\ recebidas[c][n] \in Nat /\ recebidas'[c][n] \in Nat
           /\ recebidas'[c][n] >= recebidas[c][n]
    BY <2>1, EnviadasNat DEF ConsumoInv
  <2>3. status' = status
    BY <1>7 DEF Queda
  <2> QED
    BY <2>2, <2>3
<1>8. ASSUME NEW n \in Nota, EstoqueResponder(n)
      PROVE  StatusJustificado'
  BY <1>8, MaisTipo DEF EstoqueResponder, UpdateStatus, respostaVars, consumoVars, historia
<1>9. CASE UNCHANGED vars
  BY <1>9 DEF vars, UpdateStatus, respostaVars, consumoVars, historia
<1>10. ASSUME NEW c \in Consumidor, Ligar(c) \/ ConexaoCai(c)
       PROVE  StatusJustificado'
  <2>1. \A d \in Consumidor, n \in Nota :
           recebidas'[d][n] = Enviadas(d, n) \/ recebidas'[d][n] = recebidas[d][n]
    BY <1>10, MudaConexao, DescarteTipo
  <2>2. \A d \in Consumidor, n \in Nota :
           /\ recebidas[d][n] \in Nat /\ recebidas'[d][n] \in Nat
           /\ recebidas'[d][n] >= recebidas[d][n]
    BY <2>1, EnviadasNat DEF ConsumoInv
  <2>3. status' = status
    BY <1>10, MudaConexao
  <2> QED
    BY <2>2, <2>3
<1> QED
  BY <1>1, <1>2, <1>3, <1>4, <1>5, <1>6, <1>7, <1>8, <1>9, <1>10 DEF Etapa, Passo

\* A nota is Fechada only after a confirmation was delivered for it, and
\* Cancelada only after a failure or a dead letter was.
THEOREM StatusCorreto == SpecLivre => []StatusJustificado
  BY InitTipo, PassoTipo, InitConsumo, PassoConsumo, InitStatus, PassoStatus, PTL
  DEF SpecLivre

-----------------------------------------------------------------------------
(* Stuck notas *)

\* A discarded message of n is counted among those n lost.
LEMMA DescarteContado ==
  ASSUME TypeOK, NEW ps, NEW ns, Descartar(ps, ns), NEW n \in Nota
  PROVE  \/ perdidas'[n] = perdidas[n] + 1
         \/ /\ perdidas'[n] = perdidas[n] /\ n \notin ns
            /\ \A c \in Consumidor : recebidas'[c][n] = recebidas[c][n]
<1>1. perdidas' = [m \in Nota |->
         IF m \in ns \/ \E c \in Consumidor : <<c, m>> \in ps
         THEN perdidas[m] + 1 ELSE perdidas[m]]
  BY Zenon DEF Descartar
<1>2. recebidas' = [c \in Consumidor |-> [m \in Nota |->
         IF <<c, m>> \in ps THEN Enviadas(c, m) ELSE recebidas[c][m]]]
  BY Zenon DEF Descartar
<1>3. CASE n \in ns \/ \E c \in Consumidor : <<c, n>> \in ps
  BY <1>1, <1>3, Zenon
<1>4. CASE ~(n \in ns \/ \E c \in Consumidor : <<c, n>> \in ps)
  BY <1>1, <1>2, <1>4, Zenon
<1> QED
  BY <1>3, <1>4

Recebida(n) == \E c \in Consumidor : recebidas[c][n] > 0
NaMao(n) == \E c \in Consumidor : mao[c] = n

\* An answer of n that was taken off its queue is in a consumer's hands or has
\* given n its final status, unless one was lost or a late print wrote over it.
RespostaInv ==
    \A n \in Nota :
        perdidas[n] = 0 /\ atrasadas[n] = 0 /\ Recebida(n)
        => NaMao(n) \/ status[n] \in {Fechada, Cancelada}

LEMMA InitResposta == Init => RespostaInv
  BY DEF Init, RespostaInv, Recebida

LEMMA PassoResposta == TypeOK /\ RespostaInv /\ [Etapa]_vars => RespostaInv'
<1> SUFFICES ASSUME TypeOK, RespostaInv, [Etapa]_vars
             PROVE  RespostaInv'
  OBVIOUS
<1> USE AlvoAssumption, NenhumaAssumption
    DEF TypeOK, RespostaInv, Recebida, NaMao, Aberta, EmProcessamento, Fechada, Cancelada
<1>1. ASSUME NEW r \in Pedido, Validar(r)
      PROVE  RespostaInv'
  BY <1>1 DEF Validar, consumoVars, historia
<1>2. ASSUME NEW r \in Pedido, AtualizarStatus(r)
      PROVE  RespostaInv'
  <2>1. Alvo[r] \in Nota /\ UNCHANGED <<recebidas, mao, perdidas>>
    BY <1>2 DEF AtualizarStatus, consumoVars
  <2>2. CASE UNCHANGED <<status, atrasadas>>
    BY <2>1, <2>2
  <2>3. CASE /\ status' = [status EXCEPT ![Alvo[r]] = EmProcessamento]
             /\ atrasadas' = IF status[Alvo[r]] = Aberta THEN atrasadas
                             ELSE Mais(atrasadas, Alvo[r])
    <3>0. /\ Mais(atrasadas, Alvo[r])[Alvo[r]] = atrasadas[Alvo[r]] + 1
          /\ \A n \in Nota : n # Alvo[r] => Mais(atrasadas, Alvo[r])[n] = atrasadas[n]
      BY <2>1, MaisTipo
    <3>1. \A n \in Nota : n # Alvo[r] => status'[n] = status[n] /\ atrasadas'[n] = atrasadas[n]
      BY <2>1, <2>3, <3>0
    <3>2. status[Alvo[r]] # Aberta => atrasadas'[Alvo[r]] > 0
      BY <2>1, <2>3, <3>0
    <3>3. status[Alvo[r]] = Aberta => atrasadas' = atrasadas
      BY <2>3
    <3> QED
      BY <2>1, <3>1, <3>2, <3>3
  <2> QED
    BY <1>2, <2>2, <2>3 DEF AtualizarStatus, UpdateStatus, CanBePrinted
<1>3. ASSUME NEW r \in Pedido, Publicar(r)
      PROVE  RespostaInv'
  BY <1>3 DEF Publicar, consumoVars
<1>4. ASSUME NEW c \in Consumidor, NEW n \in Nota, Receber(c, n)
      PROVE  RespostaInv'
  <2>1. UNCHANGED <<status, perdidas, atrasadas>> /\ mao[c] = Nenhuma
    BY <1>4 DEF Receber, historia, NoLaco
  <2>2. mao' = [mao EXCEPT ![c] = n]
    BY <1>4 DEF Receber
  <2>3. \A d \in Consumidor, m \in Nota : m # n => recebidas'[d][m] = recebidas[d][m]
    BY <1>4 DEF Receber
  <2>4. \A m \in Nota : NaMao(m) => NaMao(m)'
    BY <2>1, <2>2
  <2>5. NaMao(n)'
    BY <2>2
  <2> QED
    BY <2>1, <2>3, <2>4, <2>5
<1>5. ASSUME NEW c \in Consumidor, Aplicar(c)
      PROVE  RespostaInv'
  <2>1. mao[c] \in Nota /\ UNCHANGED <<recebidas, atrasadas>>
    BY <1>5 DEF Aplicar
  <2>2. \A m \in Nota : m # mao[c] /\ NaMao(m) => NaMao(m)'
    BY <1>5 DEF Aplicar
  <2>3. CASE status' = [status EXCEPT ![mao[c]] = StatusFinal(c)] /\ perdidas' = perdidas
    BY <2>1, <2>2, <2>3 DEF StatusFinal
  <2>4. CASE status' = status /\ perdidas' = Mais(perdidas, mao[c])
    <3>1. perdidas'[mao[c]] > 0 /\ \A m \in Nota : m # mao[c] => perdidas'[m] = perdidas[m]
      BY <2>1, <2>4, MaisTipo
    <3> QED
      BY <2>1, <2>2, <2>4, <3>1
  <2> QED
    BY <1>5, <2>3, <2>4 DEF Aplicar, UpdateStatus
<1>6. ASSUME PublicarCompensacao
      PROVE  RespostaInv'
  BY <1>6 DEF PublicarCompensacao, historia
<1>7. ASSUME Queda
      PROVE  RespostaInv'
  <2>1. UNCHANGED <<status, atrasadas>>
    BY <1>7 DEF Queda
  <2>2. PICK ps : Descartar(ps, {mao[c] : c \in Consumidor})
    BY <1>7, Zenon DEF Queda
  <2>3. \A n \in Nota : NaMao(n) => n \in {mao[c] : c \in Consumidor}
    OBVIOUS
  <2>4. \A n \in Nota :
           \/ perdidas'[n] = perdidas[n] + 1
           \/ /\ perdidas'[n] = perdidas[n] /\ n \notin {mao[c] : c \in Consumidor}
              /\ \A c \in Consumidor : recebidas'[c][n] = recebidas[c][n]
    BY <2>2, DescarteContado
  <2> QED
    BY <2>1, <2>3, <2>4
<1>8. ASSUME NEW n \in Nota, EstoqueResponder(n)
      PROVE  RespostaInv'
  BY <1>8 DEF EstoqueResponder, consumoVars, historia
<1>9. CASE UNCHANGED vars
  BY <1>9 DEF vars, consumoVars, historia
<1>10. ASSUME NEW c \in Consumidor, Ligar(c) \/ ConexaoCai(c)
       PROVE  RespostaInv'
  <2>1. UNCHANGED <<status, mao, atrasadas>>
    BY <1>10, MudaConexao
  <2>2. PICK ps, ns : Descartar(ps, ns)
    BY <1>10, MudaConexao
  <2>3. \A n \in Nota :
           \/ perdidas'[n] = perdidas[n] + 1
           \/ /\ perdidas'[n] = perdidas[n]
              /\ \A d \in Consumidor : recebidas'[d][n] = recebidas[d][n]
    BY <2>2, DescarteContado
  <2> QED
    BY <2>1, <2>3
<1> QED
  BY <1>1, <1>2, <1>3, <1>4, <1>5, <1>6, <1>7, <1>8, <1>9, <1>10 DEF Etapa, Passo

\* Whatever fails, drops or interleaves, an answered nota about which nothing is
\* left to do has its final status, unless an answer of it was lost or a late
\* print wrote over it.
THEOREM PresaCorreta == SpecLivre => []PresaTemCausa
<1>1. TypeOK /\ ConsumoInv /\ RespostaInv => PresaTemCausa
  <2> SUFFICES ASSUME TypeOK, ConsumoInv, RespostaInv, NEW n \in Nota, Quieta(n),
                      status[n] = EmProcessamento
               PROVE  perdidas[n] + atrasadas[n] > 0
    BY DEF PresaTemCausa
  <2>0. perdidas[n] \in Nat /\ atrasadas[n] \in Nat
    BY DEF TypeOK
  <2> SUFFICES ASSUME perdidas[n] = 0, atrasadas[n] = 0
               PROVE  FALSE
    BY <2>0
  <2>1. \E c \in Consumidor : Enviadas(c, n) > 0
    <3>1. abatidas[n] \in Nat /\ falhas[n] \in Nat /\ erros[n] \in Nat /\ compensacoes[n] \in Nat
      BY DEF TypeOK
    <3>2. abatidas[n] > 0 \/ falhas[n] > 0 \/ erros[n] > 0
      BY <3>1 DEF Quieta, Respondidas
    <3> QED
      BY <3>1, <3>2 DEF Enviadas, Consumidor
  <2>2. PICK c \in Consumidor : Enviadas(c, n) > 0
    BY <2>1
  <2>3. recebidas[c][n] \in Nat /\ Enviadas(c, n) \in Nat
    BY EnviadasNat DEF TypeOK
  <2>4. recebidas[c][n] > 0
    BY <2>2, <2>3 DEF Quieta, NaFila
  <2>5. ~NaMao(n)
    BY DEF Quieta, NaMao
  <2>6. status[n] \in {Fechada, Cancelada}
    BY <2>4, <2>5 DEF RespostaInv, Recebida
  <2> QED
    BY <2>6 DEF EmProcessamento, Fechada, Cancelada
<1> QED
  BY InitTipo, PassoTipo, InitConsumo, PassoConsumo, InitResposta, PassoResposta, <1>1, PTL
  DEF SpecLivre

-----------------------------------------------------------------------------
(* One event of a nota *)

\* An answer follows an event, and a compensation a dead letter.
RespondidaInv ==
    /\ CompensacaoInv
    /\ \A n \in Nota : abatidas[n] > 0 \/ falhas[n] > 0 \/ erros[n] > 0 => publicacoes[n] > 0

LEMMA InitRespondida == Init => RespondidaInv
  BY InitCompensacao DEF Init, RespondidaInv

LEMMA PassoRespondida ==
  TypeOK /\ ConsumoInv /\ RespondidaInv /\ [Etapa]_vars => RespondidaInv'
<1> SUFFICES ASSUME TypeOK, ConsumoInv, RespondidaInv, [Etapa]_vars
             PROVE  RespondidaInv'
  OBVIOUS
<1>1. CompensacaoInv'
  BY PassoCompensacao DEF RespondidaInv
<1>2. CASE UNCHANGED respostaVars /\ \A n \in Nota : publicacoes'[n] >= publicacoes[n]
  <2>1. \A n \in Nota : publicacoes[n] \in Nat /\ publicacoes'[n] >= publicacoes[n]
                       /\ abatidas'[n] = abatidas[n] /\ falhas'[n] = falhas[n] /\ erros'[n] = erros[n]
    BY <1>2 DEF TypeOK, respostaVars
  <2>2. \A n \in Nota : abatidas'[n] > 0 \/ falhas'[n] > 0 \/ erros'[n] > 0 => publicacoes[n] > 0
    BY <2>1 DEF RespondidaInv
  <2> HIDE DEF RespondidaInv
  <2>3. \A n \in Nota : publicacoes[n] > 0 => publicacoes'[n] > 0
    <3> TAKE n \in Nota
    <3>1. publicacoes[n] \in Nat /\ publicacoes'[n] >= publicacoes[n]
      BY <2>1
    <3>2. publicacoes'[n] \in Nat
      BY PassoTipo DEF TypeOK
    <3> QED
      BY <3>1, <3>2
  <2> QED
    BY <1>1, <2>2, <2>3 DEF RespondidaInv
<1>3. ASSUME NEW m \in Nota, EstoqueResponder(m)
      PROVE  RespondidaInv'
  <2>1. publicacoes[m] > 0 /\ publicacoes' = publicacoes
    BY <1>3 DEF EstoqueResponder
  <2>2. \A n \in Nota : n # m =>
           abatidas'[n] = abatidas[n] /\ falhas'[n] = falhas[n] /\ erros'[n] = erros[n]
    BY <1>3 DEF EstoqueResponder, Mais, TypeOK
  <2> QED
    BY <1>1, <2>1, <2>2 DEF RespondidaInv
<1>4. ASSUME NEW r \in Pedido, Publicar(r)
      PROVE  RespondidaInv'
  <2>1. UNCHANGED respostaVars /\ publicacoes' \in {publicacoes, Mais(publicacoes, Alvo[r])}
    BY <1>4 DEF Publicar
  <2>2. \A n \in Nota : publicacoes'[n] >= publicacoes[n]
    BY <2>1, AlvoAssumption DEF Mais, TypeOK
  <2> QED
    BY <1>2, <2>1, <2>2
<1>5. ASSUME UNCHANGED <<respostaVars, publicacoes>>
      PROVE  RespondidaInv'
  <2>1. \A n \in Nota : publicacoes'[n] >= publicacoes[n]
    BY <1>5 DEF TypeOK
  <2> QED
    BY <1>2, <1>5, <2>1
<1>6. ASSUME Passo \/ UNCHANGED vars
      PROVE  UNCHANGED <<respostaVars, publicacoes>>
  BY <1>6 DEF Passo, Validar, AtualizarStatus, Receber, Ligar, ConexaoCai, Aplicar,
     PublicarCompensacao, Queda, vars
<1> QED
  BY <1>3, <1>4, <1>5, <1>6 DEF Etapa

\* The requests that wrote the status of n and have yet to publish its event.
EmVoo(n) == {r \in Pedido : Alvo[r] = n /\ pedido[r] = "atualizado"}

\* The events of a nota and the requests about to add one: the first request to
\* write finds it Aberta, and each other one wrote over a status it had not read.
EmissaoInv ==
    \A n \in Nota :
        /\ IsFiniteSet(EmVoo(n))
        /\ publicacoes[n] + Cardinality(EmVoo(n)) <= 1 + atrasadas[n]

LEMMA InitEmissao == Init => EmissaoInv
<1> SUFFICES ASSUME Init, NEW n \in Nota
             PROVE  /\ IsFiniteSet(EmVoo(n))
                    /\ publicacoes[n] + Cardinality(EmVoo(n)) <= 1 + atrasadas[n]
  BY DEF EmissaoInv
<1>1. EmVoo(n) = {}
  BY DEF Init, EmVoo
<1>2. IsFiniteSet(EmVoo(n)) /\ Cardinality(EmVoo(n)) = 0
  BY <1>1, FS_EmptySet
<1>3. publicacoes[n] = 0 /\ atrasadas[n] = 0
  BY DEF Init
<1> QED
  BY <1>2, <1>3

\* Nobody else takes off, and no event is added.
LEMMA NinguemDecola ==
  ASSUME TypeOK, TypeOK', EmissaoInv, NEW n \in Nota,
         publicacoes'[n] = publicacoes[n], atrasadas'[n] >= atrasadas[n],
         EmVoo(n)' \subseteq EmVoo(n)
  PROVE  /\ IsFiniteSet(EmVoo(n)')
         /\ publicacoes'[n] + Cardinality(EmVoo(n)') <= 1 + atrasadas'[n]
<1>1. /\ IsFiniteSet(EmVoo(n))
      /\ publicacoes[n] + Cardinality(EmVoo(n)) <= 1 + atrasadas[n]
  BY DEF EmissaoInv
<1>2. /\ IsFiniteSet(EmVoo(n)') /\ Cardinality(EmVoo(n)') <= Cardinality(EmVoo(n))
      /\ Cardinality(EmVoo(n)') \in Nat /\ Cardinality(EmVoo(n)) \in Nat
  BY <1>1, FS_Subset, FS_CardinalityType
<1>3. publicacoes[n] \in Nat /\ atrasadas[n] \in Nat /\ atrasadas'[n] \in Nat
  BY DEF TypeOK
<1> QED
  BY <1>1, <1>2, <1>3

LEMMA PassoEmissao ==
  TypeOK /\ TypeOK' /\ PedidoInv /\ EmissaoInv /\ [Etapa]_vars => EmissaoInv'
<1> SUFFICES ASSUME TypeOK, TypeOK', PedidoInv, EmissaoInv, [Etapa]_vars, NEW n \in Nota
             PROVE  /\ IsFiniteSet(EmVoo(n)')
                    /\ publicacoes'[n] + Cardinality(EmVoo(n)') <= 1 + atrasadas'[n]
  BY DEF EmissaoInv
<1> DEFINE Tese == /\ IsFiniteSet(EmVoo(n)')
                   /\ publicacoes'[n] + Cardinality(EmVoo(n)') <= 1 + atrasadas'[n]
<1>0. /\ IsFiniteSet(EmVoo(n)) /\ Cardinality(EmVoo(n)) \in Nat
      /\ publicacoes[n] + Cardinality(EmVoo(n)) <= 1 + atrasadas[n]
      /\ publicacoes[n] \in Nat /\ atrasadas[n] \in Nat
  BY FS_CardinalityType DEF EmissaoInv, TypeOK
<1> HIDE DEF Tese
<1>1. ASSUME UNCHANGED <<publicacoes, atrasadas>>,
             \A r \in Pedido : pedido'[r] = "atualizado" => pedido[r] = "atualizado"
      PROVE  Tese
  <2>1. EmVoo(n)' \subseteq EmVoo(n) /\ atrasadas'[n] >= atrasadas[n]
    BY <1>0, <1>1 DEF EmVoo
  <2> QED
    BY <1>1, <2>1, NinguemDecola DEF Tese
<1>2. ASSUME NEW r \in Pedido, AtualizarStatus(r)
      PROVE  Tese
  <2>1. /\ publicacoes' = publicacoes /\ Alvo[r] \in Nota
        /\ \A q \in Pedido : q # r => pedido'[q] = pedido[q]
        /\ \/ atrasadas' = atrasadas
           \/ atrasadas' = Mais(atrasadas, Alvo[r])
    BY <1>2, AlvoAssumption DEF AtualizarStatus, TypeOK
  <2>2. CASE n # Alvo[r] \/ pedido'[r] # "atualizado"
    <3>1. EmVoo(n)' \subseteq EmVoo(n)
      BY <2>1, <2>2 DEF EmVoo
    <3>2. atrasadas'[n] \in {atrasadas[n], atrasadas[n] + 1}
      <4>1. atrasadas \in [Nota -> Nat]
        BY DEF TypeOK
      <4> QED
        BY <2>1, <4>1 DEF Mais
    <3>4. atrasadas'[n] >= atrasadas[n]
      BY <1>0, <3>2
    <3> QED
      BY <2>1, <3>1, <3>4, NinguemDecola DEF Tese
  <2>3. CASE n = Alvo[r] /\ pedido'[r] = "atualizado"
    <3>1. EmVoo(n)' \subseteq EmVoo(n) \cup {r}
      BY <2>1 DEF EmVoo
    <3>2. /\ IsFiniteSet(EmVoo(n) \cup {r})
          /\ Cardinality(EmVoo(n) \cup {r}) \in {Cardinality(EmVoo(n)), Cardinality(EmVoo(n)) + 1}
      BY <1>0, FS_AddElement
    <3>3. /\ IsFiniteSet(EmVoo(n)') /\ Cardinality(EmVoo(n)') \in Nat
          /\ Cardinality(EmVoo(n)') <= Cardinality(EmVoo(n)) + 1
      BY <1>0, <3>1, <3>2, FS_Subset, FS_CardinalityType
    <3>4. CASE CanBePrinted(n)
      <4>1. publicacoes[n] = 0
        BY <1>0, <3>4 DEF CanBePrinted, PedidoInv, PublicadaNaoAberta
      <4>2. EmVoo(n) = {}
        BY <3>4 DEF CanBePrinted, PedidoInv, EmVoo
      <4>3. Cardinality(EmVoo(n)) = 0
        BY <4>2, FS_EmptySet
      <4>4. atrasadas' = atrasadas
        BY <1>2, <2>3, <3>4 DEF AtualizarStatus
      <4> QED
        BY <1>0, <2>1, <3>3, <4>1, <4>3, <4>4 DEF Tese
    <3>5. CASE ~CanBePrinted(n)
      <4>1. atrasadas' = Mais(atrasadas, n)
        <5>1. pedido' # [pedido EXCEPT ![r] = "erro"]
          BY <2>3 DEF TypeOK
        <5> QED
          BY <1>2, <2>3, <3>5, <5>1 DEF AtualizarStatus
      <4>2. atrasadas'[n] = atrasadas[n] + 1
        BY <4>1 DEF Mais, TypeOK
      <4> QED
        BY <1>0, <2>1, <3>3, <4>2 DEF Tese
    <3> QED
      BY <3>4, <3>5
  <2> QED
    BY <2>2, <2>3
<1>3. ASSUME NEW r \in Pedido, Publicar(r)
      PROVE  Tese
  <2>1. /\ Alvo[r] \in Nota /\ pedido[r] = "atualizado" /\ atrasadas' = atrasadas
        /\ \A q \in Pedido : q # r => pedido'[q] = pedido[q]
        /\ pedido'[r] # "atualizado"
        /\ publicacoes' \in {publicacoes, Mais(publicacoes, Alvo[r])}
    BY <1>3, AlvoAssumption DEF Publicar, TypeOK
  <2>2. CASE n = Alvo[r]
    <3>1. r \in EmVoo(n) /\ EmVoo(n)' = EmVoo(n) \ {r}
      BY <2>1, <2>2 DEF EmVoo
    <3>2. IsFiniteSet(EmVoo(n)') /\ Cardinality(EmVoo(n)') = Cardinality(EmVoo(n)) - 1
      BY <1>0, <3>1, FS_RemoveElement
    <3>3. publicacoes'[n] \in {publicacoes[n], publicacoes[n] + 1}
      BY <2>1, <2>2 DEF Mais, TypeOK
    <3> QED
      BY <1>0, <2>1, <3>2, <3>3 DEF Tese
  <2>3. CASE n # Alvo[r]
    <3>1. EmVoo(n)' \subseteq EmVoo(n) /\ publicacoes'[n] = publicacoes[n]
      BY <2>1, <2>3 DEF EmVoo, Mais, TypeOK
    <3>2. atrasadas'[n] >= atrasadas[n]
      BY <1>0, <2>1
    <3> QED
      BY <3>1, <3>2, NinguemDecola DEF Tese
  <2> QED
    BY <2>2, <2>3
<1>4. ASSUME Queda
      PROVE  Tese
  <2>1. UNCHANGED <<publicacoes, atrasadas>>
    BY <1>4 DEF Queda
  <2>2. \A r \in Pedido : pedido'[r] = "atualizado" => pedido[r] = "atualizado"
    BY <1>4 DEF Queda
  <2> QED
    BY <1>1, <2>1, <2>2
<1>5. ASSUME \/ \E r \in Pedido : Validar(r)
             \/ \E c \in Consumidor, m \in Nota : Receber(c, m)
             \/ \E c \in Consumidor : Ligar(c) \/ ConexaoCai(c) \/ Aplicar(c)
             \/ \E m \in Nota : EstoqueResponder(m)
             \/ PublicarCompensacao \/ UNCHANGED vars
      PROVE  /\ UNCHANGED <<publicacoes, atrasadas>>
             /\ \A r \in Pedido : pedido'[r] = "atualizado" => pedido[r] = "atualizado"
  BY <1>5 DEF Validar, Receber, Ligar, ConexaoCai, Aplicar, EstoqueResponder,
     PublicarCompensacao, historia, vars, TypeOK
<1>6. Tese
  BY <1>1, <1>2, <1>3, <1>4, <1>5 DEF Etapa, Passo
<1> QED
  BY <1>6 DEF Tese

LEMMA EmissaoCorreta == SpecLivre => []EmissaoInv
  BY InitTipo, PassoTipo, InitPedido, PassoPedido, InitEmissao, PassoEmissao, PTL
  DEF SpecLivre

\* However many requests race for a nota and whatever fails, estoque-api hears of
\* it once, and once more only for a print that wrote over a status it had not
\* read: each event beyond the first has its own late UPDATE.
THEOREM EventosCorretos == SpecLivre => []EventosContados
<1>1. TypeOK /\ EmissaoInv => EventosContados
  <2> SUFFICES ASSUME TypeOK, EmissaoInv, NEW n \in Nota
               PROVE  publicacoes[n] <= 1 + atrasadas[n]
    BY DEF EventosContados
  <2>1. /\ publicacoes[n] + Cardinality(EmVoo(n)) <= 1 + atrasadas[n]
        /\ Cardinality(EmVoo(n)) \in Nat
    BY FS_CardinalityType DEF EmissaoInv
  <2>2. publicacoes[n] \in Nat /\ atrasadas[n] \in Nat
    BY DEF TypeOK
  <2> QED
    BY <2>1, <2>2
<1> QED
  BY TipoCorreto, EmissaoCorreta, <1>1, PTL

\* A request that has not written yet finds the nota Aberta, when each nota is
\* asked for once: no print is late.
UmPedidoPorNota == \A r, q \in Pedido : Alvo[r] = Alvo[q] => r = q

AguardaInv ==
    UmPedidoPorNota =>
        /\ \A r \in Pedido : pedido[r] \in {"novo", "validado"} => status[Alvo[r]] = Aberta
        /\ \A n \in Nota : atrasadas[n] = 0

LEMMA InitAguarda == Init => AguardaInv
  BY AlvoAssumption DEF Init, AguardaInv

LEMMA PassoAguarda ==
  TypeOK /\ PedidoInv /\ ConsumoInv /\ RespondidaInv /\ AguardaInv /\ [Etapa]_vars
  => AguardaInv'
<1> SUFFICES ASSUME TypeOK, PedidoInv, ConsumoInv, RespondidaInv, AguardaInv, [Etapa]_vars,
                    UmPedidoPorNota
             PROVE  AguardaInv'
  BY DEF AguardaInv, UmPedidoPorNota
<1> USE AlvoAssumption DEF TypeOK, AguardaInv
<1>1. CASE /\ status' = status /\ atrasadas' = atrasadas
           /\ \A r \in Pedido : pedido'[r] \in {"novo", "validado"}
                 => pedido[r] \in {"novo", "validado"} \/ status[Alvo[r]] = Aberta
  BY <1>1 DEF UmPedidoPorNota
<1>2. ASSUME NEW r \in Pedido, AtualizarStatus(r)
      PROVE  AguardaInv'
  <2>1. /\ pedido'[r] \notin {"novo", "validado"}
        /\ \A q \in Pedido : q # r => pedido'[q] = pedido[q]
        /\ status' = status \/ status' = [status EXCEPT ![Alvo[r]] = EmProcessamento]
    BY <1>2 DEF AtualizarStatus, UpdateStatus
  <2>2. \A q \in Pedido : q # r => status'[Alvo[q]] = status[Alvo[q]]
    BY <2>1 DEF UmPedidoPorNota
  <2>3. atrasadas' = atrasadas
    BY <1>2 DEF AtualizarStatus, CanBePrinted
  <2> QED
    BY <2>1, <2>2, <2>3
<1>3. ASSUME NEW c \in Consumidor, Aplicar(c)
      PROVE  AguardaInv'
  <2>1. /\ mao[c] \in Nota /\ pedido' = pedido /\ atrasadas' = atrasadas
        /\ \A n \in Nota : n # mao[c] => status'[n] = status[n]
    BY <1>3 DEF Aplicar, UpdateStatus
  <2>2. recebidas[c][mao[c]] > 0 /\ recebidas[c][mao[c]] <= Enviadas(c, mao[c])
    BY <1>3, <2>1 DEF ConsumoInv, Aplicar
  <2>3. publicacoes[mao[c]] > 0
    <3>1. /\ abatidas[mao[c]] \in Nat /\ falhas[mao[c]] \in Nat
          /\ compensacoes[mao[c]] \in Nat /\ erros[mao[c]] \in Nat
          /\ recebidas[c][mao[c]] \in Nat
      BY <2>1
    <3>2. abatidas[mao[c]] > 0 \/ falhas[mao[c]] + compensacoes[mao[c]] > 0 \/ erros[mao[c]] > 0
      BY <2>2, <3>1 DEF Enviadas, Consumidor
    <3> QED
      BY <2>1, <3>1, <3>2 DEF RespondidaInv, CompensacaoInv
  <2>4. status[mao[c]] # Aberta
    BY <2>1, <2>3 DEF PedidoInv, PublicadaNaoAberta
  <2> QED
    BY <2>1, <2>4
<1>4. ASSUME NEW r \in Pedido, Validar(r)
      PROVE  AguardaInv'
  <2>1. /\ status' = status /\ atrasadas' = atrasadas /\ pedido[r] = "novo"
        /\ \A q \in Pedido : q # r => pedido'[q] = pedido[q]
    BY <1>4 DEF Validar, historia
  <2> QED
    BY <1>1, <2>1
<1>5. ASSUME NEW r \in Pedido, Publicar(r)
      PROVE  AguardaInv'
  <2>1. /\ status' = status /\ atrasadas' = atrasadas /\ pedido'[r] \notin {"novo", "validado"}
        /\ \A q \in Pedido : q # r => pedido'[q] = pedido[q]
    BY <1>5 DEF Publicar
  <2> QED
    BY <1>1, <2>1
<1>6. ASSUME Queda
      PROVE  AguardaInv'
  <2>1. /\ status' = status /\ atrasadas' = atrasadas
        /\ \A r \in Pedido : pedido'[r] \in {"novo", "validado"} => pedido'[r] = pedido[r]
    BY <1>6 DEF Queda
  <2> QED
    BY <1>1, <2>1
<1>7. ASSUME \/ \E c \in Consumidor, n \in Nota : Receber(c, n)
             \/ \E c \in Consumidor : Ligar(c) \/ ConexaoCai(c)
             \/ \E n \in Nota : EstoqueResponder(n)
             \/ PublicarCompensacao \/ UNCHANGED vars
      PROVE  UNCHANGED <<status, pedido, atrasadas>>
  BY <1>7 DEF Receber, Ligar, ConexaoCai, EstoqueResponder, PublicarCompensacao, historia, vars
<1> QED
  BY <1>1, <1>2, <1>3, <1>4, <1>5, <1>6, <1>7 DEF Etapa, Passo

\* What the saga needs to know of its side of faturamento-api.
SagaInv == PedidoInv /\ RespondidaInv /\ EventosContados /\ AguardaInv

LEMMA EventoCorreto == SpecLivre => []SagaInv
<1>1. PedidoInv /\ RespondidaInv /\ EventosContados /\ AguardaInv => SagaInv
  BY DEF SagaInv
<1> QED
  BY InitTipo, PassoTipo, InitPedido, PassoPedido, InitConsumo, PassoConsumo, InitRespondida,
     PassoRespondida, EventosCorretos, InitAguarda, PassoAguarda, <1>1, PTL
  DEF SpecLivre
=============================================================================
