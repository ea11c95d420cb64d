--------------------------- MODULE SagaCiclo_proofs ---------------------------
(***************************************************************************)
(* Proofs about the status of a nota in SagaNota: what is known of each    *)
(* service meets here, in the steps that write a status or a balance.      *)
(***************************************************************************)
EXTENDS SagaNota_proofs, AbatimentoContagem_proofs

EstoqueBom == TypeOK /\ RespostasContadas /\ DecisoesContadas /\ AbatidaTemDebito

FaturamentoBom ==
    FP!TypeOK /\ FP!ConsumoInv /\ FP!StatusJustificado /\ FP!SagaInv

LEMMA EstoqueSempreBom == SagaSpec => []EstoqueBom
  BY ImplementaEstoque, TipoCorreto, RespostasCorretas, DecisoesCorretas,
     RespostaCorreta, PTL DEF EstoqueBom

LEMMA FaturamentoSempreBom == SagaSpec => []FaturamentoBom
  BY ImplementaFaturamento, MesmaEspecificacao, FatoresDeF, FP!TipoCorreto,
     FP!ConsumoCorreto, FP!StatusCorreto, FP!EventoCorreto, PTL
  DEF ImplementaImpressao, FaturamentoBom

\* The counters of both services, as numbers.
LEMMA Contadores ==
  ASSUME EstoqueBom, FaturamentoBom, NEW n \in Nota
  PROVE  /\ emissoes[n] \in Nat /\ abatidas[n] \in Nat /\ recusas[n] \in Nat
         /\ desistencias[n] \in Nat /\ erros[n] \in Nat /\ debitos[n] \in Nat
         /\ compensacoes[n] \in Nat /\ atrasadas[n] \in Nat
         /\ Falhas[n] = recusas[n] + desistencias[n]
         /\ \A c \in FP!Consumidor : recebidas[c][n] \in Nat
  BY DEF EstoqueBom, FaturamentoBom, TypeOK, FilaTipo, DbTipo, FP!TypeOK, Falhas

\* What can be known of n from a message sent to the consumers.
Confirmou(n) == abatidas[n] > 0
Negou(n) == recusas[n] + desistencias[n] + erros[n] > 0

LEMMA StatusVemDaResposta ==
  ASSUME EstoqueBom, FaturamentoBom, NEW n \in Nota
  PROVE  /\ status[n] = F!Fechada => Confirmou(n)
         /\ status[n] = F!Cancelada => Negou(n)
<1>1. recebidas["confirmacao"][n] <= abatidas[n]
  BY DEF FaturamentoBom, FP!ConsumoInv, FP!Consumidor, FP!Enviadas
<1>2. recebidas["falha"][n] <= Falhas[n] + compensacoes[n]
  BY DEF FaturamentoBom, FP!ConsumoInv, FP!Consumidor, FP!Enviadas
<1>3. recebidas["erro"][n] <= erros[n]
  BY DEF FaturamentoBom, FP!ConsumoInv, FP!Consumidor, FP!Enviadas
<1>4. /\ status[n] = F!Fechada => recebidas["confirmacao"][n] > 0
      /\ status[n] = F!Cancelada => recebidas["falha"][n] + recebidas["erro"][n] > 0
  BY DEF FaturamentoBom, FP!StatusJustificado, FP!Fechada, FP!Cancelada, F!Fechada, F!Cancelada
<1>5. compensacoes[n] > 0 => erros[n] > 0
  BY DEF FaturamentoBom, FP!SagaInv, FP!RespondidaInv, FP!CompensacaoInv
<1>6. \A c \in {"confirmacao", "falha", "erro"} : recebidas[c][n] \in Nat
  BY Contadores DEF FP!Consumidor
<1> QED
  BY <1>1, <1>2, <1>3, <1>4, <1>5, <1>6, Contadores DEF Confirmou, Negou

\* The message a consumer works on was sent.
LEMMA MaoVemDaResposta ==
  ASSUME EstoqueBom, FaturamentoBom, NEW c \in F!Consumidor, NEW n \in Nota, mao[c] = n
  PROVE  IF c = "confirmacao" THEN Confirmou(n) ELSE Negou(n)
<1>1. c \in {"confirmacao", "falha", "erro"} /\ n # Nenhuma /\ Nenhuma = FP!Nenhuma
  BY MarcasAssumption DEF F!Consumidor, Nenhuma, FP!Nenhuma
<1>2. recebidas[c][n] > 0 /\ recebidas[c][n] <= FP!Enviadas(c, n)
  BY <1>1 DEF FaturamentoBom, FP!ConsumoInv, FP!Consumidor
<1>3. recebidas[c][n] \in Nat
  BY <1>1, Contadores DEF FP!Consumidor
<1>4. compensacoes[n] > 0 => erros[n] > 0
  BY DEF FaturamentoBom, FP!SagaInv, FP!RespondidaInv, FP!CompensacaoInv
<1>5. CASE c = "confirmacao"
  <2>1. FP!Enviadas(c, n) = abatidas[n]
    BY <1>5 DEF FP!Enviadas
  <2> QED
    BY <1>2, <1>3, <1>5, <2>1, Contadores DEF Confirmou
<1>6. CASE c = "falha"
  <2>1. FP!Enviadas(c, n) = Falhas[n] + compensacoes[n]
    BY <1>6 DEF FP!Enviadas
  <2> QED
    BY <1>2, <1>3, <1>4, <1>6, <2>1, Contadores DEF Negou
<1>7. CASE c = "erro"
  <2>1. FP!Enviadas(c, n) = erros[n]
    BY <1>7 DEF FP!Enviadas
  <2> QED
    BY <1>2, <1>3, <1>7, <2>1, Contadores DEF Negou
<1> QED
  BY <1>1, <1>5, <1>6, <1>7

\* An answered nota is no longer Aberta.
LEMMA RespondidaNaoAberta ==
  ASSUME FaturamentoBom, NEW n \in Nota, emissoes[n] > 0
  PROVE  status[n] # F!Aberta
BY DEF FaturamentoBom, FP!SagaInv, FP!PedidoInv, FP!PublicadaNaoAberta, FP!Aberta, F!Aberta

-----------------------------------------------------------------------------
(* A final status stays *)

\* Without a late print the stock consumer sees one event of n, and without a
\* crash of its process or an uncertain publication it answers it once.
LEMMA UmaSoResposta ==
  ASSUME EstoqueBom, FaturamentoBom, NEW n \in Nota, quedas = 0, incertas[n] = 0,
         atrasadas[n] = 0
  PROVE  ~(Confirmou(n) /\ Negou(n))
<1>1. emissoes[n] <= 1
  BY DEF FaturamentoBom, FP!SagaInv, FP!EventosContados
<1>2. abatidas[n] + recusas[n] + desistencias[n] + erros[n] <= emissoes[n]
  BY Contadores DEF EstoqueBom, RespostasContadas
<1> QED
  BY <1>1, <1>2, Contadores DEF Confirmou, Negou

\* A final status changes only by a second print that had read it as Aberta or
\* by the contradictory answers of a stock consumer that crashed, or that did not
\* know whether it had answered.
THEOREM StatusEstavelCorreto == SagaSpec => StatusFinalEstavel
<1> DEFINE Estavel == \A n \in Nota :
              status[n] \in {F!Fechada, F!Cancelada} /\ status'[n] # status[n]
              => atrasadas'[n] > 0 \/ quedas > 0 \/ incertas[n] > 0
<1>1. EstoqueBom /\ FaturamentoBom /\ SagaNext => Estavel
  <2> SUFFICES ASSUME EstoqueBom, FaturamentoBom, SagaNext, NEW n \in Nota,
                      status[n] \in {F!Fechada, F!Cancelada}, status'[n] # status[n],
                      ~(quedas > 0), ~(incertas[n] > 0)
               PROVE  atrasadas'[n] > 0
    OBVIOUS
  <2>1. quedas = 0 /\ incertas[n] = 0
    BY DEF EstoqueBom, TypeOK, LimiteTipo, FilaTipo
  <2>2. atrasadas \in [Nota -> Nat] /\ status \in [Nota -> F!Status]
    BY DEF FaturamentoBom, FP!TypeOK, FP!Status, F!Status, FP!Aberta, FP!EmProcessamento,
       FP!Fechada, FP!Cancelada, F!Aberta, F!EmProcessamento, F!Fechada, F!Cancelada
  <2>3. ASSUME NEW r \in Pedido, F!AtualizarStatus(r)
        PROVE  atrasadas'[n] > 0
    <3>1. Alvo[r] = n /\ status'[n] = F!EmProcessamento
      BY <2>2, <2>3 DEF F!AtualizarStatus, F!UpdateStatus
    <3>2. ~F!CanBePrinted(n)
      BY DEF F!CanBePrinted, F!Aberta, F!Fechada, F!Cancelada
    <3>3. atrasadas' = [atrasadas EXCEPT ![n] = @ + 1]
      BY <2>3, <3>1, <3>2 DEF F!AtualizarStatus, F!Mais
    <3> QED
      BY <2>2, <3>3
  <2>4. ASSUME NEW c \in F!Consumidor, F!Aplicar(c)
        PROVE  atrasadas'[n] > 0
    <3>1. mao[c] = n /\ status'[n] = F!StatusFinal(c) /\ atrasadas' = atrasadas
      BY <2>2, <2>4 DEF F!Aplicar, F!UpdateStatus
    <3>2. IF c = "confirmacao" THEN Confirmou(n) ELSE Negou(n)
      BY <3>1, MaoVemDaResposta
    <3>3. IF c = "confirmacao" THEN Negou(n) ELSE Confirmou(n)
      BY <3>1, StatusVemDaResposta DEF F!StatusFinal
    <3>4. ~(atrasadas[n] = 0)
      BY <2>1, <3>2, <3>3, UmaSoResposta
    <3> QED
      BY <2>2, <3>1, <3>4
  <2>5. ASSUME NEW r \in Pedido, PublicarEmitida(r)
        PROVE  FALSE
    BY <2>5 DEF PublicarEmitida, F!Publicar
  <2>6. ASSUME PassoEstoque
        PROVE  FALSE
    BY <2>6 DEF PassoEstoque, faturamentoVars
  <2>7. ASSUME F!Passo, \A r \in Pedido : ~F!AtualizarStatus(r),
               \A c \in F!Consumidor : ~F!Aplicar(c)
        PROVE  FALSE
    BY <2>7 DEF F!Passo, F!Validar, F!Receber, F!Ligar, F!ConexaoCai,
       F!PublicarCompensacao, F!Queda
  <2> QED
    BY <2>3, <2>4, <2>5, <2>6, <2>7 DEF SagaNext, PassoFaturamento
<1>2. SagaSpec => [][SagaNext]_sagaVars
  BY DEF SagaSpec
<1> HIDE DEF Estavel
<1>3. EstoqueBom /\ FaturamentoBom /\ [SagaNext]_sagaVars => [Estavel]_sagaVars
  BY <1>1
<1>4. SagaSpec => [][Estavel]_sagaVars
  BY <1>2, <1>3, EstoqueSempreBom, FaturamentoSempreBom, PTL
<1> USE DEF Estavel
<1> QED
  BY <1>4 DEF StatusFinalEstavel

-----------------------------------------------------------------------------
(* Debits, counted *)

\* However many requests race, calls fail, processes die and locks are lost, a
\* nota is debited once and never if it is Cancelada, but for one debit for each
\* late print, failing call or crash: an event is a print of its own, a decision
\* an event of its own, and a Cancelada nota has had a decision against it.
THEOREM DebitoContadoCorreto == SagaSpec => []DebitoContado
<1>1. EstoqueBom /\ FaturamentoBom => DebitoContado
  <2> SUFFICES ASSUME EstoqueBom, FaturamentoBom, NEW n \in Nota
               PROVE  debitos[n] + (IF status[n] = F!Cancelada THEN 1 ELSE 0)
                         <= 1 + atrasadas[n] + falhas + quedas
    BY DEF DebitoContado
  <2>1. emissoes[n] <= 1 + atrasadas[n]
    BY DEF FaturamentoBom, FP!SagaInv, FP!EventosContados
  <2>2. debitos[n] + recusas[n] + desistencias[n] + erros[n] <= emissoes[n] + falhas + quedas
    BY DEF EstoqueBom, DecisoesContadas
  <2>3. status[n] = F!Cancelada => recusas[n] + desistencias[n] + erros[n] > 0
    BY StatusVemDaResposta DEF Negou
  <2>4. falhas \in Nat /\ quedas \in Nat
    BY DEF EstoqueBom, TypeOK, LimiteTipo
  <2> QED
    BY <2>1, <2>2, <2>3, <2>4, Contadores
<1> QED
  BY EstoqueSempreBom, FaturamentoSempreBom, <1>1, PTL

-----------------------------------------------------------------------------
(* The life cycle *)

SemFalhasNoEstoque == MaxFalhas = 0 /\ MaxQuedas = 0 /\ MaxPerdas = 0

FalhasNoLimite == falhas <= MaxFalhas /\ quedas <= MaxQuedas

\* A step of the stock consumer fails or crashes once at most, within the limit.
LEMMA PassoFalhas == TipoInv /\ FalhasNoLimite /\ [Next]_vars => FalhasNoLimite'
<1> SUFFICES ASSUME falhas \in Nat, quedas \in Nat, FalhasNoLimite, [Next]_vars
             PROVE  FalhasNoLimite'
  BY DEF TipoInv, TypeOK, LimiteTipo
<1> DEFINE Conta == /\ falhas' = falhas \/ ComFalha
                    /\ quedas' = quedas \/ (quedas < MaxQuedas /\ quedas' = quedas + 1)
<1>1. ASSUME NEW w \in Trabalhador, Passo(w)
      PROVE  Conta
  BY <1>1 DEF Passo, VerificarIdempotencia, AdquirirTrava, ComTodasAsTravas, LerProduto,
     PublicarRecusa, Commit, AtualizarCache, SetProdutoCache, SalvarIdempotencia,
     PublicarAbatida, Relancar, PublicarDesistencia, LiberarTrava, Reconhecer,
     TentarDeNovo, MoverParaErro, FimDaTentativa, SoltarNota, SemFalha, Publica, limites
<1>2. ASSUME NEW w \in Trabalhador, NEW n \in Nota, Receber(w, n)
      PROVE  Conta
  BY <1>2 DEF Receber, limites
<1>3. ASSUME Ambiente
      PROVE  Conta
  BY <1>3 DEF Ambiente, FalhaInfra, Queda, EsperaEsgotada, PerderTrava, limites
<1>4. ASSUME NEW p \in Produto, Expirar(p)
      PROVE  Conta
  BY <1>4 DEF Expirar, limites
<1>5. ASSUME NEW n \in Nota, Emitir(n)
      PROVE  Conta
  BY <1>5 DEF Emitir, limites
<1>6. ASSUME UNCHANGED vars
      PROVE  Conta
  BY <1>6 DEF vars, limites
<1>7. Conta
  <2> HIDE DEF Conta
  <2> QED
    BY <1>1, <1>2, <1>3, <1>4, <1>5, <1>6 DEF Next, Consumo
<1> QED
  BY <1>7, LimitesAssumption DEF FalhasNoLimite, ComFalha

\* All that is known of the saga when the stock consumer does not fail.
CicloInv ==
    /\ EstoqueBom /\ FaturamentoBom
    /\ TipoInv /\ PassoInv /\ SaldoInv /\ RespostaInv
    /\ SemFalhas

LEMMA CicloSempreBom == SemFalhasNoEstoque => (SagaSpec => []CicloInv)
<1> SUFFICES ASSUME SemFalhasNoEstoque
             PROVE  SagaSpec => []CicloInv
  OBVIOUS
<1>1. Init => PerdasNoLimite /\ FalhasNoLimite
  BY LimitesAssumption DEF Init, PerdasNoLimite, FalhasNoLimite
<1>2. TipoInv /\ PerdasNoLimite /\ FalhasNoLimite => SemFalhas
  BY DEF TipoInv, TypeOK, LimiteTipo, PerdasNoLimite, FalhasNoLimite, SemFalhas,
     SemFalhasNoEstoque
<1>3. Spec => [](TipoInv /\ PassoInv /\ SaldoInv /\ RespostaInv /\ SemFalhas)
  BY InitTipo, PassoTipo, InitPasso, PassoPasso, InitExclusao, PassoExclusao,
     InitSaldo, PassoSaldo, InitResposta, PassoResposta, PassoPerdas, PassoFalhas,
     <1>1, <1>2, PTL DEF Spec
<1> QED
  BY <1>3, ImplementaEstoque, EstoqueSempreBom, FaturamentoSempreBom, PTL DEF CicloInv

\* One event, one decision: what was debited is never refused, and a nota that
\* was decided is not Aberta.
Decidida(n) ==
    /\ Confirmou(n) => debitos[n] > 0
    /\ debitos[n] > 0 => debitos[n] = 1 /\ ~Negou(n)
    /\ debitos[n] > 0 \/ Negou(n) => status[n] # F!Aberta
    /\ status[n] = F!Fechada => debitos[n] > 0
    /\ status[n] = F!Cancelada => Negou(n)

CicloDecidido == \A n \in Nota : Decidida(n)

LEMMA UmaSoDecisao == CicloInv /\ FP!UmPedidoPorNota => CicloDecidido
<1> SUFFICES ASSUME CicloInv, FP!UmPedidoPorNota, NEW n \in Nota
             PROVE  Decidida(n)
  BY DEF CicloDecidido
<1>1. emissoes[n] <= 1
  BY DEF CicloInv, FaturamentoBom, FP!SagaInv, FP!EventosContados, FP!AguardaInv
<1>2. debitos[n] + recusas[n] + desistencias[n] + erros[n] <= emissoes[n]
  BY Contadores DEF CicloInv, EstoqueBom, DecisoesContadas, SemFalhas
<1>3. Confirmou(n) => debitos[n] > 0
  BY DEF CicloInv, EstoqueBom, AbatidaTemDebito, Confirmou
<1>4. /\ emissoes[n] \in Nat /\ recusas[n] \in Nat /\ desistencias[n] \in Nat
      /\ erros[n] \in Nat /\ debitos[n] \in Nat
  BY Contadores DEF CicloInv
<1>5. debitos[n] > 0 \/ Negou(n) => emissoes[n] > 0
  BY <1>2, <1>4 DEF Negou
<1>6. debitos[n] > 0 \/ Negou(n) => status[n] # F!Aberta
  BY <1>5, RespondidaNaoAberta DEF CicloInv
<1>7. debitos[n] > 0 => debitos[n] = 1 /\ ~Negou(n)
  BY <1>1, <1>2, <1>4 DEF Negou
<1> QED
  BY <1>3, <1>6, <1>7, StatusVemDaResposta DEF Decidida, CicloInv

\* A step of the stock consumer debits a nota that waits for it, or changes
\* nothing a client can see.
LEMMA EstoqueNoCiclo ==
  ASSUME CicloInv, CicloDecidido, CicloDecidido', PassoEstoque
  PROVE  [Ciclo!Next]_(Ciclo!vars)
<1>1. status' = status
  BY DEF PassoEstoque, faturamentoVars
<1>2. [Atomico!Next]_(Atomico!vars)
  BY PassoAtomico DEF CicloInv, PassoEstoque, SemFalhas, Next
<1>3. CASE UNCHANGED <<saldo, debitos>>
  BY <1>1, <1>3 DEF Ciclo!vars, Debitadas
<1>4. ASSUME NEW n \in Nota, Atomico!Debitar(n)
      PROVE  Ciclo!Debitar(n)
  <2>1. debitos \in [Nota -> Nat] /\ debitos' = [debitos EXCEPT ![n] = @ + 1]
    BY <1>4 DEF Atomico!Debitar, CicloInv, TipoInv, TypeOK, DbTipo
  <2>2. debitos'[n] = debitos[n] + 1 /\ debitos[n] \in Nat
    BY <2>1
  <2>3. debitos'[n] > 0
    BY <2>2
  <2>4. debitos'[n] = 1 /\ ~Negou(n)' /\ status'[n] # F!Aberta
    BY <2>3 DEF CicloDecidido, Decidida
  <2>5. debitos[n] = 0
    BY <2>2, <2>4
  <2>6. status[n] \in {F!Aberta, F!EmProcessamento, F!Fechada, F!Cancelada}
    BY DEF CicloInv, FaturamentoBom, FP!TypeOK, FP!Status, FP!Aberta, FP!EmProcessamento,
       FP!Fechada, FP!Cancelada, F!Aberta, F!EmProcessamento, F!Fechada, F!Cancelada
  <2>7. status[n] # F!Fechada
    BY <2>5 DEF CicloDecidido, Decidida
  <2>8. status'[n] # F!Cancelada
    BY <2>4 DEF CicloDecidido, Decidida
  <2>9. status[n] = "EmProcessamento"
    BY <1>1, <2>4, <2>6, <2>7, <2>8 DEF F!EmProcessamento
  <2>10. n \notin Debitadas /\ Debitadas' = Debitadas \cup {n}
    BY <2>1, <2>3, <2>5 DEF Debitadas
  <2> QED
    BY <1>1, <1>4, <2>9, <2>10 DEF Ciclo!Debitar, Atomico!Debitar, Atomico!Suficiente
<1> QED
  BY <1>2, <1>3, <1>4 DEF Atomico!Next, Atomico!vars, Ciclo!Next, Atomico!Confirmar, Atomico!Recusar

\* A step of faturamento-api writes the status the life cycle allows, or none.
LEMMA FaturamentoNoCiclo ==
  ASSUME CicloInv, CicloDecidido, FP!UmPedidoPorNota, UNCHANGED estoqueVars,
         F!Passo \/ \E r \in Pedido : F!Publicar(r)
  PROVE  [Ciclo!Next]_(Ciclo!vars)
<1>1. saldo' = saldo /\ Debitadas' = Debitadas
  BY DEF estoqueVars, vars, dbVars, Debitadas
<1>2. CASE status' = status
  BY <1>1, <1>2 DEF Ciclo!vars
<1>3. ASSUME NEW n \in Nota, status[n] = "Aberta",
             status' = [status EXCEPT ![n] = "EmProcessamento"]
      PROVE  Ciclo!Next
  BY <1>1, <1>3 DEF Ciclo!Next, Ciclo!Imprimir
<1>4. ASSUME NEW r \in Pedido, F!AtualizarStatus(r)
      PROVE  [Ciclo!Next]_(Ciclo!vars)
  <2>1. Alvo[r] \in Nota
    BY PedidosAssumption
  <2>2. status[Alvo[r]] = "Aberta"
    BY <1>4 DEF F!AtualizarStatus, CicloInv, FaturamentoBom, FP!SagaInv, FP!AguardaInv,
       FP!Aberta
  <2>3. \/ status' = status
        \/ status' = [status EXCEPT ![Alvo[r]] = "EmProcessamento"]
    BY <1>4 DEF F!AtualizarStatus, F!UpdateStatus, F!EmProcessamento
  <2> QED
    BY <1>2, <1>3, <2>1, <2>2, <2>3
<1>5. ASSUME NEW c \in F!Consumidor, F!Aplicar(c)
      PROVE  [Ciclo!Next]_(Ciclo!vars)
  <2>1. PICK n \in Nota : mao[c] = n
    BY <1>5 DEF F!Aplicar, CicloInv, FaturamentoBom, FP!TypeOK, F!Nenhuma, FP!Nenhuma,
       F!Consumidor, FP!Consumidor
  <2>2. IF c = "confirmacao" THEN Confirmou(n) ELSE Negou(n)
    BY <2>1, MaoVemDaResposta DEF CicloInv
  <2>3. IF c = "confirmacao" THEN n \in Debitadas ELSE n \notin Debitadas
    BY <2>2, UmaSoDecisao DEF CicloDecidido, Decidida, Debitadas
  <2>4. status' = status \/ status' = [status EXCEPT ![n] = F!StatusFinal(c)]
    BY <1>5, <2>1 DEF F!Aplicar, F!UpdateStatus
  <2>5. status[n] \in {F!EmProcessamento, F!StatusFinal(c)}
    <3>1. status \in [Nota -> {F!Aberta, F!EmProcessamento, F!Fechada, F!Cancelada}]
      BY DEF CicloInv, FaturamentoBom, FP!TypeOK, FP!Status, FP!Aberta, FP!EmProcessamento,
         FP!Fechada, FP!Cancelada, F!Aberta, F!EmProcessamento, F!Fechada, F!Cancelada
    <3>2. Decidida(n)
      BY DEF CicloDecidido
    <3> QED
      BY <2>2, <3>1, <3>2 DEF Decidida, F!StatusFinal
  <2>6. CASE status[n] = F!StatusFinal(c)
    <3>1. status' = status
      BY <2>4, <2>6 DEF CicloInv, FaturamentoBom, FP!TypeOK
    <3> QED
      BY <1>2, <3>1
  <2>7. CASE status[n] = F!EmProcessamento /\ status' # status
    <3>1. Ciclo!Fechar(n) \/ Ciclo!Cancelar(n)
      BY <1>1, <2>3, <2>4, <2>7 DEF Ciclo!Fechar, Ciclo!Cancelar, F!EmProcessamento,
         F!StatusFinal, F!Fechada, F!Cancelada
    <3> QED
      BY <3>1 DEF Ciclo!Next
  <2> QED
    BY <1>2, <2>5, <2>6, <2>7
<1>6. ASSUME F!Passo, \A r \in Pedido : ~F!AtualizarStatus(r),
             \A c \in F!Consumidor : ~F!Aplicar(c)
      PROVE  status' = status
  BY <1>6 DEF F!Passo, F!Validar, F!Receber, F!Ligar, F!ConexaoCai,
     F!PublicarCompensacao, F!Queda
<1>7. ASSUME NEW r \in Pedido, F!Publicar(r)
      PROVE  status' = status
  BY <1>7 DEF F!Publicar
<1> QED
  BY <1>2, <1>4, <1>5, <1>6, <1>7

\* The event leaves for the stock consumer: no client sees it.
LEMMA EmissaoNoCiclo ==
  ASSUME NEW r \in Pedido, PublicarEmitida(r)
  PROVE  UNCHANGED Ciclo!vars
BY DEF PublicarEmitida, F!Publicar, Emitir, dbVars, estoqueVars, vars, Debitadas, Ciclo!vars

\* With one print of each nota and a stock consumer whose calls, processes and
\* locks do not fail, each nota is printed once, debited whole and then Fechada,
\* or Cancelada and never debited, whatever fails in faturamento-api.
THEOREM CicloCorreto ==
  SemFalhasNoEstoque /\ FP!UmPedidoPorNota => (SagaSpec => ImplementaCiclo)
<1> SUFFICES ASSUME SemFalhasNoEstoque, FP!UmPedidoPorNota
             PROVE  SagaSpec => ImplementaCiclo
  OBVIOUS
<1>1. SagaInit => Ciclo!Init
  BY DEF SagaInit, Init, F!Init, F!Aberta, Debitadas, Ciclo!Init
<1>2. CicloInv /\ CicloDecidido /\ CicloDecidido' /\ [SagaNext]_sagaVars
      => [Ciclo!Next]_(Ciclo!vars)
  <2> SUFFICES ASSUME CicloInv, CicloDecidido, CicloDecidido', [SagaNext]_sagaVars
               PROVE  [Ciclo!Next]_(Ciclo!vars)
    OBVIOUS
  <2>1. CASE UNCHANGED sagaVars
    BY <2>1 DEF sagaVars, estoqueVars, vars, dbVars, faturamentoVars, Debitadas, Ciclo!vars
  <2> QED
    BY <2>1, EmissaoNoCiclo, FaturamentoNoCiclo, EstoqueNoCiclo
    DEF SagaNext, PassoFaturamento
<1>3. SagaSpec => [](CicloInv /\ CicloDecidido)
  BY CicloSempreBom, UmaSoDecisao, PTL
<1> QED
  BY <1>1, <1>2, <1>3, PTL DEF SagaSpec, ImplementaCiclo, Ciclo!Spec
=============================================================================
