--------------------------- MODULE SagaNota_proofs ---------------------------
(***************************************************************************)
(* Proofs about SagaNota: the saga is an execution of each of its two      *)
(* services, so what was proved of each holds of the whole.                *)
(***************************************************************************)
EXTENDS SagaNota, AbatimentoEstoque_proofs

\* The theorems about faturamento-api, for the variables of the saga.
FP == INSTANCE ImpressaoNota_proofs
     WITH publicacoes <- emissoes, falhas <- Falhas, quedasFeitas <- reinicios,
          MaxQuedas <- MaxReinicios, MaxRespostas <- 0

LEMMA FatoresDeF ==
  /\ Alvo \in [Pedido -> Nota]
  /\ FP!Nenhuma \notin Nota
  /\ JaLigadas \cup Instaveis \subseteq FP!Consumidor
  BY PedidosAssumption, MarcasAssumption, ConsumidoresAssumption
  DEF Nenhuma, FP!Nenhuma, F!Consumidor, FP!Consumidor

LEMMA MesmaEspecificacao == F!SpecLivre <=> FP!SpecLivre
  BY DEF
      F!Etapa, FP!Etapa, F!Passo, FP!Passo, F!Validar, FP!Validar,
      F!AtualizarStatus, FP!AtualizarStatus, F!Publicar, FP!Publicar, F!NaFila,
      FP!NaFila, F!NasFilas, FP!NasFilas, F!Descartar, FP!Descartar, F!NoLaco,
      FP!NoLaco, F!FilaPropria, FP!FilaPropria, F!Ligar, FP!Ligar, F!ConexaoCai,
      FP!ConexaoCai, F!Enviadas, FP!Enviadas, F!Receber, FP!Receber, F!StatusFinal,
      FP!StatusFinal, F!Aplicar, FP!Aplicar, F!PublicarCompensacao,
      FP!PublicarCompensacao, F!Queda, FP!Queda, F!EstoqueResponder,
      FP!EstoqueResponder, F!Mais, FP!Mais, F!Vai, FP!Vai, F!SemErro, FP!SemErro,
      F!ComErro, FP!ComErro, F!CanBePrinted, FP!CanBePrinted, F!UpdateStatus,
      FP!UpdateStatus, F!Aberta, FP!Aberta, F!EmProcessamento, FP!EmProcessamento,
      F!Fechada, FP!Fechada, F!Cancelada, FP!Cancelada, F!Nenhuma, FP!Nenhuma,
      F!Consumidor, FP!Consumidor, F!respostaVars, FP!respostaVars, F!consumoVars,
      FP!consumoVars, F!historia, FP!historia, F!vars, FP!vars, F!Init, FP!Init,
      F!SpecLivre, FP!SpecLivre

-----------------------------------------------------------------------------
(* The saga implements the stock consumer *)

\* Every step of the saga is a step of estoque-api or leaves it alone.
THEOREM ImplementaEstoque == SagaSpec => Spec
<1>1. SagaInit => Init
  BY DEF SagaInit
<1>2. [SagaNext]_sagaVars => [Next]_vars
  BY PedidosAssumption DEF SagaNext, Next, PublicarEmitida, PassoFaturamento,
     PassoEstoque, estoqueVars, sagaVars
<1> QED
  BY <1>1, <1>2, PTL DEF SagaSpec, Spec

-----------------------------------------------------------------------------
(* The saga implements faturamento-api *)

\* A message in the queue or in a worker was published.
EmitidaInv ==
    /\ \A n \in Nota : fila[n] > 0 => emissoes[n] > 0
    /\ \A w \in Trabalhador : nota[w] # Nenhuma => emissoes[nota[w]] > 0

LEMMA InitEmitida == Init => EmitidaInv
  BY DEF Init, EmitidaInv

LEMMA PassoEmitida == TypeOK /\ EmitidaInv /\ [Next]_vars => EmitidaInv'
<1> SUFFICES ASSUME TypeOK, EmitidaInv, [Next]_vars
             PROVE  EmitidaInv'
  OBVIOUS
<1> USE MarcasAssumption
    DEF TypeOK, FilaTipo, LocalTipo, EmitidaInv
<1>1. ASSUME NEW n \in Nota, Emitir(n)
      PROVE  EmitidaInv'
  <2>1. /\ \A m \in Nota : emissoes'[m] = IF m = n THEN emissoes[m] + 1 ELSE emissoes[m]
        /\ \A m \in Nota : m # n => fila'[m] = fila[m]
    BY <1>1 DEF Emitir
  <2>2. nota' = nota
    BY <1>1 DEF Emitir, localVars
  <2>3. \A m \in Nota : emissoes[m] \in Nat /\ fila[m] \in Nat
    OBVIOUS
  <2>4. \A m \in Nota : emissoes[m] > 0 \/ m = n => emissoes'[m] > 0
    BY <2>1, <2>3
  <2>5. \A m \in Nota : fila'[m] > 0 => emissoes'[m] > 0
    BY <2>1, <2>4
  <2>6. \A w \in Trabalhador : nota'[w] # Nenhuma => emissoes'[nota'[w]] > 0
    BY <2>2, <2>4
  <2> QED
    BY <2>5, <2>6
<1>2. ASSUME NEW w \in Trabalhador, NEW n \in Nota, Receber(w, n)
      PROVE  EmitidaInv'
  <2>1. emissoes' = emissoes /\ emissoes[n] > 0
    BY <1>2 DEF Receber
  <2>2. \A m \in Nota : fila'[m] > 0 => fila[m] > 0
    BY <1>2 DEF Receber
  <2>3. \A v \in Trabalhador : nota'[v] = IF v = w THEN n ELSE nota[v]
    BY <1>2 DEF Receber
  <2> QED
    BY <2>1, <2>2, <2>3
<1>3. ASSUME NEW w \in Trabalhador, Queda(w)
      PROVE  EmitidaInv'
  <2>1. emissoes' = emissoes /\ nota[w] \in Nota
    BY <1>3 DEF Queda
  <2>2. \A m \in Nota : m # nota[w] => fila'[m] = fila[m]
    BY <1>3, <2>1 DEF Queda
  <2>3. \A v \in Trabalhador : nota'[v] = IF v = w THEN Nenhuma ELSE nota[v]
    BY <1>3 DEF Queda, SoltarNota
  <2> QED
    BY <2>1, <2>2, <2>3
<1>4. ASSUME NEW w \in Trabalhador, Reconhecer(w) \/ MoverParaErro(w)
      PROVE  EmitidaInv'
  <2>1. emissoes' = emissoes /\ fila' = fila
    BY <1>4 DEF Reconhecer, MoverParaErro, FimDaTentativa
  <2>2. \A v \in Trabalhador : nota'[v] = IF v = w THEN Nenhuma ELSE nota[v]
    BY <1>4 DEF Reconhecer, MoverParaErro, SoltarNota
  <2> QED
    BY <2>1, <2>2
<1>5. CASE UNCHANGED <<fila, emissoes, nota>>
  BY <1>5
<1>6. ASSUME NEW w \in Trabalhador, Passo(w)
      PROVE  EmitidaInv'
  <2>1. CASE Reconhecer(w) \/ MoverParaErro(w)
    BY <1>4, <2>1
  <2>2. CASE ~(Reconhecer(w) \/ MoverParaErro(w))
    <3>1. UNCHANGED <<fila, emissoes, nota>>
      BY <1>6, <2>2 DEF Passo, VerificarIdempotencia, AdquirirTrava, ComTodasAsTravas,
         LerProduto, PublicarRecusa, Commit, AtualizarCache, SalvarIdempotencia,
         PublicarAbatida, Relancar, PublicarDesistencia, LiberarTrava, TentarDeNovo,
         FimDaTentativa, filaVars, localVars, respostas
    <3> QED
      BY <3>1, <1>5
  <2> QED
    BY <2>1, <2>2
<1>7. ASSUME Ambiente
      PROVE  EmitidaInv'
  <2>1. CASE \E w \in Trabalhador : Queda(w)
    BY <1>3, <2>1
  <2>2. CASE ~\E w \in Trabalhador : Queda(w)
    <3>1. UNCHANGED <<fila, emissoes, nota>>
      BY <1>7, <2>2 DEF Ambiente, FalhaInfra, EsperaEsgotada, PerderTrava, filaVars, localVars
    <3> QED
      BY <3>1, <1>5
  <2> QED
    BY <2>1, <2>2
<1>8. ASSUME NEW p \in Produto, Expirar(p)
      PROVE  EmitidaInv'
  BY <1>5, <1>8 DEF Expirar, filaVars, localVars
<1>9. CASE UNCHANGED vars
  BY <1>5, <1>9 DEF vars, filaVars, localVars
<1> QED
  BY <1>1, <1>2, <1>6, <1>7, <1>8, <1>9 DEF Next, Consumo

LEMMA EmitidaCorreta == Spec => []EmitidaInv
  BY TipoCorreto, InitEmitida, PassoEmitida, PTL DEF Spec

\* A step of the stock consumer gives a published nota one answer, or none.
LEMMA RespostaDeUmPasso ==
  ASSUME TypeOK, EmitidaInv, Consumo
  PROVE  \/ UNCHANGED <<emissoes, abatidas, recusas, desistencias, erros>>
         \/ \E n \in Nota : emissoes[n] > 0 /\ emissoes' = emissoes /\
              \/ /\ abatidas' = [abatidas EXCEPT ![n] = @ + 1]
                 /\ UNCHANGED <<recusas, desistencias, erros>>
              \/ /\ recusas' = [recusas EXCEPT ![n] = @ + 1]
                 /\ UNCHANGED <<abatidas, desistencias, erros>>
              \/ /\ desistencias' = [desistencias EXCEPT ![n] = @ + 1]
                 /\ UNCHANGED <<abatidas, recusas, erros>>
              \/ /\ erros' = [erros EXCEPT ![n] = @ + 1]
                 /\ UNCHANGED <<abatidas, recusas, desistencias>>
<1> DEFINE NadaMuda == UNCHANGED <<emissoes, abatidas, recusas, desistencias, erros>>
<1>0. ASSUME NEW w \in Trabalhador, pc[w] # "ocioso"
      PROVE  nota[w] \in Nota /\ emissoes[nota[w]] > 0
  BY <1>0 DEF TypeOK, LocalTipo, EmitidaInv
<1>1. ASSUME NEW w \in Trabalhador, PublicarRecusa(w)
      PROVE  \/ NadaMuda
             \/ /\ emissoes' = emissoes /\ nota[w] \in Nota /\ emissoes[nota[w]] > 0
                /\ recusas' = [recusas EXCEPT ![nota[w]] = @ + 1]
                /\ UNCHANGED <<abatidas, desistencias, erros>>
  BY <1>0, <1>1 DEF PublicarRecusa
<1>2. ASSUME NEW w \in Trabalhador, PublicarDesistencia(w)
      PROVE  \/ NadaMuda
             \/ /\ emissoes' = emissoes /\ nota[w] \in Nota /\ emissoes[nota[w]] > 0
                /\ desistencias' = [desistencias EXCEPT ![nota[w]] = @ + 1]
                /\ UNCHANGED <<abatidas, recusas, erros>>
  BY <1>0, <1>2 DEF PublicarDesistencia
<1>3. ASSUME NEW w \in Trabalhador, PublicarAbatida(w)
      PROVE  /\ emissoes' = emissoes /\ nota[w] \in Nota /\ emissoes[nota[w]] > 0
             /\ abatidas' = [abatidas EXCEPT ![nota[w]] = @ + 1]
             /\ UNCHANGED <<recusas, desistencias, erros>>
  BY <1>0, <1>3 DEF PublicarAbatida
<1>4. ASSUME NEW w \in Trabalhador, MoverParaErro(w)
      PROVE  /\ emissoes' = emissoes /\ nota[w] \in Nota /\ emissoes[nota[w]] > 0
             /\ erros' = [erros EXCEPT ![nota[w]] = @ + 1]
             /\ UNCHANGED <<abatidas, recusas, desistencias>>
  BY <1>0, <1>4 DEF MoverParaErro, FimDaTentativa, respostas
<1>5. ASSUME NEW w \in Trabalhador, Passo(w), ~PublicarRecusa(w),
             ~PublicarDesistencia(w), ~PublicarAbatida(w), ~MoverParaErro(w)
      PROVE  NadaMuda
  BY <1>5 DEF Passo, VerificarIdempotencia, AdquirirTrava, ComTodasAsTravas,
     LerProduto, Commit, AtualizarCache, SalvarIdempotencia, Relancar, LiberarTrava,
     Reconhecer, TentarDeNovo, FimDaTentativa, filaVars, respostas
<1>6. ASSUME NEW w \in Trabalhador, NEW n \in Nota, Receber(w, n)
      PROVE  NadaMuda
  BY <1>6 DEF Receber, respostas
<1>7. ASSUME NEW p \in Produto, Expirar(p)
      PROVE  NadaMuda
  BY <1>7 DEF Expirar, filaVars
<1>8. ASSUME Ambiente
      PROVE  NadaMuda
  BY <1>8 DEF Ambiente, FalhaInfra, Queda, EsperaEsgotada, PerderTrava, filaVars, respostas
<1>9. ASSUME NEW w \in Trabalhador, Passo(w)
      PROVE  \/ NadaMuda
             \/ \E n \in Nota : emissoes[n] > 0 /\ emissoes' = emissoes /\
                  \/ /\ abatidas' = [abatidas EXCEPT ![n] = @ + 1]
                     /\ UNCHANGED <<recusas, desistencias, erros>>
                  \/ /\ recusas' = [recusas EXCEPT ![n] = @ + 1]
                     /\ UNCHANGED <<abatidas, desistencias, erros>>
                  \/ /\ desistencias' = [desistencias EXCEPT ![n] = @ + 1]
                     /\ UNCHANGED <<abatidas, recusas, erros>>
                  \/ /\ erros' = [erros EXCEPT ![n] = @ + 1]
                     /\ UNCHANGED <<abatidas, recusas, desistencias>>
  <2> HIDE DEF NadaMuda
  <2> QED
    BY <1>1, <1>2, <1>3, <1>4, <1>5, <1>9
<1> HIDE DEF NadaMuda
<1>10. \/ NadaMuda
       \/ \E n \in Nota : emissoes[n] > 0 /\ emissoes' = emissoes /\
              \/ /\ abatidas' = [abatidas EXCEPT ![n] = @ + 1]
                 /\ UNCHANGED <<recusas, desistencias, erros>>
              \/ /\ recusas' = [recusas EXCEPT ![n] = @ + 1]
                 /\ UNCHANGED <<abatidas, desistencias, erros>>
              \/ /\ desistencias' = [desistencias EXCEPT ![n] = @ + 1]
                 /\ UNCHANGED <<abatidas, recusas, erros>>
              \/ /\ erros' = [erros EXCEPT ![n] = @ + 1]
                 /\ UNCHANGED <<abatidas, recusas, desistencias>>
  BY <1>6, <1>7, <1>8, <1>9 DEF Consumo
<1> QED
  BY <1>10 DEF NadaMuda

\* A step of the stock consumer is an answer ImpressaoNota expects.
LEMMA ConsumoResponde ==
  ASSUME TypeOK, EmitidaInv, PassoEstoque
  PROVE  [F!Etapa]_F!vars
<1>1. UNCHANGED faturamentoVars
  BY DEF PassoEstoque
<1>2. CASE UNCHANGED <<emissoes, abatidas, recusas, desistencias, erros>>
  BY <1>1, <1>2 DEF F!vars, F!respostaVars, F!consumoVars, F!historia, Falhas, faturamentoVars
<1>3. ASSUME NEW n \in Nota, emissoes[n] > 0, emissoes' = emissoes,
             abatidas' = [abatidas EXCEPT ![n] = @ + 1],
             UNCHANGED <<recusas, desistencias, erros>>
      PROVE  F!EstoqueResponder(n)
  BY <1>1, <1>3 DEF F!EstoqueResponder, F!Mais, Falhas, faturamentoVars, F!consumoVars, F!historia
<1>4. ASSUME NEW n \in Nota, emissoes[n] > 0, emissoes' = emissoes,
             erros' = [erros EXCEPT ![n] = @ + 1],
             UNCHANGED <<abatidas, recusas, desistencias>>
      PROVE  F!EstoqueResponder(n)
  BY <1>1, <1>4 DEF F!EstoqueResponder, F!Mais, Falhas, faturamentoVars, F!consumoVars, F!historia
<1>5. ASSUME NEW n \in Nota, emissoes[n] > 0, emissoes' = emissoes,
             \/ recusas' = [recusas EXCEPT ![n] = @ + 1] /\ UNCHANGED desistencias
             \/ desistencias' = [desistencias EXCEPT ![n] = @ + 1] /\ UNCHANGED recusas,
             UNCHANGED <<abatidas, erros>>
      PROVE  F!EstoqueResponder(n)
  <2>1. recusas \in [Nota -> Nat] /\ desistencias \in [Nota -> Nat]
    BY DEF TypeOK, FilaTipo
  <2>2. \A m \in Nota : recusas'[m] + desistencias'[m] =
           IF m = n THEN recusas[m] + desistencias[m] + 1 ELSE recusas[m] + desistencias[m]
    BY <1>5, <2>1
  <2>3. [m \in Nota |-> recusas'[m] + desistencias'[m]] =
           [[m \in Nota |-> recusas[m] + desistencias[m]] EXCEPT ![n] = @ + 1]
    BY <2>2
  <2>4. Falhas' = F!Mais(Falhas, n)
    BY <2>3 DEF Falhas, F!Mais
  <2> QED
    BY <1>1, <1>5, <2>4 DEF F!EstoqueResponder, faturamentoVars, F!consumoVars, F!historia
<1> QED
  BY <1>2, <1>3, <1>4, <1>5, RespostaDeUmPasso DEF PassoEstoque, F!Etapa

\* The environment ImpressaoNota assumes is what estoque-api does: the saga is
\* an execution of faturamento-api.
THEOREM ImplementaFaturamento == SagaSpec => ImplementaImpressao
<1>1. SagaInit => F!Init
  BY DEF SagaInit
<1>2. TypeOK /\ EmitidaInv /\ [SagaNext]_sagaVars => [F!Etapa]_F!vars
  <2>1. ASSUME NEW r \in Pedido, PublicarEmitida(r)
        PROVE  F!Etapa
    BY <2>1 DEF PublicarEmitida, F!Etapa
  <2>2. ASSUME PassoFaturamento
        PROVE  F!Etapa
    BY <2>2 DEF PassoFaturamento, F!Etapa
  <2>3. ASSUME UNCHANGED sagaVars
        PROVE  UNCHANGED F!vars
    BY <2>3 DEF sagaVars, estoqueVars, vars, filaVars, faturamentoVars, F!vars,
       F!respostaVars, F!consumoVars, F!historia, Falhas
  <2> QED
    BY <2>1, <2>2, <2>3, ConsumoResponde DEF SagaNext
<1>3. SagaSpec => [](TypeOK /\ EmitidaInv)
  BY ImplementaEstoque, TipoCorreto, EmitidaCorreta, PTL
<1> QED
  BY <1>1, <1>2, <1>3, PTL DEF SagaSpec, ImplementaImpressao, F!SpecLivre

-----------------------------------------------------------------------------
(* Fechada means debited *)

\* The status Fechada comes from a delivered confirmation, a confirmation is
\* delivered only if it was published, and it is published only after a debit.
THEOREM FechadaCorreta == SagaSpec => []FechadaTemDebito
<1>1. SagaSpec => []FP!StatusJustificado
  BY ImplementaFaturamento, MesmaEspecificacao, FatoresDeF, FP!StatusCorreto, PTL
  DEF ImplementaImpressao
<1>2. SagaSpec => []FP!ConsumoInv
  BY ImplementaFaturamento, MesmaEspecificacao, FatoresDeF, FP!ConsumoCorreto, PTL
  DEF ImplementaImpressao
<1>3. SagaSpec => []AbatidaTemDebito
  BY ImplementaEstoque, RespostaCorreta, PTL
<1>4. SagaSpec => [](TypeOK /\ FP!TypeOK)
  BY ImplementaEstoque, TipoCorreto, ImplementaFaturamento, MesmaEspecificacao,
     FatoresDeF, FP!TipoCorreto, PTL
  DEF ImplementaImpressao
<1>5. TypeOK /\ FP!TypeOK /\ FP!StatusJustificado /\ FP!ConsumoInv /\ AbatidaTemDebito
      => FechadaTemDebito
  <2> SUFFICES ASSUME TypeOK, FP!TypeOK, FP!StatusJustificado, FP!ConsumoInv,
                      AbatidaTemDebito, NEW n \in Nota, status[n] = F!Fechada
               PROVE  debitos[n] > 0
    BY DEF FechadaTemDebito
  <2>1. recebidas["confirmacao"][n] > 0
    BY DEF FP!StatusJustificado, FP!Fechada, F!Fechada
  <2>2. recebidas["confirmacao"][n] <= abatidas[n]
    BY DEF FP!ConsumoInv, FP!Consumidor, FP!Enviadas
  <2>3. abatidas[n] \in Nat /\ recebidas["confirmacao"][n] \in Nat
    BY DEF TypeOK, FilaTipo, FP!TypeOK, FP!Consumidor
  <2>4. abatidas[n] > 0
    BY <2>1, <2>2, <2>3
  <2> QED
    BY <2>4 DEF AbatidaTemDebito
<1> QED
  BY <1>1, <1>2, <1>3, <1>4, <1>5, PTL

-----------------------------------------------------------------------------
(* What a nota that stays EmProcessamento hides *)

\* A nota nobody works on any more, whose answers all arrived, is EmProcessamento
\* only if there was no answer; and estoque-api is silent only of a nota whose
\* key it saved, after the debit.
THEOREM PresaDebitadaCorreta == SagaSpec => []PresaFoiDebitada
<1>1. SagaSpec => []FP!PresaTemCausa
  BY ImplementaFaturamento, MesmaEspecificacao, FatoresDeF, FP!PresaCorreta, PTL
  DEF ImplementaImpressao
<1>2. SagaSpec => [](SilencioSoDeDuplicata /\ AbatidaTemDebito /\ TypeOK)
  BY ImplementaEstoque, SilencioCorreto, RespostaCorreta, TipoCorreto, PTL
<1>3. FP!PresaTemCausa /\ SilencioSoDeDuplicata /\ AbatidaTemDebito /\ TypeOK => PresaFoiDebitada
  <2> SUFFICES ASSUME FP!PresaTemCausa, SilencioSoDeDuplicata, AbatidaTemDebito, TypeOK,
                      NEW n \in Nota, Parada(n), status[n] = F!EmProcessamento,
                      perdidas[n] + atrasadas[n] = 0
               PROVE  n \in idem /\ debitos[n] > 0
    BY DEF PresaFoiDebitada
  <2>1. ~FP!Quieta(n)
    BY DEF FP!PresaTemCausa, FP!EmProcessamento, F!EmProcessamento
  <2>2. ~(FP!Respondidas(n) > 0)
    BY <2>1 DEF Parada, FP!Quieta, FP!NaFila, F!NaFila, FP!Consumidor, F!Consumidor,
       FP!Enviadas, F!Enviadas
  <2>3. /\ abatidas[n] \in Nat /\ recusas[n] \in Nat
        /\ desistencias[n] \in Nat /\ erros[n] \in Nat
    BY DEF TypeOK, FilaTipo
  <2>4. abatidas[n] + recusas[n] + desistencias[n] + erros[n] = 0
    BY <2>2, <2>3 DEF FP!Respondidas, Falhas
  <2>5. n \in idem
    BY <2>4 DEF SilencioSoDeDuplicata, Parada
  <2> QED
    BY <2>5 DEF AbatidaTemDebito
<1> QED
  BY <1>1, <1>2, <1>3, PTL
=============================================================================
