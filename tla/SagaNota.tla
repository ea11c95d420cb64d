------------------------------ MODULE SagaNota ------------------------------
(***************************************************************************)
(* The saga: faturamento-api (ImpressaoNota) and estoque-api               *)
(* (AbatimentoEstoque) joined by RabbitMQ.  A publication of the print     *)
(* handler is a message in the queue of the stock consumer, and an answer  *)
(* of that consumer is a message in the queues of faturamento-api.         *)
(***************************************************************************)
EXTENDS AbatimentoEstoque

CONSTANTS
    Pedido, Alvo,    \* the print requests and the nota of each
    JaLigadas,       \* the consumers of faturamento-api connected from the start
    Instaveis,       \* those whose connections may drop
    MaxErros,        \* failing calls of faturamento-api
    MaxReinicios     \* crashes of faturamento-api

ASSUME PedidosAssumption == Alvo \in [Pedido -> Nota]

VARIABLES
    status, pedido, compensacoes, recebidas, mao, compensar, conexao,
    errosFeitos, reinicios, perdidas, mudas, atrasadas   \* as in ImpressaoNota

estoqueVars == vars
faturamentoVars == <<status, pedido, compensacoes, recebidas, mao, compensar, conexao,
                     errosFeitos, reinicios, perdidas, mudas, atrasadas>>
sagaVars == <<estoqueVars, faturamentoVars>>

\* Both AbatimentoEstoqueFalhouEvent of estoque-api go to one exchange.
Falhas == [n \in Nota |-> recusas[n] + desistencias[n]]

\* No bound on the answers: SagaNota never takes the bounded environment step.
F == INSTANCE ImpressaoNota
     WITH publicacoes <- emissoes, falhas <- Falhas, quedasFeitas <- reinicios,
          MaxQuedas <- MaxReinicios, MaxRespostas <- 0

ASSUME ConsumidoresAssumption == JaLigadas \cup Instaveis \subseteq F!Consumidor

SagaTypeOK == TypeOK /\ F!TypeOK

SagaInit == Init /\ F!Init

\* Mutant: the event is sent again while the request goes on.
MutReenviar(r) == Emitir(Alvo[r]) /\ UNCHANGED faturamentoVars

\* The event leaves for the queue of the stock consumer, or is lost on the way.
PublicarEmitida(r) ==
    /\ \/ Emitir(Alvo[r])
       \/ UNCHANGED estoqueVars
    /\ F!Publicar(r)

PassoFaturamento == UNCHANGED estoqueVars /\ F!Passo

PassoEstoque == Consumo /\ UNCHANGED faturamentoVars

SagaNext ==
    \/ \E r \in Pedido : PublicarEmitida(r)
    \/ PassoFaturamento
    \/ PassoEstoque

SagaSpec == SagaInit /\ [][SagaNext]_sagaVars

\* Requests in progress run on, the broker delivers and the goroutines consume.
SagaFairness ==
    /\ \A w \in Trabalhador : WF_sagaVars(Passo(w) /\ UNCHANGED faturamentoVars)
    /\ WF_sagaVars(/\ \E w \in Trabalhador, n \in Nota : Receber(w, n)
                   /\ UNCHANGED faturamentoVars)
    /\ \A r \in Pedido :
          WF_sagaVars(\/ PublicarEmitida(r)
                      \/ UNCHANGED estoqueVars /\ F!AtualizarStatus(r))
    /\ \A c \in F!Consumidor :
          WF_sagaVars(/\ UNCHANGED estoqueVars
                      /\ \/ F!Ligar(c) \/ F!Aplicar(c)
                         \/ \E n \in Nota : F!Receber(c, n))
    /\ WF_sagaVars(UNCHANGED estoqueVars /\ F!PublicarCompensacao)

FairSagaSpec == SagaSpec /\ SagaFairness

-----------------------------------------------------------------------------
(* Safety *)

\* A nota shown as Fechada was debited by a committed transaction, whatever
\* failed, crashed or was delivered twice on either side.
FechadaTemDebito == \A n \in Nota : status[n] = F!Fechada => debitos[n] > 0

\* Nothing about n is in a queue, a worker, a consumer or a request.
Parada(n) ==
    /\ Assentada(n) /\ emissoes[n] > 0
    /\ \A r \in Pedido : Alvo[r] = n => pedido[r] \in {"novo", "ok", "erro"}
    /\ \A c \in F!Consumidor : ~F!NaFila(c, n) /\ mao[c] # n

\* A nota that stays EmProcessamento for ever, though its event was published
\* and no answer was lost on the way back, was debited and its answer is the
\* one the duplicate check silenced.
PresaFoiDebitada ==
    \A n \in Nota :
        Parada(n) /\ status[n] = F!EmProcessamento
            /\ perdidas[n] + atrasadas[n] = 0
        => n \in idem /\ debitos[n] > 0

\* A nota is debited once, and never if it is Cancelada; each debit too many took
\* a late print, a failing call or a crash of estoque-api of its own.
DebitoContado ==
    \A n \in Nota :
        debitos[n] + (IF status[n] = F!Cancelada THEN 1 ELSE 0)
            <= 1 + atrasadas[n] + falhas + quedas

\* A final status changes only by a second print that wrote over it, or once a crash
\* of estoque-api or a publication that threw after its effect let it answer twice:
\* no other failing call, in any number, makes it take its answer back.
StatusFinalEstavel ==
    [][\A n \in Nota :
          status[n] \in {F!Fechada, F!Cancelada} /\ status'[n] # status[n]
          => atrasadas'[n] > 0 \/ quedas > 0 \/ incertas[n] > 0]_sagaVars

-----------------------------------------------------------------------------
(* Refinement and liveness *)

\* The stock consumer, with its answers, is an environment ImpressaoNota allows.
ImplementaImpressao == F!SpecLivre

Debitadas == {n \in Nota : debitos[n] > 0}

Ciclo == INSTANCE CicloDaNota WITH debitadas <- Debitadas

\* With one print of each nota and no failure on the side of estoque-api but lock
\* waits that time out, the saga implements the life cycle of a nota, even if
\* faturamento-api fails and crashes.
ImplementaCiclo == Ciclo!Spec

\* With no failure on the side of estoque-api but lock waits that time out, every
\* printed nota is in the end Fechada or Cancelada, unless faturamento-api failed
\* before it published the event or after it took the answer off the queue.
TodaNotaTermina ==
    \A n \in Nota :
        status[n] = F!EmProcessamento
        ~> status[n] \in {F!Fechada, F!Cancelada} \/ mudas[n] + perdidas[n] > 0
=============================================================================
