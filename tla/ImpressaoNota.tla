---------------------------- MODULE ImpressaoNota ----------------------------
(***************************************************************************)
(* The faturamento-api side of the saga: the print handler, which moves a  *)
(* nota to EmProcessamento and publishes NotaFiscalEmitidaEvent, and the   *)
(* three auto-acknowledging consumers that write the final status, each    *)
(* over an AMQP connection of its own.  What estoque-api answers is an     *)
(* environment action here; module SagaNota replaces it by the real        *)
(* consumer.                                                               *)
(***************************************************************************)
EXTENDS Naturals

CONSTANTS
    Nota,
    Pedido,          \* the POST .../imprimir requests
    Alvo,            \* Alvo[r]: the nota request r asks to print
    JaLigadas,       \* the consumers that are connected before the first request
    Instaveis,       \* the consumers whose connections may drop
    MaxErros,        \* failing calls to SQL Server or RabbitMQ, dropped connections
    MaxQuedas,       \* crashes and shutdowns of faturamento-api
    MaxRespostas     \* answers estoque-api may give to one nota

ASSUME AlvoAssumption == Alvo \in [Pedido -> Nota]

Aberta == "Aberta"
EmProcessamento == "EmProcessamento"
Fechada == "Fechada"
Cancelada == "Cancelada"
Status == {Aberta, EmProcessamento, Fechada, Cancelada}

Nenhuma == "nenhuma"
ASSUME NenhumaAssumption == Nenhuma \notin Nota

\* The goroutines of StartConsuming, named after their queues.
Consumidor == {"confirmacao", "falha", "erro"}
ASSUME LigadasAssumption == JaLigadas \cup Instaveis \subseteq Consumidor

VARIABLES
    status,        \* column status of notas_fiscais
    pedido,        \* step of each request
    publicacoes,   \* NotaFiscalEmitidaEvent in RabbitMQ, ever, of each nota
    abatidas, falhas, erros,  \* answers of estoque-api, ever, of each nota
    compensacoes,  \* AbatimentoEstoqueFalhouEvent sent by the dead-letter consumer
    recebidas,     \* messages each consumer has taken off its queue
    mao,           \* the message each consumer is working on
    compensar,     \* the nota the dead-letter consumer has yet to announce
    conexao,       \* of each consumer: nova (it never connected), ligada or caida
    errosFeitos, quedasFeitas,
    perdidas,      \* history: answers that were sent and never reached the database
    mudas,         \* history: prints that ended without an event
    atrasadas      \* history: prints that wrote over a status other than Aberta

respostaVars == <<abatidas, falhas, erros>>
consumoVars == <<compensacoes, recebidas, mao, compensar, conexao>>
historia == <<perdidas, mudas, atrasadas>>
vars == <<status, pedido, publicacoes, respostaVars, consumoVars, errosFeitos,
          quedasFeitas, historia>>

TypeOK ==
    /\ status \in [Nota -> Status]
    /\ pedido \in [Pedido -> {"novo", "validado", "atualizado", "ok", "erro"}]
    /\ publicacoes \in [Nota -> Nat] /\ compensacoes \in [Nota -> Nat]
    /\ abatidas \in [Nota -> Nat] /\ falhas \in [Nota -> Nat] /\ erros \in [Nota -> Nat]
    /\ recebidas \in [Consumidor -> [Nota -> Nat]]
    /\ mao \in [Consumidor -> Nota \cup {Nenhuma}]
    /\ compensar \in Nota \cup {Nenhuma}
    /\ conexao \in [Consumidor -> {"nova", "ligada", "caida"}]
    /\ errosFeitos \in Nat /\ quedasFeitas \in Nat
    /\ perdidas \in [Nota -> Nat] /\ mudas \in [Nota -> Nat]
    /\ atrasadas \in [Nota -> Nat]

Mais(f, n) == [f EXCEPT ![n] = @ + 1]

\* A request answers; a failing call spends one of MaxErros.
Vai(r, s) == pedido' = [pedido EXCEPT ![r] = s]
SemErro == UNCHANGED errosFeitos
ComErro == errosFeitos < MaxErros /\ errosFeitos' = errosFeitos + 1

Init ==
    /\ status = [n \in Nota |-> Aberta]
    /\ pedido = [r \in Pedido |-> "novo"]
    /\ publicacoes = [n \in Nota |-> 0]
    /\ abatidas = [n \in Nota |-> 0]
    /\ falhas = [n \in Nota |-> 0]
    /\ erros = [n \in Nota |-> 0]
    /\ compensacoes = [n \in Nota |-> 0]
    /\ recebidas = [c \in Consumidor |-> [n \in Nota |-> 0]]
    /\ mao = [c \in Consumidor |-> Nenhuma]
    /\ compensar = Nenhuma
    /\ conexao = [c \in Consumidor |-> IF c \in JaLigadas THEN "ligada" ELSE "nova"]
    /\ errosFeitos = 0 /\ quedasFeitas = 0
    /\ perdidas = [n \in Nota |-> 0]
    /\ mudas = [n \in Nota |-> 0]
    /\ atrasadas = [n \in Nota |-> 0]

-----------------------------------------------------------------------------
(* POST /api/v1/notas-fiscais/{id}/imprimir *)

\* Mutant: a nota that is being processed may be printed again.
MutReimprimir(n) == status[n] \in {Aberta, EmProcessamento}

CanBePrinted(n) == status[n] = Aberta

\* The nota is read and validated; only the copy in memory is changed.
Validar(r) ==
    /\ pedido[r] = "novo"
    /\ \/ CanBePrinted(Alvo[r]) /\ Vai(r, "validado") /\ SemErro
       \/ ~CanBePrinted(Alvo[r]) /\ Vai(r, "erro") /\ SemErro
       \/ Vai(r, "erro") /\ ComErro
    /\ UNCHANGED <<status, publicacoes, respostaVars, consumoVars, quedasFeitas,
                   historia>>

\* UPDATE ... WHERE id = ?, whatever the status has become.
UpdateStatus(n, s) == status' = [status EXCEPT ![n] = s]

\* A failed UPDATE answers 500; it may have been applied all the same.
AtualizarStatus(r) ==
    LET n == Alvo[r] IN
    /\ pedido[r] = "validado"
    /\ \/ /\ UpdateStatus(n, EmProcessamento)
          /\ atrasadas' = IF CanBePrinted(n) THEN atrasadas ELSE Mais(atrasadas, n)
          /\ \/ Vai(r, "atualizado") /\ SemErro /\ UNCHANGED mudas
             \/ Vai(r, "erro") /\ ComErro /\ mudas' = Mais(mudas, n)
       \/ UNCHANGED <<status, atrasadas, mudas>> /\ Vai(r, "erro") /\ ComErro
    /\ UNCHANGED <<publicacoes, respostaVars, consumoVars, quedasFeitas, perdidas>>

\* Mutant: the event is published before the status is written.
MutPublicarAntes(r) ==
    /\ pedido[r] \in {"validado", "atualizado"}
    /\ publicacoes' = Mais(publicacoes, Alvo[r])
    /\ Vai(r, "ok")
    /\ UNCHANGED <<status, respostaVars, consumoVars, errosFeitos, quedasFeitas,
                   historia>>

\* A failed publication answers 500 and leaves the status; without publisher
\* confirms a message may also be lost behind a 200.
Publicar(r) ==
    /\ pedido[r] = "atualizado"
    /\ \/ /\ publicacoes' = Mais(publicacoes, Alvo[r])
          /\ Vai(r, "ok") /\ SemErro /\ UNCHANGED mudas
       \/ /\ UNCHANGED publicacoes /\ mudas' = Mais(mudas, Alvo[r])
          /\ \E s \in {"ok", "erro"} : Vai(r, s)
          /\ ComErro
    /\ UNCHANGED <<status, respostaVars, consumoVars, quedasFeitas, perdidas, atrasadas>>

-----------------------------------------------------------------------------
(* The consumers *)

Enviadas(c, n) ==
    CASE c = "confirmacao" -> abatidas[n]
      [] c = "falha" -> falhas[n] + compensacoes[n]
      [] c = "erro" -> erros[n]

NaFila(c, n) == recebidas[c][n] < Enviadas(c, n)
NasFilas(cs) == {cn \in cs \X Nota : NaFila(cn[1], cn[2])}

\* All the messages of the pairs in ps leave their queues, and those of the notas
\* in ns their consumers, without having reached the database.
Descartar(ps, ns) ==
    /\ recebidas' = [c \in Consumidor |-> [n \in Nota |->
          IF <<c, n>> \in ps THEN Enviadas(c, n) ELSE recebidas[c][n]]]
    /\ perdidas' = [n \in Nota |->
          IF n \in ns \/ \E c \in Consumidor : <<c, n>> \in ps
          THEN perdidas[n] + 1 ELSE perdidas[n]]

\* The goroutine of c is back in its loop, with no message in its hands.
NoLaco(c) == mao[c] = Nenhuma /\ (c = "erro" => compensar = Nenhuma)

\* The queue of dead letters belongs to MassTransit; the other two exist, and are
\* bound to their exchanges, since the first connection of their consumer.
FilaPropria(c) == c # "erro"

\* Mutant: a consumer that lost its connection does not connect again.
MutLigarUmaVez(c) ==
    /\ conexao[c] = "nova" /\ NoLaco(c)
    /\ conexao' = [conexao EXCEPT ![c] = "ligada"]
    /\ Descartar(NasFilas({c} \cap {"confirmacao", "falha"}), {})
    /\ UNCHANGED <<status, pedido, publicacoes, respostaVars, compensacoes, mao,
                   compensar, errosFeitos, quedasFeitas, mudas, atrasadas>>

\* What was published to an exchange before its queue was bound went nowhere.
\* The call to Consume, the last one, may fail after that.
Ligar(c) ==
    /\ conexao[c] # "ligada" /\ NoLaco(c)
    /\ \/ conexao' = [conexao EXCEPT ![c] = "ligada"] /\ SemErro
       \/ conexao' = [conexao EXCEPT ![c] = "caida"] /\ ComErro
    /\ Descartar(IF conexao[c] = "nova" /\ FilaPropria(c) THEN NasFilas({c}) ELSE {}, {})
    /\ UNCHANGED <<status, pedido, publicacoes, respostaVars, compensacoes, mao,
                   compensar, quedasFeitas, mudas, atrasadas>>

\* The channel of deliveries is closed: what the broker had sent and the loop had
\* not taken is dropped, and a message in the consumer's hands is worked on.
ConexaoCai(c) ==
    /\ c \in Instaveis /\ conexao[c] = "ligada" /\ ComErro
    /\ conexao' = [conexao EXCEPT ![c] = "caida"]
    /\ \E ps \in SUBSET NasFilas({c}) : Descartar(ps, {})
    /\ UNCHANGED <<status, pedido, publicacoes, respostaVars, compensacoes, mao,
                   compensar, quedasFeitas, mudas, atrasadas>>

\* Consume(autoAck = true): the broker forgets the message as it delivers it.
Receber(c, n) ==
    /\ conexao[c] = "ligada" /\ NaFila(c, n) /\ NoLaco(c)
    /\ recebidas' = [recebidas EXCEPT ![c][n] = @ + 1]
    /\ mao' = [mao EXCEPT ![c] = n]
    /\ UNCHANGED <<status, pedido, publicacoes, respostaVars, compensacoes,
                   compensar, conexao, errosFeitos, quedasFeitas, historia>>

\* Mutant: the dead-letter consumer writes the status StatusErro.
MutStatusErro(c) == IF c = "erro" THEN "Erro" ELSE IF c = "falha" THEN Cancelada ELSE Fechada

\* Mutant: the failure queue was wired to the status of the confirmation queue.
MutStatusFinal(c) == IF c = "erro" THEN Cancelada ELSE Fechada

\* Mutant: the two statuses are swapped.
MutStatusTrocado(c) == IF c = "confirmacao" THEN Cancelada ELSE Fechada

StatusFinal(c) == IF c = "confirmacao" THEN Fechada ELSE Cancelada

\* Mutant: an answer is applied only while the nota is still Aberta.
MutAplicarSeAberta(c) ==
    LET n == mao[c] IN
    /\ n # Nenhuma
    /\ IF status[n] = Aberta THEN UpdateStatus(n, StatusFinal(c)) ELSE UNCHANGED status
    /\ mao' = [mao EXCEPT ![c] = Nenhuma]
    /\ compensar' = IF c = "erro" THEN n ELSE compensar
    /\ UNCHANGED <<pedido, publicacoes, respostaVars, compensacoes, recebidas, conexao,
                   errosFeitos, quedasFeitas, historia>>

\* updateStatusByIDOrUUID: no check of the present status, and a database error
\* is only logged.
Aplicar(c) ==
    LET n == mao[c] IN
    /\ n # Nenhuma
    /\ \/ UpdateStatus(n, StatusFinal(c)) /\ SemErro /\ UNCHANGED perdidas
       \/ UNCHANGED status /\ ComErro /\ perdidas' = Mais(perdidas, n)
    /\ mao' = [mao EXCEPT ![c] = Nenhuma]
    /\ compensar' = IF c = "erro" THEN n ELSE compensar
    /\ UNCHANGED <<pedido, publicacoes, respostaVars, compensacoes, recebidas, conexao,
                   quedasFeitas, mudas, atrasadas>>

\* publishCompensatoryFailureEvent ignores its errors; its event also comes
\* back on the failure queue.
PublicarCompensacao ==
    /\ compensar # Nenhuma
    /\ \/ compensacoes' = Mais(compensacoes, compensar) /\ SemErro
       \/ UNCHANGED compensacoes /\ ComErro
    /\ compensar' = Nenhuma
    /\ UNCHANGED <<status, pedido, publicacoes, respostaVars, recebidas, mao, conexao,
                   quedasFeitas, historia>>

\* The process dies with its requests, the messages its consumers hold and any
\* others already delivered to it.  A shutdown waits for the requests, for 5
\* seconds, and not for the consumers.
Queda ==
    /\ quedasFeitas < MaxQuedas
    /\ quedasFeitas' = quedasFeitas + 1
    /\ \E ps \in SUBSET NasFilas({c \in Consumidor : conexao[c] = "ligada"}) :
          Descartar(ps, {mao[c] : c \in Consumidor})
    /\ conexao' = [c \in Consumidor |->
          IF conexao[c] = "ligada" THEN "caida" ELSE conexao[c]]
    /\ mudas' = [n \in Nota |->
          IF \E r \in Pedido : Alvo[r] = n /\ pedido[r] = "atualizado"
          THEN mudas[n] + 1 ELSE mudas[n]]
    /\ pedido' = [r \in Pedido |->
          IF pedido[r] \in {"validado", "atualizado"} THEN "erro" ELSE pedido[r]]
    /\ mao' = [c \in Consumidor |-> Nenhuma]
    /\ compensar' = Nenhuma
    /\ UNCHANGED <<status, publicacoes, respostaVars, compensacoes, errosFeitos,
                   atrasadas>>

-----------------------------------------------------------------------------
(* estoque-api, as seen from here *)

Respondidas(n) == abatidas[n] + falhas[n] + erros[n]

\* A published nota gets any of the three answers; redeliveries may repeat an
\* answer or contradict it, and an event may get none.
EstoqueResponder(n) ==
    /\ publicacoes[n] > 0
    /\ \/ abatidas' = Mais(abatidas, n) /\ UNCHANGED <<falhas, erros>>
       \/ falhas' = Mais(falhas, n) /\ UNCHANGED <<abatidas, erros>>
       \/ erros' = Mais(erros, n) /\ UNCHANGED <<abatidas, falhas>>
    /\ UNCHANGED <<status, pedido, publicacoes, consumoVars, errosFeitos,
                   quedasFeitas, historia>>

Passo ==
    \/ \E r \in Pedido : Validar(r) \/ AtualizarStatus(r)
    \/ \E c \in Consumidor, n \in Nota : Receber(c, n)
    \/ \E c \in Consumidor : Ligar(c) \/ ConexaoCai(c) \/ Aplicar(c)
    \/ PublicarCompensacao
    \/ Queda

Etapa ==
    \/ Passo
    \/ \E r \in Pedido : Publicar(r)
    \/ \E n \in Nota : EstoqueResponder(n)

\* Any number of answers: what the proofs are about.
SpecLivre == Init /\ [][Etapa]_vars

Next ==
    \/ Passo
    \/ \E r \in Pedido : Publicar(r)
    \/ \E n \in Nota : Respondidas(n) < MaxRespostas /\ EstoqueResponder(n)

Spec == Init /\ [][Next]_vars

-----------------------------------------------------------------------------
(* Safety *)

\* An event that left for estoque-api is of a nota that is no longer Aberta, so
\* the same nota cannot be printed by a later request, whatever failed.
PublicadaNaoAberta == \A n \in Nota : publicacoes[n] > 0 => status[n] # Aberta

\* A final status was announced by an answer of that kind, never by a guess of
\* the handler or by the answer of another nota.
StatusJustificado ==
    \A n \in Nota :
        /\ status[n] = Fechada => recebidas["confirmacao"][n] > 0
        /\ status[n] = Cancelada => recebidas["falha"][n] + recebidas["erro"][n] > 0

\* One event a nota, and one more for each print that wrote over a status it had
\* not read: the requests that race for the same nota publish nothing else.
EventosContados == \A n \in Nota : publicacoes[n] <= 1 + atrasadas[n]

\* Nobody works on n any more, and estoque-api has answered.
Quieta(n) ==
    /\ \A r \in Pedido : Alvo[r] = n => pedido[r] \in {"novo", "ok", "erro"}
    /\ \A c \in Consumidor : ~NaFila(c, n) /\ mao[c] # n
    /\ Respondidas(n) > 0

\* The only ways an answered nota stays EmProcessamento for ever: an answer lost
\* after its delivery or before its queue was ever bound, or a second print that
\* wrote over a status it had not read.
PresaTemCausa ==
    \A n \in Nota :
        Quieta(n) /\ status[n] = EmProcessamento => perdidas[n] + atrasadas[n] > 0

\* The handler moves to EmProcessamento only a nota whose status is Aberta.
SoAbertaEhImpressa ==
    [][\A n \in Nota : status'[n] = EmProcessamento /\ status[n] # EmProcessamento
          => status[n] = Aberta]_vars
=============================================================================
