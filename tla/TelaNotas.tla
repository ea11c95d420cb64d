------------------------------ MODULE TelaNotas ------------------------------
(***************************************************************************)
(* What one operator sees: the list of notas of the Angular frontend, fed  *)
(* by three unordered sources, namely the HTTP answers of the print        *)
(* requests, the HTTP answers of the loads and the SignalR pushes of the   *)
(* gateway, over the faturamento-api of ImpressaoNota.                     *)
(*                                                                         *)
(* The list is its first page without a filter.  A push is known to the    *)
(* browser by its kind, its nota and its correlation id: that of the event *)
(* for a Fault, which is pushed twice, and for the compensating event of   *)
(* its dead letter; a new one for the answers of estoque-api.              *)
(***************************************************************************)
EXTENDS ImpressaoNota, Sequences

CONSTANTS
    DaTela,           \* the requests of this operator; the others are of other ones
    Carga,            \* the loads that may be in progress at once
    MaxAberturas,     \* loads started by the operator
    MaxDesconexoes    \* drops of the SignalR connection

ASSUME DaTelaAssumption == DaTela \subseteq Pedido

Ausente == "ausente"      \* a nota not loaded yet; also: nothing announced yet
\* A load that is not in progress, and one that has not read the database yet.
Parada == [n \in Nota |-> "parada"]
Pedida == [n \in Nota |-> "pedida"]

VARIABLES
    tela,           \* signal notasFiscais: the status shown of each nota
    envio,          \* each print request: not sent, on its way, answered
    imprimindo,     \* imprimindoId
    cargas,         \* each load: parada, pedida, or the statuses it has read
    recargas,       \* setTimeout of 300 ms still to fire
    conectado,      \* state of the hub connection
    notificadas,    \* messages of each origin the gateway has pushed
    canal,          \* pushes on their way to this browser, in order
    processados,    \* processedEvents: keys of the last 3 seconds
    aberturas, desconexoes,
    avisada,        \* history: the last status a push announced
    cegas,          \* history: notas of which a push did not reach this browser
    antigas         \* history: notas with an HTTP answer shown over a newer push

telaHistoria == <<avisada, cegas, antigas>>
httpVars == <<envio, imprimindo, cargas, recargas, aberturas>>
sinalVars == <<conectado, notificadas, canal, processados, desconexoes>>
servidorVars == vars
telaVars == <<servidorVars, tela, httpVars, sinalVars, telaHistoria>>

Final == {Fechada, Cancelada}
\* What the gateway announces: answers, compensating events and Faults.
Origem == {"confirmacao", "falha", "compensacao", "erro"}
Chave == Origem \X Nota \X Nat

TelaTypeOK ==
    /\ tela \in [Nota -> Status \cup {Ausente}]
    /\ envio \in [DaTela -> {"nao", "ida", "volta"}]
    /\ imprimindo \in Nota \cup {Nenhuma}
    /\ cargas \in [Carga -> {Parada, Pedida} \cup [Nota -> Status]]
    /\ recargas \in Nat /\ aberturas \in Nat /\ desconexoes \in Nat
    /\ conectado \in BOOLEAN
    /\ notificadas \in [Origem -> [Nota -> Nat]]
    /\ canal \in Seq([nota : Nota, status : Final, chave : Chave])
    /\ processados \subseteq Chave
    /\ avisada \in [Nota -> Final \cup {Ausente}]
    /\ cegas \subseteq Nota /\ antigas \subseteq Nota

TelaInit ==
    /\ Init
    /\ tela = [n \in Nota |-> Ausente]
    /\ envio = [r \in DaTela |-> "nao"] /\ imprimindo = Nenhuma
    /\ cargas = [k \in Carga |-> Parada] /\ recargas = 0 /\ aberturas = 0
    /\ conectado = FALSE /\ desconexoes = 0
    /\ notificadas = [o \in Origem |-> [n \in Nota |-> 0]]
    /\ canal = <<>> /\ processados = {}
    /\ avisada = [n \in Nota |-> Ausente]
    /\ cegas = {} /\ antigas = {}

-----------------------------------------------------------------------------
(* The list *)

\* The nota shows s, if it is in the list.
AtualizarStatusNota(n, s) ==
    tela' = IF tela[n] = Ausente THEN tela ELSE [tela EXCEPT ![n] = s]

\* The list becomes novo because of an HTTP answer.
NotarAntigas(novo) ==
    antigas' = antigas \cup {n \in Nota :
        avisada[n] # Ausente /\ novo[n] \notin {tela[n], avisada[n]}}

NovaCarga == \E k \in Carga :
    cargas[k] = Parada /\ cargas' = [cargas EXCEPT ![k] = Pedida]

\* The component is opened, or the operator pages, filters or creates a nota.
CarregarNotas ==
    /\ aberturas < MaxAberturas /\ aberturas' = aberturas + 1
    /\ NovaCarga
    /\ UNCHANGED <<servidorVars, tela, envio, imprimindo, recargas, sinalVars,
                   telaHistoria>>

\* The 300 ms after a push are over.
Recarregar ==
    /\ recargas > 0 /\ recargas' = recargas - 1
    /\ NovaCarga
    /\ UNCHANGED <<servidorVars, tela, envio, imprimindo, aberturas, sinalVars,
                   telaHistoria>>

LerBanco(k) ==
    /\ cargas[k] = Pedida
    /\ cargas' = [cargas EXCEPT ![k] = status]
    /\ UNCHANGED <<servidorVars, tela, envio, imprimindo, recargas, aberturas,
                   sinalVars, telaHistoria>>

\* Answers are applied in the order they arrive: no load cancels another.
AplicarCarga(k) ==
    /\ cargas[k] \notin {Parada, Pedida}
    /\ tela' = cargas[k]
    /\ NotarAntigas(cargas[k])
    /\ cargas' = [cargas EXCEPT ![k] = Parada]
    /\ UNCHANGED <<servidorVars, envio, imprimindo, recargas, aberturas, sinalVars,
                   avisada, cegas>>

FalharCarga(k) ==
    /\ cargas[k] # Parada /\ ComErro
    /\ cargas' = [cargas EXCEPT ![k] = Parada]
    /\ UNCHANGED <<status, pedido, publicacoes, respostaVars, consumoVars,
                   quedasFeitas, historia, tela, envio, imprimindo, recargas,
                   aberturas, sinalVars, telaHistoria>>

-----------------------------------------------------------------------------
(* The print button *)

\* The button is enabled on a nota shown as Aberta; the status is changed on the
\* screen before the request leaves.
Imprimir(r) ==
    LET n == Alvo[r] IN
    /\ envio[r] = "nao" /\ tela[n] = Aberta /\ imprimindo # n
    /\ imprimindo' = n
    /\ AtualizarStatusNota(n, EmProcessamento)
    /\ envio' = [envio EXCEPT ![r] = "ida"]
    /\ UNCHANGED <<servidorVars, cargas, recargas, aberturas, sinalVars,
                   telaHistoria>>

\* Mutant: a failed request shows a status of its own.
MutMostrarErro(r) ==
    /\ envio[r] = "ida" /\ pedido[r] = "erro"
    /\ tela' = [tela EXCEPT ![Alvo[r]] = "Erro"]
    /\ imprimindo' = Nenhuma
    /\ envio' = [envio EXCEPT ![r] = "volta"]
    /\ UNCHANGED <<servidorVars, cargas, recargas, aberturas, sinalVars,
                   telaHistoria>>

\* A success shows EmProcessamento again, whatever was pushed in between.
RespostaOk(r) ==
    LET n == Alvo[r] IN
    /\ envio[r] = "ida" /\ pedido[r] = "ok"
    /\ AtualizarStatusNota(n, EmProcessamento)
    /\ NotarAntigas(tela')
    /\ imprimindo' = Nenhuma
    /\ envio' = [envio EXCEPT ![r] = "volta"]
    /\ UNCHANGED <<servidorVars, cargas, recargas, aberturas, sinalVars,
                   avisada, cegas>>

\* An error, of the server or of the network, leaves the list as it is.
RespostaErro(r) ==
    /\ envio[r] = "ida"
    /\ \/ pedido[r] = "erro" /\ SemErro
       \/ ComErro
    /\ imprimindo' = Nenhuma
    /\ envio' = [envio EXCEPT ![r] = "volta"]
    /\ UNCHANGED <<status, pedido, publicacoes, respostaVars, consumoVars,
                   quedasFeitas, historia, tela, cargas, recargas, aberturas,
                   sinalVars, telaHistoria>>

-----------------------------------------------------------------------------
(* gateway-api and the SignalR client *)

Anunciadas(o, n) ==
    CASE o = "confirmacao" -> abatidas[n]
      [] o = "falha" -> falhas[n]
      [] o = "compensacao" -> compensacoes[n]
      [] o = "erro" -> erros[n]

NaFilaDoGateway(o, n) == notificadas[o][n] < Anunciadas(o, n)

\* The compensating event and the Fault carry the correlation id of one of the
\* events of the nota; the answers of estoque-api carry none and get a new one.
ChavesPossiveis(o, n) ==
    IF o \in {"compensacao", "erro"}
    THEN {<<"erro", n, e>> : e \in 1..publicacoes[n]}
    ELSE {<<o, n, notificadas[o][n]>>}

\* The consumers of the gateway; that of a Fault pushes under two names.
Notificar(o, n) ==
    /\ NaFilaDoGateway(o, n)
    /\ notificadas' = [notificadas EXCEPT ![o][n] = @ + 1]
    /\ \E k \in ChavesPossiveis(o, n) :
        LET aviso == [nota |-> n, status |-> StatusFinal(o), chave |-> k] IN
        IF conectado
        THEN /\ canal' = canal \o (IF o = "erro" THEN <<aviso, aviso>> ELSE <<aviso>>)
             /\ UNCHANGED cegas
        ELSE cegas' = cegas \cup {n} /\ UNCHANGED canal
    /\ UNCHANGED <<servidorVars, tela, httpVars, conectado, processados, desconexoes,
                   avisada, antigas>>

IsDuplicateEvent(a) == a.chave \in processados

\* Mutant: a failure is shown as a success.
MutReceberSucesso ==
    /\ canal # <<>> /\ canal' = Tail(canal)
    /\ AtualizarStatusNota(Head(canal).nota, Fechada)
    /\ avisada' = [avisada EXCEPT ![Head(canal).nota] = Fechada]
    /\ UNCHANGED <<servidorVars, httpVars, conectado, notificadas, processados,
                   desconexoes, cegas, antigas>>

\* Mutant: a push only schedules the load.
MutSoRecarregar ==
    LET a == Head(canal) IN
    /\ canal # <<>> /\ canal' = Tail(canal)
    /\ recargas' = recargas + 1
    /\ avisada' = [avisada EXCEPT ![a.nota] = a.status]
    /\ UNCHANGED <<servidorVars, tela, envio, imprimindo, cargas, aberturas, conectado,
                   notificadas, processados, desconexoes, cegas, antigas>>

\* Mutant: only a nota that this operator sees waiting is updated by a push.
MutSoSeEsperando ==
    LET a == Head(canal) IN
    /\ canal # <<>> /\ canal' = Tail(canal)
    /\ IF IsDuplicateEvent(a)
       THEN UNCHANGED <<tela, recargas, processados, avisada>>
       ELSE /\ processados' = processados \cup {a.chave}
            /\ tela' = IF tela[a.nota] = EmProcessamento
                       THEN [tela EXCEPT ![a.nota] = a.status] ELSE tela
            /\ avisada' = [avisada EXCEPT ![a.nota] = a.status]
            /\ recargas' = recargas + 1
    /\ UNCHANGED <<servidorVars, envio, imprimindo, cargas, aberturas, conectado,
                   notificadas, desconexoes, cegas, antigas>>

\* handleSuccess, handleFailure and the subscriptions of the list.
ReceberAviso ==
    LET a == Head(canal) IN
    /\ canal # <<>> /\ canal' = Tail(canal)
    /\ IF IsDuplicateEvent(a)
       THEN UNCHANGED <<tela, recargas, processados, avisada>>
       ELSE /\ processados' = processados \cup {a.chave}
            /\ AtualizarStatusNota(a.nota, a.status)
            /\ avisada' = [avisada EXCEPT ![a.nota] = a.status]
            /\ recargas' = recargas + 1
    /\ UNCHANGED <<servidorVars, envio, imprimindo, cargas, aberturas, conectado,
                   notificadas, desconexoes, cegas, antigas>>

\* The 3 seconds of a key are over.
Esquecer ==
    /\ \E k \in processados : processados' = processados \ {k}
    /\ UNCHANGED <<servidorVars, tela, httpVars, conectado, notificadas, canal,
                   desconexoes, telaHistoria>>

\* Neither start nor onreconnected loads the list.
Conectar ==
    /\ ~conectado /\ conectado' = TRUE
    /\ UNCHANGED <<servidorVars, tela, httpVars, notificadas, canal, processados,
                   desconexoes, telaHistoria>>

\* What is on its way to the browser is lost with the connection.
Desconectar ==
    /\ conectado /\ conectado' = FALSE
    /\ desconexoes < MaxDesconexoes /\ desconexoes' = desconexoes + 1
    /\ canal' = <<>>
    /\ cegas' = cegas \cup {canal[i].nota : i \in DOMAIN canal}
    /\ UNCHANGED <<servidorVars, tela, httpVars, notificadas, processados, avisada,
                   antigas>>

-----------------------------------------------------------------------------

\* faturamento-api handles what was sent to it, by this operator or another.
PassoServidor ==
    /\ Next
    /\ \A r \in DaTela : envio[r] = "nao" => pedido'[r] = pedido[r]
    /\ UNCHANGED <<tela, httpVars, sinalVars, telaHistoria>>

TelaNext ==
    \/ PassoServidor
    \/ CarregarNotas \/ Recarregar
    \/ \E k \in Carga : LerBanco(k) \/ AplicarCarga(k) \/ FalharCarga(k)
    \/ \E r \in DaTela : Imprimir(r) \/ RespostaOk(r) \/ RespostaErro(r)
    \/ \E o \in Origem, n \in Nota : Notificar(o, n)
    \/ ReceberAviso \/ Esquecer \/ Conectar \/ Desconectar

TelaSpec == TelaInit /\ [][TelaNext]_telaVars

\* The gateway consumes its queues and the browser handles what it receives.
TelaFairness ==
    /\ \A o \in Origem, n \in Nota : WF_telaVars(Notificar(o, n))
    /\ WF_telaVars(ReceberAviso)

FairTelaSpec == TelaSpec /\ TelaFairness

-----------------------------------------------------------------------------
(* Safety *)

\* A final status on the screen is one that an answer of estoque-api, or the
\* dead-letter consumer, really gave to that nota, whichever source it came by.
TelaJustificada ==
    \A n \in Nota :
        /\ tela[n] = Fechada => abatidas[n] > 0
        /\ tela[n] = Cancelada => falhas[n] + compensacoes[n] + erros[n] > 0

\* Nothing that could still change what the screen shows of n, or its status.
TelaQuieta(n) ==
    /\ \A r \in Pedido : Alvo[r] = n => pedido[r] \in {"novo", "ok", "erro"}
    /\ \A r \in DaTela : Alvo[r] = n => envio[r] # "ida"
    /\ \A c \in Consumidor : ~NaFila(c, n) /\ mao[c] # n
    /\ \A o \in Origem : ~NaFilaDoGateway(o, n)
    /\ compensar # n
    /\ \A k \in Carga : cargas[k] = Parada
    /\ recargas = 0
    /\ \A i \in DOMAIN canal : canal[i].nota # n

\* The only ways the screen is left with another status than the final one of
\* the database, when estoque-api did not contradict itself: a push that did
\* not reach the browser, or an HTTP answer older than the push it overwrote.
DivergenciaTemCausa ==
    \A n \in Nota :
        /\ TelaQuieta(n) /\ status[n] \in Final
        /\ abatidas[n] = 0 \/ falhas[n] + erros[n] = 0
        => tela[n] \in {Ausente, status[n]} \/ n \in cegas \cup antigas

\* A nota that was answered, even one whose answer faturamento-api lost, is left
\* waiting on the screen only by a push that did not reach the browser or by an
\* HTTP answer older than the push it overwrote.
EsperaNaTelaTemCausa ==
    \A n \in Nota :
        /\ TelaQuieta(n)
        /\ abatidas[n] + falhas[n] + erros[n] > 0
        => tela[n] \in Final \cup {Ausente} \/ n \in cegas \cup antigas

\* A print request that failed leaves the status of the database on the screen.
IntegridadeNaFalha ==
    \A r \in DaTela :
        envio[r] = "volta" /\ pedido[r] = "erro" /\ TelaQuieta(Alvo[r])
        => tela[Alvo[r]] \in {Ausente, status[Alvo[r]]}

\* A loaded nota whose answer is in a queue of the gateway is shown with its
\* final status at some moment, unless the connection is missing.  Only the
\* pushes of a dead letter, which have one key, may be ignored: the second ones
\* after an older HTTP answer came over the first.
FimMostrado ==
    \A n \in Nota :
        tela[n] # Ausente /\ conectado /\ (\E o \in Origem : NaFilaDoGateway(o, n))
        ~> \/ tela[n] \in Final
           \/ n \in cegas
           \/ n \in antigas /\ erros[n] > 0
=============================================================================
