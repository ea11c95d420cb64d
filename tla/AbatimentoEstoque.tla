-------------------------- MODULE AbatimentoEstoque --------------------------
(***************************************************************************)
(* The stock debit of estoque-api: NotaFiscalEmitidaConsumer.Consume run   *)
(* by several workers over the queue nota-fiscal-emitida-estoque-queue,    *)
(* with its Redis idempotency keys, its Redlock locks, its PostgreSQL      *)
(* transaction, its product cache and MassTransit's retries.               *)
(*                                                                         *)
(* A product is the rank of its normalised key (Trim, ToUpperInvariant) in *)
(* the order of OrderBy; a nota is its id and its quantities per key, the  *)
(* sums of GroupBy.  A product that is not registered is one of balance 0: *)
(* the consumer refuses both in the same way, with another wording.        *)
(***************************************************************************)
EXTENDS Integers, FiniteSets

CONSTANTS
    Nota, Produto, Trabalhador,
    Qtd,               \* Qtd[n][p]: quantity of product p in nota n, 0 if absent
    SaldoInicial,      \* balance of each product before any nota
    AtrasoDoContador,  \* by how much GetRetryCount lags the retry in progress
    MaxEmissoes,       \* times one nota may be published
    MaxQuedas,         \* crashes of a worker's process
    MaxFalhas,         \* transient failures of Redis, PostgreSQL or RabbitMQ
    MaxEsperas,        \* lock waits that reach their 10 seconds
    MaxPerdas          \* locks lost by Redis while their holder works

ASSUME ConstantesAssumption ==
    /\ Produto \subseteq Nat
    /\ Qtd \in [Nota -> [Produto -> Nat]]
    /\ SaldoInicial \in [Produto -> Nat]
    /\ AtrasoDoContador \in {0, 1}

ASSUME LimitesAssumption ==
    {MaxEmissoes, MaxQuedas, MaxFalhas, MaxEsperas, MaxPerdas} \subseteq Nat

Nenhuma == "nenhuma"   \* the nota of an idle worker
Livre == "livre"       \* a lock that is not in Redis
Orfa == "orfa"         \* a key nobody will delete, until its expiry
NaoLido == -1

\* MassTransit consumes a bounded number of messages at a time.
ASSUME TrabalhadorAssumption == IsFiniteSet(Trabalhador)

\* Neither the notas nor the workers are confused with these marks.
ASSUME MarcasAssumption ==
    /\ Nenhuma \notin Nota
    /\ Livre \notin Trabalhador
    /\ Orfa \notin Trabalhador

VARIABLES
    \* RabbitMQ
    fila,          \* messages of each nota ready in the queue
    emissoes,      \* messages of each nota ever published to it
    abatidas,      \* NotaFiscalAbatidaEvent published for each nota
    recusas,       \* AbatimentoEstoqueFalhouEvent of the DomainException branch
    desistencias,  \* AbatimentoEstoqueFalhouEvent of the last attempt
    erros,         \* messages moved to the _error queue, a Fault published for each
    \* Redis
    idem,          \* notas with an idempotency key
    dono,          \* who owns each product's lock
    cache,         \* cached balance of each product
    \* PostgreSQL
    saldo,         \* balance of each product
    \* the workers
    pc, nota, tentativa,
    travas,        \* the list "locks" of each worker
    lido,          \* the balance each tracked product was read with
    feitos,        \* products the cache loop is done with
    \* history and bounds
    debitos,       \* transactions committed for each nota
    debitado,      \* quantity debited from each product
    incertas,      \* answers RabbitMQ took although their publication threw
    quedas, falhas, esperas, perdas

filaVars == <<fila, emissoes, abatidas, recusas, desistencias, erros>>
respostas == <<abatidas, recusas, desistencias>>
redisVars == <<idem, dono, cache>>
dbVars == <<saldo, debitos, debitado>>
localVars == <<nota, tentativa, travas, lido, feitos>>
limites == <<quedas, falhas, esperas, perdas>>
vars == <<filaVars, incertas, redisVars, dbVars, pc, localVars, limites>>

Passos == {"ocioso", "verificar", "adquirir", "ler", "cache", "abatida",
           "excecao", "liberar", "liberarErro"}

FilaTipo ==
    /\ fila \in [Nota -> Nat] /\ emissoes \in [Nota -> Nat]
    /\ abatidas \in [Nota -> Nat] /\ recusas \in [Nota -> Nat]
    /\ desistencias \in [Nota -> Nat] /\ erros \in [Nota -> Nat]
    /\ incertas \in [Nota -> Nat]
RedisTipo ==
    /\ idem \subseteq Nota
    /\ dono \in [Produto -> Trabalhador \cup {Livre, Orfa}]
    /\ cache \in [Produto -> Nat]
DbTipo ==
    /\ saldo \in [Produto -> Nat]
    /\ debitos \in [Nota -> Nat] /\ debitado \in [Produto -> Nat]
LocalTipo ==
    /\ pc \in [Trabalhador -> Passos]
    /\ nota \in [Trabalhador -> Nota \cup {Nenhuma}]
    /\ \A w \in Trabalhador : nota[w] = Nenhuma <=> pc[w] = "ocioso"
    /\ tentativa \in [Trabalhador -> 0..3]
    /\ travas \in [Trabalhador -> SUBSET Produto]
    /\ lido \in [Trabalhador -> [Produto -> Nat \cup {NaoLido}]]
    /\ feitos \in [Trabalhador -> SUBSET Produto]
LimiteTipo ==
    quedas \in Nat /\ falhas \in Nat /\ esperas \in Nat /\ perdas \in Nat

TypeOK == FilaTipo /\ RedisTipo /\ DbTipo /\ LocalTipo /\ LimiteTipo

Itens(n) == {p \in Produto : Qtd[n][p] > 0}
NadaLido == [p \in Produto |-> NaoLido]
Lidos(w) == {p \in Itens(nota[w]) : lido[w][p] # NaoLido}
LeuTudo(w) == Lidos(w) = Itens(nota[w])
\* Mutant: the balance read is not compared with the quantity.
MutSemValidacao(w) == TRUE

LidoSuficiente(w) == \A p \in Itens(nota[w]) : Qtd[nota[w]][p] <= lido[w][p]
SaldoDebitado(w, p) == lido[w][p] - Qtd[nota[w]][p]
RetryCount(t) == IF t > AtrasoDoContador THEN t - AtrasoDoContador ELSE 0

\* The worker moves to step s; a failing call spends one of MaxFalhas.
Vai(w, s) == pc' = [pc EXCEPT ![w] = s]
SemFalha == UNCHANGED falhas
ComFalha == falhas < MaxFalhas /\ falhas' = falhas + 1

Init ==
    /\ fila = [n \in Nota |-> 0] /\ emissoes = [n \in Nota |-> 0]
    /\ abatidas = [n \in Nota |-> 0] /\ recusas = [n \in Nota |-> 0]
    /\ desistencias = [n \in Nota |-> 0] /\ erros = [n \in Nota |-> 0]
    /\ incertas = [n \in Nota |-> 0]
    /\ idem = {} /\ dono = [p \in Produto |-> Livre]
    /\ cache = SaldoInicial /\ saldo = SaldoInicial
    /\ pc = [w \in Trabalhador |-> "ocioso"]
    /\ nota = [w \in Trabalhador |-> Nenhuma]
    /\ tentativa = [w \in Trabalhador |-> 0]
    /\ travas = [w \in Trabalhador |-> {}]
    /\ lido = [w \in Trabalhador |-> NadaLido]
    /\ feitos = [w \in Trabalhador |-> {}]
    /\ debitos = [n \in Nota |-> 0] /\ debitado = [p \in Produto |-> 0]
    /\ quedas = 0 /\ falhas = 0 /\ esperas = 0 /\ perdas = 0

-----------------------------------------------------------------------------
(* The queue and the start of an attempt *)

\* faturamento-api publishes NotaFiscalEmitidaEvent; nothing stops it from
\* publishing the same nota again.
Emitir(n) ==
    /\ emissoes[n] < MaxEmissoes
    /\ emissoes' = [emissoes EXCEPT ![n] = @ + 1]
    /\ fila' = [fila EXCEPT ![n] = @ + 1]
    /\ UNCHANGED <<respostas, erros, incertas, redisVars, dbVars, pc, localVars, limites>>

Receber(w, n) ==
    /\ pc[w] = "ocioso" /\ fila[n] > 0
    /\ fila' = [fila EXCEPT ![n] = @ - 1]
    /\ nota' = [nota EXCEPT ![w] = n]
    /\ tentativa' = [tentativa EXCEPT ![w] = 0]
    /\ Vai(w, "verificar")
    /\ UNCHANGED <<emissoes, respostas, erros, incertas, redisVars, dbVars, travas,
                   lido, feitos, limites>>

\* Mutant: the key is saved when it is checked, before the debit.
MutChaveAntes(w) ==
    /\ pc[w] = "verificar"
    /\ IF nota[w] \in idem THEN Vai(w, "liberar") ELSE Vai(w, "adquirir")
    /\ idem' = idem \cup {nota[w]}
    /\ UNCHANGED <<filaVars, incertas, dono, cache, dbVars, localVars, limites>>

\* Before any lock and outside the try: a duplicate is acknowledged without an
\* answer, and a Redis failure escapes Consume.
VerificarIdempotencia(w) ==
    /\ pc[w] = "verificar"
    /\ \/ nota[w] \in idem /\ Vai(w, "liberar") /\ SemFalha
       \/ nota[w] \notin idem /\ Vai(w, "adquirir") /\ SemFalha
       \/ Vai(w, "liberarErro") /\ ComFalha
    /\ UNCHANGED <<filaVars, incertas, redisVars, dbVars, localVars, quedas, esperas, perdas>>

-----------------------------------------------------------------------------
(* The locks *)

\* Mutant: the keys are not sorted.
MutSemOrdem(w, p) == p \in Itens(nota[w]) \ travas[w]

\* p is the next key of the sorted loop.
ProximaChave(w, p) ==
    LET faltam == Itens(nota[w]) \ travas[w]
    IN  p \in faltam /\ \A q \in faltam : p <= q

\* Mutant: an existing lock is overwritten.
MutTravaTomada(w, p) ==
    /\ pc[w] = "adquirir" /\ ProximaChave(w, p)
    /\ dono' = [dono EXCEPT ![p] = w]
    /\ travas' = [travas EXCEPT ![w] = @ \cup {p}]
    /\ UNCHANGED <<filaVars, incertas, idem, cache, dbVars, pc, nota, tentativa, lido,
                   feitos, limites>>

\* If the reply of Redis is lost the key stays until it expires, and the worker
\* goes on waiting for it.
AdquirirTrava(w, p) ==
    /\ pc[w] = "adquirir" /\ ProximaChave(w, p) /\ dono[p] = Livre
    /\ \/ /\ dono' = [dono EXCEPT ![p] = w]
          /\ travas' = [travas EXCEPT ![w] = @ \cup {p}] /\ SemFalha
       \/ dono' = [dono EXCEPT ![p] = Orfa] /\ UNCHANGED travas /\ ComFalha
    /\ UNCHANGED <<filaVars, incertas, idem, cache, dbVars, pc, nota, tentativa, lido,
                   feitos, quedas, esperas, perdas>>

\* Mutant: a null lock is not checked for, and the products are read without it.
MutTravaNula(w) ==
    /\ pc[w] = "adquirir"
    /\ Vai(w, "ler")
    /\ UNCHANGED <<filaVars, incertas, redisVars, dbVars, localVars, limites>>

ComTodasAsTravas(w) ==
    /\ pc[w] = "adquirir" /\ travas[w] = Itens(nota[w])
    /\ Vai(w, "ler")
    /\ UNCHANGED <<filaVars, incertas, redisVars, dbVars, localVars, limites>>

\* AcquireLockAsync returns null: InvalidOperationException.
EsperaEsgotada(w, p) ==
    /\ pc[w] = "adquirir" /\ ProximaChave(w, p) /\ dono[p] # Livre
    /\ esperas < MaxEsperas
    /\ esperas' = esperas + 1
    /\ Vai(w, "excecao")
    /\ UNCHANGED <<filaVars, incertas, redisVars, dbVars, localVars, quedas, falhas, perdas>>

-----------------------------------------------------------------------------
(* Validation, transaction, cache, key and answer *)

\* Mutant: the balance is taken from the cache.
MutLerDoCache(w, p) ==
    /\ pc[w] = "ler" /\ p \in Itens(nota[w]) \ Lidos(w)
    /\ lido' = [lido EXCEPT ![w][p] = cache[p]]
    /\ UNCHANGED <<filaVars, incertas, redisVars, dbVars, pc, nota, tentativa, travas,
                   feitos, limites>>

LerProduto(w, p) ==
    /\ pc[w] = "ler" /\ p \in Itens(nota[w]) \ Lidos(w)
    /\ lido' = [lido EXCEPT ![w][p] = saldo[p]]
    /\ UNCHANGED <<filaVars, incertas, redisVars, dbVars, pc, nota, tentativa, travas,
                   feitos, limites>>

\* context.Publish returns and the worker goes on to s; or it throws, with the
\* answer delivered all the same, and the worker goes to e.
Publica(w, s, e) ==
    \/ Vai(w, s) /\ SemFalha /\ UNCHANGED incertas
    \/ Vai(w, e) /\ ComFalha /\ incertas' = [incertas EXCEPT ![nota[w]] = @ + 1]

\* Mutant: the refusal is published and then rethrown.
MutRecusaRelancada(w) ==
    /\ pc[w] = "ler" /\ LeuTudo(w) /\ ~LidoSuficiente(w)
    /\ recusas' = [recusas EXCEPT ![nota[w]] = @ + 1]
    /\ Vai(w, "liberarErro")
    /\ UNCHANGED <<fila, emissoes, abatidas, desistencias, erros, incertas, redisVars,
                   dbVars, localVars, limites>>

\* DomainException: the refusal is published while the locks are still held.
PublicarRecusa(w) ==
    /\ pc[w] = "ler" /\ LeuTudo(w) /\ ~LidoSuficiente(w)
    /\ \/ /\ recusas' = [recusas EXCEPT ![nota[w]] = @ + 1]
          /\ Publica(w, "liberar", "liberarErro")
       \/ UNCHANGED <<recusas, incertas>> /\ Vai(w, "liberarErro") /\ ComFalha
    /\ UNCHANGED <<fila, emissoes, abatidas, desistencias, erros, redisVars,
                   dbVars, localVars, quedas, esperas, perdas>>

\* EF writes the balance of the tracked entity, not a decrement.  The answer of
\* CommitAsync may be lost after the database committed.
Commit(w) ==
    LET n == nota[w] IN
    /\ pc[w] = "ler" /\ LeuTudo(w) /\ LidoSuficiente(w)
    /\ saldo' = [p \in Produto |->
                   IF p \in Itens(n) THEN SaldoDebitado(w, p) ELSE saldo[p]]
    /\ debitos' = [debitos EXCEPT ![n] = @ + 1]
    /\ debitado' = [p \in Produto |-> debitado[p] + Qtd[n][p]]
    /\ \/ Vai(w, "cache") /\ SemFalha
       \/ Vai(w, "excecao") /\ ComFalha
    /\ UNCHANGED <<filaVars, incertas, redisVars, localVars, quedas, esperas, perdas>>

\* SetProdutoCacheAsync swallows its own failures.
SetProdutoCache(p, valor) ==
    \/ cache' = [cache EXCEPT ![p] = valor] /\ SemFalha
    \/ UNCHANGED cache /\ ComFalha

\* Mutant: the balance cached is the one before the debit.
MutCacheAntigo(w, p) ==
    /\ pc[w] = "cache" /\ p \in Itens(nota[w]) \ feitos[w]
    /\ feitos' = [feitos EXCEPT ![w] = @ \cup {p}]
    /\ cache' = [cache EXCEPT ![p] = lido[w][p]]
    /\ UNCHANGED <<filaVars, incertas, idem, dono, dbVars, pc, nota, tentativa, travas,
                   lido, limites>>

\* GetByCodigoAsync returns the tracked entity, with the debit applied.
AtualizarCache(w, p) ==
    /\ pc[w] = "cache" /\ p \in Itens(nota[w]) \ feitos[w]
    /\ feitos' = [feitos EXCEPT ![w] = @ \cup {p}]
    /\ SetProdutoCache(p, SaldoDebitado(w, p))
    /\ UNCHANGED <<filaVars, incertas, idem, dono, dbVars, pc, nota, tentativa, travas,
                   lido, quedas, esperas, perdas>>

SalvarIdempotencia(w) ==
    /\ pc[w] = "cache" /\ feitos[w] = Itens(nota[w])
    /\ idem' = idem \cup {nota[w]}
    /\ \/ Vai(w, "abatida") /\ SemFalha
       \/ Vai(w, "excecao") /\ ComFalha   \* saved, but the reply was lost
    /\ UNCHANGED <<filaVars, incertas, dono, cache, dbVars, localVars, quedas, esperas, perdas>>

\* That nothing was published is left to FalhaInfra.
PublicarAbatida(w) ==
    /\ pc[w] = "abatida"
    /\ abatidas' = [abatidas EXCEPT ![nota[w]] = @ + 1]
    /\ Publica(w, "liberar", "excecao")
    /\ UNCHANGED <<fila, emissoes, recusas, desistencias, erros, redisVars, dbVars,
                   localVars, quedas, esperas, perdas>>

\* A call inside the try throws without having taken effect.
FalhaInfra(w) ==
    /\ \/ pc[w] \in {"adquirir", "cache", "abatida"}
       \/ pc[w] = "ler" /\ (LeuTudo(w) => LidoSuficiente(w))
    /\ Vai(w, "excecao") /\ ComFalha
    /\ UNCHANGED <<filaVars, incertas, redisVars, dbVars, localVars, quedas, esperas, perdas>>

-----------------------------------------------------------------------------
(* catch (Exception), finally, and the retry filter around Consume *)

\* Mutant: the failure is swallowed instead of rethrown.
MutEngolir(w) ==
    /\ pc[w] = "excecao" /\ RetryCount(tentativa[w]) < 2
    /\ Vai(w, "liberar")
    /\ UNCHANGED <<filaVars, incertas, redisVars, dbVars, localVars, limites>>

Relancar(w) ==
    /\ pc[w] = "excecao" /\ RetryCount(tentativa[w]) < 2
    /\ Vai(w, "liberarErro")
    /\ UNCHANGED <<filaVars, incertas, redisVars, dbVars, localVars, limites>>

\* Mutant: the give-up is published and the failure still rethrown.
MutDesistirERelancar(w) ==
    /\ pc[w] = "excecao" /\ RetryCount(tentativa[w]) >= 2
    /\ desistencias' = [desistencias EXCEPT ![nota[w]] = @ + 1]
    /\ Vai(w, "liberarErro")
    /\ UNCHANGED <<fila, emissoes, abatidas, recusas, erros, incertas, redisVars,
                   dbVars, localVars, limites>>

PublicarDesistencia(w) ==
    /\ pc[w] = "excecao" /\ RetryCount(tentativa[w]) >= 2
    /\ \/ /\ desistencias' = [desistencias EXCEPT ![nota[w]] = @ + 1]
          /\ Publica(w, "liberar", "liberarErro")
       \/ UNCHANGED <<desistencias, incertas>> /\ Vai(w, "liberarErro") /\ ComFalha
    /\ UNCHANGED <<fila, emissoes, abatidas, recusas, erros, redisVars, dbVars,
                   localVars, quedas, esperas, perdas>>

\* Mutant: the key is deleted whoever owns it.
MutLiberarDeOutro(w, p) ==
    /\ pc[w] \in {"liberar", "liberarErro"} /\ p \in travas[w]
    /\ dono' = [dono EXCEPT ![p] = Livre]
    /\ travas' = [travas EXCEPT ![w] = @ \ {p}]
    /\ UNCHANGED <<filaVars, incertas, idem, cache, dbVars, pc, nota, tentativa, lido,
                   feitos, limites>>

\* Dispose of one lock, which deletes the Redis key only if it is still ours; it
\* swallows a failing call, which leaves the key until it expires.
LiberarTrava(w, p) ==
    /\ pc[w] \in {"liberar", "liberarErro"} /\ p \in travas[w]
    /\ \A q \in travas[w] : p <= q
    /\ travas' = [travas EXCEPT ![w] = @ \ {p}]
    /\ \/ dono' = [dono EXCEPT ![p] = IF @ = w THEN Livre ELSE @] /\ SemFalha
       \/ dono' = [dono EXCEPT ![p] = IF @ = w THEN Orfa ELSE @] /\ ComFalha
    /\ UNCHANGED <<filaVars, incertas, idem, cache, dbVars, pc, nota, tentativa, lido,
                   feitos, quedas, esperas, perdas>>

\* The scope of the attempt (DbContext, local variables) ends here.
FimDaTentativa(w) ==
    /\ travas[w] = {}
    /\ lido' = [lido EXCEPT ![w] = NadaLido]
    /\ feitos' = [feitos EXCEPT ![w] = {}]
    /\ UNCHANGED <<travas, fila, emissoes, respostas, incertas, redisVars, dbVars,
                   limites>>

SoltarNota(w) == Vai(w, "ocioso") /\ nota' = [nota EXCEPT ![w] = Nenhuma]

Reconhecer(w) ==
    /\ pc[w] = "liberar" /\ FimDaTentativa(w)
    /\ SoltarNota(w)
    /\ UNCHANGED <<tentativa, erros>>

\* UseMessageRetry(Interval(3, 2s)): the message is kept and consumed again.
TentarDeNovo(w) ==
    /\ pc[w] = "liberarErro" /\ FimDaTentativa(w)
    /\ tentativa[w] < 3
    /\ tentativa' = [tentativa EXCEPT ![w] = @ + 1]
    /\ Vai(w, "verificar")
    /\ UNCHANGED <<nota, erros>>

MoverParaErro(w) ==
    /\ pc[w] = "liberarErro" /\ FimDaTentativa(w)
    /\ tentativa[w] = 3
    /\ erros' = [erros EXCEPT ![nota[w]] = @ + 1]
    /\ SoltarNota(w)
    /\ UNCHANGED tentativa

-----------------------------------------------------------------------------
(* Crashes and lost locks *)

\* The process of w dies: its message goes back to the queue and its locks
\* stay in Redis until they expire.
Queda(w) ==
    /\ pc[w] # "ocioso" /\ quedas < MaxQuedas
    /\ quedas' = quedas + 1
    /\ fila' = [fila EXCEPT ![nota[w]] = @ + 1]
    /\ dono' = [p \in Produto |-> IF dono[p] = w THEN Orfa ELSE dono[p]]
    /\ travas' = [travas EXCEPT ![w] = {}]
    /\ lido' = [lido EXCEPT ![w] = NadaLido]
    /\ feitos' = [feitos EXCEPT ![w] = {}]
    /\ SoltarNota(w)
    /\ UNCHANGED <<emissoes, respostas, erros, incertas, idem, cache, dbVars,
                   tentativa, falhas, esperas, perdas>>

Expirar(p) ==
    /\ dono[p] = Orfa
    /\ dono' = [dono EXCEPT ![p] = Livre]
    /\ UNCHANGED <<filaVars, incertas, idem, cache, dbVars, pc, localVars, limites>>

\* The key vanishes while its holder works: Redis restarted, or the holder was
\* paused for longer than the 15 seconds.  The consumer never looks again.
PerderTrava(p) ==
    /\ dono[p] \in Trabalhador /\ perdas < MaxPerdas
    /\ perdas' = perdas + 1
    /\ dono' = [dono EXCEPT ![p] = Livre]
    /\ UNCHANGED <<filaVars, incertas, idem, cache, dbVars, pc, localVars, quedas, falhas, esperas>>

Passo(w) ==
    \/ VerificarIdempotencia(w)
    \/ \E p \in Produto : AdquirirTrava(w, p)
    \/ ComTodasAsTravas(w)
    \/ \E p \in Produto : LerProduto(w, p)
    \/ PublicarRecusa(w) \/ Commit(w)
    \/ \E p \in Produto : AtualizarCache(w, p)
    \/ SalvarIdempotencia(w) \/ PublicarAbatida(w)
    \/ Relancar(w) \/ PublicarDesistencia(w)
    \/ \E p \in Produto : LiberarTrava(w, p)
    \/ Reconhecer(w) \/ TentarDeNovo(w) \/ MoverParaErro(w)

Ambiente ==
    \/ \E w \in Trabalhador :
          FalhaInfra(w) \/ Queda(w) \/ \E p \in Produto : EsperaEsgotada(w, p)
    \/ \E p \in Produto : PerderTrava(p)

\* All that happens once notas have been emitted.
Consumo ==
    \/ \E w \in Trabalhador : Passo(w) \/ \E n \in Nota : Receber(w, n)
    \/ \E p \in Produto : Expirar(p)
    \/ Ambiente

Next ==
    \/ \E n \in Nota : Emitir(n)
    \/ Consumo

Spec == Init /\ [][Next]_vars

\* The broker delivers, the workers run on, and a dead holder's lock expires.
Fairness ==
    /\ WF_vars(\E w \in Trabalhador, n \in Nota : Receber(w, n))
    /\ \A w \in Trabalhador : WF_vars(Passo(w))
    /\ \A p \in Produto : WF_vars(Expirar(p))

FairSpec == Spec /\ Fairness

-----------------------------------------------------------------------------
(* Safety *)

SemFalhas == falhas = 0 /\ quedas = 0 /\ perdas = 0

\* While no lock is lost, two workers never hold the lock of one product, and
\* Redis agrees with what every worker believes it holds.
ExclusaoMutua ==
    perdas = 0 =>
        /\ \A w \in Trabalhador : \A p \in travas[w] : dono[p] = w
        /\ \A p \in Produto : dono[p] \in Trabalhador => p \in travas[dono[p]]

\* Worker w waits for a lock that v owns; v is Orfa if the lock is to expire.
EsperaPor(w, v) ==
    pc[w] = "adquirir" /\ \E p \in Produto : ProximaChave(w, p) /\ dono[p] = v

\* Waiting workers never hold each other up, however many they are, whatever
\* notas they have in common and even if locks are lost: in each set of them one
\* waits for an expiry or for a worker outside the set that is still at work.
SemImpasse ==
    \A ws \in (SUBSET Trabalhador) \ {{}} :
        (\A w \in ws : \E v \in Trabalhador \cup {Orfa} : EsperaPor(w, v))
        => \E w \in ws :
              \/ EsperaPor(w, Orfa)
              \/ \E v \in Trabalhador \ ws : EsperaPor(w, v) /\ pc[v] # "ocioso"

\* A balance read is still the balance in the database when the transaction
\* overwrites it, for as long as no lock is lost.
LeituraValida ==
    perdas = 0 =>
        \A w \in Trabalhador : pc[w] = "ler" =>
            \A p \in Lidos(w) : lido[w][p] = saldo[p]

\* No debit is ever taken twice from the balance; while no lock is lost none is
\* missing in it either, so what left the stock is what the transactions took.
Conservacao ==
    \A p \in Produto :
        /\ saldo[p] + debitado[p] >= SaldoInicial[p]
        /\ perdas = 0 => saldo[p] + debitado[p] = SaldoInicial[p]

\* Without failures the cache of a product nobody holds is its balance:
\* concurrent debits never leave an older balance in it.
CacheCoerente ==
    SemFalhas => \A p \in Produto : dono[p] = Livre => cache[p] = saldo[p]

\* Whatever fails, the saga is told "abatida" only for a nota with its key
\* saved, and a key is saved only for a nota that was debited.
AbatidaTemDebito ==
    \A n \in Nota :
        /\ abatidas[n] > 0 => n \in idem
        /\ n \in idem => debitos[n] > 0

\* Each message leads to one decision, a debit, a refusal, a give-up or a move to
\* _error, and each decision beyond that took a failing call or a crash of its own.
DecisoesContadas ==
    \A n \in Nota :
        debitos[n] + recusas[n] + desistencias[n] + erros[n]
            <= emissoes[n] + falhas + quedas

Assentada(n) == fila[n] = 0 /\ \A w \in Trabalhador : nota[w] # n

\* Whatever fails, a nota whose messages were all consumed without any answer
\* is one whose key was saved: the duplicate check is the only silent exit.
SilencioSoDeDuplicata ==
    \A n \in Nota :
        Assentada(n) /\ emissoes[n] > 0
            /\ abatidas[n] + recusas[n] + desistencias[n] + erros[n] = 0
        => n \in idem

\* However many calls fail, no retry answers what an earlier attempt has answered:
\* each answer beyond one a message took a crash of its own, or a publication of
\* this nota that threw after RabbitMQ had taken it.
RespostasContadas ==
    \A n \in Nota :
        abatidas[n] + recusas[n] + desistencias[n] + erros[n]
            <= emissoes[n] + quedas + incertas[n]

\* A nota is debited at most once, whatever is delivered twice.
DebitoUnico == \A n \in Nota : debitos[n] <= 1

\* A lock leaves its owner only by its own Dispose, its death or its loss: the
\* finally of a worker that lost a lock never frees the next holder's.
LiberacaoSoDoDono ==
    [][\A p \in Produto : dono[p] \in Trabalhador /\ dono'[p] # dono[p] =>
        \/ p \in travas[dono[p]] \ travas'[dono[p]]
        \/ perdas' > perdas]_vars

-----------------------------------------------------------------------------
(* Liveness *)

\* Every message is settled: no worker waits for ever and every lock is freed,
\* even when no lock wait times out.
TudoAssenta == <>[](/\ \A n \in Nota : Assentada(n)
                    /\ \A p \in Produto : dono[p] = Livre)

-----------------------------------------------------------------------------
(* Refinement *)

Atomico == INSTANCE EstoqueAtomico WITH confirmacoes <- abatidas

\* Without lost locks the concurrent consumer implements the atomic stock: the
\* debit takes effect at Commit, a refusal when it is published.
ImplementaAtomico == Atomico!Spec
=============================================================================
