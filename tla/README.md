# Formal model of the notas fiscais platform

TLA+ specifications of the saga that prints a nota fiscal: a Go service
(`faturamento-api`) that owns the notas, a C# service (`estoque-api`) that owns
the stock, a C# gateway that pushes notifications and an Angular frontend, joined
by RabbitMQ and Redis. The modules are checked with TLC on small instances;
`*_proofs.tla` modules hold theorems, for every value of the constants, checked by
TLAPS. Names of definitions follow the source, which is in Portuguese.

## Inventory

| Component | State | Operations | Correct when |
|---|---|---|---|
| faturamento-api: print (`internal/handlers`, `internal/repository`, `internal/messaging/rabbitmq.go`) | column `status` of a nota; the step of each request | `POST .../imprimir`: read and validate, UPDATE, publish `NotaFiscalEmitidaEvent` | an event leaves only for a nota that can no longer be printed; the status is what an answer said |
| faturamento-api: consumers (`internal/messaging/consumer.go`) | three RabbitMQ queues consumed with auto-ack, each over a connection of its own that may drop; the message each goroutine holds | confirmation -> Fechada, failure -> Cancelada, `_error` -> Cancelada and a compensatory event | a nota that was answered does not stay EmProcessamento without a cause |
| faturamento-api: creation (`CreateNotaFiscalHandler`, `domain.NewNotaFiscal`) | notas, `NumeroSequencial` = MAX + 1 | Redis pre-validation, numbering, validation of the items, insert | a repeated number has one of the known causes; items are valid |
| faturamento-api: connection (`internal/database`, `getDB`, `main`, `handlers/health.go`) | the global `DB`, the pools of the repository and of the health handler; the database, its tables and their indexes in SQL Server | `ConnectDB` opens, creates the database, migrates table by table and index by index and stores the pool; `getDB` connects again when there is none; the health endpoint pings its own pool | no request is given a pool without its tables and indexes; UP is said of the pool in use; the repository connects in the end |
| estoque-api: debit (`NotaFiscalEmitidaConsumer`) | PostgreSQL balances; Redis idempotency keys, locks and product cache; RabbitMQ queue and its retries | check key, lock every product in order, read, validate, commit, update the cache, save the key, answer, unlock | no oversale, no lost or double debit, one decision a message, every message settled |
| estoque-api: catalogue (`ProdutoService`, `ProdutosController`) | products, unique index on the code, cache | create, query | a code is registered once; the cache tells the balance |
| gateway-api: notifications (`Consumers`, `NotificationHub`) | none but its queues and the connected clients | an answer becomes one or two SignalR pushes | the screen is told of each outcome |
| frontend (`signalr.service`, `nota-fiscal.service`, list) | the list of notas on screen, pending HTTP calls, a memory of recent events | load, print (optimistic), apply a push, reload after 300 ms | the screen comes to the status in the database |

How they interact: the print handler publishes to the exchange of
`NotaFiscalEmitidaEvent`, bound to `nota-fiscal-emitida-estoque-queue`; the consumer
of estoque-api answers with `NotaFiscalAbatidaEvent` or
`AbatimentoEstoqueFalhouEvent`, each a fanout exchange to a queue of
faturamento-api and to one of the gateway; MassTransit moves a message whose
attempts all failed to the `_error` queue, which faturamento-api also consumes.
faturamento-api reads the product cache of estoque-api in Redis before it accepts
a nota.

What is hard: requests and consumers share rows with no condition on the UPDATE;
deliveries are at least once on one side (MassTransit acknowledges after
`Consume`) and at most once on the other (auto-ack); the key that makes a debit
idempotent is in another database than the debit and is written after it; locks
are leases that can be lost; every external call can fail before or after its
effect, and one that publishes an answer leaves the consumer in doubt whether it gave it.

## Modules

| Module | Models | Role |
|---|---|---|
| `EstoqueAtomico` | what estoque-api promises: a nota is debited as a whole in one step, confirmed only after, refused only when the stock is short | abstract specification |
| `AbatimentoEstoque` | `NotaFiscalEmitidaConsumer` run by several workers, step by step, with Redis, PostgreSQL, RabbitMQ, retries, crashes and lost locks | detailed specification; implements `EstoqueAtomico` |
| `AbatimentoEstoque_proofs` | | theorems about it |
| `AbatimentoContagem_proofs` | | the theorems about it that count messages or workers |
| `ImpressaoNota` | the print handler and the three consumers of faturamento-api, with the AMQP connection of each; estoque-api is an environment that may answer anything | detailed specification |
| `ImpressaoNota_proofs` | | theorems about it |
| `CicloDaNota` | what the saga promises of a nota: debited then Fechada, or Cancelada and never debited | abstract specification |
| `SagaNota` | both services joined by their queues | composition; implements `ImpressaoNota` and `CicloDaNota` |
| `SagaNota_proofs` | | theorems about the composition |
| `SagaCiclo_proofs` | | the theorems about the status of a nota, which need both services |
| `TelaNotas` | the list of notas of one operator in the Angular frontend, fed by print answers, loads and the pushes of the gateway, over `ImpressaoNota` | composition with the frontend and the gateway |
| `TelaNotas_proofs` | | theorems about it |
| `Cadastro` | the registration of products and the creation of notas, which meet in the product cache of Redis | detailed specification |
| `Cadastro_proofs` | | theorems about it |
| `ConexaoFaturamento` | `ConnectDB`, `getDB`, the start of `main` and the SQL Server entry of the health endpoint, run by several goroutines without a lock | detailed specification |
| `ConexaoFaturamento_proofs` | | theorems about it |
| `MC...` | values of the constants for TLC | |

```
CicloDaNota   <-- implements -- SagaNota -- EXTENDS --> AbatimentoEstoque -- implements --> EstoqueAtomico
                                   |
                                   +-- INSTANCE, implements --> ImpressaoNota <-- EXTENDS -- TelaNotas
Cadastro stands alone: its products and notas exist before the saga starts.
ConexaoFaturamento stands alone: the other modules see a repository without a pool
as one more failing call.
```

Operators named `Mut...` are wrong versions of the operator that follows them, a
dropped guard or a swapped order: putting one in the place of the other breaks the
property `PROJECT.json` names under "mutants". No specification uses them.

## How state and actions correspond to the code

`PROJECT.json` gives, under "map", the file and lines of every definition. The main
choices are these.

**`AbatimentoEstoque`.** A product is the rank of its normalised key in the order of
`OrderBy`, and a nota is its quantities per key (the `GroupBy`). One variable stands
for each place that survives a process: `fila`, `erros` and the published answers
(RabbitMQ), `idem`, `dono`, `cache` (Redis), `saldo` (PostgreSQL). The local variables
of `Consume` are `travas`, `lido`, `feitos` and `pc`, per worker. One action is one
call to an external system, with the control that follows it; a call that fails does
so before its effect (`FalhaInfra`, and the last disjunct of `PublicarRecusa` and
`PublicarDesistencia`) or after it (`Commit`, `SalvarIdempotencia`). A publication may throw
after RabbitMQ took the message (`Publica`): the history variable `incertas` counts
those of each nota, each of which a retry, the give-up or the `_error` queue may answer
again. A lock whose acquisition was not confirmed, or whose `Dispose` failed at Redis,
belongs to nobody (`Orfa`) until it expires.
`liberar` is the `finally` block followed by an acknowledgement, `liberarErro` the
same followed by the retry filter of MassTransit. `AtrasoDoContador` is 0 or 1,
because `GetRetryCount` is a library function whose value in the first retry the
source does not settle; every theorem holds of both.

**`ImpressaoNota`.** `status` is the column; `pedido[r]` the step of a print request,
between whose steps anything may happen; `recebidas[c][n]` counts the messages about
`n` that consumer `c` has taken, `mao[c]` is the one it holds. The queues are
differences of counters, so a message is never reordered with itself and always may be
with others. `conexao[c]` is `nova` until consumer `c` connects for the first time, which
is when its queue is declared and bound: what was published before goes nowhere
(`Ligar`), except to the `_error` queue, which MassTransit owns. A connection that
drops (`ConexaoCai`) takes messages along that auto-ack had already removed from the
queue; those of one nota on one queue are dropped all or none, which keeps the choice
small and still gives every set of notas. A shutdown is a `Queda`: `main` waits for its
requests, for 5 seconds, and not for its consumers. `JaLigadas` and `Instaveis` choose which
consumers start connected and which may lose their connection. `EstoqueResponder` is the other service: it may answer anything, any
number of times, within a bound in `Spec` and without one in `SpecLivre`, which the
theorems are about.

**`SagaNota`.** The publication of the print handler is `Emitir` of
`AbatimentoEstoque`; the counters of answers of `ImpressaoNota` are those the stock
consumer increments. There is no other coupling, as in the code.

**`TelaNotas`.** `tela` is the Angular signal `notasFiscais`, `cargas` the HTTP loads in
progress (each holds what it read of the database until it is applied), `canal` the
ordered SignalR connection, `processados` the keys of the last three seconds,
`recargas` the timers of 300 ms. A push has the key of the browser, kind, nota and
correlation id: the Fault and the compensating event of one dead letter carry the id of the
event they come from (`ChavesPossiveis`), so one of them can be ignored after the other,
while the answers of estoque-api carry none and the gateway makes one up. The timers have no clock: they fire any time later,
which includes the real order. Requests of other operators run on the same server.

**`Cadastro`.** A `Grafia` is a code as a client wrote it, and `Chave` is `Trim` with
`ToUpper`; the two services disagree on where they apply it. `ConsultarItem` is one
lookup in Redis, `Numerar` the `SELECT MAX`, `Gravar` validation and INSERT. Numbers have
64 bits (`MaxInt` stands for 2^63 - 1): a client may give any, and `Seguinte` wraps. The entry
of a product can be written by its registration or by a debit, expire, or be lost.

**`ConexaoFaturamento`.** A pool is its number, and 0 is `nil`; `banco`, `repo` and `saude`
are `database.DB`, `r.db` and `h.db`. They are shared without a lock: the races are on
single words, which are read and written whole, so each access is one step and
what races is the order. `IF NOT EXISTS ... CREATE DATABASE` and the look-up and
creation of a table or of an index by `AutoMigrate` are two steps each, between which
another goroutine may create the same. The indexes are those of the `index` tags of
`nota_fiscal.go`: after a `CREATE TABLE` gorm creates them one by one without a look, in the
order of a Go map, and on a table that exists it asks for each one (`HasIndex`) first. `Inicio` is the goroutine of `main`: it calls
`ConnectDB` once and goes on without a pool if that fails. `saude` is never written
again, so after a start without SQL Server the health endpoint stays DOWN.

## Runs

Every run is one cfg; the comment at its top names its bounds.

| Run | Question | Result |
|---|---|---|
| `abat_concorrencia` | two notas compete for two products, two workers; one failure, crash and lock wait: are locks, reads, cache and decisions right, can workers wait for each other in a circle, is it the atomic stock, and is every message settled? | holds |
| `abat_falhas` | one nota delivered twice, four failing calls, a crash and a lost lock: does what the saga is told agree with keys and debits, is each surplus answer paid by a crash or by a publication that threw after its effect, do the balances account for the debits, and is a lock freed only by its owner? | holds |
| `abat_reentrega` | is a nota debited at most once, as README.md:247 of the repository says? | violated |
| `imp_seguranca` | two prints of one nota, contradictory answers, consumers that connect late and lose their connections, two failing calls, a crash: what can the status come to, and how many events can a nota have? | holds |
| `imp_corrida` | is only an Aberta nota printed, as the comment at `nota_fiscal_handler.go:186` says? | violated |
| `saga_ciclo` | do the two services implement the life cycle, and does every printed nota end, when a connection drops? | holds |
| `saga_falhas` | one nota printed twice with failing calls on both sides, a crash of estoque-api and a connection that drops: what does its status say of the stock, and how often can it be debited? | holds |
| `tela_seguranca` | what can the screen be left with, whatever order answers, loads and pushes come in, and what leaves an answered nota waiting on it? | holds |
| `tela_integridade` | does the screen keep its integrity when a print request fails, as `nota-fiscal.service.ts:103` says? | violated |
| `cadastro_seguro` | two registrations and three creations: which notas and entries can result, and which numbers can repeat? | holds |
| `cadastro_repetido` | can a nota have a product twice, which `nota_fiscal.go:26` forbids? | violated |
| `conexao` | `main` and two callers connect and create tables and indexes at once, through two outages of SQL Server and a crash: what can a request be given, what does health say, and does the repository connect in the end? | holds |

What the violated ones show is written under "findings" in `PROJECT.json`.

**Bounds and why they are enough.** Every hazard listed in `PROJECT.json` involves at
most two actors on one resource, or one actor and one failure, so two notas, two
workers, two requests, two loads are used, and one failure of each kind. Two products
let two workers wait for each other. Four failing calls exhaust the three retries of
MassTransit and then the answer of the last attempt; three lock waits reach it in the
saga. In `MCAbatimentoEstoque` the stock is enough for each nota and not for both, so
that refusals, and overselling by a wrong step, can happen. `MCCadastro` has a
product written otherwise than its key, a second one, and an item without a code
(`cadastro_seguro`), or one product in two spellings and an item with a quantity of zero
(`cadastro_repetido`). `MaxEmissoes`, `MaxQuedas`, `MaxFalhas`, `MaxEsperas`, `MaxPerdas`,
`MaxErros`, `MaxReinicios`, `MaxRespostas`, `MaxAberturas` and `MaxDesconexoes` bound
counters that the code does not bound; the theorems hold for every value of them.
Locks are lost (`MaxPerdas`) only in `abat_falhas`: most properties of
`abat_concorrencia` are about leases that last, and `SemImpasse`, which is not, is proved
with lost locks too. All consumers may start unconnected and
drop in `imp_seguranca`, where one nota suffices; in the runs of the saga, which are the
largest, only the confirmation queue drops, because the three share one loop, and in
those of the screen none does. faturamento-api crashes in `imp_seguranca` and in `saga_ciclo` and
not in `saga_falhas`, which has room for the crash of one service; the theorems about its
properties have both. `cadastro_seguro` has three notas, because it takes one to be given
the greatest number and two to be numbered after it, and 2 as that number.
`conexao` has the two tables and three indexes of the code, two callers
because one must trip over another's `CREATE`, and two outages because a call
that failed must be followed by one that meets another.

**Deadlock.** `CHECK_DEADLOCK FALSE` is set, except in `conexao`, because every bounded
system stops once its requests are answered; that workers never wait for each
other is `SemImpasse`, that none waits for ever `TudoAssenta` and `TodaNotaTermina`. Symmetry is used only where no liveness is checked.

**Fairness.** Workers are weakly fair per step (`FairSpec`): MassTransit keeps a message
until `Consume` returned, and a task that is ready is scheduled. Taking a lock needs
no strong fairness because a waiting worker is bounded by the others' finite work.
A lock of a dead worker expires (its TTL), and the broker delivers what is queued. In
`FairSagaSpec` a request in progress runs on, each goroutine consumes or, in the loop
of `consumer.go:45-57`, connects again, and the one that started a compensation goes on with it; requests themselves are never obliged
to start. In `FairTelaSpec` only the gateway and the browser's event loop are fair: a
user is not, a reconnection is not, and neither is a timer or an HTTP answer.
`FimMostrado` says that a push in the gateway's queue reaches a screen that is
connected; it allows the connection to drop. In `ConexaoFaturamento` a goroutine that is
in a call goes on (`FairSpec`), nobody is obliged to make one, and SQL Server need not come
back: `Reconecta` has both in its antecedent.

## Proofs

All theorems hold for every set of notas, products, workers, requests and codes and
every bound. Assumptions are those named `...Assumption` next to the constants: types,
that the marks for "nothing" are not among the values, and that there are finitely many
workers (`TrabalhadorAssumption`, which only the counting and the argument about deadlock need).

**Consumer of estoque-api.** `TipoCorreto` needs that a worker in step `cache` read
enough balance, or a debit could leave `Nat`. `ExclusaoCorreta` and `LeituraCorreta`
assume that no lock was lost (`perdas = 0` inside the property); the argument is that a
balance read under a lock can only be changed by the owner of that lock, which is the
reader. `SaldoConservado` has two halves: the equality follows from the valid reads
(`SaldoInv`); with lost locks what remains is that balance and debits never add up to
less than the initial stock, because a balance that was read is at least the initial one
less the debits of now (`MinimoInv`): an overwritten debit gives units back and takes
none twice.
`LiberacaoCorreta` allows lost locks: by `DonoSabe` the owner in Redis always knows that
it holds the lock, so a release that compares the owner frees nobody else's.
`CacheCorreto` is inductive with `EntradaInv`: while nothing fails, an entry is the
balance unless the holder of the lock has yet to write it. `SilencioCorreto` rests on
`SilencioInv`: a published nota has a key or an answer, which are never taken back, or a
message still to be decided.
`RespostaCorreta` strengthens the invariant with what is known after the commit
(`DepoisDoCommit`). `Refinamento` maps every step to a step or a stutter of
`EstoqueAtomico` when `MaxPerdas = 0`; it uses all the invariants above.

**Counting.** `RespostasCorretas` and `DecisoesCorretas` bound what a message may lead to
without assuming that nothing fails: each unit too many is paid by a unit of
`falhas` or `quedas`. The invariant (`ContagemInv`) adds up answers (or decisions), queued
messages and the workers still owing one; a step moves one unit between those
terms or takes one from a failure (`Passa`, `LimitesCrescem`, and for a publication that threw
after its effect both bounds grow with the answer), and `TotalFica`, an argument
about cardinalities, says that the sum then stays within its bound for any number of
workers. The two bounds differ by the failing calls: a failure after the commit makes a
second decision possible, and a second answer only if it is that of a publication
(`incertas`).

**No deadlock.** `EsperaCorreta` proves `SemImpasse` for every set of waiting workers, of
any size. By `PassoInv` a waiting worker lacks a key larger than every one it
holds (`OrdemDasTravas`), so whoever it waits for, if it waits too, waits for a larger one
(`EsperaSobe`). Of a set of waiting workers, take one that waits for the largest key
(`Maximo`, which the finite cardinalities and a well-founded order give): the owner of that lock
is outside the set, and by `DonoSabe` it holds the lock, so it is at work.

**faturamento-api.** `PublicadaCorreta` and `StatusCorreto` are proved of `SpecLivre`,
where the other service may answer anything, any number of times. The strengthening
`PedidoInv` relates the step of each request to the status, and `ConsumoInv` says that
a consumer holds only a message that was sent. `PresaCorreta` follows an answer from the
queue on (`RespostaInv`): it is in a consumer's hands or has given the nota its
final status, unless one was lost or a late print wrote over it. `EventosCorretos` counts
the events of a nota: those published and the requests about to publish (`EmVoo`) are one at
most and one more for each late print (`EmissaoInv`), for any number of requests.

**Saga.** `ImplementaEstoque` and `ImplementaFaturamento` show that the composition is an
execution of each part, so that each part's theorems hold of it; `FechadaCorreta`
joins one theorem of each side: Fechada needs a delivered confirmation
(`StatusCorreto`), and a confirmation a debit (`RespostaCorreta`).
`PresaDebitadaCorreta` joins two others: a nota that stays EmProcessamento without a loss
had no answer (`PresaCorreta`), estoque-api is silent only about a nota whose key it saved
(`SilencioCorreto`), and the key is saved after the debit (`RespostaCorreta`).
`SagaCiclo_proofs` gathers what is known of each side (`EstoqueBom`, `FaturamentoBom`):
without a late print a nota has one event (`EventosCorretos`), an event has one answer while
estoque-api does not crash and none of its publications is in doubt (`RespostasCorretas`) and one decision while it does not
fail (`DecisoesCorretas`), and a status or a message in a consumer's hands goes back
to an answer (`StatusVemDaResposta`, `MaoVemDaResposta`; a compensation, to a dead letter
by `CompensacaoInv`). So no message contradicts a final status (`StatusEstavelCorreto`).
`DebitoContadoCorreto` adds up the counts of both sides: a nota has one event and one more for
each late print, an event one decision and one more for each failure or crash, and a nota
that is Cancelada has spent one of them on another decision than a debit.
`CicloCorreto` maps every step of the saga to a step or a stutter of `CicloDaNota` under
the restrictions of `saga_ciclo`, stated as hypotheses: one request of each nota
(`UmPedidoPorNota`, which makes `AguardaInv` say that no print is late) and a stock
consumer without failures, crashes or lost locks (`SemFalhasNoEstoque`). The debit is
the one of `EstoqueAtomico` (`PassoAtomico`), of a nota that is still EmProcessamento
because it was not decided before.

**Screen.** `TelaCorreta` carries, for each place a status can wait on its way to the
screen (a load that has read the database, the SignalR connection), that it was
announced (`AnuncioInv`); what a load reads is covered by `BancoAnunciado`, from
`StatusCorreto`, and announcements are never taken back. `DivergenciaCorreta` follows the
last announcement of a nota: each message of the gateway was shown, is on its way or was
missed (`ChegaInv`), the last push is on the screen unless an older answer came over it
(`AvisadaInv`), and when nobody works on a nota whose answers do not contradict each
other, every push was of its status (`QuietaConcorda`). `EsperaNaTelaCorreta` needs neither that
agreement nor the database: the gateway consumes queues of its own, so an answer that
faturamento-api lost still ends the waiting on the screen (`QuietaAvisada`).

**Connection.** `ConexaoCorreta` is inductive with `MigracaoInv`, which follows a pool from
its opening to the moment it is stored and says which tables and indexes exist by then
(`MigracaoDe`: all those of the tables before, and of this one all that are not in `faltam`).
`RecusaCorreta` needs `SerenaInv`: a call that began on a complete schema finds the
server, the database, every table and every index, and so creates nothing. `SaudeCorreta` needs `SaudeInv`: if `main` started
with a pool nobody else opens one.

**Registration.** `CriadoCorreto` is inductive with `SalvoNoCatalogo`: the unique index
is consulted when a row is inserted, not when the code was looked up.
`AceitaCorreta` carries, along the lookups of a nota, that what was found is in the
table (`ItensConsultados`, from `CacheNoCatalogo`), which no expiry undoes because
nothing removes a product. `NumeroCorreto` is inductive with `RepetidoInv`, which says the
same of every nota from the moment it has a number: the next number is greater than those
of the table, or is the least one after the greatest was used (`SeguinteNovo`), so only a
nota that is numbered and not inserted can have it too, and those are in `juntas`. `CatalogoCorreto` is inductive with the types.

**Only model-checked.** Liveness (`TudoAssenta`, `TodaNotaTermina`, `FimMostrado`,
`Reconecta`), which needs ENABLED. Every other property of the passing runs has a theorem.

## Not modelled

- Amounts (`ValorTotal`, `Subtotal`), descriptions, cancellation reasons and messages:
  no property depends on them.
- `TolerantIntConverter` and the 32-bit sums of the debit: quantities pass an INT column
  before they are published, so their width does not matter to the debit of one item.
- The balance that a registration writes into the cache, which a debit may overtake:
  nothing in the repository acts on the balance of an entry. faturamento-api only asks
  whether the entry exists and the debit reads the table.
- A `SendAsync` of the gateway that throws: no retry is configured there, and to the screen
  it is one more push that missed it.
- Column changes by `AutoMigrate` on an existing table: the schema of the model is the one
  this version of the code creates.
- Pages, filters and the dashboard of the frontend, which shows the same list with the
  same two subscriptions.
- The entries of Redis and RabbitMQ in the health endpoint, which keep no state.
- Correlation ids, middlewares, the reverse proxy, observability, load tests, generated
  documentation: no state that a property is about.

## Plan

1. Done: the saga (consumer, print, composition, life cycle), the screen, the
   registration, the connections to RabbitMQ and SQL Server, and a theorem about
   every property that is not liveness.
2. Left to extend: several pages in `TelaNotas`; `TelaNotas` over `SagaNota` instead of
   `ImpressaoNota`, once a smaller abstraction of the stock consumer is at hand;
   the pagination bounds as functions checked against a reference.
