-------------------------- MODULE ConexaoFaturamento --------------------------
(***************************************************************************)
(* How faturamento-api comes by its pool of connections to SQL Server.     *)
(* ConnectDB opens it, creates what is missing of the database, its tables *)
(* and their indexes, and leaves it in the global DB.  main calls it once; *)
(* if that failed, every later request and consumer that needs the         *)
(* repository calls it again, without a lock, until one leaves a pool in   *)
(* it.                                                                     *)
(*                                                                         *)
(* A pool is its number, 0 is nil.  The shared pointers are read and       *)
(* written whole, one access a step.                                       *)
(***************************************************************************)
EXTENDS Naturals

CONSTANTS
    Inicio,          \* the goroutine of main
    Chamador,        \* the requests and consumers that call getDB
    NTabelas,        \* tables AutoMigrate creates, in its order
    Indice,          \* the indexes, each created by a statement of its own
    TabelaDe,        \* the table of each index
    MaxQuedas,       \* times SQL Server goes out of reach
    MaxReinicios     \* crashes of faturamento-api

ASSUME InicioAssumption == Inicio \notin Chamador
ASSUME TabelasAssumption == NTabelas \in Nat /\ TabelaDe \in [Indice -> 1..NTabelas]

VARIABLES
    noAr,            \* SQL Server answers
    criado,          \* the database faturamentodb exists
    tabelas,         \* how many of its tables exist
    indices,         \* the indexes that exist
    banco,           \* database.DB
    repo,            \* r.db of the repository
    saude,           \* h.db of the health handler
    abertos,         \* pools opened by this process, none is ever closed
    pc, pool,        \* of each goroutine: its step, its db,
    tabela, faltam,  \* the table it is at, its indexes not dealt with yet,
    ausente,         \* and the one it has just found missing
    quedas, reinicios,
    serena           \* history: the schema was complete when the call to
                     \* ConnectDB began, and SQL Server has answered since

servidorVars == <<criado, tabelas, indices>>
migracaoVars == <<tabela, faltam, ausente>>
ponteiros == <<banco, repo, saude>>
vars == <<noAr, servidorVars, ponteiros, abertos, pc, pool, migracaoVars, quedas,
          reinicios, serena>>

Goroutine == Chamador \cup {Inicio}
Ociosa == {"ociosa", "atendida", "recusada"}
DeConnectDB == {"ping", "abrir", "master", "existe", "criar", "reabrir", "migrar",
                "criarTabela", "indexar", "verIndice", "criarIndice", "guardar"}
Etapa == Ociosa \cup DeConnectDB \cup {"getDB", "global", "entregar", "montar", "pronta"}

TiposLogicos ==
    noAr \in BOOLEAN /\ criado \in BOOLEAN /\ serena \in [Goroutine -> BOOLEAN]

TypeOK ==
    /\ TiposLogicos
    /\ tabelas \in 0..NTabelas /\ indices \subseteq Indice
    /\ banco \in Nat /\ repo \in Nat /\ saude \in Nat /\ abertos \in Nat
    /\ pc \in [Goroutine -> Etapa]
    /\ pool \in [Goroutine -> Nat] /\ tabela \in [Goroutine -> Nat]
    /\ faltam \in [Goroutine -> SUBSET Indice] /\ ausente \in [Goroutine -> SUBSET Indice]
    /\ quedas \in Nat /\ reinicios \in Nat

\* main calls ConnectDB before anything else runs.
PcInicial == [g \in Goroutine |-> IF g = Inicio THEN "ping" ELSE "ociosa"]
Zero == [g \in Goroutine |-> 0]
Nenhum == [g \in Goroutine |-> {}]
NenhumaSerena == [g \in Goroutine |-> FALSE]

Init ==
    /\ noAr \in BOOLEAN
    /\ criado = FALSE /\ tabelas = 0 /\ indices = {}
    /\ banco = 0 /\ repo = 0 /\ saude = 0 /\ abertos = 0
    /\ pc = PcInicial /\ pool = Zero
    /\ tabela = Zero /\ faltam = Nenhum /\ ausente = Nenhum
    /\ quedas = 0 /\ reinicios = 0
    /\ serena = NenhumaSerena

Vai(g, s) == pc' = [pc EXCEPT ![g] = s]
EsquemaCompleto == criado /\ tabelas = NTabelas /\ indices = Indice
IndicesDe(t) == {i \in Indice : TabelaDe[i] = t}

\* The end of ConnectDB with the pool p, or without one (0).
Devolver(g, p) ==
    /\ pool' = [pool EXCEPT ![g] = p]
    /\ Vai(g, IF g = Inicio THEN "montar" ELSE IF p = 0 THEN "recusada" ELSE "entregar")

Falhar(g) ==
    /\ Devolver(g, 0)
    /\ faltam' = [faltam EXCEPT ![g] = {}] /\ ausente' = [ausente EXCEPT ![g] = {}]
    /\ UNCHANGED <<servidorVars, ponteiros, abertos, tabela, serena>>

\* gorm.Open pings: it needs the server and the database.
NovoPool(g) ==
    /\ abertos' = abertos + 1
    /\ pool' = [pool EXCEPT ![g] = abertos + 1]
    /\ tabela' = [tabela EXCEPT ![g] = 1]
    /\ Vai(g, "migrar")
    /\ UNCHANGED <<servidorVars, ponteiros, faltam, ausente, serena>>

\* A step that only moves the program counter.
Segue(g, s) ==
    Vai(g, s) /\ UNCHANGED <<servidorVars, ponteiros, abertos, pool, migracaoVars, serena>>

-----------------------------------------------------------------------------
(* The repository *)

\* A request or a message needs the database; the HTTP server and the consumers
\* start after the repository was built.
Chamar(g) ==
    /\ g \in Chamador /\ pc[g] \in Ociosa /\ pc[Inicio] = "pronta"
    /\ Segue(g, "getDB")

\* Mutant: getDB trusts only ConnectDB to tell whether the pool works.
MutSempreConectar(g) ==
    /\ pc[g] = "getDB"
    /\ Segue(g, "ping")

GetDB(g) ==
    /\ pc[g] = "getDB"
    /\ Segue(g, IF repo # 0 THEN "atendida" ELSE "global")

\* Mutant: getDB does not connect again.
MutSemReconexao(g) ==
    /\ pc[g] = "global"
    /\ IF banco # 0
       THEN /\ pool' = [pool EXCEPT ![g] = banco] /\ Vai(g, "entregar")
            /\ UNCHANGED <<servidorVars, ponteiros, abertos, migracaoVars, serena>>
       ELSE Segue(g, "recusada")

LerGlobal(g) ==
    /\ pc[g] = "global"
    /\ IF banco # 0
       THEN /\ pool' = [pool EXCEPT ![g] = banco] /\ Vai(g, "entregar")
            /\ UNCHANGED <<servidorVars, ponteiros, abertos, migracaoVars, serena>>
       ELSE Segue(g, "ping")

\* r.db = db: the last of several concurrent callers stays.
Entregar(g) ==
    /\ pc[g] = "entregar"
    /\ repo' = pool[g] /\ Vai(g, "atendida")
    /\ UNCHANGED <<servidorVars, banco, saude, abertos, pool, migracaoVars, serena>>

\* main builds the repository and the health handler with what ConnectDB gave it.
Montar ==
    /\ pc[Inicio] = "montar"
    /\ repo' = pool[Inicio] /\ saude' = pool[Inicio] /\ Vai(Inicio, "pronta")
    /\ UNCHANGED <<servidorVars, banco, abertos, pool, migracaoVars, serena>>

-----------------------------------------------------------------------------
(* ConnectDB *)

Ping(g) ==
    /\ pc[g] = "ping"
    /\ IF banco # 0 /\ noAr THEN Devolver(g, banco) ELSE Vai(g, "abrir") /\ UNCHANGED pool
    /\ serena' = [serena EXCEPT ![g] = noAr /\ EsquemaCompleto]
    /\ UNCHANGED <<servidorVars, ponteiros, abertos, migracaoVars>>

Abrir(g) ==
    /\ pc[g] = "abrir"
    /\ IF noAr /\ criado THEN NovoPool(g) ELSE Segue(g, "master")

AbrirMaster(g) ==
    /\ pc[g] = "master"
    /\ IF noAr THEN Segue(g, "existe") ELSE Falhar(g)

\* IF NOT EXISTS (...) CREATE DATABASE is two steps of the server.
VerificarBanco(g) ==
    /\ pc[g] = "existe"
    /\ IF noAr THEN Segue(g, IF criado THEN "reabrir" ELSE "criar") ELSE Falhar(g)

CriarBanco(g) ==
    /\ pc[g] = "criar"
    /\ IF noAr /\ ~criado
       THEN /\ criado' = TRUE /\ Vai(g, "reabrir")
            /\ UNCHANGED <<tabelas, indices, ponteiros, abertos, pool, migracaoVars, serena>>
       ELSE Falhar(g)

Reabrir(g) ==
    /\ pc[g] = "reabrir"
    /\ IF noAr THEN NovoPool(g) ELSE Falhar(g)

\* Work on the indexes of the table goes on with those in f; without any, on to
\* the next table.
Restam(g, f, s) ==
    /\ faltam' = [faltam EXCEPT ![g] = f]
    /\ tabela' = IF f = {} THEN [tabela EXCEPT ![g] = @ + 1] ELSE tabela
    /\ Vai(g, IF f = {} THEN "migrar" ELSE s)

\* Mutant: the indexes of an existing table are created without looking for them.
MutIndexarSemVer(g) ==
    /\ pc[g] = "migrar"
    /\ IF tabela[g] > NTabelas THEN Segue(g, "guardar")
       ELSE IF ~noAr THEN Falhar(g)
       ELSE IF tabelas < tabela[g] THEN Segue(g, "criarTabela")
       ELSE /\ Restam(g, IndicesDe(tabela[g]), "indexar")
            /\ UNCHANGED <<servidorVars, ponteiros, abertos, pool, ausente, serena>>

\* Mutant: the pool is stored before its tables are there.
MutGuardarAntes(g) ==
    /\ pc[g] = "migrar"
    /\ Segue(g, "guardar")

\* Mutant: one entity more is migrated than the schema has tables.
MutMigrarUmaAMais(g) ==
    /\ pc[g] = "migrar"
    /\ IF tabela[g] > NTabelas + 1 THEN Segue(g, "guardar")
       ELSE IF ~noAr THEN Falhar(g)
       ELSE IF tabelas < tabela[g] THEN Segue(g, "criarTabela")
       ELSE /\ Restam(g, IndicesDe(tabela[g]), "verIndice")
            /\ UNCHANGED <<servidorVars, ponteiros, abertos, pool, ausente, serena>>

\* AutoMigrate looks for each table; it creates a missing one, and looks for the
\* indexes of one that exists.  An error leaves the pool open and out of reach.
Migrar(g) ==
    /\ pc[g] = "migrar"
    /\ IF tabela[g] > NTabelas THEN Segue(g, "guardar")
       ELSE IF ~noAr THEN Falhar(g)
       ELSE IF tabelas < tabela[g] THEN Segue(g, "criarTabela")
       ELSE /\ Restam(g, IndicesDe(tabela[g]), "verIndice")
            /\ UNCHANGED <<servidorVars, ponteiros, abertos, pool, ausente, serena>>

CriarTabela(g) ==
    /\ pc[g] = "criarTabela"
    /\ IF noAr /\ tabelas < tabela[g]
       THEN /\ tabelas' = tabela[g]
            /\ Restam(g, IndicesDe(tabela[g]), "indexar")
            /\ UNCHANGED <<criado, indices, ponteiros, abertos, pool, ausente, serena>>
       ELSE Falhar(g)

\* After its CREATE TABLE come the CREATE INDEX, without a look: one that another
\* caller has created in the meantime is an error.
Indexar(g) ==
    /\ pc[g] = "indexar"
    /\ \E i \in faltam[g] :
        IF noAr /\ i \notin indices
        THEN /\ indices' = indices \cup {i}
             /\ Restam(g, faltam[g] \ {i}, "indexar")
             /\ UNCHANGED <<criado, tabelas, ponteiros, abertos, pool, ausente, serena>>
        ELSE Falhar(g)

\* HasIndex and CREATE INDEX are two steps.
VerIndice(g) ==
    /\ pc[g] = "verIndice"
    /\ \E i \in faltam[g] :
        IF ~noAr THEN Falhar(g)
        ELSE IF i \in indices
        THEN /\ Restam(g, faltam[g] \ {i}, "verIndice")
             /\ UNCHANGED <<servidorVars, ponteiros, abertos, pool, ausente, serena>>
        ELSE /\ ausente' = [ausente EXCEPT ![g] = {i}] /\ Vai(g, "criarIndice")
             /\ UNCHANGED <<servidorVars, ponteiros, abertos, pool, tabela, faltam, serena>>

CriarIndice(g) ==
    /\ pc[g] = "criarIndice"
    /\ \E i \in ausente[g] :
        IF noAr /\ i \notin indices
        THEN /\ indices' = indices \cup {i}
             /\ ausente' = [ausente EXCEPT ![g] = {}]
             /\ Restam(g, faltam[g] \ {i}, "verIndice")
             /\ UNCHANGED <<criado, tabelas, ponteiros, abertos, pool, serena>>
        ELSE Falhar(g)

Guardar(g) ==
    /\ pc[g] = "guardar"
    /\ banco' = pool[g]
    /\ Devolver(g, pool[g])
    /\ UNCHANGED <<servidorVars, repo, saude, abertos, migracaoVars, serena>>

ConnectDB(g) ==
    \/ Ping(g) \/ Abrir(g) \/ AbrirMaster(g) \/ VerificarBanco(g) \/ CriarBanco(g)
    \/ Reabrir(g) \/ Migrar(g) \/ CriarTabela(g) \/ Indexar(g) \/ VerIndice(g)
    \/ CriarIndice(g) \/ Guardar(g)

-----------------------------------------------------------------------------
(* The environment *)

Cair ==
    /\ noAr /\ quedas < MaxQuedas
    /\ noAr' = FALSE /\ quedas' = quedas + 1
    /\ serena' = NenhumaSerena
    /\ UNCHANGED <<servidorVars, ponteiros, abertos, pc, pool, migracaoVars, reinicios>>

Voltar ==
    /\ ~noAr /\ noAr' = TRUE
    /\ UNCHANGED <<servidorVars, ponteiros, abertos, pc, pool, migracaoVars, quedas,
                   reinicios, serena>>

\* The process dies, at any point of a migration, and starts again.
Reiniciar ==
    /\ reinicios < MaxReinicios /\ reinicios' = reinicios + 1
    /\ banco' = 0 /\ repo' = 0 /\ saude' = 0 /\ abertos' = 0
    /\ pc' = PcInicial /\ pool' = Zero
    /\ tabela' = Zero /\ faltam' = Nenhum /\ ausente' = Nenhum
    /\ serena' = NenhumaSerena
    /\ UNCHANGED <<noAr, servidorVars, quedas>>

-----------------------------------------------------------------------------

PassoDe(g) ==
    /\ GetDB(g) \/ LerGlobal(g) \/ Entregar(g) \/ (g = Inicio /\ Montar) \/ ConnectDB(g)
    /\ UNCHANGED <<noAr, quedas, reinicios>>

Next ==
    \/ \E g \in Goroutine : PassoDe(g)
    \/ \E g \in Chamador : Chamar(g) /\ UNCHANGED <<noAr, quedas, reinicios>>
    \/ Cair \/ Voltar \/ Reiniciar

Spec == Init /\ [][Next]_vars

\* A goroutine in the middle of a call goes on.
FairSpec == Spec /\ \A g \in Goroutine : WF_vars(PassoDe(g))

-----------------------------------------------------------------------------

\* A pool that a request can come by has all its tables and indexes, whoever opened
\* it and whatever failed, crashed or collided before.
ConexaoMigrada == banco # 0 \/ repo # 0 \/ saude # 0 => EsquemaCompleto

\* HealthCheckHandler: the entry of SQL Server is UP.
SqlServerUp == saude # 0 /\ noAr

\* When the health endpoint says that SQL Server is UP, it says so of the pool the
\* requests use, the only one this process has opened, with its whole schema.
SaudeDoPoolUsado ==
    SqlServerUp => /\ EsquemaCompleto
                   /\ repo = saude /\ banco = saude
                   /\ abertos = 1

\* While SQL Server answers, ConnectDB fails only in calls that began before the
\* schema was complete: concurrent callers trip over each other's CREATE, also when
\* only an index is missing, and no one does once tables and indexes are there.
RecusaTemCausa == \A g \in Chamador : pc[g] = "recusada" => ~serena[g]

\* If SQL Server comes to stay and somebody keeps asking for the database, the
\* repository gets its pool, even when main started without one.
Reconecta ==
    <>[]noAr /\ (\E g \in Chamador : []<>(pc[g] = "getDB"))
    => <>(repo # 0)
=============================================================================
