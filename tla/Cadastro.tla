------------------------------- MODULE Cadastro -------------------------------
(***************************************************************************)
(* Registering products (ProdutoService of estoque-api) and creating notas *)
(* (CreateNotaFiscalHandler of faturamento-api), which meet in the product *)
(* cache of Redis: the first writes it after its INSERT, the second looks  *)
(* there, before it numbers and inserts the nota, whether a product exists.*)
(*                                                                         *)
(* A Grafia is a code as a client writes it; Chave is what is left of it   *)
(* after Trim and ToUpper.  The item of a nota has its code already taken  *)
(* from the first field given (codigo_produto, codigoProduto, produto_id). *)
(***************************************************************************)
EXTENDS Integers, Sequences

CONSTANTS
    Grafia, Chave,
    SemCodigo,        \* an item without any code
    Produto,          \* the POST /api/produtos requests
    Nota,             \* the POST /api/v1/notas-fiscais requests
    Pedidos,          \* the lists of items a request may carry
    NumerosDados,     \* values of numero_sequencial; 0 when it is not given
    MaxInt,           \* the greatest number of 64 bits, 2^63 - 1 in the code
    MaxFalhas,        \* failing calls to Redis or to a database
    MaxPerdas         \* cache entries that expire or are lost by Redis

Int64 == -(MaxInt + 1)..MaxInt

Item == [codigo : Grafia \cup {SemCodigo}, quantidade : Int, preco : Int]

ASSUME CadastroAssumption ==
    /\ DOMAIN Chave = Grafia
    /\ SemCodigo \notin Grafia
    /\ Pedidos \subseteq Seq(Item)
    /\ MaxInt \in Nat \ {0} /\ NumerosDados \subseteq Int64
    /\ MaxFalhas \in Nat /\ MaxPerdas \in Nat

Chaves == {Chave[g] : g \in Grafia}

VARIABLES
    \* estoque-api
    catalogo,      \* keys in the table produtos
    cache,         \* keys with an entry in Redis
    passo, codigo, \* step and code of each product request
    \* faturamento-api
    etapa, itens,  \* step and items of each nota request
    vistos,        \* items looked up in the cache
    numero,        \* NumeroSequencial
    gravadas,      \* rows of notas_fiscais, by the request that inserted them
    falhas, perdas,
    \* history
    semEntrada,    \* keys whose entry was not written, or was lost, and not renewed
    cegas,         \* notas with an item that Redis could not be asked about
    juntas,        \* notas with a number but not inserted when each took its own
    proprias       \* notas whose number was given, or whose query failed

produtoVars == <<passo, codigo>>
notaVars == <<etapa, itens, vistos, numero>>
notaHistoria == <<cegas, juntas, proprias>>
vars == <<catalogo, cache, produtoVars, notaVars, gravadas, falhas, perdas,
          semEntrada, notaHistoria>>

TypeOK ==
    /\ catalogo \subseteq Chaves /\ cache \subseteq Chaves
    /\ passo \in [Produto -> {"novo", "verificado", "salvo", "criado", "recusado", "erro"}]
    /\ codigo \in [Produto -> Grafia \cup {SemCodigo}]
    /\ \A c \in Produto : passo[c] \in {"verificado", "salvo", "criado"} =>
          codigo[c] \in Grafia
    /\ etapa \in [Nota -> {"novo", "consulta", "numerar", "gravar", "criada",
                           "recusada", "erro"}]
    /\ itens \in [Nota -> Seq(Item)]
    /\ vistos \in [Nota -> Nat] /\ numero \in [Nota -> Int64]
    /\ gravadas \subseteq Nota
    /\ falhas \in Nat /\ perdas \in Nat
    /\ semEntrada \subseteq Chaves /\ cegas \subseteq Nota
    /\ juntas \in [Nota -> SUBSET Nota] /\ proprias \subseteq Nota

SemFalha == UNCHANGED falhas
ComFalha == falhas < MaxFalhas /\ falhas' = falhas + 1

Init ==
    /\ catalogo = {} /\ cache = {}
    /\ passo = [c \in Produto |-> "novo"]
    /\ codigo = [c \in Produto |-> SemCodigo]
    /\ etapa = [q \in Nota |-> "novo"]
    /\ itens = [q \in Nota |-> <<>>]
    /\ vistos = [q \in Nota |-> 0] /\ numero = [q \in Nota |-> 0]
    /\ gravadas = {} /\ falhas = 0 /\ perdas = 0
    /\ semEntrada = {} /\ cegas = {}
    /\ juntas = [q \in Nota |-> {}] /\ proprias = {}

-----------------------------------------------------------------------------
(* POST /api/produtos *)

Avancar(c, s) == passo' = [passo EXCEPT ![c] = s]

\* The validator accepted the request; ExistsCodigoAsync is asked.
VerificarCodigo(c, g) ==
    /\ passo[c] = "novo"
    /\ codigo' = [codigo EXCEPT ![c] = g]
    /\ \/ Chave[g] \in catalogo /\ Avancar(c, "recusado") /\ SemFalha
       \/ Chave[g] \notin catalogo /\ Avancar(c, "verificado") /\ SemFalha
       \/ Avancar(c, "erro") /\ ComFalha
    /\ UNCHANGED <<catalogo, cache, notaVars, gravadas, perdas, semEntrada,
                   notaHistoria>>

\* Mutant: the index on the code is not unique.
MutSemIndice(c) == TRUE

\* The unique index of the table.
IndiceAceita(c) == Chave[codigo[c]] \notin catalogo

\* SaveChangesAsync: the loser of two requests gets a 500, and so does a request
\* whose INSERT was done but not answered; neither writes the cache.
SalvarProduto(c) ==
    LET p == Chave[codigo[c]] IN
    /\ passo[c] = "verificado"
    /\ \/ /\ IndiceAceita(c) /\ catalogo' = catalogo \cup {p}
          /\ \/ Avancar(c, "salvo") /\ SemFalha /\ UNCHANGED semEntrada
             \/ Avancar(c, "erro") /\ ComFalha /\ semEntrada' = semEntrada \cup {p}
       \/ ~IndiceAceita(c) /\ Avancar(c, "erro") /\ SemFalha
            /\ UNCHANGED <<catalogo, semEntrada>>
       \/ Avancar(c, "erro") /\ ComFalha /\ UNCHANGED <<catalogo, semEntrada>>
    /\ UNCHANGED <<cache, codigo, notaVars, gravadas, perdas, notaHistoria>>

\* Mutant: the entry is written under the code as it came.
MutCodigoCru(c) == {codigo[c]}

ChaveDoCache(c) == {Chave[codigo[c]]}

\* Mutant: the entry may be written before the product is saved.
MutPublicarAntes(c) ==
    /\ passo[c] \in {"verificado", "salvo"}
    /\ cache' = cache \cup ChaveDoCache(c)
    /\ Avancar(c, IF passo[c] = "salvo" THEN "criado" ELSE "verificado")
    /\ UNCHANGED <<catalogo, codigo, notaVars, gravadas, falhas, perdas, semEntrada,
                   notaHistoria>>

\* SetProdutoCacheAsync swallows its failure, and the request answers 201.
PublicarNoCache(c) ==
    /\ passo[c] = "salvo"
    /\ \/ cache' = cache \cup ChaveDoCache(c) /\ SemFalha /\ UNCHANGED semEntrada
       \/ UNCHANGED cache /\ ComFalha /\ semEntrada' = semEntrada \cup ChaveDoCache(c)
    /\ Avancar(c, "criado")
    /\ UNCHANGED <<catalogo, codigo, notaVars, gravadas, perdas, notaHistoria>>

\* The 24 hours are over, or Redis lost its memory.
PerderEntrada(p) ==
    /\ p \in cache /\ perdas < MaxPerdas
    /\ perdas' = perdas + 1
    /\ cache' = cache \ {p}
    /\ semEntrada' = semEntrada \cup {p}
    /\ UNCHANGED <<catalogo, produtoVars, notaVars, gravadas, falhas, notaHistoria>>

\* A debit of the product writes its entry again, with the new balance.
RenovarEntrada(p) ==
    /\ p \in catalogo \ cache
    /\ cache' = cache \cup {p}
    /\ semEntrada' = semEntrada \ {p}
    /\ UNCHANGED <<catalogo, produtoVars, notaVars, gravadas, falhas, perdas,
                   notaHistoria>>

-----------------------------------------------------------------------------
(* POST /api/v1/notas-fiscais *)

Seguir(q, s) == etapa' = [etapa EXCEPT ![q] = s]

\* ShouldBindJSON; without an answer to its PING, Redis is not asked at all.
ReceberNota(q, pedido, dado) ==
    /\ etapa[q] = "novo" /\ pedido # <<>>
    /\ itens' = [itens EXCEPT ![q] = pedido]
    /\ numero' = [numero EXCEPT ![q] = dado]
    /\ \/ Seguir(q, "consulta") /\ SemFalha /\ UNCHANGED cegas
       \/ Seguir(q, "numerar") /\ ComFalha /\ cegas' = cegas \cup {q}
    /\ UNCHANGED <<catalogo, cache, produtoVars, vistos, gravadas, perdas,
                   semEntrada, juntas, proprias>>

\* The loop looks up the other items too, but one missing entry decides.  An
\* item without a code is not looked up, and neither is one whose lookup
\* fails for another reason than a missing entry.
ConsultarItem(q) ==
    LET g == itens[q][vistos[q] + 1].codigo IN
    /\ etapa[q] = "consulta" /\ vistos[q] < Len(itens[q])
    /\ vistos' = [vistos EXCEPT ![q] = @ + 1]
    /\ \/ /\ g # SemCodigo => Chave[g] \in cache
          /\ UNCHANGED <<etapa, cegas>> /\ SemFalha
       \/ /\ g # SemCodigo /\ Chave[g] \notin cache
          /\ UNCHANGED cegas /\ Seguir(q, "recusada") /\ SemFalha
       \/ /\ g # SemCodigo
          /\ UNCHANGED etapa /\ cegas' = cegas \cup {q} /\ ComFalha
    /\ UNCHANGED <<catalogo, cache, produtoVars, itens, numero, gravadas, perdas,
                   semEntrada, juntas, proprias>>

FimDaConsulta(q) ==
    /\ etapa[q] = "consulta" /\ vistos[q] = Len(itens[q])
    /\ Seguir(q, "numerar")
    /\ UNCHANGED <<catalogo, cache, produtoVars, itens, vistos, numero, gravadas,
                   falhas, perdas, semEntrada, notaHistoria>>

\* k is COALESCE(MAX(numero_sequencial), 0).
MaxNumero(k) ==
    \/ gravadas = {} /\ k = 0
    \/ \E l \in gravadas : k = numero[l] /\ \A m \in gravadas : numero[m] <= k

\* Mutant: the next number is the greatest one itself.
MutSemSomar(k) == IF k <= 0 THEN 1 ELSE k

\* maxSeq + 1 in 64 bits; a maximum that is not positive counts as none.
Seguinte(k) == IF k <= 0 THEN 1 ELSE IF k = MaxInt THEN -(MaxInt + 1) ELSE k + 1

\* Any positive number that was given is kept; a failing query counts as an empty
\* table.
Numerar(q) ==
    /\ etapa[q] = "numerar" /\ Seguir(q, "gravar")
    /\ \/ numero[q] > 0 /\ UNCHANGED numero /\ SemFalha /\ proprias' = proprias \cup {q}
       \/ /\ numero[q] <= 0 /\ SemFalha /\ UNCHANGED proprias
          /\ \E k \in {0} \cup {numero[m] : m \in gravadas} :
                MaxNumero(k) /\ numero' = [numero EXCEPT ![q] = Seguinte(k)]
       \/ /\ numero[q] <= 0 /\ ComFalha /\ proprias' = proprias \cup {q}
          /\ numero' = [numero EXCEPT ![q] = 1]
    /\ juntas' = [juntas EXCEPT ![q] = {m \in Nota : etapa[m] = "gravar"}]
    /\ UNCHANGED <<catalogo, cache, produtoVars, itens, vistos, gravadas, perdas,
                   semEntrada, cegas>>

\* ValidateAndCalculate compares the codes as they are written.
Validos(l) ==
    /\ l # <<>>
    /\ \A i \in DOMAIN l :
          /\ l[i].codigo # SemCodigo
          /\ l[i].quantidade > 0 /\ l[i].preco >= 0
          /\ \A j \in DOMAIN l : l[j].codigo = l[i].codigo => i = j

\* An INSERT that was done may be answered as a failure.
Gravar(q) ==
    /\ etapa[q] = "gravar"
    /\ \/ ~Validos(itens[q]) /\ Seguir(q, "recusada") /\ UNCHANGED gravadas /\ SemFalha
       \/ /\ Validos(itens[q])
          /\ \/ /\ gravadas' = gravadas \cup {q}
                /\ \/ Seguir(q, "criada") /\ SemFalha
                   \/ Seguir(q, "erro") /\ ComFalha
             \/ UNCHANGED gravadas /\ Seguir(q, "erro") /\ ComFalha
    /\ UNCHANGED <<catalogo, cache, produtoVars, itens, vistos, numero, perdas,
                   semEntrada, notaHistoria>>

Next ==
    \/ \E c \in Produto :
          \/ \E g \in Grafia : VerificarCodigo(c, g)
          \/ SalvarProduto(c) \/ PublicarNoCache(c)
    \/ \E p \in Chaves : PerderEntrada(p) \/ RenovarEntrada(p)
    \/ \E q \in Nota :
          \/ \E pedido \in Pedidos, dado \in NumerosDados : ReceberNota(q, pedido, dado)
          \/ ConsultarItem(q) \/ FimDaConsulta(q) \/ Numerar(q) \/ Gravar(q)

Spec == Init /\ [][Next]_vars

-----------------------------------------------------------------------------
(* Safety *)

\* However requests for one code interleave, at most one is told that it
\* registered the product.
CriadoUmaVez ==
    \A c, d \in Produto :
        passo[c] \in {"salvo", "criado"} /\ passo[d] \in {"salvo", "criado"}
            /\ Chave[codigo[c]] = Chave[codigo[d]]
        => c = d

\* A nota whose items Redis was asked about has only products that are in the
\* table of estoque-api, though faturamento-api never looks there.
AceitaCadastrada ==
    \A q \in gravadas \ cegas : \A i \in DOMAIN itens[q] :
        Chave[itens[q][i].codigo] \in catalogo

\* A registered product is unknown to faturamento-api only while its request is
\* between the INSERT and the cache, or after its entry was lost: a client that
\* writes the code another way registers it all the same.
CatalogoNoCache ==
    \A p \in catalogo \ cache :
        \/ p \in semEntrada
        \/ \E c \in Produto : passo[c] = "salvo" /\ Chave[codigo[c]] = p

\* No index makes the number unique.  Two notas still share one only when a client
\* gave it or the query failed, when one of them was numbered between the query and
\* the INSERT of the other, or when the numbers are used up: once a nota has the
\* greatest one, as a client may ask, every automatic number is the least.
NumeroRepetidoTemCausa ==
    \A q, m \in gravadas :
        q # m /\ numero[q] = numero[m] =>
            \/ {q, m} \cap proprias # {}
            \/ q \in juntas[m] \/ m \in juntas[q]
            \/ /\ numero[q] = -(MaxInt + 1)
               /\ \E l \in gravadas : numero[l] = MaxInt

\* No nota has the same product twice.
NotaSemProdutoRepetido ==
    \A q \in gravadas : \A i, j \in DOMAIN itens[q] :
        Chave[itens[q][i].codigo] = Chave[itens[q][j].codigo] => i = j
=============================================================================
