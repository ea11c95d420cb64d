--------------------------- MODULE Cadastro_proofs ---------------------------
(***************************************************************************)
(* Proofs about Cadastro, for any codes, requests, lists of items and      *)
(* bounds.                                                                 *)
(***************************************************************************)
EXTENDS Cadastro, TLAPS

USE CadastroAssumption DEF SemFalha, ComFalha

-----------------------------------------------------------------------------
(* Types *)

LEMMA InitTipo == Init => TypeOK
  BY DEF Init, TypeOK, Int64

LEMMA PassoTipo == TypeOK /\ [Next]_vars => TypeOK'
<1> SUFFICES ASSUME TypeOK, [Next]_vars
             PROVE  TypeOK'
  OBVIOUS
<1> USE DEF TypeOK, Chaves
<1>1. ASSUME NEW c \in Produto, NEW g \in Grafia, VerificarCodigo(c, g)
      PROVE  TypeOK'
  <2>1. codigo' = [codigo EXCEPT ![c] = g]
    BY <1>1 DEF VerificarCodigo
  <2>2. \E s \in {"recusado", "verificado", "erro"} : passo' = [passo EXCEPT ![c] = s]
    BY <1>1 DEF VerificarCodigo, Avancar
  <2>3. falhas' \in Nat
    BY <1>1 DEF VerificarCodigo
  <2> QED
    BY <1>1, <2>1, <2>2, <2>3 DEF VerificarCodigo, notaVars, notaHistoria
<1>2. ASSUME NEW c \in Produto, SalvarProduto(c)
      PROVE  TypeOK'
  BY <1>2 DEF SalvarProduto, Avancar, notaVars, notaHistoria
<1>3. ASSUME NEW c \in Produto, PublicarNoCache(c)
      PROVE  TypeOK'
  BY <1>3 DEF PublicarNoCache, ChaveDoCache, Avancar, notaVars, notaHistoria
<1>4. ASSUME NEW p \in Chaves, PerderEntrada(p)
      PROVE  TypeOK'
  BY <1>4 DEF PerderEntrada, produtoVars, notaVars, notaHistoria
<1>5. ASSUME NEW p \in Chaves, RenovarEntrada(p)
      PROVE  TypeOK'
  BY <1>5 DEF RenovarEntrada, produtoVars, notaVars, notaHistoria
<1>6. ASSUME NEW q \in Nota, NEW pedido \in Pedidos, NEW dado \in NumerosDados,
             ReceberNota(q, pedido, dado)
      PROVE  TypeOK'
  <2>1. itens' \in [Nota -> Seq(Item)] /\ numero' \in [Nota -> Int64]
    BY <1>6 DEF ReceberNota
  <2>2. \E s \in {"consulta", "numerar"} : etapa' = [etapa EXCEPT ![q] = s]
    BY <1>6 DEF ReceberNota, Seguir
  <2>3. falhas' \in Nat /\ cegas' \subseteq Nota
    BY <1>6 DEF ReceberNota
  <2> QED
    BY <1>6, <2>1, <2>2, <2>3 DEF ReceberNota, produtoVars
<1>7. ASSUME NEW q \in Nota, ConsultarItem(q)
      PROVE  TypeOK'
  <2>1. etapa' = etapa \/ etapa' = [etapa EXCEPT ![q] = "recusada"]
    BY <1>7 DEF ConsultarItem, Seguir
  <2>2. vistos' \in [Nota -> Nat]
    BY <1>7 DEF ConsultarItem
  <2>3. falhas' \in Nat /\ cegas' \subseteq Nota
    BY <1>7 DEF ConsultarItem
  <2> QED
    BY <1>7, <2>1, <2>2, <2>3 DEF ConsultarItem, produtoVars
<1>8. ASSUME NEW q \in Nota, FimDaConsulta(q)
      PROVE  TypeOK'
  BY <1>8 DEF FimDaConsulta, Seguir, produtoVars, notaHistoria
<1>9. ASSUME NEW q \in Nota, Numerar(q)
      PROVE  TypeOK'
  <2>1. etapa' = [etapa EXCEPT ![q] = "gravar"]
    BY <1>9 DEF Numerar, Seguir
  <2>2. numero' \in [Nota -> Int64]
    <3>1. ASSUME NEW k \in Int64, numero' = [numero EXCEPT ![q] = Seguinte(k)]
          PROVE  numero' \in [Nota -> Int64]
      <4>1. Seguinte(k) \in Int64
        BY DEF Seguinte, Int64
      <4> QED
        BY <3>1, <4>1
    <3>2. {0} \cup {numero[m] : m \in gravadas} \subseteq Int64 /\ 1 \in Int64
      BY DEF Int64
    <3> QED
      BY <1>9, <3>1, <3>2 DEF Numerar
  <2>3. falhas' \in Nat /\ proprias' \subseteq Nota
    BY <1>9 DEF Numerar
  <2>4. juntas' \in [Nota -> SUBSET Nota]
    BY <1>9 DEF Numerar
  <2> QED
    BY <1>9, <2>1, <2>2, <2>3, <2>4 DEF Numerar, produtoVars
<1>10. ASSUME NEW q \in Nota, Gravar(q)
       PROVE  TypeOK'
  <2>1. falhas' \in Nat
    BY <1>10 DEF Gravar
  <2>2. gravadas' \subseteq Nota
    BY <1>10 DEF Gravar
  <2>3. etapa' \in [Nota -> {"novo", "consulta", "numerar", "gravar", "criada",
                             "recusada", "erro"}]
    BY <1>10 DEF Gravar, Seguir
  <2> QED
    BY <1>10, <2>1, <2>2, <2>3 DEF Gravar, produtoVars, notaVars, notaHistoria
<1>11. CASE UNCHANGED vars
  BY <1>11 DEF vars, produtoVars, notaVars, notaHistoria
<1> QED
  BY <1>1, <1>2, <1>3, <1>4, <1>5, <1>6, <1>7, <1>8, <1>9, <1>10, <1>11 DEF Next

\* Type correctness of the registration of products and of notas.
THEOREM TipoCorreto == Spec => []TypeOK
  BY InitTipo, PassoTipo, PTL DEF Spec

-----------------------------------------------------------------------------
(* A code is registered once *)

\* What was inserted stays in the table.
SalvoNoCatalogo ==
    \A c \in Produto : passo[c] \in {"salvo", "criado"} => Chave[codigo[c]] \in catalogo

IndCriado == TypeOK /\ SalvoNoCatalogo /\ CriadoUmaVez

LEMMA PassoCriado ==
  ASSUME TypeOK, SalvoNoCatalogo, [Next]_vars
  PROVE  SalvoNoCatalogo' /\ (CriadoUmaVez => CriadoUmaVez')
<1> DEFINE Meta == SalvoNoCatalogo' /\ (CriadoUmaVez => CriadoUmaVez')
<1> USE DEF TypeOK, SalvoNoCatalogo, CriadoUmaVez, Avancar
<1>1. ASSUME NEW c \in Produto, NEW g \in Grafia, VerificarCodigo(c, g)
      PROVE  Meta
  <2>1. \A d \in Produto : passo'[d] \in {"salvo", "criado"} =>
            passo'[d] = passo[d] /\ codigo'[d] = codigo[d]
    BY <1>1 DEF VerificarCodigo
  <2>2. catalogo' = catalogo
    BY <1>1 DEF VerificarCodigo
  <2> QED
    BY <2>1, <2>2
<1>2. ASSUME NEW c \in Produto, SalvarProduto(c)
      PROVE  Meta
  <2>1. codigo' = codigo /\ catalogo \subseteq catalogo'
    BY <1>2 DEF SalvarProduto
  <2>2. \A d \in Produto : d # c => passo'[d] = passo[d]
    BY <1>2 DEF SalvarProduto
  <2>3. passo'[c] \in {"salvo", "criado"} =>
            Chave[codigo[c]] \notin catalogo /\ Chave[codigo[c]] \in catalogo'
    BY <1>2 DEF SalvarProduto, IndiceAceita
  <2> QED
    BY <2>1, <2>2, <2>3
<1>3. ASSUME NEW c \in Produto, PublicarNoCache(c)
      PROVE  Meta
  <2>1. codigo' = codigo /\ catalogo' = catalogo
    BY <1>3 DEF PublicarNoCache
  <2>2. \A d \in Produto : passo'[d] \in {"salvo", "criado"} =>
            passo[d] \in {"salvo", "criado"}
    BY <1>3 DEF PublicarNoCache
  <2> QED
    BY <2>1, <2>2
<1>4. CASE UNCHANGED <<catalogo, passo, codigo>>
  BY <1>4
<1>5. ASSUME NEW p \in Chaves, PerderEntrada(p) \/ RenovarEntrada(p)
      PROVE  Meta
  BY <1>4, <1>5 DEF PerderEntrada, RenovarEntrada, produtoVars
<1>6. ASSUME NEW q \in Nota,
             \/ \E pedido \in Pedidos, dado \in NumerosDados : ReceberNota(q, pedido, dado)
             \/ ConsultarItem(q) \/ FimDaConsulta(q) \/ Numerar(q) \/ Gravar(q)
      PROVE  Meta
  <2>1. UNCHANGED <<catalogo, produtoVars>>
    BY <1>6 DEF ReceberNota, ConsultarItem, FimDaConsulta, Numerar, Gravar
  <2> QED
    BY <1>4, <2>1 DEF produtoVars
<1> QED
  BY <1>1, <1>2, <1>3, <1>4, <1>5, <1>6 DEF Next, vars, produtoVars

\* At most one of the requests for a code is told that it registered the product,
\* although each asks before it inserts whether the code is taken.
THEOREM CriadoCorreto == Spec => []CriadoUmaVez
<1>1. Init => IndCriado
  BY InitTipo DEF Init, IndCriado, SalvoNoCatalogo, CriadoUmaVez
<1>2. IndCriado /\ [Next]_vars => IndCriado'
  BY PassoTipo, PassoCriado DEF IndCriado
<1>3. IndCriado => CriadoUmaVez
  BY DEF IndCriado
<1> QED
  BY <1>1, <1>2, <1>3, PTL DEF Spec

-----------------------------------------------------------------------------
(* A nota refers to registered products *)

\* Only what is in the table is in the cache.
CacheNoCatalogo == cache \subseteq catalogo

\* The items a nota looked up and found, and how far it must have looked.
Consultados(q) ==
    /\ \A i \in DOMAIN itens[q] :
          i <= vistos[q] /\ itens[q][i].codigo # SemCodigo /\ etapa[q] # "recusada"
          => Chave[itens[q][i].codigo] \in catalogo
    /\ etapa[q] = "novo" => vistos[q] = 0
    /\ etapa[q] \in {"numerar", "gravar", "criada", "erro"} => vistos[q] = Len(itens[q])

ItensConsultados == \A q \in Nota \ cegas : Consultados(q)

GravadaValida ==
    \A q \in gravadas : etapa[q] \in {"criada", "erro"} /\ Validos(itens[q])

IndAceita ==
    TypeOK /\ SalvoNoCatalogo /\ CacheNoCatalogo /\ ItensConsultados /\ GravadaValida

LEMMA PassoCache == IndAceita /\ [Next]_vars => CacheNoCatalogo' /\ catalogo \subseteq catalogo'
<1> SUFFICES ASSUME IndAceita, [Next]_vars
             PROVE  CacheNoCatalogo' /\ catalogo \subseteq catalogo'
  OBVIOUS
<1> USE DEF IndAceita, TypeOK, CacheNoCatalogo
<1>1. ASSUME NEW c \in Produto, NEW g \in Grafia, VerificarCodigo(c, g)
      PROVE  CacheNoCatalogo' /\ catalogo \subseteq catalogo'
  BY <1>1 DEF VerificarCodigo
<1>2. ASSUME NEW c \in Produto, SalvarProduto(c)
      PROVE  CacheNoCatalogo' /\ catalogo \subseteq catalogo'
  BY <1>2 DEF SalvarProduto
<1>3. ASSUME NEW c \in Produto, PublicarNoCache(c)
      PROVE  CacheNoCatalogo' /\ catalogo \subseteq catalogo'
  BY <1>3 DEF PublicarNoCache, ChaveDoCache, SalvoNoCatalogo
<1>4. ASSUME NEW p \in Chaves, PerderEntrada(p) \/ RenovarEntrada(p)
      PROVE  CacheNoCatalogo' /\ catalogo \subseteq catalogo'
  BY <1>4 DEF PerderEntrada, RenovarEntrada
<1>5. ASSUME NEW q \in Nota,
             \/ \E pedido \in Pedidos, dado \in NumerosDados : ReceberNota(q, pedido, dado)
             \/ ConsultarItem(q) \/ FimDaConsulta(q) \/ Numerar(q) \/ Gravar(q)
      PROVE  CacheNoCatalogo' /\ catalogo \subseteq catalogo'
  BY <1>5 DEF ReceberNota, ConsultarItem, FimDaConsulta, Numerar, Gravar
<1> QED
  BY <1>1, <1>2, <1>3, <1>4, <1>5 DEF Next, vars

\* The step of one nota leaves what is known of the others.
LEMMA PassoConsultados == IndAceita /\ [Next]_vars => ItensConsultados' /\ GravadaValida'
<1> SUFFICES ASSUME IndAceita, [Next]_vars
             PROVE  ItensConsultados' /\ GravadaValida'
  OBVIOUS
<1>0. catalogo \subseteq catalogo'
  BY PassoCache
<1> USE <1>0 DEF IndAceita, TypeOK, ItensConsultados, Consultados, GravadaValida
<1>1. ASSUME NEW q \in Nota, NEW pedido \in Pedidos, NEW dado \in NumerosDados,
             ReceberNota(q, pedido, dado)
      PROVE  ItensConsultados' /\ GravadaValida'
  <2>1. \A m \in Nota : m # q => etapa'[m] = etapa[m] /\ itens'[m] = itens[m]
    BY <1>1 DEF ReceberNota, Seguir
  <2>2. UNCHANGED <<vistos, gravadas>> /\ cegas \subseteq cegas' /\ q \notin gravadas
    BY <1>1 DEF ReceberNota
  <2>3. q \notin cegas' => vistos[q] = 0 /\ etapa'[q] = "consulta"
    BY <1>1 DEF ReceberNota, Seguir
  <2>4. GravadaValida'
    BY <2>1, <2>2
  <2>5. \A i \in DOMAIN itens'[q] : i \in Nat /\ i > 0
    BY <1>1 DEF ReceberNota
  <2>6. q \notin cegas' => Consultados(q)'
    BY <2>2, <2>3, <2>5
  <2>7. \A m \in Nota \ cegas' : m # q => Consultados(m)'
    BY <2>1, <2>2
  <2> QED
    BY <2>4, <2>6, <2>7
<1>2. ASSUME NEW q \in Nota, ConsultarItem(q)
      PROVE  ItensConsultados' /\ GravadaValida'
  <2>1. UNCHANGED <<itens, gravadas>> /\ cegas \subseteq cegas' /\ q \notin gravadas
    BY <1>2 DEF ConsultarItem
  <2>2. \A m \in Nota : m # q => etapa'[m] = etapa[m] /\ vistos'[m] = vistos[m]
    BY <1>2 DEF ConsultarItem, Seguir
  <2>3. etapa'[q] \in {"consulta", "recusada"} /\ vistos'[q] = vistos[q] + 1
    BY <1>2 DEF ConsultarItem, Seguir
  <2>4. q \notin cegas' /\ etapa'[q] # "recusada" =>
            \/ itens[q][vistos[q] + 1].codigo = SemCodigo
            \/ Chave[itens[q][vistos[q] + 1].codigo] \in catalogo
    BY <1>2 DEF ConsultarItem, Seguir, CacheNoCatalogo
  <2>5. ASSUME NEW i \in DOMAIN itens[q], q \notin cegas', etapa'[q] # "recusada",
               i <= vistos'[q], itens[q][i].codigo # SemCodigo
        PROVE  Chave[itens[q][i].codigo] \in catalogo
    <3>1. i \in Nat /\ (i <= vistos[q] \/ i = vistos[q] + 1)
      BY <2>3, <2>5
    <3>2. etapa[q] = "consulta" /\ q \notin cegas
      BY <1>2, <2>1, <2>5 DEF ConsultarItem
    <3> QED
      BY <2>4, <2>5, <3>1, <3>2
  <2>6. q \notin cegas' => Consultados(q)'
    BY <2>1, <2>3, <2>5
  <2>7. \A m \in Nota \ cegas' : m # q => Consultados(m)'
    BY <2>1, <2>2
  <2>8. GravadaValida'
    BY <2>1, <2>2
  <2> QED
    BY <2>6, <2>7, <2>8
<1>3. ASSUME NEW q \in Nota, FimDaConsulta(q)
      PROVE  ItensConsultados' /\ GravadaValida'
  BY <1>3 DEF FimDaConsulta, Seguir, notaHistoria
<1>4. ASSUME NEW q \in Nota, Numerar(q)
      PROVE  ItensConsultados' /\ GravadaValida'
  <2>1. UNCHANGED <<itens, vistos, gravadas, cegas>>
    BY <1>4 DEF Numerar
  <2>2. etapa[q] = "numerar" /\ etapa' = [etapa EXCEPT ![q] = "gravar"]
    BY <1>4 DEF Numerar, Seguir
  <2> QED
    BY <2>1, <2>2
<1>5. ASSUME NEW q \in Nota, Gravar(q)
      PROVE  ItensConsultados' /\ GravadaValida'
  <2>1. UNCHANGED <<itens, vistos, cegas>> /\ etapa[q] = "gravar"
    BY <1>5 DEF Gravar, notaHistoria
  <2>2. \E s \in {"criada", "recusada", "erro"} : etapa' = [etapa EXCEPT ![q] = s]
    BY <1>5 DEF Gravar, Seguir
  <2>3. gravadas' = gravadas \/
        (gravadas' = gravadas \cup {q} /\ Validos(itens[q]) /\ etapa'[q] \in {"criada", "erro"})
    BY <1>5 DEF Gravar, Seguir
  <2>4. q \notin gravadas
    BY <2>1
  <2>5. \A m \in Nota : m # q => etapa'[m] = etapa[m]
    BY <2>2
  <2>6. GravadaValida'
    BY <2>1, <2>3, <2>4, <2>5
  <2>7. etapa'[q] \in {"criada", "recusada", "erro"}
    BY <2>2
  <2>8. ItensConsultados'
    BY <2>1, <2>5, <2>7
  <2> QED
    BY <2>6, <2>8
<1>6. CASE UNCHANGED <<itens, vistos, etapa, cegas, gravadas>>
  BY <1>6
<1>7. ASSUME NEW c \in Produto,
             \/ \E g \in Grafia : VerificarCodigo(c, g)
             \/ SalvarProduto(c) \/ PublicarNoCache(c)
      PROVE  ItensConsultados' /\ GravadaValida'
  <2>1. UNCHANGED <<notaVars, cegas, gravadas>>
    BY <1>7 DEF VerificarCodigo, SalvarProduto, PublicarNoCache, notaHistoria
  <2> QED
    BY <1>6, <2>1 DEF notaVars
<1>8. ASSUME NEW p \in Chaves, PerderEntrada(p) \/ RenovarEntrada(p)
      PROVE  ItensConsultados' /\ GravadaValida'
  BY <1>6, <1>8 DEF PerderEntrada, RenovarEntrada, notaVars, notaHistoria
<1> QED
  BY <1>1, <1>2, <1>3, <1>4, <1>5, <1>6, <1>7, <1>8
  DEF Next, vars, notaVars, notaHistoria

\* Whatever expires, fails or interleaves, the items of a nota that Redis answered
\* for are in the catalogue of the other service.
THEOREM AceitaCorreta == Spec => []AceitaCadastrada
<1>1. Init => IndAceita
  BY InitTipo DEF Init, IndAceita, SalvoNoCatalogo, CacheNoCatalogo, ItensConsultados,
     Consultados, GravadaValida
<1>2. IndAceita /\ [Next]_vars => IndAceita'
  <2> SUFFICES ASSUME IndAceita, [Next]_vars
               PROVE  IndAceita'
    OBVIOUS
  <2>1. TypeOK' /\ CacheNoCatalogo' /\ ItensConsultados' /\ GravadaValida'
    BY PassoTipo, PassoCache, PassoConsultados DEF IndAceita
  <2>2. SalvoNoCatalogo'
    BY PassoCriado DEF IndAceita
  <2> QED
    BY <2>1, <2>2 DEF IndAceita
<1>3. IndAceita => AceitaCadastrada
  <2> SUFFICES ASSUME IndAceita, NEW q \in gravadas \ cegas, NEW i \in DOMAIN itens[q]
               PROVE  Chave[itens[q][i].codigo] \in catalogo
    BY DEF AceitaCadastrada
  <2>1. q \in Nota /\ itens[q] \in Seq(Item)
    BY DEF IndAceita, TypeOK
  <2>2. etapa[q] \in {"criada", "erro"} /\ itens[q][i].codigo # SemCodigo
    BY DEF IndAceita, GravadaValida, Validos
  <2>3. vistos[q] = Len(itens[q])
    BY <2>1, <2>2 DEF IndAceita, ItensConsultados, Consultados
  <2>4. i <= vistos[q]
    BY <2>1, <2>3
  <2> QED
    BY <2>1, <2>2, <2>4 DEF IndAceita, ItensConsultados, Consultados
<1> QED
  BY <1>1, <1>2, <1>3, PTL DEF Spec

-----------------------------------------------------------------------------
(* Numbers repeat only for a cause *)

\* A nota is inserted once its request took a number, and for good.
GravadaNumerada == \A q \in gravadas : etapa[q] \in {"criada", "erro"}

\* Its number was taken, and it is in the table or may still come there.
ComNumero(q) == etapa[q] = "gravar" \/ q \in gravadas

\* Why q and m may have the same number.
Causa(q, m) ==
    \/ {q, m} \cap proprias # {}
    \/ q \in juntas[m] \/ m \in juntas[q]
    \/ numero[q] = -(MaxInt + 1) /\ \E l \in gravadas : numero[l] = MaxInt

\* NumeroRepetidoTemCausa from the moment both numbers are taken.
RepetidoInv ==
    \A q, m \in Nota :
        q # m /\ ComNumero(q) /\ ComNumero(m) /\ numero[q] = numero[m] => Causa(q, m)

IndNumero == TypeOK /\ GravadaNumerada /\ RepetidoInv

\* The next number is one that no inserted nota has, unless they are used up.
LEMMA SeguinteNovo ==
  ASSUME TypeOK, NEW k \in Int, MaxNumero(k), NEW m \in gravadas, Seguinte(k) = numero[m]
  PROVE  Seguinte(k) = -(MaxInt + 1) /\ \E l \in gravadas : numero[l] = MaxInt
<1>1. PICK l \in gravadas : k = numero[l] /\ \A x \in gravadas : numero[x] <= k
  BY DEF MaxNumero
<1>2. numero[m] <= k /\ numero[m] \in Int64 /\ k \in Int64
  BY <1>1 DEF TypeOK
<1>3. k = MaxInt
  BY <1>2 DEF Seguinte, Int64
<1>4. MaxInt \in Nat /\ MaxInt > 0
  BY CadastroAssumption
<1>5. Seguinte(k) = -(MaxInt + 1)
  BY <1>3, <1>4 DEF Seguinte
<1> QED
  BY <1>1, <1>3, <1>5

\* A step that numbers nobody changes no number that is in use.
LEMMA NumeroMantido ==
  ASSUME IndNumero, UNCHANGED <<juntas, proprias>>, gravadas \subseteq gravadas',
         \A q \in Nota : ComNumero(q)' => ComNumero(q) /\ numero'[q] = numero[q]
  PROVE  RepetidoInv'
<1> SUFFICES ASSUME NEW q \in Nota, NEW m \in Nota, q # m, ComNumero(q)', ComNumero(m)',
                    numero'[q] = numero'[m]
             PROVE  Causa(q, m)'
  BY DEF RepetidoInv
<1>1. Causa(q, m) /\ numero'[q] = numero[q]
  BY DEF IndNumero, RepetidoInv
<1>2. \A l \in gravadas : l \in gravadas' /\ numero'[l] = numero[l]
  <2> SUFFICES ASSUME NEW l \in gravadas
               PROVE  l \in gravadas' /\ numero'[l] = numero[l]
    OBVIOUS
  <2>1. l \in Nota /\ ComNumero(l)'
    BY DEF IndNumero, TypeOK, ComNumero
  <2> QED
    BY <2>1
<1> QED
  BY <1>1, <1>2 DEF Causa

LEMMA PassoNumerar ==
  ASSUME IndNumero, NEW q \in Nota, Numerar(q)
  PROVE  RepetidoInv'
<1>1. /\ gravadas' = gravadas /\ gravadas \subseteq Nota /\ q \notin gravadas
      /\ proprias \subseteq proprias'
  BY DEF IndNumero, TypeOK, GravadaNumerada, Numerar
<1>2. \A m \in Nota : m # q =>
          etapa'[m] = etapa[m] /\ numero'[m] = numero[m] /\ juntas'[m] = juntas[m]
  BY DEF IndNumero, TypeOK, Numerar, Seguir
<1>3. \A m \in Nota : etapa[m] = "gravar" => m \in juntas'[q]
  BY DEF IndNumero, TypeOK, Numerar
\* The new number against that of a nota in the table.
<1>4. \A m \in gravadas : numero'[m] = numero[m]
  BY <1>1, <1>2
<1>5. ASSUME NEW m \in gravadas, q \notin proprias', numero'[q] = numero[m]
      PROVE  numero'[q] = -(MaxInt + 1) /\ \E l \in gravadas' : numero'[l] = MaxInt
  <2>1. PICK k \in {0} \cup {numero[x] : x \in gravadas} :
            MaxNumero(k) /\ numero' = [numero EXCEPT ![q] = Seguinte(k)]
    BY <1>5 DEF Numerar, IndNumero, TypeOK
  <2>2. k \in Int /\ numero'[q] = Seguinte(k)
    BY <2>1 DEF IndNumero, TypeOK, Int64
  <2>3. Seguinte(k) = -(MaxInt + 1) /\ \E l \in gravadas : numero[l] = MaxInt
    BY <1>5, <2>1, <2>2, SeguinteNovo DEF IndNumero
  <2> QED
    BY <1>1, <1>4, <2>2, <2>3
<1>6. ASSUME NEW m \in Nota, m # q, ComNumero(m)', numero'[q] = numero'[m]
      PROVE  Causa(q, m)' /\ Causa(m, q)'
  <2>1. CASE etapa[m] = "gravar"
    BY <1>3, <2>1 DEF Causa
  <2>2. CASE m \in gravadas
    BY <1>4, <1>5, <1>6, <2>2 DEF Causa
  <2> QED
    BY <1>1, <1>2, <1>6, <2>1, <2>2 DEF ComNumero
<1>7. ASSUME NEW l \in Nota, NEW m \in Nota, l # m, l # q, m # q, ComNumero(l)', ComNumero(m)',
             numero'[l] = numero'[m]
      PROVE  Causa(l, m)'
  <2>1. ComNumero(l) /\ ComNumero(m) /\ numero[l] = numero[m]
    BY <1>1, <1>2, <1>7 DEF ComNumero
  <2>2. Causa(l, m)
    BY <1>7, <2>1 DEF IndNumero, RepetidoInv
  <2> QED
    BY <1>1, <1>2, <1>4, <1>7, <2>2 DEF Causa
<1> QED
  BY <1>6, <1>7 DEF RepetidoInv

LEMMA PassoNumero == IndNumero /\ [Next]_vars => GravadaNumerada' /\ RepetidoInv'
<1> SUFFICES ASSUME IndNumero, [Next]_vars
             PROVE  GravadaNumerada' /\ RepetidoInv'
  OBVIOUS
<1> USE DEF GravadaNumerada, Seguir
<1>0. TypeOK /\ GravadaNumerada
  BY DEF IndNumero
<1>1. ASSUME NEW q \in Nota, NEW pedido \in Pedidos, NEW dado \in NumerosDados,
             ReceberNota(q, pedido, dado)
      PROVE  GravadaNumerada' /\ RepetidoInv'
  <2>1. UNCHANGED <<gravadas, juntas, proprias>> /\ q \notin gravadas
    BY <1>0, <1>1 DEF ReceberNota
  <2>2. \A m \in Nota : m # q => etapa'[m] = etapa[m] /\ numero'[m] = numero[m]
    BY <1>0, <1>1 DEF ReceberNota, TypeOK
  <2>3. etapa'[q] \in {"consulta", "numerar"}
    BY <1>0, <1>1 DEF ReceberNota, TypeOK
  <2>4. \A m \in Nota : ComNumero(m)' => ComNumero(m) /\ numero'[m] = numero[m]
    BY <2>1, <2>2, <2>3 DEF ComNumero
  <2>5. RepetidoInv'
    BY <2>1, <2>4, NumeroMantido
  <2> QED
    BY <1>0, <2>1, <2>2, <2>5 DEF TypeOK
<1>2. ASSUME NEW q \in Nota, ConsultarItem(q) \/ FimDaConsulta(q)
      PROVE  GravadaNumerada' /\ RepetidoInv'
  <2>1. UNCHANGED <<numero, gravadas, juntas, proprias>> /\ q \notin gravadas
    BY <1>0, <1>2 DEF ConsultarItem, FimDaConsulta, notaHistoria
  <2>2. \A m \in Nota : m # q => etapa'[m] = etapa[m]
    BY <1>0, <1>2 DEF ConsultarItem, FimDaConsulta, TypeOK
  <2>3. etapa'[q] \in {"consulta", "recusada", "numerar"}
    BY <1>0, <1>2 DEF ConsultarItem, FimDaConsulta, TypeOK
  <2>4. \A m \in Nota : ComNumero(m)' => ComNumero(m) /\ numero'[m] = numero[m]
    BY <2>1, <2>2, <2>3 DEF ComNumero
  <2>5. RepetidoInv'
    BY <2>1, <2>4, NumeroMantido
  <2> QED
    BY <1>0, <2>1, <2>2, <2>5 DEF TypeOK
<1>3. ASSUME NEW q \in Nota, Numerar(q)
      PROVE  GravadaNumerada' /\ RepetidoInv'
  <2>1. gravadas' = gravadas /\ q \notin gravadas
    BY <1>0, <1>3 DEF Numerar
  <2>2. \A m \in Nota : m # q => etapa'[m] = etapa[m]
    BY <1>0, <1>3 DEF Numerar, TypeOK
  <2> QED
    BY <1>0, <1>3, <2>1, <2>2, PassoNumerar DEF TypeOK
<1>4. ASSUME NEW q \in Nota, Gravar(q)
      PROVE  GravadaNumerada' /\ RepetidoInv'
  <2>1. UNCHANGED <<numero, juntas, proprias>> /\ etapa[q] = "gravar"
    BY <1>4 DEF Gravar, notaHistoria
  <2>2. gravadas \subseteq gravadas' /\ gravadas' \subseteq gravadas \cup {q}
    BY <1>4 DEF Gravar
  <2>3. \A m \in Nota : m # q => etapa'[m] = etapa[m]
    BY <1>0, <1>4 DEF Gravar, TypeOK
  <2>4. q \in gravadas' => etapa'[q] \in {"criada", "erro"}
    BY <1>0, <1>4 DEF Gravar, TypeOK
  <2>5. GravadaNumerada'
    BY <1>0, <2>2, <2>3, <2>4 DEF TypeOK
  <2>6. \A m \in Nota : ComNumero(m)' => ComNumero(m) /\ numero'[m] = numero[m]
    BY <2>1, <2>2, <2>3 DEF ComNumero
  <2> QED
    BY <2>1, <2>2, <2>5, <2>6, NumeroMantido
<1>5. CASE UNCHANGED <<etapa, numero, gravadas, juntas, proprias>>
  <2>1. \A m \in Nota : ComNumero(m)' => ComNumero(m) /\ numero'[m] = numero[m]
    BY <1>5 DEF ComNumero
  <2> QED
    BY <1>0, <1>5, <2>1, NumeroMantido
<1>6. ASSUME NEW c \in Produto,
             \/ \E g \in Grafia : VerificarCodigo(c, g)
             \/ SalvarProduto(c) \/ PublicarNoCache(c)
      PROVE  UNCHANGED <<etapa, numero, gravadas, juntas, proprias>>
  BY <1>6 DEF VerificarCodigo, SalvarProduto, PublicarNoCache, notaVars, notaHistoria
<1>7. ASSUME NEW p \in Chaves, PerderEntrada(p) \/ RenovarEntrada(p)
      PROVE  UNCHANGED <<etapa, numero, gravadas, juntas, proprias>>
  BY <1>7 DEF PerderEntrada, RenovarEntrada, notaVars, notaHistoria
<1> QED
  BY <1>1, <1>2, <1>3, <1>4, <1>5, <1>6, <1>7 DEF Next, vars, notaVars, notaHistoria

\* Two notas of the table share a number only when a client gave it, the query
\* failed, one was numbered while the other was on its way to the table, or no
\* greater number was left.
THEOREM NumeroCorreto == Spec => []NumeroRepetidoTemCausa
<1>1. Init => IndNumero
  <2>1. Init => GravadaNumerada /\ RepetidoInv
    BY DEF Init, GravadaNumerada, RepetidoInv, ComNumero
  <2> QED
    BY <2>1, InitTipo DEF IndNumero
<1>2. IndNumero /\ [Next]_vars => IndNumero'
  BY PassoTipo, PassoNumero DEF IndNumero
<1>3. IndNumero => NumeroRepetidoTemCausa
  BY DEF IndNumero, TypeOK, RepetidoInv, ComNumero, Causa, NumeroRepetidoTemCausa
<1> QED
  BY <1>1, <1>2, <1>3, PTL DEF Spec

-----------------------------------------------------------------------------
(* A registered product can be invoiced *)

LEMMA PassoCatalogo ==
  ASSUME TypeOK, CatalogoNoCache, [Next]_vars
  PROVE  CatalogoNoCache'
<1> USE DEF TypeOK, CatalogoNoCache, Avancar
<1>1. ASSUME NEW c \in Produto, NEW g \in Grafia, VerificarCodigo(c, g)
      PROVE  CatalogoNoCache'
  <2>1. UNCHANGED <<catalogo, cache, semEntrada>>
    BY <1>1 DEF VerificarCodigo
  <2>2. \A d \in Produto : passo[d] = "salvo" => passo'[d] = "salvo" /\ codigo'[d] = codigo[d]
    BY <1>1 DEF VerificarCodigo
  <2> QED
    BY <2>1, <2>2
<1>2. ASSUME NEW c \in Produto, SalvarProduto(c)
      PROVE  CatalogoNoCache'
  <2>1. UNCHANGED <<cache, codigo>> /\ semEntrada \subseteq semEntrada'
    BY <1>2 DEF SalvarProduto
  <2>2. \A d \in Produto : passo[d] = "salvo" => passo'[d] = "salvo"
    BY <1>2 DEF SalvarProduto
  <2>3. \/ catalogo' = catalogo
        \/ /\ catalogo' = catalogo \cup {Chave[codigo[c]]}
           /\ Chave[codigo[c]] \in semEntrada' \/ passo'[c] = "salvo"
    BY <1>2 DEF SalvarProduto
  <2> QED
    BY <2>1, <2>2, <2>3
<1>3. ASSUME NEW c \in Produto, PublicarNoCache(c)
      PROVE  CatalogoNoCache'
  <2>1. UNCHANGED <<catalogo, codigo>>
    BY <1>3 DEF PublicarNoCache
  <2>2. /\ cache \subseteq cache' /\ semEntrada \subseteq semEntrada'
        /\ Chave[codigo[c]] \in cache' \cup semEntrada'
    BY <1>3 DEF PublicarNoCache, ChaveDoCache
  <2>3. \A d \in Produto : passo[d] = "salvo" /\ d # c => passo'[d] = "salvo"
    BY <1>3 DEF PublicarNoCache
  <2> QED
    BY <2>1, <2>2, <2>3
<1>4. ASSUME NEW p \in Chaves, PerderEntrada(p)
      PROVE  CatalogoNoCache'
  BY <1>4 DEF PerderEntrada, produtoVars
<1>5. ASSUME NEW p \in Chaves, RenovarEntrada(p)
      PROVE  CatalogoNoCache'
  BY <1>5 DEF RenovarEntrada, produtoVars
<1>6. CASE UNCHANGED <<catalogo, cache, semEntrada, passo, codigo>>
  BY <1>6
<1>7. ASSUME NEW q \in Nota,
             \/ \E pedido \in Pedidos, dado \in NumerosDados : ReceberNota(q, pedido, dado)
             \/ ConsultarItem(q) \/ FimDaConsulta(q) \/ Numerar(q) \/ Gravar(q)
      PROVE  CatalogoNoCache'
  <2>1. UNCHANGED <<catalogo, cache, semEntrada, produtoVars>>
    BY <1>7 DEF ReceberNota, ConsultarItem, FimDaConsulta, Numerar, Gravar
  <2> QED
    BY <1>6, <2>1 DEF produtoVars
<1> QED
  BY <1>1, <1>2, <1>3, <1>4, <1>5, <1>6, <1>7 DEF Next, vars, produtoVars

\* A product of the table without an entry in the cache is being registered, or
\* had its entry lost.
THEOREM CatalogoCorreto == Spec => []CatalogoNoCache
<1>1. Init => CatalogoNoCache
  BY DEF Init, CatalogoNoCache
<1>2. TypeOK /\ CatalogoNoCache /\ [Next]_vars => CatalogoNoCache'
  BY PassoCatalogo
<1> QED
  BY <1>1, <1>2, InitTipo, PassoTipo, PTL DEF Spec
=============================================================================
