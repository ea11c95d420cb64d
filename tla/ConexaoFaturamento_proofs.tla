----------------------- MODULE ConexaoFaturamento_proofs -----------------------
(***************************************************************************)
(* Proofs about ConexaoFaturamento, for any callers, any tables and indexes *)
(* and any bounds.                                                         *)
(***************************************************************************)
EXTENDS ConexaoFaturamento, TLAPS

USE DEF servidorVars, ponteiros, migracaoVars, Vai, Segue, EsquemaCompleto

\* Every step has a name.
LEMMA Etapas ==
  /\ {"ociosa", "atendida", "recusada", "ping", "abrir", "master", "existe", "criar",
      "reabrir", "migrar", "criarTabela", "indexar", "verIndice", "criarIndice", "guardar",
      "getDB", "global", "entregar", "montar", "pronta"} \subseteq Etapa
  /\ Inicio \in Goroutine
  BY DEF Etapa, Ociosa, DeConnectDB, Goroutine


\* The disjuncts of a step, for the case distinctions below.
LEMMA Casos ==
  ASSUME Next
  PROVE  \/ \E g \in Goroutine :
               /\ UNCHANGED <<noAr, quedas, reinicios>>
               /\ \/ GetDB(g) \/ LerGlobal(g) \/ Entregar(g) \/ (g = Inicio /\ Montar)
                  \/ Ping(g) \/ Abrir(g) \/ AbrirMaster(g) \/ VerificarBanco(g)
                  \/ CriarBanco(g) \/ Reabrir(g) \/ Migrar(g) \/ CriarTabela(g)
                  \/ Indexar(g) \/ VerIndice(g) \/ CriarIndice(g) \/ Guardar(g) \/ Chamar(g)
         \/ Cair \/ Voltar \/ Reiniciar
BY DEF Next, PassoDe, ConnectDB, Goroutine

-----------------------------------------------------------------------------
(* Types *)

\* A goroutine creates only tables of the schema.
TabelaInv == \A g \in Goroutine : pc[g] = "criarTabela" => tabela[g] <= NTabelas

TipoInv == TypeOK /\ TabelaInv

\* What a process starts with.
LEMMA ComecoTipo ==
  /\ PcInicial \in [Goroutine -> Etapa] /\ Zero \in [Goroutine -> Nat]
  /\ Nenhum \in [Goroutine -> SUBSET Indice]
  /\ NenhumaSerena \in [Goroutine -> BOOLEAN]
  /\ \A g \in Goroutine :
        /\ PcInicial[g] = IF g = Inicio THEN "ping" ELSE "ociosa"
        /\ Zero[g] = 0 /\ NenhumaSerena[g] = FALSE
<1> QED
  BY Etapas DEF PcInicial, Zero, Nenhum, NenhumaSerena

LEMMA InitTipo == Init => TipoInv
<1> SUFFICES ASSUME Init
             PROVE  TipoInv
  OBVIOUS
<1>1. TiposLogicos
  BY ComecoTipo, Zenon DEF Init, TiposLogicos
<1>2. TabelaInv
  BY ComecoTipo DEF Init, TabelaInv
<1> QED
  BY <1>1, <1>2, ComecoTipo, TabelasAssumption DEF Init, TipoInv, TypeOK

LEMMA PassoLogico == TypeOK /\ [Next]_vars => TiposLogicos'
<1> SUFFICES ASSUME TypeOK, [Next]_vars
             PROVE  TiposLogicos'
  OBVIOUS
<1> USE DEF TypeOK, TiposLogicos
<1>1. ASSUME NEW g \in Goroutine, Ping(g), UNCHANGED noAr
      PROVE  TiposLogicos'
  <2>1. (noAr /\ EsquemaCompleto) \in BOOLEAN
    OBVIOUS
  <2> QED
    BY <1>1, <2>1, Zenon DEF Ping
<1>2. ASSUME NEW g \in Goroutine, UNCHANGED <<noAr, quedas, reinicios>>,
             GetDB(g) \/ LerGlobal(g) \/ Entregar(g) \/ (g = Inicio /\ Montar) \/ Chamar(g)
      PROVE  TiposLogicos'
  <2>1. UNCHANGED <<criado, serena>>
    BY <1>2 DEF GetDB, LerGlobal, Entregar, Montar, Chamar
  <2> QED
    BY <1>2, <2>1, Zenon
<1>3. ASSUME NEW g \in Goroutine, UNCHANGED <<noAr, quedas, reinicios>>,
             \/ Abrir(g) \/ AbrirMaster(g) \/ VerificarBanco(g) \/ Reabrir(g)
             \/ Migrar(g) \/ CriarTabela(g) \/ Guardar(g)
             \/ Indexar(g) \/ VerIndice(g) \/ CriarIndice(g)
      PROVE  TiposLogicos'
  <2>1. UNCHANGED <<criado, serena>>
    BY <1>3 DEF Abrir, AbrirMaster, VerificarBanco, Reabrir, Migrar, CriarTabela, Indexar,
       VerIndice, CriarIndice, Guardar, NovoPool, Falhar, Devolver
  <2> QED
    BY <1>3, <2>1, Zenon
<1>4. ASSUME NEW g \in Goroutine, UNCHANGED <<noAr, quedas, reinicios>>, CriarBanco(g)
      PROVE  TiposLogicos'
  <2>1. serena' = serena /\ (criado' = criado \/ criado' = TRUE)
    BY <1>4, Zenon DEF CriarBanco, Falhar
  <2> QED
    BY <1>4, <2>1, Zenon
<1>5. CASE Cair \/ Voltar \/ Reiniciar
  BY <1>5, ComecoTipo, Zenon DEF Cair, Voltar, Reiniciar
<1>6. CASE UNCHANGED vars
  BY <1>6, Zenon DEF vars
<1> QED
  BY <1>1, <1>2, <1>3, <1>4, <1>5, <1>6, Casos, Zenon

LEMMA PassoTipo == TipoInv /\ [Next]_vars => TipoInv'
<1> SUFFICES ASSUME TipoInv, [Next]_vars
             PROVE  TipoInv'
  OBVIOUS
<1>0. TiposLogicos'
  BY PassoLogico DEF TipoInv
<1> USE <1>0, Etapas, TabelasAssumption DEF TipoInv, TypeOK, TabelaInv
<1>1. ASSUME NEW g \in Goroutine, UNCHANGED <<noAr, quedas, reinicios>>,
             GetDB(g) \/ LerGlobal(g) \/ Entregar(g) \/ (g = Inicio /\ Montar) \/ Chamar(g)
      PROVE  TipoInv'
  BY <1>1 DEF GetDB, LerGlobal, Entregar, Montar, Chamar
<1>2. ASSUME NEW g \in Goroutine, UNCHANGED <<noAr, quedas, reinicios>>,
             Ping(g) \/ Guardar(g)
      PROVE  TipoInv'
  BY <1>2 DEF Ping, Guardar, Devolver
<1>3. ASSUME NEW g \in Goroutine, UNCHANGED <<noAr, quedas, reinicios>>,
             AbrirMaster(g) \/ VerificarBanco(g)
      PROVE  TipoInv'
  BY <1>3 DEF AbrirMaster, VerificarBanco, Falhar, Devolver
<1>4. ASSUME NEW g \in Goroutine, UNCHANGED <<noAr, quedas, reinicios>>,
             Abrir(g) \/ Reabrir(g)
      PROVE  TipoInv'
  BY <1>4 DEF Abrir, Reabrir, NovoPool, Falhar, Devolver
<1>5. ASSUME NEW g \in Goroutine, UNCHANGED <<noAr, quedas, reinicios>>, CriarBanco(g)
      PROVE  TipoInv'
  BY <1>5 DEF CriarBanco, Falhar, Devolver
<1>6. ASSUME NEW g \in Goroutine, UNCHANGED <<noAr, quedas, reinicios>>,
             Migrar(g) \/ CriarTabela(g) \/ Indexar(g) \/ VerIndice(g) \/ CriarIndice(g)
      PROVE  TipoInv'
  <2>1. CASE Falhar(g)
    BY <1>6, <2>1 DEF Falhar, Devolver
  <2>2. CASE Segue(g, "guardar") \/ (Segue(g, "criarTabela") /\ tabela[g] <= NTabelas)
    BY <1>6, <2>2
  <2>3. ASSUME NEW f \in SUBSET Indice, NEW s \in {"indexar", "verIndice"}, Restam(g, f, s),
               tabelas' \in 0..NTabelas, indices' \subseteq Indice,
               ausente' \in [Goroutine -> SUBSET Indice], UNCHANGED <<ponteiros, abertos, pool>>
        PROVE  TipoInv'
    <3>1. /\ faltam' \in [Goroutine -> SUBSET Indice] /\ tabela' \in [Goroutine -> Nat]
          /\ pc' \in [Goroutine -> Etapa]
      BY <2>3 DEF Restam
    <3>2. TabelaInv'
      <4>1. \A h \in Goroutine : h # g => pc'[h] = pc[h] /\ tabela'[h] = tabela[h]
        BY <2>3 DEF Restam
      <4>2. pc'[g] # "criarTabela"
        BY <2>3 DEF Restam
      <4> QED
        BY <4>1, <4>2
    <3> QED
      BY <1>6, <2>3, <3>1, <3>2
  <2>4. CASE Migrar(g)
    <3>1. IndicesDe(tabela[g]) \in SUBSET Indice
      BY DEF IndicesDe
    <3> QED
      BY <2>1, <2>2, <2>3, <2>4, <3>1 DEF Migrar
  <2>5. CASE CriarTabela(g)
    <3>1. IndicesDe(tabela[g]) \in SUBSET Indice
      BY DEF IndicesDe
    <3>2. tabelas' = tabela[g] => tabelas' \in 0..NTabelas
      BY <2>5 DEF CriarTabela
    <3> QED
      BY <2>1, <2>3, <2>5, <3>1, <3>2 DEF CriarTabela
  <2>6. CASE Indexar(g)
    <3>1. PICK i \in faltam[g] :
            \/ Falhar(g)
            \/ /\ indices' = indices \cup {i} /\ Restam(g, faltam[g] \ {i}, "indexar")
               /\ UNCHANGED <<criado, tabelas, ponteiros, abertos, pool, ausente, serena>>
      BY <2>6 DEF Indexar
    <3>2. i \in Indice /\ faltam[g] \ {i} \in SUBSET Indice
      OBVIOUS
    <3> QED
      BY <2>1, <2>3, <3>1, <3>2
  <2>7. CASE VerIndice(g)
    <3>1. PICK i \in faltam[g] :
            \/ Falhar(g)
            \/ /\ Restam(g, faltam[g] \ {i}, "verIndice")
               /\ UNCHANGED <<servidorVars, ponteiros, abertos, pool, ausente, serena>>
            \/ /\ ausente' = [ausente EXCEPT ![g] = {i}] /\ Vai(g, "criarIndice")
               /\ UNCHANGED <<servidorVars, ponteiros, abertos, pool, tabela, faltam, serena>>
      BY <2>7 DEF VerIndice
    <3>2. i \in Indice /\ faltam[g] \ {i} \in SUBSET Indice
      OBVIOUS
    <3>3. CASE ausente' = [ausente EXCEPT ![g] = {i}] /\ Vai(g, "criarIndice")
               /\ UNCHANGED <<servidorVars, ponteiros, abertos, pool, tabela, faltam, serena>>
      BY <1>6, <3>2, <3>3
    <3> QED
      BY <2>1, <2>3, <3>1, <3>2, <3>3
  <2>8. CASE CriarIndice(g)
    <3>1. PICK i \in ausente[g] :
            \/ Falhar(g)
            \/ /\ indices' = indices \cup {i} /\ Restam(g, faltam[g] \ {i}, "verIndice")
               /\ ausente' = [ausente EXCEPT ![g] = {}]
               /\ UNCHANGED <<criado, tabelas, ponteiros, abertos, pool, serena>>
      BY <2>8 DEF CriarIndice
    <3>2. i \in Indice /\ faltam[g] \ {i} \in SUBSET Indice
      OBVIOUS
    <3> QED
      BY <2>1, <2>3, <3>1, <3>2
  <2> QED
    BY <1>6, <2>4, <2>5, <2>6, <2>7, <2>8
<1>7. CASE Cair \/ Voltar
  BY <1>7 DEF Cair, Voltar
<1>8. CASE Reiniciar
  BY <1>8, ComecoTipo DEF Reiniciar
<1>9. CASE UNCHANGED vars
  BY <1>9 DEF vars
<1> QED
  BY <1>1, <1>2, <1>3, <1>4, <1>5, <1>6, <1>7, <1>8, <1>9, Casos

\* Type correctness of the connection to SQL Server.
THEOREM TipoCorreto == Spec => []TypeOK
<1>1. TipoInv => TypeOK
  BY DEF TipoInv
<1> QED
  BY InitTipo, PassoTipo, <1>1, PTL DEF Spec

-----------------------------------------------------------------------------
(* A pool in circulation has its tables *)

\* The tables before the one a goroutine is at exist with their indexes, and of that
\* one every index that it does not still have to deal with.
MigracaoDe(g) ==
    /\ pc[g] \in {"migrar", "criarTabela"} =>
          /\ tabela[g] <= tabelas + 1
          /\ \A i \in Indice : TabelaDe[i] < tabela[g] => i \in indices
    /\ pc[g] \in {"indexar", "verIndice", "criarIndice"} =>
          /\ tabela[g] <= tabelas
          /\ \A i \in Indice : TabelaDe[i] <= tabela[g] => i \in indices \cup faltam[g]

\* The database is there while a pool to it is open, and a pool that is about to be
\* handed out has its whole schema.
MigracaoInv ==
    /\ ConexaoMigrada
    /\ \A g \in Goroutine :
          /\ MigracaoDe(g)
          /\ pc[g] \in {"reabrir", "migrar", "criarTabela", "indexar", "verIndice",
                         "criarIndice"} => criado
          /\ pc[g] = "guardar" => EsquemaCompleto
          /\ pc[g] \in {"entregar", "montar"} /\ pool[g] # 0 => EsquemaCompleto

\* The schema of a goroutine that goes on to other indexes, or to the next table.
LEMMA RestamDe ==
  ASSUME TipoInv, NEW g \in Goroutine, NEW f \in SUBSET Indice,
         NEW s \in {"indexar", "verIndice"}, Restam(g, f, s),
         tabelas' \in Nat, tabela[g] <= tabelas',
         \A i \in Indice : TabelaDe[i] <= tabela[g] => i \in indices' \cup f
  PROVE  MigracaoDe(g)' /\ pc'[g] \in {"migrar", "indexar", "verIndice"}
<1>1. /\ tabela[g] \in Nat /\ \A i \in Indice : TabelaDe[i] \in Nat
      /\ pc'[g] = IF f = {} THEN "migrar" ELSE s
      /\ tabela'[g] = IF f = {} THEN tabela[g] + 1 ELSE tabela[g]
      /\ faltam'[g] = f
  BY TabelasAssumption DEF TipoInv, TypeOK, Restam
<1>2. CASE f = {}
  <2>1. \A i \in Indice : TabelaDe[i] < tabela'[g] => i \in indices'
    BY <1>1, <1>2
  <2>2. tabela'[g] <= tabelas' + 1
    BY <1>1, <1>2
  <2> QED
    BY <1>1, <1>2, <2>1, <2>2 DEF MigracaoDe
<1>3. CASE f # {}
  BY <1>1, <1>3 DEF MigracaoDe
<1> QED
  BY <1>2, <1>3

\* A migration step of g that leaves it in order leaves everything in order: the
\* schema only grows, and the pools in circulation are as before.
LEMMA MigracaoCresce ==
  ASSUME TipoInv, MigracaoInv, NEW g \in Goroutine, criado,
         tabelas' \in 0..NTabelas, tabelas <= tabelas', indices \subseteq indices',
         indices' \subseteq Indice,
         UNCHANGED <<criado, banco, repo, saude, pool>>,
         \A h \in Goroutine \ {g} :
            pc'[h] = pc[h] /\ tabela'[h] = tabela[h] /\ faltam'[h] = faltam[h],
         MigracaoDe(g)', pc'[g] \in {"migrar", "criarTabela", "indexar", "verIndice", "criarIndice"}
  PROVE  MigracaoInv'
<1>1. EsquemaCompleto => EsquemaCompleto'
  BY TabelasAssumption DEF TipoInv, TypeOK
<1>2. ConexaoMigrada'
  BY <1>1 DEF MigracaoInv, ConexaoMigrada
<1>3. ASSUME NEW h \in Goroutine \ {g}
      PROVE  MigracaoDe(h)'
  <2>1. MigracaoDe(h) /\ tabela[h] \in Nat
    BY DEF MigracaoInv, TipoInv, TypeOK
  <2>2. tabelas \in Nat /\ tabelas' \in Nat
    BY TabelasAssumption DEF TipoInv, TypeOK
  <2> QED
    BY <1>3, <2>1, <2>2 DEF MigracaoDe
<1>4. \A h \in Goroutine \ {g} :
          /\ pc'[h] = "guardar" => EsquemaCompleto'
          /\ pc'[h] \in {"entregar", "montar"} /\ pool'[h] # 0 => EsquemaCompleto'
  BY <1>1 DEF MigracaoInv
<1> QED
  BY <1>2, <1>3, <1>4 DEF MigracaoInv

LEMMA InitMigracao == Init => MigracaoInv
  BY ComecoTipo DEF Init, MigracaoInv, MigracaoDe, ConexaoMigrada

LEMMA PassoMigracao == TipoInv /\ MigracaoInv /\ [Next]_vars => MigracaoInv'
<1> SUFFICES ASSUME TipoInv, MigracaoInv, [Next]_vars
             PROVE  MigracaoInv'
  OBVIOUS
<1>0. /\ tabelas \in 0..NTabelas /\ NTabelas \in Nat /\ indices \subseteq Indice
      /\ TabelaDe \in [Indice -> 1..NTabelas]
      /\ pc \in [Goroutine -> Etapa] /\ pool \in [Goroutine -> Nat]
      /\ tabela \in [Goroutine -> Nat] /\ faltam \in [Goroutine -> SUBSET Indice]
      /\ ausente \in [Goroutine -> SUBSET Indice]
  BY TabelasAssumption DEF TipoInv, TypeOK
\* The schema, the tables and the indexes a goroutine is at stay as they are.
<1>1. ASSUME NEW g \in Goroutine, UNCHANGED <<servidorVars, banco, repo, saude>>,
             \A h \in Goroutine \ {g} :
                /\ pc'[h] = pc[h] /\ pool'[h] = pool[h]
                /\ tabela'[h] = tabela[h] /\ faltam'[h] = faltam[h],
             MigracaoDe(g)',
             pc'[g] \in {"reabrir", "migrar", "criarTabela", "indexar", "verIndice",
                         "criarIndice"} => criado,
             pc'[g] = "guardar" => EsquemaCompleto,
             pc'[g] \in {"entregar", "montar"} /\ pool'[g] # 0 => EsquemaCompleto
      PROVE  MigracaoInv'
  BY <1>1 DEF MigracaoInv, MigracaoDe, ConexaoMigrada
<1>2. ASSUME NEW g \in Goroutine, Falhar(g)
      PROVE  MigracaoInv'
  <2>1. pc'[g] \in {"montar", "recusada"} \/ (pc'[g] = "entregar" /\ pool'[g] = 0)
    BY <1>0, <1>2 DEF Falhar, Devolver
  <2>2. pool'[g] = 0
    BY <1>0, <1>2 DEF Falhar, Devolver
  <2> QED
    BY <1>0, <1>1, <1>2, <2>1, <2>2 DEF Falhar, Devolver, MigracaoDe
<1>3. ASSUME NEW g \in Goroutine, UNCHANGED <<noAr, quedas, reinicios>>,
             GetDB(g) \/ LerGlobal(g) \/ Entregar(g) \/ (g = Inicio /\ Montar) \/ Chamar(g)
      PROVE  MigracaoInv'
  <2>1. /\ UNCHANGED <<servidorVars, banco, tabela, faltam>>
        /\ \A h \in Goroutine \ {g} : pc'[h] = pc[h] /\ pool'[h] = pool[h]
    BY <1>0, <1>3 DEF GetDB, LerGlobal, Entregar, Montar, Chamar
  <2>2. pc'[g] \in {"atendida", "global", "entregar", "ping", "getDB", "pronta"}
    BY <1>0, <1>3 DEF GetDB, LerGlobal, Entregar, Montar, Chamar
  <2>3. pc'[g] = "entregar" => banco # 0
    BY <1>0, <1>3 DEF GetDB, LerGlobal, Entregar, Montar, Chamar
  <2>4. MigracaoDe(g)'
    BY <2>2 DEF MigracaoDe
  <2>5. ConexaoMigrada'
    <3>1. repo' \in {repo, pool[g]} /\ saude' \in {saude, pool[g]}
      BY <1>3 DEF GetDB, LerGlobal, Entregar, Montar, Chamar
    <3>2. (repo' # repo \/ saude' # saude) => pc[g] \in {"entregar", "montar"}
      BY <1>3 DEF GetDB, LerGlobal, Entregar, Montar, Chamar
    <3> QED
      BY <2>1, <3>1, <3>2 DEF MigracaoInv, ConexaoMigrada
  <2> QED
    BY <2>1, <2>2, <2>3, <2>4, <2>5 DEF MigracaoInv, MigracaoDe, ConexaoMigrada
<1>4. ASSUME NEW g \in Goroutine, Ping(g)
      PROVE  MigracaoInv'
  <2>1. pc'[g] = "abrir" \/ (pc'[g] \in {"entregar", "montar", "recusada"} /\ banco # 0)
    BY <1>0, <1>4 DEF Ping, Devolver
  <2>2. \A h \in Goroutine \ {g} : pc'[h] = pc[h] /\ pool'[h] = pool[h]
    BY <1>0, <1>4 DEF Ping, Devolver
  <2> QED
    BY <1>1, <1>4, <2>1, <2>2 DEF Ping, MigracaoInv, MigracaoDe, ConexaoMigrada
<1>5. ASSUME NEW g \in Goroutine, Guardar(g)
      PROVE  MigracaoInv'
  BY <1>0, <1>5 DEF Guardar, Devolver, MigracaoInv, MigracaoDe, ConexaoMigrada
<1>6. ASSUME NEW g \in Goroutine, AbrirMaster(g) \/ VerificarBanco(g)
      PROVE  MigracaoInv'
  <2>1. ASSUME ~Falhar(g)
        PROVE  /\ UNCHANGED <<servidorVars, ponteiros, pool, tabela, faltam>>
               /\ \A h \in Goroutine \ {g} : pc'[h] = pc[h]
               /\ pc'[g] \in {"existe", "reabrir", "criar"} /\ (pc'[g] = "reabrir" => criado)
    BY <1>0, <1>6, <2>1 DEF AbrirMaster, VerificarBanco
  <2> QED
    BY <1>1, <1>2, <2>1 DEF MigracaoDe
<1>7. ASSUME NEW g \in Goroutine, Abrir(g) \/ Reabrir(g)
      PROVE  MigracaoInv'
  <2>1. CASE NovoPool(g)
    <3>1. /\ pc'[g] = "migrar" /\ tabela'[g] = 1
          /\ UNCHANGED <<servidorVars, ponteiros, faltam>>
          /\ \A h \in Goroutine \ {g} :
                pc'[h] = pc[h] /\ pool'[h] = pool[h] /\ tabela'[h] = tabela[h]
      BY <1>0, <2>1 DEF NovoPool
    <3>2. criado
      BY <1>0, <1>7, <3>1 DEF Abrir, Reabrir, MigracaoInv, NovoPool
    <3>3. MigracaoDe(g)'
      BY <1>0, <3>1 DEF MigracaoDe
    <3> QED
      BY <1>1, <3>1, <3>2, <3>3
  <2>2. CASE Segue(g, "master")
    BY <1>0, <1>1, <2>2 DEF MigracaoDe
  <2> QED
    BY <1>2, <1>7, <2>1, <2>2 DEF Abrir, Reabrir
<1>8. ASSUME NEW g \in Goroutine, CriarBanco(g)
      PROVE  MigracaoInv'
  <2>1. CASE Falhar(g)
    BY <1>2, <2>1
  <2>2. CASE ~Falhar(g)
    <3>1. /\ ~criado /\ criado' = TRUE /\ pc'[g] = "reabrir"
          /\ UNCHANGED <<tabelas, indices, ponteiros, pool, tabela, faltam>>
          /\ \A h \in Goroutine \ {g} : pc'[h] = pc[h]
      BY <1>0, <1>8, <2>2 DEF CriarBanco
    <3> QED
      BY <3>1 DEF MigracaoInv, MigracaoDe, ConexaoMigrada
  <2> QED
    BY <2>1, <2>2
<1>9. ASSUME NEW g \in Goroutine, Migrar(g)
      PROVE  MigracaoInv'
  <2>0. /\ pc[g] = "migrar" /\ criado /\ tabela[g] \in Nat /\ tabela[g] <= tabelas + 1
        /\ \A i \in Indice : TabelaDe[i] < tabela[g] => i \in indices
    BY <1>0, <1>9 DEF Migrar, MigracaoInv, MigracaoDe
  <2>1. CASE tabela[g] > NTabelas
    <3>1. EsquemaCompleto
      <4>1. tabelas = NTabelas
        BY <1>0, <2>0, <2>1
      <4>2. \A i \in Indice : i \in indices
        BY <1>0, <2>0, <2>1
      <4> QED
        BY <1>0, <2>0, <4>1, <4>2
    <3>2. Segue(g, "guardar")
      BY <1>9, <2>1 DEF Migrar
    <3> QED
      BY <1>0, <1>1, <3>1, <3>2 DEF MigracaoDe
  <2>2. CASE Segue(g, "criarTabela")
    <3>1. MigracaoDe(g)'
      BY <1>0, <2>0, <2>2 DEF MigracaoDe
    <3> QED
      BY <1>0, <1>1, <2>0, <2>2, <3>1
  <2>3. CASE /\ Restam(g, IndicesDe(tabela[g]), "verIndice") /\ ~(tabelas < tabela[g])
             /\ UNCHANGED <<servidorVars, ponteiros, abertos, pool, ausente, serena>>
    <3>1. /\ IndicesDe(tabela[g]) \in SUBSET Indice
          /\ \A i \in Indice : TabelaDe[i] <= tabela[g] => i \in indices' \cup IndicesDe(tabela[g])
      BY <1>0, <2>0, <2>3 DEF IndicesDe
    <3>2. tabelas' \in Nat /\ tabela[g] <= tabelas'
      BY <1>0, <2>0, <2>3
    <3>3. MigracaoDe(g)' /\ pc'[g] \in {"migrar", "indexar", "verIndice"}
      BY <2>3, <3>1, <3>2, RestamDe
    <3>4. \A h \in Goroutine \ {g} :
             pc'[h] = pc[h] /\ tabela'[h] = tabela[h] /\ faltam'[h] = faltam[h]
      BY <1>0, <2>3 DEF Restam
    <3> QED
      BY <1>1, <2>0, <2>3, <3>3, <3>4
  <2> QED
    BY <1>2, <1>9, <2>1, <2>2, <2>3 DEF Migrar
<1>10. ASSUME NEW g \in Goroutine, CriarTabela(g)
       PROVE  MigracaoInv'
  <2>0. /\ pc[g] = "criarTabela" /\ criado /\ tabela[g] \in Nat /\ tabela[g] <= tabelas + 1
        /\ tabela[g] <= NTabelas
        /\ \A i \in Indice : TabelaDe[i] < tabela[g] => i \in indices
    BY <1>0, <1>10 DEF CriarTabela, MigracaoInv, MigracaoDe, TipoInv, TabelaInv
  <2>1. CASE /\ noAr /\ tabelas < tabela[g] /\ tabelas' = tabela[g]
             /\ Restam(g, IndicesDe(tabela[g]), "indexar")
             /\ UNCHANGED <<criado, indices, ponteiros, abertos, pool, ausente, serena>>
    <3>1. /\ IndicesDe(tabela[g]) \in SUBSET Indice
          /\ \A i \in Indice : TabelaDe[i] <= tabela[g] => i \in indices' \cup IndicesDe(tabela[g])
      BY <1>0, <2>0, <2>1 DEF IndicesDe
    <3>2. /\ tabelas' \in Nat /\ tabelas' \in 0..NTabelas
          /\ tabela[g] <= tabelas' /\ tabelas <= tabelas'
      BY <1>0, <2>0, <2>1
    <3>3. MigracaoDe(g)' /\ pc'[g] \in {"migrar", "indexar", "verIndice"}
      BY <2>1, <3>1, <3>2, RestamDe
    <3>4. \A h \in Goroutine \ {g} :
             pc'[h] = pc[h] /\ tabela'[h] = tabela[h] /\ faltam'[h] = faltam[h]
      BY <1>0, <2>1 DEF Restam
    <3>5. indices \subseteq indices' /\ indices' \subseteq Indice
      BY <1>0, <2>1
    <3> QED
      BY <2>0, <2>1, <3>2, <3>3, <3>4, <3>5, MigracaoCresce
  <2> QED
    BY <1>2, <1>10, <2>1 DEF CriarTabela
\* One index more, or one found there: g goes on with the others.
<1>11. ASSUME NEW g \in Goroutine, NEW i \in Indice, NEW s \in {"indexar", "verIndice"},
              pc[g] \in {"indexar", "verIndice", "criarIndice"},
              indices' = indices \cup {i}, Restam(g, faltam[g] \ {i}, s),
              UNCHANGED <<criado, tabelas, banco, repo, saude, pool>>
       PROVE  MigracaoInv'
  <2>0. /\ criado /\ tabela[g] \in Nat /\ tabela[g] <= tabelas
        /\ \A j \in Indice : TabelaDe[j] <= tabela[g] => j \in indices \cup faltam[g]
    BY <1>0, <1>11 DEF MigracaoInv, MigracaoDe
  <2>1. /\ faltam[g] \ {i} \in SUBSET Indice
        /\ tabelas' \in Nat /\ tabela[g] <= tabelas'
        /\ \A j \in Indice : TabelaDe[j] <= tabela[g] => j \in indices' \cup (faltam[g] \ {i})
    BY <1>0, <1>11, <2>0
  <2>2. MigracaoDe(g)' /\ pc'[g] \in {"migrar", "indexar", "verIndice"}
    BY <1>11, <2>1, RestamDe
  <2>3. \A h \in Goroutine \ {g} :
           pc'[h] = pc[h] /\ tabela'[h] = tabela[h] /\ faltam'[h] = faltam[h]
    BY <1>0, <1>11 DEF Restam
  <2>4. /\ indices \subseteq indices' /\ indices' \subseteq Indice
        /\ tabelas' \in 0..NTabelas /\ tabelas <= tabelas'
    BY <1>0, <1>11
  <2> QED
    BY <1>11, <2>0, <2>2, <2>3, <2>4, MigracaoCresce
<1>12. ASSUME NEW g \in Goroutine, Indexar(g)
       PROVE  MigracaoInv'
  <2>1. pc[g] = "indexar" /\ faltam[g] \subseteq Indice
    BY <1>0, <1>12 DEF Indexar
  <2>2. \/ Falhar(g)
        \/ \E i \in faltam[g] :
              /\ indices' = indices \cup {i} /\ Restam(g, faltam[g] \ {i}, "indexar")
              /\ UNCHANGED <<criado, tabelas, banco, repo, saude, pool>>
    BY <1>12 DEF Indexar
  <2> QED
    BY <1>2, <1>11, <2>1, <2>2
<1>13. ASSUME NEW g \in Goroutine, VerIndice(g)
       PROVE  MigracaoInv'
  <2>1. pc[g] = "verIndice" /\ faltam[g] \subseteq Indice
    BY <1>0, <1>13 DEF VerIndice
  <2>2. \/ Falhar(g)
        \/ \E i \in faltam[g] :
              /\ i \in indices /\ Restam(g, faltam[g] \ {i}, "verIndice")
              /\ UNCHANGED <<servidorVars, ponteiros, pool>>
        \/ Vai(g, "criarIndice") /\ UNCHANGED <<servidorVars, ponteiros, pool, tabela, faltam>>
    BY <1>13 DEF VerIndice
  <2>3. CASE Vai(g, "criarIndice") /\ UNCHANGED <<servidorVars, ponteiros, pool, tabela, faltam>>
    <3>1. /\ pc'[g] = "criarIndice" /\ criado
          /\ \A h \in Goroutine \ {g} : pc'[h] = pc[h]
      BY <1>0, <2>1, <2>3 DEF MigracaoInv
    <3>2. MigracaoDe(g)'
      BY <2>1, <2>3, <3>1 DEF MigracaoInv, MigracaoDe
    <3> QED
      BY <1>1, <2>3, <3>1, <3>2
  <2>4. ASSUME NEW i \in faltam[g], i \in indices, Restam(g, faltam[g] \ {i}, "verIndice"),
               UNCHANGED <<servidorVars, ponteiros, pool>>
        PROVE  MigracaoInv'
    <3>1. indices' = indices \cup {i} /\ i \in Indice
      BY <2>1, <2>4
    <3> QED
      BY <1>11, <2>1, <2>4, <3>1
  <2> QED
    BY <1>2, <2>2, <2>3, <2>4
<1>14. ASSUME NEW g \in Goroutine, CriarIndice(g)
       PROVE  MigracaoInv'
  <2>1. pc[g] = "criarIndice" /\ ausente[g] \subseteq Indice
    BY <1>0, <1>14 DEF CriarIndice
  <2>2. \/ Falhar(g)
        \/ \E i \in ausente[g] :
              /\ indices' = indices \cup {i} /\ Restam(g, faltam[g] \ {i}, "verIndice")
              /\ UNCHANGED <<criado, tabelas, banco, repo, saude, pool>>
    BY <1>14 DEF CriarIndice
  <2> QED
    BY <1>2, <1>11, <2>1, <2>2
<1>15. CASE Cair \/ Voltar \/ UNCHANGED vars
  BY <1>15 DEF Cair, Voltar, vars, MigracaoInv, MigracaoDe, ConexaoMigrada
<1>16. CASE Reiniciar
  BY <1>16, ComecoTipo DEF Reiniciar, MigracaoInv, MigracaoDe, ConexaoMigrada
<1> QED
  BY <1>3, <1>4, <1>5, <1>6, <1>7, <1>8, <1>9, <1>10, <1>12, <1>13, <1>14, <1>15, <1>16, Casos

\* No request ever works on a pool whose tables are missing, however many
\* goroutines create them at once and wherever one of them fails.
THEOREM ConexaoCorreta == Spec => []ConexaoMigrada
<1>1. MigracaoInv => ConexaoMigrada
  BY DEF MigracaoInv
<1> QED
  BY InitTipo, PassoTipo, InitMigracao, PassoMigracao, <1>1, PTL DEF Spec

-----------------------------------------------------------------------------
(* Refused calls *)

\* A serene call finds the server, the database, every table and every index, and
\* what it hands over at its end is the pool it opened.
SerenaInv ==
    \A g \in Goroutine :
        /\ pc[g] \in {"migrar", "criarTabela", "indexar", "verIndice", "criarIndice",
                      "guardar"} => pool[g] # 0
        /\ serena[g] => /\ noAr /\ EsquemaCompleto
                        /\ pc[g] \notin {"master", "existe", "criar", "criarTabela",
                                         "indexar", "criarIndice", "recusada"}

LEMMA InitSerena == Init => SerenaInv
  BY ComecoTipo DEF Init, SerenaInv

LEMMA PassoSerena == TipoInv /\ SerenaInv /\ [Next]_vars => SerenaInv'
<1> SUFFICES ASSUME TipoInv, SerenaInv, [Next]_vars
             PROVE  SerenaInv'
  OBVIOUS
<1> USE Etapas, TabelasAssumption DEF TipoInv, TypeOK, TiposLogicos, TabelaInv, SerenaInv
<1>1. ASSUME NEW g \in Goroutine, UNCHANGED <<noAr, quedas, reinicios>>,
             GetDB(g) \/ LerGlobal(g) \/ Entregar(g) \/ (g = Inicio /\ Montar) \/ Chamar(g)
      PROVE  SerenaInv'
  BY <1>1 DEF GetDB, LerGlobal, Entregar, Montar, Chamar
<1>2. ASSUME NEW g \in Goroutine, UNCHANGED <<noAr, quedas, reinicios>>,
             Ping(g) \/ Guardar(g)
      PROVE  SerenaInv'
  <2>1. CASE Ping(g)
    <3>1. serena'[g] => noAr /\ EsquemaCompleto
      BY <2>1, Zenon DEF Ping
    <3>2. \A h \in Goroutine : h # g => serena'[h] = serena[h]
      BY <2>1, Zenon DEF Ping
    <3>3. \A h \in Goroutine : h # g => pc'[h] = pc[h] /\ pool'[h] = pool[h]
      BY <2>1 DEF Ping, Devolver
    <3>4. pc'[g] \in {"abrir", "entregar", "montar"}
      BY <2>1 DEF Ping, Devolver
    <3>5. UNCHANGED <<noAr, criado, tabelas, indices>>
      BY <1>2, <2>1 DEF Ping
    <3> QED
      BY <3>1, <3>2, <3>3, <3>4, <3>5
  <2>2. CASE Guardar(g)
    BY <1>2, <2>2 DEF Guardar, Devolver
  <2> QED
    BY <1>2, <2>1, <2>2
<1>3. ASSUME NEW g \in Goroutine, UNCHANGED <<noAr, quedas, reinicios>>,
             AbrirMaster(g) \/ VerificarBanco(g)
      PROVE  SerenaInv'
  BY <1>3 DEF AbrirMaster, VerificarBanco, Falhar, Devolver
<1>4. ASSUME NEW g \in Goroutine, UNCHANGED <<noAr, quedas, reinicios>>,
             Abrir(g) \/ Reabrir(g)
      PROVE  SerenaInv'
  BY <1>4 DEF Abrir, Reabrir, NovoPool, Falhar, Devolver
<1>5. ASSUME NEW g \in Goroutine, UNCHANGED <<noAr, quedas, reinicios>>, CriarBanco(g)
      PROVE  SerenaInv'
  BY <1>5 DEF CriarBanco, Falhar, Devolver
\* A step of a migration that adds to the schema is one of a call that found it
\* incomplete: no call is serene then.
<1>6. ASSUME NEW g \in Goroutine, UNCHANGED <<noAr, quedas, reinicios, pool, serena>>,
             pc[g] \in {"migrar", "criarTabela", "indexar", "verIndice", "criarIndice"},
             \/ UNCHANGED servidorVars
             \/ \A h \in Goroutine : ~serena[h],
             \A h \in Goroutine \ {g} : pc'[h] = pc[h],
             pc'[g] \in {"migrar", "criarTabela", "indexar", "verIndice", "criarIndice",
                         "guardar"},
             serena[g] => pc'[g] \in {"migrar", "verIndice", "guardar"}
      PROVE  SerenaInv'
  BY <1>6
<1>7. ASSUME NEW g \in Goroutine, UNCHANGED <<noAr, quedas, reinicios>>,
             \/ Migrar(g) \/ CriarTabela(g) \/ Indexar(g) \/ VerIndice(g) \/ CriarIndice(g)
      PROVE  SerenaInv'
  <2>1. ASSUME Falhar(g), ~serena[g]
        PROVE  SerenaInv'
    BY <1>7, <2>1 DEF Falhar, Devolver
  <2>2. CASE Migrar(g)
    <3>1. /\ pc[g] = "migrar" /\ \A h \in Goroutine \ {g} : pc'[h] = pc[h]
          /\ Falhar(g) => ~serena[g]
      BY <1>7, <2>2 DEF Migrar, Restam, Falhar, Devolver
    <3>2. ~Falhar(g) => /\ UNCHANGED <<servidorVars, pool, serena>>
                        /\ pc'[g] \in {"migrar", "criarTabela", "verIndice", "guardar"}
                        /\ pc'[g] = "criarTabela" => ~serena[g]
      BY <2>2 DEF Migrar, Restam
    <3> QED
      BY <1>6, <1>7, <2>1, <3>1, <3>2
  <2>3. CASE CriarTabela(g)
    <3>1. ~serena[g] /\ pc[g] = "criarTabela"
      BY <2>3 DEF CriarTabela
    <3>2. ~Falhar(g) => /\ UNCHANGED <<pool, serena>> /\ pc'[g] \in {"migrar", "indexar"}
                        /\ \A h \in Goroutine \ {g} : pc'[h] = pc[h]
                        /\ \A h \in Goroutine : ~serena[h]
      BY <2>3 DEF CriarTabela, Restam
    <3> QED
      BY <1>6, <1>7, <2>1, <3>1, <3>2
  <2>4. CASE Indexar(g)
    <3>1. ~serena[g] /\ pc[g] = "indexar"
      BY <2>4 DEF Indexar
    <3>2. ~Falhar(g) => /\ UNCHANGED <<pool, serena>> /\ pc'[g] \in {"migrar", "indexar"}
                        /\ \A h \in Goroutine \ {g} : pc'[h] = pc[h]
                        /\ \A h \in Goroutine : ~serena[h]
      BY <2>4 DEF Indexar, Restam
    <3> QED
      BY <1>6, <1>7, <2>1, <3>1, <3>2
  <2>5. CASE VerIndice(g)
    <3>1. pc[g] = "verIndice" /\ (Falhar(g) => ~serena[g])
      BY <1>7, <2>5 DEF VerIndice, Restam, Falhar, Devolver
    <3>2. ~Falhar(g) => /\ UNCHANGED <<servidorVars, pool, serena>>
                        /\ pc'[g] \in {"migrar", "verIndice", "criarIndice"}
                        /\ \A h \in Goroutine \ {g} : pc'[h] = pc[h]
                        /\ pc'[g] = "criarIndice" => ~serena[g]
      BY <2>5 DEF VerIndice, Restam
    <3> QED
      BY <1>6, <1>7, <2>1, <3>1, <3>2
  <2>6. CASE CriarIndice(g)
    <3>1. ~serena[g] /\ pc[g] = "criarIndice"
      BY <2>6 DEF CriarIndice
    <3>2. ~Falhar(g) => /\ UNCHANGED <<pool, serena>> /\ pc'[g] \in {"migrar", "verIndice"}
                        /\ \A h \in Goroutine \ {g} : pc'[h] = pc[h]
                        /\ \A h \in Goroutine : ~serena[h]
      BY <2>6 DEF CriarIndice, Restam
    <3> QED
      BY <1>6, <1>7, <2>1, <3>1, <3>2
  <2> QED
    BY <1>7, <2>2, <2>3, <2>4, <2>5, <2>6
<1>8. CASE Cair \/ Voltar
  BY <1>8, ComecoTipo DEF Cair, Voltar
<1>9. CASE Reiniciar
  BY <1>9, ComecoTipo DEF Reiniciar
<1>10. CASE UNCHANGED vars
  BY <1>10 DEF vars
<1> QED
  BY <1>1, <1>2, <1>3, <1>4, <1>5, <1>7, <1>8, <1>9, <1>10, Casos

\* While SQL Server answers, concurrent calls refuse each other only until the last
\* index of the schema is there.
THEOREM RecusaCorreta == Spec => []RecusaTemCausa
<1>1. SerenaInv => RecusaTemCausa
  BY DEF SerenaInv, RecusaTemCausa, Goroutine
<1> QED
  BY InitTipo, PassoTipo, InitSerena, PassoSerena, <1>1, PTL DEF Spec

-----------------------------------------------------------------------------
(* The pool of the health handler *)

\* Before main built the handlers nobody else has run; if it built them with a pool,
\* the repository has the same one and no call gets as far as the global DB.
SaudeInv ==
    /\ pc[Inicio] \in DeConnectDB \cup {"montar", "pronta"}
    /\ pc[Inicio] # "pronta" =>
          /\ repo = 0 /\ saude = 0
          /\ \A g \in Chamador : pc[g] = "ociosa"
    /\ pc[Inicio] \in {"ping", "abrir", "master", "existe", "criar", "reabrir"} =>
          abertos = 0 /\ banco = 0
    /\ pc[Inicio] \in {"migrar", "criarTabela", "indexar", "verIndice", "criarIndice",
                       "guardar"} =>
          abertos = 1 /\ banco = 0 /\ pool[Inicio] = 1
    /\ pc[Inicio] = "montar" /\ pool[Inicio] # 0 =>
          abertos = 1 /\ banco = 1 /\ pool[Inicio] = 1
    /\ saude # 0 =>
          /\ saude = 1 /\ repo = 1 /\ banco = 1 /\ abertos = 1
          /\ \A g \in Chamador : pc[g] \in {"ociosa", "atendida", "getDB"}

LEMMA InitSaude == Init => SaudeInv
  BY ComecoTipo, Etapas, InicioAssumption DEF Init, SaudeInv, DeConnectDB, Goroutine

LEMMA PassoSaude == TipoInv /\ SaudeInv /\ [Next]_vars => SaudeInv'
<1> SUFFICES ASSUME TipoInv, SaudeInv, [Next]_vars
             PROVE  SaudeInv'
  OBVIOUS
<1> USE Etapas, InicioAssumption
    DEF TipoInv, TypeOK, TiposLogicos, SaudeInv, DeConnectDB, Goroutine
<1>1. ASSUME NEW g \in Goroutine, UNCHANGED <<noAr, quedas, reinicios>>,
             GetDB(g) \/ LerGlobal(g) \/ Entregar(g) \/ (g = Inicio /\ Montar) \/ Chamar(g)
      PROVE  SaudeInv'
  BY <1>1 DEF GetDB, LerGlobal, Entregar, Montar, Chamar, Ociosa
<1>2. ASSUME NEW g \in Goroutine, UNCHANGED <<noAr, quedas, reinicios>>,
             Ping(g) \/ Guardar(g)
      PROVE  SaudeInv'
  BY <1>2 DEF Ping, Guardar, Devolver
<1>3. ASSUME NEW g \in Goroutine, UNCHANGED <<noAr, quedas, reinicios>>,
             AbrirMaster(g) \/ VerificarBanco(g)
      PROVE  SaudeInv'
  BY <1>3 DEF AbrirMaster, VerificarBanco, Falhar, Devolver
<1>4. ASSUME NEW g \in Goroutine, UNCHANGED <<noAr, quedas, reinicios>>,
             Abrir(g) \/ Reabrir(g)
      PROVE  SaudeInv'
  BY <1>4 DEF Abrir, Reabrir, NovoPool, Falhar, Devolver
<1>5. ASSUME NEW g \in Goroutine, UNCHANGED <<noAr, quedas, reinicios>>, CriarBanco(g)
      PROVE  SaudeInv'
  BY <1>5 DEF CriarBanco, Falhar, Devolver
<1>6. ASSUME NEW g \in Goroutine, UNCHANGED <<noAr, quedas, reinicios>>,
             Migrar(g) \/ CriarTabela(g) \/ Indexar(g) \/ VerIndice(g) \/ CriarIndice(g)
      PROVE  SaudeInv'
  <2>1. CASE Falhar(g)
    BY <1>6, <2>1 DEF Migrar, CriarTabela, Indexar, VerIndice, CriarIndice, Falhar, Devolver
  <2>2. CASE ~Falhar(g)
    <3>1. /\ UNCHANGED <<ponteiros, abertos, pool>>
          /\ pc[g] \in {"migrar", "criarTabela", "indexar", "verIndice", "criarIndice"}
          /\ pc'[g] \in {"migrar", "criarTabela", "indexar", "verIndice", "criarIndice", "guardar"}
          /\ \A h \in Goroutine \ {g} : pc'[h] = pc[h]
      BY <1>6, <2>2 DEF Migrar, CriarTabela, Indexar, VerIndice, CriarIndice, Restam
    <3> QED
      BY <3>1
  <2> QED
    BY <2>1, <2>2
<1>7. CASE Cair \/ Voltar
  BY <1>7 DEF Cair, Voltar
<1>8. CASE Reiniciar
  BY <1>8, ComecoTipo DEF Reiniciar
<1>9. CASE UNCHANGED vars
  BY <1>9 DEF vars
<1> QED
  BY <1>1, <1>2, <1>3, <1>4, <1>5, <1>6, <1>7, <1>8, <1>9, Casos

\* A health endpoint that is UP speaks of the pool the requests use, with its schema.
THEOREM SaudeCorreta == Spec => []SaudeDoPoolUsado
<1>1. SaudeInv /\ MigracaoInv => SaudeDoPoolUsado
  BY DEF SaudeInv, MigracaoInv, ConexaoMigrada, SaudeDoPoolUsado, SqlServerUp
<1> QED
  BY InitTipo, PassoTipo, InitMigracao, PassoMigracao, InitSaude, PassoSaude, <1>1, PTL
  DEF Spec
=============================================================================
