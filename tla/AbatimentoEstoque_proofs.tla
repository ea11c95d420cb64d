---------------------- MODULE AbatimentoEstoque_proofs ----------------------
(***************************************************************************)
(* Proofs about AbatimentoEstoque, for any notas, products, workers and    *)
(* bounds.  The invariant is built in layers, each proved with the ones    *)
(* below it: types, what each step of the consumer already holds, the      *)
(* locks, the balances.                                                    *)
(***************************************************************************)
EXTENDS AbatimentoEstoque, TLAPS

USE DEF Vai, Publica, SemFalha, ComFalha, SaldoDebitado, SetProdutoCache

\* The balances that are about to be cached come from a validated read.
CacheValidado == \A w \in Trabalhador : pc[w] = "cache" => LidoSuficiente(w)

TipoInv == TypeOK /\ CacheValidado

LEMMA InitTipo == Init => TipoInv
  BY ConstantesAssumption
  DEF Init, TipoInv, TypeOK, FilaTipo, RedisTipo, DbTipo, LocalTipo, LimiteTipo,
      CacheValidado, NadaLido, NaoLido, Livre, Orfa, Passos

\* A worker that moves on and touches nothing else of its state stays typed.
LEMMA Andar ==
  ASSUME LocalTipo, NEW w \in Trabalhador, pc[w] # "ocioso",
         NEW s \in Passos \ {"ocioso"}, pc' = [pc EXCEPT ![w] = s],
         UNCHANGED localVars
  PROVE  LocalTipo'
  BY DEF LocalTipo, localVars

\* What a validated read leaves after the debit is a natural number.
LEMMA DebitoNatural ==
  ASSUME LocalTipo, NEW w \in Trabalhador, nota[w] \in Nota, LidoSuficiente(w),
         NEW p \in Itens(nota[w])
  PROVE  SaldoDebitado(w, p) \in Nat
<1>1. Qtd[nota[w]][p] \in Nat /\ Qtd[nota[w]][p] <= lido[w][p]
  BY ConstantesAssumption DEF Itens, LidoSuficiente
<1>2. lido[w][p] \in Int
  BY DEF LocalTipo, Itens, NaoLido
<1> QED
  BY <1>1, <1>2

\* What a publication does to the counters of RabbitMQ.
SomaUm(f, g, n) == g = f \/ g = [f EXCEPT ![n] = @ + 1]

LEMMA PublicarTipo ==
  ASSUME FilaTipo, NEW n \in Nota, UNCHANGED <<fila, emissoes, erros>>,
         SomaUm(abatidas, abatidas', n), SomaUm(recusas, recusas', n),
         SomaUm(desistencias, desistencias', n), SomaUm(incertas, incertas', n)
  PROVE  FilaTipo'
<1>1. ASSUME NEW f \in [Nota -> Nat], NEW g, SomaUm(f, g, n)
      PROVE  g \in [Nota -> Nat]
  BY <1>1 DEF SomaUm
<1> QED
  BY <1>1 DEF FilaTipo

LEMMA TravarTipo ==
  ASSUME LocalTipo, NEW w \in Trabalhador, NEW p \in Produto,
         UNCHANGED <<pc, nota, tentativa, lido, feitos>>,
         \/ travas' = travas
         \/ travas' = [travas EXCEPT ![w] = @ \cup {p}]
         \/ travas' = [travas EXCEPT ![w] = @ \ {p}]
  PROVE  LocalTipo'
  BY DEF LocalTipo

LEMMA PassoTipo == TipoInv /\ [Next]_vars => TipoInv'
<1> SUFFICES ASSUME TipoInv, [Next]_vars
             PROVE  TipoInv'
  OBVIOUS
<1> USE ConstantesAssumption, MarcasAssumption
    DEF TipoInv, TypeOK, FilaTipo, RedisTipo, DbTipo, LocalTipo, LimiteTipo,
           CacheValidado, Passos, LidoSuficiente, Itens
<1>1. ASSUME NEW n \in Nota, Emitir(n)
      PROVE  TipoInv'
  BY <1>1 DEF Emitir, respostas, redisVars, dbVars, localVars, limites
<1>2. ASSUME NEW w \in Trabalhador, NEW n \in Nota, Receber(w, n)
      PROVE  TipoInv'
  BY <1>2 DEF Receber, respostas, redisVars, dbVars, limites
<1>3. ASSUME NEW w \in Trabalhador, VerificarIdempotencia(w)
      PROVE  TipoInv'
  <2>1. LocalTipo'
    BY <1>3, Andar DEF VerificarIdempotencia
  <2>2. CacheValidado'
    BY <1>3 DEF VerificarIdempotencia, localVars
  <2> QED
    BY <1>3, <2>1, <2>2 DEF VerificarIdempotencia, filaVars, redisVars, dbVars
<1>4. ASSUME NEW w \in Trabalhador, NEW p \in Produto, AdquirirTrava(w, p)
      PROVE  TipoInv'
  <2>1. falhas' \in Nat
    BY <1>4 DEF AdquirirTrava
  <2>2. LocalTipo' /\ CacheValidado'
    BY <1>4, TravarTipo DEF AdquirirTrava
  <2>3. dono' \in [Produto -> Trabalhador \cup {Livre, Orfa}]
    BY <1>4 DEF AdquirirTrava
  <2> QED
    BY <1>4, <2>1, <2>2, <2>3 DEF AdquirirTrava, filaVars, dbVars
<1>5. ASSUME NEW w \in Trabalhador, ComTodasAsTravas(w)
      PROVE  TipoInv'
  BY <1>5 DEF ComTodasAsTravas, filaVars, redisVars, dbVars, localVars, limites
<1>6. ASSUME NEW w \in Trabalhador, NEW p \in Produto, EsperaEsgotada(w, p)
      PROVE  TipoInv'
  BY <1>6 DEF EsperaEsgotada, filaVars, redisVars, dbVars, localVars
<1>7. ASSUME NEW w \in Trabalhador, NEW p \in Produto, LerProduto(w, p)
      PROVE  TipoInv'
  BY <1>7 DEF LerProduto, filaVars, redisVars, dbVars, limites
<1>8. ASSUME NEW w \in Trabalhador, PublicarRecusa(w)
      PROVE  TipoInv'
  <2>1. LocalTipo'
    BY <1>8, Andar DEF PublicarRecusa
  <2>2. falhas' \in Nat
    BY <1>8 DEF PublicarRecusa
  <2>3. CacheValidado'
    BY <1>8 DEF PublicarRecusa, localVars
  <2>4. FilaTipo'
    <3> HIDE DEF TipoInv, TypeOK, FilaTipo
    <3>1. FilaTipo /\ nota[w] \in Nota
      BY <1>8 DEF PublicarRecusa, TipoInv, TypeOK
    <3>2. UNCHANGED <<fila, emissoes, erros>>
      BY <1>8 DEF PublicarRecusa
    <3>3. /\ SomaUm(abatidas, abatidas', nota[w]) /\ SomaUm(recusas, recusas', nota[w])
          /\ SomaUm(desistencias, desistencias', nota[w])
          /\ SomaUm(incertas, incertas', nota[w])
      BY <1>8 DEF PublicarRecusa, SomaUm
    <3> QED
      BY <3>1, <3>2, <3>3, PublicarTipo
  <2> QED
    BY <1>8, <2>1, <2>2, <2>3, <2>4 DEF PublicarRecusa, redisVars, dbVars
<1>9. ASSUME NEW w \in Trabalhador, Commit(w)
      PROVE  TipoInv'
  <2>1. LocalTipo'
    BY <1>9, Andar DEF Commit
  <2>2. CacheValidado'
    BY <1>9 DEF Commit, localVars
  <2>3. nota[w] \in Nota
    BY <1>9 DEF Commit
  <2>4. \A p \in Itens(nota[w]) : lido[w][p] - Qtd[nota[w]][p] \in Nat
    BY <1>9, <2>3, DebitoNatural DEF Commit
  <2>5. saldo' \in [Produto -> Nat]
    BY <1>9, <2>4 DEF Commit
  <2>6. debitado' \in [Produto -> Nat]
    BY <1>9, <2>3 DEF Commit
  <2>7. debitos' \in [Nota -> Nat]
    BY <1>9, <2>3 DEF Commit
  <2>8. LimiteTipo'
    BY <1>9 DEF Commit
  <2> QED
    BY <1>9, <2>1, <2>2, <2>5, <2>6, <2>7, <2>8 DEF Commit, filaVars, redisVars
<1>10. ASSUME NEW w \in Trabalhador, NEW p \in Produto, AtualizarCache(w, p)
       PROVE  TipoInv'
  <2>1. nota[w] \in Nota
    BY <1>10 DEF AtualizarCache
  <2>2. lido[w][p] - Qtd[nota[w]][p] \in Nat
    BY <1>10, <2>1, DebitoNatural DEF AtualizarCache
  <2>3. cache' \in [Produto -> Nat]
    BY <1>10, <2>2 DEF AtualizarCache
  <2>4. LocalTipo' /\ CacheValidado'
    BY <1>10 DEF AtualizarCache
  <2> QED
    BY <1>10, <2>3, <2>4 DEF AtualizarCache, filaVars, dbVars
<1>11. ASSUME NEW w \in Trabalhador, SalvarIdempotencia(w)
       PROVE  TipoInv'
  <2>1. LocalTipo'
    BY <1>11, Andar DEF SalvarIdempotencia
  <2>2. CacheValidado'
    BY <1>11 DEF SalvarIdempotencia, localVars
  <2>3. RedisTipo'
    BY <1>11 DEF SalvarIdempotencia
  <2> QED
    BY <1>11, <2>1, <2>2, <2>3 DEF SalvarIdempotencia, filaVars, dbVars
<1>12. ASSUME NEW w \in Trabalhador, PublicarAbatida(w)
       PROVE  TipoInv'
  <2>1. LocalTipo'
    BY <1>12, Andar DEF PublicarAbatida
  <2>2. falhas' \in Nat
    BY <1>12 DEF PublicarAbatida
  <2>3. CacheValidado'
    BY <1>12 DEF PublicarAbatida, localVars
  <2>4. FilaTipo'
    <3> HIDE DEF TipoInv, TypeOK, FilaTipo
    <3>1. FilaTipo /\ nota[w] \in Nota
      BY <1>12 DEF PublicarAbatida, TipoInv, TypeOK
    <3>2. UNCHANGED <<fila, emissoes, erros>>
      BY <1>12 DEF PublicarAbatida
    <3>3. /\ SomaUm(abatidas, abatidas', nota[w]) /\ SomaUm(recusas, recusas', nota[w])
          /\ SomaUm(desistencias, desistencias', nota[w])
          /\ SomaUm(incertas, incertas', nota[w])
      BY <1>12 DEF PublicarAbatida, SomaUm
    <3> QED
      BY <3>1, <3>2, <3>3, PublicarTipo
  <2> QED
    BY <1>12, <2>1, <2>2, <2>3, <2>4 DEF PublicarAbatida, redisVars, dbVars
<1>13. ASSUME NEW w \in Trabalhador, FalhaInfra(w)
       PROVE  TipoInv'
  BY <1>13 DEF FalhaInfra, filaVars, redisVars, dbVars, localVars
<1>14. ASSUME NEW w \in Trabalhador, Relancar(w)
       PROVE  TipoInv'
  BY <1>14 DEF Relancar, filaVars, redisVars, dbVars, localVars, limites
<1>15. ASSUME NEW w \in Trabalhador, PublicarDesistencia(w)
       PROVE  TipoInv'
  <2>1. LocalTipo'
    BY <1>15, Andar DEF PublicarDesistencia
  <2>2. falhas' \in Nat
    BY <1>15 DEF PublicarDesistencia
  <2>3. CacheValidado'
    BY <1>15 DEF PublicarDesistencia, localVars
  <2>4. FilaTipo'
    <3> HIDE DEF TipoInv, TypeOK, FilaTipo
    <3>1. FilaTipo /\ nota[w] \in Nota
      BY <1>15 DEF PublicarDesistencia, TipoInv, TypeOK
    <3>2. UNCHANGED <<fila, emissoes, erros>>
      BY <1>15 DEF PublicarDesistencia
    <3>3. /\ SomaUm(abatidas, abatidas', nota[w]) /\ SomaUm(recusas, recusas', nota[w])
          /\ SomaUm(desistencias, desistencias', nota[w])
          /\ SomaUm(incertas, incertas', nota[w])
      BY <1>15 DEF PublicarDesistencia, SomaUm
    <3> QED
      BY <3>1, <3>2, <3>3, PublicarTipo
  <2> QED
    BY <1>15, <2>1, <2>2, <2>3, <2>4 DEF PublicarDesistencia, redisVars, dbVars
<1>16. ASSUME NEW w \in Trabalhador, NEW p \in Produto, LiberarTrava(w, p)
       PROVE  TipoInv'
  <2>1. falhas' \in Nat
    BY <1>16 DEF LiberarTrava
  <2>2. LocalTipo' /\ CacheValidado'
    BY <1>16, TravarTipo DEF LiberarTrava
  <2>3. dono' \in [Produto -> Trabalhador \cup {Livre, Orfa}]
    BY <1>16 DEF LiberarTrava
  <2> QED
    BY <1>16, <2>1, <2>2, <2>3 DEF LiberarTrava, filaVars, dbVars
<1>17. ASSUME NEW w \in Trabalhador, Reconhecer(w)
       PROVE  TipoInv'
  BY <1>17 DEF Reconhecer, FimDaTentativa, SoltarNota, respostas, redisVars,
               dbVars, limites, NadaLido
<1>18. ASSUME NEW w \in Trabalhador, TentarDeNovo(w)
       PROVE  TipoInv'
  <2>1. tentativa' \in [Trabalhador -> 0..3]
    <3>1. tentativa[w] \in 0..3
      OBVIOUS
    <3>2. tentativa[w] + 1 \in 0..3
      BY <1>18, <3>1 DEF TentarDeNovo
    <3> QED
      BY <1>18, <3>2 DEF TentarDeNovo
  <2>2. lido' \in [Trabalhador -> [Produto -> Nat \cup {NaoLido}]]
    BY <1>18 DEF TentarDeNovo, FimDaTentativa, NadaLido
  <2>3. LocalTipo' /\ CacheValidado'
    BY <1>18, <2>1, <2>2 DEF TentarDeNovo, FimDaTentativa
  <2> QED
    BY <1>18, <2>3 DEF TentarDeNovo, FimDaTentativa, respostas, redisVars,
                       dbVars, limites
<1>19. ASSUME NEW w \in Trabalhador, MoverParaErro(w)
       PROVE  TipoInv'
  BY <1>19 DEF MoverParaErro, FimDaTentativa, SoltarNota, respostas,
               redisVars, dbVars, limites, NadaLido
<1>20. ASSUME NEW w \in Trabalhador, Queda(w)
       PROVE  TipoInv'
  BY <1>20 DEF Queda, SoltarNota, respostas, dbVars, NadaLido
<1>21. ASSUME NEW p \in Produto, Expirar(p)
       PROVE  TipoInv'
  BY <1>21 DEF Expirar, filaVars, dbVars, localVars, limites
<1>22. ASSUME NEW p \in Produto, PerderTrava(p)
       PROVE  TipoInv'
  BY <1>22 DEF PerderTrava, filaVars, dbVars, localVars
<1>23. CASE UNCHANGED vars
  BY <1>23 DEF vars, filaVars, redisVars, dbVars, localVars, limites
<1> QED
  BY <1>1, <1>2, <1>3, <1>4, <1>5, <1>6, <1>7, <1>8, <1>9, <1>10, <1>11, <1>12,
     <1>13, <1>14, <1>15, <1>16, <1>17, <1>18, <1>19, <1>20, <1>21, <1>22, <1>23
  DEF Next, Consumo, Passo, Ambiente

\* Every reachable state is well typed; in particular no balance, in the
\* database or in the cache, is ever negative, even when locks are lost.
THEOREM TipoCorreto == Spec => []TypeOK
<1>1. TipoInv => TypeOK
  BY DEF TipoInv
<1> QED
  BY InitTipo, PassoTipo, <1>1, PTL DEF Spec

-----------------------------------------------------------------------------
(* What a worker holds at each step *)

\* An attempt starts with no lock and nothing read, reads only under all the
\* locks of its nota, and takes only those.
TravasDoPasso ==
    \A w \in Trabalhador :
        /\ pc[w] \in {"ocioso", "verificar"} => travas[w] = {}
        /\ pc[w] \in {"ocioso", "verificar", "adquirir"} => lido[w] = NadaLido
        /\ pc[w] = "adquirir" => travas[w] \subseteq Itens(nota[w])
        /\ pc[w] = "ler" => travas[w] = Itens(nota[w])

\* A worker takes its locks in ascending key order, whatever its nota is.
OrdemDasTravas ==
    \A w \in Trabalhador : pc[w] = "adquirir" =>
        \A p \in travas[w], q \in Itens(nota[w]) \ travas[w] : p < q

PassoInv == TravasDoPasso /\ OrdemDasTravas

LEMMA InitPasso == Init => PassoInv
  BY DEF Init, PassoInv, TravasDoPasso, OrdemDasTravas

LEMMA PassoPasso == TipoInv /\ PassoInv /\ [Next]_vars => PassoInv'
<1> SUFFICES ASSUME TypeOK, PassoInv, [Next]_vars
             PROVE  PassoInv'
  BY DEF TipoInv
<1> USE DEF PassoInv, TravasDoPasso, OrdemDasTravas, TypeOK, LocalTipo, Passos
<1>1. ASSUME NEW n \in Nota, Emitir(n)
      PROVE  PassoInv'
  BY <1>1 DEF Emitir, filaVars, respostas, redisVars, dbVars, localVars, limites
<1>2. ASSUME NEW w \in Trabalhador, NEW n \in Nota, Receber(w, n)
      PROVE  PassoInv'
  BY <1>2 DEF Receber, filaVars, respostas, redisVars, dbVars, localVars, limites
<1>3. ASSUME NEW w \in Trabalhador, VerificarIdempotencia(w)
      PROVE  PassoInv'
  BY <1>3 DEF VerificarIdempotencia, filaVars, respostas,
           redisVars, dbVars, localVars, limites
<1>4. ASSUME NEW w \in Trabalhador, NEW p \in Produto, AdquirirTrava(w, p)
      PROVE  PassoInv'
  <2>1. CASE UNCHANGED travas
    BY <1>4, <2>1 DEF AdquirirTrava
  <2>2. CASE travas' = [travas EXCEPT ![w] = @ \cup {p}]
    <3>1. p \in Itens(nota[w])
      BY <1>4 DEF AdquirirTrava, ProximaChave
    <3>2. \A q \in Itens(nota[w]) \ (travas[w] \cup {p}) : p < q
      BY <1>4, ConstantesAssumption DEF AdquirirTrava, ProximaChave, Itens
    <3>3. UNCHANGED <<pc, nota, lido>>
      BY <1>4 DEF AdquirirTrava
    <3>4. OrdemDasTravas'
      BY <1>4, <2>2, <3>2, <3>3 DEF AdquirirTrava
    <3> QED
      BY <1>4, <2>2, <3>1, <3>3, <3>4 DEF AdquirirTrava
  <2> QED
    BY <1>4, <2>1, <2>2 DEF AdquirirTrava
<1>5. ASSUME NEW w \in Trabalhador, ComTodasAsTravas(w)
      PROVE  PassoInv'
  BY <1>5 DEF ComTodasAsTravas, filaVars, respostas,
           redisVars, dbVars, localVars, limites
<1>6. ASSUME NEW w \in Trabalhador, NEW p \in Produto, EsperaEsgotada(w, p)
      PROVE  PassoInv'
  BY <1>6 DEF EsperaEsgotada, filaVars, respostas,
           redisVars, dbVars, localVars, limites
<1>7. ASSUME NEW w \in Trabalhador, NEW p \in Produto, LerProduto(w, p)
      PROVE  PassoInv'
  BY <1>7 DEF LerProduto, filaVars, respostas,
           redisVars, dbVars, localVars, limites
<1>8. ASSUME NEW w \in Trabalhador, PublicarRecusa(w)
      PROVE  PassoInv'
  BY <1>8 DEF PublicarRecusa, filaVars, respostas,
           redisVars, dbVars, localVars, limites
<1>9. ASSUME NEW w \in Trabalhador, Commit(w)
      PROVE  PassoInv'
  BY <1>9 DEF Commit, filaVars, respostas, redisVars, dbVars, localVars, limites
<1>10. ASSUME NEW w \in Trabalhador, NEW p \in Produto, AtualizarCache(w, p)
      PROVE  PassoInv'
  BY <1>10 DEF AtualizarCache, filaVars, respostas,
           redisVars, dbVars, localVars, limites
<1>11. ASSUME NEW w \in Trabalhador, SalvarIdempotencia(w)
      PROVE  PassoInv'
  BY <1>11 DEF SalvarIdempotencia, filaVars, respostas,
           redisVars, dbVars, localVars, limites
<1>12. ASSUME NEW w \in Trabalhador, PublicarAbatida(w)
      PROVE  PassoInv'
  BY <1>12 DEF PublicarAbatida, filaVars, respostas,
           redisVars, dbVars, localVars, limites
<1>13. ASSUME NEW w \in Trabalhador, FalhaInfra(w)
      PROVE  PassoInv'
  BY <1>13 DEF FalhaInfra, filaVars, respostas,
           redisVars, dbVars, localVars, limites
<1>14. ASSUME NEW w \in Trabalhador, Relancar(w)
      PROVE  PassoInv'
  BY <1>14 DEF Relancar, filaVars, respostas,
           redisVars, dbVars, localVars, limites
<1>15. ASSUME NEW w \in Trabalhador, PublicarDesistencia(w)
      PROVE  PassoInv'
  BY <1>15 DEF PublicarDesistencia, filaVars, respostas,
           redisVars, dbVars, localVars, limites
<1>16. ASSUME NEW w \in Trabalhador, NEW p \in Produto, LiberarTrava(w, p)
      PROVE  PassoInv'
  BY <1>16 DEF LiberarTrava, filaVars, respostas,
           redisVars, dbVars, localVars, limites
<1>17. ASSUME NEW w \in Trabalhador, Reconhecer(w)
      PROVE  PassoInv'
  BY <1>17 DEF Reconhecer, FimDaTentativa, SoltarNota, filaVars, respostas,
           redisVars, dbVars, localVars, limites
<1>18. ASSUME NEW w \in Trabalhador, TentarDeNovo(w)
      PROVE  PassoInv'
  BY <1>18 DEF TentarDeNovo, FimDaTentativa, filaVars, respostas,
           redisVars, dbVars, localVars, limites
<1>19. ASSUME NEW w \in Trabalhador, MoverParaErro(w)
      PROVE  PassoInv'
  BY <1>19 DEF MoverParaErro, FimDaTentativa, SoltarNota, filaVars, respostas,
           redisVars, dbVars, localVars, limites
<1>20. ASSUME NEW w \in Trabalhador, Queda(w)
      PROVE  PassoInv'
  BY <1>20 DEF Queda, SoltarNota, filaVars, respostas,
           redisVars, dbVars, localVars, limites
<1>21. ASSUME NEW p \in Produto, Expirar(p)
      PROVE  PassoInv'
  BY <1>21 DEF Expirar, filaVars, respostas, redisVars, dbVars, localVars, limites
<1>22. ASSUME NEW p \in Produto, PerderTrava(p)
      PROVE  PassoInv'
  BY <1>22 DEF PerderTrava, filaVars, respostas,
           redisVars, dbVars, localVars, limites
<1>23. CASE UNCHANGED vars
  BY <1>23 DEF vars, filaVars, respostas, redisVars, dbVars, localVars, limites
<1> QED
  BY <1>1, <1>2, <1>3, <1>4, <1>5, <1>6, <1>7, <1>8, <1>9, <1>10, <1>11, <1>12,
     <1>13, <1>14, <1>15, <1>16, <1>17, <1>18, <1>19, <1>20, <1>21, <1>22, <1>23
  DEF Next, Consumo, Passo, Ambiente

-----------------------------------------------------------------------------
(* The locks *)

LEMMA InitExclusao == Init => ExclusaoMutua
  BY MarcasAssumption DEF Init, ExclusaoMutua

LEMMA PassoExclusao ==
  TipoInv /\ PassoInv /\ ExclusaoMutua /\ [Next]_vars => ExclusaoMutua'
<1> SUFFICES ASSUME TypeOK, TravasDoPasso, ExclusaoMutua, [Next]_vars
             PROVE  ExclusaoMutua'
  BY DEF TipoInv, PassoInv
<1> USE MarcasAssumption
    DEF ExclusaoMutua, TravasDoPasso, TypeOK, RedisTipo, LocalTipo, Passos
<1>1. ASSUME NEW n \in Nota, Emitir(n)
      PROVE  ExclusaoMutua'
  BY <1>1 DEF Emitir, filaVars, respostas, redisVars, dbVars, localVars, limites
<1>2. ASSUME NEW w \in Trabalhador, NEW n \in Nota, Receber(w, n)
      PROVE  ExclusaoMutua'
  BY <1>2 DEF Receber, filaVars, respostas, redisVars, dbVars, localVars, limites
<1>3. ASSUME NEW w \in Trabalhador, VerificarIdempotencia(w)
      PROVE  ExclusaoMutua'
  BY <1>3 DEF VerificarIdempotencia, filaVars, respostas,
           redisVars, dbVars, localVars, limites
<1>4. ASSUME NEW w \in Trabalhador, NEW p \in Produto, AdquirirTrava(w, p)
      PROVE  ExclusaoMutua'
  <2>1. CASE UNCHANGED travas
    BY <1>4, <2>1 DEF AdquirirTrava
  <2>2. CASE travas' = [travas EXCEPT ![w] = @ \cup {p}]
    <3>1. dono[p] = Livre /\ dono' = [dono EXCEPT ![p] = w] /\ UNCHANGED perdas
      BY <1>4, <2>2 DEF AdquirirTrava, ProximaChave
    <3> QED
      BY <2>2, <3>1
  <2> QED
    BY <1>4, <2>1, <2>2 DEF AdquirirTrava
<1>5. ASSUME NEW w \in Trabalhador, ComTodasAsTravas(w)
      PROVE  ExclusaoMutua'
  BY <1>5 DEF ComTodasAsTravas, filaVars, respostas,
           redisVars, dbVars, localVars, limites
<1>6. ASSUME NEW w \in Trabalhador, NEW p \in Produto, EsperaEsgotada(w, p)
      PROVE  ExclusaoMutua'
  BY <1>6 DEF EsperaEsgotada, filaVars, respostas,
           redisVars, dbVars, localVars, limites
<1>7. ASSUME NEW w \in Trabalhador, NEW p \in Produto, LerProduto(w, p)
      PROVE  ExclusaoMutua'
  BY <1>7 DEF LerProduto, filaVars, respostas,
           redisVars, dbVars, localVars, limites
<1>8. ASSUME NEW w \in Trabalhador, PublicarRecusa(w)
      PROVE  ExclusaoMutua'
  BY <1>8 DEF PublicarRecusa, filaVars, respostas,
           redisVars, dbVars, localVars, limites
<1>9. ASSUME NEW w \in Trabalhador, Commit(w)
      PROVE  ExclusaoMutua'
  BY <1>9 DEF Commit, filaVars, respostas, redisVars, dbVars, localVars, limites
<1>10. ASSUME NEW w \in Trabalhador, NEW p \in Produto, AtualizarCache(w, p)
      PROVE  ExclusaoMutua'
  BY <1>10 DEF AtualizarCache, filaVars, respostas,
           redisVars, dbVars, localVars, limites
<1>11. ASSUME NEW w \in Trabalhador, SalvarIdempotencia(w)
      PROVE  ExclusaoMutua'
  BY <1>11 DEF SalvarIdempotencia, filaVars, respostas,
           redisVars, dbVars, localVars, limites
<1>12. ASSUME NEW w \in Trabalhador, PublicarAbatida(w)
      PROVE  ExclusaoMutua'
  BY <1>12 DEF PublicarAbatida, filaVars, respostas,
           redisVars, dbVars, localVars, limites
<1>13. ASSUME NEW w \in Trabalhador, FalhaInfra(w)
      PROVE  ExclusaoMutua'
  BY <1>13 DEF FalhaInfra, filaVars, respostas,
           redisVars, dbVars, localVars, limites
<1>14. ASSUME NEW w \in Trabalhador, Relancar(w)
      PROVE  ExclusaoMutua'
  BY <1>14 DEF Relancar, filaVars, respostas,
           redisVars, dbVars, localVars, limites
<1>15. ASSUME NEW w \in Trabalhador, PublicarDesistencia(w)
      PROVE  ExclusaoMutua'
  BY <1>15 DEF PublicarDesistencia, filaVars, respostas,
           redisVars, dbVars, localVars, limites
<1>16. ASSUME NEW w \in Trabalhador, NEW p \in Produto, LiberarTrava(w, p)
      PROVE  ExclusaoMutua'
  BY <1>16 DEF LiberarTrava, filaVars, respostas,
           redisVars, dbVars, localVars, limites
<1>17. ASSUME NEW w \in Trabalhador, Reconhecer(w)
      PROVE  ExclusaoMutua'
  BY <1>17 DEF Reconhecer, FimDaTentativa, SoltarNota, filaVars, respostas,
           redisVars, dbVars, localVars, limites
<1>18. ASSUME NEW w \in Trabalhador, TentarDeNovo(w)
      PROVE  ExclusaoMutua'
  BY <1>18 DEF TentarDeNovo, FimDaTentativa, filaVars, respostas,
           redisVars, dbVars, localVars, limites
<1>19. ASSUME NEW w \in Trabalhador, MoverParaErro(w)
      PROVE  ExclusaoMutua'
  BY <1>19 DEF MoverParaErro, FimDaTentativa, SoltarNota, filaVars, respostas,
           redisVars, dbVars, localVars, limites
<1>20. ASSUME NEW w \in Trabalhador, Queda(w)
      PROVE  ExclusaoMutua'
  BY <1>20 DEF Queda, SoltarNota, filaVars, respostas,
           redisVars, dbVars, localVars, limites
<1>21. ASSUME NEW p \in Produto, Expirar(p)
      PROVE  ExclusaoMutua'
  BY <1>21 DEF Expirar, filaVars, respostas, redisVars, dbVars, localVars, limites
<1>22. ASSUME NEW p \in Produto, PerderTrava(p)
      PROVE  ExclusaoMutua'
  BY <1>22 DEF PerderTrava, LimiteTipo
<1>23. CASE UNCHANGED vars
  BY <1>23 DEF vars, filaVars, respostas, redisVars, dbVars, localVars, limites
<1> QED
  BY <1>1, <1>2, <1>3, <1>4, <1>5, <1>6, <1>7, <1>8, <1>9, <1>10, <1>11, <1>12,
     <1>13, <1>14, <1>15, <1>16, <1>17, <1>18, <1>19, <1>20, <1>21, <1>22, <1>23
  DEF Next, Consumo, Passo, Ambiente

\* While Redis loses no lock, no two workers hold the lock of one product, for
\* any number of workers, notas, crashes and retries.
THEOREM ExclusaoCorreta == Spec => []ExclusaoMutua
  BY InitTipo, PassoTipo, InitPasso, PassoPasso, InitExclusao, PassoExclusao, PTL
  DEF Spec

\* The owner of a lock knows that it holds it, even when other locks were lost.
DonoSabe == \A p \in Produto : dono[p] \in Trabalhador => p \in travas[dono[p]]

\* What may happen to the lock of p in one step.
Devolvida(p) ==
    dono[p] \in Trabalhador /\ dono'[p] # dono[p] =>
        p \in travas[dono[p]] \ travas'[dono[p]] \/ perdas' > perdas

LEMMA InitDono == Init => DonoSabe
  BY MarcasAssumption DEF Init, DonoSabe

LEMMA PassoDono ==
  TypeOK /\ DonoSabe /\ [Next]_vars => DonoSabe' /\ \A p \in Produto : Devolvida(p)
<1> SUFFICES ASSUME TypeOK, DonoSabe, [Next]_vars
             PROVE  DonoSabe' /\ \A p \in Produto : Devolvida(p)
  OBVIOUS
<1> DEFINE Tese == DonoSabe' /\ \A p \in Produto : Devolvida(p)
<1> USE MarcasAssumption
    DEF DonoSabe, Devolvida, TypeOK, RedisTipo, LocalTipo, LimiteTipo
<1>1. CASE UNCHANGED <<dono, travas>>
  BY <1>1
<1>2. ASSUME NEW w \in Trabalhador, NEW p \in Produto, AdquirirTrava(w, p)
      PROVE  Tese
  <2>1. CASE UNCHANGED travas /\ dono' = [dono EXCEPT ![p] = Orfa]
    BY <1>2, <2>1 DEF AdquirirTrava
  <2>2. CASE travas' = [travas EXCEPT ![w] = @ \cup {p}] /\ dono' = [dono EXCEPT ![p] = w]
    BY <1>2, <2>2 DEF AdquirirTrava
  <2> QED
    BY <1>2, <2>1, <2>2 DEF AdquirirTrava
<1>3. ASSUME NEW w \in Trabalhador, NEW p \in Produto, LiberarTrava(w, p)
      PROVE  Tese
  BY <1>3 DEF LiberarTrava
<1>4. ASSUME NEW w \in Trabalhador, Queda(w)
      PROVE  Tese
  BY <1>4 DEF Queda
<1>5. ASSUME NEW p \in Produto, Expirar(p)
      PROVE  Tese
  BY <1>5 DEF Expirar, localVars
<1>6. ASSUME NEW p \in Produto, PerderTrava(p)
      PROVE  Tese
  BY <1>6 DEF PerderTrava, localVars
<1>7. ASSUME NEW w \in Trabalhador, Passo(w),
             ~\E p \in Produto : AdquirirTrava(w, p) \/ LiberarTrava(w, p)
      PROVE  UNCHANGED <<dono, travas>>
  BY <1>7 DEF Passo, VerificarIdempotencia, ComTodasAsTravas, LerProduto, PublicarRecusa,
     Commit, AtualizarCache, SalvarIdempotencia, PublicarAbatida, Relancar,
     PublicarDesistencia, Reconhecer, TentarDeNovo, MoverParaErro, FimDaTentativa,
     redisVars, localVars
<1>8. ASSUME \/ \E n \in Nota : Emitir(n)
             \/ \E w \in Trabalhador, n \in Nota : Receber(w, n)
             \/ \E w \in Trabalhador : FalhaInfra(w) \/ \E p \in Produto : EsperaEsgotada(w, p)
             \/ UNCHANGED vars
      PROVE  UNCHANGED <<dono, travas>>
  BY <1>8 DEF Emitir, Receber, FalhaInfra, EsperaEsgotada, vars, redisVars, localVars
<1> HIDE DEF Tese, DonoSabe, Devolvida, TypeOK
<1>9. UNCHANGED <<dono, travas>> => Tese
  BY <1>1 DEF Tese
<1>10. Tese
  BY <1>2, <1>3, <1>4, <1>5, <1>6, <1>7, <1>8, <1>9 DEF Next, Consumo, Passo, Ambiente
<1> QED
  BY <1>10 DEF Tese

\* Nobody frees a lock that is another worker's, for any number of locks lost:
\* Dispose compares the owner, and a death leaves the lock to its expiry.
THEOREM LiberacaoCorreta == Spec => LiberacaoSoDoDono
<1>1. TypeOK /\ DonoSabe /\ [Next]_vars =>
      [\A p \in Produto : dono[p] \in Trabalhador /\ dono'[p] # dono[p] =>
         \/ p \in travas[dono[p]] \ travas'[dono[p]]
         \/ perdas' > perdas]_vars
  BY PassoDono DEF Devolvida
<1> QED
  BY TipoCorreto, InitDono, PassoDono, <1>1, PTL DEF Spec, LiberacaoSoDoDono

-----------------------------------------------------------------------------
(* The balances *)

SaldoExato ==
    perdas = 0 => \A p \in Produto : saldo[p] + debitado[p] = SaldoInicial[p]

SaldoInv == LeituraValida /\ SaldoExato

LEMMA InitSaldo == Init => SaldoInv
  BY ConstantesAssumption DEF Init, SaldoInv, LeituraValida, SaldoExato

LEMMA PassoSaldo ==
  TipoInv /\ PassoInv /\ ExclusaoMutua /\ SaldoInv /\ [Next]_vars => SaldoInv'
<1> SUFFICES ASSUME TypeOK, TravasDoPasso, ExclusaoMutua, SaldoInv, [Next]_vars
             PROVE  SaldoInv'
  BY DEF TipoInv, PassoInv
<1> USE DEF SaldoInv, LeituraValida, SaldoExato, Lidos, Itens, TravasDoPasso,
            TypeOK, LocalTipo, Passos
<1>1. ASSUME NEW n \in Nota, Emitir(n)
      PROVE  SaldoInv'
  BY <1>1 DEF Emitir, filaVars, respostas, redisVars, dbVars, localVars, limites
<1>2. ASSUME NEW w \in Trabalhador, NEW n \in Nota, Receber(w, n)
      PROVE  SaldoInv'
  BY <1>2 DEF Receber, filaVars, respostas, redisVars, dbVars, localVars, limites
<1>3. ASSUME NEW w \in Trabalhador, VerificarIdempotencia(w)
      PROVE  SaldoInv'
  <2>1. \A v \in Trabalhador : pc'[v] = "ler" => pc[v] = "ler"
    BY <1>3 DEF VerificarIdempotencia
  <2>2. UNCHANGED <<lido, nota, saldo, debitado, perdas>>
    BY <1>3 DEF VerificarIdempotencia, localVars, dbVars
  <2> QED
    BY <2>1, <2>2
<1>4. ASSUME NEW w \in Trabalhador, NEW p \in Produto, AdquirirTrava(w, p)
      PROVE  SaldoInv'
  BY <1>4 DEF AdquirirTrava, filaVars, respostas,
           redisVars, dbVars, localVars, limites
<1>5. ASSUME NEW w \in Trabalhador, ComTodasAsTravas(w)
      PROVE  SaldoInv'
  <2>1. \A q \in Produto : lido[w][q] = NaoLido
    BY <1>5 DEF ComTodasAsTravas, NadaLido
  <2>2. UNCHANGED <<lido, nota, saldo, debitado, perdas>>
    BY <1>5 DEF ComTodasAsTravas, localVars, dbVars, limites
  <2>3. \A v \in Trabalhador : v # w => pc'[v] = pc[v]
    BY <1>5 DEF ComTodasAsTravas
  <2> QED
    BY <2>1, <2>2, <2>3
<1>6. ASSUME NEW w \in Trabalhador, NEW p \in Produto, EsperaEsgotada(w, p)
      PROVE  SaldoInv'
  BY <1>6 DEF EsperaEsgotada, filaVars, respostas,
           redisVars, dbVars, localVars, limites
<1>7. ASSUME NEW w \in Trabalhador, NEW p \in Produto, LerProduto(w, p)
      PROVE  SaldoInv'
  BY <1>7 DEF LerProduto, filaVars, respostas,
           redisVars, dbVars, localVars, limites
<1>8. ASSUME NEW w \in Trabalhador, PublicarRecusa(w)
      PROVE  SaldoInv'
  BY <1>8 DEF PublicarRecusa, filaVars, respostas,
           redisVars, dbVars, localVars, limites
<1>9. ASSUME NEW w \in Trabalhador, Commit(w)
      PROVE  SaldoInv'
  <2> SUFFICES ASSUME perdas = 0
               PROVE  LeituraValida' /\ SaldoExato'
    BY <1>9 DEF Commit
  <2>1. nota[w] \in Nota /\ pc[w] = "ler" /\ travas[w] = Itens(nota[w])
    BY <1>9 DEF Commit
  <2>2. \A p \in Itens(nota[w]) : lido[w][p] = saldo[p]
    BY <1>9 DEF Commit, LeuTudo
  <2>3. ASSUME NEW p \in Produto
        PROVE  saldo'[p] = saldo[p] - Qtd[nota[w]][p]
    <3>1. Qtd[nota[w]][p] \in Nat /\ saldo[p] \in Nat
      BY <2>1, ConstantesAssumption DEF DbTipo
    <3> QED
      BY <1>9, <2>2, <3>1 DEF Commit
  <2>4. SaldoExato'
    <3> SUFFICES ASSUME NEW p \in Produto
                 PROVE  saldo'[p] + debitado'[p] = SaldoInicial[p]
      OBVIOUS
    <3>1. Qtd[nota[w]][p] \in Nat /\ saldo[p] \in Nat /\ debitado[p] \in Nat
      BY <2>1, ConstantesAssumption DEF DbTipo
    <3>2. debitado'[p] = debitado[p] + Qtd[nota[w]][p]
      BY <1>9 DEF Commit
    <3> QED
      BY <2>3, <3>1, <3>2
  <2>5. ASSUME NEW v \in Trabalhador, pc'[v] = "ler", NEW p \in Lidos(v)'
        PROVE  lido'[v][p] = saldo'[p]
    <3>1. v # w /\ pc[v] = "ler" /\ p \in travas[v] /\ lido[v][p] = saldo[p]
      BY <1>9, <2>5 DEF Commit, localVars
    <3>2. p \notin Itens(nota[w])
      BY <2>1, <3>1 DEF ExclusaoMutua
    <3> QED
      BY <1>9, <3>1, <3>2 DEF Commit, localVars
  <2> QED
    BY <2>4, <2>5
<1>10. ASSUME NEW w \in Trabalhador, NEW p \in Produto, AtualizarCache(w, p)
      PROVE  SaldoInv'
  BY <1>10 DEF AtualizarCache, filaVars, respostas,
           redisVars, dbVars, localVars, limites
<1>11. ASSUME NEW w \in Trabalhador, SalvarIdempotencia(w)
      PROVE  SaldoInv'
  BY <1>11 DEF SalvarIdempotencia, filaVars, respostas,
           redisVars, dbVars, localVars, limites
<1>12. ASSUME NEW w \in Trabalhador, PublicarAbatida(w)
      PROVE  SaldoInv'
  <2>1. UNCHANGED <<lido, nota, saldo, debitado, perdas>>
    BY <1>12 DEF PublicarAbatida, localVars, dbVars
  <2>2. \A v \in Trabalhador : pc'[v] = "ler" => pc[v] = "ler"
    BY <1>12 DEF PublicarAbatida
  <2> QED
    BY <2>1, <2>2
<1>13. ASSUME NEW w \in Trabalhador, FalhaInfra(w)
      PROVE  SaldoInv'
  BY <1>13 DEF FalhaInfra, filaVars, respostas,
           redisVars, dbVars, localVars, limites
<1>14. ASSUME NEW w \in Trabalhador, Relancar(w)
      PROVE  SaldoInv'
  BY <1>14 DEF Relancar, filaVars, respostas,
           redisVars, dbVars, localVars, limites
<1>15. ASSUME NEW w \in Trabalhador, PublicarDesistencia(w)
      PROVE  SaldoInv'
  BY <1>15 DEF PublicarDesistencia, filaVars, respostas,
           redisVars, dbVars, localVars, limites
<1>16. ASSUME NEW w \in Trabalhador, NEW p \in Produto, LiberarTrava(w, p)
      PROVE  SaldoInv'
  BY <1>16 DEF LiberarTrava, filaVars, respostas,
           redisVars, dbVars, localVars, limites
<1>17. ASSUME NEW w \in Trabalhador, Reconhecer(w)
      PROVE  SaldoInv'
  BY <1>17 DEF Reconhecer, FimDaTentativa, SoltarNota, filaVars, respostas,
           redisVars, dbVars, localVars, limites
<1>18. ASSUME NEW w \in Trabalhador, TentarDeNovo(w)
      PROVE  SaldoInv'
  BY <1>18 DEF TentarDeNovo, FimDaTentativa, filaVars, respostas,
           redisVars, dbVars, localVars, limites
<1>19. ASSUME NEW w \in Trabalhador, MoverParaErro(w)
      PROVE  SaldoInv'
  BY <1>19 DEF MoverParaErro, FimDaTentativa, SoltarNota, filaVars, respostas,
           redisVars, dbVars, localVars, limites
<1>20. ASSUME NEW w \in Trabalhador, Queda(w)
      PROVE  SaldoInv'
  BY <1>20 DEF Queda, SoltarNota, filaVars, respostas,
           redisVars, dbVars, localVars, limites
<1>21. ASSUME NEW p \in Produto, Expirar(p)
      PROVE  SaldoInv'
  BY <1>21 DEF Expirar, filaVars, respostas, redisVars, dbVars, localVars, limites
<1>22. ASSUME NEW p \in Produto, PerderTrava(p)
      PROVE  SaldoInv'
  BY <1>22 DEF PerderTrava, LimiteTipo
<1>23. CASE UNCHANGED vars
  BY <1>23 DEF vars, filaVars, respostas, redisVars, dbVars, localVars, limites
<1> QED
  BY <1>1, <1>2, <1>3, <1>4, <1>5, <1>6, <1>7, <1>8, <1>9, <1>10, <1>11, <1>12,
     <1>13, <1>14, <1>15, <1>16, <1>17, <1>18, <1>19, <1>20, <1>21, <1>22, <1>23
  DEF Next, Consumo, Passo, Ambiente

\* While no lock is lost the validation of a nota stays true until its
\* transaction: the read-modify-write of the balance is atomic in effect.
THEOREM LeituraCorreta == Spec => []LeituraValida
<1>1. SaldoInv => LeituraValida
  BY DEF SaldoInv
<1> QED
  BY InitTipo, PassoTipo, InitPasso, PassoPasso, InitExclusao, PassoExclusao,
     InitSaldo, PassoSaldo, <1>1, PTL DEF Spec

\* Every balance in use, written or only read, lacks no more than what the
\* transactions took: what was debited since it was read counts as well.
MinimoInv ==
    /\ \A p \in Produto : saldo[p] + debitado[p] >= SaldoInicial[p]
    /\ \A w \in Trabalhador, p \in Produto :
          lido[w][p] # NaoLido => lido[w][p] + debitado[p] >= SaldoInicial[p]

LEMMA InitMinimo == Init => MinimoInv
  BY ConstantesAssumption DEF Init, MinimoInv, NadaLido

LEMMA PassoMinimo == TypeOK /\ MinimoInv /\ [Next]_vars => MinimoInv'
<1> SUFFICES ASSUME TypeOK, MinimoInv, [Next]_vars
             PROVE  MinimoInv'
  OBVIOUS
<1>1. CASE UNCHANGED <<saldo, debitado, lido>>
  BY <1>1 DEF MinimoInv
<1>2. ASSUME NEW w \in Trabalhador, NEW p \in Produto, LerProduto(w, p)
      PROVE  MinimoInv'
  BY <1>2 DEF LerProduto, dbVars, MinimoInv, TypeOK, LocalTipo
<1>3. ASSUME NEW w \in Trabalhador, Commit(w)
      PROVE  MinimoInv'
  <2>1. nota[w] \in Nota /\ UNCHANGED lido
    BY <1>3 DEF Commit, localVars, TypeOK, LocalTipo
  <2>2. ASSUME NEW p \in Produto
        PROVE  /\ SaldoInicial[p] \in Nat /\ saldo[p] \in Nat /\ debitado[p] \in Nat
               /\ Qtd[nota[w]][p] \in Nat /\ debitado'[p] = debitado[p] + Qtd[nota[w]][p]
    BY <1>3, <2>1, ConstantesAssumption DEF Commit, TypeOK, DbTipo
  <2>3. ASSUME NEW v \in Trabalhador, NEW p \in Produto, lido[v][p] # NaoLido
        PROVE  /\ lido[v][p] \in Nat
               /\ lido[v][p] + debitado[p] >= SaldoInicial[p]
    BY <2>3 DEF MinimoInv, TypeOK, LocalTipo
  <2>4. ASSUME NEW p \in Produto
        PROVE  saldo'[p] + debitado'[p] >= SaldoInicial[p]
    <3>1. CASE p \in Itens(nota[w])
      <4>1. lido[w][p] # NaoLido
        BY <1>3, <3>1 DEF Commit, LeuTudo, Lidos
      <4>2. saldo'[p] = lido[w][p] - Qtd[nota[w]][p]
        BY <1>3, <3>1 DEF Commit
      <4> QED
        BY <2>2, <2>3, <4>1, <4>2
    <3>2. CASE p \notin Itens(nota[w])
      <4>1. saldo'[p] = saldo[p]
        BY <1>3, <3>2 DEF Commit
      <4>2. saldo[p] + debitado[p] >= SaldoInicial[p]
        BY DEF MinimoInv
      <4> QED
        BY <2>2, <4>1, <4>2
    <3> QED
      BY <3>1, <3>2
  <2>5. ASSUME NEW v \in Trabalhador, NEW p \in Produto, lido'[v][p] # NaoLido
        PROVE  lido'[v][p] + debitado'[p] >= SaldoInicial[p]
    BY <2>1, <2>2, <2>3, <2>5
  <2> QED
    BY <2>4, <2>5 DEF MinimoInv
<1>4. ASSUME NEW w \in Trabalhador,
             Reconhecer(w) \/ TentarDeNovo(w) \/ MoverParaErro(w) \/ Queda(w)
      PROVE  MinimoInv'
  <2>1. UNCHANGED <<saldo, debitado>> /\ lido' = [lido EXCEPT ![w] = NadaLido]
    BY <1>4 DEF Reconhecer, TentarDeNovo, MoverParaErro, Queda, FimDaTentativa, dbVars
  <2> QED
    BY <2>1 DEF MinimoInv, NadaLido, TypeOK, LocalTipo
<1>5. ASSUME NEW w \in Trabalhador, Passo(w), ~Commit(w),
             ~(Reconhecer(w) \/ TentarDeNovo(w) \/ MoverParaErro(w)),
             ~\E p \in Produto : LerProduto(w, p)
      PROVE  UNCHANGED <<saldo, debitado, lido>>
  BY <1>5 DEF Passo, VerificarIdempotencia, AdquirirTrava, ComTodasAsTravas, PublicarRecusa,
     AtualizarCache, SalvarIdempotencia, PublicarAbatida, Relancar, PublicarDesistencia,
     LiberarTrava, dbVars, localVars
<1>6. ASSUME \/ \E n \in Nota : Emitir(n)
             \/ \E w \in Trabalhador, n \in Nota : Receber(w, n)
             \/ \E w \in Trabalhador : FalhaInfra(w) \/ \E p \in Produto : EsperaEsgotada(w, p)
             \/ \E p \in Produto : Expirar(p) \/ PerderTrava(p)
             \/ UNCHANGED vars
      PROVE  UNCHANGED <<saldo, debitado, lido>>
  BY <1>6 DEF Emitir, Receber, FalhaInfra, EsperaEsgotada, Expirar, PerderTrava, vars,
     dbVars, localVars
<1> HIDE DEF MinimoInv, TypeOK
<1> QED
  BY <1>1, <1>2, <1>3, <1>4, <1>5, <1>6 DEF Next, Consumo, Passo, Ambiente

\* No interleaving, crash, retry or lost lock makes the stock pay twice for one
\* transaction; while no lock is lost none overwrites another either, so no
\* product is sold beyond its balance.
THEOREM SaldoConservado == Spec => []Conservacao
<1>1. TypeOK /\ SaldoInv /\ MinimoInv => Conservacao
  BY DEF SaldoInv, SaldoExato, MinimoInv, Conservacao
<1> QED
  BY InitTipo, PassoTipo, InitPasso, PassoPasso, InitExclusao, PassoExclusao,
     InitSaldo, PassoSaldo, InitMinimo, PassoMinimo, TipoCorreto, <1>1, PTL DEF Spec

-----------------------------------------------------------------------------
(* The cache *)

\* Worker w has committed and has yet to write the entry of p.
EntradaPendente(w, p) == pc[w] = "cache" /\ p \in Itens(nota[w]) \ feitos[w]

\* The entry of a product is its balance, or its holder is about to write that
\* balance into it.
EntradaInv ==
    /\ \A w \in Trabalhador : pc[w] \in {"ocioso", "verificar", "adquirir", "ler"}
          => feitos[w] = {}
    /\ SemFalhas =>
          /\ \A p \in Produto : dono[p] \notin Trabalhador => cache[p] = saldo[p]
          /\ \A w \in Trabalhador : \A p \in travas[w] :
                IF EntradaPendente(w, p) THEN saldo[p] = SaldoDebitado(w, p)
                                         ELSE cache[p] = saldo[p]
          /\ \A w \in Trabalhador : pc[w] = "cache" => travas[w] = Itens(nota[w])

LEMMA InitEntrada == Init => EntradaInv
  BY DEF Init, EntradaInv, EntradaPendente

\* Failures, crashes and lost locks are never forgotten.
LEMMA FalhasFicam == TypeOK /\ [Next]_vars /\ SemFalhas' => SemFalhas
<1> SUFFICES ASSUME TypeOK, [Next]_vars, SemFalhas'
             PROVE  SemFalhas
  OBVIOUS
<1> USE DEF TypeOK, LimiteTipo, SemFalhas
<1>1. CASE UNCHANGED <<falhas, quedas, perdas>>
  BY <1>1
<1>2. ASSUME NEW w \in Trabalhador, Passo(w)
      PROVE  (UNCHANGED falhas \/ falhas' = falhas + 1) /\ UNCHANGED <<quedas, perdas>>
  BY <1>2 DEF Passo, VerificarIdempotencia, AdquirirTrava, ComTodasAsTravas, LerProduto,
     PublicarRecusa, Commit, AtualizarCache, SalvarIdempotencia, PublicarAbatida, Relancar,
     PublicarDesistencia, LiberarTrava, Reconhecer, TentarDeNovo, MoverParaErro,
     FimDaTentativa, limites
<1>3. ASSUME \/ \E n \in Nota : Emitir(n)
             \/ \E w \in Trabalhador, n \in Nota : Receber(w, n)
             \/ \E w \in Trabalhador, p \in Produto : EsperaEsgotada(w, p)
             \/ \E p \in Produto : Expirar(p)
             \/ UNCHANGED vars
      PROVE  UNCHANGED <<falhas, quedas, perdas>>
  BY <1>3 DEF Emitir, Receber, EsperaEsgotada, Expirar, vars, limites
<1>4. ASSUME \/ \E w \in Trabalhador : FalhaInfra(w) \/ Queda(w)
             \/ \E p \in Produto : PerderTrava(p)
      PROVE  SemFalhas
  BY <1>4 DEF FalhaInfra, Queda, PerderTrava
<1> QED
  BY <1>1, <1>2, <1>3, <1>4 DEF Next, Consumo, Ambiente

\* A worker that moves on, with no entry pending before or after.
LEMMA AndarEntrada ==
  ASSUME TypeOK, EntradaInv, SemFalhas' => SemFalhas,
         NEW w \in Trabalhador, NEW s \in Passos \ {"cache"}, pc' = [pc EXCEPT ![w] = s],
         UNCHANGED <<nota, travas, lido, feitos, dono, cache, saldo>>,
         s \in {"adquirir", "ler"} => pc[w] \in {"verificar", "adquirir"},
         s \notin {"ocioso", "verificar"},
         SemFalhas' => \A p \in travas[w] : ~EntradaPendente(w, p)
  PROVE  EntradaInv'
<1> USE DEF EntradaInv, TypeOK, LocalTipo, Passos
<1>1. \A v \in Trabalhador : pc'[v] \in {"ocioso", "verificar", "adquirir", "ler"} => feitos'[v] = {}
  OBVIOUS
<1>2. SemFalhas' => \A v \in Trabalhador : pc'[v] = "cache" => travas'[v] = Itens(nota[v])'
  BY DEF Itens
<1>3. SemFalhas' => \A p \in Produto : dono'[p] \notin Trabalhador => cache'[p] = saldo'[p]
  OBVIOUS
<1>4. ASSUME SemFalhas', NEW v \in Trabalhador, NEW p \in travas'[v]
      PROVE  IF EntradaPendente(v, p)' THEN saldo'[p] = SaldoDebitado(v, p)'
                                       ELSE cache'[p] = saldo'[p]
  <2>1. CASE v = w
    <3>1. ~EntradaPendente(v, p)'
      BY <2>1 DEF EntradaPendente
    <3>2. cache[p] = saldo[p]
      BY <1>4, <2>1
    <3> QED
      BY <3>1, <3>2
  <2>2. CASE v # w
    <3>1. EntradaPendente(v, p)' = EntradaPendente(v, p)
      BY <2>2 DEF EntradaPendente, Itens
    <3> QED
      BY <1>4, <3>1 DEF EntradaPendente
  <2> QED
    BY <2>1, <2>2
<1> QED
  BY <1>1, <1>2, <1>3, <1>4

LEMMA PassoEntrada ==
  TypeOK /\ TravasDoPasso /\ ExclusaoMutua /\ LeituraValida /\ EntradaInv /\ [Next]_vars
    => EntradaInv'
<1> SUFFICES ASSUME TypeOK, TravasDoPasso, ExclusaoMutua, LeituraValida, EntradaInv,
                    [Next]_vars
             PROVE  EntradaInv'
  OBVIOUS
<1>0. SemFalhas' => SemFalhas
  BY FalhasFicam
<1> USE DEF EntradaInv, EntradaPendente, TypeOK, LocalTipo, RedisTipo, Passos
<1>1. ASSUME NEW n \in Nota, Emitir(n)
      PROVE  EntradaInv'
  BY <1>1 DEF Emitir, redisVars, dbVars, localVars, limites, Itens, SemFalhas
<1>2. ASSUME NEW w \in Trabalhador, NEW n \in Nota, Receber(w, n)
      PROVE  EntradaInv'
  <2>1. travas[w] = {}
    BY <1>2 DEF Receber, TravasDoPasso
  <2> QED
    BY <1>0, <1>2, <2>1 DEF Receber, redisVars, dbVars, Itens
<1>3. ASSUME NEW w \in Trabalhador, VerificarIdempotencia(w)
      PROVE  EntradaInv'
  <2>1. pc[w] = "verificar" /\ UNCHANGED <<nota, travas, lido, feitos, dono, cache, saldo>>
    BY <1>3 DEF VerificarIdempotencia, redisVars, dbVars, localVars
  <2>2. \E s \in {"liberar", "adquirir", "liberarErro"} : pc' = [pc EXCEPT ![w] = s]
    BY <1>3 DEF VerificarIdempotencia
  <2> HIDE DEF EntradaInv
  <2> QED
    BY <1>0, <2>1, <2>2, AndarEntrada
<1>4. ASSUME NEW w \in Trabalhador, NEW p \in Produto, AdquirirTrava(w, p)
      PROVE  EntradaInv'
  <2>1. UNCHANGED <<pc, nota, lido, feitos, cache, saldo>>
    BY <1>4 DEF AdquirirTrava, dbVars
  <2>2. CASE ComFalha
    <3>1. ~SemFalhas'
      BY <2>2 DEF SemFalhas, LimiteTipo
    <3> QED
      BY <2>1, <3>1
  <2>3. CASE dono' = [dono EXCEPT ![p] = w] /\ travas' = [travas EXCEPT ![w] = @ \cup {p}]
    <3>1. pc[w] = "adquirir" /\ dono[p] = Livre
      BY <1>4 DEF AdquirirTrava
    <3> QED
      BY <1>0, <2>1, <2>3, <3>1, MarcasAssumption DEF Itens
  <2> QED
    BY <1>4, <2>2, <2>3 DEF AdquirirTrava
<1>5. ASSUME NEW w \in Trabalhador,
             ComTodasAsTravas(w) \/ \E p \in Produto : EsperaEsgotada(w, p)
      PROVE  EntradaInv'
  <2>1. pc[w] = "adquirir" /\ UNCHANGED <<nota, travas, lido, feitos, dono, cache, saldo>>
    BY <1>5 DEF ComTodasAsTravas, EsperaEsgotada, redisVars, dbVars, localVars
  <2>2. \E s \in {"ler", "excecao"} : pc' = [pc EXCEPT ![w] = s]
    BY <1>5 DEF ComTodasAsTravas, EsperaEsgotada
  <2> HIDE DEF EntradaInv
  <2> QED
    BY <1>0, <2>1, <2>2, AndarEntrada
<1>6. ASSUME NEW w \in Trabalhador, NEW p \in Produto, LerProduto(w, p)
      PROVE  EntradaInv'
  BY <1>0, <1>6 DEF LerProduto, redisVars, dbVars, Itens
<1>7. ASSUME NEW w \in Trabalhador, PublicarRecusa(w) \/ Relancar(w) \/ PublicarDesistencia(w)
      PROVE  EntradaInv'
  <2>1. pc[w] # "cache" /\ UNCHANGED <<nota, travas, lido, feitos, dono, cache, saldo>>
    BY <1>7 DEF PublicarRecusa, Relancar, PublicarDesistencia, redisVars, dbVars, localVars
  <2>2. \E s \in {"liberar", "liberarErro"} : pc' = [pc EXCEPT ![w] = s]
    BY <1>7 DEF PublicarRecusa, Relancar, PublicarDesistencia
  <2> HIDE DEF EntradaInv
  <2> QED
    BY <1>0, <2>1, <2>2, AndarEntrada
<1>8. ASSUME NEW w \in Trabalhador, Commit(w)
      PROVE  EntradaInv'
  <2>1. /\ pc[w] = "ler" /\ feitos[w] = {} /\ travas[w] = Itens(nota[w])
        /\ UNCHANGED <<nota, travas, lido, feitos, dono, cache>>
        /\ \A v \in Trabalhador \ {w} : pc'[v] = pc[v]
        /\ pc'[w] \in {"cache", "excecao"}
    BY <1>8 DEF Commit, TravasDoPasso, redisVars, localVars
  <2>2. SemFalhas' => pc'[w] = "cache" /\ perdas = 0
    BY <1>0, <1>8 DEF Commit, SemFalhas, LimiteTipo
  <2>3. \A p \in Produto : saldo'[p] = IF p \in travas[w] THEN SaldoDebitado(w, p) ELSE saldo[p]
    BY <1>8, <2>1 DEF Commit
  <2>4. SemFalhas' => /\ \A p \in travas[w] : dono[p] = w
                      /\ \A v \in Trabalhador \ {w} : travas[v] \cap travas[w] = {}
    BY <2>2 DEF ExclusaoMutua
  <2>5. SemFalhas' => \A p \in Produto : dono'[p] \notin Trabalhador => cache'[p] = saldo'[p]
    BY <1>0, <2>1, <2>3, <2>4
  <2>6. ASSUME SemFalhas', NEW v \in Trabalhador, NEW p \in travas'[v]
        PROVE  IF EntradaPendente(v, p)' THEN saldo'[p] = SaldoDebitado(v, p)'
                                         ELSE cache'[p] = saldo'[p]
    <3>1. CASE v = w
      BY <2>1, <2>2, <2>3, <2>6, <3>1 DEF Itens
    <3>2. CASE v # w
      <4>1. saldo'[p] = saldo[p] /\ p \in travas[v]
        BY <2>1, <2>3, <2>4, <2>6, <3>2
      <4> QED
        BY <1>0, <2>1, <2>6, <3>2, <4>1 DEF Itens
    <3> QED
      BY <3>1, <3>2
  <2> HIDE DEF EntradaPendente
  <2>7. \A v \in Trabalhador : pc'[v] \in {"ocioso", "verificar", "adquirir", "ler"}
           => feitos'[v] = {}
    BY <2>1
  <2>8. SemFalhas' => \A v \in Trabalhador : pc'[v] = "cache" => travas'[v] = Itens(nota'[v])
    BY <1>0, <2>1
  <2>9. SemFalhas' => \A v \in Trabalhador : pc'[v] = "cache" => travas'[v] = Itens(nota[v])'
    BY <2>8 DEF Itens
  <2> QED
    BY <2>5, <2>6, <2>7, <2>9
<1>9. ASSUME NEW w \in Trabalhador, NEW p \in Produto, AtualizarCache(w, p)
      PROVE  EntradaInv'
  <2>1. /\ pc[w] = "cache" /\ p \in Itens(nota[w]) /\ p \notin feitos[w]
        /\ UNCHANGED <<pc, nota, travas, lido, dono, saldo>>
        /\ feitos' = [feitos EXCEPT ![w] = @ \cup {p}]
    BY <1>9 DEF AtualizarCache, dbVars
  <2>2. SemFalhas' => perdas = 0 /\ cache' = [cache EXCEPT ![p] = SaldoDebitado(w, p)]
    BY <1>0, <1>9 DEF AtualizarCache, SemFalhas, LimiteTipo
  <2>3. SemFalhas' => p \in travas[w] /\ saldo[p] = SaldoDebitado(w, p)
    BY <1>0, <2>1
  <2>4. SemFalhas' => dono[p] = w /\ \A v \in Trabalhador \ {w} : p \notin travas[v]
    BY <2>2, <2>3 DEF ExclusaoMutua
  <2>5. SemFalhas' => \A q \in Produto : dono'[q] \notin Trabalhador => cache'[q] = saldo'[q]
    BY <1>0, <2>1, <2>2, <2>4
  <2>6. ASSUME SemFalhas', NEW v \in Trabalhador, NEW q \in travas'[v]
        PROVE  IF EntradaPendente(v, q)' THEN saldo'[q] = SaldoDebitado(v, q)'
                                         ELSE cache'[q] = saldo'[q]
    <3>0. q \in Produto /\ q \in travas[v]
      BY <2>1, <2>6
    <3>1. CASE q = p
      BY <2>1, <2>2, <2>3, <2>4, <2>6, <3>0, <3>1 DEF Itens
    <3>2. CASE q # p
      <4>1. cache'[q] = cache[q] /\ EntradaPendente(v, q)' = EntradaPendente(v, q)
        BY <2>1, <2>2, <2>6, <3>0, <3>2 DEF Itens
      <4> QED
        BY <1>0, <2>1, <2>6, <3>0, <4>1
    <3> QED
      BY <3>1, <3>2
  <2>7. \A v \in Trabalhador : pc'[v] \in {"ocioso", "verificar", "adquirir", "ler"}
           => feitos'[v] = {}
    BY <2>1
  <2>8. SemFalhas' => \A v \in Trabalhador : pc'[v] = "cache" => travas'[v] = Itens(nota[v])'
    BY <1>0, <2>1 DEF Itens
  <2> HIDE DEF EntradaPendente
  <2> QED
    BY <2>5, <2>6, <2>7, <2>8
<1>10. ASSUME NEW w \in Trabalhador, SalvarIdempotencia(w)
       PROVE  EntradaInv'
  <2>1. /\ \A p \in travas[w] : ~EntradaPendente(w, p)
        /\ UNCHANGED <<nota, travas, lido, feitos, dono, cache, saldo>>
    BY <1>10 DEF SalvarIdempotencia, dbVars, localVars
  <2>2. \E s \in {"abatida", "excecao"} : pc' = [pc EXCEPT ![w] = s]
    BY <1>10 DEF SalvarIdempotencia
  <2> HIDE DEF EntradaInv, EntradaPendente
  <2> QED
    BY <1>0, <2>1, <2>2, AndarEntrada
<1>11. ASSUME NEW w \in Trabalhador, PublicarAbatida(w)
       PROVE  EntradaInv'
  <2>1. /\ \A p \in travas[w] : ~EntradaPendente(w, p)
        /\ UNCHANGED <<nota, travas, lido, feitos, dono, cache, saldo>>
    BY <1>11 DEF PublicarAbatida, redisVars, dbVars, localVars
  <2>2. \E s \in {"liberar", "excecao"} : pc' = [pc EXCEPT ![w] = s]
    BY <1>11 DEF PublicarAbatida
  <2> HIDE DEF EntradaInv, EntradaPendente
  <2> QED
    BY <1>0, <2>1, <2>2, AndarEntrada
<1>12. ASSUME NEW w \in Trabalhador, FalhaInfra(w)
       PROVE  EntradaInv'
  <2>1. ~SemFalhas'
    BY <1>12 DEF FalhaInfra, SemFalhas, LimiteTipo
  <2> QED
    BY <1>12, <2>1 DEF FalhaInfra, localVars
<1>13. ASSUME NEW w \in Trabalhador, NEW p \in Produto, LiberarTrava(w, p)
       PROVE  EntradaInv'
  <2>1. UNCHANGED <<pc, nota, lido, feitos, cache, saldo>>
    BY <1>13 DEF LiberarTrava, dbVars
  <2>2. CASE ComFalha
    <3>1. ~SemFalhas'
      BY <2>2 DEF SemFalhas, LimiteTipo
    <3> QED
      BY <2>1, <3>1
  <2>3. CASE /\ dono' = [dono EXCEPT ![p] = IF @ = w THEN Livre ELSE @]
             /\ travas' = [travas EXCEPT ![w] = @ \ {p}]
    <3>1. pc[w] \in {"liberar", "liberarErro"} /\ p \in travas[w]
      BY <1>13 DEF LiberarTrava
    <3> QED
      BY <1>0, <2>1, <2>3, <3>1, MarcasAssumption DEF Itens
  <2> QED
    BY <1>13, <2>2, <2>3 DEF LiberarTrava
<1>14. ASSUME NEW w \in Trabalhador, Reconhecer(w) \/ TentarDeNovo(w) \/ MoverParaErro(w)
       PROVE  EntradaInv'
  <2>1. /\ travas[w] = {} /\ feitos' = [feitos EXCEPT ![w] = {}]
        /\ UNCHANGED <<travas, dono, cache, saldo>>
    BY <1>14 DEF Reconhecer, TentarDeNovo, MoverParaErro, FimDaTentativa, redisVars, dbVars
  <2>2. \A v \in Trabalhador \ {w} :
           pc'[v] = pc[v] /\ nota'[v] = nota[v] /\ lido'[v] = lido[v]
    BY <1>14 DEF Reconhecer, TentarDeNovo, MoverParaErro, SoltarNota, FimDaTentativa
  <2>3. pc'[w] \in {"ocioso", "verificar"}
    BY <1>14 DEF Reconhecer, TentarDeNovo, MoverParaErro, SoltarNota
  <2> QED
    BY <1>0, <2>1, <2>2, <2>3 DEF Itens
<1>15. ASSUME NEW w \in Trabalhador, Queda(w)
       PROVE  EntradaInv'
  <2>1. ~SemFalhas'
    BY <1>15 DEF Queda, SemFalhas, LimiteTipo
  <2> QED
    BY <1>15, <2>1 DEF Queda, SoltarNota
<1>16. ASSUME NEW p \in Produto, Expirar(p)
       PROVE  EntradaInv'
  BY <1>0, <1>16, MarcasAssumption DEF Expirar, dbVars, localVars, Itens
<1>17. ASSUME NEW p \in Produto, PerderTrava(p)
       PROVE  EntradaInv'
  <2>1. ~SemFalhas'
    BY <1>17 DEF PerderTrava, SemFalhas, LimiteTipo
  <2> QED
    BY <1>17, <2>1 DEF PerderTrava, localVars
<1>18. CASE UNCHANGED vars
  BY <1>0, <1>18 DEF vars, redisVars, dbVars, localVars, Itens
<1> HIDE DEF EntradaInv, TypeOK
<1> QED
  BY <1>1, <1>2, <1>3, <1>4, <1>5, <1>6, <1>7, <1>8, <1>9, <1>10, <1>11, <1>12, <1>13,
     <1>14, <1>15, <1>16, <1>17, <1>18
  DEF Next, Consumo, Passo, Ambiente

\* Without failures the cache of a product nobody holds is its balance: the
\* locks cover the entries too, so two debits never write them in the other order.
THEOREM CacheCorreto == Spec => []CacheCoerente
<1>1. EntradaInv => CacheCoerente
  BY MarcasAssumption DEF EntradaInv, CacheCoerente
<1>2. PassoInv => TravasDoPasso
  BY DEF PassoInv
<1>3. SaldoInv => LeituraValida
  BY DEF SaldoInv
<1>4. TipoInv => TypeOK
  BY DEF TipoInv
<1> QED
  BY InitTipo, PassoTipo, InitPasso, PassoPasso, InitExclusao, PassoExclusao,
     InitSaldo, PassoSaldo, InitEntrada, PassoEntrada, <1>1, <1>2, <1>3, <1>4, PTL DEF Spec

-----------------------------------------------------------------------------
(* The answers *)

\* A worker is past its transaction only for a nota that was debited, and
\* about to confirm only one whose key it saved.
DepoisDoCommit ==
    \A w \in Trabalhador :
        /\ pc[w] \in {"cache", "abatida"} => debitos[nota[w]] > 0
        /\ pc[w] = "abatida" => nota[w] \in idem

RespostaInv == AbatidaTemDebito /\ DepoisDoCommit

LEMMA InitResposta == Init => RespostaInv
  BY DEF Init, RespostaInv, AbatidaTemDebito, DepoisDoCommit

LEMMA PassoResposta == TipoInv /\ RespostaInv /\ [Next]_vars => RespostaInv'
<1> SUFFICES ASSUME TypeOK, RespostaInv, [Next]_vars
             PROVE  RespostaInv'
  BY DEF TipoInv
<1> USE DEF RespostaInv, AbatidaTemDebito, DepoisDoCommit, TypeOK, FilaTipo,
            RedisTipo, DbTipo, LocalTipo, Passos
<1>1. ASSUME NEW n \in Nota, Emitir(n)
      PROVE  RespostaInv'
  BY <1>1 DEF Emitir, filaVars, respostas,
           redisVars, dbVars, localVars, limites
<1>2. ASSUME NEW w \in Trabalhador, NEW n \in Nota, Receber(w, n)
      PROVE  RespostaInv'
  BY <1>2 DEF Receber, filaVars, respostas,
           redisVars, dbVars, localVars, limites
<1>3. ASSUME NEW w \in Trabalhador, VerificarIdempotencia(w)
      PROVE  RespostaInv'
  BY <1>3 DEF VerificarIdempotencia, filaVars, respostas,
           redisVars, dbVars, localVars, limites
<1>4. ASSUME NEW w \in Trabalhador, NEW p \in Produto, AdquirirTrava(w, p)
      PROVE  RespostaInv'
  BY <1>4 DEF AdquirirTrava, filaVars, respostas,
           redisVars, dbVars, localVars, limites
<1>5. ASSUME NEW w \in Trabalhador, ComTodasAsTravas(w)
      PROVE  RespostaInv'
  BY <1>5 DEF ComTodasAsTravas, filaVars, respostas,
           redisVars, dbVars, localVars, limites
<1>6. ASSUME NEW w \in Trabalhador, NEW p \in Produto, EsperaEsgotada(w, p)
      PROVE  RespostaInv'
  BY <1>6 DEF EsperaEsgotada, filaVars, respostas,
           redisVars, dbVars, localVars, limites
<1>7. ASSUME NEW w \in Trabalhador, NEW p \in Produto, LerProduto(w, p)
      PROVE  RespostaInv'
  BY <1>7 DEF LerProduto, filaVars, respostas,
           redisVars, dbVars, localVars, limites
<1>8. ASSUME NEW w \in Trabalhador, PublicarRecusa(w)
      PROVE  RespostaInv'
  BY <1>8 DEF PublicarRecusa, filaVars, respostas,
           redisVars, dbVars, localVars, limites
<1>9. ASSUME NEW w \in Trabalhador, Commit(w)
      PROVE  RespostaInv'
  BY <1>9 DEF Commit, filaVars, respostas,
           redisVars, dbVars, localVars, limites
<1>10. ASSUME NEW w \in Trabalhador, NEW p \in Produto, AtualizarCache(w, p)
      PROVE  RespostaInv'
  BY <1>10 DEF AtualizarCache, filaVars, respostas,
           redisVars, dbVars, localVars, limites
<1>11. ASSUME NEW w \in Trabalhador, SalvarIdempotencia(w)
      PROVE  RespostaInv'
  BY <1>11 DEF SalvarIdempotencia, filaVars, respostas,
           redisVars, dbVars, localVars, limites
<1>12. ASSUME NEW w \in Trabalhador, PublicarAbatida(w)
      PROVE  RespostaInv'
  BY <1>12 DEF PublicarAbatida, filaVars, respostas,
           redisVars, dbVars, localVars, limites
<1>13. ASSUME NEW w \in Trabalhador, FalhaInfra(w)
      PROVE  RespostaInv'
  BY <1>13 DEF FalhaInfra, filaVars, respostas,
           redisVars, dbVars, localVars, limites
<1>14. ASSUME NEW w \in Trabalhador, Relancar(w)
      PROVE  RespostaInv'
  BY <1>14 DEF Relancar, filaVars, respostas,
           redisVars, dbVars, localVars, limites
<1>15. ASSUME NEW w \in Trabalhador, PublicarDesistencia(w)
      PROVE  RespostaInv'
  BY <1>15 DEF PublicarDesistencia, filaVars, respostas,
           redisVars, dbVars, localVars, limites
<1>16. ASSUME NEW w \in Trabalhador, NEW p \in Produto, LiberarTrava(w, p)
      PROVE  RespostaInv'
  BY <1>16 DEF LiberarTrava, filaVars, respostas,
           redisVars, dbVars, localVars, limites
<1>17. ASSUME NEW w \in Trabalhador, Reconhecer(w)
      PROVE  RespostaInv'
  BY <1>17 DEF Reconhecer, FimDaTentativa, SoltarNota, filaVars, respostas,
           redisVars, dbVars, localVars, limites
<1>18. ASSUME NEW w \in Trabalhador, TentarDeNovo(w)
      PROVE  RespostaInv'
  BY <1>18 DEF TentarDeNovo, FimDaTentativa, filaVars, respostas,
           redisVars, dbVars, localVars, limites
<1>19. ASSUME NEW w \in Trabalhador, MoverParaErro(w)
      PROVE  RespostaInv'
  BY <1>19 DEF MoverParaErro, FimDaTentativa, SoltarNota, filaVars, respostas,
           redisVars, dbVars, localVars, limites
<1>20. ASSUME NEW w \in Trabalhador, Queda(w)
      PROVE  RespostaInv'
  BY <1>20 DEF Queda, SoltarNota, filaVars, respostas,
           redisVars, dbVars, localVars, limites
<1>21. ASSUME NEW p \in Produto, Expirar(p)
      PROVE  RespostaInv'
  BY <1>21 DEF Expirar, filaVars, respostas,
           redisVars, dbVars, localVars, limites
<1>22. ASSUME NEW p \in Produto, PerderTrava(p)
      PROVE  RespostaInv'
  BY <1>22 DEF PerderTrava, filaVars, respostas,
           redisVars, dbVars, localVars, limites
<1>23. CASE UNCHANGED vars
  BY <1>23 DEF vars, filaVars, respostas,
           redisVars, dbVars, localVars, limites
<1> QED
  BY <1>1, <1>2, <1>3, <1>4, <1>5, <1>6, <1>7, <1>8, <1>9, <1>10, <1>11, <1>12,
     <1>13, <1>14, <1>15, <1>16, <1>17, <1>18, <1>19, <1>20, <1>21, <1>22, <1>23
  DEF Next, Consumo, Passo, Ambiente

\* Whatever fails, a nota is confirmed only after its key was saved, and the
\* key is saved only after a debit of that nota was committed.
THEOREM RespostaCorreta == Spec => []AbatidaTemDebito
<1>1. RespostaInv => AbatidaTemDebito
  BY DEF RespostaInv
<1> QED
  BY InitTipo, PassoTipo, InitResposta, PassoResposta, <1>1, PTL DEF Spec

-----------------------------------------------------------------------------
(* No silent loss *)

\* What was said of n, or its key: it is never taken back.
Atendida(n) ==
    n \in idem \/ abatidas[n] > 0 \/ recusas[n] > 0 \/ desistencias[n] > 0 \/ erros[n] > 0

\* A message about n is still to be decided.
EmCurso(n) ==
    fila[n] > 0 \/ \E w \in Trabalhador : nota[w] = n /\ pc[w] # "liberar"

SilencioInv == \A n \in Nota : emissoes[n] > 0 => Atendida(n) \/ EmCurso(n)

LEMMA InitSilencio == Init => SilencioInv
  BY DEF Init, SilencioInv

\* The consumer only adds answers and keys.
LEMMA AtendidaFica ==
  ASSUME TypeOK, [Next]_vars, NEW n \in Nota, Atendida(n)
  PROVE  Atendida(n)'
<1> USE DEF TypeOK, FilaTipo, RedisTipo, LocalTipo, Atendida
<1>1. CASE UNCHANGED <<idem, abatidas, recusas, desistencias, erros>>
  BY <1>1
<1>2. ASSUME NEW w \in Trabalhador,
             PublicarRecusa(w) \/ PublicarAbatida(w) \/ PublicarDesistencia(w)
      PROVE  Atendida(n)'
  <2>1. nota[w] \in Nota /\ idem' = idem /\ erros' = erros
    BY <1>2 DEF PublicarRecusa, PublicarAbatida, PublicarDesistencia, redisVars, Passos
  <2>2. CASE PublicarRecusa(w)
    <3>1. \A m \in Nota : recusas[m] > 0 => recusas'[m] > 0
      BY <2>1, <2>2 DEF PublicarRecusa
    <3> QED
      BY <2>1, <2>2, <3>1 DEF PublicarRecusa
  <2>3. CASE PublicarAbatida(w)
    BY <2>1, <2>3 DEF PublicarAbatida
  <2>4. CASE PublicarDesistencia(w)
    <3>1. \A m \in Nota : desistencias[m] > 0 => desistencias'[m] > 0
      BY <2>1, <2>4 DEF PublicarDesistencia
    <3> QED
      BY <2>1, <2>4, <3>1 DEF PublicarDesistencia
  <2> QED
    BY <1>2, <2>2, <2>3, <2>4
<1>3. ASSUME NEW w \in Trabalhador, SalvarIdempotencia(w)
      PROVE  Atendida(n)'
  BY <1>3 DEF SalvarIdempotencia, filaVars
<1>4. ASSUME NEW w \in Trabalhador, MoverParaErro(w)
      PROVE  Atendida(n)'
  <2>1. nota[w] \in Nota
    BY <1>4 DEF MoverParaErro, Passos
  <2> QED
    BY <1>4, <2>1 DEF MoverParaErro, FimDaTentativa, respostas, redisVars
<1>5. ASSUME NEW w \in Trabalhador, Passo(w),
             ~(PublicarRecusa(w) \/ PublicarAbatida(w) \/ PublicarDesistencia(w)),
             ~SalvarIdempotencia(w), ~MoverParaErro(w)
      PROVE  UNCHANGED <<idem, abatidas, recusas, desistencias, erros>>
  BY <1>5 DEF Passo, VerificarIdempotencia, AdquirirTrava, ComTodasAsTravas, LerProduto,
     Commit, AtualizarCache, Relancar, LiberarTrava, Reconhecer, TentarDeNovo,
     FimDaTentativa, filaVars, redisVars, respostas
<1>6. ASSUME NEW w \in Trabalhador, NEW m \in Nota, Receber(w, m)
      PROVE  UNCHANGED <<idem, abatidas, recusas, desistencias, erros>>
  BY <1>6 DEF Receber, redisVars, respostas
<1>7. ASSUME NEW m \in Nota, Emitir(m)
      PROVE  UNCHANGED <<idem, abatidas, recusas, desistencias, erros>>
  BY <1>7 DEF Emitir, redisVars, respostas
<1>8. ASSUME Ambiente \/ \E p \in Produto : Expirar(p)
      PROVE  UNCHANGED <<idem, abatidas, recusas, desistencias, erros>>
  BY <1>8 DEF Ambiente, FalhaInfra, Queda, EsperaEsgotada, PerderTrava, Expirar,
     filaVars, redisVars, respostas
<1>9. CASE UNCHANGED vars
  BY <1>1, <1>9 DEF vars, filaVars, redisVars
<1>10. ASSUME NEW w \in Trabalhador, Passo(w)
       PROVE  Atendida(n)'
  <2> USE DEF Atendida
  <2> QED
    BY <1>1, <1>2, <1>3, <1>4, <1>5, <1>10
<1> HIDE DEF Atendida, TypeOK
<1> QED
  BY <1>1, <1>6, <1>7, <1>8, <1>9, <1>10 DEF Next, Consumo

LEMMA PassoSilencio == TypeOK /\ SilencioInv /\ [Next]_vars => SilencioInv'
<1> SUFFICES ASSUME TypeOK, SilencioInv, [Next]_vars, NEW n \in Nota,
                    emissoes'[n] > 0, ~Atendida(n)'
             PROVE  EmCurso(n)'
  BY DEF SilencioInv
<1>1. ~Atendida(n) /\ (emissoes[n] > 0 => EmCurso(n))
  BY AtendidaFica DEF SilencioInv
<1> USE DEF TypeOK, FilaTipo, LocalTipo, EmCurso
<1>2. ASSUME NEW m \in Nota, Emitir(m)
      PROVE  EmCurso(n)'
  <2>1. CASE m = n
    BY <1>2, <2>1 DEF Emitir
  <2>2. CASE m # n
    BY <1>1, <1>2, <2>2 DEF Emitir, localVars
  <2> QED
    BY <2>1, <2>2
<1>3. ASSUME NEW w \in Trabalhador, NEW m \in Nota, Receber(w, m)
      PROVE  EmCurso(n)'
  <2>1. nota[w] # n /\ emissoes[n] > 0
    BY <1>3, MarcasAssumption DEF Receber
  <2>2. CASE m = n
    BY <1>3, <2>2 DEF Receber
  <2>3. CASE m # n
    BY <1>1, <1>3, <2>1, <2>3 DEF Receber
  <2> QED
    BY <2>2, <2>3
\* The worker w goes on with its nota, or is not the one that matters.
<1>4. ASSUME NEW w \in Trabalhador, UNCHANGED <<fila, emissoes>>,
             \A v \in Trabalhador \ {w} : pc'[v] = pc[v] /\ nota'[v] = nota[v],
             nota[w] # n \/ pc[w] = "liberar" \/ (nota'[w] = n /\ pc'[w] # "liberar")
      PROVE  EmCurso(n)'
  BY <1>1, <1>4
<1>5. ASSUME NEW w \in Trabalhador, NEW s \in Passos,
             pc' = [pc EXCEPT ![w] = s], UNCHANGED <<fila, emissoes, nota>>,
             nota[w] # n \/ s # "liberar"
      PROVE  EmCurso(n)'
  BY <1>4, <1>5
<1>6. CASE UNCHANGED <<fila, emissoes, nota, pc>>
  BY <1>1, <1>6
<1>7. ASSUME NEW w \in Trabalhador, VerificarIdempotencia(w)
      PROVE  EmCurso(n)'
  <2>1. UNCHANGED <<fila, emissoes, nota, idem>>
    BY <1>7 DEF VerificarIdempotencia, filaVars, redisVars, localVars
  <2>2. nota[w] = n => nota[w] \notin idem
    BY <1>1 DEF Atendida
  <2> QED
    BY <1>5, <1>7, <2>1, <2>2 DEF VerificarIdempotencia, Passos
<1>8. ASSUME NEW w \in Trabalhador, PublicarRecusa(w)
      PROVE  EmCurso(n)'
  <2>1. UNCHANGED <<fila, emissoes, nota>>
    BY <1>8 DEF PublicarRecusa, localVars
  <2>2. recusas' = [recusas EXCEPT ![nota[w]] = @ + 1] => nota[w] # n
    BY DEF Atendida
  <2> QED
    BY <1>5, <1>8, <2>1, <2>2 DEF PublicarRecusa, Passos
<1>9. ASSUME NEW w \in Trabalhador, PublicarAbatida(w)
      PROVE  EmCurso(n)'
  <2>1. UNCHANGED <<fila, emissoes, nota>>
    BY <1>9 DEF PublicarAbatida, localVars
  <2>2. nota[w] # n
    BY <1>9 DEF PublicarAbatida, Atendida
  <2> QED
    BY <1>5, <1>9, <2>1, <2>2 DEF PublicarAbatida, Passos
<1>10. ASSUME NEW w \in Trabalhador, PublicarDesistencia(w)
       PROVE  EmCurso(n)'
  <2>1. UNCHANGED <<fila, emissoes, nota>>
    BY <1>10 DEF PublicarDesistencia, localVars
  <2>2. desistencias' = [desistencias EXCEPT ![nota[w]] = @ + 1] => nota[w] # n
    BY DEF Atendida
  <2> QED
    BY <1>5, <1>10, <2>1, <2>2 DEF PublicarDesistencia, Passos
<1>11. ASSUME NEW w \in Trabalhador, MoverParaErro(w)
       PROVE  EmCurso(n)'
  <2>1. nota[w] # n
    BY <1>11 DEF MoverParaErro, Atendida
  <2> QED
    BY <1>4, <1>11, <2>1 DEF MoverParaErro, SoltarNota, FimDaTentativa
<1>12. ASSUME NEW w \in Trabalhador, Reconhecer(w)
       PROVE  EmCurso(n)'
  BY <1>4, <1>12 DEF Reconhecer, SoltarNota, FimDaTentativa
<1>13. ASSUME NEW w \in Trabalhador, TentarDeNovo(w)
       PROVE  EmCurso(n)'
  BY <1>5, <1>13 DEF TentarDeNovo, FimDaTentativa, Passos
<1>14. ASSUME NEW w \in Trabalhador, Queda(w)
       PROVE  EmCurso(n)'
  <2>1. nota[w] \in Nota
    BY <1>14 DEF Queda
  <2>2. CASE nota[w] = n
    BY <1>14, <2>1, <2>2 DEF Queda
  <2>3. CASE nota[w] # n
    BY <1>1, <1>14, <2>1, <2>3 DEF Queda, SoltarNota
  <2> QED
    BY <2>2, <2>3
<1>15. ASSUME NEW w \in Trabalhador,
              \/ ComTodasAsTravas(w) \/ Commit(w) \/ SalvarIdempotencia(w)
              \/ Relancar(w) \/ FalhaInfra(w) \/ \E p \in Produto : EsperaEsgotada(w, p)
       PROVE  EmCurso(n)'
  <2>1. UNCHANGED <<fila, emissoes, nota>>
    BY <1>15 DEF ComTodasAsTravas, Commit, SalvarIdempotencia, Relancar, FalhaInfra,
       EsperaEsgotada, filaVars, localVars
  <2>2. \E s \in Passos \ {"liberar"} : pc' = [pc EXCEPT ![w] = s]
    BY <1>15 DEF ComTodasAsTravas, Commit, SalvarIdempotencia, Relancar, FalhaInfra,
       EsperaEsgotada, Passos
  <2> QED
    BY <1>5, <2>1, <2>2
<1>16. ASSUME NEW w \in Trabalhador, NEW p \in Produto,
              AdquirirTrava(w, p) \/ LerProduto(w, p) \/ AtualizarCache(w, p) \/ LiberarTrava(w, p)
       PROVE  EmCurso(n)'
  BY <1>6, <1>16 DEF AdquirirTrava, LerProduto, AtualizarCache, LiberarTrava, filaVars
<1>17. ASSUME NEW p \in Produto, Expirar(p) \/ PerderTrava(p)
       PROVE  EmCurso(n)'
  BY <1>6, <1>17 DEF Expirar, PerderTrava, filaVars, localVars
<1>18. CASE UNCHANGED vars
  BY <1>6, <1>18 DEF vars, filaVars, localVars
<1> HIDE DEF EmCurso, TypeOK
<1> QED
  BY <1>2, <1>3, <1>7, <1>8, <1>9, <1>10, <1>11, <1>12, <1>13, <1>14, <1>15, <1>16,
     <1>17, <1>18
  DEF Next, Consumo, Passo, Ambiente

\* A message is consumed without an answer only when its nota has its key: no
\* retry, crash, failing call or give-up ends in silence.
THEOREM SilencioCorreto == Spec => []SilencioSoDeDuplicata
<1>1. TypeOK /\ SilencioInv => SilencioSoDeDuplicata
  <2> SUFFICES ASSUME TypeOK, SilencioInv, NEW n \in Nota, Assentada(n), emissoes[n] > 0,
                      abatidas[n] + recusas[n] + desistencias[n] + erros[n] = 0
               PROVE  n \in idem
    BY DEF SilencioSoDeDuplicata
  <2>1. Atendida(n)
    BY DEF SilencioInv, EmCurso, Assentada
  <2>2. /\ abatidas[n] \in Nat /\ recusas[n] \in Nat
        /\ desistencias[n] \in Nat /\ erros[n] \in Nat
    BY DEF TypeOK, FilaTipo
  <2> QED
    BY <2>1, <2>2 DEF Atendida
<1>2. Spec => []SilencioInv
  BY TipoCorreto, InitSilencio, PassoSilencio, PTL DEF Spec
<1> QED
  BY TipoCorreto, <1>1, <1>2, PTL

-----------------------------------------------------------------------------
(* The refinement *)

PerdasNoLimite == perdas <= MaxPerdas

LEMMA PassoPerdas == TipoInv /\ PerdasNoLimite /\ [Next]_vars => PerdasNoLimite'
<1> SUFFICES ASSUME perdas \in Nat, PerdasNoLimite, [Next]_vars
             PROVE  PerdasNoLimite'
  BY DEF TipoInv, TypeOK, LimiteTipo
<1> USE LimitesAssumption DEF PerdasNoLimite
<1>1. ASSUME NEW n \in Nota, Emitir(n)
      PROVE  PerdasNoLimite'
  BY <1>1 DEF Emitir, limites
<1>2. ASSUME NEW w \in Trabalhador, NEW n \in Nota, Receber(w, n)
      PROVE  PerdasNoLimite'
  BY <1>2 DEF Receber, limites
<1>3. ASSUME NEW w \in Trabalhador, VerificarIdempotencia(w)
      PROVE  PerdasNoLimite'
  BY <1>3 DEF VerificarIdempotencia, limites
<1>4. ASSUME NEW w \in Trabalhador, NEW p \in Produto, AdquirirTrava(w, p)
      PROVE  PerdasNoLimite'
  BY <1>4 DEF AdquirirTrava, limites
<1>5. ASSUME NEW w \in Trabalhador, ComTodasAsTravas(w)
      PROVE  PerdasNoLimite'
  BY <1>5 DEF ComTodasAsTravas, limites
<1>6. ASSUME NEW w \in Trabalhador, NEW p \in Produto, EsperaEsgotada(w, p)
      PROVE  PerdasNoLimite'
  BY <1>6 DEF EsperaEsgotada, limites
<1>7. ASSUME NEW w \in Trabalhador, NEW p \in Produto, LerProduto(w, p)
      PROVE  PerdasNoLimite'
  BY <1>7 DEF LerProduto, limites
<1>8. ASSUME NEW w \in Trabalhador, PublicarRecusa(w)
      PROVE  PerdasNoLimite'
  BY <1>8 DEF PublicarRecusa, limites
<1>9. ASSUME NEW w \in Trabalhador, Commit(w)
      PROVE  PerdasNoLimite'
  BY <1>9 DEF Commit, limites
<1>10. ASSUME NEW w \in Trabalhador, NEW p \in Produto, AtualizarCache(w, p)
      PROVE  PerdasNoLimite'
  BY <1>10 DEF AtualizarCache, limites
<1>11. ASSUME NEW w \in Trabalhador, SalvarIdempotencia(w)
      PROVE  PerdasNoLimite'
  BY <1>11 DEF SalvarIdempotencia, limites
<1>12. ASSUME NEW w \in Trabalhador, PublicarAbatida(w)
      PROVE  PerdasNoLimite'
  BY <1>12 DEF PublicarAbatida, limites
<1>13. ASSUME NEW w \in Trabalhador, FalhaInfra(w)
      PROVE  PerdasNoLimite'
  BY <1>13 DEF FalhaInfra, limites
<1>14. ASSUME NEW w \in Trabalhador, Relancar(w)
      PROVE  PerdasNoLimite'
  BY <1>14 DEF Relancar, limites
<1>15. ASSUME NEW w \in Trabalhador, PublicarDesistencia(w)
      PROVE  PerdasNoLimite'
  BY <1>15 DEF PublicarDesistencia, limites
<1>16. ASSUME NEW w \in Trabalhador, NEW p \in Produto, LiberarTrava(w, p)
      PROVE  PerdasNoLimite'
  BY <1>16 DEF LiberarTrava, limites
<1>17. ASSUME NEW w \in Trabalhador, Reconhecer(w)
      PROVE  PerdasNoLimite'
  BY <1>17 DEF Reconhecer, FimDaTentativa, SoltarNota, limites
<1>18. ASSUME NEW w \in Trabalhador, TentarDeNovo(w)
      PROVE  PerdasNoLimite'
  BY <1>18 DEF TentarDeNovo, FimDaTentativa, limites
<1>19. ASSUME NEW w \in Trabalhador, MoverParaErro(w)
      PROVE  PerdasNoLimite'
  BY <1>19 DEF MoverParaErro, FimDaTentativa, SoltarNota, limites
<1>20. ASSUME NEW w \in Trabalhador, Queda(w)
      PROVE  PerdasNoLimite'
  BY <1>20 DEF Queda, SoltarNota, limites
<1>21. ASSUME NEW p \in Produto, Expirar(p)
      PROVE  PerdasNoLimite'
  BY <1>21 DEF Expirar, limites
<1>22. ASSUME NEW p \in Produto, PerderTrava(p)
      PROVE  PerdasNoLimite'
  BY <1>22 DEF PerderTrava, limites
<1>23. CASE UNCHANGED vars
  BY <1>23 DEF vars, limites
<1> QED
  BY <1>1, <1>2, <1>3, <1>4, <1>5, <1>6, <1>7, <1>8, <1>9, <1>10, <1>11, <1>12,
     <1>13, <1>14, <1>15, <1>16, <1>17, <1>18, <1>19, <1>20, <1>21, <1>22, <1>23
  DEF Next, Consumo, Passo, Ambiente

LEMMA InitAtomico == Init => Atomico!Init
  BY DEF Init, Atomico!Init

\* The debit of the abstract stock happens at Commit, its refusal at
\* PublicarRecusa and its confirmation at PublicarAbatida.
LEMMA PassoAtomico ==
  TipoInv /\ PassoInv /\ SaldoInv /\ RespostaInv /\ perdas = 0 /\ [Next]_vars
    => [Atomico!Next]_(Atomico!vars)
<1> SUFFICES ASSUME TypeOK, SaldoInv, RespostaInv, perdas = 0, [Next]_vars
             PROVE  [Atomico!Next]_(Atomico!vars)
  BY DEF TipoInv
<1> USE DEF Atomico!vars
<1>1. ASSUME NEW n \in Nota, Emitir(n)
      PROVE  [Atomico!Next]_(Atomico!vars)
  BY <1>1 DEF Emitir, filaVars, respostas,
           redisVars, dbVars, localVars, limites
<1>2. ASSUME NEW w \in Trabalhador, NEW n \in Nota, Receber(w, n)
      PROVE  [Atomico!Next]_(Atomico!vars)
  BY <1>2 DEF Receber, filaVars, respostas,
           redisVars, dbVars, localVars, limites
<1>3. ASSUME NEW w \in Trabalhador, VerificarIdempotencia(w)
      PROVE  [Atomico!Next]_(Atomico!vars)
  BY <1>3 DEF VerificarIdempotencia, filaVars, respostas,
           redisVars, dbVars, localVars, limites
<1>4. ASSUME NEW w \in Trabalhador, NEW p \in Produto, AdquirirTrava(w, p)
      PROVE  [Atomico!Next]_(Atomico!vars)
  BY <1>4 DEF AdquirirTrava, filaVars, respostas,
           redisVars, dbVars, localVars, limites
<1>5. ASSUME NEW w \in Trabalhador, ComTodasAsTravas(w)
      PROVE  [Atomico!Next]_(Atomico!vars)
  BY <1>5 DEF ComTodasAsTravas, filaVars, respostas,
           redisVars, dbVars, localVars, limites
<1>6. ASSUME NEW w \in Trabalhador, NEW p \in Produto, EsperaEsgotada(w, p)
      PROVE  [Atomico!Next]_(Atomico!vars)
  BY <1>6 DEF EsperaEsgotada, filaVars, respostas,
           redisVars, dbVars, localVars, limites
<1>7. ASSUME NEW w \in Trabalhador, NEW p \in Produto, LerProduto(w, p)
      PROVE  [Atomico!Next]_(Atomico!vars)
  BY <1>7 DEF LerProduto, filaVars, respostas,
           redisVars, dbVars, localVars, limites
<1>8. ASSUME NEW w \in Trabalhador, PublicarRecusa(w)
      PROVE  [Atomico!Next]_(Atomico!vars)
  <2>1. nota[w] \in Nota /\ pc[w] = "ler"
    BY <1>8 DEF PublicarRecusa, TypeOK, LocalTipo
  <2>2. PICK p \in Itens(nota[w]) : ~(Qtd[nota[w]][p] <= lido[w][p])
    BY <1>8 DEF PublicarRecusa, LidoSuficiente
  <2>3. lido[w][p] = saldo[p]
    BY <1>8 DEF PublicarRecusa, LeuTudo, Lidos, SaldoInv, LeituraValida
  <2>4. ~Atomico!Suficiente(nota[w])
    BY <2>2, <2>3 DEF Itens, Atomico!Suficiente
  <2>5. CASE recusas' = [recusas EXCEPT ![nota[w]] = @ + 1]
    <3>1. Atomico!Recusar(nota[w])
      BY <1>8, <2>4, <2>5 DEF PublicarRecusa, dbVars, Atomico!Recusar
    <3> QED
      BY <2>1, <3>1 DEF Atomico!Next
  <2>6. CASE UNCHANGED recusas
    BY <1>8, <2>6 DEF PublicarRecusa, dbVars
  <2> QED
    BY <1>8, <2>5, <2>6 DEF PublicarRecusa
<1>9. ASSUME NEW w \in Trabalhador, Commit(w)
      PROVE  [Atomico!Next]_(Atomico!vars)
  <2>1. nota[w] \in Nota /\ pc[w] = "ler"
    BY <1>9 DEF Commit, TypeOK, LocalTipo
  <2>2. \A p \in Itens(nota[w]) : lido[w][p] = saldo[p]
    BY <1>9 DEF Commit, LeuTudo, Lidos, SaldoInv, LeituraValida
  <2>3. \A p \in Produto : Qtd[nota[w]][p] \in Nat /\ saldo[p] \in Nat
    BY <2>1, ConstantesAssumption DEF TypeOK, DbTipo
  <2>4. Atomico!Suficiente(nota[w])
    BY <1>9, <2>2, <2>3 DEF Commit, LidoSuficiente, Itens, Atomico!Suficiente
  <2>5. saldo' = [p \in Produto |-> saldo[p] - Qtd[nota[w]][p]]
    BY <1>9, <2>2, <2>3 DEF Commit, Itens
  <2>6. Atomico!Debitar(nota[w])
    BY <1>9, <2>4, <2>5 DEF Commit, filaVars, Atomico!Debitar
  <2> QED
    BY <2>1, <2>6 DEF Atomico!Next
<1>10. ASSUME NEW w \in Trabalhador, NEW p \in Produto, AtualizarCache(w, p)
      PROVE  [Atomico!Next]_(Atomico!vars)
  BY <1>10 DEF AtualizarCache, filaVars, respostas,
           redisVars, dbVars, localVars, limites
<1>11. ASSUME NEW w \in Trabalhador, SalvarIdempotencia(w)
      PROVE  [Atomico!Next]_(Atomico!vars)
  BY <1>11 DEF SalvarIdempotencia, filaVars, respostas,
           redisVars, dbVars, localVars, limites
<1>12. ASSUME NEW w \in Trabalhador, PublicarAbatida(w)
      PROVE  [Atomico!Next]_(Atomico!vars)
  <2>1. nota[w] \in Nota /\ debitos[nota[w]] > 0
    BY <1>12 DEF PublicarAbatida, TypeOK, LocalTipo, RespostaInv, DepoisDoCommit
  <2>2. Atomico!Confirmar(nota[w])
    BY <1>12, <2>1 DEF PublicarAbatida, dbVars, Atomico!Confirmar
  <2> QED
    BY <2>1, <2>2 DEF Atomico!Next
<1>13. ASSUME NEW w \in Trabalhador, FalhaInfra(w)
      PROVE  [Atomico!Next]_(Atomico!vars)
  BY <1>13 DEF FalhaInfra, filaVars, respostas,
           redisVars, dbVars, localVars, limites
<1>14. ASSUME NEW w \in Trabalhador, Relancar(w)
      PROVE  [Atomico!Next]_(Atomico!vars)
  BY <1>14 DEF Relancar, filaVars, respostas,
           redisVars, dbVars, localVars, limites
<1>15. ASSUME NEW w \in Trabalhador, PublicarDesistencia(w)
      PROVE  [Atomico!Next]_(Atomico!vars)
  BY <1>15 DEF PublicarDesistencia, filaVars, respostas,
           redisVars, dbVars, localVars, limites
<1>16. ASSUME NEW w \in Trabalhador, NEW p \in Produto, LiberarTrava(w, p)
      PROVE  [Atomico!Next]_(Atomico!vars)
  BY <1>16 DEF LiberarTrava, filaVars, respostas,
           redisVars, dbVars, localVars, limites
<1>17. ASSUME NEW w \in Trabalhador, Reconhecer(w)
      PROVE  [Atomico!Next]_(Atomico!vars)
  BY <1>17 DEF Reconhecer, FimDaTentativa, SoltarNota, filaVars, respostas,
           redisVars, dbVars, localVars, limites
<1>18. ASSUME NEW w \in Trabalhador, TentarDeNovo(w)
      PROVE  [Atomico!Next]_(Atomico!vars)
  BY <1>18 DEF TentarDeNovo, FimDaTentativa, filaVars, respostas,
           redisVars, dbVars, localVars, limites
<1>19. ASSUME NEW w \in Trabalhador, MoverParaErro(w)
      PROVE  [Atomico!Next]_(Atomico!vars)
  BY <1>19 DEF MoverParaErro, FimDaTentativa, SoltarNota, filaVars, respostas,
           redisVars, dbVars, localVars, limites
<1>20. ASSUME NEW w \in Trabalhador, Queda(w)
      PROVE  [Atomico!Next]_(Atomico!vars)
  BY <1>20 DEF Queda, SoltarNota, filaVars, respostas,
           redisVars, dbVars, localVars, limites
<1>21. ASSUME NEW p \in Produto, Expirar(p)
      PROVE  [Atomico!Next]_(Atomico!vars)
  BY <1>21 DEF Expirar, filaVars, respostas,
           redisVars, dbVars, localVars, limites
<1>22. ASSUME NEW p \in Produto, PerderTrava(p)
      PROVE  [Atomico!Next]_(Atomico!vars)
  BY <1>22 DEF PerderTrava, filaVars, respostas,
           redisVars, dbVars, localVars, limites
<1>23. CASE UNCHANGED vars
  BY <1>23 DEF vars, filaVars, respostas,
           redisVars, dbVars, localVars, limites
<1> QED
  BY <1>1, <1>2, <1>3, <1>4, <1>5, <1>6, <1>7, <1>8, <1>9, <1>10, <1>11, <1>12,
     <1>13, <1>14, <1>15, <1>16, <1>17, <1>18, <1>19, <1>20, <1>21, <1>22, <1>23
  DEF Next, Consumo, Passo, Ambiente

\* When Redis loses no lock, the concurrent, crashing and retrying consumer
\* implements the atomic stock: notas are debited all or nothing against the
\* real balance, refused only when the balance does not suffice at that very
\* moment, and confirmed only after a debit.
THEOREM Refinamento == MaxPerdas = 0 => (Spec => ImplementaAtomico)
<1> SUFFICES ASSUME MaxPerdas = 0
             PROVE  Spec => ImplementaAtomico
  OBVIOUS
<1>1. Init => PerdasNoLimite
  BY LimitesAssumption DEF Init, PerdasNoLimite
<1>2. TipoInv /\ PerdasNoLimite => perdas = 0
  BY DEF TipoInv, TypeOK, LimiteTipo, PerdasNoLimite
<1> QED
  BY InitTipo, PassoTipo, InitPasso, PassoPasso, InitExclusao, PassoExclusao,
     InitSaldo, PassoSaldo, InitResposta, PassoResposta, PassoPerdas,
     InitAtomico, PassoAtomico, <1>1, <1>2, PTL
  DEF Spec, ImplementaAtomico, Atomico!Spec
=============================================================================
