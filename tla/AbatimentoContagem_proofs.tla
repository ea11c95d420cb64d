---------------------- MODULE AbatimentoContagem_proofs ----------------------
(***************************************************************************)
(* Proofs about AbatimentoEstoque that count: what was said or decided of  *)
(* a nota, the messages about it in the queue and the workers that still   *)
(* have one to decide never exceed the messages published and the failures *)
(* that paid for the rest; and, since the workers are finitely many, those *)
(* that wait never hold each other up.                                     *)
(***************************************************************************)
EXTENDS AbatimentoEstoque_proofs, FiniteSetTheorems, WellFoundedInduction

USE DEF Vai, Publica, SemFalha, ComFalha

\* What one step does to a total: a counts what is settled, f what is queued, e
\* what pays for them and S who still works; b, g, h and T are the same after it.
\* A step that pays one more settles, queues or takes up one more for nothing.
Passa(a, b, f, g, e, h, S, T) ==
    \/ b = a /\ g = f /\ h >= e /\ T \subseteq S
    \/ b = a + 1 /\ g = f /\ h >= e /\ \E w \in S : T \subseteq S \ {w}
    \/ b = a /\ g = f - 1 /\ h >= e /\ \E w \in Trabalhador : T \subseteq S \cup {w}
    \/ b + g <= a + f + 1 /\ h >= e + 1 /\ T \subseteq S
    \/ b = a /\ g = f /\ h >= e + 1 /\ \E w \in Trabalhador : T \subseteq S \cup {w}

\* A total that such a step keeps within what pays for it.
LEMMA TotalFica ==
  ASSUME NEW a \in Nat, NEW b \in Nat, NEW f \in Nat, NEW g \in Nat,
         NEW e \in Nat, NEW h \in Nat,
         NEW S \in SUBSET Trabalhador, NEW T \in SUBSET Trabalhador,
         a + f + Cardinality(S) <= e, Passa(a, b, f, g, e, h, S, T)
  PROVE  b + g + Cardinality(T) <= h
<1>1. /\ IsFiniteSet(S) /\ IsFiniteSet(T)
      /\ Cardinality(S) \in Nat /\ Cardinality(T) \in Nat
  BY TrabalhadorAssumption, FS_Subset, FS_CardinalityType
<1>2. T \subseteq S => Cardinality(T) <= Cardinality(S)
  BY <1>1, FS_Subset
<1>3. ASSUME NEW w \in S, T \subseteq S \ {w}
      PROVE  Cardinality(T) <= Cardinality(S) - 1
  <2>1. IsFiniteSet(S \ {w}) /\ Cardinality(S \ {w}) = Cardinality(S) - 1
    BY <1>1, FS_RemoveElement
  <2> QED
    BY <1>3, <2>1, FS_Subset
<1>4. ASSUME NEW w \in Trabalhador, T \subseteq S \cup {w}
      PROVE  Cardinality(T) <= Cardinality(S) + 1
  <2>1. /\ IsFiniteSet(S \cup {w})
        /\ Cardinality(S \cup {w}) = Cardinality(S) \/ Cardinality(S \cup {w}) = Cardinality(S) + 1
    BY <1>1, FS_AddElement
  <2>2. Cardinality(T) <= Cardinality(S \cup {w})
    BY <1>4, <2>1, FS_Subset
  <2> QED
    BY <1>1, <2>1, <2>2
<1> QED
  BY <1>1, <1>2, <1>3, <1>4 DEF Passa

-----------------------------------------------------------------------------
(* Answers and decisions, message by message *)

Respostas(n) == abatidas[n] + recusas[n] + desistencias[n] + erros[n]

\* The workers that may still answer for n.
Ativos(n) == {w \in Trabalhador : nota[w] = n /\ pc[w] # "liberar"}

\* What pays for the answers about n.
Orcamento(n) == emissoes[n] + quedas + incertas[n]

\* An answer beyond one a message is paid by a crash, or by its own publication
\* that threw.
RespostasInv ==
    \A n \in Nota :
        Respostas(n) + fila[n] + Cardinality(Ativos(n)) <= Orcamento(n)

\* The workers that have yet to decide about n.
Indecisos(n) ==
    {w \in Trabalhador : nota[w] = n
        /\ pc[w] \in {"verificar", "adquirir", "ler", "excecao", "liberarErro"}}

Decisoes(n) == debitos[n] + recusas[n] + desistencias[n] + erros[n]

\* A decision beyond one a message is paid by a crash or a failing call.
DecisoesInv ==
    \A n \in Nota :
        Decisoes(n) + fila[n] + Cardinality(Indecisos(n)) <= emissoes[n] + falhas + quedas

ContagemInv == RespostasInv /\ DecisoesInv

\* What a step does to both totals of n.
PassaResposta(n) ==
    Passa(Respostas(n), Respostas(n)', fila[n], fila'[n],
          Orcamento(n), Orcamento(n)', Ativos(n), Ativos(n)')
PassaDecisao(n) ==
    Passa(Decisoes(n), Decisoes(n)', fila[n], fila'[n],
          emissoes[n] + falhas + quedas, emissoes'[n] + falhas' + quedas',
          Indecisos(n), Indecisos(n)')

LEMMA InitContagem == Init => ContagemInv
<1> SUFFICES ASSUME Init
             PROVE  ContagemInv
  OBVIOUS
<1>1. \A n \in Nota : Ativos(n) = {} /\ Indecisos(n) = {}
  BY MarcasAssumption DEF Init, Ativos, Indecisos
<1>2. \A n \in Nota : Cardinality(Ativos(n)) = 0 /\ Cardinality(Indecisos(n)) = 0
  BY <1>1, FS_EmptySet
<1> QED
  BY <1>2 DEF Init, ContagemInv, RespostasInv, DecisoesInv, Respostas, Decisoes, Orcamento

\* Failures and crashes are only ever added to.
LimitesCrescem == falhas' >= falhas /\ quedas' >= quedas

LEMMA PassoLimites == TypeOK /\ [Next]_vars => LimitesCrescem
<1> SUFFICES ASSUME TypeOK, [Next]_vars
             PROVE  LimitesCrescem
  OBVIOUS
<1> USE DEF TypeOK, LimiteTipo, LimitesCrescem
<1>1. CASE UNCHANGED <<falhas, quedas>>
  BY <1>1
<1>2. ASSUME NEW w \in Trabalhador, Passo(w)
      PROVE  (UNCHANGED falhas \/ falhas' = falhas + 1) /\ UNCHANGED quedas
  BY <1>2 DEF Passo, VerificarIdempotencia, AdquirirTrava, ComTodasAsTravas, LerProduto,
     PublicarRecusa, Commit, AtualizarCache, SalvarIdempotencia, PublicarAbatida, Relancar,
     PublicarDesistencia, LiberarTrava, Reconhecer, TentarDeNovo, MoverParaErro,
     FimDaTentativa, limites, SetProdutoCache
<1>3. ASSUME \/ \E n \in Nota : Emitir(n)
             \/ \E w \in Trabalhador, n \in Nota : Receber(w, n)
             \/ \E w \in Trabalhador, p \in Produto : EsperaEsgotada(w, p)
             \/ \E p \in Produto : Expirar(p) \/ PerderTrava(p)
             \/ UNCHANGED vars
      PROVE  UNCHANGED <<falhas, quedas>>
  BY <1>3 DEF Emitir, Receber, EsperaEsgotada, Expirar, PerderTrava, vars, limites
<1>4. ASSUME NEW w \in Trabalhador, FalhaInfra(w) \/ Queda(w)
      PROVE  LimitesCrescem
  BY <1>4 DEF FalhaInfra, Queda
<1> QED
  BY <1>1, <1>2, <1>3, <1>4 DEF Next, Consumo, Ambiente

\* Worker w moves on to t and nothing is said of any nota.
LEMMA AndarContagem ==
  ASSUME TypeOK, LimitesCrescem, LimiteTipo',
         NEW n \in Nota, NEW w \in Trabalhador, NEW t \in Passos,
         pc' = [pc EXCEPT ![w] = t],
         UNCHANGED <<nota, fila, emissoes, abatidas, recusas, desistencias, erros, incertas>>
  PROVE  /\ pc[w] # "liberar" => PassaResposta(n)
         /\ UNCHANGED debitos
              /\ (t \in {"verificar", "adquirir", "ler", "excecao", "liberarErro"}
                    => \/ pc[w] \in {"verificar", "adquirir", "ler", "excecao", "liberarErro"}
                       \/ falhas' = falhas + 1)
            => PassaDecisao(n)
<1> DEFINE Indeciso == {"verificar", "adquirir", "ler", "excecao", "liberarErro"}
<1>1. pc[w] # "liberar" => Ativos(n)' \subseteq Ativos(n)
  BY DEF Ativos, TypeOK, LocalTipo
<1>2. (t \in Indeciso => pc[w] \in Indeciso) => Indecisos(n)' \subseteq Indecisos(n)
  BY DEF Indecisos, TypeOK, LocalTipo
<1>3. Indecisos(n)' \subseteq Indecisos(n) \cup {w}
  BY DEF Indecisos, TypeOK, LocalTipo
<1>4. /\ Orcamento(n)' >= Orcamento(n)
      /\ emissoes'[n] + falhas' + quedas' >= emissoes[n] + falhas + quedas
      /\ falhas' = falhas + 1
           => emissoes'[n] + falhas' + quedas' >= emissoes[n] + falhas + quedas + 1
  BY DEF TypeOK, FilaTipo, LimiteTipo, LimitesCrescem, Orcamento
<1>5. Respostas(n)' = Respostas(n) /\ (UNCHANGED debitos => Decisoes(n)' = Decisoes(n))
  BY DEF Respostas, Decisoes
<1> QED
  BY <1>1, <1>2, <1>3, <1>4, <1>5 DEF PassaResposta, PassaDecisao, Passa

\* Worker w answers for its nota and is done with it, or drops it in _error.
LEMMA ResponderContagem ==
  ASSUME TypeOK, LimitesCrescem, LimiteTipo',
         NEW n \in Nota, NEW w \in Trabalhador, nota[w] \in Nota,
         pc[w] \in {"ler", "excecao", "abatida", "liberarErro"},
         \A v \in Trabalhador \ {w} : pc'[v] = pc[v] /\ nota'[v] = nota[v],
         nota'[w] = Nenhuma \/ (nota'[w] = nota[w] /\ pc'[w] = "liberar"),
         UNCHANGED <<fila, emissoes, incertas, debitos>>,
         \/ abatidas' = [abatidas EXCEPT ![nota[w]] = @ + 1]
              /\ pc[w] = "abatida" /\ UNCHANGED <<recusas, desistencias, erros>>
         \/ recusas' = [recusas EXCEPT ![nota[w]] = @ + 1]
              /\ pc[w] # "abatida" /\ UNCHANGED <<abatidas, desistencias, erros>>
         \/ desistencias' = [desistencias EXCEPT ![nota[w]] = @ + 1]
              /\ pc[w] # "abatida" /\ UNCHANGED <<abatidas, recusas, erros>>
         \/ erros' = [erros EXCEPT ![nota[w]] = @ + 1]
              /\ pc[w] # "abatida" /\ UNCHANGED <<abatidas, recusas, desistencias>>
  PROVE  PassaResposta(n) /\ PassaDecisao(n)
<1> USE DEF TypeOK, FilaTipo, DbTipo, LocalTipo
<1>0. /\ Orcamento(n)' >= Orcamento(n)
      /\ emissoes'[n] + falhas' + quedas' >= emissoes[n] + falhas + quedas
  BY DEF LimiteTipo, LimitesCrescem, Orcamento
<1>1. CASE nota[w] = n
  <2>1. w \in Ativos(n) /\ Ativos(n)' \subseteq Ativos(n) \ {w}
    BY <1>1, MarcasAssumption DEF Ativos
  <2>2. /\ Indecisos(n)' \subseteq Indecisos(n) \ {w}
        /\ pc[w] # "abatida" => w \in Indecisos(n)
    BY <1>1, MarcasAssumption DEF Indecisos
  <2>3. Respostas(n)' = Respostas(n) + 1
    BY <1>1 DEF Respostas
  <2>4. Decisoes(n)' = IF pc[w] = "abatida" THEN Decisoes(n) ELSE Decisoes(n) + 1
    BY <1>1 DEF Decisoes
  <2> QED
    BY <1>0, <2>1, <2>2, <2>3, <2>4 DEF PassaResposta, PassaDecisao, Passa
<1>2. CASE nota[w] # n
  <2>1. Ativos(n)' \subseteq Ativos(n) /\ Indecisos(n)' \subseteq Indecisos(n)
    BY <1>2, MarcasAssumption DEF Ativos, Indecisos
  <2>2. Respostas(n)' = Respostas(n) /\ Decisoes(n)' = Decisoes(n)
    BY <1>2 DEF Respostas, Decisoes
  <2> QED
    BY <1>0, <2>1, <2>2 DEF PassaResposta, PassaDecisao, Passa
<1> QED
  BY <1>1, <1>2

\* The publication of worker w throws although its answer is out: it goes on to
\* t, and may answer again.
LEMMA PublicarContagem ==
  ASSUME TypeOK, NEW n \in Nota, NEW w \in Trabalhador, nota[w] \in Nota,
         pc[w] \in {"ler", "excecao", "abatida"}, NEW t \in {"excecao", "liberarErro"},
         pc' = [pc EXCEPT ![w] = t], falhas' = falhas + 1,
         incertas' = [incertas EXCEPT ![nota[w]] = @ + 1],
         UNCHANGED <<nota, fila, emissoes, erros, quedas, debitos>>,
         \/ abatidas' = [abatidas EXCEPT ![nota[w]] = @ + 1]
              /\ pc[w] = "abatida" /\ UNCHANGED <<recusas, desistencias>>
         \/ recusas' = [recusas EXCEPT ![nota[w]] = @ + 1]
              /\ pc[w] # "abatida" /\ UNCHANGED <<abatidas, desistencias>>
         \/ desistencias' = [desistencias EXCEPT ![nota[w]] = @ + 1]
              /\ pc[w] # "abatida" /\ UNCHANGED <<abatidas, recusas>>
  PROVE  PassaResposta(n) /\ PassaDecisao(n)
<1> USE DEF TypeOK, FilaTipo, DbTipo, LocalTipo, LimiteTipo
<1>1. Ativos(n)' \subseteq Ativos(n)
  BY DEF Ativos
<1>2. /\ Indecisos(n)' \subseteq Indecisos(n) \cup {w}
      /\ pc[w] # "abatida" => Indecisos(n)' \subseteq Indecisos(n)
  BY DEF Indecisos
<1>3. \/ Respostas(n)' = Respostas(n) + 1 /\ Orcamento(n)' = Orcamento(n) + 1
      \/ Respostas(n)' = Respostas(n) /\ Orcamento(n)' = Orcamento(n)
  <2>1. CASE nota[w] = n
    <3>1. Orcamento(n)' = Orcamento(n) + 1
      BY <2>1 DEF Orcamento
    <3>2. \/ abatidas'[n] = abatidas[n] + 1 /\ recusas'[n] = recusas[n]
               /\ desistencias'[n] = desistencias[n]
          \/ recusas'[n] = recusas[n] + 1 /\ abatidas'[n] = abatidas[n]
               /\ desistencias'[n] = desistencias[n]
          \/ desistencias'[n] = desistencias[n] + 1 /\ abatidas'[n] = abatidas[n]
               /\ recusas'[n] = recusas[n]
      BY <2>1
    <3> QED
      BY <3>1, <3>2 DEF Respostas
  <2>2. CASE nota[w] # n
    BY <2>2 DEF Respostas, Orcamento
  <2> QED
    BY <2>1, <2>2
<1>4. \/ Decisoes(n)' = Decisoes(n)
      \/ Decisoes(n)' = Decisoes(n) + 1 /\ pc[w] # "abatida"
  BY DEF Decisoes
<1>5. /\ Respostas(n) \in Nat /\ Decisoes(n) \in Nat /\ fila[n] \in Nat
      /\ Orcamento(n) \in Nat
      /\ emissoes'[n] + falhas' + quedas' >= emissoes[n] + falhas + quedas + 1
  BY DEF Respostas, Decisoes, Orcamento
<1> QED
  BY <1>1, <1>2, <1>3, <1>4, <1>5 DEF PassaResposta, PassaDecisao, Passa

LEMMA PassoPassa ==
  ASSUME TypeOK, TypeOK', [Next]_vars, NEW n \in Nota
  PROVE  PassaResposta(n) /\ PassaDecisao(n)
<1> DEFINE Tese == PassaResposta(n) /\ PassaDecisao(n)
<1>0. LimitesCrescem /\ LimiteTipo'
  BY PassoLimites DEF TypeOK
<1>a. UNCHANGED <<emissoes, incertas>> =>
        /\ Orcamento(n)' >= Orcamento(n)
        /\ emissoes'[n] + falhas' + quedas' >= emissoes[n] + falhas + quedas
  BY <1>0 DEF LimitesCrescem, TypeOK, FilaTipo, LimiteTipo, Orcamento
<1> USE DEF TypeOK, LocalTipo
<1>1. CASE UNCHANGED <<pc, nota, fila, emissoes, abatidas, recusas, desistencias, erros,
                       incertas, debitos>>
  <2>1. UNCHANGED <<Respostas(n), Decisoes(n), Ativos(n), Indecisos(n)>>
    BY <1>1 DEF Respostas, Decisoes, Ativos, Indecisos
  <2> QED
    BY <1>a, <1>1, <2>1 DEF PassaResposta, PassaDecisao, Passa
<1>2. ASSUME NEW m \in Nota, Emitir(m)
      PROVE  Tese
  <2>1. UNCHANGED <<Respostas(n), Decisoes(n), Ativos(n), Indecisos(n), falhas, quedas,
                    incertas>>
    BY <1>2 DEF Emitir, respostas, dbVars, localVars, limites, Respostas, Decisoes, Ativos,
       Indecisos
  <2>2. /\ Respostas(n) \in Nat /\ Decisoes(n) \in Nat /\ fila[n] \in Nat
        /\ emissoes[n] \in Nat /\ falhas \in Nat /\ quedas \in Nat /\ incertas[n] \in Nat
    BY DEF Respostas, Decisoes, FilaTipo, DbTipo, LimiteTipo
  <2>3. \/ fila'[n] = fila[n] /\ emissoes'[n] = emissoes[n]
        \/ fila'[n] = fila[n] + 1 /\ emissoes'[n] = emissoes[n] + 1
    BY <1>2 DEF Emitir, FilaTipo
  <2> QED
    BY <2>1, <2>2, <2>3 DEF PassaResposta, PassaDecisao, Passa, Orcamento
<1>3. ASSUME NEW w \in Trabalhador, NEW m \in Nota, Receber(w, m)
      PROVE  Tese
  <2>1. UNCHANGED <<Respostas(n), Decisoes(n), emissoes, incertas>>
    BY <1>3 DEF Receber, respostas, dbVars, Respostas, Decisoes
  <2>2. CASE n = m
    <3>1. Ativos(n)' \subseteq Ativos(n) \cup {w} /\ Indecisos(n)' \subseteq Indecisos(n) \cup {w}
      BY <1>3 DEF Receber, Ativos, Indecisos
    <3>2. fila'[n] = fila[n] - 1
      BY <1>3, <2>2 DEF Receber, FilaTipo
    <3> QED
      BY <1>a, <2>1, <3>1, <3>2 DEF PassaResposta, PassaDecisao, Passa
  <2>3. CASE n # m
    <3>1. Ativos(n)' \subseteq Ativos(n) /\ Indecisos(n)' \subseteq Indecisos(n)
      BY <1>3, <2>3 DEF Receber, Ativos, Indecisos
    <3>2. fila'[n] = fila[n]
      BY <1>3, <2>3 DEF Receber, FilaTipo
    <3> QED
      BY <1>a, <2>1, <3>1, <3>2 DEF PassaResposta, PassaDecisao, Passa
  <2> QED
    BY <2>2, <2>3
<1>4. ASSUME NEW w \in Trabalhador,
             \/ VerificarIdempotencia(w) \/ ComTodasAsTravas(w) \/ Relancar(w)
             \/ \E p \in Produto : EsperaEsgotada(w, p)
      PROVE  Tese
  <2>1. UNCHANGED <<nota, fila, emissoes, abatidas, recusas, desistencias, erros, incertas,
                    debitos>>
    BY <1>4 DEF VerificarIdempotencia, ComTodasAsTravas, Relancar, EsperaEsgotada,
       filaVars, dbVars, localVars
  <2>2. pc[w] \in {"verificar", "adquirir", "excecao"}
    BY <1>4 DEF VerificarIdempotencia, ComTodasAsTravas, Relancar, EsperaEsgotada
  <2>3. \E t \in Passos : pc' = [pc EXCEPT ![w] = t]
    BY <1>4 DEF VerificarIdempotencia, ComTodasAsTravas, Relancar, EsperaEsgotada, Passos
  <2> QED
    BY <1>0, <2>1, <2>2, <2>3, AndarContagem
<1>5. ASSUME NEW w \in Trabalhador, NEW p \in Produto,
             AdquirirTrava(w, p) \/ LerProduto(w, p) \/ AtualizarCache(w, p) \/ LiberarTrava(w, p)
      PROVE  Tese
  BY <1>1, <1>5 DEF AdquirirTrava, LerProduto, AtualizarCache, LiberarTrava, filaVars, dbVars
<1>6. ASSUME NEW w \in Trabalhador, PublicarRecusa(w) \/ PublicarDesistencia(w)
      PROVE  Tese
  <2>1. /\ UNCHANGED <<nota, fila, emissoes, abatidas, erros, debitos>>
        /\ pc[w] \in {"ler", "excecao"} /\ nota[w] \in Nota
    BY <1>6 DEF PublicarRecusa, PublicarDesistencia, dbVars, localVars
  <2>2. CASE UNCHANGED <<recusas, desistencias, incertas>>
    <3>1. \E t \in Passos : pc' = [pc EXCEPT ![w] = t]
      BY <1>6 DEF PublicarRecusa, PublicarDesistencia, Passos
    <3> QED
      BY <1>0, <2>1, <2>2, <3>1, AndarContagem
  <2>3. CASE /\ pc' = [pc EXCEPT ![w] = "liberar"] /\ UNCHANGED incertas
             /\ \/ recusas' = [recusas EXCEPT ![nota[w]] = @ + 1] /\ UNCHANGED desistencias
                \/ desistencias' = [desistencias EXCEPT ![nota[w]] = @ + 1] /\ UNCHANGED recusas
    BY <1>0, <2>1, <2>3, ResponderContagem
  <2>4. CASE /\ pc' = [pc EXCEPT ![w] = "liberarErro"] /\ falhas' = falhas + 1
             /\ UNCHANGED quedas /\ incertas' = [incertas EXCEPT ![nota[w]] = @ + 1]
             /\ \/ recusas' = [recusas EXCEPT ![nota[w]] = @ + 1] /\ UNCHANGED desistencias
                \/ desistencias' = [desistencias EXCEPT ![nota[w]] = @ + 1] /\ UNCHANGED recusas
    BY <2>1, <2>4, PublicarContagem
  <2> QED
    BY <1>6, <2>2, <2>3, <2>4 DEF PublicarRecusa, PublicarDesistencia
<1>7. ASSUME NEW w \in Trabalhador, Commit(w)
      PROVE  Tese
  <2>1. /\ UNCHANGED <<nota, fila, emissoes, abatidas, recusas, desistencias, erros, incertas>>
        /\ pc[w] = "ler" /\ nota[w] \in Nota
        /\ debitos' = [debitos EXCEPT ![nota[w]] = @ + 1]
    BY <1>7 DEF Commit, filaVars, localVars
  <2>2. PassaResposta(n)
    <3>1. \E t \in Passos : pc' = [pc EXCEPT ![w] = t]
      BY <1>7 DEF Commit, Passos
    <3> QED
      BY <1>0, <2>1, <3>1, AndarContagem
  <2>3. PassaDecisao(n)
    <3>1. \/ pc' = [pc EXCEPT ![w] = "cache"]
          \/ pc' = [pc EXCEPT ![w] = "excecao"] /\ falhas' = falhas + 1
      BY <1>7 DEF Commit
    <3>2. Indecisos(n)' \subseteq Indecisos(n)
      BY <2>1, <3>1 DEF Indecisos
    <3>3. CASE nota[w] = n
      <4>1. Decisoes(n)' = Decisoes(n) + 1 /\ Decisoes(n) \in Nat /\ fila[n] \in Nat
        BY <2>1, <3>3 DEF Decisoes, DbTipo, FilaTipo
      <4>2. CASE pc' = [pc EXCEPT ![w] = "cache"]
        <5>1. w \in Indecisos(n) /\ Indecisos(n)' \subseteq Indecisos(n) \ {w}
          BY <2>1, <3>3, <4>2 DEF Indecisos
        <5> QED
          BY <1>a, <2>1, <4>1, <5>1 DEF PassaDecisao, Passa
      <4>3. CASE falhas' = falhas + 1
        <5>1. emissoes'[n] + falhas' + quedas' >= emissoes[n] + falhas + quedas + 1
          BY <1>0, <2>1, <4>3 DEF LimitesCrescem, FilaTipo, LimiteTipo
        <5>2. Decisoes(n)' + fila'[n] <= Decisoes(n) + fila[n] + 1
          BY <2>1, <4>1
        <5> QED
          BY <3>2, <5>1, <5>2 DEF PassaDecisao, Passa
      <4> QED
        BY <3>1, <4>2, <4>3
    <3>4. CASE nota[w] # n
      <4>1. Decisoes(n)' = Decisoes(n)
        BY <2>1, <3>4 DEF Decisoes, DbTipo
      <4> QED
        BY <1>a, <2>1, <3>2, <4>1 DEF PassaDecisao, Passa
    <3> QED
      BY <3>3, <3>4
  <2> QED
    BY <2>2, <2>3
<1>8. ASSUME NEW w \in Trabalhador, SalvarIdempotencia(w) \/ FalhaInfra(w)
      PROVE  Tese
  <2>1. /\ UNCHANGED <<nota, fila, emissoes, abatidas, recusas, desistencias, erros, incertas,
                       debitos>>
        /\ pc[w] # "liberar"
    BY <1>8 DEF SalvarIdempotencia, FalhaInfra, filaVars, dbVars, localVars
  <2>2. \/ pc' = [pc EXCEPT ![w] = "abatida"]
        \/ pc' = [pc EXCEPT ![w] = "excecao"] /\ falhas' = falhas + 1
    BY <1>8 DEF SalvarIdempotencia, FalhaInfra
  <2> QED
    BY <1>0, <2>1, <2>2, AndarContagem DEF Passos
<1>9. ASSUME NEW w \in Trabalhador, PublicarAbatida(w)
      PROVE  Tese
  <2>1. /\ nota[w] \in Nota /\ pc[w] = "abatida"
        /\ abatidas' = [abatidas EXCEPT ![nota[w]] = @ + 1]
        /\ UNCHANGED <<nota, fila, emissoes, recusas, desistencias, erros, quedas, debitos>>
    BY <1>9 DEF PublicarAbatida, dbVars, localVars
  <2>2. CASE pc' = [pc EXCEPT ![w] = "liberar"] /\ UNCHANGED incertas
    BY <1>0, <2>1, <2>2, ResponderContagem
  <2>3. CASE /\ pc' = [pc EXCEPT ![w] = "excecao"] /\ falhas' = falhas + 1
             /\ incertas' = [incertas EXCEPT ![nota[w]] = @ + 1]
    BY <2>1, <2>3, PublicarContagem
  <2> QED
    BY <1>9, <2>2, <2>3 DEF PublicarAbatida
<1>10. ASSUME NEW w \in Trabalhador, Reconhecer(w)
       PROVE  Tese
  <2>1. UNCHANGED <<Respostas(n), Decisoes(n), fila, emissoes, incertas>>
    BY <1>10 DEF Reconhecer, FimDaTentativa, respostas, dbVars, Respostas, Decisoes
  <2>2. Ativos(n)' \subseteq Ativos(n) /\ Indecisos(n)' \subseteq Indecisos(n)
    BY <1>10, MarcasAssumption DEF Reconhecer, SoltarNota, Ativos, Indecisos
  <2> QED
    BY <1>a, <2>1, <2>2 DEF PassaResposta, PassaDecisao, Passa
<1>11. ASSUME NEW w \in Trabalhador, TentarDeNovo(w)
       PROVE  Tese
  BY <1>0, <1>11, AndarContagem DEF TentarDeNovo, FimDaTentativa, respostas, dbVars, Passos
<1>12. ASSUME NEW w \in Trabalhador, MoverParaErro(w)
       PROVE  Tese
  <2>1. /\ nota[w] \in Nota /\ pc[w] = "liberarErro" /\ nota'[w] = Nenhuma
        /\ \A v \in Trabalhador \ {w} : pc'[v] = pc[v] /\ nota'[v] = nota[v]
    BY <1>12 DEF MoverParaErro, SoltarNota
  <2>2. /\ erros' = [erros EXCEPT ![nota[w]] = @ + 1]
        /\ UNCHANGED <<fila, emissoes, incertas, debitos, abatidas, recusas, desistencias>>
    BY <1>12 DEF MoverParaErro, FimDaTentativa, respostas, dbVars
  <2> QED
    BY <1>0, <2>1, <2>2, ResponderContagem
<1>13. ASSUME NEW w \in Trabalhador, Queda(w)
       PROVE  Tese
  <2>1. /\ UNCHANGED <<Respostas(n), Decisoes(n), emissoes, incertas, falhas>>
        /\ quedas' = quedas + 1
    BY <1>13 DEF Queda, respostas, dbVars, Respostas, Decisoes
  <2>2. Ativos(n)' \subseteq Ativos(n) /\ Indecisos(n)' \subseteq Indecisos(n)
    BY <1>13, MarcasAssumption DEF Queda, SoltarNota, Ativos, Indecisos
  <2>3. fila'[n] <= fila[n] + 1 /\ fila[n] \in Nat /\ fila'[n] \in Nat
    BY <1>13 DEF Queda, FilaTipo
  <2>4. /\ Respostas(n) \in Nat /\ Decisoes(n) \in Nat
        /\ emissoes[n] \in Nat /\ falhas \in Nat /\ quedas \in Nat /\ incertas[n] \in Nat
    BY DEF Respostas, Decisoes, FilaTipo, DbTipo, LimiteTipo
  <2> QED
    BY <2>1, <2>2, <2>3, <2>4 DEF PassaResposta, PassaDecisao, Passa, Orcamento
<1>14. ASSUME NEW p \in Produto, Expirar(p) \/ PerderTrava(p)
       PROVE  Tese
  BY <1>1, <1>14 DEF Expirar, PerderTrava, filaVars, dbVars, localVars
<1>15. ASSUME UNCHANGED vars
       PROVE  Tese
  BY <1>1, <1>15 DEF vars, filaVars, dbVars, localVars
<1> HIDE DEF Tese, TypeOK
<1>16. Tese
  BY <1>2, <1>3, <1>4, <1>5, <1>6, <1>7, <1>8, <1>9, <1>10, <1>11, <1>12, <1>13, <1>14, <1>15
  DEF Next, Consumo, Passo, Ambiente
<1> QED
  BY <1>16 DEF Tese

LEMMA PassoContagem == TypeOK /\ TypeOK' /\ ContagemInv /\ [Next]_vars => ContagemInv'
<1> SUFFICES ASSUME TypeOK, TypeOK', ContagemInv, [Next]_vars, NEW n \in Nota
             PROVE  /\ Respostas(n)' + fila'[n] + Cardinality(Ativos(n)')
                         <= Orcamento(n)'
                    /\ Decisoes(n)' + fila'[n] + Cardinality(Indecisos(n)')
                         <= emissoes'[n] + falhas' + quedas'
  BY DEF ContagemInv, RespostasInv, DecisoesInv
<1>1. /\ Respostas(n) \in Nat /\ Respostas(n)' \in Nat
      /\ Decisoes(n) \in Nat /\ Decisoes(n)' \in Nat
      /\ fila[n] \in Nat /\ fila'[n] \in Nat
      /\ Orcamento(n) \in Nat /\ Orcamento(n)' \in Nat
      /\ emissoes[n] + falhas + quedas \in Nat /\ emissoes'[n] + falhas' + quedas' \in Nat
  BY DEF TypeOK, FilaTipo, DbTipo, LimiteTipo, Respostas, Decisoes, Orcamento
<1>2. /\ Ativos(n) \in SUBSET Trabalhador /\ Ativos(n)' \in SUBSET Trabalhador
      /\ Indecisos(n) \in SUBSET Trabalhador /\ Indecisos(n)' \in SUBSET Trabalhador
  BY DEF Ativos, Indecisos
<1>3. PassaResposta(n) /\ PassaDecisao(n)
  BY PassoPassa
<1>4. /\ Respostas(n) + fila[n] + Cardinality(Ativos(n)) <= Orcamento(n)
      /\ Decisoes(n) + fila[n] + Cardinality(Indecisos(n)) <= emissoes[n] + falhas + quedas
  BY DEF ContagemInv, RespostasInv, DecisoesInv
<1>5. Respostas(n)' + fila'[n] + Cardinality(Ativos(n)') <= Orcamento(n)'
  BY <1>1, <1>2, <1>3, <1>4, TotalFica DEF PassaResposta
<1>6. Decisoes(n)' + fila'[n] + Cardinality(Indecisos(n)') <= emissoes'[n] + falhas' + quedas'
  BY <1>1, <1>2, <1>3, <1>4, TotalFica DEF PassaDecisao
<1> QED
  BY <1>5, <1>6

LEMMA ContagemCorreta == Spec => []ContagemInv
  BY TipoCorreto, InitContagem, PassoContagem, PTL DEF Spec

\* Whatever calls fail and however often Consume is run again, each message gets
\* one answer at most; only a crash, or a publication that threw after RabbitMQ had
\* taken the answer, makes a later attempt answer once more.
THEOREM RespostasCorretas == Spec => []RespostasContadas
<1>1. TypeOK /\ ContagemInv => RespostasContadas
  <2> SUFFICES ASSUME TypeOK, ContagemInv, NEW n \in Nota
               PROVE  Respostas(n) <= Orcamento(n)
    BY DEF RespostasContadas, Respostas, Orcamento
  <2>1. Respostas(n) + fila[n] + Cardinality(Ativos(n)) <= Orcamento(n)
    BY DEF ContagemInv, RespostasInv
  <2>2. Cardinality(Ativos(n)) \in Nat
    BY TrabalhadorAssumption, FS_Subset, FS_CardinalityType DEF Ativos
  <2>3. Respostas(n) \in Nat /\ fila[n] \in Nat /\ Orcamento(n) \in Nat
    BY DEF TypeOK, FilaTipo, LimiteTipo, Respostas, Orcamento
  <2> QED
    BY <2>1, <2>2, <2>3
<1> QED
  BY TipoCorreto, ContagemCorreta, <1>1, PTL

\* For any number of workers a message leads to one decision, and to one more
\* only for a failing call or a crash: no nota is debited and refused, or debited
\* twice, at no cost.
THEOREM DecisoesCorretas == Spec => []DecisoesContadas
<1>1. TypeOK /\ ContagemInv => DecisoesContadas
  <2> SUFFICES ASSUME TypeOK, ContagemInv, NEW n \in Nota
               PROVE  Decisoes(n) <= emissoes[n] + falhas + quedas
    BY DEF DecisoesContadas, Decisoes
  <2>1. Decisoes(n) + fila[n] + Cardinality(Indecisos(n)) <= emissoes[n] + falhas + quedas
    BY DEF ContagemInv, DecisoesInv
  <2>2. Cardinality(Indecisos(n)) \in Nat
    BY TrabalhadorAssumption, FS_Subset, FS_CardinalityType DEF Indecisos
  <2>3. Decisoes(n) \in Nat /\ fila[n] \in Nat /\ emissoes[n] + falhas + quedas \in Nat
    BY DEF TypeOK, FilaTipo, DbTipo, LimiteTipo, Decisoes
  <2> QED
    BY <2>1, <2>2, <2>3
<1> QED
  BY TipoCorreto, ContagemCorreta, <1>1, PTL

-----------------------------------------------------------------------------
(* No deadlock *)

\* Something finite and nonempty that is ranked by naturals has a highest element.
LEMMA Maximo ==
  ASSUME NEW S, IsFiniteSet(S), S # {}, NEW f \in [S -> Nat]
  PROVE  \E x \in S : \A y \in S : f[y] <= f[x]
<1> DEFINE Acima(x) == {y \in S : f[y] > f[x]}
           Alturas == {Cardinality(Acima(x)) : x \in S}
<1>1. ASSUME NEW x \in S
      PROVE  IsFiniteSet(Acima(x)) /\ Cardinality(Acima(x)) \in Nat
  BY FS_Subset, FS_CardinalityType
<1>2. Alturas \subseteq Nat /\ Alturas # {}
  BY <1>1
<1> HIDE DEF Alturas
<1>3. PICK a \in Alturas : \A b \in Alturas : <<b, a>> \notin OpToRel(<, Nat)
  BY <1>2, WFMin, NatLessThanWellFounded, Zenon
<1>4. \A b \in Alturas : ~(b < a)
  BY <1>2, <1>3, Zenon DEF OpToRel
<1>5. PICK x \in S : a = Cardinality(Acima(x))
  BY DEF Alturas
<1>6. ASSUME NEW y \in S, f[y] > f[x]
      PROVE  FALSE
  <2>1. Acima(y) \subseteq Acima(x) /\ y \in Acima(x) /\ y \notin Acima(y)
    BY <1>6
  <2>2. Cardinality(Acima(y)) < Cardinality(Acima(x))
    BY <1>1, <2>1, FS_Subset
  <2>3. Cardinality(Acima(y)) \in Alturas
    BY DEF Alturas
  <2> QED
    BY <1>4, <1>5, <2>2, <2>3
<1> QED
  BY <1>6

\* A worker that waits holds only keys below the one it waits for, so whoever it
\* waits for, if waiting too, waits for a higher one.
LEMMA EsperaSobe ==
  ASSUME TypeOK, DonoSabe, OrdemDasTravas,
         NEW w \in Trabalhador, NEW v \in Trabalhador, NEW p \in Produto, NEW q \in Produto,
         ProximaChave(w, p), dono[p] = v, pc[v] = "adquirir", ProximaChave(v, q)
  PROVE  p < q
  BY DEF DonoSabe, OrdemDasTravas, ProximaChave

\* The one of them that waits for the highest key waits for none of the set; and
\* whoever holds a lock is at work, since it goes idle without any.
THEOREM EsperaCorreta == Spec => []SemImpasse
<1>1. ASSUME TypeOK, DonoSabe, PassoInv
      PROVE  SemImpasse
  <2> SUFFICES ASSUME NEW ws \in SUBSET Trabalhador, ws # {},
                      \A w \in ws : \E v \in Trabalhador \cup {Orfa} : EsperaPor(w, v),
                      \A w \in ws : ~EsperaPor(w, Orfa)
               PROVE  \E w \in ws : \E v \in Trabalhador \ ws :
                         EsperaPor(w, v) /\ pc[v] # "ocioso"
    BY DEF SemImpasse
  <2> DEFINE chave == [w \in ws |->
                         CHOOSE p \in Produto : ProximaChave(w, p) /\ dono[p] \in Trabalhador]
  <2>1. ASSUME NEW w \in ws
        PROVE  /\ chave[w] \in Produto /\ chave[w] \in Nat
               /\ ProximaChave(w, chave[w]) /\ dono[chave[w]] \in Trabalhador
               /\ pc[w] = "adquirir"
    <3>1. PICK v \in Trabalhador : EsperaPor(w, v)
      OBVIOUS
    <3>2. pc[w] = "adquirir" /\ \E p \in Produto : ProximaChave(w, p) /\ dono[p] \in Trabalhador
      BY <3>1 DEF EsperaPor
    <3>3. chave[w] = CHOOSE p \in Produto : ProximaChave(w, p) /\ dono[p] \in Trabalhador
      OBVIOUS
    <3> HIDE DEF chave
    <3> QED
      BY <3>2, <3>3, ConstantesAssumption
  <2>2. IsFiniteSet(ws) /\ chave \in [ws -> Nat]
    BY <2>1, TrabalhadorAssumption, FS_Subset
  <2> HIDE DEF chave
  <2>3. PICK w \in ws : \A v \in ws : chave[v] <= chave[w]
    BY <2>2, Maximo
  <2>4. PICK v \in Trabalhador : v = dono[chave[w]]
    BY <2>1
  <2>5. EsperaPor(w, v)
    BY <2>1, <2>4 DEF EsperaPor
  <2>6. v \notin ws
    <3> SUFFICES ASSUME v \in ws
                 PROVE  FALSE
      OBVIOUS
    <3>1. chave[w] < chave[v]
      BY <1>1, <2>1, <2>4, EsperaSobe DEF PassoInv
    <3>2. chave[v] <= chave[w] /\ chave[w] \in Nat /\ chave[v] \in Nat
      BY <2>1, <2>3
    <3> QED
      BY <3>1, <3>2
  <2>7. chave[w] \in travas[v]
    BY <1>1, <2>1, <2>4 DEF DonoSabe
  <2>8. pc[v] # "ocioso"
    BY <1>1, <2>7 DEF PassoInv, TravasDoPasso
  <2> QED
    BY <2>5, <2>6, <2>8
<1>2. Spec => []DonoSabe
  BY TipoCorreto, InitDono, PassoDono, PTL DEF Spec
<1> QED
  BY InitTipo, PassoTipo, InitPasso, PassoPasso, TipoCorreto, <1>1, <1>2, PTL DEF Spec
=============================================================================
