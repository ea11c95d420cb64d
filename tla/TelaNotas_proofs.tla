-------------------------- MODULE TelaNotas_proofs --------------------------
(***************************************************************************)
(* Proofs about TelaNotas: no order of print answers, loads and pushes     *)
(* shows a final status that nobody announced, and a screen that differs   *)
(* from the database missed a push or was given an older answer.           *)
(***************************************************************************)
EXTENDS TelaNotas, ImpressaoNota_proofs

USE DEF SemErro, ComErro

\* What is known of faturamento-api whatever the screen does.
ServidorInv == TypeOK /\ ConsumoInv /\ StatusJustificado /\ CompensacaoInv

\* A call of the screen that the network lost is no step of faturamento-api: it
\* only spends one of the failures.
FalhaDeRede ==
    /\ errosFeitos' = errosFeitos + 1
    /\ UNCHANGED <<status, pedido, publicacoes, respostaVars, consumoVars, quedasFeitas,
                   historia>>

\* faturamento-api, seen from a step of the screen.
LEMMA PassoNoServidor ==
  [TelaNext]_telaVars => [Etapa]_vars \/ FalhaDeRede
<1> SUFFICES ASSUME [TelaNext]_telaVars
             PROVE  [Etapa]_vars \/ FalhaDeRede
  OBVIOUS
<1>1. CASE PassoServidor
  BY <1>1 DEF PassoServidor, Next, Etapa
<1>2. ASSUME NEW k \in Carga, FalharCarga(k)
      PROVE  FalhaDeRede
  BY <1>2 DEF FalharCarga, FalhaDeRede
<1>3. ASSUME NEW r \in DaTela, RespostaErro(r)
      PROVE  UNCHANGED vars \/ FalhaDeRede
  BY <1>3 DEF RespostaErro, FalhaDeRede, vars
<1>4. ASSUME \/ CarregarNotas \/ Recarregar \/ ReceberAviso \/ Esquecer \/ Conectar \/ Desconectar
             \/ \E k \in Carga : LerBanco(k) \/ AplicarCarga(k)
             \/ \E r \in DaTela : Imprimir(r) \/ RespostaOk(r)
             \/ \E o \in Origem, n \in Nota : Notificar(o, n)
             \/ UNCHANGED telaVars
      PROVE  UNCHANGED vars
  BY <1>4 DEF CarregarNotas, Recarregar, ReceberAviso, Esquecer, Conectar, Desconectar,
     LerBanco, AplicarCarga, Imprimir, RespostaOk, Notificar, telaVars, servidorVars
<1> QED
  BY <1>1, <1>2, <1>3, <1>4 DEF TelaNext

LEMMA RedeNaoMuda == ServidorInv /\ FalhaDeRede => ServidorInv'
<1> SUFFICES ASSUME ServidorInv, FalhaDeRede
             PROVE  ServidorInv'
  OBVIOUS
<1>1. UNCHANGED <<status, pedido, publicacoes, abatidas, falhas, erros, compensacoes,
                  recebidas, mao, compensar, conexao, quedasFeitas, perdidas, mudas,
                  atrasadas>>
  BY DEF FalhaDeRede, respostaVars, consumoVars, historia
<1>2. errosFeitos' \in Nat
  BY DEF ServidorInv, TypeOK, FalhaDeRede
<1>3. TypeOK'
  BY <1>1, <1>2 DEF ServidorInv, TypeOK
<1>4. ConsumoInv'
  BY <1>1 DEF ServidorInv, ConsumoInv, Enviadas
<1>5. StatusJustificado'
  BY <1>1 DEF ServidorInv, StatusJustificado
<1>6. CompensacaoInv'
  BY <1>1 DEF ServidorInv, CompensacaoInv
<1> QED
  BY <1>3, <1>4, <1>5, <1>6 DEF ServidorInv

LEMMA InitServidor == Init => ServidorInv
  BY InitTipo, InitConsumo, InitStatus, InitCompensacao DEF ServidorInv

LEMMA PassoServidorInv == ServidorInv /\ [TelaNext]_telaVars => ServidorInv'
  BY PassoNoServidor, RedeNaoMuda, PassoTipo, PassoConsumo, PassoStatus, PassoCompensacao
  DEF ServidorInv

-----------------------------------------------------------------------------
(* Types *)

Aviso == [nota : Nota, status : Final, chave : Chave]

LEMMA FinalDeOrigem ==
  ASSUME NEW o \in Origem
  PROVE  StatusFinal(o) \in Final
  BY DEF StatusFinal, Final

\* A push in this state: what it says and what it does to the way to the browser.
LEMMA AvisoNovo ==
  ASSUME TypeOK, TelaTypeOK, NEW o \in Origem, NEW n \in Nota, Notificar(o, n)
  PROVE  \E aviso \in Aviso :
            /\ aviso.nota = n /\ aviso.status = StatusFinal(o) /\ aviso.chave[2] = n
            /\ \/ /\ canal' \in {canal \o <<aviso>>, canal \o <<aviso, aviso>>}
                  /\ cegas' = cegas
               \/ canal' = canal /\ cegas' = cegas \cup {n}
<1>1. PICK k \in ChavesPossiveis(o, n) :
        LET aviso == [nota |-> n, status |-> StatusFinal(o), chave |-> k] IN
        IF conectado
        THEN /\ canal' = canal \o (IF o = "erro" THEN <<aviso, aviso>> ELSE <<aviso>>)
             /\ UNCHANGED cegas
        ELSE cegas' = cegas \cup {n} /\ UNCHANGED canal
  BY DEF Notificar
<1>2. k \in Chave /\ k[2] = n
  <2>1. publicacoes[n] \in Nat /\ notificadas[o][n] \in Nat
    BY DEF TypeOK, TelaTypeOK
  <2>2. CASE o \in {"compensacao", "erro"}
    <3>1. PICK e \in 1..publicacoes[n] : k = <<"erro", n, e>>
      BY <1>1, <2>2 DEF ChavesPossiveis
    <3> QED
      BY <2>1, <3>1 DEF Chave, Origem
  <2>3. CASE o \notin {"compensacao", "erro"}
    <3>1. k = <<o, n, notificadas[o][n]>>
      BY <1>1, <2>3 DEF ChavesPossiveis
    <3> QED
      BY <2>1, <3>1 DEF Chave
  <2> QED
    BY <2>2, <2>3
<1> DEFINE aviso == [nota |-> n, status |-> StatusFinal(o), chave |-> k]
<1>3. aviso \in Aviso /\ aviso.nota = n /\ aviso.status = StatusFinal(o) /\ aviso.chave = k
  BY <1>2, FinalDeOrigem DEF Aviso
<1>4. \/ canal' \in {canal \o <<aviso>>, canal \o <<aviso, aviso>>} /\ cegas' = cegas
      \/ canal' = canal /\ cegas' = cegas \cup {n}
  BY <1>1
<1> HIDE DEF aviso
<1> QED
  BY <1>2, <1>3, <1>4

LEMMA InitTela == TelaInit => TelaTypeOK
<1> SUFFICES ASSUME TelaInit
             PROVE  TelaTypeOK
  OBVIOUS
<1>1. canal \in Seq(Aviso)
  BY DEF TelaInit
<1> QED
  BY <1>1 DEF TelaInit, TelaTypeOK, Aviso, Chave, Final, Status

LEMMA PassoTela == TypeOK /\ TelaTypeOK /\ [TelaNext]_telaVars => TelaTypeOK'
<1> SUFFICES ASSUME TypeOK, TelaTypeOK, [TelaNext]_telaVars
             PROVE  TelaTypeOK'
  OBVIOUS
<1>0. /\ status \in [Nota -> Status] /\ Alvo \in [Pedido -> Nota]
      /\ Final \subseteq Status /\ EmProcessamento \in Status
  BY AlvoAssumption DEF TypeOK, Status, Final
<1> USE DaTelaAssumption DEF TelaTypeOK
<1>1. CASE UNCHANGED <<tela, httpVars, sinalVars, telaHistoria>>
  BY <1>1 DEF httpVars, sinalVars, telaHistoria
<1>2. CASE CarregarNotas \/ Recarregar
  <2>1. cargas' \in [Carga -> {Parada, Pedida} \cup [Nota -> Status]]
    BY <1>2 DEF CarregarNotas, Recarregar, NovaCarga
  <2>2. aberturas' \in Nat /\ recargas' \in Nat
    BY <1>2 DEF CarregarNotas, Recarregar
  <2>3. UNCHANGED <<tela, envio, imprimindo, sinalVars, telaHistoria>>
    BY <1>2 DEF CarregarNotas, Recarregar
  <2> QED
    BY <2>1, <2>2, <2>3 DEF sinalVars, telaHistoria
<1>3. ASSUME NEW k \in Carga, LerBanco(k)
      PROVE  TelaTypeOK'
  BY <1>0, <1>3 DEF LerBanco, sinalVars, telaHistoria
<1>4. ASSUME NEW k \in Carga, AplicarCarga(k)
      PROVE  TelaTypeOK'
  <2>1. tela' \in [Nota -> Status \cup {Ausente}]
    BY <1>4 DEF AplicarCarga
  <2> QED
    BY <1>4, <2>1 DEF AplicarCarga, NotarAntigas, sinalVars
<1>5. ASSUME NEW k \in Carga, FalharCarga(k)
      PROVE  TelaTypeOK'
  BY <1>5 DEF FalharCarga, sinalVars, telaHistoria
<1>6. ASSUME NEW r \in DaTela, Imprimir(r)
      PROVE  TelaTypeOK'
  BY <1>0, <1>6 DEF Imprimir, AtualizarStatusNota, sinalVars, telaHistoria
<1>7. ASSUME NEW r \in DaTela, RespostaOk(r)
      PROVE  TelaTypeOK'
  <2>1. tela' \in [Nota -> Status \cup {Ausente}]
    BY <1>0, <1>7 DEF RespostaOk, AtualizarStatusNota
  <2>2. antigas' \subseteq Nota
    BY <1>7 DEF RespostaOk, NotarAntigas
  <2> QED
    BY <1>7, <2>1, <2>2 DEF RespostaOk, sinalVars
<1>8. ASSUME NEW r \in DaTela, RespostaErro(r)
      PROVE  TelaTypeOK'
  BY <1>8 DEF RespostaErro, sinalVars, telaHistoria
<1>9. ASSUME NEW o \in Origem, NEW n \in Nota, Notificar(o, n)
      PROVE  TelaTypeOK'
  <2>1. PICK aviso \in Aviso :
          \/ canal' \in {canal \o <<aviso>>, canal \o <<aviso, aviso>>} /\ cegas' = cegas
          \/ canal' = canal /\ cegas' = cegas \cup {n}
    BY <1>9, AvisoNovo
  <2>2. canal \in Seq(Aviso)
    BY DEF Aviso
  <2>3. canal \o <<aviso>> \in Seq(Aviso) /\ canal \o <<aviso, aviso>> \in Seq(Aviso)
    BY <2>1, <2>2
  <2>4. canal' \in Seq(Aviso)
    BY <2>1, <2>2, <2>3
  <2>5. cegas' \subseteq Nota /\ notificadas' \in [Origem -> [Nota -> Nat]]
    BY <1>9, <2>1 DEF Notificar
  <2>6. UNCHANGED <<tela, httpVars, conectado, processados, desconexoes, avisada, antigas>>
    BY <1>9 DEF Notificar
  <2> QED
    BY <2>4, <2>5, <2>6 DEF Aviso, httpVars
<1>10. CASE ReceberAviso
  <2> DEFINE a == Head(canal)
  <2>1. canal \in Seq(Aviso) /\ canal # <<>>
    BY <1>10 DEF ReceberAviso, Aviso
  <2>2. a \in Aviso /\ Tail(canal) \in Seq(Aviso)
    BY <2>1
  <2>3. a.nota \in Nota /\ a.status \in Final /\ a.chave \in Chave
    BY <2>2 DEF Aviso
  <2> HIDE DEF a
  <2>4. canal' \in Seq(Aviso)
    BY <1>10, <2>2 DEF ReceberAviso
  <2>5. /\ tela' \in [Nota -> Status \cup {Ausente}] /\ recargas' \in Nat
        /\ processados' \subseteq Chave /\ avisada' \in [Nota -> Final \cup {Ausente}]
    <3>1. CASE UNCHANGED <<tela, recargas, processados, avisada>>
      BY <3>1
    <3>2. CASE /\ processados' = processados \cup {a.chave}
               /\ AtualizarStatusNota(a.nota, a.status)
               /\ avisada' = [avisada EXCEPT ![a.nota] = a.status]
               /\ recargas' = recargas + 1
      BY <1>0, <2>3, <3>2 DEF AtualizarStatusNota
    <3> QED
      BY <1>10, <3>1, <3>2 DEF ReceberAviso, a
  <2>6. UNCHANGED <<envio, imprimindo, cargas, aberturas, conectado, notificadas,
                    desconexoes, cegas, antigas>>
    BY <1>10 DEF ReceberAviso
  <2> QED
    BY <2>4, <2>5, <2>6 DEF Aviso
<1>11. CASE Esquecer
  BY <1>11 DEF Esquecer, httpVars, telaHistoria
<1>12. CASE Conectar
  BY <1>12 DEF Conectar, httpVars, telaHistoria
<1>13. CASE Desconectar
  <2>1. canal \in Seq(Aviso)
    BY DEF Aviso
  <2>2. \A i \in DOMAIN canal : canal[i] \in Aviso
    BY <2>1
  <2>3. {canal[i].nota : i \in DOMAIN canal} \subseteq Nota
    BY <2>2 DEF Aviso
  <2>4. canal' \in Seq(Aviso)
    BY <1>13 DEF Desconectar
  <2>5. /\ cegas' \subseteq Nota
        /\ conectado' \in BOOLEAN
        /\ desconexoes' \in Nat
    <3>1. cegas' = cegas \cup {canal[i].nota : i \in DOMAIN canal}
      BY <1>13 DEF Desconectar
    <3>2. cegas' \subseteq Nota
      BY <2>3, <3>1
    <3>3. conectado' = FALSE
      BY <1>13 DEF Desconectar
    <3>4. conectado' \in BOOLEAN
      BY <3>3, Zenon
    <3>5. desconexoes' \in Nat
      BY <1>13 DEF Desconectar
    <3> QED
      BY <3>2, <3>4, <3>5, Zenon
  <2>6. UNCHANGED <<tela, httpVars, notificadas, processados, avisada, antigas>>
    BY <1>13 DEF Desconectar
  <2> QED
    BY <2>4, <2>5, <2>6 DEF httpVars, Aviso
<1>14. CASE UNCHANGED telaVars
  BY <1>1, <1>14 DEF telaVars
<1> HIDE DEF TelaTypeOK
<1> QED
  BY <1>1, <1>2, <1>3, <1>4, <1>5, <1>6, <1>7, <1>8, <1>9, <1>10, <1>11, <1>12, <1>13, <1>14
  DEF TelaNext, PassoServidor

\* Every list, load and push holds only notas and statuses that exist.
THEOREM TelaTipoCorreto == TelaSpec => []TelaTypeOK
<1>1. TelaInit => Init
  BY DEF TelaInit
<1>2. ServidorInv => TypeOK
  BY DEF ServidorInv
<1> QED
  BY InitServidor, PassoServidorInv, InitTela, PassoTela, <1>1, <1>2, PTL DEF TelaSpec

-----------------------------------------------------------------------------
(* Final statuses *)

\* Some answer gave the final status s to n.
Anunciado(n, s) ==
    /\ s = Fechada => abatidas[n] > 0
    /\ s = Cancelada => falhas[n] + compensacoes[n] + erros[n] > 0

\* Wherever a status of n is on its way to the screen, it was announced.
AnuncioInv ==
    /\ TelaJustificada
    /\ \A k \in Carga, n \in Nota : Anunciado(n, cargas[k][n])
    /\ \A i \in DOMAIN canal : Anunciado(canal[i].nota, canal[i].status)

\* What is in a queue of the gateway announces the status that it will push.
LEMMA OrigemAnuncia ==
  ASSUME NEW o \in Origem, NEW n \in Nota, Anunciadas(o, n) > 0,
         abatidas[n] \in Nat, falhas[n] \in Nat, compensacoes[n] \in Nat, erros[n] \in Nat
  PROVE  Anunciado(n, StatusFinal(o))
<1>1. CASE o = "confirmacao"
  BY <1>1 DEF Anunciado, StatusFinal, Anunciadas, Fechada, Cancelada
<1>2. CASE o = "falha"
  BY <1>2 DEF Anunciado, StatusFinal, Anunciadas, Fechada, Cancelada
<1>3. CASE o = "compensacao"
  BY <1>3 DEF Anunciado, StatusFinal, Anunciadas, Fechada, Cancelada
<1>4. CASE o = "erro"
  BY <1>4 DEF Anunciado, StatusFinal, Anunciadas, Fechada, Cancelada
<1> QED
  BY <1>1, <1>2, <1>3, <1>4 DEF Origem

\* Answers are never taken back.
LEMMA AnuncioFica ==
  ASSUME TypeOK, [TelaNext]_telaVars, NEW n \in Nota, NEW s, Anunciado(n, s)
  PROVE  Anunciado(n, s)'
<1>1. /\ abatidas[n] \in Nat /\ falhas[n] \in Nat /\ compensacoes[n] \in Nat /\ erros[n] \in Nat
  BY DEF TypeOK
<1>2. CASE UNCHANGED <<respostaVars, compensacoes>>
  BY <1>2 DEF Anunciado, respostaVars
<1>3. ASSUME NEW m \in Nota, EstoqueResponder(m)
      PROVE  Anunciado(n, s)'
  <2>1. /\ abatidas' \in [Nota -> Nat] /\ falhas' \in [Nota -> Nat] /\ erros' \in [Nota -> Nat]
        /\ abatidas'[n] >= abatidas[n] /\ falhas'[n] >= falhas[n] /\ erros'[n] >= erros[n]
    BY <1>3, RespostaTipo
  <2>2. compensacoes' = compensacoes
    BY <1>3 DEF EstoqueResponder, consumoVars
  <2> QED
    BY <1>1, <2>1, <2>2 DEF Anunciado
<1>4. ASSUME PublicarCompensacao
      PROVE  Anunciado(n, s)'
  <2>1. UNCHANGED respostaVars
    BY <1>4 DEF PublicarCompensacao
  <2>2. compensacoes'[n] = compensacoes[n] \/ compensacoes'[n] = compensacoes[n] + 1
    BY <1>4 DEF PublicarCompensacao, Mais, TypeOK
  <2> QED
    BY <1>1, <2>1, <2>2 DEF Anunciado, respostaVars
<1>5. ASSUME Etapa, ~PublicarCompensacao, ~\E m \in Nota : EstoqueResponder(m)
      PROVE  UNCHANGED <<respostaVars, compensacoes>>
  BY <1>5 DEF Etapa, Passo, Validar, AtualizarStatus, Publicar, Receber, Ligar, ConexaoCai,
     Aplicar, Queda, consumoVars
<1>6. FalhaDeRede \/ UNCHANGED vars => UNCHANGED <<respostaVars, compensacoes>>
  BY DEF FalhaDeRede, vars, consumoVars
<1> QED
  BY <1>2, <1>3, <1>4, <1>5, <1>6, PassoNoServidor

\* What the database says was announced.
LEMMA BancoAnunciado ==
  ASSUME ServidorInv, NEW n \in Nota
  PROVE  Anunciado(n, status[n])
<1>1. \A c \in Consumidor : recebidas[c][n] <= Enviadas(c, n) /\ recebidas[c][n] \in Nat
  BY DEF ServidorInv, ConsumoInv, TypeOK
<1>2. /\ recebidas["confirmacao"][n] <= abatidas[n]
      /\ recebidas["falha"][n] <= falhas[n] + compensacoes[n]
      /\ recebidas["erro"][n] <= erros[n]
  BY <1>1 DEF Enviadas, Consumidor
<1>3. /\ recebidas["confirmacao"][n] \in Nat /\ recebidas["falha"][n] \in Nat
      /\ recebidas["erro"][n] \in Nat /\ abatidas[n] \in Nat
      /\ falhas[n] \in Nat /\ compensacoes[n] \in Nat /\ erros[n] \in Nat
  BY DEF ServidorInv, TypeOK, Consumidor
<1>4. /\ status[n] = Fechada => recebidas["confirmacao"][n] > 0
      /\ status[n] = Cancelada => recebidas["falha"][n] + recebidas["erro"][n] > 0
  BY DEF ServidorInv, StatusJustificado
<1> QED
  BY <1>2, <1>3, <1>4 DEF Anunciado

LEMMA InitAnuncio == TelaInit => AnuncioInv
  BY DEF TelaInit, AnuncioInv, TelaJustificada, Anunciado, Parada, Ausente, Fechada, Cancelada

LEMMA PassoAnuncio ==
  ServidorInv /\ TelaTypeOK /\ AnuncioInv /\ [TelaNext]_telaVars => AnuncioInv'
<1> SUFFICES ASSUME ServidorInv, TelaTypeOK, AnuncioInv, [TelaNext]_telaVars
             PROVE  AnuncioInv'
  OBVIOUS
<1>0. /\ \A n \in Nota : Anunciado(n, tela[n])
      /\ \A k \in Carga, n \in Nota : Anunciado(n, cargas[k][n])
      /\ \A i \in DOMAIN canal : Anunciado(canal[i].nota, canal[i].status)
      /\ \A n \in Nota : Anunciado(n, status[n])
      /\ \A n \in Nota, s \in {Aberta, EmProcessamento, Ausente, "pedida", "parada"} : Anunciado(n, s)
  <2>1. \A n \in Nota, s \in {Aberta, EmProcessamento, Ausente, "pedida", "parada"} : Anunciado(n, s)
    BY DEF Anunciado, Aberta, EmProcessamento, Ausente, Fechada, Cancelada
  <2>2. \A n \in Nota : Anunciado(n, tela[n])
    BY DEF AnuncioInv, TelaJustificada, Anunciado
  <2> QED
    BY <2>1, <2>2, BancoAnunciado DEF AnuncioInv
<1>00. \A n \in Nota : \A s : Anunciado(n, s) => Anunciado(n, s)'
  BY AnuncioFica DEF ServidorInv
<1>01. /\ canal \in Seq(Aviso) /\ \A i \in DOMAIN canal : canal[i].nota \in Nota
  <2>1. canal \in Seq(Aviso)
    BY DEF TelaTypeOK, Aviso
  <2>2. \A i \in DOMAIN canal : canal[i] \in Aviso
    BY <2>1
  <2> QED
    BY <2>1, <2>2 DEF Aviso
\* What each of the three sources becomes is announced, so the invariant holds.
<1>1. ASSUME \A n \in Nota : Anunciado(n, tela'[n]),
             \A k \in Carga, n \in Nota : Anunciado(n, cargas'[k][n]),
             \A i \in DOMAIN canal' :
                canal'[i].nota \in Nota /\ Anunciado(canal'[i].nota, canal'[i].status)
      PROVE  AnuncioInv'
  <2>1. \A n \in Nota : Anunciado(n, tela[n])'
    BY <1>1, <1>00
  <2>2. \A k \in Carga, n \in Nota : Anunciado(n, cargas[k][n])'
    BY <1>1, <1>00
  <2>3. \A i \in DOMAIN canal' : Anunciado(canal[i].nota, canal[i].status)'
    BY <1>1, <1>00
  <2> QED
    BY <2>1, <2>2, <2>3 DEF AnuncioInv, TelaJustificada, Anunciado
<1> USE DEF TelaTypeOK
<1>2. CASE UNCHANGED <<tela, cargas, canal>>
  BY <1>0, <1>01, <1>1, <1>2
<1>3. CASE CarregarNotas \/ Recarregar
  <2>1. UNCHANGED <<tela, canal>>
    BY <1>3 DEF CarregarNotas, Recarregar, sinalVars
  <2>2. \E k \in Carga : cargas' = [cargas EXCEPT ![k] = Pedida]
    BY <1>3 DEF CarregarNotas, Recarregar, NovaCarga
  <2>3. \A k \in Carga, n \in Nota : cargas'[k][n] \in {cargas[k][n], "pedida"}
    BY <2>2 DEF Pedida
  <2> QED
    BY <1>0, <1>01, <1>1, <2>1, <2>3
<1>4. ASSUME NEW k \in Carga, LerBanco(k) \/ FalharCarga(k) \/ AplicarCarga(k)
      PROVE  AnuncioInv'
  <2>1. canal' = canal /\ tela' \in {tela, cargas[k]}
    BY <1>4 DEF LerBanco, FalharCarga, AplicarCarga, sinalVars
  <2>2. cargas' \in {[cargas EXCEPT ![k] = status], [cargas EXCEPT ![k] = Parada]}
    BY <1>4 DEF LerBanco, FalharCarga, AplicarCarga
  <2>3. \A j \in Carga, n \in Nota : cargas'[j][n] \in {cargas[j][n], status[n], "parada"}
    <3>1. /\ DOMAIN cargas = Carga
          /\ \A n \in Nota : Parada[n] = "parada"
      BY DEF Parada
    <3> QED
      BY <2>2, <3>1
  <2>4. \A n \in Nota : Anunciado(n, tela'[n])
    BY <1>0, <2>1
  <2> QED
    BY <1>0, <1>01, <1>1, <2>1, <2>3, <2>4
<1>5. ASSUME NEW r \in DaTela, Imprimir(r) \/ RespostaOk(r) \/ RespostaErro(r)
      PROVE  AnuncioInv'
  <2>1. UNCHANGED <<cargas, canal>>
    BY <1>5 DEF Imprimir, RespostaOk, RespostaErro, sinalVars
  <2>2. \A n \in Nota : tela'[n] \in {tela[n], EmProcessamento}
    BY <1>5 DEF Imprimir, RespostaOk, RespostaErro, AtualizarStatusNota
  <2> QED
    BY <1>0, <1>01, <1>1, <2>1, <2>2
<1>6. ASSUME NEW o \in Origem, NEW n \in Nota, Notificar(o, n)
      PROVE  AnuncioInv'
  <2>1. UNCHANGED <<tela, cargas>>
    BY <1>6 DEF Notificar, httpVars
  <2>2. /\ abatidas[n] \in Nat /\ falhas[n] \in Nat /\ compensacoes[n] \in Nat
        /\ erros[n] \in Nat /\ notificadas[o][n] \in Nat
    BY DEF ServidorInv, TypeOK
  <2>3. Anunciadas(o, n) > 0
    <3>1. notificadas[o][n] < Anunciadas(o, n)
      BY <1>6, Zenon DEF Notificar, NaFilaDoGateway
    <3>2. Anunciadas(o, n) \in Nat
      BY <2>2, Zenon DEF Anunciadas, Origem
    <3> HIDE DEF TelaTypeOK
    <3> QED
      BY <2>2, <3>1, <3>2
  <2>4. Anunciado(n, StatusFinal(o))
    <3> HIDE DEF TelaTypeOK
    <3> QED
      BY <2>2, <2>3, OrigemAnuncia
  <2>5. PICK aviso \in Aviso :
          /\ aviso.nota = n /\ aviso.status = StatusFinal(o)
          /\ canal' = canal \/ canal' = canal \o <<aviso>> \/ canal' = canal \o <<aviso, aviso>>
    <3> HIDE DEF TelaTypeOK
    <3>1. TypeOK
      BY DEF ServidorInv
    <3> QED
      BY <1>6, <3>1, AvisoNovo
  <2>6. \A i \in DOMAIN canal' : (i \in DOMAIN canal /\ canal'[i] = canal[i]) \/ canal'[i] = aviso
    <3>1. CASE canal' = canal
      BY <3>1
    <3>2. CASE canal' = canal \o <<aviso>>
      BY <1>01, <2>5, <3>2
    <3>3. CASE canal' = canal \o <<aviso, aviso>>
      BY <1>01, <2>5, <3>3
    <3> QED
      BY <2>5, <3>1, <3>2, <3>3
  <2> QED
    BY <1>0, <1>01, <1>1, <2>1, <2>4, <2>5, <2>6
<1>7. CASE ReceberAviso
  <2> DEFINE a == Head(canal)
  <2>1. canal # <<>> /\ canal' = Tail(canal) /\ cargas' = cargas
    BY <1>7 DEF ReceberAviso
  <2>2. 1 \in DOMAIN canal /\ a = canal[1]
    BY <1>01, <2>1
  <2>3. \A i \in DOMAIN canal' : i + 1 \in DOMAIN canal /\ canal'[i] = canal[i + 1]
    BY <1>01, <2>1
  <2>4. \A n \in Nota : tela'[n] = tela[n] \/ (n = a.nota /\ tela'[n] = a.status)
    BY <1>7, <1>01, <2>2 DEF ReceberAviso, AtualizarStatusNota
  <2>5. Anunciado(a.nota, a.status)
    BY <1>0, <2>2
  <2> HIDE DEF a
  <2> QED
    BY <1>0, <1>01, <1>1, <2>1, <2>3, <2>4, <2>5
<1>8. CASE Esquecer \/ Conectar
  BY <1>2, <1>8 DEF Esquecer, Conectar, httpVars
<1>9. CASE Desconectar
  BY <1>0, <1>1, <1>9 DEF Desconectar, httpVars
<1>10. CASE PassoServidor \/ UNCHANGED telaVars
  BY <1>2, <1>10 DEF PassoServidor, httpVars, sinalVars, telaVars
<1> QED
  BY <1>3, <1>4, <1>5, <1>6, <1>7, <1>8, <1>9, <1>10 DEF TelaNext

\* Whatever order print answers, loads and pushes arrive in, a final status on
\* the screen was given to that nota by an answer of estoque-api or by the
\* dead-letter consumer.
THEOREM TelaCorreta == TelaSpec => []TelaJustificada
<1>1. TelaInit => Init
  BY DEF TelaInit
<1>2. ServidorInv => TypeOK
  BY DEF ServidorInv
<1>3. AnuncioInv => TelaJustificada
  BY DEF AnuncioInv
<1> QED
  BY InitServidor, PassoServidorInv, InitTela, PassoTela, InitAnuncio, PassoAnuncio,
     <1>1, <1>2, <1>3, PTL DEF TelaSpec

-----------------------------------------------------------------------------
(* What the screen is left with *)

\* A push about n is on its way to this browser.
NoCanal(n) == \E i \in DOMAIN canal : canal[i].nota = n

\* A message of the gateway about n was shown, is on its way or was missed.
ChegaInv ==
    /\ \A i \in DOMAIN canal : canal[i].chave[2] = canal[i].nota
    /\ \A k \in processados : avisada[k[2]] # Ausente
    /\ \A o \in Origem, n \in Nota :
          notificadas[o][n] > 0 => n \in cegas \/ NoCanal(n) \/ avisada[n] # Ausente

LEMMA InitChega == TelaInit => ChegaInv
  BY DEF TelaInit, ChegaInv

LEMMA PassoChega ==
  TypeOK /\ TelaTypeOK /\ ChegaInv /\ [TelaNext]_telaVars => ChegaInv'
<1> SUFFICES ASSUME TypeOK, TelaTypeOK, ChegaInv, [TelaNext]_telaVars
             PROVE  ChegaInv'
  OBVIOUS
<1>1. /\ canal \in Seq(Aviso)
      /\ \A i \in DOMAIN canal : canal[i] \in Aviso /\ canal[i].nota \in Nota
  <2>1. canal \in Seq(Aviso)
    BY DEF TelaTypeOK, Aviso
  <2>2. \A i \in DOMAIN canal : canal[i] \in Aviso
    BY <2>1
  <2> QED
    BY <2>1, <2>2 DEF Aviso
<1>2. CASE UNCHANGED <<canal, processados, avisada, notificadas, cegas>>
  BY <1>2 DEF ChegaInv, NoCanal
<1>3. ASSUME NEW o \in Origem, NEW n \in Nota, Notificar(o, n)
      PROVE  ChegaInv'
  <2>1. PICK aviso \in Aviso :
          /\ aviso.nota = n /\ aviso.chave[2] = n
          /\ \/ /\ canal' \in {canal \o <<aviso>>, canal \o <<aviso, aviso>>}
                /\ cegas' = cegas
             \/ canal' = canal /\ cegas' = cegas \cup {n}
    BY <1>3, AvisoNovo
  <2>2. UNCHANGED <<processados, avisada>>
    BY <1>3 DEF Notificar
  <2>3. \/ canal' \in {canal \o <<aviso>>, canal \o <<aviso, aviso>>} /\ cegas' = cegas
        \/ canal' = canal /\ cegas' = cegas \cup {n}
    BY <2>1
  <2>10. canal' = canal \/ canal' = canal \o <<aviso>> \/ canal' = canal \o <<aviso, aviso>>
    BY <2>3
  <2>4. \A d \in Origem, m \in Nota :
           m # n => notificadas'[d][m] = notificadas[d][m]
    BY <1>3 DEF Notificar, TelaTypeOK
  <2>5. \A i \in DOMAIN canal' : (i \in DOMAIN canal /\ canal'[i] = canal[i]) \/ canal'[i] = aviso
    <3>1. CASE canal' = canal
      BY <3>1
    <3>2. CASE canal' = canal \o <<aviso>>
      BY <1>1, <2>1, <3>2
    <3>3. CASE canal' = canal \o <<aviso, aviso>>
      BY <1>1, <2>1, <3>3
    <3> QED
      BY <2>10, <3>1, <3>2, <3>3
  <2>6. \A i \in DOMAIN canal : i \in DOMAIN canal' /\ canal'[i] = canal[i]
    <3>1. CASE canal' = canal
      BY <3>1
    <3>2. CASE canal' = canal \o <<aviso>>
      BY <1>1, <2>1, <3>2
    <3>3. CASE canal' = canal \o <<aviso, aviso>>
      BY <1>1, <2>1, <3>3
    <3> QED
      BY <2>10, <3>1, <3>2, <3>3
  <2>7. n \in cegas' \/ \E i \in DOMAIN canal' : canal'[i].nota = n
    <3>1. CASE canal' = canal \o <<aviso>>
      <4>1. Len(canal) + 1 \in DOMAIN canal' /\ canal'[Len(canal) + 1] = aviso
        BY <1>1, <2>1, <3>1
      <4> QED
        BY <2>1, <4>1
    <3>2. CASE canal' = canal \o <<aviso, aviso>>
      <4>1. Len(canal) + 1 \in DOMAIN canal' /\ canal'[Len(canal) + 1] = aviso
        BY <1>1, <2>1, <3>2
      <4> QED
        BY <2>1, <4>1
    <3> QED
      BY <2>3, <3>1, <3>2
  <2>8. \A i \in DOMAIN canal' : canal'[i].chave[2] = canal'[i].nota
    BY <2>1, <2>5 DEF ChegaInv
  <2>9. \A d \in Origem, m \in Nota :
           notificadas'[d][m] > 0
           => m \in cegas' \/ (\E i \in DOMAIN canal' : canal'[i].nota = m) \/ avisada'[m] # Ausente
    <3> TAKE d \in Origem, m \in Nota
    <3>1. CASE m = n
      BY <2>7, <3>1
    <3>2. CASE m # n
      BY <2>2, <2>3, <2>4, <2>6, <3>2 DEF ChegaInv, NoCanal
    <3> QED
      BY <3>1, <3>2
  <2> QED
    BY <2>2, <2>8, <2>9 DEF ChegaInv, NoCanal
<1>4. CASE ReceberAviso
  <2> DEFINE a == Head(canal)
  <2>1. canal # <<>> /\ canal' = Tail(canal) /\ notificadas' = notificadas /\ cegas' = cegas
    BY <1>4 DEF ReceberAviso
  <2>2. 1 \in DOMAIN canal /\ a = canal[1] /\ a \in Aviso /\ a.nota \in Nota
    BY <1>1, <2>1
  <2>3. \A i \in DOMAIN canal' : i + 1 \in DOMAIN canal /\ canal'[i] = canal[i + 1]
    BY <1>1, <2>1
  <2>4. \A i \in DOMAIN canal : i = 1 \/ (i - 1 \in DOMAIN canal' /\ canal'[i - 1] = canal[i])
    BY <1>1, <2>1
  <2>5. a.chave[2] = a.nota
    BY <2>2 DEF ChegaInv
  <2>6. a.status \in Final
    BY <2>2 DEF Aviso
  <2>7. \/ /\ a.chave \in processados
           /\ UNCHANGED <<processados, avisada>>
        \/ /\ processados' = processados \cup {a.chave}
           /\ avisada' = [avisada EXCEPT ![a.nota] = a.status]
    BY <1>4 DEF ReceberAviso, IsDuplicateEvent
  <2> HIDE DEF a
  <2>8. \A m \in Nota : avisada[m] # Ausente => avisada'[m] # Ausente
    BY <2>6, <2>7 DEF Final, Fechada, Cancelada, Ausente, TelaTypeOK
  <2>9. avisada'[a.nota] # Ausente
    BY <2>2, <2>5, <2>6, <2>7 DEF Final, Fechada, Cancelada, Ausente, TelaTypeOK, ChegaInv
  <2>10. \A k \in processados' : avisada'[k[2]] # Ausente
    <3> SUFFICES ASSUME NEW k \in processados'
                 PROVE  avisada'[k[2]] # Ausente
      OBVIOUS
    <3>1. CASE k = a.chave
      BY <2>5, <2>9, <3>1
    <3>2. CASE k \in processados
      <4>1. k[2] \in Nota
        BY <3>2 DEF TelaTypeOK, Chave
      <4> QED
        BY <2>8, <3>2, <4>1 DEF ChegaInv
    <3> QED
      BY <2>7, <3>1, <3>2
  <2>11. \A o \in Origem, m \in Nota :
            notificadas'[o][m] > 0
            => m \in cegas' \/ (\E i \in DOMAIN canal' : canal'[i].nota = m) \/ avisada'[m] # Ausente
    <3> SUFFICES ASSUME NEW o \in Origem, NEW m \in Nota, notificadas[o][m] > 0,
                        m \notin cegas, avisada'[m] = Ausente
                 PROVE  \E i \in DOMAIN canal' : canal'[i].nota = m
      BY <2>1
    <3>1. avisada[m] = Ausente /\ m # a.nota
      BY <2>8, <2>9
    <3>2. PICK i \in DOMAIN canal : canal[i].nota = m
      BY <3>1 DEF ChegaInv, NoCanal
    <3>3. i - 1 \in DOMAIN canal' /\ canal'[i - 1] = canal[i]
      BY <2>2, <2>4, <3>1, <3>2
    <3> QED
      BY <3>2, <3>3
  <2>12. \A i \in DOMAIN canal' : canal'[i].chave[2] = canal'[i].nota
    BY <2>3 DEF ChegaInv
  <2> QED
    BY <2>10, <2>11, <2>12 DEF ChegaInv, NoCanal
<1>5. CASE Esquecer
  BY <1>5 DEF Esquecer, telaHistoria, ChegaInv, NoCanal
<1>6. CASE Desconectar
  <2>1. /\ canal' = <<>> /\ cegas' = cegas \cup {canal[i].nota : i \in DOMAIN canal}
        /\ UNCHANGED <<notificadas, processados, avisada>>
    BY <1>6 DEF Desconectar
  <2>2. \A n \in Nota : n \in cegas \/ NoCanal(n) => n \in cegas'
    BY <2>1 DEF NoCanal
  <2>3. \A o \in Origem, n \in Nota :
           notificadas'[o][n] > 0 => n \in cegas' \/ avisada'[n] # Ausente
    BY <2>1, <2>2 DEF ChegaInv
  <2>4. \A k \in processados' : avisada'[k[2]] # Ausente
    BY <2>1 DEF ChegaInv
  <2>5. \A i \in DOMAIN canal' : FALSE
    BY <2>1
  <2> QED
    BY <2>3, <2>4, <2>5 DEF ChegaInv
<1>7. ASSUME \/ CarregarNotas \/ Recarregar \/ Conectar \/ PassoServidor \/ UNCHANGED telaVars
             \/ \E k \in Carga : LerBanco(k) \/ AplicarCarga(k) \/ FalharCarga(k)
             \/ \E r \in DaTela : Imprimir(r) \/ RespostaOk(r) \/ RespostaErro(r)
      PROVE  UNCHANGED <<canal, processados, avisada, notificadas, cegas>>
  BY <1>7 DEF CarregarNotas, Recarregar, Conectar, PassoServidor, telaVars, LerBanco, AplicarCarga,
     FalharCarga, Imprimir, RespostaOk, RespostaErro, sinalVars, telaHistoria
<1> QED
  BY <1>2, <1>3, <1>4, <1>5, <1>6, <1>7 DEF TelaNext

-----------------------------------------------------------------------------

\* What the pushes told last is on the screen, unless an older HTTP answer came over it.
AvisadaInv ==
    \A n \in Nota : avisada[n] # Ausente =>
        /\ Anunciado(n, avisada[n])
        /\ tela[n] \in {Ausente, avisada[n]} \/ n \in antigas

LEMMA InitAvisada == TelaInit => AvisadaInv
  BY DEF TelaInit, AvisadaInv

LEMMA PassoAvisada ==
  ServidorInv /\ TelaTypeOK /\ AnuncioInv /\ AvisadaInv /\ [TelaNext]_telaVars => AvisadaInv'
<1> SUFFICES ASSUME ServidorInv, TelaTypeOK, AnuncioInv, AvisadaInv, [TelaNext]_telaVars
             PROVE  AvisadaInv'
  OBVIOUS
<1> USE DEF TelaTypeOK
<1>1. \A n \in Nota : \A s : Anunciado(n, s) => Anunciado(n, s)'
  BY AnuncioFica DEF ServidorInv
\* The pushes are as before; where the screen changes, the change is noted.
<1>2. ASSUME avisada' = avisada,
             \A n \in Nota : avisada[n] # Ausente /\ n \notin antigas' =>
                n \notin antigas /\ tela'[n] \in {Ausente, tela[n], avisada[n]}
      PROVE  AvisadaInv'
  BY <1>1, <1>2 DEF AvisadaInv, Anunciado
<1>3. CASE UNCHANGED <<tela, avisada, antigas>>
  BY <1>2, <1>3
<1>4. ASSUME NEW k \in Carga, AplicarCarga(k)
      PROVE  AvisadaInv'
  BY <1>2, <1>4 DEF AplicarCarga, NotarAntigas
<1>5. ASSUME NEW r \in DaTela, Imprimir(r)
      PROVE  AvisadaInv'
  <2>1. Alvo[r] \in Nota /\ tela[Alvo[r]] = Aberta
    BY <1>5, AlvoAssumption, DaTelaAssumption DEF Imprimir
  <2>2. avisada[Alvo[r]] = Ausente \/ Alvo[r] \in antigas
    BY <2>1 DEF AvisadaInv, Aberta, Ausente, Final, Fechada, Cancelada
  <2>3. UNCHANGED <<avisada, antigas>>
    BY <1>5 DEF Imprimir, telaHistoria
  <2>4. \A n \in Nota : n # Alvo[r] => tela'[n] = tela[n]
    BY <1>5 DEF Imprimir, AtualizarStatusNota
  <2> QED
    BY <1>2, <2>2, <2>3, <2>4
<1>6. ASSUME NEW r \in DaTela, RespostaOk(r)
      PROVE  AvisadaInv'
  BY <1>2, <1>6 DEF RespostaOk, NotarAntigas
<1>7. CASE ReceberAviso
  <2>1. canal # <<>> /\ antigas' = antigas
    BY <1>7 DEF ReceberAviso
  <2>2. canal \in Seq(Aviso)
    BY DEF Aviso
  <2>3. 1 \in DOMAIN canal /\ Head(canal) = canal[1] /\ Head(canal) \in Aviso
    BY <2>1, <2>2
  <2>4. PICK a \in Aviso : a = Head(canal)
    BY <2>3
  <2>5. a.nota \in Nota /\ a.status \in Final
    BY DEF Aviso
  <2>6. Anunciado(a.nota, a.status)'
    <3>1. Anunciado(a.nota, a.status)
      BY <2>3, <2>4 DEF AnuncioInv
    <3> QED
      BY <1>1, <2>5, <3>1
  <2>7. CASE UNCHANGED <<tela, avisada>>
    BY <1>3, <2>1, <2>7
  <2>8. CASE AtualizarStatusNota(a.nota, a.status) /\ avisada' = [avisada EXCEPT ![a.nota] = a.status]
    <3> SUFFICES ASSUME NEW n \in Nota, avisada'[n] # Ausente
                 PROVE  /\ Anunciado(n, avisada[n])'
                        /\ tela'[n] \in {Ausente, avisada'[n]} \/ n \in antigas'
      BY DEF AvisadaInv, Anunciado
    <3>1. CASE n = a.nota
      <4>1. avisada'[n] = a.status /\ tela'[n] \in {Ausente, a.status}
        BY <2>5, <2>8, <3>1 DEF AtualizarStatusNota
      <4> QED
        BY <2>6, <3>1, <4>1 DEF Anunciado
    <3>2. CASE n # a.nota
      <4>1. avisada'[n] = avisada[n] /\ tela'[n] = tela[n]
        BY <2>5, <2>8, <3>2 DEF AtualizarStatusNota
      <4> QED
        BY <1>1, <2>1, <4>1 DEF AvisadaInv, Anunciado
    <3> QED
      BY <3>1, <3>2
  <2> QED
    BY <1>7, <2>4, <2>7, <2>8 DEF ReceberAviso
<1>8. ASSUME \/ CarregarNotas \/ Recarregar \/ Conectar \/ Desconectar \/ Esquecer
             \/ PassoServidor \/ UNCHANGED telaVars
             \/ \E k \in Carga : LerBanco(k) \/ FalharCarga(k)
             \/ \E r \in DaTela : RespostaErro(r)
             \/ \E o \in Origem, n \in Nota : Notificar(o, n)
      PROVE  UNCHANGED <<tela, avisada, antigas>>
  BY <1>8 DEF CarregarNotas, Recarregar, Conectar, Desconectar, Esquecer, PassoServidor, telaVars,
     LerBanco, FalharCarga, RespostaErro, Notificar, telaHistoria
<1> QED
  BY <1>3, <1>4, <1>5, <1>6, <1>7, <1>8 DEF TelaNext

\* A quiet nota that was answered shows what its last push told, if none was missed
\* and nothing older came over it.
LEMMA QuietaAvisada ==
  ASSUME ServidorInv, TelaTypeOK, ChegaInv, AvisadaInv, NEW n \in Nota, TelaQuieta(n),
         n \notin cegas \cup antigas,
         abatidas[n] + falhas[n] + compensacoes[n] + erros[n] > 0
  PROVE  /\ avisada[n] \in Final /\ Anunciado(n, avisada[n])
         /\ tela[n] \in {Ausente, avisada[n]}
<1>1. /\ abatidas[n] \in Nat /\ falhas[n] \in Nat /\ compensacoes[n] \in Nat /\ erros[n] \in Nat
  BY DEF ServidorInv, TypeOK
<1>2. PICK o \in Origem : Anunciadas(o, n) > 0
  <2>1. abatidas[n] > 0 \/ falhas[n] > 0 \/ compensacoes[n] > 0 \/ erros[n] > 0
    BY <1>1
  <2> QED
    BY <2>1 DEF Anunciadas, Origem
<1>3. notificadas[o][n] > 0
  <2>1. Anunciadas(o, n) \in Nat /\ notificadas[o][n] \in Nat
    BY <1>1 DEF Anunciadas, Origem, TelaTypeOK
  <2> QED
    BY <1>2, <2>1 DEF TelaQuieta, NaFilaDoGateway
<1>4. avisada[n] # Ausente
  BY <1>3 DEF ChegaInv, NoCanal, TelaQuieta
<1> QED
  BY <1>4 DEF AvisadaInv, TelaTypeOK

\* With answers that do not contradict each other, that is the status of the nota.
LEMMA QuietaConcorda ==
  ServidorInv /\ TelaTypeOK /\ ChegaInv /\ AvisadaInv => DivergenciaTemCausa
<1> SUFFICES ASSUME ServidorInv, TelaTypeOK, ChegaInv, AvisadaInv, NEW n \in Nota,
                    TelaQuieta(n), status[n] \in Final,
                    abatidas[n] = 0 \/ falhas[n] + erros[n] = 0, n \notin cegas \cup antigas
             PROVE  tela[n] \in {Ausente, status[n]}
  BY DEF DivergenciaTemCausa
<1>1. /\ abatidas[n] \in Nat /\ falhas[n] \in Nat /\ compensacoes[n] \in Nat /\ erros[n] \in Nat
      /\ compensacoes[n] > 0 => erros[n] > 0
  BY DEF ServidorInv, TypeOK, CompensacaoInv
<1>2. Anunciado(n, status[n])
  BY BancoAnunciado
<1>3. abatidas[n] + falhas[n] + compensacoes[n] + erros[n] > 0
  BY <1>1, <1>2 DEF Anunciado, Final
<1>4. Anunciado(n, avisada[n]) /\ tela[n] \in {Ausente, avisada[n]} /\ avisada[n] \in Final
  BY <1>3, QuietaAvisada
<1>5. avisada[n] = status[n]
  <2>1. ~(abatidas[n] > 0 /\ falhas[n] + compensacoes[n] + erros[n] > 0)
    BY <1>1
  <2> QED
    BY <1>2, <1>4, <2>1 DEF Anunciado, Final
<1> QED
  BY <1>4, <1>5

LEMMA QuietaNaoEspera ==
  ServidorInv /\ TelaTypeOK /\ ChegaInv /\ AvisadaInv => EsperaNaTelaTemCausa
<1> SUFFICES ASSUME ServidorInv, TelaTypeOK, ChegaInv, AvisadaInv, NEW n \in Nota,
                    TelaQuieta(n), abatidas[n] + falhas[n] + erros[n] > 0,
                    n \notin cegas \cup antigas
             PROVE  tela[n] \in Final \cup {Ausente}
  BY DEF EsperaNaTelaTemCausa
<1>1. abatidas[n] + falhas[n] + compensacoes[n] + erros[n] > 0
  BY DEF ServidorInv, TypeOK
<1> QED
  BY <1>1, QuietaAvisada

\* When everything about a nota has settled, its screen shows the final status of
\* the database, unless a push did not reach the browser or an HTTP answer older
\* than a push came over it.
THEOREM DivergenciaCorreta == TelaSpec => []DivergenciaTemCausa
<1>1. TelaInit => Init
  BY DEF TelaInit
<1>2. ServidorInv => TypeOK
  BY DEF ServidorInv
<1> QED
  BY InitServidor, PassoServidorInv, InitTela, PassoTela, InitAnuncio, PassoAnuncio, InitChega,
     PassoChega, InitAvisada, PassoAvisada, QuietaConcorda, <1>1, <1>2, PTL DEF TelaSpec

\* Whatever faturamento-api loses, a nota that was answered is left waiting on a
\* settled screen only by a push that was missed or an older HTTP answer.
THEOREM EsperaNaTelaCorreta == TelaSpec => []EsperaNaTelaTemCausa
<1>1. TelaInit => Init
  BY DEF TelaInit
<1>2. ServidorInv => TypeOK
  BY DEF ServidorInv
<1> QED
  BY InitServidor, PassoServidorInv, InitTela, PassoTela, InitAnuncio, PassoAnuncio, InitChega,
     PassoChega, InitAvisada, PassoAvisada, QuietaNaoEspera, <1>1, <1>2, PTL DEF TelaSpec
=============================================================================
