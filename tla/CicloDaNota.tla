----------------------------- MODULE CicloDaNota -----------------------------
(***************************************************************************)
(* What the whole saga promises of a nota fiscal, as one process that sees *)
(* the database of faturamento-api and that of estoque-api: a printed nota *)
(* is debited as a whole and then Fechada, or it is Cancelada and nothing  *)
(* of it is ever debited.                                                  *)
(***************************************************************************)
EXTENDS Naturals

CONSTANTS Nota, Produto, Qtd, SaldoInicial

VARIABLES
    status,      \* what GET /api/v1/notas-fiscais shows
    saldo,       \* what GET /api/produtos shows
    debitadas    \* the notas whose quantities have left the stock

vars == <<status, saldo, debitadas>>

Init ==
    /\ status = [n \in Nota |-> "Aberta"]
    /\ saldo = SaldoInicial
    /\ debitadas = {}

Imprimir(n) ==
    /\ status[n] = "Aberta"
    /\ status' = [status EXCEPT ![n] = "EmProcessamento"]
    /\ UNCHANGED <<saldo, debitadas>>

Debitar(n) ==
    /\ status[n] = "EmProcessamento" /\ n \notin debitadas
    /\ \A p \in Produto : Qtd[n][p] <= saldo[p]
    /\ saldo' = [p \in Produto |-> saldo[p] - Qtd[n][p]]
    /\ debitadas' = debitadas \cup {n}
    /\ UNCHANGED status

Fechar(n) ==
    /\ status[n] = "EmProcessamento" /\ n \in debitadas
    /\ status' = [status EXCEPT ![n] = "Fechada"]
    /\ UNCHANGED <<saldo, debitadas>>

Cancelar(n) ==
    /\ status[n] = "EmProcessamento" /\ n \notin debitadas
    /\ status' = [status EXCEPT ![n] = "Cancelada"]
    /\ UNCHANGED <<saldo, debitadas>>

Next == \E n \in Nota : Imprimir(n) \/ Debitar(n) \/ Fechar(n) \/ Cancelar(n)

Spec == Init /\ [][Next]_vars
=============================================================================
