--------------------------- MODULE EstoqueAtomico ---------------------------
(***************************************************************************)
(* What estoque-api promises to the rest of the system, with no locks, no  *)
(* retries and no cache: every nota emitted is decided by atomic steps     *)
(* that look at the whole stock at once.  AbatimentoEstoque implements     *)
(* this module as long as no Redis lock is lost while its holder works.    *)
(***************************************************************************)
EXTENDS Naturals

CONSTANTS
    Nota,          \* ids of the notas fiscais
    Produto,       \* keys of the products
    Qtd,           \* Qtd[n][p]: total quantity of product p in nota n
    SaldoInicial   \* SaldoInicial[p]: balance before any nota

VARIABLES
    saldo,         \* balance of each product
    debitos,       \* how many times each nota was debited
    confirmacoes,  \* NotaFiscalAbatidaEvent sent for each nota
    recusas        \* AbatimentoEstoqueFalhouEvent sent for each nota

vars == <<saldo, debitos, confirmacoes, recusas>>

Suficiente(n) == \A p \in Produto : Qtd[n][p] <= saldo[p]

Init ==
    /\ saldo = SaldoInicial
    /\ debitos = [n \in Nota |-> 0]
    /\ confirmacoes = [n \in Nota |-> 0]
    /\ recusas = [n \in Nota |-> 0]

(* The whole nota is debited or nothing is. *)
Debitar(n) ==
    /\ Suficiente(n)
    /\ saldo' = [p \in Produto |-> saldo[p] - Qtd[n][p]]
    /\ debitos' = [debitos EXCEPT ![n] = @ + 1]
    /\ UNCHANGED <<confirmacoes, recusas>>

(* Success is announced only for a nota that was debited. *)
Confirmar(n) ==
    /\ debitos[n] > 0
    /\ confirmacoes' = [confirmacoes EXCEPT ![n] = @ + 1]
    /\ UNCHANGED <<saldo, debitos, recusas>>

(* A refusal on business grounds is true at the moment it is announced. *)
Recusar(n) ==
    /\ ~Suficiente(n)
    /\ recusas' = [recusas EXCEPT ![n] = @ + 1]
    /\ UNCHANGED <<saldo, debitos, confirmacoes>>

Next == \E n \in Nota : Debitar(n) \/ Confirmar(n) \/ Recusar(n)

Spec == Init /\ [][Next]_vars
=============================================================================
