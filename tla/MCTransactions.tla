--------------------------- MODULE MCTransactions ---------------------------
(* Small instances of Transactions for TLC.  VMs, connections and nodes    *)
(* are interchangeable; addresses are tried in their order.                *)
EXTENDS Transactions, TLC

TwoAddresses == {1, 2}
Symmetry == Permutations(Vms) \union Permutations(Operators) \union Permutations(Nodes)
=============================================================================
