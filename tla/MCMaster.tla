------------------------------ MODULE MCMaster ------------------------------
(* Small instances of Master for TLC.  VMs, operators and addresses are    *)
(* interchangeable; a node is the only one.                                *)
EXTENDS Master, TLC

Symmetry == Permutations(Vms) \union Permutations(Operators) \union Permutations(Addrs)
=============================================================================
