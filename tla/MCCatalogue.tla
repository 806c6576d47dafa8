---------------------------- MODULE MCCatalogue -----------------------------
(* A small instance of Catalogue for TLC: one plan, one image, a pool that *)
(* is a /29 of which the first address is used, an order that names the    *)
(* plan (its own size is refused without it) and one that does not.        *)
EXTENDS Catalogue, TLC

OnePlan   == {"small"}
PlanOrder == [p \in OnePlan |-> [name |-> <<"alnum", "space">>, slug |-> <<"alnum">>,
                                 size |-> [cpu |-> 1, memory |-> 128, disk |-> 10]]]
OneImage  == {<<"alnum", "dot", "alnum">>}
OneTitle  == [i \in OneImage |-> <<"alnum">>]

PoolAddress == [hi |-> 49152, lo |-> 515]
PoolGateway == [hi |-> 49152, lo |-> 513]
ASSUME PoolAccepted(<<"alnum">>, PoolAddress, 29, PoolGateway)
SmallPool == PoolRow(PoolAddress, 29, PoolGateway)
FirstAddress ==
  {a \in Candidates(SmallPool) :
     Cardinality({b \in Candidates(SmallPool) : b.lo < a.lo}) = 0}

Order(p, memory) ==
  [plan |-> p, name |-> <<"alnum", "dash">>, image |-> <<"alnum", "dot", "alnum">>,
   key |-> None, size |-> [cpu |-> 2, memory |-> memory, disk |-> 20],
   ip |-> None, prefix |-> None, gateway |-> None]
TwoOrders == {Order("small", 0), Order(None, 256)}

Symmetry == Permutations(Operators)
=============================================================================
