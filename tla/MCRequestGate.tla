--------------------------- MODULE MCRequestGate ---------------------------
(* Two requests of two nodes, or of one, and two handlers.  Times are in   *)
(* half seconds.                                                           *)
EXTENDS RequestGate, TLC

CONSTANTS r1, r2, n1, n2
SenderOf == r1 :> n1 @@ r2 :> n2

(* Handlers are interchangeable, and so are the two agents with their      *)
(* requests.                                                               *)
Swap == r1 :> r2 @@ r2 :> r1 @@ n1 :> n2 @@ n2 :> n1
Symmetry == Permutations(Handlers) \union {Swap} \union {p @@ Swap : p \in Permutations(Handlers)}
=============================================================================
