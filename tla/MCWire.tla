------------------------------- MODULE MCWire -------------------------------
(* Records that are there, bare and half given; transactions of up to four  *)
(* records; a legacy request with a token of its own and without.           *)
EXTENDS Wire

MCTargets == {NoTarget, [NoTarget EXCEPT !.rid = <<2, 3>>, !.recVersion = 4],
              [NoTarget EXCEPT !.rid = <<2, 0>>, !.cluster = Unset, !.position = Unset, !.version = 0]}
MCWorks == {[creates |-> c, updates |-> u, deletes |-> d] :
              c \in {<<>>, <<<<-1, -2>>, <<-1, -3>>>>}, u \in {<<>>, <<<<1, 5>>>>}, d \in {<<>>, <<<<1, 6>>>>}}
MCTokens == {<<>>, <<8, 9>>}
=============================================================================
