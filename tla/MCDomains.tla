----------------------------- MODULE MCDomains -----------------------------
(***************************************************************************)
(* Small instances of Domains for TLC.                                     *)
(***************************************************************************)
EXTENDS Domains, TLC

CONSTANTS d1, d2, d3, d4, w1, w2

\* A domain, and one below it.
Above == <<"n">>
Below == <<"m", ".", "n">>
TwoNames == {Above, Below}

\* Both names may be created anew after their removal, with another type.
NewTypes == (d1 :> Above) @@ (d2 :> Below) @@ (d3 :> Above) @@ (d4 :> Below)
Types == (d1 :> "STANDARD") @@ (d2 :> "STANDARD") @@ (d3 :> "USER") @@ (d4 :> "EPHEMERAL")

\* Without the hyphen, and only then, the labels of these are one ...
a == [user |-> <<"a">>, app |-> <<"b", "a">>]
ab == [user |-> <<"a", "b">>, app |-> <<"a">>]
\* ... and in the domain above this app has the URL of the first in that below.
dotted == [user |-> <<"b">>, app |-> <<"b", "a", ".", "m">>]

ThreeClients == {a, ab, dotted}
OneStamp == {<<"s">>}

TwoWorkers == {w1, w2}
WorkerSymmetry == Permutations(Workers)
=============================================================================
