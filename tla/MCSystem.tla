------------------------------ MODULE MCSystem ------------------------------
EXTENDS System

CONSTANTS c1, c2

a       == <<"a">>
OneName == {a}
FileA   == a :> [kind |-> "regular", size |-> 2]

Get(n)       == [line |-> <<"GET", n>>, payload |-> 0]
Put(n, s, p) == [line |-> <<"PUT", n, s>>, payload |-> p]

\* Two uploads or an upload that races a download.
Transfers == c1 :> {Get(a), Put(a, 1, 1)} @@ c2 :> {Put(a, 2, 2)}

OwnCopies == c1 :> <<"c1">> @@ c2 :> <<"c2">>
NoLocal   == {<<>>}

=============================================================================
