------------------------------ MODULE MCServer ------------------------------
EXTENDS ServerInvariants

CONSTANTS c1, c2, c3

a == <<"a">>
b == <<"b">>
e == <<"e">>

Get(n)       == [line |-> <<"GET", n>>, payload |-> 0]
Put(n, s, p) == [line |-> <<"PUT", n, s>>, payload |-> p]

\* Names with a and what the storage root holds at first.
OneName    == {a}
ThreeNames == {a, b, e}
FileA     == a :> [kind |-> "regular", size |-> 2]
ShortA    == a :> [kind |-> "regular", size |-> 1]
Odd       == a :> [kind |-> "directory", size |-> 0] @@ b :> [kind |-> "symlink", size |-> 0]
             @@ e :> [kind |-> "regular", size |-> 0]
NoFiles   == <<>>

\* What peers send.
Transfers == [c \in Conns |-> {Get(a), Put(a, 2, 2)}]
Race      == c1 :> {Get(a)} @@ c2 :> {Put(a, 1, 1)} @@ c3 :> {Get(a), Put(a, 2, 2)}
Short     == [c \in Conns |-> {Get(a), Put(a, 1, 1)}]
Mishaps   == c1 :> {Get(a), Put(a, 1, 1)} @@ c2 :> {Put(a, 2, 2)}
Requests  == [c \in Conns |-> IF c # c1 THEN {Get(a)} ELSE
  {Get(a), Get(b), Get(e), Put(b, 0, 0), Put(a, 0, 1), Put(a, 1, 2), Put(b, 3, 3), Put(a, 4, 0),
   Put(a, -1, 0), Get(<<"../c">>), [line |-> <<"GET">>, payload |-> 0],
   [line |-> <<"HEAD", a>>, payload |-> 0], [line |-> <<"GET", a, 1>>, payload |-> 0],
   [line |-> <<"PUT", a, 1, 1>>, payload |-> 0],
   [line |-> <<"PUT", a, 1, 1, 1, 1>>, payload |-> 0]}]

Anywhere        == 1..20
Interchangeable == Permutations(Conns)

=============================================================================
