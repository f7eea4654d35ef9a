------------------------------ MODULE MCClient ------------------------------
EXTENDS AnyServer

CONSTANT c1

a       == <<"a">>
OneName == {a}

Get(n)       == [line |-> <<"GET", n>>, payload |-> 0]
Put(n, s, p) == [line |-> <<"PUT", n, s>>, payload |-> p]

\* Requests, some for a file that changes before it is read.
Requests == [c \in Conns |-> {Get(a), Put(a, 1, 1), Put(a, 1, 2), Put(a, 1, 0), Put(a, 0, 0)}]

Data(n) == Bytes(a, n)

\* The local directory: empty, with the destination, with what a killed run left.
Copy1    == [c \in Conns |-> <<"copy">>]
MayExist == {<<>>, <<"copy">> :> Bytes("old", 1), PartOf(<<"copy">>) :> Bytes("old", 1)}

\* Whole, short and long replies, refusals, and lines that are none.
Replies ==
  {Line(OkHead(2)) \o Data(3), Line(OkHead(0)), Line(ErrHead("not-found")),
   Line(ReadyHead) \o Line(OkHead(1)), Line(ReadyHead) \o Line(OkHead(0)),
   Line(ReadyHead) \o Line(ErrHead("protocol-error")),
   Line(ReadyHead) \o Line(ReadyHead),
   <<Word("noise"), Word("noise"), Word("noise"), Newline>>}

Anywhere == 1..8

=============================================================================
