------------------------------ MODULE MCLegacy ------------------------------
EXTENDS Legacy, TLC

CONSTANTS c1, c2, c3, a, b

Files == a :> <<<<a, 1>>, <<a, 2>>>>

Ask(op, name, size) == [op |-> op, name |-> name, size |-> size]
Asked == c1 :> {Ask("get", a, 0), Ask("put", a, 2)} @@ c2 :> {Ask("get", a, 0)}
           @@ c3 :> {Ask("get", a, 0), Ask("get", b, 0), Ask("other", a, 0), Ask("none", a, 0)}

=============================================================================
