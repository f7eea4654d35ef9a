----------------------------- MODULE AnyServer ------------------------------
(***************************************************************************)
(* A server that may do anything: it accepts, takes what arrives, sends    *)
(* any part of one of the Scripts and closes whenever it likes.            *)
(***************************************************************************)
EXTENDS ClientInvariants

CONSTANT Scripts  \* all that a server may send on one connection

ASSUME Tokens == \A script \in Scripts : WellSent(script)

\* The server's side of the connections.
AnyAccept ==
  /\ backlog # <<>>
  /\ socket' = [socket EXCEPT ![Head(backlog)] = "open"]
  /\ backlog' = Tail(backlog)
  /\ UNCHANGED <<plan, offered, consumed, sent, taken, peer>>

AnyReceive(c) ==
  /\ socket[c] = "open" /\ Waiting(c) > 0
  /\ consumed' = [consumed EXCEPT ![c] = offered[c]]
  /\ UNCHANGED <<plan, offered, sent, taken, peer, socket, backlog>>

AnySend(c) ==
  /\ socket[c] = "open"
  /\ \E script \in Scripts : \E n \in 1..SendSpace(c) :
       /\ IsPrefix(sent[c], script) /\ Len(sent[c]) + n <= Len(script)
       /\ sent' = [sent EXCEPT ![c] = SubSeq(script, 1, Len(@) + n)]
  /\ UNCHANGED <<plan, offered, consumed, taken, peer, socket, backlog>>

AnyClose(c) ==
  /\ socket[c] = "open"
  /\ socket' = [socket EXCEPT ![c] = "closed"]
  /\ UNCHANGED <<plan, offered, consumed, sent, taken, peer, backlog>>

AnyServer ==
  /\ \/ AnyAccept
     \/ \E c \in Conns : AnyClose(c) \/ (peer[c] = "open" /\ (AnyReceive(c) \/ AnySend(c)))
  /\ UNCHANGED clientVars

AloneInit == TransportInit /\ ClientInit

AloneNext == AnyServer \/ \E c \in Conns : ClientStep(c)

ClientAlone == AloneInit /\ [][AloneNext]_<<transportVars, clientVars>>

=============================================================================
