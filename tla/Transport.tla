----------------------------- MODULE Transport ------------------------------
(***************************************************************************)
(* TCP connections as the server's sockets see them, and peers that may do *)
(* anything a TCP peer can: connect, send their stream cut into arbitrary  *)
(* segments, read late, shut down or reset at any point.                   *)
(*                                                                         *)
(* The stream of a peer is fixed by its plan; offered and consumed are the *)
(* number of its tokens that reached the server's receive buffer and that  *)
(* the server has received.  sent is everything the server has written and *)
(* taken the part of it that left the server's send buffer.                *)
(***************************************************************************)
EXTENDS Wire

CONSTANTS
  Plans,   \* connection |-> what its peer may want to send, each a
           \* [line: words, payload: number of data bytes]
  Cuts,    \* stream positions where a segment may end
  Events,  \* bound: what may happen from outside, of EventKinds
  RcvBuf,  \* tokens the server's receive buffer of a connection holds
  SndBuf   \* tokens the server's send buffer of a connection holds

EventKinds == {"read", "shut", "reset", "time", "signal", "kill"}

VARIABLES plan, offered, consumed, sent, taken, peer, socket, backlog

transportVars == <<plan, offered, consumed, sent, taken, peer, socket, backlog>>

RequestTokens(line) == [i \in 1..Len(line) |-> Word(line[i])] \o <<Newline>>

Stream(c) == RequestTokens(plan[c].line) \o Bytes(c, plan[c].payload)

Waiting(c)   == offered[c] - consumed[c]
SendSpace(c) == SndBuf - (Len(sent[c]) - taken[c])

SomePlans == UNION {Plans[c] : c \in Conns}

TransportInit ==
  /\ plan \in {p \in [Conns -> SomePlans] : \A c \in Conns : p[c] \in Plans[c]}
  /\ offered = [c \in Conns |-> 0]
  /\ consumed = [c \in Conns |-> 0]
  /\ sent = [c \in Conns |-> <<>>]
  /\ taken = [c \in Conns |-> 0]
  /\ peer = [c \in Conns |-> "open"]
  /\ socket = [c \in Conns |-> "none"]
  /\ backlog = <<>>

Connect(c) ==
  /\ socket[c] = "none"
  /\ socket' = [socket EXCEPT ![c] = "queued"]
  /\ backlog' = Append(backlog, c)
  /\ UNCHANGED <<plan, offered, consumed, sent, taken, peer>>

Connected(c) == socket[c] \in {"queued", "open"}

PeerSend(c) ==
  /\ Connected(c)
  /\ peer[c] = "open"
  /\ \E upto \in (offered[c] + 1)..Len(Stream(c)) :
       /\ upto \in Cuts \/ upto = Len(Stream(c))
       /\ upto - consumed[c] <= RcvBuf
       /\ offered' = [offered EXCEPT ![c] = upto]
  /\ UNCHANGED <<plan, consumed, sent, taken, peer, socket, backlog>>

\* The peer takes what the server sent, which makes room in the send buffer.
PeerRead(c) ==
  /\ "read" \in Events
  /\ socket[c] = "open"
  /\ peer[c] # "reset"
  /\ \E upto \in (taken[c] + 1)..Len(sent[c]) :
       taken' = [taken EXCEPT ![c] = upto]
  /\ UNCHANGED <<plan, offered, consumed, sent, peer, socket, backlog>>

\* FIN: the peer closes its side, or shuts down sending.
PeerShut(c) ==
  /\ "shut" \in Events
  /\ Connected(c)
  /\ peer[c] = "open"
  /\ peer' = [peer EXCEPT ![c] = "shut"]
  /\ UNCHANGED <<plan, offered, consumed, sent, taken, socket, backlog>>

\* RST: the peer died, or closed with data it had not read.
PeerReset(c) ==
  /\ "reset" \in Events
  /\ Connected(c)
  /\ peer[c] # "reset"
  /\ peer' = [peer EXCEPT ![c] = "reset"]
  /\ UNCHANGED <<plan, offered, consumed, sent, taken, socket, backlog>>

PeerStep ==
  \E c \in Conns : PeerSend(c) \/ PeerRead(c) \/ PeerShut(c) \/ PeerReset(c)

TransportTypeOK ==
  /\ plan \in [Conns -> SomePlans]
  /\ offered \in [Conns -> Nat]
  /\ consumed \in [Conns -> Nat]
  /\ DOMAIN sent = Conns
  /\ taken \in [Conns -> Nat]
  /\ peer \in [Conns -> {"open", "shut", "reset"}]
  /\ socket \in [Conns -> {"none", "queued", "open", "closed"}]

=============================================================================
