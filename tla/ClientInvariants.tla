-------------------------- MODULE ClientInvariants --------------------------
(***************************************************************************)
(* The inductive invariants from which ClientProofs derives the properties *)
(* of ClientProperties: one of the client alone, and one of what each run  *)
(* has made of what its server sent.                                       *)
(***************************************************************************)
EXTENDS ClientProperties

ASSUME Lines ==
  \A c \in Conns : \A p \in Plans[c] : Len(p.line) \in Nat /\ p.payload \in Nat

Running(c) == stage[c] \notin {"start", "end"}

\* Runs with one destination follow each other, and while one copies it the
\* destination does not exist and its temporary file does.
ClientInv ==
  /\ stage \in [Conns -> Stages]
  /\ status \in [Conns -> {"running", "done", "failed", "unconnected", "killed"}]
  /\ \A c, d \in Conns :
       Destination[c] = Destination[d] /\ Running(c) /\ Running(d) => c = d
  /\ \A c \in Conns : stage[c] = "copying" =>
       /\ Destination[c] \notin DOMAIN local
       /\ Part(c) \in DOMAIN local

-----------------------------------------------------------------------------
\* What a server sends is a sequence of tokens; the size in an OK line that the
\* client understands is a number (parse_uint64).
WellSent(s) ==
  /\ s \in Seq(ToSet(s))
  /\ \A i \in DOMAIN s : s[i].kind = "ok" => s[i].size \in Nat /\ s[i] = OkHead(s[i].size)

\* The size the response of a GET announced, and how much of it is written.
Size(c)   == sent[c][1].size
Copied(c) == Size(c) - remaining[c]

Invited(c) == Len(sent[c]) >= 2 /\ sent[c][1] = ReadyHead /\ sent[c][2] = Newline

Confirmed(c) ==
  /\ Invited(c) /\ plan[c].payload = Announced(c)
  /\ Len(sent[c]) >= 4 /\ sent[c][3] = OkHead(Announced(c)) /\ sent[c][4] = Newline

\* No byte of a file is sent, and all that was received is in the buffer.
Asking(c) ==
  /\ offered[c] <= RequestEnd(c)
  /\ buffered[c] = SubSeq(sent[c], 1, received[c])

\* Written and buffered are what was received behind the response line.
Copying(c) ==
  /\ ~IsPut(c) /\ offered[c] <= RequestEnd(c)
  /\ received[c] >= 2 /\ sent[c][1].kind = "ok"
  /\ remaining[c] <= Size(c) /\ Copied(c) + 2 <= received[c]
  /\ local[Part(c)] = SubSeq(sent[c], 3, Copied(c) + 2)
  /\ buffered[c] = SubSeq(sent[c], Copied(c) + 3, received[c])

\* READY was received, and all that came behind it is in the buffer.
Storing(c) ==
  /\ IsPut(c) /\ Invited(c)
  /\ received[c] >= 2 /\ buffered[c] = SubSeq(sent[c], 3, received[c])

\* The whole file came behind the response line and is the destination.
Fetched(c) ==
  /\ sent[c][1].kind = "ok" /\ Size(c) \in Nat /\ Size(c) + 2 <= Len(sent[c])
  /\ Downloaded(c)

RunInv(c) ==
  /\ plan[c] \in Plans[c] /\ WellSent(sent[c])
  /\ offered[c] \in Nat /\ received[c] \in 0..Len(sent[c]) /\ remaining[c] \in Nat
  /\ stage[c] \in {"start", "request", "response"} => Asking(c)
  /\ stage[c] = "copying" => Copying(c)
  /\ stage[c] \in {"uploading", "confirm"} => Storing(c)
  /\ stage[c] = "confirm" => plan[c].payload = Announced(c)
  /\ offered[c] > RequestEnd(c) => Invited(c)
  /\ stage[c] # "end" => status[c] = "running"
  /\ Done(c) => IF IsPut(c) THEN Confirmed(c) ELSE Fetched(c)

\* What each run has made of what it received: inductive together with ClientInv.
RunsInv ==
  /\ DOMAIN offered = Conns /\ DOMAIN sent = Conns
  /\ DOMAIN received = Conns /\ DOMAIN buffered = Conns /\ remaining = [c \in Conns |-> remaining[c]]
  /\ \A c \in Conns : RunInv(c)

-----------------------------------------------------------------------------
\* Whatever a server does, it only adds to what it has sent.
Extends(s, t) == Len(s) <= Len(t) /\ \A i \in 1..Len(s) : t[i] = s[i]

ServerMoves ==
  /\ UNCHANGED <<clientVars, plan, offered>>
  /\ DOMAIN sent' = Conns
  /\ \A c \in Conns : WellSent(sent'[c]) /\ Extends(sent[c], sent'[c])

\* Runs of the client against a server of which no more is known.
Served ==
  /\ TransportInit /\ ClientInit
  /\ [][ServerMoves \/ \E c \in Conns : ClientStep(c)]_<<transportVars, clientVars>>

=============================================================================
