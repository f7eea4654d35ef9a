------------------------------- MODULE Legacy -------------------------------
(***************************************************************************)
(* The servers and clients of legacy/, phases 1 to 4.  Phase 1 sends one   *)
(* file to one client; phase 2 serves one request after the other; phases  *)
(* 3 and 4 poll an array of slots, from which a served client is removed   *)
(* by moving the last one over it.  All socket calls block, and a whole    *)
(* transfer is made within one turn of the loop.                           *)
(*                                                                         *)
(* The connection of phases 1 and 2 is kept in slot 1.  A request is sent  *)
(* and received as a whole.  Clients run to their end, but for those that  *)
(* may be killed; the end of one of these may come as a reset, too.        *)
(***************************************************************************)
EXTENDS Integers, Sequences

CONSTANTS
  Conns,
  Phases,       \* the phases a behaviour may be of
  Max_Clients,
  BufferSize,   \* sizeof(filereader), sizeof(buffer), in tokens
  SndBuf,       \* bound: tokens sent and not yet received
  InitialFiles, \* the working directory at first: name |-> bytes
  ServedFile,   \* the argument of the phase 1 server
  Requests,     \* bound: connection |-> what it may ask for, records [op, name, size]
  Faults,       \* bound: the calls that may fail, of accept and open
  Mortal,       \* bound: the connections whose clients may be killed
  None

ASSUME LegacyConstants ==
  /\ Max_Clients \in Nat \ {0} /\ Phases \subseteq 1..4
  /\ BufferSize \in Nat \ {0} /\ SndBuf \in Nat \ {0}
  /\ Faults \subseteq {"accept", "open"} /\ Mortal \subseteq Conns

ASSUME LegacyFiles ==
  /\ \A c \in Conns : \A q \in Requests[c] : q.size \in Nat
  /\ \A n \in DOMAIN InitialFiles :
       InitialFiles[n] \in Seq({InitialFiles[n][k] : k \in DOMAIN InitialFiles[n]})

VARIABLES
  phase,
  place,   \* where the server's main is
  tester,  \* the array without its first element: [fd, revents], never initialized
  pointer, \* the first free slot
  i,       \* the loop over the slots
  data,    \* what is still to be sent to, or the file received from, tester[i].fd
  behind,  \* history: how many bytes behind its request the recv of it took
  stored,  \* name |-> bytes
  plan,    \* connection |-> the request its client makes
  backlog, socket, offered, consumed, delivered, taken,
  ended    \* connection |-> its client has closed it

serverVars ==
  <<place, tester, pointer, i, data, behind, stored, backlog, socket, consumed, delivered>>
clientVars == <<offered, taken, ended>>
vars == <<phase, plan, serverVars, clientVars>>

\* What the client of c sends: phase 1 has no requests, and a phase 4 client that is
\* given another operation than get and put connects and exits.
Upload(c) == [k \in 1..plan[c].size |-> <<c, k>>]
Stream(c) ==
  IF phase = 1 \/ plan[c].op = "none" THEN <<>>
  ELSE <<plan[c]>> \o (IF plan[c].op = "put" THEN Upload(c) ELSE <<>>)

AnyRequest == UNION {Requests[c] : c \in Conns}
Running    == place \notin {"ended", "undefined"}

Init ==
  /\ phase \in Phases
  /\ place = IF phase = 1 /\ ServedFile \notin DOMAIN InitialFiles THEN "ended" ELSE "poll"
  /\ tester \in [1..Max_Clients ->
                  [fd : {None}, revents : IF phase > 2 THEN BOOLEAN ELSE {FALSE}]]
  /\ pointer = 1 /\ i = 1 /\ data = <<>> /\ behind = 0 /\ stored = InitialFiles
  /\ plan \in {f \in [Conns -> AnyRequest] : \A c \in Conns :
                 f[c] \in Requests[c] /\ (f[c].op = "put" => phase = 4)}
  /\ backlog = <<>> /\ socket = [c \in Conns |-> "none"]
  /\ offered = [c \in Conns |-> 0] /\ consumed = [c \in Conns |-> 0]
  /\ delivered = [c \in Conns |-> <<>>] /\ taken = [c \in Conns |-> 0]
  /\ ended = [c \in Conns |-> FALSE]

-----------------------------------------------------------------------------
(***************************************************************************)
(* The clients, as long as the server runs.                                *)
(***************************************************************************)
ConnectTo(c) ==
  /\ socket[c] = "none"
  /\ socket' = [socket EXCEPT ![c] = "queued"]
  /\ backlog' = Append(backlog, c)
  /\ UNCHANGED <<place, tester, pointer, i, data, behind, stored, consumed, delivered, clientVars>>

ClientSend(c) ==
  /\ socket[c] # "none" /\ ~ended[c] /\ offered[c] < Len(Stream(c))
  /\ offered' = [offered EXCEPT ![c] = @ + 1]
  /\ UNCHANGED <<serverVars, taken, ended>>

ClientReceive(c) ==
  /\ ~ended[c] /\ taken[c] < Len(delivered[c])
  /\ taken' = [taken EXCEPT ![c] = @ + 1]
  /\ UNCHANGED <<serverVars, offered, ended>>

\* A put ends when all is sent, a get when the server has closed the connection.
ClientEnd(c) ==
  /\ socket[c] # "none" /\ ~ended[c]
  /\ \/ plan[c].op \in {"put", "none"} /\ offered[c] = Len(Stream(c)) /\ phase # 1
     \/ socket[c] = "closed" /\ taken[c] = Len(delivered[c])
     \/ c \in Mortal
  /\ ended' = [ended EXCEPT ![c] = TRUE]
  /\ UNCHANGED <<serverVars, offered, taken>>

ClientStep(c) ==
  /\ Running
  /\ ConnectTo(c) \/ ClientSend(c) \/ ClientReceive(c) \/ ClientEnd(c)
  /\ UNCHANGED <<phase, plan>>

-----------------------------------------------------------------------------
(***************************************************************************)
(* The servers.                                                            *)
(***************************************************************************)
Waiting(c)  == offered[c] - consumed[c]
Ready(c)    == Waiting(c) > 0 \/ ended[c]
Current     == tester[i].fd
Chunk(c)    == SubSeq(Stream(c), consumed[c] + 1,
                      consumed[c] + (IF Waiting(c) < BufferSize THEN Waiting(c) ELSE BufferSize))
Take(c)     == consumed' = [consumed EXCEPT ![c] = @ + Len(Chunk(c))]

\* accept stores the descriptor; the slot keeps the revents it has.
Accepted(slots, c) ==
  /\ pointer <= Max_Clients
  /\ tester' = [slots EXCEPT ![pointer].fd = c]
  /\ pointer' = pointer + 1
  /\ socket' = [socket EXCEPT ![c] = "open"]
  /\ backlog' = Tail(backlog)

\* What poll reports of the slots in use; the others keep what is in them.
Polled ==
  [k \in DOMAIN tester |->
     IF k < pointer THEN [tester[k] EXCEPT !.revents = Ready(tester[k].fd)] ELSE tester[k]]

Poll ==
  /\ phase > 2 /\ place = "poll"
  /\ \/ backlog # <<>> /\ Accepted(Polled, Head(backlog))
     \/ /\ backlog = <<>> /\ \E k \in 1..(pointer - 1) : Ready(tester[k].fd)
        /\ tester' = Polled
        /\ UNCHANGED <<pointer, socket, backlog>>
  /\ place' = "slots" /\ i' = 1
  /\ UNCHANGED <<data, behind, stored, consumed, delivered>>

\* With all slots in use accept stores behind the end of the array: what the process
\* does from then on is undefined, and nothing is said of it.
Overflow ==
  /\ phase > 2 /\ place = "poll" /\ backlog # <<>> /\ pointer > Max_Clients
  /\ place' = "undefined"
  /\ UNCHANGED <<tester, pointer, i, data, behind, stored, backlog, socket, consumed, delivered>>

\* Phase 1 takes one connection and sends it the file of its command line.
AcceptOne ==
  /\ phase = 1 /\ place = "poll" /\ backlog # <<>>
  /\ Accepted(tester, Head(backlog))
  /\ place' = "sending" /\ data' = stored[ServedFile]
  /\ UNCHANGED <<i, behind, stored, consumed, delivered>>

\* Phase 2 takes one connection after the other, and reads from it at once.
Accept ==
  /\ phase = 2 /\ place = "poll" /\ backlog # <<>>
  /\ Accepted([tester EXCEPT ![1].revents = TRUE], Head(backlog))
  /\ place' = "slots" /\ i' = 1
  /\ UNCHANGED <<data, behind, stored, consumed, delivered>>

Exit ==
  /\ place' = "ended"
  /\ socket' = [c \in Conns |-> IF socket[c] = "none" THEN "none" ELSE "closed"]
  /\ UNCHANGED <<tester, pointer, i, data, delivered>>

End == Exit /\ UNCHANGED stored

\* Phase 2 tries again when accept fails; the others end.
AcceptFails ==
  /\ phase # 2 /\ place = "poll" /\ backlog # <<>> /\ "accept" \in Faults
  /\ End
  /\ UNCHANGED <<behind, backlog, consumed>>

NextSlot ==
  /\ place = "slots" /\ (i < pointer => ~tester[i].revents)
  /\ IF i < pointer THEN i' = i + 1 /\ UNCHANGED place ELSE place' = "poll" /\ UNCHANGED i
  /\ UNCHANGED <<tester, pointer, data, behind, stored, backlog, socket, consumed, delivered>>

\* Mistake: the last slot is not moved.
RemoveLosing ==
  /\ i' = i + 1
  /\ pointer' = pointer - 1
  /\ place' = "slots"
  /\ UNCHANGED tester

\* The last slot is moved over the served one, which keeps its revents, so that the
\* moved client is read from next, whether it has sent anything or not.
Remove ==
  /\ tester' = IF i # pointer - 1
               THEN [tester EXCEPT ![i].fd = tester[pointer - 1].fd] ELSE tester
  /\ i' = IF i # pointer - 1 THEN i ELSE i + 1
  /\ pointer' = pointer - 1
  /\ place' = "slots"

\* Mistake: the descriptor of the served client is not closed.
CloseKeeping(c) == Remove /\ UNCHANGED <<socket, data, stored, delivered>>

Close(c) ==
  /\ socket' = [socket EXCEPT ![c] = "closed"]
  /\ Remove
  /\ UNCHANGED <<data, stored, delivered>>

\* Phase 3 does not look at the operation.
Gets(q)     == phase = 3 \/ q.op = "get"
Puts(q)     == phase = 4 /\ q.op = "put"
Readable(n) == n \in DOMAIN stored

\* ifstream or ofstream does not open the file.
OpenFails(q) == "open" \in Faults \/ (Gets(q) /\ ~Readable(q.name))

\* ofstream opens the file empty.
Truncate(n) ==
  stored' = [m \in DOMAIN stored \cup {n} |-> IF m = n THEN <<>> ELSE stored[m]]

Retrieve(q) ==
  /\ Gets(q) /\ Readable(q.name)
  /\ data' = stored[q.name] /\ place' = "sending"
  /\ UNCHANGED <<tester, pointer, i, stored, socket, delivered>>

\* Phase 2 closes a connection it cannot serve.
Refuse(c, q) == phase = 2 /\ (~Gets(q) \/ OpenFails(q)) /\ Close(c)

\* Phase 4 exits when the file of a put cannot be opened.  In phases 3 and 4 the size
\* of a file that cannot be read is -1, and the memory for it cannot be had.
FailToOpen(q) == phase > 2 /\ (Gets(q) \/ Puts(q)) /\ OpenFails(q) /\ End

Store(q) ==
  /\ Puts(q)
  /\ data' = q.name /\ place' = "receiving"
  /\ Truncate(q.name)
  /\ UNCHANGED <<tester, pointer, i, socket, delivered>>

\* Phase 4 forgets a connection whose operation it does not know, without closing it.
Forget(c, q) ==
  /\ phase = 4 /\ ~Gets(q) /\ ~Puts(q)
  /\ socket' = [socket EXCEPT ![c] = "lost"]
  /\ Remove
  /\ UNCHANGED <<data, stored, delivered>>

Obey(c, q) == Retrieve(q) \/ Refuse(c, q) \/ FailToOpen(q) \/ Store(q) \/ Forget(c, q)

\* The connection of a client that is gone may have been reset: recv fails.
Broken(c)  == c \in Mortal /\ ended[c]
AtRequest  == place = "slots" /\ i < pointer /\ tester[i].revents /\ Ready(Current)

\* recv of the request takes what has come behind it too, and that is never used.
Request ==
  /\ AtRequest /\ Chunk(Current) # <<>>
  /\ Take(Current) /\ behind' = Len(Chunk(Current)) - 1
  /\ Obey(Current, Chunk(Current)[1])
  /\ UNCHANGED backlog

\* A client that is gone without a request leaves filereader uninitialized: strtok
\* finds no words and the process ends, or it finds those of any request.  Phase 2
\* goes on like this when recv fails, too.
RequestMissing ==
  /\ AtRequest /\ (Chunk(Current) = <<>> \/ (phase = 2 /\ Broken(Current)))
  /\ End \/ \E q \in AnyRequest : Obey(Current, q)
  /\ UNCHANGED <<behind, backlog, consumed>>

\* Phases 3 and 4 close the connection when recv fails, and go on with filereader and
\* the closed descriptor, to which send fails, and recv, which ends the process.
RequestFails ==
  /\ AtRequest /\ phase > 2 /\ Broken(Current)
  /\ \/ End
     \/ \E q \in AnyRequest : Puts(q) /\ Truncate(q.name) /\ Exit
     \/ \E q \in AnyRequest : ~Puts(q) /\ (Gets(q) => Readable(q.name)) /\ Close(Current)
  /\ UNCHANGED <<behind, backlog, consumed>>

\* send blocks until all of the file is taken.  It fails, or SIGPIPE ends the process,
\* when the client is gone.  Phase 1 ends with its one client.
Send ==
  /\ place = "sending"
  /\ \/ /\ data # <<>> /\ Len(delivered[Current]) - taken[Current] < SndBuf
        /\ delivered' = [delivered EXCEPT ![Current] = Append(@, Head(data))]
        /\ data' = Tail(data)
        /\ UNCHANGED <<place, tester, pointer, i, stored, socket>>
     \/ data = <<>> /\ (IF phase = 1 THEN End ELSE Close(Current))
     \/ ended[Current] /\ (End \/ (phase # 1 /\ Close(Current)))
  /\ UNCHANGED <<behind, consumed, backlog>>

\* Mistake: a short recv is taken for the last one.
ReceiveShort ==
  /\ place = "receiving"
  /\ Ready(Current) /\ Take(Current)
  /\ IF Len(Chunk(Current)) < BufferSize THEN Close(Current)
     ELSE /\ stored' = [stored EXCEPT ![data] = @ \o Chunk(Current)]
          /\ UNCHANGED <<place, tester, pointer, i, data, socket, delivered>>
  /\ UNCHANGED <<behind, backlog>>

\* recv until the client closes; when recv fails the process ends.
Receive ==
  /\ place = "receiving"
  /\ \/ /\ Waiting(Current) > 0
        /\ Take(Current)
        /\ stored' = [stored EXCEPT ![data] = @ \o Chunk(Current)]
        /\ UNCHANGED <<place, tester, pointer, i, data, socket, delivered>>
     \/ Ready(Current) /\ Waiting(Current) = 0 /\ Close(Current) /\ UNCHANGED consumed
     \/ Broken(Current) /\ End /\ UNCHANGED consumed
  /\ UNCHANGED <<behind, backlog>>

ServerStep ==
  /\ \/ AcceptOne \/ Accept \/ AcceptFails \/ Poll \/ Overflow \/ NextSlot
     \/ Request \/ RequestMissing \/ RequestFails \/ Send \/ Receive
  /\ UNCHANGED <<phase, plan, clientVars>>

Next == ServerStep \/ \E c \in Conns : ClientStep(c)

\* All processes are scheduled.
Spec == Init /\ [][Next]_vars /\ WF_vars(ServerStep) /\ \A c \in Conns : WF_vars(ClientStep(c))

-----------------------------------------------------------------------------
\* The slots in use hold the open connections, each once: a connection that is
\* moved over a served one is neither lost nor kept twice, and slots are used again
\* for as many connections as come.
SlotsHoldConnections ==
  Running =>
    /\ {tester[k].fd : k \in 1..(pointer - 1)} = {c \in Conns : socket[c] = "open"}
    /\ \A k, l \in 1..(pointer - 1) : tester[k].fd = tester[l].fd => k = l

\* When the connection whose turn it is is closed and its client is there, the client
\* has been sent the file it asked for, as it is, or the one of phase 1.  When it is
\* closed behind an upload and the process goes on, the file holds what its client has
\* sent, in order and once, but for exactly the bytes that were received together with
\* the request.
TransfersWhole ==
  [][\A c \in Conns : socket[c] = "open" /\ socket'[c] = "closed" =>
       /\ place = "sending" /\ c = Current /\ ~ended[c] =>
            delivered'[c] = stored[IF phase = 1 THEN ServedFile ELSE plan[c].name]
       /\ place = "receiving" /\ c = Current /\ place' # "ended" /\ consumed[c] > 0 =>
            stored[plan[c].name] = SubSeq(Stream(c), behind + 2, offered[c])]_vars

\* Every client that is connected is served or turned away, or the process has ended,
\* although each transfer blocks all others, as long as the array has not overflowed;
\* only in phase 4 a connection that gave an unknown operation, or none before it was
\* gone, is forgotten without being closed.
ConnectionsServed ==
  \A c \in Conns :
    socket[c] = "queued" ~>
      \/ place = "undefined" \/ socket[c] = "closed"
      \/ socket[c] = "lost" /\ phase = 4 /\ (plan[c].op \in {"other", "none"} \/ ended[c])

=============================================================================
