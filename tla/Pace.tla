-------------------------------- MODULE Pace --------------------------------
(***************************************************************************)
(* The system with --delay-ms: a client sleeps after each chunk of a file  *)
(* it has received or sent, while the server closes connections that are   *)
(* idle for longer than kIdleTimeout.                                      *)
(*                                                                         *)
(* Both programs go on at once whenever they can, and time passes by units *)
(* while they wait, so that units measure how long a client sleeps and a   *)
(* connection is idle; until a program is held up, at any point, for       *)
(* longer than the timeout.                                                *)
(***************************************************************************)
EXTENDS System

CONSTANT Delay \* options.delay_ms, in units of time

ASSUME PaceConstant == Delay \in Nat

VARIABLES
  nap,   \* connection |-> how long its run still sleeps
  timely \* no program was held up

paceVars == <<systemVars, nap, timely>>

PaceInit == SystemInit /\ nap = [c \in Conns |-> 0] /\ timely = TRUE

\* The run of c has copied or sent a chunk.
ChunkDone(c) ==
  \/ stage[c] = "copying" /\ remaining'[c] < remaining[c]
  \/ stage[c] = "uploading" /\ offered'[c] > offered[c]

\* sleep_for sleeps at least as long as it is told to.
PacedStep(c) ==
  /\ nap[c] = 0
  /\ RunStep(c)
  /\ IF timely /\ ChunkDone(c)
     THEN \E late \in 0..1 : nap' = [nap EXCEPT ![c] = Delay + late]
     ELSE UNCHANGED nap
  /\ UNCHANGED timely

\* A send for which there is no room, a recv of what is not there yet, or an exit.
Blocked(c) ==
  \/ /\ ToSend(c) /\ socket[c] # "closed"
     /\ \A upto \in (offered[c] + 1)..SendGoal(c) :
          upto \in Cuts \/ upto = Len(Stream(c)) => upto - consumed[c] > RcvBuf
  \/ Receiving(c) /\ socket[c] # "closed" /\ received[c] = Len(sent[c])
  \/ stage[c] = "end"

\* The server waits in poll or between two polls, and every run that has begun
\* sleeps or waits for it.
Standstill ==
  /\ pc \in {"top", "poll", "down"} /\ backlog = <<>>
  /\ \A c \in ToSet(clients) : Reported(c, requested_events(c)) = {}
  /\ \A c \in Conns : stage[c] = "start" \/ nap[c] > 0 \/ Blocked(c)

TimePasses ==
  /\ Standstill
  /\ \/ ServerAlone(Tick)
     \/ ~(\E c \in ToSet(clients) : client[c].idle <= IdleTimeout) /\ UNCHANGED systemVars
  /\ nap' = [c \in Conns |-> IF nap[c] > 0 THEN nap[c] - 1 ELSE 0]
  /\ UNCHANGED timely

HeldUp ==
  /\ \E c \in ToSet(clients) : client[c].idle <= IdleTimeout
  /\ client' = [c \in Conns |-> IF client[c].fd = None THEN client[c]
                                ELSE [client[c] EXCEPT !.idle = IdleTimeout + 1]]
  /\ nap' = [c \in Conns |-> 0]
  /\ timely' = FALSE
  /\ UNCHANGED <<storageVars, transportVars, loopVars, signalVars, g_upload_sequence, clientVars>>

Unpaced(action) == action /\ UNCHANGED <<nap, timely>>

\* No local call of a client fails, and none is killed: System has that.
PaceNext ==
  \/ Unpaced(ServerAlone(Process)) \/ Unpaced(ServerAlone(Signal \/ Kill))
  \/ TimePasses \/ HeldUp
  \/ \E c \in Conns : PacedStep(c)

\* Both programs are scheduled, and time does not stop.
PaceSpec ==
  /\ PaceInit /\ [][PaceNext]_paceVars
  /\ WF_paceVars(Unpaced(ServerAlone(Process))) /\ WF_paceVars(TimePasses)
  /\ \A c \in Conns : WF_paceVars(PacedStep(c))

-----------------------------------------------------------------------------
\* Every run of the client ends, although it waits without a timeout: the server
\* answers it or closes the connection.
RunsEnd == \A c \in Conns : stage[c] = "request" ~> stage[c] = "end"

\* The idle timeout never cuts off an upload whose client sleeps between chunks for
\* less than the timeout: every chunk the server receives starts it again.
PacedUploadsSucceed ==
  timely /\ pc # "down" =>
    \A c \in Conns : IsPut(c) /\ stage[c] = "end" => status[c] = "done"

-----------------------------------------------------------------------------
\* From every position of its stream a peer can send a segment that the server's
\* receive buffer has room for, once it is empty.
CutsReach(p) ==
  LET request == Len(p.line) + 1
      whole   == request + p.payload
  IN  \A k \in 0..(whole - 1) :
        \E upto \in (k + 1)..(IF k < request THEN request ELSE whole) :
          /\ upto \in Cuts \/ upto = whole
          /\ upto - k <= RcvBuf

\* Nothing but a timeout can make an upload fail: no call fails, every connection is
\* accepted, and each PUT is of a file of the announced size to a name it may take.
UploadsFit ==
  /\ Faults \cap {"fcntl", "open", "write", "close", "rename"} = {}
  /\ IsFiniteSet(Conns) /\ Cardinality(Conns) <= MaxClients
  /\ SndBuf > 0 /\ MaxResponseLine > 0
  /\ \A c \in Conns : \A p \in Plans[c] : p.line[1] = "PUT" =>
       /\ ParseRequest(p.line) = PutRequest(p.line[2], p.payload)
       /\ Len(p.line) <= MaxRequestLine
       /\ p.line[2] \notin OfKind("directory")
       /\ CutsReach(p)

\* What a remote name links is what it linked at first, or an upload.
RootInv == \A n \in Names \cap DOMAIN entry : entry[n] = n \/ entry[n] \in Conns

\* The server is on its way to store the upload of c.
Attended(c) ==
  LET cl == client[c] IN
  /\ cl.state \in {"AwaitingRequest", "SendingReady", "ReceivingFile", "SendingResult"}
  /\ cl.state = "AwaitingRequest" => consumed[c] < RequestEnd(c)
  /\ cl.state = "ReceivingFile" => cl.transferred_bytes < cl.expected_bytes
  /\ cl.state \in {"SendingReady", "SendingResult"} => cl.pending_output # <<>>
  /\ cl.state = "SendingResult" => consumed[c] = Len(Stream(c))

\* c was idle, and will be, for no longer than a sleep between two chunks.
InTime(c) ==
  /\ client[c].idle <= Delay + 1
  /\ Waiting(c) = 0 => client[c].idle + nap[c] <= Delay + 1

\* An upload goes on as it should.
Going(c) ==
  /\ nap[c] \in 0..(Delay + 1)
  /\ nap[c] > 0 => stage[c] = "uploading"
  /\ peer[c] = "open"
  /\ stage[c] = "start" => socket[c] = "none"
  /\ stage[c] = "response" => offered[c] = RequestEnd(c)
  /\ stage[c] = "confirm" => offered[c] = Len(Stream(c))
  /\ socket[c] = "open" => taken[c] = received[c] /\ Attended(c) /\ InTime(c)
  /\ socket[c] = "closed" =>
       /\ sent[c] = Line(ReadyHead) \o Line(OkHead(Announced(c)))
       /\ consumed[c] = Len(Stream(c))

\* What PacedUploadsSucceed needs besides the invariants of the server and the clients.
PacedInv ==
  timely /\ pc # "down" =>
    /\ RootInv
    /\ \A c \in Conns : IsPut(c) => IF stage[c] = "end" THEN status[c] = "done" ELSE Going(c)

=============================================================================
