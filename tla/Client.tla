------------------------------- MODULE Client -------------------------------
(***************************************************************************)
(* tcp_file_client.  Each connection is one run of the program: it makes   *)
(* one GET or PUT and exits.  All its socket calls block, so a run is a    *)
(* sequence of stages.  plan[c].line is the request it sends; for a PUT    *)
(* the size in it is what file_size said, and plan[c].payload is how many  *)
(* bytes the file turned out to hold when it was read.                     *)
(*                                                                         *)
(* What is sent to a connection its server has closed is lost, and makes   *)
(* the server's kernel reset it.                                           *)
(***************************************************************************)
EXTENDS Transport, FiniteSets, SequencesExt

CONSTANTS
  Destination,     \* connection |-> the local path it downloads to
  InitialLocals,   \* the local files that may be there at first: path |-> bytes
  ClientBuffer,    \* kBufferSize, in tokens
  MaxResponseLine, \* kMaxResponseLine, in tokens
  LocalFaults      \* what may go wrong on the client's side, of LocalFaultKinds

LocalFaultKinds == {"connect", "open", "write", "rename", "remove", "kill"}

ASSUME ClientConstants ==
  /\ ClientBuffer \in Nat \ {0}
  /\ MaxResponseLine \in Nat
  /\ LocalFaults \subseteq LocalFaultKinds
  /\ {"read", "shut"} \subseteq Events

\* No run downloads to a path that is the temporary path of a run.
ASSUME PathsApart ==
  \A c, d \in Conns : Destination[c] # <<Destination[d], "part">>

VARIABLES
  stage,     \* connection |-> where its run is
  received,  \* tokens of sent the run has received
  buffered,  \* buffered_ of its BufferedSocketReader
  remaining, \* copy_exactly's remaining
  status,    \* the exit status of the run, "running" before
  local      \* path |-> bytes: the local files

clientVars == <<stage, received, buffered, remaining, status, local>>

Stages == {"start", "request", "response", "copying", "uploading", "confirm", "end"}

IsPut(c)      == plan[c].line[1] = "PUT"
Announced(c)  == plan[c].line[3]
PartOf(path)  == <<path, "part">>
Part(c)       == PartOf(Destination[c])
RequestEnd(c) == Len(RequestTokens(plan[c].line))

ClientInit ==
  /\ stage = [c \in Conns |-> "start"]
  /\ received = [c \in Conns |-> 0]
  /\ buffered = [c \in Conns |-> <<>>]
  /\ remaining = [c \in Conns |-> 0]
  /\ status = [c \in Conns |-> "running"]
  /\ local \in InitialLocals

-----------------------------------------------------------------------------
(***************************************************************************)
(* The end of a run: main closes the socket.                               *)
(***************************************************************************)
To(c, next) == stage' = [stage EXCEPT ![c] = next]

Exit(c, code) ==
  /\ To(c, "end")
  /\ status' = [status EXCEPT ![c] = code]
  /\ IF Connected(c) /\ peer[c] = "open" THEN PeerShut(c) ELSE UNCHANGED transportVars

LocalWithout(path) == [p \in DOMAIN local \ {path} |-> local[p]]

\* Mistake: the unfinished file stays.
AbandonLeavingPart(c) ==
  /\ Exit(c, "failed")
  /\ UNCHANGED <<received, buffered, remaining, local>>

\* run_get removes its temporary file, whether that succeeds or not, and fails.
Abandon(c) ==
  /\ Exit(c, "failed")
  /\ local' = LocalWithout(Part(c)) \/ ("remove" \in LocalFaults /\ local' = local)
  /\ UNCHANGED <<received, buffered, remaining>>

\* Returning false before a local file was opened.
GiveUp(c) ==
  /\ Exit(c, "failed")
  /\ UNCHANGED <<received, buffered, remaining, local>>

-----------------------------------------------------------------------------
(***************************************************************************)
(* connect_to_server and send_all.                                         *)
(***************************************************************************)
\* One run at a time downloads to a destination.
Alone(c) == \A d \in Conns \ {c} :
              Destination[d] = Destination[c] => stage[d] \in {"start", "end"}

Open(c) ==
  /\ stage[c] = "start" /\ Alone(c)
  /\ Connect(c)
  /\ To(c, "request")
  /\ UNCHANGED <<received, buffered, remaining, status, local>>

\* No server listens there, or the name does not resolve.
CannotConnect(c) ==
  /\ stage[c] = "start" /\ "connect" \in LocalFaults
  /\ To(c, "end")
  /\ status' = [status EXCEPT ![c] = "unconnected"]
  /\ UNCHANGED <<transportVars, received, buffered, remaining, local>>

\* The source of a PUT is not a regular readable file.
CannotRead(c) ==
  /\ stage[c] = "request" /\ offered[c] = 0
  /\ IsPut(c) /\ "open" \in LocalFaults
  /\ GiveUp(c)

\* The stream position the current send_all goes up to.
SendGoal(c) ==
  CASE stage[c] = "request"   -> RequestEnd(c)
    [] stage[c] = "uploading" -> Len(Stream(c))

ToSend(c) == stage[c] \in {"request", "uploading"} /\ offered[c] < SendGoal(c)

Send(c) ==
  /\ ToSend(c)
  /\ PeerSend(c) /\ offered'[c] <= SendGoal(c)
  /\ UNCHANGED clientVars

AfterSend(c) == IF stage[c] = "request" THEN "response" ELSE "confirm"

\* sent_bytes = size, once the file is sent.
CountsAgree(c) == stage[c] = "uploading" => plan[c].payload = Announced(c)

\* The request is sent; or the file is, and the count of its bytes is checked.
SentAll(c) ==
  /\ stage[c] \in {"request", "uploading"} /\ offered[c] = SendGoal(c)
  /\ IF CountsAgree(c)
     THEN /\ To(c, AfterSend(c))
          /\ UNCHANGED <<transportVars, received, buffered, remaining, status, local>>
     ELSE GiveUp(c)

\* The server has closed its end: what is sent is lost, or send fails.
SendToClosed(c) ==
  /\ ToSend(c) /\ socket[c] = "closed"
  /\ \/ GiveUp(c)
     \/ /\ CountsAgree(c)
        /\ To(c, AfterSend(c))
        /\ UNCHANGED <<transportVars, received, buffered, remaining, status, local>>

-----------------------------------------------------------------------------
(***************************************************************************)
(* BufferedSocketReader.  A recv takes any part of what was sent and not   *)
(* yet received, at most a buffer of it.                                   *)
(***************************************************************************)
HasLine(c) == \E i \in DOMAIN buffered[c] : buffered[c][i] = Newline

TooLong(c) == ~HasLine(c) /\ Len(buffered[c]) > MaxResponseLine

\* Mistake: bytes that came with the response line are not used first.
ReceivingAlways(c) ==
  \/ stage[c] \in {"response", "confirm"} /\ ~HasLine(c) /\ ~TooLong(c)
  \/ stage[c] = "copying" /\ remaining[c] > 0

\* recv is called: in read_line without a line yet, in copy_exactly with an
\* empty buffer.
Receiving(c) ==
  \/ stage[c] \in {"response", "confirm"} /\ ~HasLine(c) /\ ~TooLong(c)
  \/ stage[c] = "copying" /\ remaining[c] > 0 /\ buffered[c] = <<>>

\* The kernel of a server that closed a socket with bytes unread, or got more
\* for it, resets the connection: what was on its way may not arrive.
Broken(c) ==
  /\ socket[c] = "closed"
  /\ \/ Waiting(c) > 0
     \/ offered[c] < (IF stage[c] = "confirm" THEN Len(Stream(c)) ELSE RequestEnd(c))

Recv(c) ==
  /\ Receiving(c)
  /\ \E n \in (received[c] + 1)..Len(sent[c]) :
       /\ n - received[c] <= ClientBuffer
       /\ received' = [received EXCEPT ![c] = n]
       /\ buffered' = [buffered EXCEPT ![c] = @ \o SubSeq(sent[c], received[c] + 1, n)]
       /\ IF socket[c] = "open"
          THEN PeerRead(c) /\ taken'[c] = n
          ELSE UNCHANGED transportVars
  /\ UNCHANGED <<stage, remaining, status, local>>

\* Mistake: the end of the connection is taken for the end of the file.
RecvEndsFile(c) ==
  /\ Receiving(c)
  /\ socket[c] = "closed" /\ (received[c] = Len(sent[c]) \/ Broken(c))
  /\ IF stage[c] = "copying"
     THEN /\ remaining' = [remaining EXCEPT ![c] = 0]
          /\ UNCHANGED <<transportVars, stage, received, buffered, status, local>>
     ELSE GiveUp(c)

\* Mistake: recv is called again after it has returned 0.
RecvEndsRetried(c) ==
  /\ Receiving(c)
  /\ socket[c] = "closed" /\ (received[c] = Len(sent[c]) \/ Broken(c))
  /\ UNCHANGED <<transportVars, clientVars>>

\* recv returned 0 or an error.
RecvEnds(c) ==
  /\ Receiving(c)
  /\ socket[c] = "closed" /\ (received[c] = Len(sent[c]) \/ Broken(c))
  /\ IF stage[c] = "copying" THEN Abandon(c) ELSE GiveUp(c)

\* The line read_line returns, without its newline, and what it leaves.
LineEnd(c)   == CHOOSE i \in DOMAIN buffered[c] :
                  /\ buffered[c][i] = Newline
                  /\ \A j \in 1..(i - 1) : buffered[c][j] # Newline
TakeLine(c)  == buffered' = [buffered EXCEPT ![c] = SubSeq(@, LineEnd(c) + 1, Len(@))]
Response(c)  == SubSeq(buffered[c], 1, LineEnd(c) - 1)
IsOk(c)      == Len(Response(c)) = 1 /\ Response(c)[1].kind = "ok"
OkSize(c)    == Response(c)[1].size

LineTooLong(c) ==
  /\ stage[c] \in {"response", "confirm"} /\ TooLong(c)
  /\ GiveUp(c)

-----------------------------------------------------------------------------
(***************************************************************************)
(* run_get, once it has the response line.                                 *)
(***************************************************************************)
\* Mistake: the destination is not looked for.
FreeAnyway(c) == Part(c) \notin DOMAIN local

Free(c) == Destination[c] \notin DOMAIN local /\ Part(c) \notin DOMAIN local

StartDownload(c) ==
  /\ stage[c] = "response" /\ ~IsPut(c) /\ HasLine(c)
  /\ \/ /\ IsOk(c) /\ Free(c)
        /\ TakeLine(c)
        /\ remaining' = [remaining EXCEPT ![c] = OkSize(c)]
        /\ local' = [p \in DOMAIN local \cup {Part(c)} |->
                       IF p = Part(c) THEN <<>> ELSE local[p]]
        /\ To(c, "copying")
        /\ UNCHANGED <<transportVars, received, status>>
     \/ /\ ~IsOk(c) \/ ~Free(c) \/ "open" \in LocalFaults
        /\ GiveUp(c)

\* Mistake: all that is buffered is written.
CountAll(c) == Len(buffered[c])

\* The bytes one turn of copy_exactly writes.
Count(c) == IF remaining[c] < Len(buffered[c]) THEN remaining[c] ELSE Len(buffered[c])

Copy(c) ==
  /\ stage[c] = "copying" /\ remaining[c] > 0 /\ buffered[c] # <<>>
  /\ \/ /\ local' = [local EXCEPT ![Part(c)] = @ \o SubSeq(buffered[c], 1, Count(c))]
        /\ buffered' = [buffered EXCEPT ![c] = SubSeq(@, Count(c) + 1, Len(@))]
        /\ remaining' = [remaining EXCEPT ![c] = @ - Count(c)]
        /\ UNCHANGED <<transportVars, stage, received, status>>
     \/ "write" \in LocalFaults /\ Abandon(c)

FinishDownload(c) ==
  /\ stage[c] = "copying" /\ remaining[c] = 0
  /\ \/ /\ local' = [p \in (DOMAIN local \ {Part(c)}) \cup {Destination[c]} |->
                       IF p = Destination[c] THEN local[Part(c)] ELSE local[p]]
        /\ Exit(c, "done")
        /\ UNCHANGED <<received, buffered, remaining>>
     \/ LocalFaults \cap {"write", "rename"} # {} /\ Abandon(c)

-----------------------------------------------------------------------------
(***************************************************************************)
(* run_put, at its two response lines.                                     *)
(***************************************************************************)
\* Mistake: READY is not waited for.
StartUploadAtOnce(c) ==
  /\ stage[c] = "response" /\ IsPut(c)
  /\ To(c, "uploading")
  /\ UNCHANGED <<transportVars, received, buffered, remaining, status, local>>

StartUpload(c) ==
  /\ stage[c] = "response" /\ IsPut(c) /\ HasLine(c)
  /\ IF Response(c) = <<ReadyHead>>
     THEN /\ TakeLine(c)
          /\ To(c, "uploading")
          /\ UNCHANGED <<transportVars, received, remaining, status, local>>
     ELSE GiveUp(c)

Confirms(c) == IsOk(c) /\ OkSize(c) = Announced(c)

FinishUpload(c) ==
  /\ stage[c] = "confirm" /\ HasLine(c)
  /\ Exit(c, IF Confirms(c) THEN "done" ELSE "failed")
  /\ UNCHANGED <<received, buffered, remaining, local>>

-----------------------------------------------------------------------------
\* The process is killed.
KillClient(c) ==
  /\ "kill" \in LocalFaults
  /\ stage[c] \notin {"start", "end"}
  /\ Exit(c, "killed")
  /\ UNCHANGED <<received, buffered, remaining, local>>

\* Bytes for a socket its run has closed, or closed without receiving them,
\* make the client's kernel reset the connection.
ResetAfterExit(c) ==
  /\ stage[c] = "end" /\ received[c] < Len(sent[c])
  /\ PeerReset(c)
  /\ UNCHANGED clientVars

\* What the run of c does by itself.
Run(c) ==
  \/ Open(c) \/ Send(c) \/ SentAll(c) \/ SendToClosed(c)
  \/ Recv(c) \/ RecvEnds(c) \/ LineTooLong(c)
  \/ StartDownload(c) \/ Copy(c) \/ FinishDownload(c)
  \/ StartUpload(c) \/ FinishUpload(c)

ClientStep(c) == Run(c) \/ CannotConnect(c) \/ CannotRead(c) \/ KillClient(c) \/ ResetAfterExit(c)

\* The client's part in any system it is in.
ClientSpec == ClientInit /\ [][\E c \in Conns : ClientStep(c)]_clientVars

-----------------------------------------------------------------------------
\* No more is received than was sent, and no more copied than was announced (the
\* unsigned remaining of copy_exactly).
ClientTypeOK ==
  /\ stage \in [Conns -> Stages]
  /\ \A c \in Conns : received[c] \in 0..Len(sent[c])
  /\ remaining \in [Conns -> Nat]
  /\ status \in [Conns -> {"running", "done", "failed", "unconnected", "killed"}]

=============================================================================
