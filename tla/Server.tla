------------------------------- MODULE Server -------------------------------
(***************************************************************************)
(* tcp_file_server: one poll(2) loop that moves every connection through   *)
(* its state machine.  pc is the place in the loop of main; every function *)
(* handle_client_event calls is an action; a signal, the peers, time and a *)
(* kill of the process may come between any two of them.                   *)
(*                                                                         *)
(* A definition marked "mistake" is a faulty variant of the one after it.  *)
(* No specification uses it: it stands in for that definition when the     *)
(* properties are tried on a server that has the mistake.                  *)
(***************************************************************************)
EXTENDS Storage, Transport, FiniteSets, SequencesExt

CONSTANTS
  MaxClients,  \* kMaxClients
  BufferSize,  \* kBufferSize, in tokens
  IdleTimeout, \* kIdleTimeout, in ticks
  Faults,      \* calls the operating system may fail, of FaultKinds
  HupOnShut,   \* TRUE where poll reports POLLHUP once the peer shut down sending
  MaxStarts    \* bound: how often the process is started

FaultKinds ==
  {"poll", "accept", "fcntl", "stat", "open", "read", "write", "close", "rename", "remove"}

ASSUME ServerConstants ==
  /\ MaxClients \in Nat \ {0}
  /\ BufferSize \in Nat \ {0}
  /\ IdleTimeout \in Nat
  /\ Faults \subseteq FaultKinds
  /\ HupOnShut \in BOOLEAN
  /\ Events \subseteq EventKinds
  /\ MaxStarts \in Nat

VARIABLES
  pc,                \* place in main's loop
  g_stop,
  g_upload_sequence,
  clients,           \* the vector of clients, by connection
  client,            \* connection |-> its Client struct
  poll_fds,          \* the pollfd array without its first element
  listener_ready,    \* POLLIN in the first element
  index,             \* the for loop over the existing clients
  starts             \* processes started so far

loopVars   == <<pc, clients, poll_fds, listener_ready, index>>
signalVars == <<g_stop, starts>>
vars == <<storageVars, transportVars, loopVars, signalVars, g_upload_sequence, client>>

-----------------------------------------------------------------------------
(***************************************************************************)
(* The Client struct.  pending_output and file_buffer hold only what is    *)
(* still to be sent, which is what the code's buffers hold beyond their    *)
(* offsets.  A file is closed (None) or the file it has open.  idle is     *)
(* now - last_activity.                                                    *)
(***************************************************************************)
ClientState == {"AwaitingRequest", "SendingGetHeader", "SendingFile", "SendingReady",
                "ReceivingFile", "SendingResult", "SendingError"}

NewClient ==
  [fd |-> None, state |-> "AwaitingRequest", request_buffer |-> <<>>,
   pending_output |-> <<>>, file_buffer |-> <<>>, input_file |-> None,
   output_file |-> None, temporary_path |-> None, final_path |-> None,
   expected_bytes |-> 0, transferred_bytes |-> 0, idle |-> 0]

NeedsRead(state) == state \in {"AwaitingRequest", "ReceivingFile"}

requested_events(c) == IF NeedsRead(client[c].state) THEN "IN" ELSE "OUT"

\* Mistake: activity does not count.
note_activity_never(idle) == idle

\* The idle time of a client that has just received or sent something.
note_activity(idle) == 0

Least(a, b) == IF a < b THEN a ELSE b

\* The vector after erase(remove_if(fd < 0)): those in keep, in their order.
Erased(keep) ==
  {s \in SeqOf(keep, Len(clients)) :
     /\ ToSet(s) = ToSet(clients) \cap keep
     /\ \A i, j \in DOMAIN s : i < j =>
          \E p, q \in DOMAIN clients : p < q /\ clients[p] = s[i] /\ clients[q] = s[j]}

\* remove_temporary_file, of the paths in P: nobody looks at a remove that fails.
Removed(P) ==
  \/ entry' = Without(P)
  \/ "remove" \in Faults /\ \E gone \in SUBSET P : entry' = Without(gone)

\* Mistake: the file of an unfinished upload stays.
CloseClientsLeavingFiles(closing) ==
  /\ client' = [c \in Conns |-> IF c \in closing THEN NewClient ELSE client[c]]
  /\ socket' = [c \in Conns |-> IF c \in closing THEN "closed" ELSE socket[c]]
  /\ entry'  = entry

\* Mistake: fd is not set to -1.
CloseClientsKeepingFd(closing) ==
  /\ client' = client
  /\ socket' = [c \in Conns |-> IF c \in closing THEN "closed" ELSE socket[c]]
  /\ entry'  = Without({client[c].temporary_path : c \in closing})

\* close_client: the files and the socket are closed, the temporary file is
\* removed.  Nothing of the struct is read again before it is erased.
CloseClients(closing) ==
  /\ client' = [c \in Conns |-> IF c \in closing THEN NewClient ELSE client[c]]
  /\ socket' = [c \in Conns |-> IF c \in closing THEN "closed" ELSE socket[c]]
  /\ Removed({client[c].temporary_path : c \in closing})

\* Mistake: output_file stays open.
ErroredWhileOpen(r, why) ==
  [r EXCEPT !.input_file = None, !.temporary_path = None,
            !.pending_output = Line(ErrHead(why)), !.state = "SendingError"]

\* queue_error, on the struct r that c has by then.
Errored(r, why) ==
  [r EXCEPT !.input_file = None, !.output_file = None, !.temporary_path = None,
            !.pending_output = Line(ErrHead(why)), !.state = "SendingError"]

\* Mistake: the temporary file stays.
QueueErrorLeavingFile(c, r, why) ==
  /\ client' = [client EXCEPT ![c] = Errored(r, why)]
  /\ entry' = entry

QueueError(c, r, why) ==
  /\ client' = [client EXCEPT ![c] = Errored(r, why)]
  /\ Removed({r.temporary_path})

Update(c, r) ==
  /\ client' = [client EXCEPT ![c] = r]
  /\ entry' = entry

-----------------------------------------------------------------------------
(***************************************************************************)
(* The stages of handle_client_event for clients[index]: the read half,    *)
(* the write half, the hang-up check, then on to the next client.          *)
(***************************************************************************)
Current(c) == index \in DOMAIN poll_fds /\ clients[index] = c
revents    == poll_fds[index].revents

NextClient ==
  /\ pc' = "dispatch"
  /\ index' = index + 1
  /\ UNCHANGED <<clients, poll_fds, listener_ready>>

Continue(stage) ==
  IF "HUP" \in revents
  THEN pc' = stage /\ UNCHANGED <<clients, poll_fds, listener_ready, index>>
  ELSE NextClient

\* Mistake: the client leaves the vector in the middle of the loop.
FailErasing(c) ==
  /\ CloseClients({c})
  /\ clients' = SelectSeq(clients, LAMBDA d : d # c)
  /\ pc' = "dispatch" /\ index' = index + 1
  /\ UNCHANGED <<poll_fds, listener_ready>>

\* A handler returned false, or the event is an error: close_client.
Fail(c) == CloseClients({c}) /\ NextClient

-----------------------------------------------------------------------------
(***************************************************************************)
(* complete_upload: close, rename onto the final name, queue the result.   *)
(***************************************************************************)
RenameFails(r) == r.final_path \in DOMAIN entry /\ IsDirectory(entry[r.final_path])

\* Mistake: the rename is forgotten, the answer is OK.
CompleteUploadUnstored(c, r) ==
  /\ entry' = Without({r.temporary_path})
  /\ client' = [client EXCEPT ![c] =
       [r EXCEPT !.output_file = None, !.temporary_path = None,
                 !.pending_output = Line(OkHead(r.expected_bytes)),
                 !.state = "SendingResult"]]

\* Mistake: the old file is removed first, in case rename does not replace it.
CompleteUploadRemovingFirst(c, r) ==
  \/ /\ ~RenameFails(r)
     /\ entry' = Renamed(r.temporary_path, r.final_path)
     /\ client' = [client EXCEPT ![c] =
          [r EXCEPT !.output_file = None, !.temporary_path = None,
                    !.pending_output = Line(OkHead(r.expected_bytes)),
                    !.state = "SendingResult"]]
  \/ /\ "close" \in Faults \/ "rename" \in Faults \/ RenameFails(r)
     /\ client' = [client EXCEPT ![c] = Errored(r, "storage-failure")]
     /\ entry' = Without({r.temporary_path, r.final_path})

CompleteUpload(c, r) ==
  \/ /\ ~RenameFails(r)
     /\ entry' = Renamed(r.temporary_path, r.final_path)
     /\ client' = [client EXCEPT ![c] =
          [r EXCEPT !.output_file = None, !.temporary_path = None,
                    !.pending_output = Line(OkHead(r.expected_bytes)),
                    !.state = "SendingResult"]]
  \/ /\ "close" \in Faults \/ "rename" \in Faults \/ RenameFails(r)
     /\ QueueError(c, r, "storage-failure")

(***************************************************************************)
(* start_request.                                                          *)
(***************************************************************************)
StartGet(c, r, name) ==
  /\ \/ /\ name \notin Retrievable \/ "stat" \in Faults
        /\ QueueError(c, r, "not-found")
     \/ /\ name \in Retrievable /\ "open" \in Faults
        /\ QueueError(c, r, "not-readable")
     \/ /\ name \in Retrievable
        /\ LET size == Len(content[entry[name]]) IN
             Update(c, [r EXCEPT !.input_file = entry[name], !.expected_bytes = size,
                                 !.transferred_bytes = 0,
                                 !.pending_output = Line(OkHead(size)),
                                 !.state = "SendingGetHeader"])
  /\ UNCHANGED <<content, g_upload_sequence>>

\* Mistake: every upload has the same temporary name.
SharedTempPath(fd, sequence) == <<CHOOSE n \in Fds : TRUE, 0>>

TempPath(fd, sequence) == <<fd, sequence>>

\* Mistake: the upload is written to the file it replaces.
StartPutInPlace(c, r, name, size) ==
  LET file == IF name \in DOMAIN entry THEN entry[name] ELSE c
      put  == [r EXCEPT !.expected_bytes = size, !.transferred_bytes = 0,
                        !.final_path = name, !.temporary_path = name]
  IN  /\ g_upload_sequence' = g_upload_sequence + 1
      /\ client' = [client EXCEPT ![c] =
           [put EXCEPT !.output_file = file, !.pending_output = Line(ReadyHead),
                       !.state = "SendingReady"]]
      /\ entry' = With(name, file)
      /\ content' = [content EXCEPT ![file] = <<>>]

\* Mistake: the file is opened without trunc.
StartPutAppending(c, r, name, size) ==
  LET path == TempPath(r.fd, g_upload_sequence + 1)
      file == IF path \in DOMAIN entry THEN entry[path] ELSE c
      put  == [r EXCEPT !.expected_bytes = size, !.transferred_bytes = 0,
                        !.final_path = name, !.temporary_path = path]
  IN  /\ g_upload_sequence' = g_upload_sequence + 1
      /\ client' = [client EXCEPT ![c] =
           [put EXCEPT !.output_file = file, !.pending_output = Line(ReadyHead),
                       !.state = "SendingReady"]]
      /\ entry' = With(path, file)
      /\ UNCHANGED content

\* Opening with trunc creates the file, or empties the one already there.
StartPut(c, r, name, size) ==
  LET path == TempPath(r.fd, g_upload_sequence + 1)
      file == IF path \in DOMAIN entry THEN entry[path] ELSE c
      put  == [r EXCEPT !.expected_bytes = size, !.transferred_bytes = 0,
                        !.final_path = name, !.temporary_path = path]
  IN  /\ g_upload_sequence' = g_upload_sequence + 1
      /\ \/ /\ client' = [client EXCEPT ![c] =
                 [put EXCEPT !.output_file = file, !.pending_output = Line(ReadyHead),
                             !.state = "SendingReady"]]
            /\ entry' = With(path, file)
            /\ content' = [content EXCEPT ![file] = <<>>]
         \/ /\ "open" \in Faults
            /\ QueueError(c, put, "storage-failure")
            /\ UNCHANGED content

-----------------------------------------------------------------------------
(***************************************************************************)
(* The read half.  recv takes what has arrived, at most a buffer of it.    *)
(***************************************************************************)
Received(c) == Least(Waiting(c), BufferSize)
Chunk(c)    == SubSeq(Stream(c), consumed[c] + 1, consumed[c] + Received(c))

\* recv returned 0 or an error.
ReceiveEnds(c) ==
  /\ \/ Waiting(c) = 0 /\ peer[c] = "shut"
     \/ peer[c] = "reset"
  /\ Fail(c)
  /\ UNCHANGED <<consumed, content, g_upload_sequence>>

handle_request_readable(c) ==
  LET buffer  == client[c].request_buffer \o Chunk(c)
      request == RequestIn(buffer)
      got     == [client[c] EXCEPT !.request_buffer = buffer,
                                      !.idle = note_activity(@)]
      start   == [got EXCEPT !.request_buffer = <<>>]
  IN  /\ client[c].state = "AwaitingRequest"
      /\ \/ /\ request.error = "incomplete"
            /\ Update(c, got)
            /\ UNCHANGED <<content, g_upload_sequence>>
         \/ /\ request.error \notin {"incomplete", "none"}
            /\ QueueError(c, got, request.error)
            /\ UNCHANGED <<content, g_upload_sequence>>
         \/ /\ request.operation = "Get"
            /\ StartGet(c, start, request.filename)
         \/ /\ request.operation = "Put"
            /\ StartPut(c, start, request.filename, request.size)

\* Mistake: all that was received counts.
AcceptedAll(c) == Received(c)

\* Bytes beyond the declared size are received but not written.
Accepted(c) == Least(client[c].expected_bytes - client[c].transferred_bytes, Received(c))

handle_upload_readable(c) ==
  LET cl       == client[c]
      accepted == Accepted(c)
      got      == [cl EXCEPT !.idle = note_activity(@)]
      wrote    == [got EXCEPT !.transferred_bytes = @ + accepted]
  IN  /\ cl.state = "ReceivingFile"
      /\ \/ /\ content' = [content EXCEPT ![cl.output_file] =
                             @ \o SubSeq(Chunk(c), 1, accepted)]
            /\ \/ /\ accepted # Received(c)
                  /\ QueueError(c, wrote, "protocol-error")
               \/ /\ accepted = Received(c)
                  /\ wrote.transferred_bytes = cl.expected_bytes
                  /\ CompleteUpload(c, wrote)
               \/ /\ accepted = Received(c)
                  /\ wrote.transferred_bytes # cl.expected_bytes
                  /\ Update(c, wrote)
         \/ /\ "write" \in Faults
            /\ QueueError(c, got, "storage-failure")
            /\ UNCHANGED content
      /\ UNCHANGED g_upload_sequence

ReceiveData(c) ==
  /\ Waiting(c) > 0
  /\ consumed' = [consumed EXCEPT ![c] = @ + Received(c)]
  /\ handle_request_readable(c) \/ handle_upload_readable(c)
  /\ Continue("write")
  /\ UNCHANGED socket

ReadEvent(c) ==
  /\ pc = "dispatch" /\ Current(c)
  /\ "IN" \in revents /\ "ERR" \notin revents
  /\ ReceiveEnds(c) \/ ReceiveData(c)
  /\ UNCHANGED <<plan, offered, sent, taken, peer, backlog, signalVars>>

-----------------------------------------------------------------------------
(***************************************************************************)
(* The write half.  send takes what fits into the send buffer; a send that *)
(* takes nothing would block.  After a reset it fails.                     *)
(***************************************************************************)
Flushed(c) == Least(SendSpace(c), Len(client[c].pending_output))

\* Mistake: what a short send took is sent again.
AfterFlushAgain(c) ==
  [client[c] EXCEPT !.pending_output = IF Flushed(c) = Len(@) THEN <<>> ELSE @,
                    !.idle = IF Flushed(c) > 0 THEN note_activity(@) ELSE @]

\* flush_pending_output, when no send fails.
AfterFlush(c) ==
  [client[c] EXCEPT
     !.pending_output = SubSeq(@, Flushed(c) + 1, Len(@)),
     !.idle = IF Flushed(c) > 0 THEN note_activity(@) ELSE @]

\* Mistake: one send is taken to be enough.
DrainedAtOnce(c) == Flushed(c) > 0

Drained(c) == Flushed(c) = Len(client[c].pending_output)

SendPending(c) ==
  sent' = [sent EXCEPT ![c] = @ \o SubSeq(client[c].pending_output, 1, Flushed(c))]

WriteGetHeader(c) ==
  /\ client[c].state = "SendingGetHeader"
  /\ SendPending(c)
  /\ IF Drained(c) /\ client[c].expected_bytes = 0
     THEN Fail(c)
     ELSE /\ Update(c, IF Drained(c) THEN [AfterFlush(c) EXCEPT !.state = "SendingFile"]
                                     ELSE AfterFlush(c))
          /\ UNCHANGED socket
          /\ Continue("hangup")

WriteReady(c) ==
  /\ client[c].state = "SendingReady"
  /\ SendPending(c)
  /\ CASE ~Drained(c) -> Update(c, AfterFlush(c))
       [] Drained(c) /\ client[c].expected_bytes = 0 -> CompleteUpload(c, AfterFlush(c))
       [] OTHER -> Update(c, [AfterFlush(c) EXCEPT !.state = "ReceivingFile"])
  /\ UNCHANGED socket
  /\ Continue("hangup")

WriteReply(c) ==
  /\ client[c].state \in {"SendingResult", "SendingError"}
  /\ SendPending(c)
  /\ IF Drained(c)
     THEN Fail(c)
     ELSE Update(c, AfterFlush(c)) /\ UNCHANGED socket /\ Continue("hangup")

(***************************************************************************)
(* handle_file_writable: refill an empty buffer, then one send of what it  *)
(* holds.  The next byte to read is the one after those transferred.  A    *)
(* read that comes up short leaves the stream failed: input_file = None,   *)
(* and nothing more is read from it.                                       *)
(***************************************************************************)
Unread(cl) ==
  LET wanted == Least(cl.expected_bytes - cl.transferred_bytes, BufferSize)
      last   == Least(cl.transferred_bytes + wanted, Len(content[cl.input_file]))
  IN  IF cl.input_file = None THEN <<>>
      ELSE SubSeq(content[cl.input_file], cl.transferred_bytes + 1, last)

\* Mistake: gcount is ignored, the rest of the buffer is stale.
ReadIntoWhole(cl, data) ==
  LET wanted == Least(cl.expected_bytes - cl.transferred_bytes, BufferSize) IN
  [cl EXCEPT !.file_buffer = data \o [i \in 1..(wanted - Len(data)) |-> Byte(None, i)]]

ReadInto(cl, data) ==
  [cl EXCEPT !.file_buffer = data,
             !.input_file = IF Len(data) = Least(cl.expected_bytes - cl.transferred_bytes,
                                                 BufferSize) THEN @ ELSE None]

\* The struct after the refill, for each outcome the read may have.
Refilled(cl) ==
  IF cl.file_buffer # <<>> THEN {cl}
  ELSE LET counts == IF "read" \in Faults THEN 0..Len(Unread(cl)) ELSE {Len(Unread(cl))}
       IN  {ReadInto(cl, SubSeq(Unread(cl), 1, n)) : n \in counts}

WriteFile(c) ==
  /\ client[c].state = "SendingFile"
  /\ \E cl \in Refilled(client[c]) :
       LET n == Least(SendSpace(c), Len(cl.file_buffer)) IN
       IF cl.file_buffer = <<>>
       THEN Fail(c) /\ UNCHANGED sent
       ELSE /\ sent' = [sent EXCEPT ![c] = @ \o SubSeq(cl.file_buffer, 1, n)]
            /\ Update(c, [cl EXCEPT !.file_buffer = SubSeq(@, n + 1, Len(@)),
                                    !.transferred_bytes = @ + n,
                                    !.idle = IF n > 0 THEN note_activity(@) ELSE @])
            /\ UNCHANGED socket
            /\ Continue("hangup")

\* Where handle_client_event has got to when it looks at POLLOUT.
AtWrite == pc = "write" \/ (pc = "dispatch" /\ revents # {} /\ revents \cap {"IN", "ERR"} = {})

WriteEvent(c) ==
  /\ Current(c) /\ AtWrite
  /\ ~NeedsRead(client[c].state)
  /\ \/ /\ peer[c] # "reset"
        /\ WriteGetHeader(c) \/ WriteReady(c) \/ WriteReply(c) \/ WriteFile(c)
     \/ /\ peer[c] = "reset"
        /\ Fail(c)
        /\ UNCHANGED sent
  /\ UNCHANGED <<content, plan, offered, consumed, taken, peer, backlog,
                 signalVars, g_upload_sequence>>

\* POLLHUP: a client that still has something to write stays.
HangUp(c) ==
  /\ Current(c)
  /\ pc = "hangup" \/ (AtWrite /\ NeedsRead(client[c].state))
  /\ IF NeedsRead(client[c].state) THEN Fail(c)
     ELSE NextClient /\ UNCHANGED <<client, socket, entry>>
  /\ UNCHANGED <<content, plan, offered, consumed, sent, taken, peer, backlog,
                 signalVars, g_upload_sequence>>

ErrorEvent(c) ==
  /\ pc = "dispatch" /\ Current(c)
  /\ "ERR" \in revents
  /\ Fail(c)
  /\ UNCHANGED <<content, plan, offered, consumed, sent, taken, peer, backlog,
                 signalVars, g_upload_sequence>>

NoEvent(c) ==
  /\ pc = "dispatch" /\ Current(c)
  /\ revents = {}
  /\ NextClient
  /\ UNCHANGED <<storageVars, transportVars, signalVars, client, g_upload_sequence>>

-----------------------------------------------------------------------------
(***************************************************************************)
(* The rounds of main's loop.                                              *)
(***************************************************************************)
\* Mistake: there is no idle timeout.
ExpiredNever(c) == FALSE

Expired(c) == client[c].idle > IdleTimeout

\* Mistake: g_stop is not looked at.
StartRoundAnyway ==
  /\ pc = "top"
  /\ CloseClients({c \in ToSet(clients) : Expired(c)})
  /\ clients' \in Erased({c \in Conns : ~Expired(c)})
  /\ poll_fds' = [i \in DOMAIN clients' |->
                    [fd |-> client[clients'[i]].fd,
                     events |-> requested_events(clients'[i]), revents |-> {}]]
  /\ pc' = "poll"
  /\ UNCHANGED <<content, plan, offered, consumed, sent, taken, peer, backlog,
                 listener_ready, index, signalVars, g_upload_sequence>>

\* Close and erase the idle clients, fill the pollfd array.
StartRound ==
  /\ pc = "top" /\ ~g_stop
  /\ CloseClients({c \in ToSet(clients) : Expired(c)})
  /\ clients' \in Erased({c \in Conns : ~Expired(c)})
  /\ poll_fds' = [i \in DOMAIN clients' |->
                    [fd |-> client[clients'[i]].fd,
                     events |-> requested_events(clients'[i]), revents |-> {}]]
  /\ pc' = "poll"
  /\ UNCHANGED <<content, plan, offered, consumed, sent, taken, peer, backlog,
                 listener_ready, index, signalVars, g_upload_sequence>>

Reports == {"IN", "OUT", "HUP", "ERR"}

\* What poll reports of connection c when events was asked for.
Reported(c, events) ==
  IF peer[c] = "reset" THEN {"ERR"}
  ELSE LET hangup == HupOnShut /\ peer[c] = "shut" IN
       (IF events = "IN" /\ (Waiting(c) > 0 \/ peer[c] = "shut") THEN {"IN"} ELSE {})
         \cup (IF events = "OUT" /\ SendSpace(c) > 0 /\ ~hangup THEN {"OUT"} ELSE {})
         \cup (IF hangup THEN {"HUP"} ELSE {})

NothingReady ==
  backlog = <<>> /\ \A i \in DOMAIN poll_fds : Reported(clients[i], poll_fds[i].events) = {}

PollReady ==
  /\ pc = "poll" /\ ~NothingReady
  /\ pc' = "dispatch"
  /\ poll_fds' = [i \in DOMAIN poll_fds |->
       [poll_fds[i] EXCEPT !.revents = Reported(clients[i], poll_fds[i].events)]]
  /\ listener_ready' = (backlog # <<>>)
  /\ index' = 1
  /\ UNCHANGED <<storageVars, transportVars, signalVars, client, clients, g_upload_sequence>>

\* poll times out, or a signal interrupts it, or it fails.
PollReturns ==
  /\ pc = "poll"
  /\ \/ (NothingReady \/ g_stop) /\ pc' = "top"
     \/ ("poll" \in Faults) /\ pc' = "exit"
  /\ poll_fds' = <<>>
  /\ UNCHANGED <<storageVars, transportVars, signalVars, client, clients,
                 listener_ready, index, g_upload_sequence>>

\* Mistake: a round without clients ends before the listener is looked at.
EndRoundDeaf ==
  /\ pc = "dispatch" /\ index > Len(poll_fds)
  /\ clients' \in Erased({c \in Conns : client[c].fd # None})
  /\ pc' = IF listener_ready /\ poll_fds # <<>> THEN "accept" ELSE "top"
  /\ poll_fds' = <<>> /\ listener_ready' = FALSE /\ index' = 1
  /\ UNCHANGED <<storageVars, transportVars, signalVars, client, g_upload_sequence>>

\* Erase what the round closed; poll_fds ends with the round.
EndRound ==
  /\ pc = "dispatch" /\ index > Len(poll_fds)
  /\ clients' \in Erased({c \in Conns : client[c].fd # None})
  /\ pc' = IF listener_ready THEN "accept" ELSE "top"
  /\ poll_fds' = <<>> /\ listener_ready' = FALSE /\ index' = 1
  /\ UNCHANGED <<storageVars, transportVars, signalVars, client, g_upload_sequence>>

-----------------------------------------------------------------------------
(***************************************************************************)
(* accept_connections.  Which free number accept returns depends on the    *)
(* files open by then.                                                     *)
(***************************************************************************)
FreeFds == Fds \ {client[c].fd : c \in Conns}

\* Mistake: one client too many.
FullTooLate == Len(clients) > MaxClients

Full == Len(clients) >= MaxClients

Accept ==
  /\ pc = "accept" /\ backlog # <<>> /\ FreeFds # {}
  /\ LET c == Head(backlog) IN
       \/ /\ Full \/ "fcntl" \in Faults
          /\ socket' = [socket EXCEPT ![c] = "closed"]
          /\ UNCHANGED <<client, clients>>
       \/ /\ ~Full
          /\ socket' = [socket EXCEPT ![c] = "open"]
          /\ \E fd \in FreeFds : client' = [client EXCEPT ![c] = [NewClient EXCEPT !.fd = fd]]
          /\ clients' = Append(clients, c)
  /\ backlog' = Tail(backlog)
  /\ UNCHANGED <<storageVars, plan, offered, consumed, sent, taken, peer, signalVars,
                 pc, poll_fds, listener_ready, index, g_upload_sequence>>

\* Nobody is waiting, or accept fails: no descriptor is left, or a fault.
AcceptEnds ==
  /\ pc = "accept"
  /\ backlog = <<>> \/ FreeFds = {} \/ "accept" \in Faults
  /\ pc' = "top"
  /\ UNCHANGED <<storageVars, transportVars, signalVars, client, clients, poll_fds,
                 listener_ready, index, g_upload_sequence>>

-----------------------------------------------------------------------------
(***************************************************************************)
(* The end of the process, and its next start on the same storage root.    *)
(***************************************************************************)
Signal ==
  /\ "signal" \in Events /\ pc # "down" /\ ~g_stop
  /\ g_stop' = TRUE
  /\ UNCHANGED <<storageVars, transportVars, loopVars, starts, client, g_upload_sequence>>

\* The process has ended, and with it its sockets and those not yet accepted.
ProcessEnds ==
  /\ pc' = "down"
  /\ socket' = [c \in Conns |-> IF socket[c] = "none" THEN "none" ELSE "closed"]
  /\ backlog' = <<>>
  /\ client' = [c \in Conns |-> NewClient]
  /\ clients' = <<>> /\ poll_fds' = <<>> /\ listener_ready' = FALSE /\ index' = 1
  /\ UNCHANGED <<content, plan, offered, consumed, sent, taken, peer, signalVars,
                 g_upload_sequence>>

Shutdown ==
  /\ pc = "exit" \/ (pc = "top" /\ g_stop)
  /\ Removed({client[c].temporary_path : c \in ToSet(clients)})
  /\ ProcessEnds

Kill ==
  /\ "kill" \in Events /\ pc # "down"
  /\ entry' = entry
  /\ ProcessEnds

Restart ==
  /\ pc = "down" /\ starts < MaxStarts
  /\ pc' = "top"
  /\ starts' = starts + 1
  /\ g_stop' = FALSE
  /\ g_upload_sequence' = 0
  /\ UNCHANGED <<storageVars, transportVars, client, clients, poll_fds, listener_ready, index>>

-----------------------------------------------------------------------------
\* Time passes, as far as the idle check can tell.
Tick ==
  /\ "time" \in Events
  /\ \E c \in ToSet(clients) : client[c].idle <= IdleTimeout
  /\ client' = [c \in Conns |->
       IF client[c].fd # None THEN [client[c] EXCEPT !.idle = Least(@ + 1, IdleTimeout + 1)]
                              ELSE client[c]]
  /\ UNCHANGED <<storageVars, transportVars, loopVars, signalVars, g_upload_sequence>>

Arrive == pc # "down" /\ \E c \in Conns : Connect(c)

Environment ==
  /\ Arrive \/ PeerStep
  /\ UNCHANGED <<storageVars, loopVars, signalVars, client, g_upload_sequence>>

Init ==
  /\ StorageInit /\ TransportInit
  /\ pc = "top" /\ g_stop = FALSE /\ g_upload_sequence = 0 /\ starts = 1
  /\ clients = <<>> /\ client = [c \in Conns |-> NewClient]
  /\ poll_fds = <<>> /\ listener_ready = FALSE /\ index = 1

\* The steps of the server process itself.
Process ==
  \/ StartRound \/ PollReady \/ PollReturns \/ EndRound
  \/ \E c \in Conns :
       ReadEvent(c) \/ WriteEvent(c) \/ HangUp(c) \/ ErrorEvent(c) \/ NoEvent(c)
  \/ Accept \/ AcceptEnds \/ Shutdown

Next == Process \/ Environment \/ Signal \/ Kill \/ Restart \/ Tick

Spec == Init /\ [][Next]_vars

\* The process is scheduled, and time does not stop.
FairSpec == Spec /\ WF_vars(Process) /\ WF_vars(Tick)

-----------------------------------------------------------------------------
IsClient(cl) ==
  /\ DOMAIN cl = DOMAIN NewClient
  /\ cl.fd \in Fds \cup {None}
  /\ cl.state \in ClientState
  /\ cl.input_file \in Files \cup {None}
  /\ cl.output_file \in Files \cup {None}
  /\ cl.temporary_path \in TempNames \cup {None}
  /\ cl.final_path \in Names \cup {None}
  /\ cl.expected_bytes \in Nat
  /\ cl.transferred_bytes \in 0..cl.expected_bytes
  /\ cl.idle \in 0..(IdleTimeout + 1)

\* The types of the variables, with the bounds the code's integers rely on: a
\* transfer never passes its announced size (the subtractions of unsigned sizes).
TypeOK ==
  /\ TransportTypeOK
  /\ DOMAIN entry \subseteq Names \cup TempNames
  /\ \A n \in DOMAIN entry : entry[n] \in Files
  /\ DOMAIN content = Files
  /\ pc \in {"top", "poll", "dispatch", "write", "hangup", "accept", "exit", "down"}
  /\ g_stop \in BOOLEAN
  /\ g_upload_sequence \in Nat
  /\ clients \in Seq(Conns)
  /\ client = [c \in Conns |-> client[c]]
  /\ \A c \in Conns : IsClient(client[c])
  /\ \A i \in DOMAIN poll_fds :
       poll_fds[i] \in [fd : Fds, events : {"IN", "OUT"}, revents : SUBSET Reports]
  /\ listener_ready \in BOOLEAN
  /\ index \in Nat \ {0}
  /\ starts \in Nat

=============================================================================
