----------------------------- MODULE StoreProofs -----------------------------
(***************************************************************************)
(* What the users of the service may rely on, for every instance: no       *)
(* temporary file is forgotten, no reply is cut short by the server, and   *)
(* the server implements FileStore.                                        *)
(***************************************************************************)
EXTENDS TransferProofs

-----------------------------------------------------------------------------
(***************************************************************************)
(* The temporary files.                                                    *)
(***************************************************************************)
\* What links no remote name links what it linked, or a new upload's file.
Derived ==
  \A t \in DOMAIN entry' \ Names :
    entry'[t] \in Conns \/ (t \in DOMAIN entry /\ entry'[t] = entry[t])

\* Where no remove fails, no file loses the client that will remove or rename it.
Tidy == "remove" \notin Faults => Orphans' \subseteq Orphans

\* The temporary path of c stays its own, or the directory has it no longer.
Tidies(c) ==
  /\ Derived
  /\ \A d \in Conns \ {c} : client'[d].temporary_path = client[d].temporary_path
  /\ DOMAIN entry' \ Names \subseteq (DOMAIN entry \ Names) \cup {client'[c].temporary_path}
  /\ \/ client[c].temporary_path \in {None, client'[c].temporary_path}
     \/ client[c].temporary_path \notin DOMAIN entry'
     \/ "remove" \in Faults

LEMMA NoneIsNoEntry ==
  ASSUME TypeOK
  PROVE  None \notin DOMAIN entry
BY NamesApart DEF TypeOK

LEMMA TidyStep ==
  ASSUME IInv, IInv', NEW c \in Conns, Tidies(c)
  PROVE  Tidy /\ Derived
<1>1. ASSUME "remove" \notin Faults, NEW t \in Orphans'
      PROVE  t \in Orphans
  <2>1. t \in DOMAIN entry' \ Names /\ \A d \in Conns : client'[d].temporary_path # t
    BY <1>1 DEF Orphans
  <2>2. t \in DOMAIN entry \ Names
    BY <2>1 DEF Tidies
  <2>3. t # None
    BY <2>2, NoneIsNoEntry DEF IInv
  <2>4. \A d \in Conns : client[d].temporary_path # t
    BY <1>1, <2>1, <2>3 DEF Tidies
  <2> QED
    BY <2>2, <2>4 DEF Orphans
<1> QED
  BY <1>1 DEF Tidies, Tidy

\* No temporary path changes, and no file appears.
LEMMA SameTemporaries ==
  ASSUME entry' = entry,
         \A d \in Conns : client'[d].temporary_path = client[d].temporary_path
  PROVE  Tidy /\ Derived
BY DEF Orphans, Derived, Tidy

\* close_client removes the temporary file of each client it closes.
LEMMA ClosingTidies ==
  ASSUME IInv, NEW S \in SUBSET Conns, CloseClients(S)
  PROVE  Tidy /\ Derived
<1> DEFINE P == {client[c].temporary_path : c \in S}
<1>1. /\ "remove" \notin Faults => DOMAIN entry' = DOMAIN entry \ P
      /\ DOMAIN entry' \subseteq DOMAIN entry
      /\ \A t \in DOMAIN entry' : entry'[t] = entry[t]
      /\ \A c \in Conns \ S : client'[c] = client[c]
  BY RemovedSome DEF CloseClients
<1>2. ASSUME "remove" \notin Faults, NEW t \in Orphans'
      PROVE  t \in Orphans
  <2>1. t \in DOMAIN entry' \ Names /\ \A d \in Conns : client'[d].temporary_path # t
    BY <1>2 DEF Orphans
  <2>2. t \in DOMAIN entry \ Names /\ \A c \in S : client[c].temporary_path # t
    BY <1>1, <1>2, <2>1
  <2>3. \A c \in Conns \ S : client[c].temporary_path # t
    BY <1>1, <2>1
  <2> QED
    BY <2>2, <2>3 DEF Orphans
<1> QED
  BY <1>1, <1>2 DEF Derived, Tidy

LEMMA ErrorTidies ==
  ASSUME IInv, NEW c \in Conns, NEW r, IsClient(r), NEW why, QueueError(c, r, why),
         client[c].temporary_path \in {None, r.temporary_path}
  PROVE  Tidies(c)
<1>1. /\ client'[c] = Errored(r, why) /\ \A d \in Conns \ {c} : client'[d] = client[d]
      /\ "remove" \notin Faults => DOMAIN entry' = DOMAIN entry \ {r.temporary_path}
      /\ DOMAIN entry' \subseteq DOMAIN entry
      /\ \A t \in DOMAIN entry' : entry'[t] = entry[t]
  BY RemovedSome DEF QueueError, IInv, TypeOK
<1> QED
  BY <1>1 DEF Tidies, Derived

LEMMA UpdateTidies ==
  ASSUME IInv, NEW c \in Conns, NEW r, Update(c, r),
         r.temporary_path = client[c].temporary_path
  PROVE  Tidies(c)
<1>1. /\ client'[c] = r /\ \A d \in Conns \ {c} : client'[d] = client[d]
      /\ entry' = entry
  BY DEF Update, IInv, TypeOK
<1> QED
  BY <1>1 DEF Tidies, Derived

\* complete_upload renames the temporary file or removes it.
LEMMA CompleteTidies ==
  ASSUME IInv, NEW c \in Conns, Uploading(c), NEW r, IsClient(r), CompleteUpload(c, r),
         r.temporary_path = client[c].temporary_path, r.final_path = client[c].final_path
  PROVE  Tidies(c)
<1>1. CASE QueueError(c, r, "storage-failure")
  BY <1>1, ErrorTidies
<1>2. CASE /\ entry' = Renamed(r.temporary_path, r.final_path)
           /\ client' = [client EXCEPT ![c] =
                [r EXCEPT !.output_file = None, !.temporary_path = None,
                          !.pending_output = Line(OkHead(r.expected_bytes)),
                          !.state = "SendingResult"]]
  <2>1. \A d \in Conns \ {c} : client'[d] = client[d]
    BY <1>2 DEF IInv, TypeOK
  <2>2. /\ client[c].final_path \in Names /\ client[c].temporary_path \notin Names
    BY TemporaryIsNoName DEF IInv, Ownership, TypeOK
  <2>3. /\ DOMAIN entry' = (DOMAIN entry \ {client[c].temporary_path}) \cup {client[c].final_path}
        /\ \A t \in DOMAIN entry' : t # client[c].final_path => entry'[t] = entry[t]
    BY <1>2 DEF Renamed
  <2> QED
    BY <2>1, <2>2, <2>3 DEF Tidies, Derived
<1> QED
  BY <1>1, <1>2 DEF CompleteUpload

LEMMA RequestTidies ==
  ASSUME IInv, NEW c \in Conns, Live(c), handle_request_readable(c)
  PROVE  Tidies(c)
<1> DEFINE buffer  == client[c].request_buffer \o Chunk(c)
           request == RequestIn(buffer)
           got     == [client[c] EXCEPT !.request_buffer = buffer, !.idle = 0]
           start   == [got EXCEPT !.request_buffer = <<>>]
<1>1. client[c].state = "AwaitingRequest" /\ client[c].temporary_path = None /\ IsClient(client[c])
  BY DEF handle_request_readable, IInv, TypeOK, Ownership, Uploading
<1>2. /\ IsClient(got) /\ got.temporary_path = None /\ got.fd = client[c].fd
  BY <1>1, ServerConstants DEF IsClient, NewClient
<1>3. /\ IsClient(start) /\ start.temporary_path = None /\ start.fd = client[c].fd
  BY <1>2 DEF IsClient, NewClient
<1>4. \/ Update(c, got)
      \/ QueueError(c, got, request.error)
      \/ StartGet(c, start, request.filename)
      \/ /\ request.operation = "Put"
         /\ StartPut(c, start, request.filename, request.size)
  BY DEF handle_request_readable, note_activity
<1>5. request.operation = "Put" => request.filename \in Names /\ request.size \in Nat
  BY RequestTypes
<1> HIDE DEF got, start, request
<1>6. CASE Update(c, got)
  BY <1>1, <1>2, <1>6, UpdateTidies
<1>7. CASE QueueError(c, got, request.error)
  BY <1>1, <1>2, <1>7, ErrorTidies
<1>8. CASE StartGet(c, start, request.filename)
  <2>1. \/ \E why : QueueError(c, start, why)
        \/ \E r : Update(c, r) /\ r.temporary_path = None
    <3>1. ASSUME NEW file, NEW size
          PROVE  [start EXCEPT !.input_file = file, !.expected_bytes = size,
                               !.transferred_bytes = 0, !.pending_output = Line(OkHead(size)),
                               !.state = "SendingGetHeader"].temporary_path = None
      BY <1>3 DEF IsClient, NewClient
    <3> QED
      BY <1>8, <3>1 DEF StartGet
  <2> QED
    BY <1>1, <1>3, <2>1, ErrorTidies, UpdateTidies
<1>9. CASE request.operation = "Put" /\ StartPut(c, start, request.filename, request.size)
  <2> DEFINE path == TempPath(start.fd, g_upload_sequence + 1)
             file == IF path \in DOMAIN entry THEN entry[path] ELSE c
             put  == [start EXCEPT !.expected_bytes = request.size, !.transferred_bytes = 0,
                                   !.final_path = request.filename, !.temporary_path = path]
             open == [put EXCEPT !.output_file = file, !.pending_output = Line(ReadyHead),
                                 !.state = "SendingReady"]
  <2>1. path \in TempNames
    BY <1>1, <1>3 DEF TempPath, TempNames, IsClient, Live, IInv, TypeOK
  <2>2. IsClient(put)
    BY <1>3, <1>5, <1>9, <2>1 DEF IsClient, NewClient
  <2>3. open.temporary_path = path
    BY <2>2 DEF IsClient, NewClient
  <2>4. \/ client' = [client EXCEPT ![c] = open] /\ entry' = With(path, file)
        \/ QueueError(c, put, "storage-failure")
    BY <1>9 DEF StartPut
  <2> HIDE DEF path, file, put, open
  <2>5. CASE client' = [client EXCEPT ![c] = open] /\ entry' = With(path, file)
    <3>1. client'[c] = open /\ \A d \in Conns \ {c} : client'[d] = client[d]
      BY <2>5 DEF IInv, TypeOK
    <3>2. /\ DOMAIN entry' = DOMAIN entry \cup {path}
          /\ \A t \in DOMAIN entry' : entry'[t] = IF t = path THEN file ELSE entry[t]
      BY <2>5 DEF With
    <3>3. file = c \/ (path \in DOMAIN entry /\ file = entry[path])
      BY DEF file
    <3> QED
      BY <1>1, <2>3, <3>1, <3>2, <3>3 DEF Tidies, Derived
  <2>6. CASE QueueError(c, put, "storage-failure")
    BY <1>1, <2>2, <2>6, ErrorTidies
  <2> QED
    BY <2>4, <2>5, <2>6
<1> QED
  BY <1>4, <1>6, <1>7, <1>8, <1>9

LEMMA UploadTidies ==
  ASSUME IInv, NEW c \in Conns, handle_upload_readable(c)
  PROVE  Tidies(c)
<1> DEFINE cl       == client[c]
           accepted == Accepted(c)
           got      == [cl EXCEPT !.idle = 0]
           wrote    == [got EXCEPT !.transferred_bytes = @ + accepted]
<1>1. IsClient(cl) /\ Uploading(c) /\ cl.transferred_bytes \in Nat /\ cl.expected_bytes \in Nat
      /\ cl.transferred_bytes <= cl.expected_bytes
  BY ClientFields DEF IInv, TypeOK, handle_upload_readable, Uploading
<1>2. accepted \in Nat /\ accepted <= cl.expected_bytes - cl.transferred_bytes
  BY <1>1, ChunkIsSequence, LeastOfNats DEF Accepted, IInv
<1>3. /\ IsClient(got) /\ got.temporary_path = cl.temporary_path
      /\ got.final_path = cl.final_path
      /\ got.transferred_bytes = cl.transferred_bytes /\ got.expected_bytes = cl.expected_bytes
  BY <1>1, ServerConstants DEF IsClient, NewClient
<1>4. \/ \E why : QueueError(c, wrote, why) \/ QueueError(c, got, why)
      \/ CompleteUpload(c, wrote) \/ Update(c, wrote)
  BY DEF handle_upload_readable, note_activity
<1> HIDE DEF got, accepted
<1>5. /\ IsClient(wrote) /\ wrote.temporary_path = cl.temporary_path
      /\ wrote.final_path = cl.final_path
  <2>1. got.transferred_bytes + accepted \in 0..got.expected_bytes
    BY <1>1, <1>2, <1>3
  <2> QED
    BY <1>3, <2>1 DEF IsClient, NewClient
<1> HIDE DEF wrote
<1> QED
  BY <1>1, <1>3, <1>4, <1>5, ErrorTidies, UpdateTidies, CompleteTidies

LEMMA ReadEventTidies ==
  ASSUME IInv, IInv', NEW c \in Conns, ReadEvent(c)
  PROVE  Tidy /\ Derived
<1>1. AtClient(c) /\ Live(c)
  <2>1. AtClient(c)
    BY DEF ReadEvent, AtClient, InRound
  <2> QED
    BY <2>1, CurrentIsLive DEF IInv
<1>2. CASE Fail(c)
  BY <1>2, ClosingTidies DEF Fail
<1>3. CASE handle_request_readable(c) \/ handle_upload_readable(c)
  BY <1>1, <1>3, RequestTidies, UploadTidies, TidyStep
<1> QED
  BY <1>2, <1>3 DEF ReadEvent, ReceiveEnds, ReceiveData

LEMMA WriteEventTidies ==
  ASSUME IInv, IInv', NEW c \in Conns, WriteEvent(c)
  PROVE  Tidy /\ Derived
<1> DEFINE flushed == AfterFlush(c)
<1>1. CASE Fail(c)
  BY <1>1, ClosingTidies DEF Fail
<1>2. CASE SendPending(c) /\ (WriteGetHeader(c) \/ WriteReady(c) \/ WriteReply(c)) /\ ~Fail(c)
  <2>1. /\ IsClient(flushed) /\ flushed.temporary_path = client[c].temporary_path
        /\ flushed.final_path = client[c].final_path
    BY <1>2, FlushDone DEF SameTransfer
  <2>2. \/ \E r : Update(c, r) /\ r.temporary_path = client[c].temporary_path
        \/ Uploading(c) /\ CompleteUpload(c, flushed)
    <3>1. \A s : [flushed EXCEPT !.state = s].temporary_path = client[c].temporary_path
      BY <2>1 DEF IsClient, NewClient
    <3>2. \/ Update(c, flushed)
          \/ \E s : Update(c, [flushed EXCEPT !.state = s])
          \/ client[c].state = "SendingReady" /\ CompleteUpload(c, flushed)
      BY <1>2 DEF WriteGetHeader, WriteReady, WriteReply
    <3> HIDE DEF flushed
    <3> QED
      BY <2>1, <3>1, <3>2 DEF Uploading
  <2> HIDE DEF flushed
  <2>3. Tidies(c)
    BY <2>1, <2>2, UpdateTidies, CompleteTidies
  <2> QED
    BY <2>3, TidyStep
<1>3. CASE WriteFile(c) /\ ~Fail(c)
  <2>1. PICK cl \in Refilled(client[c]) : \E buffer, transferred, idle :
          Update(c, [cl EXCEPT !.file_buffer = buffer, !.transferred_bytes = transferred,
                               !.idle = idle])
    BY <1>3 DEF WriteFile
  <2>2. IsClient(cl) /\ cl.temporary_path = client[c].temporary_path
    BY <1>3, RefilledWell DEF WriteFile
  <2>3. PICK r : Update(c, r) /\ r.temporary_path = cl.temporary_path
    <3>1. PICK buffer, transferred, idle :
            Update(c, [cl EXCEPT !.file_buffer = buffer, !.transferred_bytes = transferred,
                                 !.idle = idle])
      BY <2>1
    <3> DEFINE new == [cl EXCEPT !.file_buffer = buffer, !.transferred_bytes = transferred,
                                 !.idle = idle]
    <3>2. new.temporary_path = cl.temporary_path
      BY <2>2 DEF IsClient, NewClient
    <3>3. Update(c, new)
      BY <3>1
    <3> HIDE DEF new
    <3> QED
      BY <3>2, <3>3
  <2>4. Tidies(c)
    BY <2>2, <2>3, UpdateTidies
  <2> QED
    BY <2>4, TidyStep
<1> QED
  BY <1>1, <1>2, <1>3 DEF WriteEvent, WriteGetHeader, WriteReady, WriteReply

LEMMA NextTidies ==
  ASSUME IInv, [Next]_vars
  PROVE  (Tidy \/ Kill) /\ Derived
<1> USE NextInv
<1>1. CASE \E c \in Conns : ReadEvent(c) \/ WriteEvent(c)
  BY <1>1, ReadEventTidies, WriteEventTidies
<1>2. ASSUME UNCHANGED <<entry, client>>
      PROVE  Tidy /\ Derived
  BY <1>2, SameTemporaries
<1>3. CASE \E c \in Conns : HangUp(c) \/ ErrorEvent(c) \/ NoEvent(c)
  <2>1. CASE \E c \in Conns : Fail(c)
    BY <2>1, ClosingTidies DEF Fail
  <2>2. CASE UNCHANGED <<entry, client>>
    BY <1>2, <2>2
  <2> QED
    BY <1>3, <2>1, <2>2 DEF HangUp, ErrorEvent, NoEvent, storageVars
<1>4. CASE StartRound
  <2> DEFINE S == {c \in ToSet(clients) : Expired(c)}
  <2>1. CloseClients(S)
    BY <1>4 DEF StartRound
  <2>2. S \in SUBSET Conns
    BY DEF IInv, TypeOK, ToSet
  <2> HIDE DEF S
  <2> QED
    BY <2>1, <2>2, ClosingTidies
<1>5. CASE Shutdown
  <2> DEFINE P == {client[c].temporary_path : c \in ToSet(clients)}
  <2>1. /\ "remove" \notin Faults => DOMAIN entry' = DOMAIN entry \ P
        /\ DOMAIN entry' \subseteq DOMAIN entry
        /\ \A t \in DOMAIN entry' : entry'[t] = entry[t]
    BY <1>5, RemovedSome DEF Shutdown
  <2>2. \A c \in Conns : Live(c) => c \in ToSet(clients)
    BY DEF IInv, Connections, ConnectionsAccounted, ToSet
  <2>3. \A c \in Conns : ~Live(c) => client[c].temporary_path = None
    BY NewClientFields DEF IInv, Connections, ClosedKeepsNothing
  <2>4. ASSUME "remove" \notin Faults, NEW t \in Orphans'
        PROVE  t \in Orphans
    <3>1. t \in DOMAIN entry /\ t \notin Names
          /\ \A c \in ToSet(clients) : client[c].temporary_path # t
      BY <2>1, <2>4 DEF Orphans
    <3>2. t # None
      BY <3>1, NoneIsNoEntry DEF IInv
    <3>3. \A c \in Conns : client[c].temporary_path # t
      BY <2>2, <2>3, <3>1, <3>2
    <3> QED
      BY <3>1, <3>3 DEF Orphans
  <2> QED
    BY <2>1, <2>4 DEF Derived, Tidy
<1>6. CASE Accept
  <2>1. TypeOK /\ TypeOK' /\ entry' = entry
    BY <1>6 DEF IInv, Accept, storageVars
  <2>2. \A c \in Conns : client'[c].temporary_path = client[c].temporary_path
    <3>1. \/ UNCHANGED client
          \/ \E fd : client' = [client EXCEPT ![Head(backlog)] = [NewClient EXCEPT !.fd = fd]]
      BY <1>6 DEF Accept
    <3>2. Together
      BY <1>6, AcceptDone
    <3>3. CASE UNCHANGED client
      BY <3>3
    <3>4. ASSUME NEW fd, client' = [client EXCEPT ![Head(backlog)] = [NewClient EXCEPT !.fd = fd]],
                 NEW c \in Conns
          PROVE  client'[c].temporary_path = client[c].temporary_path
      <4>1. CASE c = Head(backlog)
        <5>1. 1 \in DOMAIN backlog /\ c = backlog[1]
          BY <1>6, <4>1 DEF Accept, IInv, Connections
        <5>2. client[c] = NewClient
          BY <5>1, NotLiveIsNew DEF IInv, Connections
        <5>3. client'[c] = [NewClient EXCEPT !.fd = fd]
          BY <2>1, <3>4, <4>1 DEF TypeOK
        <5> QED
          BY <5>2, <5>3 DEF NewClient
      <4>2. CASE c # Head(backlog)
        BY <2>1, <3>4, <4>2 DEF TypeOK
      <4> QED
        BY <4>1, <4>2
    <3> QED
      BY <3>1, <3>3, <3>4
  <2> QED
    BY <2>1, <2>2, SameTemporaries
<1>7. CASE Tick
  <2>1. entry' = entry /\ \A c \in Conns : client'[c] =
          IF client[c].fd # None THEN [client[c] EXCEPT !.idle = Least(@ + 1, IdleTimeout + 1)]
                                 ELSE client[c]
    BY <1>7 DEF Tick, storageVars
  <2>2. \A c \in Conns : IsClient(client[c])
    BY DEF IInv, TypeOK
  <2>3. \A c \in Conns : client'[c].temporary_path = client[c].temporary_path
    BY <2>1, <2>2 DEF IsClient, NewClient
  <2> QED
    BY <2>1, <2>3, SameTemporaries
<1>8. CASE \/ PollReady \/ PollReturns \/ EndRound \/ AcceptEnds \/ Environment
           \/ Signal \/ Restart \/ UNCHANGED vars
  <2>1. UNCHANGED <<entry, client>>
    BY <1>8 DEF PollReady, PollReturns, EndRound, AcceptEnds, Environment, Signal, Restart,
                vars, storageVars
  <2> QED
    BY <1>2, <2>1
<1>9. CASE Kill
  BY <1>9 DEF Kill, Derived
<1> QED
  BY <1>1, <1>3, <1>4, <1>5, <1>6, <1>7, <1>8, <1>9 DEF Next, Process

\* Where no remove fails, only a kill of the process leaves a temporary file that no
\* client has, and what a kill left never becomes more by other steps: queue_error,
\* close_client, the rename and main's last loop remove each temporary file in the
\* step that forgets its path.
THEOREM OrphansComeFromKills == "remove" \notin Faults => (Spec => OrphansOnlyByKill)
<1> SUFFICES ASSUME "remove" \notin Faults
             PROVE  Spec => OrphansOnlyByKill
  OBVIOUS
<1>1. IInv /\ [Next]_vars => [Orphans' \subseteq Orphans \/ Kill]_vars
  BY NextTidies DEF Tidy
<1>2. Spec => [][Orphans' \subseteq Orphans \/ Kill]_vars
  BY <1>1, InvariantHolds, PTL DEF Spec
<1> QED
  BY <1>2 DEF OrphansOnlyByKill

\* Where the process is never killed and no remove fails, each temporary file has a
\* live client that will rename or remove it.
THEOREM TemporaryFilesStayOwned ==
  "kill" \notin Events /\ "remove" \notin Faults => (Spec => []TemporaryFilesOwned)
<1> SUFFICES ASSUME "kill" \notin Events, "remove" \notin Faults
             PROVE  Spec => []TemporaryFilesOwned
  OBVIOUS
<1> DEFINE Owned == Orphans = {}
<1>1. Init => Owned
  BY NamesApart DEF Init, StorageInit, Orphans
<1>2. IInv /\ Owned /\ [Next]_vars => Owned'
  BY NextTidies DEF Kill, Tidy
<1>3. IInv /\ Owned => TemporaryFilesOwned
  <2>1. ASSUME IInv, Owned, NEW t \in DOMAIN entry \ Names
        PROVE  \E c \in Conns : Live(c) /\ client[c].temporary_path = t
    <3>1. t # None
      BY <2>1, NoneIsNoEntry DEF IInv
    <3>2. PICK c \in Conns : client[c].temporary_path = t
      BY <2>1 DEF Orphans
    <3>3. Live(c)
      BY <2>1, <3>1, <3>2, NewClientFields DEF IInv, Connections, ClosedKeepsNothing
    <3> QED
      BY <3>2, <3>3
  <2> QED
    BY <2>1 DEF TemporaryFilesOwned
<1> QED
  BY <1>1, <1>2, <1>3, InvariantHolds, PTL DEF Spec

-----------------------------------------------------------------------------
(***************************************************************************)
(* How the server ends a connection.                                       *)
(***************************************************************************)
\* The peer is there, or has only shut down after a GET was answered in part.
Attends(c) ==
  peer[c] = "open" \/ (peer[c] = "shut" /\ Asked(c).operation = "Get" /\ sent[c] # <<>>)

LEMMA ReadersAreOpen ==
  ASSUME TInv, NEW c \in Conns, socket[c] = "open", NeedsRead(client[c].state), Attends(c)
  PROVE  peer[c] = "open"
BY DEF TInv, Conversation, Requesting, InUpload, InDownload, InReply, NeedsRead, Attends

\* The events poll was asked for are those of the client it is dispatched for.
LEMMA DispatchedAsAsked ==
  ASSUME IInv, NEW c \in Conns, pc = "dispatch", Current(c)
  PROVE  poll_fds[index].events = requested_events(c)
BY DEF IInv, Round, PollAligned, Current

LEMMA OnlyHandlersClose ==
  ASSUME IInv, Next, NEW c \in Conns, socket[c] = "open", socket'[c] = "closed",
         pc \in {"dispatch", "write", "hangup"}, pc' # "down"
  PROVE  \E d \in Conns : ReadEvent(d) \/ WriteEvent(d) \/ HangUp(d) \/ ErrorEvent(d)
<1>1. ~StartRound /\ ~PollReady /\ ~PollReturns /\ ~Accept /\ ~AcceptEnds /\ ~Shutdown
      /\ ~Kill /\ ~Restart
  BY DEF StartRound, PollReady, PollReturns, Accept, AcceptEnds, Shutdown, Kill, Restart,
         ProcessEnds
<1>2. ~EndRound /\ ~Signal /\ ~Tick /\ \A d \in Conns : ~NoEvent(d)
  BY DEF EndRound, Signal, Tick, NoEvent, transportVars
<1>3. ~Environment
  BY DEF Environment, Arrive, Connect, PeerStep, PeerSend, PeerRead, PeerShut, PeerReset,
         IInv, TypeOK, TransportTypeOK
<1> QED
  BY <1>1, <1>2, <1>3 DEF Next, Process

LEMMA ClosesAfterReply ==
  ASSUME "read" \notin Faults, IInv, TInv, Next,
         NEW c \in Conns, socket[c] = "open", socket'[c] = "closed",
         pc \in {"dispatch", "write", "hangup"}, pc' # "down", Attends(c)
  PROVE  sent'[c] \in Replies(c)
<1>1. PICK d \in Conns : ReadEvent(d) \/ WriteEvent(d) \/ HangUp(d) \/ ErrorEvent(d)
  BY OnlyHandlersClose
<1>2. AtClient(d)
  BY <1>1 DEF ReadEvent, WriteEvent, HangUp, ErrorEvent, AtWrite, AtClient, InRound
<1>3. d = c
  <2>1. CASE ReadEvent(d) \/ WriteEvent(d)
    <3>1. Only(d)
      BY <2>1, ReadEventDone, WriteEventDone DEF TInv
    <3> QED
      BY <3>1 DEF Only
  <2>2. CASE HangUp(d) \/ ErrorEvent(d)
    <3>1. Fail(d) \/ UNCHANGED socket
      BY <2>2 DEF HangUp, ErrorEvent
    <3>2. Fail(d) => \A e \in Conns \ {d} : socket'[e] = socket[e]
      BY FailDone
    <3> QED
      BY <3>1, <3>2
  <2> QED
    BY <1>1, <2>1, <2>2
<1>4. CASE ReadEvent(c)
  <2>1. poll_fds[index].events = "IN"
    BY <1>4 DEF ReadEvent, Current, TInv, Polled, revents
  <2>2. NeedsRead(client[c].state)
    BY <1>4, <2>1, DispatchedAsAsked DEF ReadEvent, requested_events
  <2>3. peer[c] = "open"
    BY <2>2, ReadersAreOpen
  <2> QED
    BY <1>4, <2>3 DEF ReadEvent, ReceiveEnds, ReceiveData
<1>5. CASE WriteEvent(c)
  BY <1>5, WriteEventDone DEF TInv, Attends
<1>6. CASE ErrorEvent(c)
  <2>1. peer[c] = "reset"
    BY <1>6 DEF ErrorEvent, Current, TInv, Polled, revents
  <2> QED
    BY <2>1 DEF Attends
<1>7. CASE HangUp(c)
  <2>1. NeedsRead(client[c].state)
    BY <1>7 DEF HangUp
  <2>2. peer[c] = "open"
    BY <2>1, ReadersAreOpen
  <2>3. index \in DOMAIN poll_fds /\ clients[index] = c
    BY <1>7 DEF HangUp, Current
  <2>4. "HUP" \notin revents
    BY <2>2, <2>3 DEF TInv, Polled, revents
  <2>5. pc = "dispatch" /\ revents # {} /\ revents \cap {"IN", "ERR"} = {}
    BY <1>7, <2>4 DEF HangUp, AtWrite, TInv, Polled, revents
  <2>6. revents \subseteq {"IN", "OUT", "HUP", "ERR"}
    BY <2>3 DEF IInv, TypeOK, Reports, revents
  <2>7. "OUT" \in revents
    BY <2>4, <2>5, <2>6
  <2>8. poll_fds[index].events = "OUT"
    BY <2>3, <2>7 DEF TInv, Polled, revents
  <2> QED
    BY <1>7, <2>1, <2>5, <2>8, DispatchedAsAsked DEF HangUp, requested_events
<1> QED
  BY <1>1, <1>3, <1>4, <1>5, <1>6, <1>7

\* Where files can be read, a round of the loop closes the connection of a peer that
\* is there, or has only shut down after a GET, no earlier than the last byte of its
\* reply is handed to the kernel.
THEOREM RepliesAreComplete == "read" \notin Faults => (Spec => CompleteReplyBeforeClose)
<1> SUFFICES ASSUME "read" \notin Faults
             PROVE  Spec => CompleteReplyBeforeClose
  OBVIOUS
<1> DEFINE Complete ==
             \A c \in Conns :
               /\ socket[c] = "open" /\ socket'[c] = "closed"
               /\ pc \in {"dispatch", "write", "hangup"} /\ pc' # "down"
               /\ peer[c] = "open" \/ (peer[c] = "shut" /\ Asked(c).operation = "Get" /\ sent[c] # <<>>)
               => sent'[c] \in Replies(c)
<1>1. IInv /\ TInv /\ [Next]_vars => [Complete]_vars
  BY ClosesAfterReply DEF Attends
<1>2. Spec => [][Complete]_vars
  BY <1>1, InvariantHolds, ConversationsHold, PTL DEF Spec
<1> QED
  BY <1>2 DEF CompleteReplyBeforeClose

-----------------------------------------------------------------------------
(***************************************************************************)
(* The server implements FileStore.                                        *)
(***************************************************************************)
LEMMA SentIsFunction ==
  ASSUME SInv, [Next]_vars
  PROVE  sent' = [c \in Conns |-> sent'[c]]
<1>1. \/ sent' = sent
      \/ \E c, x : sent' = [sent EXCEPT ![c] = x]
  <2>1. CASE \E c \in Conns : WriteEvent(c)
    BY <2>1 DEF WriteEvent, WriteGetHeader, WriteReady, WriteReply, WriteFile, SendPending
  <2>2. CASE \E c \in Conns : ReadEvent(c) \/ HangUp(c) \/ ErrorEvent(c) \/ NoEvent(c)
    BY <2>2 DEF ReadEvent, HangUp, ErrorEvent, NoEvent, transportVars
  <2>3. CASE \/ StartRound \/ PollReady \/ PollReturns \/ EndRound \/ Accept \/ AcceptEnds
             \/ Shutdown \/ Signal \/ Kill \/ Restart \/ Tick \/ UNCHANGED vars
    BY <2>3 DEF StartRound, PollReady, PollReturns, EndRound, Accept, AcceptEnds, Shutdown,
                Signal, Kill, Restart, Tick, ProcessEnds, vars, transportVars
  <2>4. CASE Environment
    BY <2>4 DEF Environment, Arrive, Connect, PeerStep, PeerSend, PeerRead, PeerShut, PeerReset
  <2> QED
    BY <2>1, <2>2, <2>3, <2>4 DEF Next, Process
<1> QED
  BY <1>1 DEF SInv

LEMMA InitSInv ==
  ASSUME Init
  PROVE  SInv
BY NamesApart DEF Init, StorageInit, TransportInit, SInv

LEMMA NextSInv ==
  ASSUME IInv, SInv, [Next]_vars
  PROVE  SInv'
<1>1. Derived
  BY NextTidies
<1> QED
  BY <1>1, SentIsFunction DEF SInv, Derived

\* The store, the promises and the ends of connections, as FileStore sees them.
Holds    == [n \in Names \cap Retrievable |-> content[entry[n]]]
Promises == [c \in Conns |-> Promised(c)]
Ended    == [c \in Conns |-> socket[c] = "closed"]

LEMMA SayIs ==
  ASSUME NEW c \in Conns, NEW n \in Len(sent[c])..Len(Promised(c)),
         sent' = [sent EXCEPT ![c] = SubSeq(Promised(c), 1, n)]
  PROVE  Store!Say(c)
BY DEF Store!Say

LEMMA CloseIs ==
  ASSUME NEW c \in Conns, socket[c] # "closed", Store!Say(c),
         Promises' = [Promises EXCEPT ![c] = sent'[c]],
         Ended' = [Ended EXCEPT ![c] = TRUE],
         Holds' = Holds
  PROVE  Store!Close(c)
BY DEF Store!Close, Promises, Ended, Holds

\* FileStore speaks the protocol of Wire.
LEMMA SameWire ==
  /\ \A h : Store!Line(h) = Line(h)
  /\ Store!ReadyHead = ReadyHead
  /\ \A n : Store!OkHead(n) = OkHead(n)
  /\ \A why : Store!ErrHead(why) = ErrHead(why)
  /\ Store!Refusals = Refusals /\ Store!Aborts = Aborts
  /\ \A src, n : Store!Bytes(src, n) = Bytes(src, n)
  /\ \A c : Store!Asked(c) = Asked(c)
<1>1. \A line : Store!ParseRequest(line) = ParseRequest(line)
  BY DEF Store!ParseRequest, ParseRequest, Store!NoRequest, NoRequest, Store!GetRequest,
         GetRequest, Store!PutRequest, PutRequest, Store!is_safe_filename, is_safe_filename,
         Store!parse_uint64, parse_uint64
<1>2. \A c : Store!Asked(c) = Asked(c)
  BY <1>1 DEF Store!Asked, Asked
<1>3. \A src, n : Store!Bytes(src, n) = Bytes(src, n)
  BY DEF Store!Bytes, Bytes, Store!Byte, Byte
<1> QED
  BY <1>2, <1>3 DEF Store!Line, Line, Store!Newline, Newline, Store!ReadyHead, ReadyHead,
     Store!OkHead, OkHead, Store!ErrHead, ErrHead, Store!Refusals, Refusals, Store!Aborts, Aborts

\* The promise to c grows by a reply.
Grows(c, reply) == Promises' = [Promises EXCEPT ![c] = @ \o reply]

LEMMA RefuseIs ==
  ASSUME NEW c \in Conns, Promised(c) = <<>>, NEW why \in Refusals,
         Grows(c, Line(ErrHead(why))), Holds' = Holds
  PROVE  Store!Decide(c)
BY SameWire DEF Store!Decide, Store!Refuse, Store!Promise, Grows, Promises, Holds

LEMMA GetIs ==
  ASSUME NEW c \in Conns, Asked(c).operation = "Get", Promised(c) = <<>>,
         Asked(c).filename \in Names \cap Retrievable,
         Grows(c, Line(OkHead(Len(Holds[Asked(c).filename]))) \o Holds[Asked(c).filename]),
         Holds' = Holds
  PROVE  Store!Decide(c)
BY SameWire DEF Store!Decide, Store!Get, Store!Promise, Grows, Promises, Holds

LEMMA InviteIs ==
  ASSUME NEW c \in Conns, Asked(c).operation = "Put", Promised(c) = <<>>,
         Grows(c, Line(ReadyHead)), Holds' = Holds
  PROVE  Store!Decide(c)
BY SameWire DEF Store!Decide, Store!Invite, Store!Promise, Grows, Promises, Holds

LEMMA CommitIs ==
  ASSUME NEW c \in Conns, Asked(c).operation = "Put", Promised(c) = Line(ReadyHead),
         Grows(c, Line(OkHead(Asked(c).size))),
         Holds' = [n \in DOMAIN Holds \cup {Asked(c).filename} |->
                     IF n = Asked(c).filename THEN Bytes(c, Asked(c).size) ELSE Holds[n]]
  PROVE  Store!Decide(c)
BY SameWire DEF Store!Decide, Store!Commit, Store!Promise, Grows, Promises, Holds

LEMMA AbortIs ==
  ASSUME NEW c \in Conns, Asked(c).operation = "Put", Promised(c) = Line(ReadyHead),
         NEW why \in Aborts, Grows(c, Line(ErrHead(why))), Holds' = Holds
  PROVE  Store!Decide(c)
BY SameWire DEF Store!Decide, Store!Abort, Store!Promise, Grows, Promises, Holds

LEMMA CutShortIs ==
  ASSUME NEW c \in Conns, Asked(c).operation = "Get", sent[c] # <<>>,
         NEW n \in Len(sent'[c])..Len(Promised(c)),
         Promises' = [Promises EXCEPT ![c] = SubSeq(@, 1, n)], Holds' = Holds
  PROVE  Store!CutShort(c)
BY SameWire DEF Store!CutShort, Promises, Holds

LEMMA ServeIs ==
  ASSUME NEW c \in Conns, socket[c] # "closed", Store!Say(c),
         Store!Decide(c) \/ Store!CutShort(c) \/ (Holds' = Holds /\ Promises' = Promises),
         Ended' = Ended
  PROVE  Store!Serve(c)
BY DEF Store!Serve, Promises, Holds, Ended

LEMMA LoseIs ==
  ASSUME NEW S \in SUBSET Conns, \A c \in S : socket[c] # "closed",
         Promises' = [c \in Conns |-> IF c \in S THEN sent[c] ELSE Promises[c]],
         Ended' = [c \in Conns |-> Ended[c] \/ c \in S],
         Holds' = Holds, sent' = sent
  PROVE  Store!Lose(S)
BY DEF Store!Lose, Promises, Holds, Ended

-----------------------------------------------------------------------------
(***************************************************************************)
(* What is promised to a connection, by what its client holds.             *)
(***************************************************************************)
\* Promised, of the bytes of the file that is open.
Owed(said, cl, bytes) ==
  ((said \o cl.pending_output) \o cl.file_buffer) \o
    IF cl.input_file = None THEN <<>>
    ELSE SubSeq(bytes, cl.transferred_bytes + Len(cl.file_buffer) + 1, cl.expected_bytes)

LEMMA PromisedIsOwed ==
  ASSUME NEW c \in Conns
  PROVE  /\ Promised(c) = Owed(sent[c], client[c], content[client[c].input_file])
         /\ Promised(c)' = Owed(sent'[c], client'[c], content'[client'[c].input_file])
BY DEF Promised, Unsent, Owed

LEMMA OwedWithoutFile ==
  ASSUME NEW said, NEW cl, NEW bytes, IsSequence(said), WellBuffered(cl), cl.input_file = None
  PROVE  /\ Owed(said, cl, bytes) = (said \o cl.pending_output) \o cl.file_buffer
         /\ cl.file_buffer = <<>> => Owed(said, cl, bytes) = said \o cl.pending_output
<1> DEFINE p == cl.pending_output
           b == cl.file_buffer
           front == said \o p
<1>1. IsSequence(p) /\ IsSequence(b)
  BY DEF WellBuffered
<1>2. Owed(said, cl, bytes) = (front \o b) \o <<>>
  BY DEF Owed
<1> HIDE DEF p, b
<1>3. IsSequence(front)
  BY <1>1, SequenceConcat
<1> HIDE DEF front
<1>4. IsSequence(front \o b) /\ front \o <<>> = front
  BY <1>1, <1>3, SequenceConcat, ConcatNothing
<1>5. (front \o b) \o <<>> = front \o b
  BY <1>4, ConcatNothing
<1> QED
  BY <1>2, <1>4, <1>5 DEF front, p, b

\* The beginning of a promise is what is said already, or will be said next.
LEMMA FrontOf ==
  ASSUME NEW s, NEW t, IsSequence(s), IsSequence(t)
  PROVE  /\ SubSeq(s \o t, 1, Len(s)) = s
         /\ Len(s) \in Nat /\ Len(s \o t) \in Nat /\ Len(s) <= Len(s \o t)
<1> DEFINE S == ToSet(s) \cup ToSet(t)
<1>1. s \in Seq(S) /\ t \in Seq(S)
  BY DEF IsSequence
<1>2. Len(s) \in Nat /\ Len(t) \in Nat /\ Len(s \o t) = Len(s) + Len(t)
  BY SequenceConcat
<1>3. CASE Len(s) = 0
  <2>1. s = <<>>
    BY <1>1, <1>3
  <2>2. SubSeq(s \o t, 1, Len(s)) = <<>>
    BY <1>3, SubSeqEmpty
  <2> QED
    BY <1>2, <2>1, <2>2
<1>4. CASE Len(s) # 0
  <2>1. 1 \in 1..Len(s) /\ Len(s) \in 1..Len(s)
    BY <1>2, <1>4
  <2>2. SubSeq(s \o t, 1, Len(s)) = SubSeq(s, 1, Len(s))
    BY <1>1, <2>1, SubSeqOfConcat1
  <2> QED
    BY <1>1, <1>2, <2>2, SubSeqFull
<1> QED
  BY <1>3, <1>4

LEMMA UnsentIsSequence ==
  ASSUME IInv, NEW c \in Conns, Conversation(c)
  PROVE  IsSequence(Unsent(client[c]))
<1> DEFINE cl == client[c]
           k  == cl.transferred_bytes + Len(cl.file_buffer)
<1>1. k \in Nat /\ k <= cl.expected_bytes /\ cl.expected_bytes \in Nat
  BY ClientFields
<1>2. CASE cl.input_file = None
  BY <1>2, SequenceLines DEF Unsent
<1>3. CASE cl.input_file # None
  <2>1. socket[c] = "open"
    BY <1>3, NotLiveIsNew, NewClientFields
  <2>2. InDownload(c)
    BY <1>3, <2>1 DEF Conversation, Requesting, InUpload, InReply
  <2>3. PICK v \in Versions(Asked(c).filename) :
          cl.expected_bytes = Len(v) /\ content[cl.input_file] = v
    BY <1>3, <2>2 DEF InDownload
  <2>4. IsSequence(v) /\ Len(v) \in Nat
    BY VersionsAreSequences
  <2>5. Unsent(cl) = SubSeq(v, k + 1, Len(v))
    BY <1>3, <2>3 DEF Unsent
  <2> HIDE DEF k
  <2>6. IsSequence(SubSeq(v, k + 1, Len(v)))
    BY <1>1, <2>3, <2>4, SequencePart
  <2> QED
    BY <2>5, <2>6
<1> QED
  BY <1>2, <1>3

LEMMA PromiseAhead ==
  ASSUME IInv, NEW c \in Conns, Conversation(c)
  PROVE  \E rest : IsSequence(rest) /\ Promised(c) = sent[c] \o rest
<1> DEFINE s == sent[c]
           p == client[c].pending_output
           b == client[c].file_buffer
           u == Unsent(client[c])
           q == b \o u
           r == p \o q
<1>1. IsSequence(s) /\ IsSequence(p) /\ IsSequence(b) /\ IsSequence(u)
  BY ClientFields, UnsentIsSequence
<1>2. Promised(c) = ((s \o p) \o b) \o u
  BY DEF Promised
<1> HIDE DEF s, p, b, u
<1>3. IsSequence(q) /\ IsSequence(s \o p)
  BY <1>1, SequenceConcat
<1>4. ((s \o p) \o b) \o u = (s \o p) \o q
  <2> DEFINE f == s \o p
  <2>1. IsSequence(f)
    BY <1>3
  <2> HIDE DEF f
  <2>2. (f \o b) \o u = f \o (b \o u)
    BY <1>1, <2>1, ConcatSame
  <2> QED
    BY <2>2 DEF f
<1> HIDE DEF q
<1>5. (s \o p) \o q = s \o r
  BY <1>1, <1>3, ConcatSame
<1>6. IsSequence(r)
  BY <1>1, <1>3, SequenceConcat
<1> HIDE DEF r
<1>7. Promised(c) = s \o r
  BY <1>2, <1>4, <1>5
<1> QED
  BY <1>6, <1>7 DEF s

\* Saying the next part of a promise.
LEMMA SaysPart ==
  ASSUME IInv, IInv', NEW c \in Conns, Speaks(c), NEW rest, IsSequence(rest),
         Promised(c) = sent'[c] \o rest, sent' = [sent EXCEPT ![c] = sent'[c]]
  PROVE  Store!Say(c)
<1> DEFINE s == sent[c]
           t == sent'[c]
           n == Len(t)
<1>1. IsSequence(s) /\ IsSequence(t)
  BY DEF IInv, Buffers
<1>2. PICK more : IsSequence(more) /\ t = s \o more
  BY DEF Speaks
<1>3. sent' = [sent EXCEPT ![c] = t] /\ Promised(c) = t \o rest
  OBVIOUS
<1> HIDE DEF t
<1>4. Len(s) \in Nat /\ Len(s) <= Len(t)
  <2> HIDE DEF s
  <2> QED
    BY <1>1, <1>2, FrontOf
<1>5. SubSeq(t \o rest, 1, n) = t /\ n \in Nat /\ Len(t \o rest) \in Nat /\ n <= Len(t \o rest)
  BY <1>1, FrontOf
<1> HIDE DEF n
<1>6. n \in Len(s)..Len(Promised(c)) /\ SubSeq(Promised(c), 1, n) = t
  BY <1>3, <1>4, <1>5 DEF n
<1>7. n \in Len(sent[c])..Len(Promised(c)) /\ sent' = [sent EXCEPT ![c] = SubSeq(Promised(c), 1, n)]
  BY <1>3, <1>6
<1> QED
  BY <1>7, SayIs

-----------------------------------------------------------------------------
(***************************************************************************)
(* A step that serves one connection is a step of FileStore that serves or *)
(* closes it.                                                              *)
(***************************************************************************)
OwnStep(c) ==
  /\ IInv /\ IInv' /\ SInv /\ SInv' /\ TInv /\ TInv' /\ [Next]_vars
  /\ Only(c) /\ \A d \in Conns \ {c} : Kept(d)

LEMMA KeptPromise ==
  ASSUME NEW d \in Conns, Kept(d)
  PROVE  /\ Promised(d)' = Promised(d) /\ sent'[d] = sent[d]
         /\ (socket'[d] = "closed") = (socket[d] = "closed")
<1>1. /\ client'[d].pending_output = client[d].pending_output
      /\ client'[d].file_buffer = client[d].file_buffer
      /\ client'[d].transferred_bytes = client[d].transferred_bytes
      /\ client'[d].expected_bytes = client[d].expected_bytes
      /\ client'[d].input_file = client[d].input_file
      /\ client[d].input_file # None =>
           content'[client[d].input_file] = content[client[d].input_file]
      /\ sent'[d] = sent[d]
  BY DEF Kept, SameTold, SameTransfer
<1>2. Promised(d)' = Promised(d)
  BY <1>1 DEF Promised, Unsent
<1> QED
  BY <1>1, <1>2 DEF Kept

LEMMA OthersStay ==
  ASSUME NEW c \in Conns, OwnStep(c)
  PROVE  /\ sent' = [sent EXCEPT ![c] = sent'[c]]
         /\ Promises' = [Promises EXCEPT ![c] = Promised(c)']
         /\ Ended' = [Ended EXCEPT ![c] = (socket'[c] = "closed")]
<1>1. \A d \in Conns \ {c} : /\ Promised(d)' = Promised(d) /\ sent'[d] = sent[d]
                             /\ (socket'[d] = "closed") = (socket[d] = "closed")
  BY KeptPromise DEF OwnStep
<1>2. sent = [d \in Conns |-> sent[d]] /\ sent' = [d \in Conns |-> sent'[d]]
  BY DEF OwnStep, SInv
<1>3. sent' = [sent EXCEPT ![c] = sent'[c]]
  BY <1>1, <1>2
<1>4. Promises' = [d \in Conns |-> Promised(d)']
  BY DEF Promises
<1>5. Promises' = [Promises EXCEPT ![c] = Promised(c)']
  BY <1>1, <1>4 DEF Promises
<1>6. Ended' = [d \in Conns |-> socket'[d] = "closed"]
  BY DEF Ended
<1>7. Ended' = [Ended EXCEPT ![c] = (socket'[c] = "closed")]
  BY <1>1, <1>6, Zenon DEF Ended
<1> QED
  BY <1>3, <1>5, <1>7

LEMMA HoldsSame ==
  ASSUME IInv, [Next]_vars, NamesKept
  PROVE  Holds' = Holds
<1>1. \A n \in Names \cap DOMAIN entry : content'[entry[n]] = content[entry[n]]
  BY NextKeepsFrozen DEF Frozen, IInv, TypeOK
<1>2. Names \cap Retrievable' = Names \cap Retrievable
  BY DEF NamesKept, Retrievable
<1> QED
  BY <1>1, <1>2 DEF Holds, NamesKept, Retrievable

\* A step that says more of the same promise.
LEMMA ContinuesIs ==
  ASSUME NEW c \in Conns, OwnStep(c), NamesKept, socket[c] # "closed", socket'[c] # "closed",
         Speaks(c), NEW rest, IsSequence(rest), Promised(c) = sent'[c] \o rest,
         Promised(c)' = Promised(c)
  PROVE  Store!Serve(c)
<1>1. Store!Say(c)
  BY SaysPart, OthersStay DEF OwnStep
<1>2. Promises' = Promises /\ Ended' = Ended
  BY OthersStay DEF Promises, Ended
<1>3. Holds' = Holds
  BY HoldsSame DEF OwnStep
<1> QED
  BY <1>1, <1>2, <1>3, ServeIs

\* A step that promises more and says nothing.
LEMMA SilentSay ==
  ASSUME NEW c \in Conns, OwnStep(c), sent'[c] = sent[c]
  PROVE  Store!Say(c)
<1>1. PICK rest : IsSequence(rest) /\ Promised(c) = sent[c] \o rest
  BY PromiseAhead DEF OwnStep, TInv
<1>2. Speaks(c)
  BY SaysNothing DEF OwnStep
<1> QED
  BY <1>1, <1>2, SaysPart, OthersStay DEF OwnStep

LEMMA NotEnded ==
  ASSUME NEW c \in Conns, OwnStep(c), socket[c] # "closed", socket'[c] # "closed"
  PROVE  Ended' = Ended
BY OthersStay DEF Ended

\* Before the request is taken nothing is promised.
LEMMA NothingPromised ==
  ASSUME IInv, NEW c \in Conns, Requesting(c)
  PROVE  Promised(c) = <<>>
<1>1. /\ IsSequence(sent[c]) /\ sent[c] = <<>> /\ client[c].pending_output = <<>>
      /\ client[c].file_buffer = <<>> /\ client[c].input_file = None
      /\ WellBuffered(client[c])
  BY DEF Requesting, IInv, Buffers, WellBuffered
<1>2. Promised(c) = sent[c] \o client[c].pending_output
  BY <1>1, PromisedIsOwed, OwedWithoutFile
<1> QED
  BY <1>1, <1>2, SequenceLines, ConcatNothing

\* What is promised once no file is open and none buffered.
LEMMA PromiseWithoutFile ==
  ASSUME IInv', NEW c \in Conns, client'[c].input_file = None, client'[c].file_buffer = <<>>
  PROVE  Promised(c)' = sent'[c] \o client'[c].pending_output
<1>1. IsSequence(sent'[c]) /\ WellBuffered(client'[c])
  BY DEF IInv, Buffers
<1> QED
  BY <1>1, PromisedIsOwed, OwedWithoutFile

LEMMA RequestServes ==
  ASSUME NEW c \in Conns, OwnStep(c), NamesKept,
         Waits(c) \/ Refuses(c) \/ BeginsDownload(c) \/ BeginsUpload(c)
  PROVE  Store!Serve(c)
<1>1. /\ socket[c] = "open" /\ socket'[c] = "open" /\ client[c].state = "AwaitingRequest"
      /\ sent'[c] = sent[c] /\ client'[c].file_buffer = <<>>
  BY DEF Waits, Refuses, BeginsDownload, BeginsUpload, Turns
<1>2. Requesting(c)
  BY <1>1 DEF OwnStep, TInv, Conversation, InUpload, InDownload, InReply, Uploading
<1>3. Promised(c) = <<>> /\ sent'[c] = <<>>
  BY <1>1, <1>2, NothingPromised DEF OwnStep, Requesting
<1>4. Store!Say(c)
  BY <1>1, SilentSay
<1>5. Holds' = Holds /\ Ended' = Ended
  BY <1>1, HoldsSame, NotEnded DEF OwnStep
<1>6. Promises' = [Promises EXCEPT ![c] = Promised(c)']
  BY OthersStay
<1>7. client'[c].input_file = None => Promised(c)' = client'[c].pending_output
  <2>1. IsSequence(client'[c].pending_output)
    BY DEF OwnStep, IInv, Buffers, WellBuffered
  <2> QED
    BY <1>1, <1>3, <2>1, PromiseWithoutFile, ConcatNothing DEF OwnStep
<1>8. ASSUME NEW reply, IsSequence(reply), Promised(c)' = reply
      PROVE  Grows(c, reply)
  <2>1. <<>> \o reply = reply
    BY <1>8, ConcatNothing
  <2> QED
    BY <1>3, <1>6, <1>8, <2>1 DEF Grows, Promises
<1>9. CASE Waits(c)
  <2>1. Promised(c)' = <<>>
    BY <1>7, <1>9 DEF Waits
  <2>2. Promises' = Promises
    BY <1>3, <1>6, <2>1 DEF Promises
  <2> QED
    BY <1>1, <1>4, <1>5, <2>2, ServeIs
<1>10. CASE Refuses(c)
  <2>1. PICK why \in Refusals : client'[c].pending_output = Line(ErrHead(why))
    BY <1>10 DEF Refuses
  <2>2. Grows(c, Line(ErrHead(why)))
    BY <1>7, <1>8, <1>10, <2>1, SequenceLines DEF Refuses
  <2> QED
    BY <1>1, <1>3, <1>4, <1>5, <2>2, RefuseIs, ServeIs
<1>11. CASE BeginsUpload(c)
  <2>1. Asked(c).operation = "Put" /\ Grows(c, Line(ReadyHead))
    BY <1>7, <1>8, <1>11, SequenceLines DEF BeginsUpload
  <2> QED
    BY <1>1, <1>3, <1>4, <1>5, <2>1, InviteIs, ServeIs
<1>12. CASE BeginsDownload(c)
  <2> DEFINE name == Asked(c).filename
             v == content[entry[name]]
             h == Line(OkHead(Len(v)))
             cl == client'[c]
  <2>1. /\ Asked(c).operation = "Get" /\ name \in Names \cap Retrievable
        /\ cl.input_file = entry[name] /\ cl.transferred_bytes = 0
        /\ cl.expected_bytes = Len(v) /\ cl.pending_output = h /\ cl.file_buffer = <<>>
        /\ content' = content
    BY <1>12 DEF BeginsDownload
  <2>2. cl.input_file # None
    BY <2>1, NamesApart DEF Retrievable, OwnStep, IInv, TypeOK, Files
  <2>3. IsSequence(v) /\ Len(v) \in Nat
    BY <2>1, VersionsAreSequences DEF OwnStep, TInv, StoredFilesComplete, Retrievable
  <2>4. Promised(c)' = ((<<>> \o h) \o <<>>) \o SubSeq(v, 0 + Len(<<>>) + 1, Len(v))
    BY <1>3, <2>1, <2>2, PromisedIsOwed DEF Owed
  <2> HIDE DEF v, h, name, cl
  <2>5. /\ 0 + Len(<<>>) + 1 = 1 /\ SubSeq(v, 1, Len(v)) = v
        /\ IsSequence(h) /\ <<>> \o h = h /\ h \o <<>> = h
    BY <2>3, SequenceWhole, SequenceLines, ConcatNothing DEF h
  <2>6. Promised(c)' = h \o v
    BY <2>4, <2>5
  <2>7. IsSequence(h \o v)
    BY <2>3, <2>5, SequenceConcat
  <2>8. Grows(c, h \o v)
    BY <1>8, <2>6, <2>7
  <2>9. Holds[name] = v
    BY <2>1 DEF Holds, v
  <2>10. Grows(c, Line(OkHead(Len(Holds[name]))) \o Holds[name])
    BY <2>8, <2>9 DEF h
  <2> QED
    BY <1>1, <1>3, <1>4, <1>5, <2>1, <2>10, GetIs, ServeIs DEF name
<1> QED
  BY <1>9, <1>10, <1>11, <1>12

\* What an upload has been promised: READY, until it is decided.
LEMMA UploadPromise ==
  ASSUME IInv, NEW c \in Conns, InUpload(c)
  PROVE  Promised(c) = Line(ReadyHead)
<1>1. /\ IsSequence(sent[c]) /\ client[c].file_buffer = <<>> /\ client[c].input_file = None
      /\ WellBuffered(client[c])
  BY DEF InUpload, Uploading, IInv, Buffers, WellBuffered
<1>2. Promised(c) = sent[c] \o client[c].pending_output
  BY <1>1, PromisedIsOwed, OwedWithoutFile
<1> QED
  BY <1>2 DEF InUpload

LEMMA UploadIsOpen ==
  ASSUME NEW c \in Conns, OwnStep(c), Uploading(c), socket[c] = "open"
  PROVE  InUpload(c)
BY DEF OwnStep, TInv, Conversation, Requesting, InDownload, InReply, Uploading

\* The decision of an upload: what it is promised besides READY.
LEMMA DecisionGrows ==
  ASSUME NEW c \in Conns, OwnStep(c), Promised(c) = Line(ReadyHead),
         sent'[c] = Line(ReadyHead), NEW head, client'[c].pending_output = Line(head),
         client'[c].input_file = None, client'[c].file_buffer = <<>>
  PROVE  Grows(c, Line(head))
<1>1. Promised(c)' = Line(ReadyHead) \o Line(head)
  BY PromiseWithoutFile DEF OwnStep
<1> QED
  BY <1>1, OthersStay DEF Grows, Promises

LEMMA DecisionSays ==
  ASSUME NEW c \in Conns, OwnStep(c), Promised(c) = Line(ReadyHead),
         Speaks(c), sent'[c] = Line(ReadyHead)
  PROVE  Store!Say(c)
<1>1. IsSequence(<<>>) /\ Line(ReadyHead) \o <<>> = Line(ReadyHead)
  BY SequenceLines, ConcatNothing
<1>2. Promised(c) = sent'[c] \o <<>>
  BY <1>1
<1> QED
  BY <1>1, <1>2, SaysPart, OthersStay DEF OwnStep

LEMMA CompletionHolds ==
  ASSUME NEW c \in Conns, OwnStep(c), CompletesUpload(c)
  PROVE  Holds' = [n \in DOMAIN Holds \cup {Asked(c).filename} |->
                     IF n = Asked(c).filename THEN Bytes(c, Asked(c).size) ELSE Holds[n]]
<1> DEFINE name == Asked(c).filename
           file == client[c].output_file
<1>1. /\ Names \cap DOMAIN entry' = (Names \cap DOMAIN entry) \cup {name}
      /\ \A n \in (Names \cap DOMAIN entry) \ {name} : entry'[n] = entry[n]
      /\ entry'[name] = file /\ content'[file] = Bytes(c, Asked(c).size)
      /\ Asked(c).operation = "Put" /\ Uploading(c)
  BY DEF CompletesUpload
<1>2. name \in Names
  BY <1>1, UploadIsVersion
<1>3. IsRegular(file)
  <2>1. /\ client[c].temporary_path \in DOMAIN entry
        /\ entry[client[c].temporary_path] = file /\ client[c].temporary_path \notin Names
    BY <1>1, TemporaryIsNoName DEF OwnStep, IInv, TypeOK, Ownership
  <2>2. file \in Conns
    BY <2>1 DEF OwnStep, SInv
  <2> QED
    BY <2>2, NamesApart DEF IsRegular, OfKind
<1>4. \A n \in Names \cap DOMAIN entry : content'[entry[n]] = content[entry[n]]
  BY NextKeepsFrozen DEF Frozen, OwnStep, IInv, TypeOK
<1> HIDE DEF name, file
<1>5. Names \cap Retrievable' = (Names \cap Retrievable) \cup {name}
  BY <1>1, <1>2, <1>3 DEF Retrievable
<1>6. ASSUME NEW n \in Names \cap Retrievable'
      PROVE  content'[entry'[n]] = IF n = name THEN Bytes(c, Asked(c).size) ELSE Holds[n]
  <2>1. CASE n = name
    BY <1>1, <2>1
  <2>2. CASE n # name
    <3>1. n \in Names \cap Retrievable /\ n \in (Names \cap DOMAIN entry) \ {name}
      BY <1>5, <1>6, <2>2 DEF Retrievable
    <3> QED
      BY <1>1, <1>4, <2>2, <3>1 DEF Holds
  <2> QED
    BY <2>1, <2>2
<1>7. Holds' = [n \in Names \cap Retrievable' |-> content'[entry'[n]]]
  BY DEF Holds
<1>8. DOMAIN Holds = Names \cap Retrievable
  BY DEF Holds
<1> QED
  BY <1>5, <1>6, <1>7, <1>8, Zenon DEF name

LEMMA UploadServes ==
  ASSUME NEW c \in Conns, OwnStep(c),
         CompletesUpload(c) \/ (NamesKept /\ (ReceivesPart(c) \/ FailsUpload(c)))
  PROVE  Store!Serve(c)
<1>1. socket[c] = "open" /\ socket'[c] = "open" /\ Uploading(c)
  BY DEF CompletesUpload, ReceivesPart, FailsUpload, Turns, Uploading
<1>2. InUpload(c) /\ Asked(c).operation = "Put" /\ Ended' = Ended
  BY <1>1, UploadIsOpen, NotEnded DEF InUpload
<1>3. Promised(c) = Line(ReadyHead)
  BY <1>2, UploadPromise DEF OwnStep
<1>4. CASE CompletesUpload(c)
  <2>1. /\ sent'[c] = Line(ReadyHead) /\ Speaks(c)
        /\ client'[c].pending_output = Line(OkHead(Asked(c).size))
        /\ client'[c].file_buffer = <<>> /\ client'[c].input_file = None
    BY <1>4 DEF CompletesUpload
  <2>2. Grows(c, Line(OkHead(Asked(c).size))) /\ Store!Say(c)
    BY <1>3, <2>1, DecisionGrows, DecisionSays
  <2>3. Store!Decide(c)
    BY <1>2, <1>3, <1>4, <2>2, CompletionHolds, CommitIs
  <2> QED
    BY <1>1, <1>2, <2>2, <2>3, ServeIs
<1>5. CASE NamesKept /\ FailsUpload(c)
  <2>1. PICK why \in Aborts : client'[c].pending_output = Line(ErrHead(why))
    BY <1>5 DEF FailsUpload
  <2>2. /\ sent'[c] = Line(ReadyHead) /\ Speaks(c)
        /\ client'[c].file_buffer = <<>> /\ client'[c].input_file = None
    BY <1>5 DEF FailsUpload
  <2>3. Grows(c, Line(ErrHead(why))) /\ Store!Say(c)
    BY <1>3, <2>1, <2>2, DecisionGrows, DecisionSays
  <2>4. Holds' = Holds
    BY <1>5, HoldsSame DEF OwnStep
  <2>5. Store!Decide(c)
    BY <1>2, <1>3, <2>3, <2>4, AbortIs
  <2> QED
    BY <1>1, <1>2, <2>3, <2>5, ServeIs
<1>6. CASE NamesKept /\ ReceivesPart(c)
  <2>1. /\ sent'[c] = sent[c] /\ client'[c].pending_output = <<>>
        /\ client'[c].file_buffer = <<>> /\ client'[c].input_file = client[c].input_file
        /\ client[c].state = "ReceivingFile"
    BY <1>6 DEF ReceivesPart, Turns, SameTransfer
  <2>2. client'[c].input_file = None /\ client[c].pending_output = <<>>
    BY <1>2, <2>1 DEF InUpload
  <2>3. Promised(c)' = sent'[c] \o client'[c].pending_output
    BY <2>1, <2>2, PromiseWithoutFile DEF OwnStep
  <2>4. Promised(c)' = Promised(c)
    BY <1>2, <1>3, <2>1, <2>2, <2>3 DEF InUpload
  <2>5. Promises' = Promises
    BY <2>4, OthersStay DEF Promises
  <2>6. Holds' = Holds
    BY <1>6, HoldsSame DEF OwnStep
  <2> QED
    BY <1>1, <1>2, <2>1, <2>5, <2>6, SilentSay, ServeIs
<1> QED
  BY <1>4, <1>5, <1>6

\* What follows the buffered bytes in a promise does not change when they are sent.
LEMMA FlushServes ==
  ASSUME NEW c \in Conns, OwnStep(c), NamesKept, Flushes(c)
  PROVE  Store!Serve(c)
<1> DEFINE cl  == client[c]
           new == client'[c]
           p   == new.pending_output
           b   == cl.file_buffer
           u   == Unsent(cl)
           s   == sent'[c]
<1>1. /\ socket[c] = "open" /\ socket'[c] = "open" /\ Speaks(c)
      /\ s \o p = sent[c] \o cl.pending_output
      /\ content' = content /\ new.input_file = cl.input_file
      /\ new.transferred_bytes = cl.transferred_bytes /\ new.file_buffer = b
      /\ new.expected_bytes = cl.expected_bytes
  BY DEF Flushes, Turns, SameTransfer
<1>2. Unsent(cl)' = u
  BY <1>1 DEF Unsent
<1>3. Promised(c)' = ((s \o p) \o b) \o u /\ Promised(c) = ((s \o p) \o b) \o u
  BY <1>1, <1>2 DEF Promised
<1>4. IsSequence(s) /\ IsSequence(p) /\ IsSequence(b) /\ IsSequence(u)
  <2>1. IsSequence(s) /\ IsSequence(p)
    BY DEF OwnStep, IInv, Buffers, WellBuffered
  <2>2. IsSequence(b) /\ IsSequence(u)
    BY ClientFields, UnsentIsSequence DEF OwnStep, TInv
  <2> QED
    BY <2>1, <2>2
<1> HIDE DEF p, b, u
<1> DEFINE q == b \o u
           r == p \o q
           f == s \o p
<1>5. IsSequence(q) /\ IsSequence(f)
  <2> HIDE DEF s
  <2> QED
    BY <1>4, SequenceConcat
<1>6. (f \o b) \o u = f \o q
  <2> HIDE DEF f
  <2> QED
    BY <1>4, <1>5, ConcatSame
<1>7. IsSequence(r) /\ (s \o p) \o q = s \o r
  <2> HIDE DEF q, s
  <2> QED
    BY <1>4, <1>5, SequenceConcat, ConcatSame
<1>8. Promised(c) = s \o r
  BY <1>3, <1>6, <1>7
<1> HIDE DEF r
<1>9. Promised(c) = sent'[c] \o r /\ Promised(c)' = Promised(c)
  BY <1>3, <1>8
<1> QED
  BY <1>1, <1>7, <1>9, ContinuesIs

\* The header of a download is on the wire before any of its file.
LEMMA HeaderIsSaid ==
  ASSUME IInv, NEW c \in Conns, InDownload(c), client[c].state = "SendingFile"
  PROVE  sent[c] # <<>>
<1> DEFINE b == client[c].file_buffer
           t == client[c].transferred_bytes
           k == t + Len(b)
<1>1. /\ k \in Nat /\ IsSequence(b) /\ t \in Nat /\ Len(b) \in Nat /\ k <= client[c].expected_bytes
      /\ client[c].pending_output = <<>>
  BY ClientFields DEF InDownload
<1>2. PICK v \in Versions(Asked(c).filename) :
        /\ client[c].expected_bytes = Len(v)
        /\ (sent[c] \o client[c].pending_output) \o b = Line(OkHead(Len(v))) \o SubSeq(v, 1, k)
  BY DEF InDownload
<1> DEFINE h == Line(OkHead(Len(v)))
           d == SubSeq(v, 1, k)
<1>3. IsSequence(d) /\ Len(d) = k /\ IsSequence(h) /\ Len(h) = 2
  <2>1. IsSequence(v)
    BY VersionsAreSequences
  <2> HIDE DEF k
  <2> QED
    BY <1>1, <1>2, <2>1, SequenceHalves, HeadersAre
<1> SUFFICES ASSUME sent[c] = <<>> PROVE FALSE
  OBVIOUS
<1>4. (<<>> \o <<>>) \o b = b
  BY <1>1, ConcatNothing, SequenceLines
<1>5. b = h \o d
  BY <1>1, <1>2, <1>4
<1> HIDE DEF h, d
<1>6. Len(h \o d) = 2 + k
  BY <1>3, SequenceConcat
<1> QED
  BY <1>1, <1>5, <1>6

LEMMA FileServes ==
  ASSUME NEW c \in Conns, OwnStep(c), NamesKept, SendsFile(c)
  PROVE  Store!Serve(c)
<1> DEFINE cl   == client[c]
           new  == client'[c]
           file == cl.input_file
           s    == sent[c]
           s2   == sent'[c]
           b    == cl.file_buffer
           b2   == new.file_buffer
           from == cl.transferred_bytes + Len(b)
           to   == new.transferred_bytes + Len(b2)
           base == s \o b
           x    == s2 \o b2
<1>1. /\ socket[c] = "open" /\ socket'[c] = "open" /\ Speaks(c)
      /\ cl.state = "SendingFile" /\ new.state = "SendingFile"
      /\ new.expected_bytes = cl.expected_bytes /\ new.pending_output = cl.pending_output
      /\ new.input_file = file \/ new.input_file = None
      /\ from <= to /\ (file = None => from = to) /\ content' = content
      /\ x = IF from = to THEN base ELSE base \o SubSeq(content[file], from + 1, to)
  BY DEF SendsFile, Turns
<1>2. InDownload(c) /\ cl.pending_output = <<>> /\ new.pending_output = <<>>
      /\ Asked(c).operation = "Get"
  BY <1>1 DEF OwnStep, TInv, Conversation, Requesting, InUpload, InReply, Uploading, InDownload
<1>3. /\ IsSequence(s) /\ IsSequence(s2) /\ IsSequence(b) /\ IsSequence(b2)
      /\ WellBuffered(cl) /\ WellBuffered(new)
  BY DEF OwnStep, IInv, Buffers, WellBuffered
<1>4. s \o <<>> = s /\ s2 \o <<>> = s2
  BY <1>3, ConcatNothing
<1>5. IsSequence(base) /\ IsSequence(x)
  <2> HIDE DEF s, s2, b, b2
  <2> QED
    BY <1>3, SequenceConcat
<1>6. ASSUME new.input_file = None
      PROVE  Promised(c)' = x
  <2>1. Promised(c)' = Owed(s2, new, content'[new.input_file])
    BY PromisedIsOwed
  <2>2. Owed(s2, new, content'[new.input_file]) = (s2 \o new.pending_output) \o new.file_buffer
    <3> HIDE DEF new, s2
    <3> QED
      BY <1>3, <1>6, OwedWithoutFile
  <2> QED
    BY <1>2, <1>4, <2>1, <2>2
<1>7. CASE file = None
  <2>1. Promised(c) = base
    <3>1. Promised(c) = Owed(s, cl, content[file])
      BY PromisedIsOwed
    <3>2. Owed(s, cl, content[file]) = (s \o cl.pending_output) \o cl.file_buffer
      <4> HIDE DEF cl, s
      <4> QED
        BY <1>3, <1>7, OwedWithoutFile DEF file
    <3> QED
      BY <1>2, <1>4, <3>1, <3>2
  <2>2. x = base /\ new.input_file = None
    BY <1>1, <1>7
  <2>3. Promised(c)' = Promised(c) /\ Promised(c) = sent'[c] \o b2
    BY <1>6, <2>1, <2>2
  <2> QED
    BY <1>1, <1>3, <2>3, ContinuesIs
<1>8. CASE file # None
  <2>1. PICK v \in Versions(Asked(c).filename) : cl.expected_bytes = Len(v) /\ content[file] = v
    BY <1>2, <1>8 DEF InDownload
  <2> DEFINE L == Len(v)
             m == SubSeq(v, from + 1, to)
             w == SubSeq(v, to + 1, L)
             rest == b2 \o w
  <2>2. /\ from \in Nat /\ to \in Nat /\ to <= L /\ IsSequence(v) /\ L \in Nat
    <3>1. from \in Nat
      BY ClientFields DEF OwnStep
    <3>2. IsClient(new) /\ Len(b2) \in Nat
      BY <1>3, SequenceWhole DEF OwnStep, IInv, TypeOK
    <3>3. to \in Nat /\ to <= new.expected_bytes
      BY <1>3, <3>2 DEF IsClient, WellBuffered
    <3> QED
      BY <1>1, <2>1, <3>1, <3>3, VersionsAreSequences
  <2>3. Promised(c) = base \o SubSeq(v, from + 1, L)
    BY <1>2, <1>4, <1>8, <2>1, PromisedIsOwed DEF Owed
  <2>4. new.input_file = file => Promised(c)' = x \o w
    BY <1>1, <1>2, <1>4, <1>8, <2>1, PromisedIsOwed DEF Owed
  <2>5. x = base \o m
    <3>1. CASE from = to
      <4>1. m = <<>>
        BY <2>2, <3>1, SubSeqEmpty
      <4> HIDE DEF base, x
      <4>2. base \o <<>> = base
        BY <1>5, ConcatNothing
      <4> QED
        BY <1>1, <3>1, <4>1, <4>2
    <3>2. CASE from # to
      BY <1>1, <2>1, <3>2
    <3> QED
      BY <3>1, <3>2
  <2>6. m \o w = SubSeq(v, from + 1, L) /\ IsSequence(m) /\ IsSequence(w)
    <3> HIDE DEF from, to, L
    <3>1. v \in Seq(ToSet(v)) /\ Len(v) = L
      BY <2>2 DEF IsSequence, L
    <3>2. from + 1 \in 1..(Len(v) + 1) /\ to \in ((from + 1) - 1)..Len(v) /\ L \in to..Len(v)
      BY <1>1, <2>2, <3>1
    <3>3. m \o w = SubSeq(v, from + 1, L)
      BY <3>1, <3>2, ConcatAdjacentSubSeq
    <3>4. from <= to /\ to <= Len(v) /\ L <= Len(v)
      BY <1>1, <2>2, <3>1
    <3> QED
      BY <2>2, <3>3, <3>4, SequencePart
  <2> HIDE DEF m, w
  <2>7. (base \o m) \o w = base \o (m \o w)
    <3>1. IsSequence(base) /\ IsSequence(m) /\ IsSequence(w)
      BY <1>5, <2>6
    <3> HIDE DEF base
    <3> QED
      BY <3>1, ConcatSame
  <2>8. Promised(c) = x \o w
    BY <2>3, <2>5, <2>6, <2>7
  <2>9. x \o w = s2 \o rest /\ IsSequence(rest)
    <3>1. IsSequence(s2) /\ IsSequence(b2) /\ IsSequence(w)
      BY <1>3, <2>6
    <3> HIDE DEF s2, b2
    <3>2. (s2 \o b2) \o w = s2 \o (b2 \o w)
      BY <3>1, ConcatSame
    <3>3. IsSequence(b2 \o w)
      BY <3>1, SequenceConcat
    <3> QED
      BY <3>2, <3>3
  <2> HIDE DEF rest
  <2>10. Promised(c) = sent'[c] \o rest
    BY <2>8, <2>9
  <2>11. CASE new.input_file = file
    <3>1. Promised(c)' = Promised(c)
      BY <2>4, <2>8, <2>11
    <3> QED
      BY <1>1, <2>9, <2>10, <3>1, ContinuesIs
  <2>12. CASE new.input_file = None
    <3> DEFINE n == Len(x)
    <3>1. Promised(c)' = x
      BY <1>6, <2>12
    <3>2. n \in Nat /\ Len(s2) \in Nat /\ Len(s2) <= n
      <4> HIDE DEF s2, b2
      <4> QED
        BY <1>3, FrontOf
    <3>3. SubSeq(x \o w, 1, n) = x /\ n <= Len(x \o w) /\ Len(x \o w) \in Nat
      <4> HIDE DEF x
      <4> QED
        BY <1>5, <2>6, FrontOf
    <3> HIDE DEF n
    <3>4. n \in Len(sent'[c])..Len(Promised(c)) /\ SubSeq(Promised(c), 1, n) = Promised(c)'
      <4> HIDE DEF x
      <4>1. SubSeq(Promised(c), 1, n) = Promised(c)' /\ n <= Len(Promised(c))
            /\ Len(Promised(c)) \in Nat
        BY <2>8, <3>1, <3>3
      <4> QED
        BY <3>2, <4>1
    <3>5. Promises' = [Promises EXCEPT ![c] = SubSeq(@, 1, n)]
      BY <3>4, OthersStay DEF Promises
    <3>6. sent[c] # <<>>
      BY <1>1, <1>2, HeaderIsSaid DEF OwnStep
    <3>7. Holds' = Holds /\ Ended' = Ended
      BY <1>1, HoldsSame, NotEnded DEF OwnStep
    <3>8. Store!CutShort(c)
      BY <1>2, <3>4, <3>5, <3>6, <3>7, CutShortIs
    <3>9. Store!Say(c)
      BY <1>1, <2>9, <2>10, SaysPart, OthersStay DEF OwnStep
    <3> QED
      BY <1>1, <3>7, <3>8, <3>9, ServeIs
  <2> QED
    BY <1>1, <2>11, <2>12
<1> QED
  BY <1>7, <1>8

\* close_client in a handler: what was not said by then never will be.
LEMMA ClosingCloses ==
  ASSUME NEW c \in Conns, OwnStep(c), NamesKept, socket[c] # "closed", Leaves(c) \/ Ends(c)
  PROVE  Store!Close(c)
<1>1. client'[c] = NewClient /\ socket'[c] = "closed" /\ Holds' = Holds
  BY HoldsSame DEF Leaves, Ends, OwnStep
<1>2. Promised(c)' = sent'[c]
  <2>1. client'[c].input_file = None /\ client'[c].file_buffer = <<>>
        /\ client'[c].pending_output = <<>>
    BY <1>1, NewClientFields
  <2>2. Promised(c)' = sent'[c] \o <<>>
    BY <2>1, PromiseWithoutFile DEF OwnStep
  <2>3. IsSequence(sent'[c])
    BY DEF OwnStep, IInv, Buffers
  <2> QED
    BY <2>2, <2>3, ConcatNothing
<1>3. Promises' = [Promises EXCEPT ![c] = sent'[c]] /\ Ended' = [Ended EXCEPT ![c] = TRUE]
  BY <1>1, <1>2, OthersStay
<1>4. Store!Say(c)
  <2>1. CASE Leaves(c)
    BY <2>1, SilentSay DEF Leaves
  <2>2. CASE Ends(c)
    <3> DEFINE s == sent'[c]
               u == Unsent(client[c])
    <3>1. /\ s = sent[c] \o client[c].pending_output /\ client[c].file_buffer = <<>> /\ Speaks(c)
      BY <2>2 DEF Ends
    <3>2. IsSequence(s) /\ IsSequence(u)
      BY UnsentIsSequence DEF OwnStep, IInv, Buffers, TInv
    <3>3. Promised(c) = (s \o <<>>) \o u
      BY <3>1 DEF Promised
    <3>4. s \o <<>> = s
      BY <3>2, ConcatNothing
    <3> HIDE DEF u
    <3>5. Promised(c) = sent'[c] \o u
      BY <3>3, <3>4
    <3> QED
      BY <3>1, <3>2, <3>5, SaysPart, OthersStay DEF OwnStep
  <2> QED
    BY <2>1, <2>2
<1> QED
  BY <1>1, <1>3, <1>4, CloseIs

\* A connection without a client is promised no more than was said.
LEMMA NewClientPromise ==
  ASSUME NEW c \in Conns
  PROVE  /\ IInv /\ client[c] = NewClient => Promised(c) = sent[c]
         /\ IInv' /\ client'[c] = NewClient => Promised(c)' = sent'[c]
<1>1. ASSUME NEW said, IsSequence(said), NEW bytes
      PROVE  Owed(said, NewClient, bytes) = said
  <2>1. Owed(said, NewClient, bytes) = said \o NewClient.pending_output
    BY <1>1, NewClientBuffered, NewClientFields, OwedWithoutFile
  <2> QED
    BY <1>1, <2>1, NewClientFields, ConcatNothing
<1>2. ASSUME IInv, client[c] = NewClient
      PROVE  Promised(c) = sent[c]
  BY <1>1, <1>2, PromisedIsOwed DEF IInv, Buffers
<1>3. ASSUME IInv', client'[c] = NewClient
      PROVE  Promised(c)' = sent'[c]
  BY <1>1, <1>3, PromisedIsOwed DEF IInv, Buffers
<1> QED
  BY <1>2, <1>3

LEMMA TogetherLoses ==
  ASSUME IInv, IInv', SInv, SInv', [Next]_vars, Together
  PROVE  \E S \in SUBSET Conns : Store!Lose(S)
<1> PICK S \in SUBSET Conns : S = {c \in Conns : socket[c] # "closed" /\ socket'[c] = "closed"}
  OBVIOUS
<1>1. ASSUME NEW c \in Conns
      PROVE  /\ sent'[c] = sent[c]
             /\ Promised(c)' = IF c \in S THEN sent[c] ELSE Promised(c)
             /\ (socket'[c] = "closed") = (socket[c] = "closed" \/ c \in S)
  <2>1. CASE Kept(c)
    <3>1. c \notin S
      BY <2>1 DEF Kept
    <3> QED
      BY <2>1, <3>1, KeptPromise
  <2>2. CASE Leaves(c)
    <3>1. client'[c] = NewClient /\ sent'[c] = sent[c] /\ socket'[c] = "closed"
      BY <2>2 DEF Leaves
    <3>2. Promised(c)' = sent[c]
      BY <3>1, NewClientPromise
    <3>3. socket[c] = "closed" => Promised(c) = sent[c]
      BY NotLiveIsNew, NewClientPromise
    <3> QED
      BY <1>1, <3>1, <3>2, <3>3
  <2> QED
    BY <1>1, <2>1, <2>2 DEF Together
<1>2. \A c \in S : socket[c] # "closed"
  OBVIOUS
<1>4. sent' = sent
  <2>1. sent = [c \in Conns |-> sent[c]] /\ sent' = [c \in Conns |-> sent'[c]]
    BY DEF SInv
  <2> QED
    BY <1>1, <2>1
<1>5. Promises' = [c \in Conns |-> IF c \in S THEN sent[c] ELSE Promises[c]]
  <2>1. Promises' = [c \in Conns |-> Promised(c)']
    BY DEF Promises
  <2> QED
    BY <1>1, <2>1 DEF Promises
<1>6. Ended' = [c \in Conns |-> Ended[c] \/ c \in S]
  <2>1. Ended' = [c \in Conns |-> socket'[c] = "closed"]
    BY DEF Ended
  <2>2. \A c \in Conns : Ended[c] = (socket[c] = "closed")
    BY DEF Ended
  <2>3. \A c \in Conns : (socket'[c] = "closed") = (Ended[c] \/ c \in S)
    BY <1>1, <2>2
  <2> QED
    BY <2>1, <2>3, Zenon
<1>7. Holds' = Holds
  BY HoldsSame DEF Together
<1>8. Store!Lose(S)
  BY <1>2, <1>4, <1>5, <1>6, <1>7, LoseIs
<1> QED
  BY <1>8

LEMMA StepImplements ==
  ASSUME IInv, IInv', SInv, SInv', TInv, TInv', [Next]_vars
  PROVE  Store!Next
<1>1. plan' = plan
  BY StepDone DEF TInv
<1>2. CASE Together
  <2>1. \E S \in SUBSET Conns : Store!Lose(S)
    BY <1>2, TogetherLoses
  <2> QED
    BY <1>1, <2>1 DEF Store!Next
<1>3. ASSUME NEW c \in Conns, Only(c), Serves(c), \A d \in Conns \ {c} : Kept(d), ~Together
      PROVE  Store!Serve(c) \/ Store!Close(c)
  <2>1. OwnStep(c)
    BY <1>3 DEF OwnStep
  <2>2. CompletesUpload(c) \/ (NamesKept /\ Effect(c) /\ ~Kept(c) /\ ~Leaves(c))
    BY <1>3 DEF Serves, Together, Only
  <2>3. Ends(c) => socket[c] # "closed"
    BY DEF Ends
  <2> QED
    BY <2>1, <2>2, <2>3, RequestServes, UploadServes, FlushServes, FileServes, ClosingCloses
    DEF Effect
<1>4. CASE ~Together
  <2>1. PICK c \in Conns : Only(c) /\ Serves(c) /\ \A d \in Conns \ {c} : Kept(d)
    BY <1>4, StepDone DEF TInv
  <2>2. Store!Serve(c) \/ Store!Close(c)
    BY <1>3, <1>4, <2>1
  <2> QED
    BY <1>1, <2>2 DEF Store!Next
<1> QED
  BY <1>2, <1>4

LEMMA InitImplements ==
  ASSUME Init
  PROVE  Store!Init
<1>1. IInv
  BY InitInv
<1>2. DOMAIN plan = Conns
  BY DEF Init, TransportInit
<1>3. Holds = [n \in OfKind("regular") |-> Bytes(n, InitialRoot[n].size)]
  <2>1. DOMAIN entry = DOMAIN InitialRoot /\ \A n \in DOMAIN entry : entry[n] = n
    BY DEF Init, StorageInit
  <2>2. \A n \in DOMAIN InitialRoot : n \in Files /\ content[n] = Bytes(n, InitialRoot[n].size)
    BY NamesApart DEF Init, StorageInit, Files
  <2>3. Names \cap Retrievable = OfKind("regular")
    BY <2>1, NamesApart, Kinds DEF Retrievable, IsRegular, OfKind
  <2>4. OfKind("regular") \subseteq DOMAIN InitialRoot
    BY DEF OfKind
  <2> QED
    BY <2>1, <2>2, <2>3, <2>4 DEF Holds
<1>4. \A c \in Conns : client[c] = NewClient /\ sent[c] = <<>> /\ socket[c] = "none"
  BY DEF Init, TransportInit
<1>5. Promises = [c \in Conns |-> <<>>]
  BY <1>1, <1>4, NewClientPromise DEF Promises
<1>6. Ended = [c \in Conns |-> FALSE]
  BY <1>4 DEF Ended
<1>7. sent = [c \in Conns |-> <<>>]
  BY DEF Init, TransportInit
<1> QED
  BY <1>2, <1>3, <1>5, <1>6, <1>7 DEF Store!Init, Promises, Ended, Holds

LEMMA SInvHolds == Spec => []SInv
<1>1. IInv /\ SInv /\ [Next]_vars => SInv'
  BY NextSInv
<1> QED
  BY <1>1, InitSInv, InvariantHolds, PTL DEF Spec

\* The server implements FileStore: seen from its users, every download is one stored
\* version and every upload replaces its name in the one step that promises its OK,
\* whatever the peers, the faults, the signals and the kills do in between.
THEOREM ServerImplementsFileStore == Spec => ImplementsFileStore
<1>1. Init => Store!Init
  BY InitImplements
<1>2. IInv /\ IInv' /\ SInv /\ SInv' /\ TInv /\ TInv' /\ [Next]_vars => [Store!Next]_(Store!storeVars)
  BY StepImplements
<1> QED
  BY <1>1, <1>2, SInvHolds, InvariantHolds, ConversationsHold, PTL DEF Spec, ImplementsFileStore, Store!Spec

=============================================================================
