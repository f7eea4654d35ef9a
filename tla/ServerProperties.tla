-------------------------- MODULE ServerProperties --------------------------
(***************************************************************************)
(* What makes the server correct, stated over the state of module Server.  *)
(***************************************************************************)
EXTENDS Server

Live(c)  == client[c].fd # None
Asked(c) == ParseRequest(plan[c].line)

\* What name n may ever hold: what it held at first, or all the bytes that
\* one upload to n announced.
Versions(n) ==
  {Bytes(c, Asked(c).size) :
     c \in {d \in Conns : Asked(d).operation = "Put" /\ Asked(d).filename = n}}
  \cup {Bytes(m, InitialRoot[m].size) : m \in DOMAIN InitialRoot \cap {n}}

\* Every complete reply a connection may get, from the first byte to the last.
Downloads(n)  == {Line(OkHead(Len(v))) \o v : v \in Versions(n)}
Uploads(size) ==
  {Line(ReadyHead) \o Line(end) : end \in {OkHead(size)} \cup {ErrHead(why) : why \in Aborts}}

Replies(c) ==
  {Line(ErrHead(why)) : why \in Refusals} \cup
    CASE Asked(c).operation = "Get" -> Downloads(Asked(c).filename)
      [] Asked(c).operation = "Put" -> Uploads(Asked(c).size)
      [] OTHER                      -> {}

-----------------------------------------------------------------------------
\* A remote name holds a whole version, at every moment and whatever happened
\* to the uploads: a partial or mixed upload is never visible under its name
\* (start_request writes elsewhere, complete_upload renames).
StoredFilesComplete ==
  \A n \in Names \cap DOMAIN entry : content[entry[n]] \in Versions(n)

\* An upload in progress writes a file of its own, which its temporary path
\* links, and that holds the first transferred_bytes of what the peer sent.
UploadsApart ==
  \A c \in Conns : client[c].output_file # None =>
    /\ client[c].temporary_path \in DOMAIN entry \ Names
    /\ entry[client[c].temporary_path] = client[c].output_file
    /\ content[client[c].output_file] = Bytes(c, client[c].transferred_bytes)
    /\ \A d \in Conns \ {c} : client[d].output_file # client[c].output_file

\* While the process lives no temporary file is left behind: each belongs to
\* a live client that will rename or remove it (close_client, queue_error).
TemporaryFilesOwned ==
  \A t \in DOMAIN entry \ Names :
    \E c \in Conns : Live(c) /\ client[c].temporary_path = t

\* What a peer gets is a prefix of one complete reply to its request: never
\* two answers, never a download mixed from two versions of a file or with a
\* size that is not its version's.
RepliesWellFormed ==
  \A c \in Conns : \E reply \in Replies(c) :
    IsPrefix(sent[c] \o client[c].pending_output, reply)

\* The sockets the kernel holds open for the server are exactly those of the
\* clients in the vector, each there once, and no more than kMaxClients.
ConnectionsAccounted ==
  /\ \A c \in Conns : Live(c) <=> socket[c] = "open"
  /\ \A c \in Conns : Live(c) => \E i \in DOMAIN clients : clients[i] = c
  /\ \A i, j \in DOMAIN clients : clients[i] = clients[j] => i = j
  /\ \A c, d \in Conns : Live(c) /\ client[c].fd = client[d].fd => c = d
  /\ Len(clients) <= MaxClients

\* The entries of poll_fds the loop has still to handle describe the client at
\* the same index, in the state poll was asked for: clients[index] and
\* poll_fds[index + 1] name one connection although handlers close clients.
PollAligned ==
  /\ poll_fds # <<>> => Len(poll_fds) = Len(clients)
  /\ \A i \in DOMAIN poll_fds :
       (i > index \/ (i = index /\ pc \in {"poll", "dispatch"})) =>
         /\ poll_fds[i].fd = client[clients[i]].fd
         /\ poll_fds[i].events = requested_events(clients[i])

\* A closed connection keeps nothing: no open file, no temporary path.
ClosedKeepsNothing ==
  \A c \in Conns : ~Live(c) => client[c] = NewClient

-----------------------------------------------------------------------------
\* The bytes of a file that a remote name links, or that a download has open,
\* never change: a PUT of the name replaces the link, not the bytes.
StoredBytesFrozen ==
  [][\A f \in Files :
       \/ \E n \in Names \cap DOMAIN entry : entry[n] = f
       \/ \E c \in Conns : client[c].input_file = f
       => content'[f] = content[f]]_vars

\* A remote name once stored stays, and links another file only when an upload
\* of it has all its bytes, in the step that queues its OK.
NamesReplacedByUploads ==
  [][\A n \in Names \cap DOMAIN entry :
       /\ n \in DOMAIN entry'
       /\ entry'[n] # entry[n] =>
            \E c \in Conns :
              /\ client'[c].state = "SendingResult" /\ client[c].state # "SendingResult"
              /\ Asked(c).filename = n
              /\ content'[entry'[n]] = Bytes(c, Asked(c).size)]_vars

\* The temporary files no client has any longer.
Orphans == (DOMAIN entry \ Names) \ {client[c].temporary_path : c \in Conns}

\* Unless a remove fails, only a kill leaves a temporary file behind: every failure,
\* timeout, hang-up and orderly stop removes it or renames it, also after earlier
\* kills left some, and what they left can only become fewer (a later upload takes
\* the name).
OrphansOnlyByKill == [][Orphans' \subseteq Orphans \/ Kill]_vars

\* An upload is answered OK in a step after which its name holds exactly the
\* bytes it announced (complete_upload renames before it queues the line).
AcknowledgedIsStored ==
  [][\A c \in Conns :
       client'[c].state = "SendingResult" /\ client[c].state # "SendingResult" =>
         /\ Asked(c).filename \in DOMAIN entry'
         /\ content'[entry'[Asked(c).filename]] = Bytes(c, Asked(c).size)]_vars

\* The server ends a connection by itself, within a round, only after the whole
\* reply when the peer is there, or has only shut down after a GET.
CompleteReplyBeforeClose ==
  [][\A c \in Conns :
       /\ socket[c] = "open" /\ socket'[c] = "closed"
       /\ pc \in {"dispatch", "write", "hangup"} /\ pc' # "down"
       /\ peer[c] = "open" \/ (peer[c] = "shut" /\ Asked(c).operation = "Get" /\ sent[c] # <<>>)
       => sent'[c] \in Replies(c)]_vars

-----------------------------------------------------------------------------
(***************************************************************************)
(* The server implements FileStore.  The store is what the remote names    *)
(* link; what is still promised to a connection is what its buffers hold   *)
(* and what is left of the file it has open.                               *)
(***************************************************************************)
Unsent(cl) ==
  IF cl.input_file = None THEN <<>>
  ELSE SubSeq(content[cl.input_file],
              cl.transferred_bytes + Len(cl.file_buffer) + 1, cl.expected_bytes)

Promised(c) ==
  sent[c] \o client[c].pending_output \o client[c].file_buffer \o Unsent(client[c])

Store == INSTANCE FileStore WITH
  InitialStore <- [n \in OfKind("regular") |-> Bytes(n, InitialRoot[n].size)],
  store   <- [n \in Names \cap Retrievable |-> content[entry[n]]],
  promise <- [c \in Conns |-> Promised(c)],
  said    <- sent,
  closed  <- [c \in Conns |-> socket[c] = "closed"]

\* Every step of the server is a step of FileStore or changes nothing there:
\* downloads and uploads are atomic, and OK is said only of a stored upload.
ImplementsFileStore == Store!Spec

-----------------------------------------------------------------------------
\* Every accepted connection is closed in the end, by its reply or kIdleTimeout.
ConnectionsEnd == \A c \in Conns : socket[c] = "open" ~> socket[c] = "closed"

\* Every connection request is accepted or refused in the end, also when
\* descriptors ran out for a time.
QueuedAnswered == \A c \in Conns : socket[c] = "queued" ~> socket[c] # "queued"

\* The process ends after SIGINT or SIGTERM, wherever in the loop it arrives.
StopEnds == g_stop ~> pc = "down"

=============================================================================
