-------------------------- MODULE ServerInvariants --------------------------
(***************************************************************************)
(* What the constants must satisfy and the inductive invariant from which  *)
(* ServerProofs derives properties of module ServerProperties.             *)
(***************************************************************************)
EXTENDS ServerProperties

\* Remote names, connections and temporary names are told apart.  The code does
\* not keep remote names out of the temporary ones: module MCOverlap drops this.
ASSUME NamesApart ==
  /\ Names \cap TempNames = {}
  /\ Conns \cap Names = {}
  /\ None \notin Names \cup TempNames \cup Conns \cup Fds
  /\ DOMAIN InitialRoot \subseteq Names

\* A path of the storage root is a regular file or is_regular_file refuses it.
ASSUME Kinds ==
  \A n \in DOMAIN InitialRoot : InitialRoot[n].kind \in {"regular", "directory", "symlink"}

ASSUME Sizes ==
  /\ MaxRequestLine \in Nat /\ MaxUploadBytes \in Nat /\ RcvBuf \in Nat /\ SndBuf \in Nat
  /\ \A n \in DOMAIN InitialRoot : InitialRoot[n].size \in Nat
  /\ \A c \in Conns : \A p \in Plans[c] : Len(p.line) \in Nat /\ p.payload \in Nat

IsSequence(s) == s \in Seq(ToSet(s))

\* The buffers of a client, and a transfer that never passes its size.
WellBuffered(cl) ==
  /\ IsSequence(cl.pending_output) /\ IsSequence(cl.file_buffer)
  /\ cl.transferred_bytes + Len(cl.file_buffer) <= cl.expected_bytes
  /\ cl.state # "SendingFile" => cl.file_buffer = <<>>

\* The counters that say how far each stream has come never overtake another.
Buffers ==
  /\ \A f \in Files : IsSequence(content[f])
  /\ \A c \in Conns :
       /\ consumed[c] <= offered[c] /\ offered[c] <= Len(Stream(c))
       /\ IsSequence(sent[c])
       /\ taken[c] <= Len(sent[c]) /\ Len(sent[c]) <= taken[c] + SndBuf
       /\ WellBuffered(client[c])

\* The vector of clients, the sockets and the queue of the listener.
Connections ==
  /\ ConnectionsAccounted
  /\ ClosedKeepsNothing
  /\ pc \notin {"dispatch", "write", "hangup"} => \A i \in DOMAIN clients : Live(clients[i])
  /\ \A i \in DOMAIN clients : socket[clients[i]] \in {"open", "closed"}
  /\ \A i \in DOMAIN backlog : backlog[i] \in Conns /\ socket[backlog[i]] = "queued"
  /\ \A i, j \in DOMAIN backlog : backlog[i] = backlog[j] => i = j
  /\ backlog \in Seq(Conns)

InRound == pc \in {"poll", "dispatch", "write", "hangup"}

\* The round under way: one pollfd per client, and the client it is at.
Round ==
  /\ PollAligned
  /\ DOMAIN poll_fds = IF InRound THEN DOMAIN clients ELSE {}
  /\ ~InRound => poll_fds = <<>>
  /\ pc \notin {"dispatch", "write", "hangup"} => index = 1
  /\ pc \in {"write", "hangup"} => index \in DOMAIN poll_fds /\ Live(clients[index])

Uploading(c) == client[c].state \in {"SendingReady", "ReceivingFile"}

\* A connection whose request has not been taken yet.
Fresh(c) == socket[c] \in {"none", "queued"} \/ (Live(c) /\ client[c].state = "AwaitingRequest")

\* Who may reach which file: a link has a file of its own, an upload has the
\* file of its temporary path, a download none that a temporary path links.
Ownership ==
  /\ \A m, n \in DOMAIN entry : entry[m] = entry[n] => m = n
  /\ \A c \in Conns :
       /\ Uploading(c) <=> client[c].output_file # None
       /\ Uploading(c) <=> client[c].temporary_path # None
       /\ Uploading(c) =>
            /\ client[c].temporary_path \in DOMAIN entry
            /\ entry[client[c].temporary_path] = client[c].output_file
            /\ client[c].temporary_path[1] = client[c].fd
            /\ client[c].final_path \in Names
       /\ \A t \in DOMAIN entry \ Names : entry[t] # client[c].input_file
       /\ Fresh(c) =>
            /\ \A n \in DOMAIN entry : entry[n] # c
            /\ \A d \in Conns : client[d].input_file # c

\* The inductive invariant: no step of main's loop, of a peer or of a restart takes
\* the server from a state where all its parts hold to one where one does not.
IInv == TypeOK /\ Buffers /\ Connections /\ Round /\ Ownership

-----------------------------------------------------------------------------
(***************************************************************************)
(* What each connection has been told and has stored so far, by the state  *)
(* of its client.                                                          *)
(***************************************************************************)
\* The length of the request line in the peer's stream, with its newline.
LineLength(c) == Len(plan[c].line) + 1

\* The request line is arriving: all of it that came is in request_buffer.
Requesting(c) ==
  /\ client[c].state = "AwaitingRequest"
  /\ client[c].request_buffer = SubSeq(Stream(c), 1, consumed[c])
  /\ sent[c] = <<>> /\ client[c].pending_output = <<>>
  /\ client[c].input_file = None

\* The bytes behind the line, as many as were received, are in the output file.
InUpload(c) ==
  /\ Uploading(c)
  /\ Asked(c).operation = "Put"
  /\ client[c].final_path = Asked(c).filename
  /\ client[c].expected_bytes = Asked(c).size
  /\ client[c].input_file = None
  /\ consumed[c] = LineLength(c) + client[c].transferred_bytes
  /\ content[client[c].output_file] = Bytes(c, client[c].transferred_bytes)
  /\ sent[c] \o client[c].pending_output = Line(ReadyHead)
  /\ client[c].state = "SendingReady" => client[c].transferred_bytes = 0
  /\ client[c].state = "ReceivingFile" => client[c].pending_output = <<>>

\* Sent and buffered are the header and the beginning of one version of the file,
\* of which the input file holds all; a read that failed has closed it.
InDownload(c) ==
  /\ client[c].state \in {"SendingGetHeader", "SendingFile"}
  /\ Asked(c).operation = "Get"
  /\ \E v \in Versions(Asked(c).filename) :
       /\ client[c].expected_bytes = Len(v)
       /\ client[c].input_file # None => content[client[c].input_file] = v
       /\ sent[c] \o client[c].pending_output \o client[c].file_buffer =
            Line(OkHead(Len(v))) \o
              SubSeq(v, 1, client[c].transferred_bytes + Len(client[c].file_buffer))
  /\ client[c].state = "SendingGetHeader" =>
       client[c].transferred_bytes = 0 /\ client[c].input_file # None
  /\ client[c].state = "SendingFile" => client[c].pending_output = <<>>
  /\ "read" \notin Faults => client[c].input_file # None

\* The last line of a complete reply is on its way.
InReply(c) ==
  /\ client[c].state \in {"SendingResult", "SendingError"}
  /\ sent[c] \o client[c].pending_output \in Replies(c)
  /\ client[c].input_file = None
  /\ client[c].state = "SendingResult" =>
       /\ Asked(c).operation = "Put"
       /\ sent[c] \o client[c].pending_output =
            Line(ReadyHead) \o Line(OkHead(Asked(c).size))

Conversation(c) ==
  /\ socket[c] \in {"none", "queued"} => consumed[c] = 0 /\ sent[c] = <<>>
  /\ socket[c] = "open" => Requesting(c) \/ InUpload(c) \/ InDownload(c) \/ InReply(c)
  /\ socket[c] = "closed" => \E reply \in Replies(c) : IsPrefix(sent[c], reply)

\* What poll reported is still true of the peer when the loop comes to it.
Polled ==
  /\ \A i \in DOMAIN poll_fds :
       /\ "HUP" \in poll_fds[i].revents => peer[clients[i]] # "open"
       /\ "ERR" \in poll_fds[i].revents => peer[clients[i]] = "reset"
       /\ "IN" \in poll_fds[i].revents => poll_fds[i].events = "IN"
       /\ "OUT" \in poll_fds[i].revents => poll_fds[i].events = "OUT"
  /\ pc \in {"write", "hangup"} => "HUP" \in poll_fds[index].revents

\* What the server has stored and said is right: inductive together with IInv.
TInv == StoredFilesComplete /\ Polled /\ \A c \in Conns : Conversation(c)

\* What the refinement needs besides: nothing but an upload's file, which is regular,
\* is ever under a temporary name.  Inductive together with IInv.
SInv ==
  /\ sent = [c \in Conns |-> sent[c]]
  /\ \A t \in DOMAIN entry \ Names : entry[t] \in Conns

\* What c was told, with what is on its way, ends with OK for an upload.
Told(c) == sent[c] \o client[c].pending_output

Acknowledges(told) == Len(told) >= 3 /\ told[1] = ReadyHead /\ told[3].kind = "ok"

HoldsUpload(n) ==
  /\ n \in Names \cap DOMAIN entry
  /\ \E d \in Conns : /\ Asked(d).operation = "Put" /\ Asked(d).filename = n
                      /\ content[entry[n]] = Bytes(d, Asked(d).size)

\* Once an upload is acknowledged its name holds all bytes of some PUT of that name:
\* inductive together with IInv and TInv.
AInv == \A c \in Conns : Acknowledges(Told(c)) => HoldsUpload(Asked(c).filename)

\* A download is announced only when the whole request line was received: inductive
\* together with IInv and TInv.
Announces(told) == Len(told) >= 1 /\ told[1].kind = "ok"

LInv == \A c \in Conns : Announces(Told(c)) => consumed[c] >= LineLength(c)

=============================================================================
