---------------------------- MODULE ServerProofs ----------------------------
(***************************************************************************)
(* IInv is an invariant of the server, for every number of connections,    *)
(* every buffer size and limit, and whatever the peers, the operating      *)
(* system and time do.  First lemmas about sequences and about the effects *)
(* the handlers share, then one step per action.                           *)
(***************************************************************************)
EXTENDS ServerInvariants, SequenceTheorems, TLAPS

USE DEF note_activity

LEMMA LeastOfNats ==
  \A m, n \in Nat : Least(m, n) \in Nat /\ Least(m, n) <= m /\ Least(m, n) <= n
BY DEF Least

-----------------------------------------------------------------------------
(***************************************************************************)
(* Sequences.                                                              *)
(***************************************************************************)
LEMMA SequenceOf ==
  ASSUME NEW S, NEW s \in Seq(S)
  PROVE  IsSequence(s)
BY DEF IsSequence, ToSet

LEMMA SequenceConcat ==
  ASSUME NEW s, NEW t, IsSequence(s), IsSequence(t)
  PROVE  /\ IsSequence(s \o t)
         /\ Len(s \o t) = Len(s) + Len(t)
         /\ Len(s) \in Nat /\ Len(t) \in Nat
<1> DEFINE S == ToSet(s) \cup ToSet(t)
<1>1. s \in Seq(S) /\ t \in Seq(S)
  BY DEF IsSequence
<1>2. s \o t \in Seq(S) /\ Len(s \o t) = Len(s) + Len(t)
  BY <1>1
<1>3. IsSequence(s \o t)
  BY <1>2, SequenceOf
<1> QED
  BY <1>1, <1>2, <1>3

LEMMA SequencePart ==
  ASSUME NEW s, IsSequence(s), NEW m \in Nat, NEW n \in Nat, m <= n, n <= Len(s)
  PROVE  /\ IsSequence(SubSeq(s, m + 1, n))
         /\ Len(SubSeq(s, m + 1, n)) = n - m
         /\ Len(s) \in Nat
<1> DEFINE S == ToSet(s)
<1>1. s \in Seq(S)
  BY DEF IsSequence
<1>2. SubSeq(s, m + 1, n) \in Seq(S) /\ Len(SubSeq(s, m + 1, n)) = n - m /\ Len(s) \in Nat
  BY <1>1
<1>3. IsSequence(SubSeq(s, m + 1, n))
  BY <1>2, SequenceOf
<1> QED
  BY <1>2, <1>3

LEMMA SequenceLines ==
  ASSUME NEW head
  PROVE  IsSequence(Line(head)) /\ IsSequence(<<>>) /\ Len(<<>>) = 0
BY DEF Line, IsSequence, ToSet

\* What erase(remove_if) leaves: clients kept, each once.
LEMMA ErasedVector ==
  ASSUME clients \in Seq(Conns), NEW keep \in SUBSET Conns, NEW s \in Erased(keep),
         \A i, j \in DOMAIN clients : clients[i] = clients[j] => i = j
  PROVE  /\ s \in Seq(Conns)
         /\ Len(s) <= Len(clients)
         /\ \A i \in DOMAIN s : s[i] \in keep /\ \E p \in DOMAIN clients : clients[p] = s[i]
         /\ \A p \in DOMAIN clients : clients[p] \in keep => \E i \in DOMAIN s : s[i] = clients[p]
         /\ \A i, j \in DOMAIN s : s[i] = s[j] => i = j
<1>1. PICK m \in 0..Len(clients) : s \in [1..m -> keep]
  BY DEF Erased, SeqOf
<1>2. s \in Seq(Conns) /\ Len(s) = m /\ DOMAIN s = 1..m
  BY <1>1
<1>3. ToSet(s) = ToSet(clients) \cap keep
  BY DEF Erased
<1>4. \A i \in DOMAIN s : s[i] \in keep /\ \E p \in DOMAIN clients : clients[p] = s[i]
  BY <1>1, <1>3 DEF ToSet
<1>5. \A p \in DOMAIN clients : clients[p] \in keep => \E i \in DOMAIN s : s[i] = clients[p]
  BY <1>3 DEF ToSet
<1>6. ASSUME NEW i \in DOMAIN s, NEW j \in DOMAIN s, i < j PROVE s[i] # s[j]
  <2>1. PICK p, q \in DOMAIN clients : p < q /\ clients[p] = s[i] /\ clients[q] = s[j]
    BY <1>6 DEF Erased
  <2>2. DOMAIN clients = 1..Len(clients) /\ Len(clients) \in Nat
    OBVIOUS
  <2> QED
    BY <2>1, <2>2
<1>7. \A i, j \in DOMAIN s : s[i] = s[j] => i = j
  BY <1>2, <1>6
<1> QED
  BY <1>1, <1>2, <1>4, <1>5, <1>7

-----------------------------------------------------------------------------
(***************************************************************************)
(* The vector and the round, under the effects the handlers share.         *)
(***************************************************************************)
AtClient(c) == InRound /\ pc # "poll" /\ Current(c)

Advance == NextClient \/ \E stage \in {"write", "hangup"} : Continue(stage)

LEMMA CurrentIsLive ==
  ASSUME TypeOK, Connections, Round, NEW c \in Conns, AtClient(c)
  PROVE  /\ Live(c)
         /\ socket[c] = "open"
         /\ \A i \in DOMAIN clients : clients[i] = c => i = index
<1>1. /\ index \in DOMAIN poll_fds /\ index \in DOMAIN clients /\ clients[index] = c
      /\ pc \in {"dispatch", "write", "hangup"}
  BY DEF AtClient, Current, InRound, Round
<1>2. pc = "dispatch" => client[c].fd \in Fds
  BY <1>1 DEF Round, PollAligned, TypeOK
<1>3. Live(c)
  BY <1>1, <1>2, NamesApart DEF Round, Live
<1> QED
  BY <1>1, <1>3 DEF Connections, ConnectionsAccounted

LEMMA ClientStays ==
  ASSUME TypeOK, Connections, Round, NEW c \in Conns, AtClient(c), NEW r,
         client' = [client EXCEPT ![c] = r], r.fd = client[c].fd,
         UNCHANGED <<socket, backlog>>, Advance
  PROVE  Connections' /\ Round'
<1>1. /\ Live(c) /\ socket[c] = "open" /\ \A i \in DOMAIN clients : clients[i] = c => i = index
      /\ clients[index] = c /\ index \in DOMAIN poll_fds /\ index \in Nat
      /\ pc \in {"dispatch", "write", "hangup"} /\ DOMAIN client = Conns
      /\ clients \in Seq(Conns) /\ DOMAIN poll_fds = DOMAIN clients
  BY CurrentIsLive DEF AtClient, Current, InRound, TypeOK, Round
<1>2. /\ UNCHANGED <<clients, poll_fds, listener_ready>>
      /\ \/ pc' = "dispatch" /\ index' = index + 1
         \/ pc' \in {"write", "hangup"} /\ index' = index
  BY DEF Advance, NextClient, Continue
<1>3. \A d \in Conns : client'[d].fd = client[d].fd /\ (d # c => client'[d] = client[d])
  BY <1>1
<1>4. Connections'
  <2>1. ConnectionsAccounted'
    BY <1>2, <1>3 DEF Connections, ConnectionsAccounted, Live
  <2>2. ClosedKeepsNothing'
    BY <1>1, <1>3 DEF Connections, ClosedKeepsNothing, Live
  <2> QED
    BY <1>2, <2>1, <2>2 DEF Connections
<1>5. Round'
  <2>1. PollAligned'
    <3>1. (poll_fds # <<>> => Len(poll_fds) = Len(clients))'
      BY <1>2 DEF Round, PollAligned
    <3>2. ASSUME NEW i \in DOMAIN poll_fds, i > index' \/ (i = index' /\ pc' = "dispatch")
          PROVE  poll_fds[i].fd = client'[clients[i]].fd
                 /\ poll_fds[i].events = requested_events(clients[i])'
      <4>1. i > index /\ i \in DOMAIN clients /\ clients[i] # c /\ clients[i] \in Conns
        BY <1>1, <1>2, <3>2
      <4> QED
        BY <1>2, <1>3, <4>1 DEF Round, PollAligned, requested_events
    <3> QED
      BY <1>2, <3>1, <3>2 DEF PollAligned
  <2>2. pc' \in {"write", "hangup"} => Live(clients[index])'
    BY <1>1, <1>2, <1>3 DEF Live
  <2> QED
    BY <1>1, <1>2, <2>1, <2>2 DEF Round, InRound
<1> QED
  BY <1>4, <1>5

LEMMA ClientCloses ==
  ASSUME TypeOK, Connections, Round, NEW c \in Conns, AtClient(c), Fail(c), UNCHANGED backlog
  PROVE  Connections' /\ Round'
<1>1. /\ Live(c) /\ socket[c] = "open" /\ \A i \in DOMAIN clients : clients[i] = c => i = index
      /\ clients[index] = c /\ index \in DOMAIN poll_fds /\ index \in Nat
      /\ pc \in {"dispatch", "write", "hangup"} /\ DOMAIN client = Conns
      /\ clients \in Seq(Conns) /\ DOMAIN poll_fds = DOMAIN clients
  BY CurrentIsLive DEF AtClient, Current, InRound, TypeOK, Round
<1>2. /\ UNCHANGED <<clients, poll_fds, listener_ready>>
      /\ pc' = "dispatch" /\ index' = index + 1
  BY DEF Fail, NextClient
<1>3. /\ \A d \in Conns : d # c => client'[d] = client[d] /\ socket'[d] = socket[d]
      /\ client'[c] = NewClient /\ socket'[c] = "closed"
  BY DEF Fail, CloseClients
<1>4. NewClient.fd = None
  BY DEF NewClient
<1>5. Connections'
  <2>1. ConnectionsAccounted'
    <3>1. ConnectionsAccounted
      BY DEF Connections
    <3>2. \A d \in Conns : Live(d)' <=> Live(d) /\ d # c
      BY <1>3, <1>4 DEF Live
    <3>3. \A d \in Conns : Live(d)' <=> socket'[d] = "open"
      BY <1>1, <1>3, <3>1, <3>2 DEF ConnectionsAccounted
    <3>4. /\ \A d \in Conns : Live(d)' => \E i \in DOMAIN clients : clients[i] = d
          /\ \A i, j \in DOMAIN clients : clients[i] = clients[j] => i = j
          /\ Len(clients) <= MaxClients
      BY <3>1, <3>2 DEF ConnectionsAccounted
    <3>5. \A d, e \in Conns : Live(d)' /\ client'[d].fd = client'[e].fd => d = e
      BY <1>3, <1>4, <3>1, <3>2 DEF ConnectionsAccounted, Live
    <3> HIDE DEF Live
    <3> QED
      BY <1>2, <3>3, <3>4, <3>5 DEF ConnectionsAccounted
  <2>2. ClosedKeepsNothing'
    BY <1>1, <1>3 DEF Connections, ClosedKeepsNothing, Live
  <2>3. \A i \in DOMAIN backlog : backlog[i] # c
    BY <1>1 DEF Connections
  <2>4. (\A i \in DOMAIN clients : socket[clients[i]] \in {"open", "closed"})'
    BY <1>1, <1>2, <1>3 DEF Connections
  <2> QED
    BY <1>2, <1>3, <2>1, <2>2, <2>3, <2>4 DEF Connections
<1>6. Round'
  <2>1. PollAligned'
    <3>1. (poll_fds # <<>> => Len(poll_fds) = Len(clients))'
      BY <1>2 DEF Round, PollAligned
    <3>2. ASSUME NEW i \in DOMAIN poll_fds, i > index' \/ i = index'
          PROVE  poll_fds[i].fd = client'[clients[i]].fd
                 /\ poll_fds[i].events = requested_events(clients[i])'
      <4>1. i > index /\ i \in DOMAIN clients /\ clients[i] # c /\ clients[i] \in Conns
        BY <1>1, <1>2, <3>2
      <4> QED
        BY <1>2, <1>3, <4>1 DEF Round, PollAligned, requested_events
    <3> QED
      BY <1>2, <3>1, <3>2 DEF PollAligned
  <2> QED
    BY <1>1, <1>2, <2>1 DEF Round, InRound
<1> QED
  BY <1>5, <1>6

\* The steps of a round that touch no client.
LEMMA ClientSkipped ==
  ASSUME TypeOK, Connections, Round, NEW c \in Conns, AtClient(c), NextClient,
         UNCHANGED <<client, socket, backlog>>
  PROVE  Connections' /\ Round'
<1>1. client' = [client EXCEPT ![c] = client[c]]
  BY DEF TypeOK
<1>2. Advance
  BY DEF Advance
<1> QED
  BY <1>1, <1>2, ClientStays

-----------------------------------------------------------------------------
(***************************************************************************)
(* The files, under the same effects.                                      *)
(***************************************************************************)
LEMMA NewClientFields ==
  /\ IsClient(NewClient)
  /\ NewClient.fd = None /\ NewClient.state = "AwaitingRequest"
  /\ NewClient.input_file = None /\ NewClient.output_file = None
  /\ NewClient.temporary_path = None
  /\ NewClient.pending_output = <<>> /\ NewClient.file_buffer = <<>>
  /\ NewClient.expected_bytes = 0 /\ NewClient.transferred_bytes = 0
BY ServerConstants DEF NewClient, IsClient, ClientState

\* What remove_temporary_file leaves: with a failing remove, some of P may stay.
LEMMA RemovedSome ==
  ASSUME NEW P, Removed(P)
  PROVE  /\ DOMAIN entry \ P \subseteq DOMAIN entry'
         /\ DOMAIN entry' \subseteq DOMAIN entry
         /\ \A n \in DOMAIN entry' : entry'[n] = entry[n]
         /\ "remove" \notin Faults => DOMAIN entry' = DOMAIN entry \ P
<1>1. PICK gone \in SUBSET P : entry' = Without(gone)
  BY DEF Removed
<1>2. "remove" \notin Faults => entry' = Without(P)
  BY DEF Removed
<1> QED
  BY <1>1, <1>2 DEF Without

\* close_client of any clients: theirs are the only links removed.
LEMMA ClosingKeepsOwnership ==
  ASSUME TypeOK, Connections, Ownership, NEW S \in SUBSET Conns, CloseClients(S),
         \A c \in S : socket[c] \in {"open", "closed"}
  PROVE  Ownership' /\ DOMAIN entry' \subseteq DOMAIN entry
         /\ \A n \in DOMAIN entry' : entry'[n] = entry[n]
<1> DEFINE gone == {client[c].temporary_path : c \in S}
<1>1. /\ \A c \in S : client'[c] = NewClient /\ socket'[c] = "closed"
      /\ \A c \in Conns \ S : client'[c] = client[c] /\ socket'[c] = socket[c]
      /\ DOMAIN entry \ gone \subseteq DOMAIN entry' /\ DOMAIN entry' \subseteq DOMAIN entry
      /\ \A n \in DOMAIN entry' : entry'[n] = entry[n]
  BY RemovedSome DEF CloseClients
<1>2. ASSUME NEW c \in Conns \ S, Uploading(c)
      PROVE  client[c].temporary_path \in DOMAIN entry'
  <2>1. ASSUME NEW d \in S, client[d].temporary_path = client[c].temporary_path
        PROVE  FALSE
    <3>1. Uploading(d) /\ client[d].fd = client[c].fd
      BY <1>2, <2>1, NamesApart DEF Ownership
    <3>2. Live(c) /\ Live(d)
      BY <1>2, <3>1, NewClientFields DEF Connections, ClosedKeepsNothing, Uploading
    <3> QED
      BY <3>1, <3>2 DEF Connections, ConnectionsAccounted
  <2> QED
    BY <1>1, <1>2, <2>1 DEF Ownership
<1>3. ASSUME NEW c \in Conns \ S
      PROVE  Fresh(c)' => Fresh(c)
  BY <1>1 DEF Fresh, Live
<1>4. ASSUME NEW c \in S
      PROVE  /\ ~Fresh(c)' /\ ~Uploading(c)'
             /\ \A d \in Conns : d # client'[c].input_file
  BY <1>1, NewClientFields, NamesApart DEF Fresh, Uploading, Live
<1>5. \A n \in DOMAIN entry' : n \in DOMAIN entry /\ entry'[n] \in Files
  BY <1>1 DEF TypeOK
<1> QED
  BY <1>1, <1>2, <1>3, <1>4, <1>5, NewClientFields, NamesApart DEF Ownership, Uploading, Files

\* queue_error: the client keeps its descriptor and nothing else.
LEMMA ErrorKeepsOwnership ==
  ASSUME TypeOK, Connections, Ownership, NEW c \in Conns, NEW r, NEW why,
         Live(c), socket[c] = "open", QueueError(c, r, why), UNCHANGED socket,
         IsClient(r), r.fd = client[c].fd,
         \/ r.temporary_path = client[c].temporary_path
         \/ r.temporary_path \in TempNames /\ r.temporary_path[1] = client[c].fd
  PROVE  /\ Ownership'
         /\ DOMAIN entry' \subseteq DOMAIN entry
         /\ \A n \in DOMAIN entry' : entry'[n] = entry[n]
         /\ \A n \in Names \cap DOMAIN entry : n \in DOMAIN entry'
         /\ IsClient(client'[c]) /\ client'[c].fd = client[c].fd
<1> DEFINE e == Errored(r, why)
<1>1. /\ e.fd = client[c].fd /\ e.state = "SendingError" /\ e.input_file = None
      /\ e.output_file = None /\ e.temporary_path = None /\ IsClient(e)
  BY DEF Errored, IsClient, ClientState, NewClient
<1>2. /\ client'[c] = e
      /\ \A d \in Conns \ {c} : client'[d] = client[d]
      /\ DOMAIN entry \ {r.temporary_path} \subseteq DOMAIN entry'
      /\ DOMAIN entry' \subseteq DOMAIN entry
      /\ \A n \in DOMAIN entry' : entry'[n] = entry[n]
  BY RemovedSome DEF QueueError, TypeOK
<1>3. ASSUME NEW d \in Conns \ {c}, Uploading(d)
      PROVE  client[d].temporary_path \in DOMAIN entry'
  <2>1. Live(d)
    BY <1>3, NewClientFields DEF Connections, ClosedKeepsNothing, Uploading
  <2>2. client[d].fd # client[c].fd
    BY <2>1 DEF Connections, ConnectionsAccounted
  <2>3. client[d].temporary_path # client[c].temporary_path
    BY <1>3, <2>2, NamesApart DEF Ownership
  <2>4. client[d].temporary_path # r.temporary_path
    BY <1>3, <2>2, <2>3 DEF Ownership
  <2> QED
    BY <1>2, <1>3, <2>4 DEF Ownership
<1>4. \A d \in Conns \ {c} : Fresh(d)' => Fresh(d)
  BY <1>2 DEF Fresh, Live
<1>5. ~Fresh(c)' /\ ~Uploading(c)' /\ \A n \in DOMAIN entry : entry[n] # client'[c].input_file
  BY <1>1, <1>2, NamesApart DEF Fresh, Uploading, TypeOK, Files
<1>6. \A n \in Names \cap DOMAIN entry : n \in DOMAIN entry'
  BY <1>2, NamesApart DEF TypeOK, IsClient
<1> QED
  BY <1>1, <1>2, <1>3, <1>4, <1>5, <1>6, NamesApart DEF Ownership, Uploading, Files

\* A client that goes on with the files it has: same uploads, and no other
\* download than the one it had or one of a name.
LEMMA UpdateKeepsOwnership ==
  ASSUME TypeOK, Connections, Ownership, NEW c \in Conns, NEW r,
         Live(c), socket[c] = "open", Update(c, r), UNCHANGED socket,
         IsClient(r), r.fd = client[c].fd,
         r.output_file = client[c].output_file, r.temporary_path = client[c].temporary_path,
         r.final_path = client[c].final_path,
         r.state \in {"SendingReady", "ReceivingFile"} <=> Uploading(c),
         r.state = "AwaitingRequest" => client[c].state = "AwaitingRequest",
         \/ r.input_file \in {None, client[c].input_file}
         \/ \E n \in Names \cap DOMAIN entry : r.input_file = entry[n]
  PROVE  Ownership'
<1>1. /\ client'[c] = r /\ UNCHANGED entry
      /\ \A d \in Conns \ {c} : client'[d] = client[d]
  BY DEF Update, TypeOK
<1>2. \A d \in Conns : Fresh(d)' => Fresh(d)
  BY <1>1 DEF Fresh, Live
<1>3. \A d \in Conns : Uploading(d)' <=> Uploading(d)
  BY <1>1 DEF Uploading
<1>4. \A t \in DOMAIN entry \ Names : entry[t] # r.input_file
  BY NamesApart DEF Ownership, TypeOK, Files
<1>5. \A d \in Conns : Fresh(d) => r.input_file # d
  BY NamesApart DEF Ownership
<1> QED
  BY <1>1, <1>2, <1>3, <1>4, <1>5 DEF Ownership

\* rename of the temporary file of c onto its final path.
LEMMA RenameKeepsOwnership ==
  ASSUME TypeOK, Connections, Ownership, NEW c \in Conns, NEW r,
         Live(c), socket[c] = "open", UNCHANGED socket, Uploading(c),
         client' = [client EXCEPT ![c] = r],
         entry' = Renamed(client[c].temporary_path, client[c].final_path),
         IsClient(r), r.fd = client[c].fd, r.state = "SendingResult",
         r.output_file = None, r.temporary_path = None, r.input_file = client[c].input_file
  PROVE  /\ Ownership'
         /\ DOMAIN entry' \subseteq DOMAIN entry \cup Names
         /\ \A n \in DOMAIN entry' : entry'[n] \in Files
         /\ \A n \in Names \cap DOMAIN entry : n \in DOMAIN entry'
<1> DEFINE t == client[c].temporary_path
           n == client[c].final_path
<1>1. /\ t \in DOMAIN entry \ Names /\ t \in TempNames /\ n \in Names
      /\ t[1] = client[c].fd
  BY NamesApart DEF Ownership, TypeOK, IsClient
<1>2. /\ client'[c] = r /\ \A d \in Conns \ {c} : client'[d] = client[d]
      /\ DOMAIN entry' = (DOMAIN entry \ {t}) \cup {n}
      /\ entry'[n] = entry[t]
      /\ \A m \in DOMAIN entry' \ {n} : m \in DOMAIN entry /\ m # t /\ entry'[m] = entry[m]
  BY <1>1 DEF TypeOK, Renamed
<1>3. \A m, k \in DOMAIN entry' : entry'[m] = entry'[k] => m = k
  BY <1>1, <1>2 DEF Ownership
<1>4. \A d \in Conns : Fresh(d)' => Fresh(d)
  BY <1>2 DEF Fresh, Live
<1>5. ASSUME NEW d \in Conns \ {c}, Uploading(d)
      PROVE  client[d].temporary_path \in DOMAIN entry' \ {n}
  <2>1. Live(d)
    BY <1>5, NewClientFields DEF Connections, ClosedKeepsNothing, Uploading
  <2>2. client[d].fd # client[c].fd
    BY <2>1 DEF Connections, ConnectionsAccounted
  <2>3. client[d].temporary_path # t
    BY <1>1, <1>5, <2>2 DEF Ownership
  <2>4. client[d].temporary_path \in TempNames
    BY <1>5 DEF Ownership, TypeOK, IsClient
  <2> QED
    BY <1>1, <1>2, <1>5, <2>3, <2>4, NamesApart DEF Ownership
<1>6. ~Uploading(c)' /\ \A d \in Conns : client'[d].input_file = client[d].input_file
  BY <1>2 DEF Uploading
<1>7. \A d \in Conns \ {c} : Uploading(d)' <=> Uploading(d)
  BY <1>2 DEF Uploading
<1>8. \A d \in Conns : \A k \in DOMAIN entry' \ Names : entry'[k] # client'[d].input_file
  BY <1>1, <1>2, <1>6 DEF Ownership
<1>9. \A d \in Conns : Fresh(d) => \A k \in DOMAIN entry' : entry'[k] # d
  BY <1>1, <1>2 DEF Ownership
<1>10. Ownership'
  <2>1. \A d \in Conns : /\ Uploading(d)' <=> client'[d].output_file # None
                         /\ Uploading(d)' <=> client'[d].temporary_path # None
    BY <1>2, <1>6, <1>7 DEF Ownership
  <2>2. ASSUME NEW d \in Conns, Uploading(d)'
        PROVE  /\ client'[d].temporary_path \in DOMAIN entry'
               /\ entry'[client'[d].temporary_path] = client'[d].output_file
               /\ client'[d].temporary_path[1] = client'[d].fd
               /\ client'[d].final_path \in Names
    BY <1>2, <1>5, <1>6, <1>7, <2>2 DEF Ownership
  <2>3. \A d \in Conns : Fresh(d)' => /\ \A k \in DOMAIN entry' : entry'[k] # d
                                     /\ \A e \in Conns : client'[e].input_file # d
    BY <1>4, <1>6, <1>9 DEF Ownership
  <2> QED
    BY <1>3, <1>8, <2>1, <2>2, <2>3 DEF Ownership
<1> QED
  BY <1>1, <1>2, <1>10 DEF TypeOK

\* ofstream::open of a new temporary path: the file is fresh, or the one that
\* a killed process left under that path.
LEMMA StartKeepsOwnership ==
  ASSUME TypeOK, Connections, Ownership, NEW c \in Conns, NEW r, NEW path, NEW file,
         Live(c), socket[c] = "open", UNCHANGED socket, client[c].state = "AwaitingRequest",
         path \in TempNames, path[1] = client[c].fd,
         file = IF path \in DOMAIN entry THEN entry[path] ELSE c,
         client' = [client EXCEPT ![c] = r], entry' = With(path, file),
         r.output_file = file, r.temporary_path = path,
         IsClient(r), r.fd = client[c].fd, r.state = "SendingReady",
         r.input_file = client[c].input_file, r.final_path \in Names
  PROVE  Ownership'
<1>1. path \in TempNames /\ path \notin Names /\ path[1] = client[c].fd /\ path # None
  BY NamesApart
<1>2. /\ client'[c] = r /\ \A d \in Conns \ {c} : client'[d] = client[d]
      /\ DOMAIN entry' = DOMAIN entry \cup {path}
      /\ entry'[path] = file
      /\ \A m \in DOMAIN entry' \ {path} : m \in DOMAIN entry /\ entry'[m] = entry[m]
      /\ r.output_file = file /\ r.temporary_path = path
  BY DEF TypeOK, With
<1>3. Fresh(c) /\ ~Uploading(c) /\ file \in Files
  BY DEF Fresh, Uploading, TypeOK, Files
<1>4. \A m \in DOMAIN entry : m # path => entry[m] # file
  BY <1>3 DEF Ownership
<1>5. \A m, k \in DOMAIN entry' : entry'[m] = entry'[k] => m = k
  BY <1>2, <1>4 DEF Ownership
<1>6. \A d \in Conns : client[d].input_file # file
  BY <1>1, <1>3 DEF Ownership
<1>7. /\ ~Fresh(c)' /\ Uploading(c)'
      /\ \A d \in Conns \ {c} : Fresh(d)' => Fresh(d) /\ d # file
  <2>1. ~Fresh(c)' /\ Uploading(c)'
    BY <1>2 DEF Fresh, Live, Uploading
  <2>2. ASSUME NEW d \in Conns \ {c}, Fresh(d)' PROVE Fresh(d) /\ d # file
    <3>1. Fresh(d)
      BY <1>2, <2>2 DEF Fresh, Live
    <3> QED
      BY <3>1 DEF Ownership
  <2> QED
    BY <2>1, <2>2
<1>8. ASSUME NEW d \in Conns \ {c}, Uploading(d)
      PROVE  client[d].temporary_path # path
  <2>1. Live(d)
    BY <1>8, NewClientFields DEF Connections, ClosedKeepsNothing, Uploading
  <2>2. client[d].fd # client[c].fd
    BY <2>1 DEF Connections, ConnectionsAccounted
  <2> QED
    BY <1>1, <1>8, <2>2 DEF Ownership
<1>9. \A d \in Conns \ {c} : Uploading(d)' <=> Uploading(d)
  BY <1>2 DEF Uploading
<1>10. file # None
  BY <1>3, NamesApart DEF Files
<1>11. \A d \in Conns : client'[d].input_file = client[d].input_file
  BY <1>2
<1>12. \A d \in Conns : \A t \in DOMAIN entry' \ Names : entry'[t] # client'[d].input_file
  BY <1>2, <1>6, <1>11 DEF Ownership
<1>13. \A d \in Conns : Fresh(d)' =>
         /\ \A n \in DOMAIN entry' : entry'[n] # d
         /\ \A e \in Conns : client'[e].input_file # d
  BY <1>2, <1>7, <1>11 DEF Ownership
<1>14. ASSUME NEW d \in Conns, Uploading(d)'
       PROVE  /\ client'[d].temporary_path \in DOMAIN entry'
              /\ entry'[client'[d].temporary_path] = client'[d].output_file
              /\ client'[d].temporary_path[1] = client'[d].fd
              /\ client'[d].final_path \in Names
  <2>1. CASE d = c
    BY <1>1, <1>2, <2>1
  <2>2. CASE d # c
    BY <1>2, <1>8, <1>9, <1>14, <2>2 DEF Ownership
  <2> QED
    BY <2>1, <2>2
<1>15. \A d \in Conns : /\ Uploading(d)' <=> client'[d].output_file # None
                        /\ Uploading(d)' <=> client'[d].temporary_path # None
  BY <1>1, <1>2, <1>7, <1>9, <1>10 DEF Ownership
<1> QED
  BY <1>5, <1>12, <1>13, <1>14, <1>15 DEF Ownership

-----------------------------------------------------------------------------
(***************************************************************************)
(* What the read and the write half leave behind, whichever way they go.   *)
(***************************************************************************)
FilesTyped ==
  /\ DOMAIN entry \subseteq Names \cup TempNames
  /\ \A n \in DOMAIN entry : entry[n] \in Files
  /\ DOMAIN content = Files
  /\ \A f \in Files : IsSequence(content[f])

Handled(c, r) ==
  /\ client' = [client EXCEPT ![c] = r]
  /\ IsClient(r) /\ WellBuffered(r) /\ r.fd = client[c].fd
  /\ Ownership' /\ FilesTyped'

LEMMA StreamIsSequence ==
  ASSUME TypeOK, NEW c \in Conns
  PROVE  IsSequence(Stream(c)) /\ Len(Stream(c)) \in Nat
<1>1. Len(plan[c].line) \in Nat /\ plan[c].payload \in Nat
  <2>1. plan[c] \in SomePlans
    BY DEF TypeOK, TransportTypeOK
  <2>2. PICK d \in Conns : plan[c] \in Plans[d]
    BY <2>1 DEF SomePlans
  <2> QED
    BY <2>2, Sizes
<1> DEFINE words == [i \in 1..Len(plan[c].line) |-> Word(plan[c].line[i])]
           line  == words \o <<Newline>>
           data  == Bytes(c, plan[c].payload)
<1>2. IsSequence(words)
  <2>1. words \in Seq({Word(plan[c].line[i]) : i \in 1..Len(plan[c].line)})
    BY <1>1
  <2> QED
    BY <2>1, SequenceOf
<1>3. IsSequence(<<Newline>>)
  <2>1. <<Newline>> \in Seq({Newline})
    OBVIOUS
  <2> QED
    BY <2>1, SequenceOf
<1>4. IsSequence(line)
  BY <1>2, <1>3, SequenceConcat
<1>5. IsSequence(data)
  <2>1. data \in Seq({Byte(c, i) : i \in 1..plan[c].payload})
    BY <1>1 DEF Bytes
  <2> QED
    BY <2>1, SequenceOf
<1>6. Stream(c) = line \o data
  BY DEF Stream, RequestTokens
<1> QED
  BY <1>4, <1>5, <1>6, SequenceConcat

LEMMA ChunkIsSequence ==
  ASSUME TypeOK, Buffers, NEW c \in Conns
  PROVE  /\ Received(c) \in Nat /\ Received(c) <= Waiting(c)
         /\ IsSequence(Chunk(c)) /\ Len(Chunk(c)) = Received(c)
<1>1. /\ offered[c] \in Nat /\ consumed[c] \in Nat
      /\ consumed[c] <= offered[c] /\ offered[c] <= Len(Stream(c))
  BY DEF TypeOK, TransportTypeOK, Buffers
<1>2. Received(c) \in Nat /\ Received(c) <= Waiting(c)
  <2>1. Waiting(c) \in Nat /\ BufferSize \in Nat
    BY <1>1, ServerConstants DEF Waiting
  <2> QED
    BY <2>1, LeastOfNats DEF Received
<1>3. /\ consumed[c] <= consumed[c] + Received(c)
      /\ consumed[c] + Received(c) <= Len(Stream(c)) /\ consumed[c] + Received(c) \in Nat
  BY <1>1, <1>2, StreamIsSequence DEF Waiting
<1>4. /\ IsSequence(SubSeq(Stream(c), consumed[c] + 1, consumed[c] + Received(c)))
      /\ Len(SubSeq(Stream(c), consumed[c] + 1, consumed[c] + Received(c))) = Received(c)
  BY <1>1, <1>2, <1>3, StreamIsSequence, SequencePart
<1> QED
  BY <1>2, <1>4 DEF Chunk

LEMMA RequestTypes ==
  ASSUME NEW buffer
  PROVE  LET request == RequestIn(buffer) IN
         /\ request.operation = "Get" => request.filename \in Names
         /\ request.operation = "Put" => request.filename \in Names /\ request.size \in Nat
<1>1. \A why : NoRequest(why).operation = "none"
  BY DEF NoRequest
<1>2. ASSUME NEW line
      PROVE  LET request == ParseRequest(line) IN
             /\ request.operation = "Get" => request.filename \in Names
             /\ request.operation = "Put" => request.filename \in Names /\ request.size \in Nat
  BY <1>1 DEF ParseRequest, GetRequest, PutRequest, is_safe_filename, parse_uint64
<1> QED
  BY <1>1, <1>2 DEF RequestIn

ContentTyped == DOMAIN content = Files /\ \A f \in Files : IsSequence(content[f])

LEMMA ErrorHandled ==
  ASSUME IInv, NEW c \in Conns, NEW r, NEW why,
         Live(c), socket[c] = "open", QueueError(c, r, why), UNCHANGED socket, ContentTyped',
         IsClient(r), r.fd = client[c].fd, r.file_buffer = <<>>,
         \/ r.temporary_path = client[c].temporary_path
         \/ r.temporary_path \in TempNames /\ r.temporary_path[1] = client[c].fd
  PROVE  \E e : Handled(c, e)
<1> DEFINE e == Errored(r, why)
<1>1. client' = [client EXCEPT ![c] = e]
  BY DEF QueueError
<1>2. IsClient(e) /\ e.fd = client[c].fd
  BY DEF Errored, IsClient, ClientState, NewClient
<1>3. WellBuffered(e)
  <2>1. /\ e.pending_output = Line(ErrHead(why)) /\ e.file_buffer = <<>>
        /\ e.transferred_bytes <= e.expected_bytes
        /\ e.transferred_bytes \in Nat /\ e.expected_bytes \in Nat
    BY DEF Errored, IsClient, NewClient
  <2> QED
    BY <2>1, SequenceLines DEF WellBuffered
<1>4. /\ Ownership' /\ DOMAIN entry' \subseteq DOMAIN entry
      /\ \A n \in DOMAIN entry' : entry'[n] = entry[n]
  BY ErrorKeepsOwnership DEF IInv
<1>5. FilesTyped'
  BY <1>4 DEF IInv, TypeOK, FilesTyped, ContentTyped
<1> QED
  BY <1>1, <1>2, <1>3, <1>4, <1>5 DEF Handled

LEMMA RequestHandled ==
  ASSUME IInv, NEW c \in Conns, Live(c), socket[c] = "open",
         handle_request_readable(c), UNCHANGED socket
  PROVE  (\E r : Handled(c, r)) /\ g_upload_sequence' \in Nat
<1> DEFINE buffer  == client[c].request_buffer \o Chunk(c)
           request == RequestIn(buffer)
           got     == [client[c] EXCEPT !.request_buffer = buffer, !.idle = 0]
           start   == [got EXCEPT !.request_buffer = <<>>]
<1>1. /\ client[c].state = "AwaitingRequest" /\ ~Uploading(c)
      /\ client[c].temporary_path = None /\ client[c].output_file = None
      /\ client[c].file_buffer = <<>> /\ IsClient(client[c]) /\ WellBuffered(client[c])
      /\ ContentTyped /\ g_upload_sequence \in Nat /\ FilesTyped
  BY DEF handle_request_readable, IInv, TypeOK, Buffers, Ownership, Uploading, WellBuffered,
     ContentTyped, FilesTyped
<1>2. /\ IsClient(got) /\ WellBuffered(got) /\ got.fd = client[c].fd
      /\ got.temporary_path = None /\ got.output_file = None /\ got.file_buffer = <<>>
      /\ got.state = "AwaitingRequest" /\ got.input_file = client[c].input_file
      /\ got.final_path = client[c].final_path
  BY <1>1, ServerConstants DEF IsClient, WellBuffered, NewClient
<1>3. /\ IsClient(start) /\ WellBuffered(start) /\ start.fd = client[c].fd
      /\ start.temporary_path = None /\ start.output_file = None /\ start.file_buffer = <<>>
      /\ start.state = "AwaitingRequest" /\ start.input_file = client[c].input_file
      /\ start.final_path = client[c].final_path
  BY <1>2 DEF IsClient, WellBuffered, NewClient
<1>4. CASE Update(c, got) /\ UNCHANGED <<content, g_upload_sequence>>
  <2>1. Ownership'
    BY <1>1, <1>2, <1>4, UpdateKeepsOwnership DEF IInv
  <2>2. FilesTyped'
    BY <1>1, <1>4 DEF FilesTyped, Update
  <2> QED
    BY <1>1, <1>2, <1>4, <2>1, <2>2 DEF Handled, Update
<1>5. CASE QueueError(c, got, request.error) /\ UNCHANGED <<content, g_upload_sequence>>
  <2>1. ContentTyped'
    BY <1>1, <1>5 DEF ContentTyped
  <2> QED
    BY <1>1, <1>2, <1>5, <2>1, ErrorHandled
<1>6. CASE request.operation = "Get" /\ StartGet(c, start, request.filename)
  <2> DEFINE name == request.filename
             size == Len(content[entry[name]])
             r == [start EXCEPT !.input_file = entry[name], !.expected_bytes = size,
                                !.transferred_bytes = 0, !.pending_output = Line(OkHead(size)),
                                !.state = "SendingGetHeader"]
  <2>1. name \in Names /\ UNCHANGED <<content, g_upload_sequence>>
    BY <1>6, RequestTypes DEF StartGet
  <2>2. ContentTyped'
    BY <1>1, <2>1 DEF ContentTyped
  <2>3. ASSUME NEW why, QueueError(c, start, why)
        PROVE  \E e : Handled(c, e)
    BY <1>1, <1>3, <2>2, <2>3, ErrorHandled
  <2>4. CASE name \in Retrievable /\ Update(c, r)
    <3>1. name \in DOMAIN entry /\ entry[name] \in Files /\ size \in Nat
      <4>1. name \in DOMAIN entry /\ entry[name] \in Files
        BY <1>1, <2>4 DEF Retrievable, FilesTyped
      <4> QED
        BY <1>1, <4>1, SequenceConcat DEF ContentTyped
    <3>2. IsClient(r) /\ r.fd = client[c].fd
      <4> DEFINE file == entry[name]
      <4>1. file \in Files /\ r.input_file = file
        BY <1>3, <3>1 DEF IsClient, NewClient
      <4>2. DOMAIN r = DOMAIN NewClient /\ r.expected_bytes = size /\ r.transferred_bytes = 0
        BY <1>3 DEF IsClient, NewClient
      <4>3. /\ r.fd = start.fd /\ r.state = "SendingGetHeader" /\ r.idle = start.idle
            /\ r.output_file = start.output_file /\ r.final_path = start.final_path
            /\ r.temporary_path = start.temporary_path
        BY <1>3 DEF IsClient, NewClient
      <4> HIDE DEF r, start, size, name, file
      <4> QED
        BY <1>3, <3>1, <4>1, <4>2, <4>3 DEF IsClient, ClientState
    <3>3. WellBuffered(r)
      BY <1>3, <3>1, SequenceLines DEF WellBuffered, IsClient, NewClient
    <3>4. /\ r.output_file = None /\ r.temporary_path = None /\ r.input_file = entry[name]
          /\ r.state = "SendingGetHeader" /\ r.final_path = client[c].final_path
      BY <1>3 DEF IsClient, NewClient
    <3>5. Ownership'
      BY <1>1, <2>1, <2>4, <3>1, <3>2, <3>4, UpdateKeepsOwnership DEF IInv
    <3>6. FilesTyped'
      BY <1>1, <2>1, <2>4 DEF FilesTyped, Update
    <3>7. Handled(c, r)
      BY <2>4, <3>2, <3>3, <3>5, <3>6 DEF Handled, Update
    <3> QED
      BY <1>1, <2>1, <3>7
  <2> QED
    BY <1>1, <1>6, <2>1, <2>3, <2>4 DEF StartGet
<1>7. CASE request.operation = "Put" /\ StartPut(c, start, request.filename, request.size)
  <2> DEFINE name == request.filename
             size == request.size
             path == TempPath(start.fd, g_upload_sequence + 1)
             file == IF path \in DOMAIN entry THEN entry[path] ELSE c
             put  == [start EXCEPT !.expected_bytes = size, !.transferred_bytes = 0,
                                   !.final_path = name, !.temporary_path = path]
             r    == [put EXCEPT !.output_file = file, !.pending_output = Line(ReadyHead),
                                 !.state = "SendingReady"]
  <2>1. name \in Names /\ size \in Nat /\ g_upload_sequence' = g_upload_sequence + 1
    BY <1>7, RequestTypes DEF StartPut
  <2>2. path \in TempNames /\ path[1] = client[c].fd /\ file \in Files
    BY <1>1, <1>3 DEF TempPath, TempNames, IsClient, Live, FilesTyped, Files
  <2>3. /\ IsClient(put) /\ put.fd = client[c].fd /\ put.file_buffer = <<>>
        /\ put.temporary_path = path /\ put.input_file = client[c].input_file
        /\ put.transferred_bytes = 0 /\ put.expected_bytes = size /\ put.final_path = name
    BY <1>3, <2>1, <2>2 DEF IsClient, NewClient
  <2>4. CASE QueueError(c, put, "storage-failure") /\ UNCHANGED content
    <3>1. ContentTyped'
      BY <1>1, <2>4 DEF ContentTyped
    <3>2. \E e : Handled(c, e)
      BY <2>2, <2>3, <2>4, <3>1, ErrorHandled
    <3> QED
      BY <1>1, <2>1, <3>2
  <2>5. CASE /\ client' = [client EXCEPT ![c] = r]
             /\ entry' = With(path, file)
             /\ content' = [content EXCEPT ![file] = <<>>]
    <3>1. IsClient(r) /\ r.fd = client[c].fd
      <4> HIDE DEF put, file, path
      <4> QED
        BY <2>2, <2>3 DEF IsClient, ClientState, NewClient
    <3>2. /\ r.pending_output = Line(ReadyHead) /\ r.file_buffer = <<>>
          /\ r.transferred_bytes = 0 /\ r.expected_bytes = size
          /\ r.output_file = file /\ r.temporary_path = path /\ r.state = "SendingReady"
          /\ r.input_file = client[c].input_file /\ r.final_path = name
      BY <2>3 DEF IsClient, NewClient
    <3>3. WellBuffered(r)
      BY <2>1, <3>2, SequenceLines DEF WellBuffered
    <3>4. file = IF path \in DOMAIN entry THEN entry[path] ELSE c
      OBVIOUS
    <3> HIDE DEF r, put, file, path
    <3>5. Ownership'
      BY <1>1, <2>1, <2>2, <2>5, <3>1, <3>2, <3>4, StartKeepsOwnership DEF IInv
    <3>6. FilesTyped'
      <4>1. DOMAIN content' = Files /\ \A f \in Files : content'[f] \in {<<>>, content[f]}
        BY <1>1, <2>2, <2>5 DEF FilesTyped
      <4>2. ContentTyped'
        BY <1>1, <4>1, SequenceLines DEF ContentTyped
      <4>3. DOMAIN entry' = DOMAIN entry \cup {path}
            /\ \A n \in DOMAIN entry' : entry'[n] \in Files
        BY <1>1, <2>2, <2>5 DEF FilesTyped, With
      <4> QED
        BY <1>1, <2>2, <4>2, <4>3 DEF FilesTyped, ContentTyped
    <3>7. Handled(c, r)
      BY <2>5, <3>1, <3>3, <3>5, <3>6 DEF Handled
    <3> QED
      BY <1>1, <2>1, <3>7
  <2> QED
    BY <1>7, <2>4, <2>5 DEF StartPut
<1> QED
  BY <1>4, <1>5, <1>6, <1>7 DEF handle_request_readable

LEMMA CompleteHandled ==
  ASSUME IInv, NEW c \in Conns, NEW r, Live(c), socket[c] = "open", Uploading(c),
         CompleteUpload(c, r), UNCHANGED socket, ContentTyped',
         IsClient(r), r.fd = client[c].fd, r.file_buffer = <<>>,
         r.temporary_path = client[c].temporary_path, r.final_path = client[c].final_path,
         r.input_file = client[c].input_file
  PROVE  \E e : Handled(c, e)
<1> DEFINE e == [r EXCEPT !.output_file = None, !.temporary_path = None,
                          !.pending_output = Line(OkHead(r.expected_bytes)),
                          !.state = "SendingResult"]
<1>1. CASE QueueError(c, r, "storage-failure")
  BY <1>1, ErrorHandled
<1>2. CASE /\ entry' = Renamed(r.temporary_path, r.final_path)
           /\ client' = [client EXCEPT ![c] = e]
  <2>1. /\ IsClient(e) /\ e.fd = client[c].fd /\ e.state = "SendingResult"
        /\ e.output_file = None /\ e.temporary_path = None
        /\ e.input_file = client[c].input_file
    BY DEF IsClient, ClientState, NewClient
  <2>2. /\ e.pending_output = Line(OkHead(r.expected_bytes)) /\ e.file_buffer = <<>>
        /\ e.transferred_bytes <= e.expected_bytes
        /\ e.transferred_bytes \in Nat /\ e.expected_bytes \in Nat
    BY DEF IsClient, NewClient
  <2>3. WellBuffered(e)
    BY <2>1, <2>2, SequenceLines DEF WellBuffered
  <2> HIDE DEF e
  <2>4. /\ Ownership' /\ DOMAIN entry' \subseteq DOMAIN entry \cup Names
        /\ \A n \in DOMAIN entry' : entry'[n] \in Files
    BY <1>2, <2>1, RenameKeepsOwnership DEF IInv
  <2>5. FilesTyped'
    BY <2>4 DEF IInv, TypeOK, FilesTyped, ContentTyped
  <2>6. Handled(c, e)
    BY <1>2, <2>1, <2>3, <2>4, <2>5 DEF Handled
  <2> QED
    BY <2>6
<1> QED
  BY <1>1, <1>2 DEF CompleteUpload

LEMMA UpdateHandled ==
  ASSUME IInv, NEW c \in Conns, NEW r,
         Live(c), socket[c] = "open", Update(c, r), UNCHANGED socket, ContentTyped',
         IsClient(r), r.fd = client[c].fd, WellBuffered(r),
         r.output_file = client[c].output_file, r.temporary_path = client[c].temporary_path,
         r.final_path = client[c].final_path,
         r.state \in {"SendingReady", "ReceivingFile"} <=> Uploading(c),
         r.state = "AwaitingRequest" => client[c].state = "AwaitingRequest",
         r.input_file \in {None, client[c].input_file}
  PROVE  \E e : Handled(c, e)
<1>1. Ownership'
  BY UpdateKeepsOwnership DEF IInv
<1>2. FilesTyped'
  BY DEF IInv, TypeOK, FilesTyped, ContentTyped, Update
<1>3. Handled(c, r)
  BY <1>1, <1>2 DEF Handled, Update
<1> QED
  BY <1>3

LEMMA UploadHandled ==
  ASSUME IInv, NEW c \in Conns, Live(c), socket[c] = "open",
         handle_upload_readable(c), UNCHANGED socket
  PROVE  (\E r : Handled(c, r)) /\ g_upload_sequence' \in Nat
<1> DEFINE cl       == client[c]
           accepted == Accepted(c)
           got      == [cl EXCEPT !.idle = 0]
           wrote    == [got EXCEPT !.transferred_bytes = @ + accepted]
           stored   == SubSeq(Chunk(c), 1, accepted)
<1>1. /\ cl.state = "ReceivingFile" /\ Uploading(c) /\ cl.output_file # None
      /\ cl.file_buffer = <<>> /\ IsClient(cl) /\ WellBuffered(cl)
      /\ ContentTyped /\ g_upload_sequence' \in Nat /\ cl.output_file \in Files
  BY DEF handle_upload_readable, IInv, TypeOK, Buffers, Ownership, Uploading, WellBuffered,
     ContentTyped, IsClient
<1>2. /\ Received(c) \in Nat /\ IsSequence(Chunk(c)) /\ Len(Chunk(c)) = Received(c)
  BY ChunkIsSequence DEF IInv
<1>3. /\ accepted \in Nat /\ accepted <= Received(c)
      /\ accepted <= cl.expected_bytes - cl.transferred_bytes
      /\ cl.transferred_bytes \in Nat /\ cl.expected_bytes \in Nat
  <2>1. /\ cl.transferred_bytes \in Nat /\ cl.expected_bytes \in Nat
        /\ cl.expected_bytes - cl.transferred_bytes \in Nat
    BY <1>1 DEF IsClient
  <2> QED
    BY <1>2, <2>1, LeastOfNats DEF Accepted
<1>4. IsSequence(stored)
  BY <1>2, <1>3, SequencePart, 0 \in Nat, 0 + 1 = 1
<1>5. /\ IsClient(got) /\ got.fd = cl.fd /\ got.file_buffer = <<>>
      /\ got.temporary_path = cl.temporary_path /\ got.output_file = cl.output_file
      /\ got.final_path = cl.final_path /\ got.input_file = cl.input_file
  BY <1>1, ServerConstants DEF IsClient, NewClient
<1>6. /\ IsClient(wrote) /\ wrote.fd = cl.fd /\ wrote.file_buffer = <<>>
      /\ wrote.temporary_path = cl.temporary_path /\ wrote.output_file = cl.output_file
      /\ wrote.final_path = cl.final_path /\ wrote.input_file = cl.input_file
      /\ wrote.state = "ReceivingFile"
  BY <1>1, <1>3, <1>5, ServerConstants DEF IsClient, NewClient
<1>7. WellBuffered(wrote)
  <2>1. /\ wrote.pending_output = cl.pending_output
        /\ wrote.transferred_bytes = cl.transferred_bytes + accepted
        /\ wrote.expected_bytes = cl.expected_bytes
    BY <1>1 DEF IsClient, NewClient
  <2> QED
    BY <1>1, <1>3, <1>6, <2>1, SequenceLines DEF WellBuffered
<1> HIDE DEF wrote, got, accepted
<1>8. CASE /\ content' = [content EXCEPT ![cl.output_file] = @ \o stored]
           /\ \/ QueueError(c, wrote, "protocol-error")
              \/ CompleteUpload(c, wrote)
              \/ Update(c, wrote)
  <2>1. IsSequence(content[cl.output_file] \o stored)
    BY <1>1, <1>4, SequenceConcat DEF ContentTyped
  <2>2. ContentTyped'
    BY <1>1, <1>8, <2>1 DEF ContentTyped
  <2>3. CASE QueueError(c, wrote, "protocol-error")
    BY <1>1, <1>6, <2>2, <2>3, ErrorHandled
  <2>4. CASE CompleteUpload(c, wrote)
    BY <1>1, <1>6, <2>2, <2>4, CompleteHandled
  <2>5. CASE Update(c, wrote)
    BY <1>1, <1>6, <1>7, <2>2, <2>5, UpdateHandled
  <2> QED
    BY <1>8, <2>3, <2>4, <2>5
<1>9. CASE QueueError(c, got, "storage-failure") /\ UNCHANGED content
  <2>1. ContentTyped'
    BY <1>1, <1>9 DEF ContentTyped
  <2> QED
    BY <1>1, <1>5, <1>9, <2>1, ErrorHandled
<1>10. \/ /\ content' = [content EXCEPT ![cl.output_file] = @ \o stored]
          /\ \/ QueueError(c, wrote, "protocol-error")
             \/ CompleteUpload(c, wrote)
             \/ Update(c, wrote)
       \/ QueueError(c, got, "storage-failure") /\ UNCHANGED content
  BY DEF handle_upload_readable, wrote, got, accepted
<1> QED
  BY <1>1, <1>8, <1>9, <1>10

LEMMA NewClientBuffered == WellBuffered(NewClient)
BY SequenceLines, NewClientFields DEF WellBuffered

LEMMA FailHandled ==
  ASSUME IInv, NEW c \in Conns, AtClient(c), Fail(c), UNCHANGED <<content, backlog>>
  PROVE  /\ client' = [client EXCEPT ![c] = NewClient]
         /\ socket' = [socket EXCEPT ![c] = "closed"]
         /\ Ownership' /\ FilesTyped' /\ Connections' /\ Round'
<1>1. socket[c] = "open"
  BY CurrentIsLive DEF IInv
<1>2. Connections' /\ Round'
  BY ClientCloses DEF IInv
<1>3. CloseClients({c})
  BY DEF Fail
<1>4. /\ Ownership' /\ DOMAIN entry' \subseteq DOMAIN entry
      /\ \A n \in DOMAIN entry' : entry'[n] = entry[n]
  BY <1>1, <1>3, ClosingKeepsOwnership DEF IInv
<1>5. FilesTyped'
  BY <1>4 DEF IInv, TypeOK, Buffers, FilesTyped
<1>6. /\ client' = [client EXCEPT ![c] = NewClient]
      /\ socket' = [socket EXCEPT ![c] = "closed"]
  BY <1>3 DEF CloseClients, IInv, TypeOK, TransportTypeOK
<1> QED
  BY <1>2, <1>4, <1>5, <1>6

\* The types after a step of a handler.
LEMMA HandledTypes ==
  ASSUME TypeOK, NEW c \in Conns, AtClient(c), NEW r, IsClient(r), FilesTyped', Advance,
         client' = [client EXCEPT ![c] = r], TransportTypeOK',
         UNCHANGED <<g_stop, starts>>, g_upload_sequence' \in Nat
  PROVE  TypeOK'
<1>1. /\ UNCHANGED <<clients, poll_fds, listener_ready>>
      /\ pc' \in {"dispatch", "write", "hangup"} /\ index' \in {index, index + 1}
  BY DEF Advance, NextClient, Continue
<1>2. /\ client' = [d \in Conns |-> client'[d]]
      /\ \A d \in Conns : IsClient(client'[d])
  BY DEF TypeOK
<1> QED
  BY <1>1, <1>2 DEF TypeOK, FilesTyped

LEMMA ReceivingKeepsTypes ==
  ASSUME TypeOK, Buffers, NEW c \in Conns, NEW n \in Nat, n <= Waiting(c),
         consumed' = [consumed EXCEPT ![c] = @ + n],
         socket' \in [Conns -> {"none", "queued", "open", "closed"}],
         UNCHANGED <<plan, offered, sent, taken, peer>>
  PROVE  /\ TransportTypeOK'
         /\ \A d \in Conns : consumed'[d] <= offered'[d] /\ offered'[d] <= Len(Stream(d)')
<1>1. /\ offered \in [Conns -> Nat] /\ consumed \in [Conns -> Nat]
      /\ \A d \in Conns : consumed[d] <= offered[d] /\ offered[d] <= Len(Stream(d))
  BY DEF TypeOK, TransportTypeOK, Buffers
<1>2. consumed' \in [Conns -> Nat] /\ \A d \in Conns : consumed'[d] <= offered[d]
  BY <1>1 DEF Waiting
<1>3. \A d \in Conns : Stream(d)' = Stream(d)
  BY DEF Stream, RequestTokens
<1> QED
  BY <1>1, <1>2, <1>3 DEF TypeOK, TransportTypeOK

LEMMA HandledBuffers ==
  ASSUME IInv, NEW c \in Conns, NEW r, WellBuffered(r), FilesTyped',
         client' = [client EXCEPT ![c] = r],
         \A d \in Conns : consumed'[d] <= offered'[d] /\ offered'[d] <= Len(Stream(d)'),
         \A d \in Conns : /\ IsSequence(sent'[d])
                          /\ taken'[d] <= Len(sent'[d]) /\ Len(sent'[d]) <= taken'[d] + SndBuf
  PROVE  Buffers'
<1>1. \A d \in Conns : WellBuffered(client'[d])
  BY DEF IInv, TypeOK, Buffers
<1> QED
  BY <1>1 DEF Buffers, FilesTyped

LEMMA ReadEventInv ==
  ASSUME IInv, NEW c \in Conns, ReadEvent(c)
  PROVE  IInv'
<1>1. AtClient(c) /\ Live(c) /\ socket[c] = "open"
  <2>1. AtClient(c)
    BY DEF ReadEvent, AtClient, InRound
  <2> QED
    BY <2>1, CurrentIsLive DEF IInv
<1>2. UNCHANGED <<plan, offered, sent, taken, peer, backlog, g_stop, starts>>
  BY DEF ReadEvent, signalVars
<1>3. \A d \in Conns : /\ IsSequence(sent'[d])
                       /\ taken'[d] <= Len(sent'[d]) /\ Len(sent'[d]) <= taken'[d] + SndBuf
  BY <1>2 DEF IInv, Buffers
<1>4. CASE ReceiveEnds(c)
  <2>1. Fail(c) /\ UNCHANGED <<consumed, content, g_upload_sequence>>
    BY <1>4 DEF ReceiveEnds
  <2>2. /\ client' = [client EXCEPT ![c] = NewClient]
        /\ socket' = [socket EXCEPT ![c] = "closed"]
        /\ Ownership' /\ FilesTyped' /\ Connections' /\ Round'
    BY <1>1, <1>2, <2>1, FailHandled
  <2>3. Advance /\ IsClient(NewClient) /\ WellBuffered(NewClient)
    BY <2>1, NewClientFields, NewClientBuffered DEF Advance, Fail
  <2>4. TransportTypeOK'
    BY <1>2, <2>1, <2>2 DEF IInv, TypeOK, TransportTypeOK
  <2>5. TypeOK'
    BY <1>1, <1>2, <2>1, <2>2, <2>3, <2>4, HandledTypes DEF IInv, TypeOK
  <2>6. \A d \in Conns : consumed'[d] <= offered'[d] /\ offered'[d] <= Len(Stream(d)')
    BY <1>2, <2>1 DEF IInv, Buffers, Stream, RequestTokens
  <2>7. Buffers'
    BY <1>3, <2>2, <2>3, <2>6, HandledBuffers
  <2> QED
    BY <2>2, <2>5, <2>7 DEF IInv
<1>5. CASE ReceiveData(c)
  <2>1. /\ consumed' = [consumed EXCEPT ![c] = @ + Received(c)]
        /\ handle_request_readable(c) \/ handle_upload_readable(c)
        /\ UNCHANGED socket /\ Advance
    BY <1>5 DEF ReceiveData, Advance
  <2>2. PICK r : Handled(c, r)
    BY <1>1, <2>1, RequestHandled, UploadHandled
  <2>3. g_upload_sequence' \in Nat
    BY <1>1, <2>1, RequestHandled, UploadHandled
  <2>4. Received(c) \in Nat /\ Received(c) <= Waiting(c)
    BY ChunkIsSequence DEF IInv
  <2>5. /\ TransportTypeOK'
        /\ \A d \in Conns : consumed'[d] <= offered'[d] /\ offered'[d] <= Len(Stream(d)')
    BY <1>2, <2>1, <2>4, ReceivingKeepsTypes DEF IInv, TypeOK, TransportTypeOK
  <2>6. TypeOK'
    BY <1>1, <1>2, <2>1, <2>2, <2>3, <2>5, HandledTypes DEF IInv, Handled
  <2>7. Buffers'
    BY <1>3, <2>2, <2>5, HandledBuffers DEF Handled
  <2>8. Connections' /\ Round'
    BY <1>1, <1>2, <2>1, <2>2, ClientStays DEF IInv, Handled
  <2> QED
    BY <2>2, <2>6, <2>7, <2>8 DEF IInv, Handled
<1> QED
  BY <1>4, <1>5 DEF ReadEvent

-----------------------------------------------------------------------------
\* send puts a prefix of a buffer that fits behind what was sent before.
SentWell ==
  \A d \in Conns : /\ IsSequence(sent[d])
                   /\ taken[d] <= Len(sent[d]) /\ Len(sent[d]) <= taken[d] + SndBuf

LEMMA Sending ==
  ASSUME IInv, NEW c \in Conns, NEW buffer, IsSequence(buffer), NEW n,
         n = Least(SendSpace(c), Len(buffer))
  PROVE  /\ n \in Nat /\ n <= Len(buffer) /\ Len(buffer) \in Nat
         /\ IsSequence(SubSeq(buffer, n + 1, Len(buffer)))
         /\ Len(SubSeq(buffer, n + 1, Len(buffer))) = Len(buffer) - n
         /\ sent' = [sent EXCEPT ![c] = @ \o SubSeq(buffer, 1, n)] /\ UNCHANGED taken
              => SentWell' /\ DOMAIN sent' = Conns
<1>1. /\ IsSequence(sent[c]) /\ taken[c] \in Nat /\ Len(sent[c]) \in Nat
      /\ taken[c] <= Len(sent[c]) /\ Len(sent[c]) <= taken[c] + SndBuf
      /\ DOMAIN sent = Conns
  BY SequenceConcat DEF IInv, TypeOK, TransportTypeOK, Buffers
<1>2. SendSpace(c) \in Nat
  BY <1>1, Sizes DEF SendSpace
<1>3. Len(buffer) \in Nat
  BY SequenceConcat
<1>4. n \in Nat /\ n <= Len(buffer) /\ n <= SendSpace(c)
  BY <1>2, <1>3, LeastOfNats
<1>5. /\ IsSequence(SubSeq(buffer, n + 1, Len(buffer)))
      /\ Len(SubSeq(buffer, n + 1, Len(buffer))) = Len(buffer) - n
  BY <1>3, <1>4, SequencePart
<1>6. IsSequence(SubSeq(buffer, 1, n)) /\ Len(SubSeq(buffer, 1, n)) = n
  BY <1>3, <1>4, SequencePart, 0 \in Nat, 0 + 1 = 1
<1>7. ASSUME sent' = [sent EXCEPT ![c] = @ \o SubSeq(buffer, 1, n)], UNCHANGED taken
      PROVE  SentWell' /\ DOMAIN sent' = Conns
  <2>1. /\ sent'[c] = sent[c] \o SubSeq(buffer, 1, n)
        /\ \A d \in Conns \ {c} : sent'[d] = sent[d]
        /\ DOMAIN sent' = Conns
    BY <1>1, <1>7
  <2>2. IsSequence(sent'[c]) /\ Len(sent'[c]) = Len(sent[c]) + n
    <3> DEFINE part == SubSeq(buffer, 1, n)
    <3>1. IsSequence(part) /\ Len(part) = n /\ IsSequence(sent[c])
      BY <1>1, <1>6
    <3> HIDE DEF part
    <3>2. IsSequence(sent[c] \o part) /\ Len(sent[c] \o part) = Len(sent[c]) + n
      BY <3>1, SequenceConcat
    <3> QED
      BY <2>1, <3>2 DEF part
  <2>3. taken'[c] <= Len(sent'[c]) /\ Len(sent'[c]) <= taken'[c] + SndBuf
    BY <1>1, <1>4, <1>7, <2>2, Sizes DEF SendSpace
  <2>4. \A d \in Conns \ {c} : /\ IsSequence(sent'[d])
                               /\ taken'[d] <= Len(sent'[d])
                               /\ Len(sent'[d]) <= taken'[d] + SndBuf
    BY <1>7, <2>1 DEF IInv, Buffers
  <2> QED
    BY <2>1, <2>2, <2>3, <2>4 DEF SentWell
<1> QED
  BY <1>3, <1>4, <1>5, <1>7

\* What a write handler leaves: a closed client, or one that goes on.
Written(c) ==
  /\ SentWell' /\ DOMAIN sent' = Conns
  /\ \/ Fail(c)
     \/ UNCHANGED socket /\ Advance /\ \E r : Handled(c, r)

LEMMA FlushHandled ==
  ASSUME IInv, NEW c \in Conns, AtClient(c), SendPending(c), UNCHANGED <<taken, content>>
  PROVE  LET flushed == AfterFlush(c) IN
         /\ SentWell' /\ DOMAIN sent' = Conns
         /\ IsClient(flushed) /\ WellBuffered(flushed) /\ ContentTyped'
         /\ flushed.fd = client[c].fd /\ flushed.state = client[c].state
         /\ flushed.output_file = client[c].output_file
         /\ flushed.temporary_path = client[c].temporary_path
         /\ flushed.final_path = client[c].final_path
         /\ flushed.input_file = client[c].input_file
         /\ flushed.file_buffer = client[c].file_buffer
<1> DEFINE flushed == AfterFlush(c)
           rest    == SubSeq(client[c].pending_output, Flushed(c) + 1,
                             Len(client[c].pending_output))
<1>1. IsClient(client[c]) /\ WellBuffered(client[c])
  BY DEF IInv, TypeOK, Buffers
<1>2. SentWell' /\ DOMAIN sent' = Conns /\ IsSequence(rest)
  BY <1>1, Sending DEF SendPending, Flushed, WellBuffered
<1>3. /\ flushed.fd = client[c].fd /\ flushed.state = client[c].state
      /\ flushed.output_file = client[c].output_file
      /\ flushed.temporary_path = client[c].temporary_path
      /\ flushed.final_path = client[c].final_path
      /\ flushed.input_file = client[c].input_file
      /\ flushed.file_buffer = client[c].file_buffer
      /\ flushed.pending_output = rest
      /\ flushed.transferred_bytes = client[c].transferred_bytes
      /\ flushed.expected_bytes = client[c].expected_bytes
      /\ flushed.idle \in {0, client[c].idle}
      /\ DOMAIN flushed = DOMAIN NewClient
  BY <1>1 DEF AfterFlush, IsClient, NewClient
<1> HIDE DEF rest, flushed
<1>4. IsClient(flushed)
  BY <1>1, <1>3, ServerConstants DEF IsClient
<1>5. WellBuffered(flushed)
  BY <1>1, <1>2, <1>3 DEF WellBuffered
<1>6. ContentTyped'
  BY DEF IInv, TypeOK, Buffers, ContentTyped
<1> QED
  BY <1>2, <1>3, <1>4, <1>5, <1>6 DEF flushed

LEMMA WriteGetHeaderWrites ==
  ASSUME IInv, NEW c \in Conns, AtClient(c), WriteGetHeader(c), UNCHANGED <<taken, content>>
  PROVE  Written(c)
<1> DEFINE flushed == AfterFlush(c)
           sending == [flushed EXCEPT !.state = "SendingFile"]
<1>1. Live(c) /\ socket[c] = "open"
  BY CurrentIsLive DEF IInv
<1>2. /\ client[c].state = "SendingGetHeader" /\ ~Uploading(c) /\ SendPending(c)
  BY DEF WriteGetHeader, Uploading
<1>3. /\ SentWell' /\ DOMAIN sent' = Conns
      /\ IsClient(flushed) /\ WellBuffered(flushed) /\ ContentTyped'
      /\ flushed.fd = client[c].fd /\ flushed.state = client[c].state
      /\ flushed.output_file = client[c].output_file
      /\ flushed.temporary_path = client[c].temporary_path
      /\ flushed.final_path = client[c].final_path
      /\ flushed.input_file = client[c].input_file
  BY <1>2, FlushHandled
<1> HIDE DEF flushed
<1>4. /\ IsClient(sending) /\ WellBuffered(sending) /\ sending.state = "SendingFile"
      /\ sending.fd = flushed.fd
      /\ sending.output_file = flushed.output_file
      /\ sending.temporary_path = flushed.temporary_path
      /\ sending.final_path = flushed.final_path
      /\ sending.input_file = flushed.input_file
  BY <1>2, <1>3 DEF IsClient, WellBuffered, ClientState, NewClient
<1> HIDE DEF sending
<1>5. CASE Fail(c)
  BY <1>3, <1>5 DEF Written
<1>6. CASE /\ Update(c, flushed) \/ Update(c, sending)
           /\ UNCHANGED socket /\ Continue("hangup")
  <2>1. \E r : Handled(c, r)
    BY <1>1, <1>2, <1>3, <1>4, <1>6, UpdateHandled
  <2>2. Advance
    BY <1>6 DEF Advance
  <2> QED
    BY <1>3, <1>6, <2>1, <2>2 DEF Written
<1>7. \/ Fail(c)
      \/ /\ Update(c, flushed) \/ Update(c, sending)
         /\ UNCHANGED socket /\ Continue("hangup")
  BY DEF WriteGetHeader, flushed, sending
<1> QED
  BY <1>5, <1>6, <1>7

LEMMA WriteReadyWrites ==
  ASSUME IInv, NEW c \in Conns, AtClient(c), WriteReady(c), UNCHANGED <<taken, content>>
  PROVE  Written(c)
<1> DEFINE flushed   == AfterFlush(c)
           receiving == [flushed EXCEPT !.state = "ReceivingFile"]
<1>1. Live(c) /\ socket[c] = "open"
  BY CurrentIsLive DEF IInv
<1>2. /\ client[c].state = "SendingReady" /\ Uploading(c) /\ SendPending(c)
      /\ UNCHANGED socket /\ Continue("hangup")
      /\ WellBuffered(client[c])
  BY DEF WriteReady, Uploading, IInv, Buffers
<1>3. /\ SentWell' /\ DOMAIN sent' = Conns
      /\ IsClient(flushed) /\ WellBuffered(flushed) /\ ContentTyped'
      /\ flushed.fd = client[c].fd /\ flushed.state = client[c].state
      /\ flushed.output_file = client[c].output_file
      /\ flushed.temporary_path = client[c].temporary_path
      /\ flushed.final_path = client[c].final_path
      /\ flushed.input_file = client[c].input_file
      /\ flushed.file_buffer = client[c].file_buffer
  BY <1>2, FlushHandled
<1>4. flushed.file_buffer = <<>>
  BY <1>2, <1>3 DEF WellBuffered
<1> HIDE DEF flushed
<1>5. /\ IsClient(receiving) /\ WellBuffered(receiving) /\ receiving.state = "ReceivingFile"
      /\ receiving.fd = flushed.fd
      /\ receiving.output_file = flushed.output_file
      /\ receiving.temporary_path = flushed.temporary_path
      /\ receiving.final_path = flushed.final_path
      /\ receiving.input_file = flushed.input_file
  BY <1>3, <1>4 DEF IsClient, WellBuffered, ClientState, NewClient
<1> HIDE DEF receiving
<1>6. Update(c, flushed) \/ Update(c, receiving) \/ CompleteUpload(c, flushed)
  BY DEF WriteReady, flushed, receiving
<1>7. \E r : Handled(c, r)
  <2>1. CASE Update(c, flushed)
    BY <1>1, <1>2, <1>3, <2>1, UpdateHandled
  <2>2. CASE Update(c, receiving)
    BY <1>1, <1>2, <1>3, <1>5, <2>2, UpdateHandled
  <2>3. CASE CompleteUpload(c, flushed)
    BY <1>1, <1>2, <1>3, <1>4, <2>3, CompleteHandled
  <2> QED
    BY <1>6, <2>1, <2>2, <2>3
<1>8. Advance
  BY <1>2 DEF Advance
<1> QED
  BY <1>2, <1>3, <1>7, <1>8 DEF Written

LEMMA WriteReplyWrites ==
  ASSUME IInv, NEW c \in Conns, AtClient(c), WriteReply(c), UNCHANGED <<taken, content>>
  PROVE  Written(c)
<1> DEFINE flushed == AfterFlush(c)
<1>1. Live(c) /\ socket[c] = "open"
  BY CurrentIsLive DEF IInv
<1>2. /\ client[c].state \in {"SendingResult", "SendingError"} /\ ~Uploading(c)
      /\ SendPending(c)
  BY DEF WriteReply, Uploading
<1>3. /\ SentWell' /\ DOMAIN sent' = Conns
      /\ IsClient(flushed) /\ WellBuffered(flushed) /\ ContentTyped'
      /\ flushed.fd = client[c].fd /\ flushed.state = client[c].state
      /\ flushed.output_file = client[c].output_file
      /\ flushed.temporary_path = client[c].temporary_path
      /\ flushed.final_path = client[c].final_path
      /\ flushed.input_file = client[c].input_file
  BY <1>2, FlushHandled
<1> HIDE DEF flushed
<1>4. CASE Fail(c)
  BY <1>3, <1>4 DEF Written
<1>5. CASE Update(c, flushed) /\ UNCHANGED socket /\ Continue("hangup")
  <2>1. \E r : Handled(c, r)
    BY <1>1, <1>2, <1>3, <1>5, UpdateHandled
  <2>2. Advance
    BY <1>5 DEF Advance
  <2> QED
    BY <1>3, <1>5, <2>1, <2>2 DEF Written
<1>6. Fail(c) \/ (Update(c, flushed) /\ UNCHANGED socket /\ Continue("hangup"))
  BY DEF WriteReply, flushed
<1> QED
  BY <1>4, <1>5, <1>6

\* A read returns at most what is wanted, and nothing from a failed stream.
LEMMA UnreadWell ==
  ASSUME IInv, NEW c \in Conns
  PROVE  /\ IsSequence(Unread(client[c])) /\ Len(Unread(client[c])) \in Nat
         /\ client[c].transferred_bytes + Len(Unread(client[c])) <= client[c].expected_bytes
<1> DEFINE from   == client[c].transferred_bytes
           size   == client[c].expected_bytes
           file   == client[c].input_file
           wanted == Least(size - from, BufferSize)
           bytes  == content[file]
           last   == Least(from + wanted, Len(bytes))
<1>1. IsClient(client[c])
  BY DEF IInv, TypeOK
<1>2. /\ from \in Nat /\ size \in Nat /\ size - from \in Nat
      /\ file \in Files \cup {None} /\ BufferSize \in Nat
  BY <1>1, ServerConstants DEF IsClient
<1>3. Unread(client[c]) =
        IF file = None THEN <<>> ELSE SubSeq(bytes, from + 1, last)
  BY DEF Unread
<1> HIDE DEF from, size, file
<1>4. wanted \in Nat /\ from + wanted <= size
  BY <1>2, LeastOfNats
<1>5. CASE file = None
  <2>1. Unread(client[c]) = <<>>
    BY <1>3, <1>5
  <2>2. from + 0 <= size
    BY <1>2
  <2>3. IsSequence(<<>>) /\ Len(<<>>) = 0
    BY SequenceLines
  <2> QED
    BY <2>1, <2>2, <2>3 DEF from, size
<1>6. CASE file # None
  <2>1. IsSequence(bytes)
    BY <1>2, <1>6 DEF IInv, Buffers
  <2>2. Len(bytes) \in Nat
    BY <2>1, SequenceConcat
  <2>3. from + wanted \in Nat
    BY <1>2, <1>4
  <2>4. last \in Nat /\ last <= Len(bytes) /\ last <= from + wanted
    BY <2>2, <2>3, LeastOfNats
  <2> HIDE DEF last, bytes, wanted
  <2>5. Unread(client[c]) = SubSeq(bytes, from + 1, last)
    BY <1>3, <1>6
  <2>6. CASE from <= last
    <3>1. IsSequence(SubSeq(bytes, from + 1, last)) /\ Len(SubSeq(bytes, from + 1, last)) = last - from
      BY <1>2, <2>1, <2>4, <2>6, SequencePart
    <3>2. last - from \in Nat /\ from + (last - from) <= size
      BY <1>2, <1>4, <2>4, <2>6
    <3> QED
      BY <2>5, <3>1, <3>2 DEF from, size
  <2>7. CASE ~(from <= last)
    <3>1. SubSeq(bytes, from + 1, last) = <<>>
      BY <1>2, <2>1, <2>4, <2>7 DEF IsSequence
    <3>2. from + 0 <= size
      BY <1>2
    <3>3. IsSequence(<<>>) /\ Len(<<>>) = 0
      BY SequenceLines
    <3> QED
      <4>1. Unread(client[c]) = <<>>
        BY <2>5, <3>1
      <4> QED
        BY <4>1, <3>2, <3>3 DEF from, size
  <2> QED
    BY <2>6, <2>7
<1> QED
  BY <1>5, <1>6

LEMMA RefilledWell ==
  ASSUME IInv, NEW c \in Conns, client[c].state = "SendingFile",
         NEW cl \in Refilled(client[c])
  PROVE  /\ IsClient(cl) /\ WellBuffered(cl)
         /\ cl.fd = client[c].fd /\ cl.state = client[c].state
         /\ cl.output_file = client[c].output_file
         /\ cl.temporary_path = client[c].temporary_path
         /\ cl.final_path = client[c].final_path
         /\ cl.input_file \in {None, client[c].input_file}
<1>1. IsClient(client[c]) /\ WellBuffered(client[c])
  BY DEF IInv, TypeOK, Buffers
<1>2. CASE cl = client[c]
  BY <1>1, <1>2
<1>3. ASSUME NEW n \in 0..Len(Unread(client[c])),
             cl = ReadInto(client[c], SubSeq(Unread(client[c]), 1, n))
      PROVE  /\ IsClient(cl) /\ WellBuffered(cl)
             /\ cl.fd = client[c].fd /\ cl.state = client[c].state
             /\ cl.output_file = client[c].output_file
             /\ cl.temporary_path = client[c].temporary_path
             /\ cl.final_path = client[c].final_path
             /\ cl.input_file \in {None, client[c].input_file}
  <2> DEFINE data == SubSeq(Unread(client[c]), 1, n)
  <2>1. /\ IsSequence(Unread(client[c])) /\ Len(Unread(client[c])) \in Nat
        /\ client[c].transferred_bytes + Len(Unread(client[c])) <= client[c].expected_bytes
    BY UnreadWell
  <2>2. IsSequence(data) /\ Len(data) = n
    BY <1>3, <2>1, SequencePart, 0 \in Nat, 0 + 1 = 1
  <2> HIDE DEF data
  <2>3. cl = ReadInto(client[c], data)
    BY <1>3 DEF data
  <2>4. /\ cl.fd = client[c].fd /\ cl.state = client[c].state
        /\ cl.output_file = client[c].output_file
        /\ cl.temporary_path = client[c].temporary_path
        /\ cl.final_path = client[c].final_path
        /\ cl.input_file \in {None, client[c].input_file}
        /\ cl.file_buffer = data /\ cl.pending_output = client[c].pending_output
        /\ cl.transferred_bytes = client[c].transferred_bytes
        /\ cl.expected_bytes = client[c].expected_bytes /\ cl.idle = client[c].idle
        /\ DOMAIN cl = DOMAIN NewClient
    BY <1>1, <2>3 DEF ReadInto, IsClient, NewClient
  <2>5. IsClient(cl)
    BY <1>1, <2>4 DEF IsClient
  <2>6. WellBuffered(cl)
    BY <1>1, <2>1, <2>2, <2>4 DEF WellBuffered, IsClient
  <2> QED
    BY <2>4, <2>5, <2>6
<1>4. cl = client[c] \/ \E n \in 0..Len(Unread(client[c])) :
                          cl = ReadInto(client[c], SubSeq(Unread(client[c]), 1, n))
  <2>1. Len(Unread(client[c])) \in Nat
    BY UnreadWell
  <2> QED
    BY <2>1 DEF Refilled
<1> QED
  BY <1>2, <1>3, <1>4

LEMMA WriteFileWrites ==
  ASSUME IInv, NEW c \in Conns, AtClient(c), WriteFile(c), UNCHANGED <<taken, content>>
  PROVE  Written(c)
<1>1. Live(c) /\ socket[c] = "open" /\ ~Uploading(c) /\ client[c].state = "SendingFile"
  BY CurrentIsLive DEF IInv, WriteFile, Uploading
<1>2. SentWell /\ DOMAIN sent = Conns
  BY DEF IInv, TypeOK, TransportTypeOK, Buffers, SentWell
<1>3. PICK cl \in Refilled(client[c]) :
        LET n == Least(SendSpace(c), Len(cl.file_buffer)) IN
        IF cl.file_buffer = <<>>
        THEN Fail(c) /\ UNCHANGED sent
        ELSE /\ sent' = [sent EXCEPT ![c] = @ \o SubSeq(cl.file_buffer, 1, n)]
             /\ Update(c, [cl EXCEPT !.file_buffer = SubSeq(@, n + 1, Len(@)),
                                     !.transferred_bytes = @ + n,
                                     !.idle = IF n > 0 THEN 0 ELSE @])
             /\ UNCHANGED socket
             /\ Continue("hangup")
  BY DEF WriteFile
<1>4. /\ IsClient(cl) /\ WellBuffered(cl)
      /\ cl.fd = client[c].fd /\ cl.state = client[c].state
      /\ cl.output_file = client[c].output_file
      /\ cl.temporary_path = client[c].temporary_path
      /\ cl.final_path = client[c].final_path
      /\ cl.input_file \in {None, client[c].input_file}
  BY <1>1, RefilledWell
<1>5. CASE cl.file_buffer = <<>>
  <2>1. Fail(c) /\ UNCHANGED <<sent, taken>>
    BY <1>3, <1>5
  <2>2. SentWell' /\ DOMAIN sent' = Conns
    BY <1>2, <2>1 DEF SentWell
  <2> QED
    BY <2>1, <2>2 DEF Written
<1>6. CASE cl.file_buffer # <<>>
  <2> DEFINE n    == Least(SendSpace(c), Len(cl.file_buffer))
             rest == SubSeq(cl.file_buffer, n + 1, Len(cl.file_buffer))
             r    == [cl EXCEPT !.file_buffer = SubSeq(@, n + 1, Len(@)),
                                !.transferred_bytes = @ + n,
                                !.idle = IF n > 0 THEN 0 ELSE @]
  <2>1. /\ sent' = [sent EXCEPT ![c] = @ \o SubSeq(cl.file_buffer, 1, n)]
        /\ Update(c, r) /\ UNCHANGED socket /\ Continue("hangup")
    BY <1>3, <1>6
  <2>2. /\ n \in Nat /\ n <= Len(cl.file_buffer) /\ Len(cl.file_buffer) \in Nat
        /\ IsSequence(rest) /\ Len(rest) = Len(cl.file_buffer) - n
        /\ SentWell' /\ DOMAIN sent' = Conns
    <3>1. IsSequence(cl.file_buffer)
      BY <1>4 DEF WellBuffered
    <3>2. UNCHANGED taken
      OBVIOUS
    <3>3. n = Least(SendSpace(c), Len(cl.file_buffer))
      OBVIOUS
    <3> HIDE DEF n, r
    <3> QED
      BY <2>1, <3>1, <3>2, <3>3, Sending
  <2>3. /\ r.fd = cl.fd /\ r.state = cl.state
        /\ r.output_file = cl.output_file /\ r.temporary_path = cl.temporary_path
        /\ r.final_path = cl.final_path /\ r.input_file = cl.input_file
        /\ r.file_buffer = rest /\ r.pending_output = cl.pending_output
        /\ r.transferred_bytes = cl.transferred_bytes + n
        /\ r.expected_bytes = cl.expected_bytes /\ r.idle \in {0, cl.idle}
        /\ DOMAIN r = DOMAIN NewClient
    BY <1>4 DEF IsClient, NewClient
  <2> HIDE DEF n, rest, r
  <2>4. IsClient(r)
    <3>1. cl.transferred_bytes \in Nat /\ cl.expected_bytes \in Nat
      BY <1>4 DEF IsClient
    <3>2. r.transferred_bytes \in 0..r.expected_bytes
      BY <1>4, <2>2, <2>3, <3>1 DEF WellBuffered
    <3> QED
      BY <1>4, <2>3, <3>2, ServerConstants DEF IsClient
  <2>5. WellBuffered(r)
    BY <1>1, <1>4, <2>2, <2>3 DEF WellBuffered, IsClient
  <2>6. ContentTyped'
    BY DEF IInv, TypeOK, Buffers, ContentTyped
  <2>7. \E e : Handled(c, e)
    BY <1>1, <1>4, <2>1, <2>3, <2>4, <2>5, <2>6, UpdateHandled
  <2>8. Advance
    BY <2>1 DEF Advance
  <2> QED
    BY <2>1, <2>2, <2>7, <2>8 DEF Written
<1> QED
  BY <1>5, <1>6

LEMMA WriteEventInv ==
  ASSUME IInv, NEW c \in Conns, WriteEvent(c)
  PROVE  IInv'
<1>1. /\ AtClient(c)
      /\ UNCHANGED <<content, plan, offered, consumed, taken, peer, backlog, g_stop, starts,
                     g_upload_sequence>>
  BY DEF WriteEvent, AtClient, AtWrite, InRound, signalVars
<1>2. Written(c)
  <2>1. CASE Fail(c) /\ UNCHANGED sent
    BY <1>1, <2>1 DEF Written, IInv, TypeOK, TransportTypeOK, Buffers, SentWell
  <2> QED
    BY <1>1, <2>1, WriteGetHeaderWrites, WriteReadyWrites, WriteReplyWrites, WriteFileWrites
    DEF WriteEvent
<1>3. \A d \in Conns : consumed'[d] <= offered'[d] /\ offered'[d] <= Len(Stream(d)')
  BY <1>1 DEF IInv, Buffers, Stream, RequestTokens
<1>4. SentWell' /\ DOMAIN sent' = Conns
  BY <1>2 DEF Written
<1>5. g_upload_sequence' \in Nat
  BY <1>1 DEF IInv, TypeOK
<1>6. CASE Fail(c)
  <2>1. /\ client' = [client EXCEPT ![c] = NewClient]
        /\ socket' = [socket EXCEPT ![c] = "closed"]
        /\ Ownership' /\ FilesTyped' /\ Connections' /\ Round'
    BY <1>1, <1>6, FailHandled
  <2>2. Advance /\ IsClient(NewClient) /\ WellBuffered(NewClient)
    BY <1>6, NewClientFields, NewClientBuffered DEF Advance, Fail
  <2>3. TransportTypeOK'
    BY <1>1, <1>4, <2>1 DEF IInv, TypeOK, TransportTypeOK
  <2>4. TypeOK'
    BY <1>1, <1>5, <2>1, <2>2, <2>3, HandledTypes DEF IInv
  <2>5. Buffers'
    BY <1>3, <1>4, <2>1, <2>2, HandledBuffers DEF SentWell
  <2> QED
    BY <2>1, <2>4, <2>5 DEF IInv
<1>7. CASE UNCHANGED socket /\ Advance /\ \E r : Handled(c, r)
  <2>1. PICK r : Handled(c, r)
    BY <1>7
  <2>2. TransportTypeOK'
    BY <1>1, <1>4, <1>7 DEF IInv, TypeOK, TransportTypeOK
  <2>3. TypeOK'
    BY <1>1, <1>5, <1>7, <2>1, <2>2, HandledTypes DEF IInv, Handled
  <2>4. Buffers'
    BY <1>3, <1>4, <2>1, HandledBuffers DEF SentWell, Handled
  <2>5. Connections' /\ Round'
    BY <1>1, <1>7, <2>1, ClientStays DEF IInv, Handled
  <2> QED
    BY <2>1, <2>3, <2>4, <2>5 DEF IInv, Handled
<1> QED
  BY <1>2, <1>6, <1>7 DEF Written


-----------------------------------------------------------------------------
(***************************************************************************)
(* The steps that write and receive nothing.                               *)
(***************************************************************************)
LEMMA SameBuffers ==
  ASSUME Buffers, UNCHANGED <<content, plan, offered, consumed, sent, taken>>,
         \A c \in Conns : WellBuffered(client'[c])
  PROVE  Buffers'
BY DEF Buffers, Stream, RequestTokens

LEMMA SameOwnership ==
  ASSUME Ownership, UNCHANGED <<entry, client>>, \A c \in Conns : Fresh(c)' => Fresh(c)
  PROVE  Ownership'
BY DEF Ownership, Uploading

LEMMA FailInv ==
  ASSUME IInv, NEW c \in Conns, AtClient(c), Fail(c),
         UNCHANGED <<content, plan, offered, consumed, sent, taken, peer, backlog, g_stop,
                     starts, g_upload_sequence>>
  PROVE  IInv'
<1>1. /\ client' = [client EXCEPT ![c] = NewClient]
      /\ socket' = [socket EXCEPT ![c] = "closed"]
      /\ Ownership' /\ FilesTyped' /\ Connections' /\ Round'
  BY FailHandled
<1>2. Advance /\ IsClient(NewClient) /\ WellBuffered(NewClient)
  BY NewClientFields, NewClientBuffered DEF Advance, Fail
<1>3. TransportTypeOK' /\ g_upload_sequence' \in Nat
  BY <1>1 DEF IInv, TypeOK, TransportTypeOK
<1>4. TypeOK'
  BY <1>1, <1>2, <1>3, HandledTypes DEF IInv
<1>5. \A d \in Conns : WellBuffered(client'[d])
  BY <1>1, <1>2 DEF IInv, Buffers, TypeOK
<1>6. Buffers'
  BY <1>5, SameBuffers DEF IInv
<1> QED
  BY <1>1, <1>4, <1>6 DEF IInv

LEMMA SkipInv ==
  ASSUME IInv, NEW c \in Conns, AtClient(c), NextClient,
         UNCHANGED <<storageVars, transportVars, signalVars, client, g_upload_sequence>>
  PROVE  IInv'
<1>1. /\ UNCHANGED <<plan, offered, consumed, sent, taken, peer, socket, backlog>>
      /\ UNCHANGED <<entry, content, g_stop, starts, g_upload_sequence, client>>
      /\ UNCHANGED <<clients, poll_fds, listener_ready>> /\ pc' = "dispatch"
      /\ index' = index + 1
  BY DEF storageVars, transportVars, signalVars, NextClient
<1>2. Connections' /\ Round'
  BY <1>1, ClientSkipped DEF IInv
<1>3. TypeOK'
  BY <1>1 DEF IInv, TypeOK, TransportTypeOK
<1>4. Buffers'
  BY <1>1, SameBuffers DEF IInv, Buffers
<1>5. Ownership'
  BY <1>1, SameOwnership DEF IInv, Fresh, Live
<1> QED
  BY <1>2, <1>3, <1>4, <1>5 DEF IInv

LEMMA RestOfRoundInv ==
  ASSUME IInv, NEW c \in Conns, HangUp(c) \/ ErrorEvent(c) \/ NoEvent(c)
  PROVE  IInv'
<1>1. AtClient(c)
  BY DEF HangUp, ErrorEvent, NoEvent, AtClient, AtWrite, InRound
<1>2. UNCHANGED <<content, plan, offered, consumed, sent, taken, peer, backlog,
                  signalVars, g_upload_sequence>>
  BY DEF HangUp, ErrorEvent, NoEvent, transportVars, storageVars
<1>3. CASE Fail(c)
  BY <1>1, <1>2, <1>3, FailInv DEF signalVars
<1>4. CASE NextClient /\ UNCHANGED <<client, socket, entry>>
  BY <1>1, <1>2, <1>4, SkipInv DEF storageVars, transportVars
<1> QED
  BY <1>3, <1>4 DEF HangUp, ErrorEvent, NoEvent, storageVars, transportVars

\* The rounds: what was closed leaves the vector, which keeps the order.
LEMMA StartRoundInv ==
  ASSUME IInv, StartRound
  PROVE  IInv'
<1> DEFINE S    == {c \in ToSet(clients) : Expired(c)}
           keep == {c \in Conns : ~Expired(c)}
<1>1. /\ pc = "top" /\ CloseClients(S) /\ clients' \in Erased(keep)
      /\ poll_fds' = [i \in DOMAIN clients' |->
                        [fd |-> client[clients'[i]].fd,
                         events |-> requested_events(clients'[i]), revents |-> {}]]
      /\ pc' = "poll"
      /\ UNCHANGED <<content, plan, offered, consumed, sent, taken, peer, backlog,
                     listener_ready, index, g_stop, starts, g_upload_sequence>>
  BY DEF StartRound, signalVars
<1>2. /\ clients \in Seq(Conns) /\ \A i, j \in DOMAIN clients : clients[i] = clients[j] => i = j
      /\ S \in SUBSET Conns /\ keep \in SUBSET Conns
      /\ \A c \in S : ~(c \in keep) /\ \E i \in DOMAIN clients : clients[i] = c
      /\ \A i \in DOMAIN clients : clients[i] \in Conns /\ Live(clients[i])
                                   /\ (clients[i] \in keep \/ clients[i] \in S)
  BY <1>1 DEF IInv, TypeOK, Connections, ConnectionsAccounted, ToSet
<1>3. /\ clients' \in Seq(Conns) /\ Len(clients') <= Len(clients)
      /\ \A i \in DOMAIN clients' : clients'[i] \in keep
                                    /\ \E p \in DOMAIN clients : clients[p] = clients'[i]
      /\ \A p \in DOMAIN clients : clients[p] \in keep =>
                                     \E i \in DOMAIN clients' : clients'[i] = clients[p]
      /\ \A i, j \in DOMAIN clients' : clients'[i] = clients'[j] => i = j
  BY <1>1, <1>2, ErasedVector
<1>4. \A c \in S : socket[c] \in {"open", "closed"}
  BY <1>2 DEF IInv, Connections
<1>5. Ownership' /\ DOMAIN entry' \subseteq DOMAIN entry
      /\ \A n \in DOMAIN entry' : entry'[n] = entry[n]
  <2> HIDE DEF S
  <2> QED
    BY <1>1, <1>2, <1>4, ClosingKeepsOwnership DEF IInv
<1>6. /\ client' = [c \in Conns |-> IF c \in S THEN NewClient ELSE client[c]]
      /\ socket' = [c \in Conns |-> IF c \in S THEN "closed" ELSE socket[c]]
  BY <1>1 DEF CloseClients
<1> HIDE DEF S, keep
<1>7. /\ client' = [c \in Conns |-> client'[c]]
      /\ \A c \in Conns : IsClient(client'[c]) /\ WellBuffered(client'[c])
  BY <1>6, NewClientFields, NewClientBuffered DEF IInv, TypeOK, Buffers
<1>8. \A i \in DOMAIN clients' : /\ clients'[i] \in Conns /\ clients'[i] \notin S
                                 /\ Live(clients'[i])
                                 /\ client'[clients'[i]] = client[clients'[i]]
                                 /\ socket'[clients'[i]] = socket[clients'[i]]
  BY <1>2, <1>3, <1>6
<1>9. TypeOK'
  <2>1. TransportTypeOK'
    BY <1>1, <1>6 DEF IInv, TypeOK, TransportTypeOK
  <2>2. \A i \in DOMAIN poll_fds' :
          poll_fds'[i] \in [fd : Fds, events : {"IN", "OUT"}, revents : SUBSET Reports]
    <3>1. \A i \in DOMAIN clients' : client[clients'[i]].fd \in Fds
      BY <1>8 DEF IInv, TypeOK, IsClient, Live
    <3>2. \A c \in Conns : requested_events(c) \in {"IN", "OUT"}
      BY DEF requested_events
    <3> QED
      BY <1>1, <1>8, <3>1, <3>2
  <2>3. /\ DOMAIN entry' \subseteq Names \cup TempNames
        /\ \A n \in DOMAIN entry' : entry'[n] \in Files
    BY <1>5 DEF IInv, TypeOK
  <2> QED
    BY <1>1, <1>3, <1>7, <2>1, <2>2, <2>3 DEF IInv, TypeOK
<1>10. Buffers'
  BY <1>1, <1>7, SameBuffers DEF IInv
<1>11. Connections'
  <2>1. \A c \in Conns : /\ Live(c)' <=> Live(c) /\ c \notin S
                         /\ socket'[c] = "open" <=> socket[c] = "open" /\ c \notin S
                         /\ Live(c)' => client'[c] = client[c]
    BY <1>6, NewClientFields DEF Live
  <2>2. ConnectionsAccounted'
    <3>1. \A c \in Conns : Live(c)' => \E i \in DOMAIN clients' : clients'[i] = c
      BY <1>2, <1>3, <2>1 DEF IInv, Connections, ConnectionsAccounted
    <3>2. Len(clients') <= MaxClients
      BY <1>2, <1>3, ServerConstants DEF IInv, Connections, ConnectionsAccounted
    <3>3. \A c, d \in Conns : Live(c)' /\ client'[c].fd = client'[d].fd => c = d
      <4> SUFFICES ASSUME NEW c \in Conns, NEW d \in Conns, Live(c)', client'[c].fd = client'[d].fd
                   PROVE  c = d
        OBVIOUS
      <4>1. Live(d)'
        BY DEF Live
      <4> QED
        BY <2>1, <4>1 DEF IInv, Connections, ConnectionsAccounted
    <3> QED
      BY <1>3, <2>1, <3>1, <3>2, <3>3 DEF IInv, Connections, ConnectionsAccounted
  <2>3. ClosedKeepsNothing'
    BY <1>6, <2>1 DEF IInv, Connections, ClosedKeepsNothing
  <2>4. (\A i \in DOMAIN clients : Live(clients[i]) /\ socket[clients[i]] \in {"open", "closed"})'
    BY <1>3, <1>8 DEF IInv, Connections, Live
  <2>5. (\A i \in DOMAIN backlog : backlog[i] \in Conns /\ socket[backlog[i]] = "queued")'
    BY <1>1, <1>4, <1>6 DEF IInv, Connections
  <2>6. backlog' = backlog /\ backlog \in Seq(Conns)
        /\ \A i, j \in DOMAIN backlog : backlog[i] = backlog[j] => i = j
    BY <1>1 DEF IInv, Connections
  <2> QED
    BY <2>6, <2>2, <2>3, <2>4, <2>5 DEF Connections
<1>12. Round'
  <2>1. DOMAIN poll_fds' = DOMAIN clients' /\ Len(poll_fds') = Len(clients') /\ index' = 1
    BY <1>1, <1>3 DEF IInv, Round
  <2>2. (\A i \in DOMAIN poll_fds : /\ poll_fds[i].fd = client[clients[i]].fd
                                    /\ poll_fds[i].events = requested_events(clients[i]))'
    BY <1>1, <1>8 DEF requested_events
  <2> QED
    BY <1>1, <2>1, <2>2 DEF Round, PollAligned, InRound
<1> QED
  BY <1>5, <1>9, <1>10, <1>11, <1>12 DEF IInv

LEMMA PollInv ==
  ASSUME IInv, PollReady \/ PollReturns
  PROVE  IInv'
<1>1. /\ UNCHANGED <<entry, content, plan, offered, consumed, sent, taken, peer, socket, backlog>>
      /\ UNCHANGED <<g_stop, starts, client, clients, g_upload_sequence>> /\ pc = "poll"
  BY DEF PollReady, PollReturns, storageVars, transportVars, signalVars
<1>2. /\ index = 1 /\ DOMAIN poll_fds = DOMAIN clients /\ clients \in Seq(Conns)
      /\ \A i \in DOMAIN clients : Live(clients[i])
      /\ \A i \in DOMAIN poll_fds :
           poll_fds[i] \in [fd : Fds, events : {"IN", "OUT"}, revents : SUBSET Reports]
  BY <1>1 DEF IInv, TypeOK, Connections, Round, InRound
<1>3. Buffers' /\ Ownership' /\ TransportTypeOK'
  <2>1. Buffers'
    BY <1>1, SameBuffers DEF IInv, Buffers
  <2>2. Ownership'
    BY <1>1, SameOwnership DEF IInv, Fresh, Live
  <2>3. TransportTypeOK'
    BY <1>1 DEF IInv, TypeOK, TransportTypeOK
  <2> QED
    BY <2>1, <2>2, <2>3
<1>4. Connections'
  <2>1. ConnectionsAccounted' /\ ClosedKeepsNothing'
    BY <1>1 DEF IInv, Connections, ConnectionsAccounted, ClosedKeepsNothing, Live
  <2> QED
    BY <1>1, <1>2, <2>1 DEF IInv, Connections, Live
<1>5. CASE PollReady
  <2>1. /\ pc' = "dispatch" /\ index' = 1 /\ listener_ready' \in BOOLEAN
        /\ poll_fds' = [i \in DOMAIN poll_fds |->
             [poll_fds[i] EXCEPT !.revents = Reported(clients[i], poll_fds[i].events)]]
    BY <1>5 DEF PollReady
  <2>2. /\ DOMAIN poll_fds' = DOMAIN clients /\ Len(poll_fds') = Len(clients)
        /\ \A i \in DOMAIN poll_fds' :
             poll_fds'[i] \in [fd : Fds, events : {"IN", "OUT"}, revents : SUBSET Reports]
        /\ \A i \in DOMAIN poll_fds : /\ poll_fds'[i].fd = poll_fds[i].fd
                                      /\ poll_fds'[i].events = poll_fds[i].events
    <3>1. DOMAIN poll_fds' = DOMAIN clients /\ Len(poll_fds') = Len(clients)
      BY <1>2, <2>1
    <3>2. ASSUME NEW i \in DOMAIN poll_fds
          PROVE  /\ poll_fds'[i] \in [fd : Fds, events : {"IN", "OUT"}, revents : SUBSET Reports]
                 /\ poll_fds'[i].fd = poll_fds[i].fd
                 /\ poll_fds'[i].events = poll_fds[i].events
      <4>1. poll_fds[i] \in [fd : Fds, events : {"IN", "OUT"}, revents : SUBSET Reports]
        BY <1>2
      <4>2. Reported(clients[i], poll_fds[i].events) \in SUBSET Reports
        BY DEF Reported, Reports
      <4>3. poll_fds'[i] = [poll_fds[i] EXCEPT !.revents = Reported(clients[i], poll_fds[i].events)]
        BY <2>1
      <4> QED
        BY <4>1, <4>2, <4>3
    <3> QED
      BY <1>2, <3>1, <3>2
  <2>3. TypeOK'
    BY <1>1, <1>2, <1>3, <2>1, <2>2 DEF IInv, TypeOK
  <2>4. \A i \in DOMAIN poll_fds : /\ poll_fds[i].fd = client[clients[i]].fd
                                   /\ poll_fds[i].events = requested_events(clients[i])
    BY <1>1, <1>2 DEF IInv, Round, PollAligned
  <2>5. Round'
    BY <1>1, <1>2, <2>1, <2>2, <2>4 DEF Round, PollAligned, InRound, requested_events
  <2> QED
    BY <1>3, <1>4, <2>3, <2>5 DEF IInv
<1>6. CASE PollReturns
  <2>1. pc' \in {"top", "exit"} /\ poll_fds' = <<>> /\ UNCHANGED <<listener_ready, index>>
    BY <1>6 DEF PollReturns
  <2>2. TypeOK'
    BY <1>1, <1>3, <2>1 DEF IInv, TypeOK
  <2>3. Round'
    BY <1>1, <1>2, <2>1 DEF Round, PollAligned, InRound
  <2> QED
    BY <1>3, <1>4, <2>2, <2>3 DEF IInv
<1> QED
  BY <1>5, <1>6

LEMMA EndRoundInv ==
  ASSUME IInv, EndRound
  PROVE  IInv'
<1> DEFINE keep == {c \in Conns : client[c].fd # None}
<1>1. /\ UNCHANGED <<entry, content, plan, offered, consumed, sent, taken, peer, socket, backlog>>
      /\ UNCHANGED <<g_stop, starts, client, g_upload_sequence>>
      /\ clients' \in Erased(keep) /\ pc' \in {"accept", "top"}
      /\ poll_fds' = <<>> /\ listener_ready' = FALSE /\ index' = 1
  BY DEF EndRound, storageVars, transportVars, signalVars
<1>2. /\ clients \in Seq(Conns) /\ \A i, j \in DOMAIN clients : clients[i] = clients[j] => i = j
      /\ keep \in SUBSET Conns
  BY DEF IInv, TypeOK, Connections, ConnectionsAccounted
<1>3. /\ clients' \in Seq(Conns) /\ Len(clients') <= Len(clients)
      /\ \A i \in DOMAIN clients' : clients'[i] \in keep
                                    /\ \E p \in DOMAIN clients : clients[p] = clients'[i]
      /\ \A p \in DOMAIN clients : clients[p] \in keep =>
                                     \E i \in DOMAIN clients' : clients'[i] = clients[p]
      /\ \A i, j \in DOMAIN clients' : clients'[i] = clients'[j] => i = j
  BY <1>1, <1>2, ErasedVector
<1>4. TypeOK'
  <2>1. TransportTypeOK'
    BY <1>1 DEF IInv, TypeOK, TransportTypeOK
  <2> QED
    <3>1. 1 \in Nat \ {0} /\ FALSE \in BOOLEAN /\ DOMAIN <<>> = {}
      OBVIOUS
    <3>2. \A i \in DOMAIN poll_fds' :
            poll_fds'[i] \in [fd : Fds, events : {"IN", "OUT"}, revents : SUBSET Reports]
      BY <1>1, <3>1
    <3> HIDE DEF keep
    <3> QED
      BY <1>1, <1>3, <2>1, <3>1, <3>2 DEF IInv, TypeOK
<1>5. Buffers'
  BY <1>1, SameBuffers DEF IInv, Buffers
<1>6. Ownership'
  BY <1>1, SameOwnership DEF IInv, Fresh, Live
<1>7. Connections'
  <2>1. ConnectionsAccounted'
    <3>1. \A c \in Conns : Live(c)' => \E i \in DOMAIN clients' : clients'[i] = c
      BY <1>1, <1>3 DEF IInv, Connections, ConnectionsAccounted, Live
    <3>2. Len(clients') <= MaxClients
      BY <1>2, <1>3, ServerConstants DEF IInv, Connections, ConnectionsAccounted
    <3> QED
      BY <1>1, <1>3, <3>1, <3>2 DEF IInv, Connections, ConnectionsAccounted, Live
  <2>2. (\A i \in DOMAIN clients : Live(clients[i]) /\ socket[clients[i]] \in {"open", "closed"})'
    BY <1>1, <1>3 DEF IInv, Connections, Live
  <2>3. ClosedKeepsNothing'
    BY <1>1 DEF IInv, Connections, ClosedKeepsNothing, Live
  <2> QED
    BY <1>1, <2>1, <2>2, <2>3 DEF IInv, Connections
<1>8. Round'
  BY <1>1 DEF Round, PollAligned, InRound
<1> QED
  BY <1>4, <1>5, <1>6, <1>7, <1>8 DEF IInv

\* accept takes the connection that waited longest, with a number nobody has.
LEMMA AcceptInv ==
  ASSUME IInv, Accept
  PROVE  IInv'
<1> DEFINE c == Head(backlog)
<1>1. /\ pc = "accept" /\ backlog # <<>> /\ backlog' = Tail(backlog)
      /\ UNCHANGED <<entry, content, plan, offered, consumed, sent, taken, peer>>
      /\ UNCHANGED <<g_stop, starts, pc, poll_fds, listener_ready, index, g_upload_sequence>>
  BY DEF Accept, storageVars, signalVars
<1>2. /\ backlog \in Seq(Conns) /\ \A i, j \in DOMAIN backlog : backlog[i] = backlog[j] => i = j
      /\ \A i \in DOMAIN backlog : socket[backlog[i]] = "queued"
      /\ clients \in Seq(Conns) /\ \A i \in DOMAIN clients : Live(clients[i])
      /\ poll_fds = <<>> /\ index = 1
      /\ \A i \in DOMAIN clients : socket[clients[i]] \in {"open", "closed"}
  BY <1>1 DEF IInv, TypeOK, Connections, Round, InRound
<1>3. /\ c \in Conns /\ socket[c] = "queued" /\ c = backlog[1] /\ 1 \in DOMAIN backlog
      /\ DOMAIN backlog' = 1..(Len(backlog) - 1) /\ backlog' \in Seq(Conns)
      /\ \A i \in DOMAIN backlog' : backlog'[i] = backlog[i + 1] /\ i + 1 \in DOMAIN backlog
  BY <1>1, <1>2
<1> HIDE DEF c
<1>4. /\ \A i \in DOMAIN backlog' : backlog'[i] # c /\ socket[backlog'[i]] = "queued"
                                    /\ backlog'[i] \in Conns
      /\ \A i, j \in DOMAIN backlog' : backlog'[i] = backlog'[j] => i = j
      /\ \A i \in DOMAIN clients : clients[i] # c
      /\ ~Live(c) /\ client[c] = NewClient
  <2>1. ~Live(c) /\ client[c] = NewClient
    BY <1>3 DEF IInv, Connections, ConnectionsAccounted, ClosedKeepsNothing
  <2> QED
    BY <1>2, <1>3, <2>1
<1>5. CASE socket' = [socket EXCEPT ![c] = "closed"] /\ UNCHANGED <<client, clients>>
  <2>1. TypeOK'
    <3>1. TransportTypeOK'
      BY <1>1, <1>5 DEF IInv, TypeOK, TransportTypeOK
    <3> QED
      BY <1>1, <1>5, <3>1 DEF IInv, TypeOK
  <2>2. Buffers'
    BY <1>1, <1>5, SameBuffers DEF IInv, Buffers
  <2>3. \A d \in Conns : d # c => socket'[d] = socket[d]
    BY <1>5 DEF IInv, TypeOK, TransportTypeOK
  <2>4. socket'[c] = "closed"
    BY <1>3, <1>5 DEF IInv, TypeOK, TransportTypeOK
  <2>5. Ownership'
    BY <1>1, <1>4, <1>5, <2>3, <2>4, SameOwnership DEF IInv, Fresh, Live
  <2>6. ConnectionsAccounted' /\ ClosedKeepsNothing'
    BY <1>3, <1>5, <2>3, <2>4
    DEF IInv, Connections, ConnectionsAccounted, ClosedKeepsNothing, Live
  <2>7. (\A i \in DOMAIN clients : Live(clients[i]) /\ socket[clients[i]] \in {"open", "closed"})'
    BY <1>2, <1>4, <1>5, <2>3 DEF Live
  <2>8. Connections'
    BY <1>3, <1>4, <2>3, <2>6, <2>7 DEF Connections
  <2>9. Round'
    BY <1>1, <1>2, <1>5 DEF IInv, Round, PollAligned, InRound
  <2> QED
    BY <2>1, <2>2, <2>5, <2>8, <2>9 DEF IInv
<1>6. ASSUME Len(clients) < MaxClients, socket' = [socket EXCEPT ![c] = "open"],
             NEW fd \in FreeFds, client' = [client EXCEPT ![c] = [NewClient EXCEPT !.fd = fd]],
             clients' = Append(clients, c)
      PROVE  IInv'
  <2> DEFINE r == [NewClient EXCEPT !.fd = fd]
  <2>1. /\ IsClient(r) /\ r.fd = fd /\ r.fd # None /\ fd \in Fds
        /\ r.state = "AwaitingRequest" /\ r.input_file = None
        /\ r.output_file = None /\ r.temporary_path = None /\ WellBuffered(r)
        /\ \A d \in Conns : client[d].fd # fd
    <3>1. fd \in Fds /\ fd # None /\ \A d \in Conns : client[d].fd # fd
      BY NamesApart DEF FreeFds
    <3>2. /\ DOMAIN r = DOMAIN NewClient /\ r.fd = fd /\ r.state = NewClient.state
          /\ r.input_file = NewClient.input_file /\ r.output_file = NewClient.output_file
          /\ r.temporary_path = NewClient.temporary_path /\ r.final_path = NewClient.final_path
          /\ r.expected_bytes = NewClient.expected_bytes
          /\ r.transferred_bytes = NewClient.transferred_bytes /\ r.idle = NewClient.idle
          /\ r.pending_output = NewClient.pending_output /\ r.file_buffer = NewClient.file_buffer
      BY DEF NewClient
    <3> HIDE DEF r
    <3>3. IsClient(r)
      BY <3>1, <3>2, NewClientFields DEF IsClient
    <3>4. WellBuffered(r)
      BY <3>2, NewClientBuffered DEF WellBuffered
    <3> QED
      BY <3>1, <3>2, <3>3, <3>4, NewClientFields
  <2> HIDE DEF r
  <2>2. /\ client'[c] = r /\ socket'[c] = "open" /\ client' = [d \in Conns |-> client'[d]]
        /\ \A d \in Conns : d # c => client'[d] = client[d] /\ socket'[d] = socket[d]
    BY <1>3, <1>6 DEF r, IInv, TypeOK, TransportTypeOK
  <2>3. /\ clients' \in Seq(Conns) /\ Len(clients') = Len(clients) + 1
        /\ DOMAIN clients' = 1..(Len(clients) + 1)
        /\ clients'[Len(clients) + 1] = c
        /\ \A i \in DOMAIN clients : i \in DOMAIN clients' /\ clients'[i] = clients[i]
        /\ \A i \in DOMAIN clients' : i \in DOMAIN clients \/ i = Len(clients) + 1
    BY <1>2, <1>3, <1>6
  <2>4. TypeOK'
    <3>1. TransportTypeOK'
      BY <1>1, <1>6 DEF IInv, TypeOK, TransportTypeOK
    <3>2. \A d \in Conns : IsClient(client'[d])
      BY <2>1, <2>2 DEF IInv, TypeOK
    <3> QED
      BY <1>1, <2>2, <2>3, <3>1, <3>2 DEF IInv, TypeOK
  <2>5. Buffers'
    <3>1. \A d \in Conns : WellBuffered(client'[d])
      BY <2>1, <2>2 DEF IInv, Buffers
    <3> QED
      BY <1>1, <3>1, SameBuffers DEF IInv
  <2>6. Ownership'
    <3>1. \A d \in Conns : /\ client'[d].input_file = client[d].input_file
                           /\ client'[d].output_file = client[d].output_file
                           /\ client'[d].temporary_path = client[d].temporary_path
                           /\ client'[d].state = client[d].state
                           /\ d # c => client'[d] = client[d]
      BY <1>4, <2>1, <2>2, NewClientFields
    <3>2. \A d \in Conns : Uploading(d)' <=> Uploading(d)
      BY <3>1 DEF Uploading
    <3>5. ~Uploading(c)
      BY <1>4, NewClientFields DEF Uploading
    <3>3. \A d \in Conns : Fresh(d)' => Fresh(d)
      BY <1>3, <2>2 DEF Fresh, Live
    <3>4. entry' = entry
      BY <1>1
    <3>6. \A d \in Conns : Uploading(d) =>
            client'[d].fd = client[d].fd /\ client'[d].final_path = client[d].final_path
      BY <3>1, <3>5
    <3> QED
      BY <3>1, <3>2, <3>3, <3>4, <3>6 DEF IInv, Ownership
  <2>7. ConnectionsAccounted'
    <3>1. \A d \in Conns : Live(d)' <=> socket'[d] = "open"
      BY <2>1, <2>2 DEF IInv, Connections, ConnectionsAccounted, Live
    <3>2. \A d \in Conns : Live(d)' => \E i \in DOMAIN clients' : clients'[i] = d
      BY <2>1, <2>2, <2>3 DEF IInv, Connections, ConnectionsAccounted, Live
    <3>3. \A i, j \in DOMAIN clients' : clients'[i] = clients'[j] => i = j
      BY <1>4, <2>3 DEF IInv, Connections, ConnectionsAccounted
    <3>4. \A d, e \in Conns : Live(d)' /\ client'[d].fd = client'[e].fd => d = e
      BY <2>1, <2>2 DEF IInv, Connections, ConnectionsAccounted, Live
    <3>5. Len(clients') <= MaxClients
      BY <1>2, <1>6, <2>3, ServerConstants
    <3> QED
      BY <3>1, <3>2, <3>3, <3>4, <3>5 DEF ConnectionsAccounted
  <2>8. Connections'
    <3>1. ClosedKeepsNothing'
      BY <2>1, <2>2 DEF IInv, Connections, ClosedKeepsNothing, Live
    <3>2. (\A i \in DOMAIN clients : Live(clients[i]) /\ socket[clients[i]] \in {"open", "closed"})'
      BY <1>2, <1>4, <2>1, <2>2, <2>3 DEF Live
    <3> QED
      BY <1>3, <1>4, <2>2, <2>7, <3>1, <3>2 DEF Connections
  <2>9. Round'
    BY <1>1, <1>2 DEF IInv, Round, PollAligned, InRound
  <2> QED
    BY <2>4, <2>5, <2>6, <2>8, <2>9 DEF IInv
<1>7. ~Full => Len(clients) < MaxClients
  BY <1>2, ServerConstants DEF Full
<1> QED
  BY <1>5, <1>6, <1>7 DEF Accept, c

LEMMA AcceptEndsInv ==
  ASSUME IInv, AcceptEnds
  PROVE  IInv'
<1>1. /\ UNCHANGED <<entry, content, plan, offered, consumed, sent, taken, peer, socket, backlog>>
      /\ UNCHANGED <<g_stop, starts, client, clients, poll_fds, listener_ready, index,
                     g_upload_sequence>>
      /\ pc = "accept" /\ pc' = "top"
  BY DEF AcceptEnds, storageVars, transportVars, signalVars
<1>2. Buffers'
  BY <1>1, SameBuffers DEF IInv, Buffers
<1>3. Ownership'
  BY <1>1, SameOwnership DEF IInv, Fresh, Live
<1>4. TypeOK'
  BY <1>1 DEF IInv, TypeOK, TransportTypeOK
<1>5. Connections'
  BY <1>1 DEF IInv, Connections, ConnectionsAccounted, ClosedKeepsNothing, Live
<1>6. Round'
  BY <1>1 DEF IInv, Round, PollAligned, InRound
<1> QED
  BY <1>2, <1>3, <1>4, <1>5, <1>6 DEF IInv

-----------------------------------------------------------------------------
(***************************************************************************)
(* The end of the process and what comes from outside.                     *)
(***************************************************************************)
LEMMA ProcessEndsInv ==
  ASSUME IInv, ProcessEnds, DOMAIN entry' \subseteq DOMAIN entry,
         \A n \in DOMAIN entry' : entry'[n] = entry[n]
  PROVE  IInv'
<1>1. /\ UNCHANGED <<content, plan, offered, consumed, sent, taken, peer>>
      /\ UNCHANGED <<g_stop, starts, g_upload_sequence>>
      /\ pc' = "down" /\ backlog' = <<>> /\ clients' = <<>> /\ poll_fds' = <<>>
      /\ listener_ready' = FALSE /\ index' = 1
      /\ client' = [c \in Conns |-> NewClient]
      /\ socket' = [c \in Conns |-> IF socket[c] = "none" THEN "none" ELSE "closed"]
  BY DEF ProcessEnds, signalVars
<1>2. \A c \in Conns : /\ client'[c] = NewClient /\ socket'[c] \in {"none", "closed"}
                       /\ socket'[c] = "none" <=> socket[c] = "none"
  BY <1>1
<1>3. \A c \in Conns : IsClient(client'[c]) /\ WellBuffered(client'[c])
  BY <1>2, NewClientFields, NewClientBuffered
<1>4. TypeOK'
  <2>1. TransportTypeOK'
    BY <1>1, <1>2 DEF IInv, TypeOK, TransportTypeOK
  <2>2. client' = [c \in Conns |-> client'[c]]
    BY <1>1
  <2>3. 1 \in Nat \ {0} /\ FALSE \in BOOLEAN /\ DOMAIN <<>> = {} /\ <<>> \in Seq(Conns)
    OBVIOUS
  <2>4. \A i \in DOMAIN poll_fds' :
          poll_fds'[i] \in [fd : Fds, events : {"IN", "OUT"}, revents : SUBSET Reports]
    BY <1>1, <2>3
  <2> QED
    BY <1>1, <1>3, <2>1, <2>2, <2>3, <2>4 DEF IInv, TypeOK
<1>5. Buffers'
  BY <1>1, <1>3, SameBuffers DEF IInv
<1>6. Connections'
  <2>1. \A c \in Conns : ~Live(c)' /\ socket'[c] # "open"
    BY <1>2, NewClientFields DEF Live
  <2>2. ConnectionsAccounted' /\ ClosedKeepsNothing'
    BY <1>1, <1>2, <2>1, ServerConstants DEF ConnectionsAccounted, ClosedKeepsNothing
  <2> QED
    BY <1>1, <2>2 DEF Connections
<1>7. Round'
  BY <1>1 DEF Round, PollAligned, InRound
<1>8. Ownership'
  <2>1. \A c \in Conns : Fresh(c)' => Fresh(c)
    BY <1>2, NewClientFields DEF Fresh, Live
  <2>2. \A c \in Conns : ~Uploading(c)' /\ client'[c].output_file = None
                         /\ client'[c].temporary_path = None /\ client'[c].input_file = None
    BY <1>2, NewClientFields DEF Uploading
  <2>3. \A n \in DOMAIN entry' : n \in DOMAIN entry /\ entry'[n] \in Files /\ entry'[n] # None
    BY NamesApart DEF IInv, TypeOK, Files
  <2>4. \A d \in Conns : d # None
    BY NamesApart
  <2> QED
    BY <2>1, <2>2, <2>3, <2>4 DEF IInv, Ownership
<1> QED
  BY <1>4, <1>5, <1>6, <1>7, <1>8 DEF IInv

LEMMA EndsInv ==
  ASSUME IInv, Shutdown \/ Kill
  PROVE  IInv'
<1>1. ProcessEnds /\ DOMAIN entry' \subseteq DOMAIN entry
      /\ \A n \in DOMAIN entry' : entry'[n] = entry[n]
  BY RemovedSome DEF Shutdown, Kill
<1> QED
  BY <1>1, ProcessEndsInv

\* A signal only raises g_stop, a start only resets what the process keeps.
LEMMA SignalInv ==
  ASSUME IInv, Signal \/ Restart
  PROVE  IInv'
<1>1. /\ UNCHANGED <<entry, content, plan, offered, consumed, sent, taken, peer, socket, backlog>>
      /\ UNCHANGED <<client, clients, poll_fds, listener_ready, index>>
      /\ g_stop' \in BOOLEAN
      /\ pc' = pc \/ (pc = "down" /\ pc' = "top")
  BY DEF Signal, Restart, storageVars, transportVars, loopVars
<1>2. g_upload_sequence' \in Nat /\ starts' \in Nat
  BY DEF Signal, Restart, IInv, TypeOK
<1>3. Buffers'
  BY <1>1, SameBuffers DEF IInv, Buffers
<1>4. Ownership'
  BY <1>1, SameOwnership DEF IInv, Fresh, Live
<1>5. TypeOK'
  <2>1. TransportTypeOK'
    BY <1>1 DEF IInv, TypeOK, TransportTypeOK
  <2> QED
    BY <1>1, <1>2, <2>1 DEF IInv, TypeOK
<1>6. pc = "down" /\ pc' = "top" => \A i \in DOMAIN clients : Live(clients[i])
  BY DEF IInv, Connections
<1>7. Connections'
  BY <1>1, <1>6 DEF IInv, Connections, ConnectionsAccounted, ClosedKeepsNothing, Live
<1>8. Round'
  BY <1>1 DEF IInv, Round, PollAligned, InRound, requested_events, Live
<1> QED
  BY <1>3, <1>4, <1>5, <1>7, <1>8 DEF IInv

LEMMA TickInv ==
  ASSUME IInv, Tick
  PROVE  IInv'
<1>1. /\ UNCHANGED <<entry, content, plan, offered, consumed, sent, taken, peer, socket, backlog>>
      /\ UNCHANGED <<pc, clients, poll_fds, listener_ready, index, g_stop, starts,
                     g_upload_sequence>>
      /\ client' = [c \in Conns |->
           IF client[c].fd # None THEN [client[c] EXCEPT !.idle = Least(@ + 1, IdleTimeout + 1)]
                                  ELSE client[c]]
  BY DEF Tick, storageVars, transportVars, loopVars, signalVars
<1>2. ASSUME NEW c \in Conns
      PROVE  /\ IsClient(client'[c]) /\ WellBuffered(client'[c])
             /\ client'[c].fd = client[c].fd /\ client'[c].state = client[c].state
             /\ client'[c].input_file = client[c].input_file
             /\ client'[c].output_file = client[c].output_file
             /\ client'[c].temporary_path = client[c].temporary_path
             /\ client'[c].final_path = client[c].final_path
             /\ ~Live(c) => client'[c] = client[c]
  <2> DEFINE late == Least(client[c].idle + 1, IdleTimeout + 1)
  <2>1. IsClient(client[c]) /\ WellBuffered(client[c])
    BY DEF IInv, TypeOK, Buffers
  <2>2. late \in 0..(IdleTimeout + 1)
    <3>1. client[c].idle + 1 \in Nat /\ IdleTimeout + 1 \in Nat
      BY <2>1, ServerConstants DEF IsClient
    <3> QED
      BY <3>1, ServerConstants DEF Least
  <2> HIDE DEF late
  <2>3. CASE client'[c] = client[c]
    BY <2>1, <2>3
  <2>4. CASE client'[c] = [client[c] EXCEPT !.idle = late] /\ Live(c)
    <3>1. /\ DOMAIN client'[c] = DOMAIN client[c] /\ client'[c].idle = late
          /\ client'[c].fd = client[c].fd /\ client'[c].state = client[c].state
          /\ client'[c].input_file = client[c].input_file
          /\ client'[c].output_file = client[c].output_file
          /\ client'[c].temporary_path = client[c].temporary_path
          /\ client'[c].final_path = client[c].final_path
          /\ client'[c].expected_bytes = client[c].expected_bytes
          /\ client'[c].transferred_bytes = client[c].transferred_bytes
          /\ client'[c].pending_output = client[c].pending_output
          /\ client'[c].file_buffer = client[c].file_buffer
      BY <2>1, <2>4 DEF IsClient, NewClient
    <3>2. IsClient(client'[c])
      BY <2>1, <2>2, <3>1 DEF IsClient
    <3>3. WellBuffered(client'[c])
      BY <2>1, <3>1 DEF WellBuffered
    <3> QED
      BY <2>4, <3>1, <3>2, <3>3
  <2> QED
    BY <1>1, <2>3, <2>4 DEF Live, late
<1>3. TypeOK'
  <2>1. TransportTypeOK'
    BY <1>1 DEF IInv, TypeOK, TransportTypeOK
  <2>2. client' = [c \in Conns |-> client'[c]]
    BY <1>1
  <2> QED
    BY <1>1, <1>2, <2>1, <2>2 DEF IInv, TypeOK
<1>4. Buffers'
  BY <1>1, <1>2, SameBuffers DEF IInv
<1>5. Ownership'
  <2>1. \A c \in Conns : (Uploading(c)' <=> Uploading(c)) /\ (Fresh(c)' <=> Fresh(c))
    BY <1>1, <1>2 DEF Uploading, Fresh, Live
  <2> QED
    BY <1>1, <1>2, <2>1 DEF IInv, Ownership
<1>6. \A i \in DOMAIN clients : clients[i] \in Conns
  BY DEF IInv, TypeOK
<1>7. Connections'
  <2>1. ConnectionsAccounted' /\ ClosedKeepsNothing'
    <3>1. \A c \in Conns : /\ Live(c)' <=> Live(c)
                           /\ client'[c].fd = client[c].fd
                           /\ ~Live(c) => client'[c] = client[c]
      BY <1>2 DEF Live
    <3>2. UNCHANGED <<socket, clients>>
      BY <1>1
    <3>3. ConnectionsAccounted'
      BY <3>1, <3>2 DEF IInv, Connections, ConnectionsAccounted
    <3>4. ClosedKeepsNothing'
      BY <3>1 DEF IInv, Connections, ClosedKeepsNothing
    <3> QED
      BY <3>3, <3>4
  <2>2. (pc \notin {"dispatch", "write", "hangup"} =>
           \A i \in DOMAIN clients : Live(clients[i]))'
    BY <1>1, <1>2, <1>6 DEF IInv, Connections, Live
  <2> QED
    BY <1>1, <2>1, <2>2 DEF IInv, Connections
<1>8. Round'
  <2>1. \A i \in DOMAIN clients : /\ client'[clients[i]].fd = client[clients[i]].fd
                                  /\ client'[clients[i]].state = client[clients[i]].state
    BY <1>2, <1>6
  <2>2. DOMAIN poll_fds \subseteq DOMAIN clients
    BY DEF IInv, Round
  <2> QED
    BY <1>1, <2>1, <2>2 DEF IInv, Round, PollAligned, InRound, requested_events, Live
<1> QED
  BY <1>3, <1>4, <1>5, <1>7, <1>8 DEF IInv

LEMMA EnvironmentInv ==
  ASSUME IInv, Environment
  PROVE  IInv'
<1>1. /\ UNCHANGED <<entry, content, pc, clients, poll_fds, listener_ready, index>>
      /\ UNCHANGED <<g_stop, starts, client, g_upload_sequence>>
  BY DEF Environment, storageVars, loopVars, signalVars
<1>2. ASSUME TransportTypeOK', Connections', \A c \in Conns : Fresh(c)' => Fresh(c),
             \A c \in Conns : /\ consumed'[c] <= offered'[c] /\ offered'[c] <= Len(Stream(c)')
                              /\ IsSequence(sent'[c])
                              /\ taken'[c] <= Len(sent'[c]) /\ Len(sent'[c]) <= taken'[c] + SndBuf
      PROVE  IInv'
  <2>1. TypeOK'
    BY <1>1, <1>2 DEF IInv, TypeOK
  <2>2. Buffers'
    BY <1>1, <1>2 DEF IInv, Buffers
  <2>3. Ownership'
    BY <1>1, <1>2, SameOwnership DEF IInv
  <2>4. Round'
    BY <1>1 DEF IInv, Round, PollAligned, InRound, requested_events, Live
  <2> QED
    BY <1>2, <2>1, <2>2, <2>3, <2>4 DEF IInv
<1>3. TransportTypeOK /\ \A c \in Conns :
        /\ consumed[c] <= offered[c] /\ offered[c] <= Len(Stream(c))
        /\ IsSequence(sent[c])
        /\ taken[c] <= Len(sent[c]) /\ Len(sent[c]) <= taken[c] + SndBuf
        /\ Len(Stream(c)) \in Nat /\ Len(sent[c]) \in Nat
        /\ taken[c] \in Nat /\ offered[c] \in Nat /\ consumed[c] \in Nat
  BY StreamIsSequence, SequenceConcat DEF IInv, TypeOK, TransportTypeOK, Buffers
<1>4. ASSUME NEW c \in Conns, Connect(c)
      PROVE  IInv'
  <2>1. /\ socket[c] = "none" /\ socket' = [socket EXCEPT ![c] = "queued"]
        /\ backlog' = Append(backlog, c)
        /\ UNCHANGED <<plan, offered, consumed, sent, taken, peer>>
    BY <1>4 DEF Connect
  <2>2. socket'[c] = "queued" /\ \A d \in Conns : d # c => socket'[d] = socket[d]
    BY <1>3, <2>1 DEF TransportTypeOK
  <2>3. /\ backlog \in Seq(Conns) /\ \A i, j \in DOMAIN backlog : backlog[i] = backlog[j] => i = j
        /\ \A i \in DOMAIN backlog : backlog[i] \in Conns /\ socket[backlog[i]] = "queued"
                                     /\ backlog[i] # c
        /\ \A i \in DOMAIN clients : clients[i] # c /\ socket[clients[i]] \in {"open", "closed"}
                                     /\ clients[i] \in Conns
    BY <2>1 DEF IInv, TypeOK, Connections
  <2>4. /\ backlog' \in Seq(Conns) /\ DOMAIN backlog' = 1..(Len(backlog) + 1)
        /\ backlog'[Len(backlog) + 1] = c
        /\ \A i \in DOMAIN backlog : backlog'[i] = backlog[i]
        /\ \A i \in DOMAIN backlog' : i \in DOMAIN backlog \/ i = Len(backlog) + 1
    BY <2>1, <2>3
  <2>5. /\ \A i \in DOMAIN backlog' : backlog'[i] \in Conns /\ socket'[backlog'[i]] = "queued"
        /\ \A i, j \in DOMAIN backlog' : backlog'[i] = backlog'[j] => i = j
    BY <2>2, <2>3, <2>4
  <2>6. ConnectionsAccounted' /\ ClosedKeepsNothing'
    BY <1>1, <2>1, <2>2 DEF IInv, Connections, ConnectionsAccounted, ClosedKeepsNothing, Live
  <2>7. Connections'
    BY <1>1, <2>2, <2>3, <2>4, <2>5, <2>6 DEF IInv, Connections, Live
  <2>8. \A d \in Conns : Fresh(d)' => Fresh(d)
    BY <1>1, <2>1, <2>2 DEF Fresh, Live
  <2>9. TransportTypeOK' /\ \A d \in Conns : Stream(d)' = Stream(d)
    BY <1>3, <2>1 DEF TransportTypeOK, Stream, RequestTokens
  <2> QED
    BY <1>2, <1>3, <2>1, <2>7, <2>8, <2>9
<1>5. ASSUME PeerStep, UNCHANGED <<plan, consumed, sent, socket, backlog>>, TransportTypeOK',
             \A d \in Conns : /\ consumed[d] <= offered'[d] /\ offered'[d] <= Len(Stream(d))
                              /\ taken'[d] <= Len(sent[d]) /\ Len(sent[d]) <= taken'[d] + SndBuf
      PROVE  IInv'
  <2>1. Connections'
    BY <1>1, <1>5 DEF IInv, Connections, ConnectionsAccounted, ClosedKeepsNothing, Live
  <2>2. \A d \in Conns : (Fresh(d)' => Fresh(d)) /\ Stream(d)' = Stream(d)
    BY <1>1, <1>5 DEF Fresh, Live, Stream, RequestTokens
  <2> QED
    BY <1>2, <1>3, <1>5, <2>1, <2>2
<1>6. ASSUME NEW c \in Conns, PeerSend(c)
      PROVE  IInv'
  <2>1. PICK upto \in (offered[c] + 1)..Len(Stream(c)) : offered' = [offered EXCEPT ![c] = upto]
    BY <1>6 DEF PeerSend
  <2>2. UNCHANGED <<plan, consumed, sent, taken, peer, socket, backlog>>
    BY <1>6 DEF PeerSend
  <2>3. upto \in Nat /\ offered[c] <= upto /\ upto <= Len(Stream(c))
    BY <1>3, <2>1
  <2>4. offered' \in [Conns -> Nat]
        /\ \A d \in Conns : consumed[d] <= offered'[d] /\ offered'[d] <= Len(Stream(d))
    BY <1>3, <2>1, <2>3 DEF TransportTypeOK
  <2>5. TransportTypeOK'
    BY <1>3, <2>2, <2>4 DEF TransportTypeOK
  <2> QED
    BY <1>3, <1>5, <1>6, <2>2, <2>4, <2>5 DEF PeerStep
<1>7. ASSUME NEW c \in Conns, PeerRead(c)
      PROVE  IInv'
  <2>1. PICK upto \in (taken[c] + 1)..Len(sent[c]) : taken' = [taken EXCEPT ![c] = upto]
    BY <1>7 DEF PeerRead
  <2>2. UNCHANGED <<plan, offered, consumed, sent, peer, socket, backlog>>
    BY <1>7 DEF PeerRead
  <2>3. upto \in Nat /\ taken[c] <= upto /\ upto <= Len(sent[c])
    BY <1>3, <2>1
  <2>4. taken' \in [Conns -> Nat]
        /\ \A d \in Conns : taken'[d] <= Len(sent[d]) /\ Len(sent[d]) <= taken'[d] + SndBuf
    BY <1>3, <2>1, <2>3, Sizes DEF TransportTypeOK
  <2>5. TransportTypeOK'
    BY <1>3, <2>2, <2>4 DEF TransportTypeOK
  <2> QED
    BY <1>3, <1>5, <1>7, <2>2, <2>4, <2>5 DEF PeerStep
<1>8. ASSUME NEW c \in Conns, PeerShut(c) \/ PeerReset(c)
      PROVE  IInv'
  <2>1. UNCHANGED <<plan, offered, consumed, sent, taken, socket, backlog>>
        /\ \E how \in {"shut", "reset"} : peer' = [peer EXCEPT ![c] = how]
    BY <1>8 DEF PeerShut, PeerReset
  <2>2. TransportTypeOK'
    BY <1>3, <2>1 DEF TransportTypeOK
  <2> QED
    BY <1>3, <1>5, <1>8, <2>1, <2>2 DEF PeerStep
<1> QED
  BY <1>4, <1>6, <1>7, <1>8 DEF Environment, Arrive, PeerStep

-----------------------------------------------------------------------------
(***************************************************************************)
(* The invariant, and what follows from it.                                *)
(***************************************************************************)
LEMMA InitInv ==
  ASSUME Init
  PROVE  IInv
<1>1. /\ entry = [n \in DOMAIN InitialRoot |-> n]
      /\ content = [f \in Files |-> IF f \in DOMAIN InitialRoot
                                    THEN Bytes(f, InitialRoot[f].size) ELSE <<>>]
      /\ pc = "top" /\ g_stop = FALSE /\ g_upload_sequence = 0 /\ starts = 1
      /\ clients = <<>> /\ client = [c \in Conns |-> NewClient]
      /\ poll_fds = <<>> /\ listener_ready = FALSE /\ index = 1 /\ backlog = <<>>
      /\ \A c \in Conns : socket[c] = "none" /\ sent[c] = <<>>
                          /\ offered[c] = 0 /\ consumed[c] = 0 /\ taken[c] = 0
  BY DEF Init, StorageInit, TransportInit
<1>2. TransportTypeOK
  BY DEF Init, TransportInit, TransportTypeOK
<1>3. \A c \in Conns : client[c] = NewClient /\ IsClient(client[c]) /\ WellBuffered(client[c])
  BY <1>1, NewClientFields, NewClientBuffered
<1>4. TypeOK
  <2>1. 1 \in Nat \ {0} /\ FALSE \in BOOLEAN /\ DOMAIN <<>> = {} /\ <<>> \in Seq(Conns)
        /\ 0 \in Nat /\ 1 \in Nat
    OBVIOUS
  <2>2. /\ DOMAIN entry \subseteq Names \cup TempNames
        /\ \A n \in DOMAIN entry : entry[n] \in Files
        /\ DOMAIN content = Files
    BY <1>1, NamesApart DEF Files
  <2>3. client = [c \in Conns |-> client[c]]
    BY <1>1
  <2>4. \A i \in DOMAIN poll_fds :
          poll_fds[i] \in [fd : Fds, events : {"IN", "OUT"}, revents : SUBSET Reports]
    BY <1>1, <2>1
  <2> QED
    BY <1>1, <1>2, <1>3, <2>1, <2>2, <2>3, <2>4 DEF TypeOK
<1>5. Buffers
  <2>1. ASSUME NEW f \in Files
        PROVE  IsSequence(content[f])
    <3>1. CASE f \in DOMAIN InitialRoot
      <4>1. InitialRoot[f].size \in Nat /\ content[f] = Bytes(f, InitialRoot[f].size)
        BY <1>1, <3>1, Sizes
      <4>2. Bytes(f, InitialRoot[f].size)
              \in Seq({Byte(f, i) : i \in 1..InitialRoot[f].size})
        BY <4>1 DEF Bytes
      <4> QED
        BY <4>1, <4>2, SequenceOf
    <3>2. CASE f \notin DOMAIN InitialRoot
      BY <1>1, <3>2, SequenceLines
    <3> QED
      BY <3>1, <3>2
  <2>2. \A c \in Conns : Len(Stream(c)) \in Nat
    BY <1>4, StreamIsSequence
  <2>3. IsSequence(<<>>) /\ Len(<<>>) = 0
    BY SequenceLines
  <2> QED
    BY <1>1, <1>3, <2>1, <2>2, <2>3, Sizes DEF Buffers
<1>6. Connections
  <2>1. \A c \in Conns : ~Live(c)
    BY <1>3, NewClientFields DEF Live
  <2>2. ConnectionsAccounted /\ ClosedKeepsNothing
    BY <1>1, <1>3, <2>1, ServerConstants DEF ConnectionsAccounted, ClosedKeepsNothing
  <2> QED
    BY <1>1, <2>2 DEF Connections
<1>7. Round
  BY <1>1 DEF Round, PollAligned, InRound
<1>8. Ownership
  <2>1. \A c \in Conns : ~Uploading(c) /\ client[c].output_file = None
                         /\ client[c].temporary_path = None /\ client[c].input_file = None
    BY <1>3, NewClientFields DEF Uploading
  <2>2. DOMAIN entry \ Names = {} /\ \A n \in DOMAIN entry : entry[n] = n /\ n \notin Conns
    BY <1>1, NamesApart
  <2>3. \A d \in Conns : d # None
    BY NamesApart
  <2> QED
    BY <2>1, <2>2, <2>3 DEF Ownership
<1> QED
  BY <1>4, <1>5, <1>6, <1>7, <1>8 DEF IInv

LEMMA StutterInv ==
  ASSUME IInv, UNCHANGED vars
  PROVE  IInv'
<1>1. /\ UNCHANGED <<entry, content, plan, offered, consumed, sent, taken, peer, socket, backlog>>
      /\ UNCHANGED <<pc, clients, poll_fds, listener_ready, index, g_stop, starts, client,
                     g_upload_sequence>>
  BY DEF vars, storageVars, transportVars, loopVars, signalVars
<1>2. TypeOK'
  BY <1>1 DEF IInv, TypeOK, TransportTypeOK
<1>3. Buffers'
  BY <1>1, SameBuffers DEF IInv, Buffers
<1>4. Ownership'
  BY <1>1, SameOwnership DEF IInv, Fresh, Live
<1>5. Connections'
  BY <1>1 DEF IInv, Connections, ConnectionsAccounted, ClosedKeepsNothing, Live
<1>6. Round'
  BY <1>1 DEF IInv, Round, PollAligned, InRound, requested_events, Live
<1> QED
  BY <1>2, <1>3, <1>4, <1>5, <1>6 DEF IInv

LEMMA NextInv ==
  ASSUME IInv, [Next]_vars
  PROVE  IInv'
<1>1. CASE Process
  BY <1>1, StartRoundInv, PollInv, EndRoundInv, ReadEventInv, WriteEventInv, RestOfRoundInv,
     AcceptInv, AcceptEndsInv, EndsInv DEF Process
<1>2. CASE Environment \/ Signal \/ Kill \/ Restart \/ Tick
  BY <1>2, EnvironmentInv, SignalInv, EndsInv, TickInv
<1>3. CASE UNCHANGED vars
  BY <1>3, StutterInv
<1> QED
  BY <1>1, <1>2, <1>3 DEF Next

\* The inductive invariant: types, buffers, connections, the round under way
\* and who owns which file, at every step of Server.
THEOREM InvariantHolds == Spec => []IInv
<1>1. Init => IInv
  BY InitInv
<1>2. IInv /\ [Next]_vars => IInv'
  BY NextInv
<1> QED
  BY <1>1, <1>2, PTL DEF Spec

\* The variables have their types; no transfer passes its announced size, so
\* the unsigned subtractions of handle_file_writable and handle_upload_readable
\* do not wrap.
THEOREM TypesHold == Spec => []TypeOK
<1>1. IInv => TypeOK
  BY DEF IInv
<1> QED
  BY <1>1, InvariantHolds, PTL

\* Open sockets and clients agree, each client is in the vector once, the
\* vector never exceeds kMaxClients (accept_connections, close_client, erase).
THEOREM ConnectionsHold == Spec => []ConnectionsAccounted
<1>1. IInv => ConnectionsAccounted
  BY DEF IInv, Connections
<1> QED
  BY <1>1, InvariantHolds, PTL

\* main dispatches to clients[index] what poll reported of that client, for
\* any number of clients and any of them closed by the handlers.
THEOREM PollStaysAligned == Spec => []PollAligned
<1>1. IInv => PollAligned
  BY DEF IInv, Round
<1> QED
  BY <1>1, InvariantHolds, PTL

-----------------------------------------------------------------------------
(***************************************************************************)
(* Only the files of uploads are written.                                  *)
(***************************************************************************)
Frozen(f) ==
  \/ \E n \in Names \cap DOMAIN entry : entry[n] = f
  \/ \E c \in Conns : client[c].input_file = f

LEMMA UploadFileNotFrozen ==
  ASSUME IInv, NEW c \in Conns, Uploading(c)
  PROVE  ~Frozen(client[c].output_file)
<1>1. /\ client[c].temporary_path \in DOMAIN entry
      /\ entry[client[c].temporary_path] = client[c].output_file
      /\ client[c].temporary_path # None
  BY DEF IInv, Ownership
<1>2. client[c].temporary_path \in TempNames
  BY <1>1 DEF IInv, TypeOK, IsClient
<1>3. client[c].temporary_path \notin Names
  BY <1>2, NamesApart
<1>4. \A n \in Names \cap DOMAIN entry : entry[n] # client[c].output_file
  BY <1>1, <1>3 DEF IInv, Ownership
<1>5. \A d \in Conns : client[d].input_file # client[c].output_file
  BY <1>1, <1>3 DEF IInv, Ownership
<1> QED
  BY <1>4, <1>5 DEF Frozen

LEMMA NewFileNotFrozen ==
  ASSUME IInv, NEW c \in Conns, Live(c), client[c].state = "AwaitingRequest",
         NEW path \in TempNames
  PROVE  ~Frozen(IF path \in DOMAIN entry THEN entry[path] ELSE c)
<1>1. path \notin Names
  BY NamesApart
<1>2. CASE path \in DOMAIN entry
  <2>1. \A n \in Names \cap DOMAIN entry : entry[n] # entry[path]
    BY <1>1, <1>2 DEF IInv, Ownership
  <2>2. \A d \in Conns : client[d].input_file # entry[path]
    BY <1>1, <1>2 DEF IInv, Ownership
  <2> QED
    BY <1>2, <2>1, <2>2 DEF Frozen
<1>3. CASE path \notin DOMAIN entry
  BY <1>3 DEF IInv, Ownership, Fresh, Frozen
<1> QED
  BY <1>2, <1>3

LEMMA ReadEventKeepsFrozen ==
  ASSUME IInv, NEW c \in Conns, ReadEvent(c), NEW f \in Files, Frozen(f)
  PROVE  content'[f] = content[f]
<1>1. AtClient(c) /\ Live(c)
  <2>1. AtClient(c)
    BY DEF ReadEvent, AtClient, InRound
  <2> QED
    BY <2>1, CurrentIsLive DEF IInv
<1>2. CASE UNCHANGED content
  BY <1>2
<1>3. CASE handle_upload_readable(c)
  <2>1. Uploading(c) /\ (UNCHANGED content \/ \E s : content' = [content EXCEPT ![client[c].output_file] = s])
    BY <1>3 DEF handle_upload_readable, Uploading
  <2> QED
    BY <2>1, UploadFileNotFrozen DEF IInv, TypeOK
<1>4. CASE handle_request_readable(c) /\ ~UNCHANGED content
  <2>1. PICK r, name, size :
          client[c].state = "AwaitingRequest" /\ r.fd = client[c].fd /\ StartPut(c, r, name, size)
    <3> DEFINE buffer  == client[c].request_buffer \o Chunk(c)
               request == RequestIn(buffer)
               got     == [client[c] EXCEPT !.request_buffer = buffer, !.idle = 0]
               start   == [got EXCEPT !.request_buffer = <<>>]
    <3>1. IsClient(client[c])
      BY DEF IInv, TypeOK
    <3>2. start.fd = client[c].fd
      BY <3>1 DEF IsClient, NewClient
    <3>3. client[c].state = "AwaitingRequest" /\ StartPut(c, start, request.filename, request.size)
      BY <1>4 DEF handle_request_readable, StartGet
    <3> HIDE DEF start, request
    <3> QED
      BY <3>2, <3>3
  <2>2. TempPath(r.fd, g_upload_sequence + 1) \in TempNames
    BY <1>1, <2>1 DEF TempPath, TempNames, IInv, TypeOK, IsClient, Live
  <2>3. content' = [content EXCEPT
          ![IF TempPath(r.fd, g_upload_sequence + 1) \in DOMAIN entry
            THEN entry[TempPath(r.fd, g_upload_sequence + 1)] ELSE c] = <<>>]
    BY <1>4, <2>1 DEF StartPut
  <2> QED
    BY <1>1, <2>1, <2>2, <2>3, NewFileNotFrozen DEF IInv, TypeOK
<1> QED
  BY <1>2, <1>3, <1>4 DEF ReadEvent, ReceiveEnds, ReceiveData

LEMMA NextKeepsFrozen ==
  ASSUME IInv, [Next]_vars, NEW f \in Files, Frozen(f)
  PROVE  content'[f] = content[f]
<1>1. ASSUME NEW c \in Conns, ReadEvent(c)
      PROVE  content'[f] = content[f]
  BY <1>1, ReadEventKeepsFrozen
<1>2. CASE UNCHANGED content
  BY <1>2
<1>3. (\E c \in Conns : ReadEvent(c)) \/ UNCHANGED content
  BY DEF Next, Process, StartRound, PollReady, PollReturns, EndRound, WriteEvent, HangUp,
     ErrorEvent, NoEvent, Accept, AcceptEnds, Shutdown, Kill, ProcessEnds, Restart, Tick,
     Signal, Environment, vars, storageVars
<1> QED
  BY <1>1, <1>2, <1>3

\* Bytes that a remote name links or a download reads never change.
THEOREM StoredBytesStay == Spec => StoredBytesFrozen
<1>1. IInv /\ [Next]_vars => [\A f \in Files : Frozen(f) => content'[f] = content[f]]_vars
  BY NextKeepsFrozen
<1>2. Spec => [][\A f \in Files : Frozen(f) => content'[f] = content[f]]_vars
  BY <1>1, InvariantHolds, PTL DEF Spec
<1> QED
  BY <1>2 DEF StoredBytesFrozen, Frozen

=============================================================================
