---------------------------- MODULE SystemProofs ----------------------------
(***************************************************************************)
(* The whole program inherits what is proved of its two parts, and what    *)
(* they promise together is proved: what a client reports is stored, what  *)
(* is sent is downloaded, and pauses that are short enough do no harm.     *)
(***************************************************************************)
EXTENDS Pace, StoreProofs, ClientProofs, FiniteSetTheorems

\* On the connections a client is one of the peers Transport allows.
LEMMA ExitIsPeerStep ==
  ASSUME NEW c \in Conns, NEW code, Exit(c, code)
  PROVE  PeerStep \/ UNCHANGED transportVars
BY DEF Exit, PeerStep

LEMMA ClientIsPeer ==
  ASSUME NEW c \in Conns, ClientStep(c)
  PROVE  \/ PeerStep \/ UNCHANGED transportVars
         \/ stage[c] = "start" /\ Connect(c)
<1>1. ASSUME GiveUp(c) \/ Abandon(c)
      PROVE  PeerStep \/ UNCHANGED transportVars
  BY <1>1, ExitIsPeerStep DEF GiveUp, Abandon
<1>2. CASE Open(c)
  BY <1>2 DEF Open
<1>3. CASE Send(c) \/ Recv(c) \/ ResetAfterExit(c)
  BY <1>3 DEF Send, Recv, ResetAfterExit, PeerStep
<1>4. CASE SentAll(c) \/ SendToClosed(c)
  BY <1>1, <1>4 DEF SentAll, SendToClosed, transportVars
<1>5. CASE RecvEnds(c) \/ LineTooLong(c)
  BY <1>1, <1>5 DEF RecvEnds, LineTooLong
<1>6. CASE StartDownload(c)
  BY <1>1, <1>6 DEF StartDownload, transportVars
<1>7. CASE Copy(c)
  BY <1>1, <1>7 DEF Copy, transportVars
<1>8. CASE FinishDownload(c)
  BY <1>1, <1>8, ExitIsPeerStep DEF FinishDownload
<1>9. CASE StartUpload(c)
  BY <1>1, <1>9 DEF StartUpload, transportVars
<1>10. CASE FinishUpload(c) \/ KillClient(c)
  BY <1>10, ExitIsPeerStep DEF FinishUpload, KillClient
<1>11. CASE CannotConnect(c)
  BY <1>11 DEF CannotConnect, transportVars
<1>12. CASE CannotRead(c)
  BY <1>1, <1>12 DEF CannotRead
<1> QED
  BY <1>2, <1>3, <1>4, <1>5, <1>6, <1>7, <1>8, <1>9, <1>10, <1>11, <1>12 DEF ClientStep, Run

LEMMA SystemStep ==
  SystemNext => [Next]_vars /\ [\E c \in Conns : ClientStep(c)]_clientVars
<1>1. ASSUME NEW c \in Conns, RunStep(c) \/ ClientMishap(c)
      PROVE  [Next]_vars /\ ClientStep(c)
  <2>1. ClientStep(c) /\ UNCHANGED serverVars
    BY <1>1 DEF RunStep, ClientMishap, ClientStep
  <2>2. CASE PeerStep
    BY <2>1, <2>2 DEF serverVars, Next, Environment
  <2>3. CASE UNCHANGED transportVars
    BY <2>1, <2>3 DEF serverVars, vars
  <2>4. CASE stage[c] = "start" /\ Connect(c)
    <3>1. pc # "down" \/ ~RunStep(c)
      BY <2>4 DEF RunStep
    <3>2. CASE RunStep(c)
      BY <2>1, <2>4, <3>1, <3>2 DEF serverVars, Next, Environment, Arrive
    <3>3. CASE ClientMishap(c)
      BY <2>1, <2>4, <3>3 DEF ClientMishap, CannotConnect, CannotRead, KillClient,
         ResetAfterExit, serverVars, vars, transportVars
    <3> QED
      BY <1>1, <3>2, <3>3
  <2> QED
    BY <2>1, <2>2, <2>3, <2>4, ClientIsPeer
<1>2. ServerAlone(Process) \/ ServerAlone(Signal) \/ ServerAlone(Kill)
        \/ ServerAlone(Restart) \/ ServerAlone(Tick) => Next /\ UNCHANGED clientVars
  BY DEF ServerAlone, Next
<1> QED
  BY <1>1, <1>2 DEF SystemNext

\* The program's server is module Server: with clients as peers every step is
\* one of Server or leaves it alone.
THEOREM SystemImplementsServer == SystemSpec => Spec
<1>1. SystemInit => Init
  BY DEF SystemInit
<1>2. [SystemNext]_systemVars => [Next]_vars
  BY SystemStep DEF systemVars
<1> QED
  BY <1>1, <1>2, PTL DEF SystemSpec, Spec

\* Its clients are module Client.
THEOREM SystemImplementsClient == SystemSpec => ClientSpec
<1>1. SystemInit => ClientInit
  BY DEF SystemInit
<1>2. [SystemNext]_systemVars => [\E c \in Conns : ClientStep(c)]_clientVars
  BY SystemStep DEF systemVars
<1> QED
  BY <1>1, <1>2, PTL DEF SystemSpec, ClientSpec

\* In the whole program the server's invariant holds, stored bytes and those of
\* running downloads stay, and so do the clients' local files.
THEOREM SystemKeeps == SystemSpec => []IInv /\ StoredBytesFrozen /\ LocalFilesKept
BY SystemImplementsServer, SystemImplementsClient, InvariantHolds, StoredBytesStay,
   LocalFilesStay

-----------------------------------------------------------------------------
(***************************************************************************)
(* To its clients the server is one that only adds to what it has sent.    *)
(***************************************************************************)
LEMMA PrefixIs ==
  ASSUME NEW s, NEW t, IsSequence(s), IsSequence(t), IsPrefix(s, t)
  PROVE  /\ Len(s) \in Nat /\ Len(t) \in Nat /\ Len(s) <= Len(t)
         /\ \A i \in 1..Len(s) : t[i] = s[i]
<1> DEFINE m == Len(s)
           u == SubSeq(t, 0 + 1, m)
           v == SubSeq(s, 0 + 1, m)
<1>1. /\ s \in Seq(ToSet(s)) /\ t \in Seq(ToSet(t))
      /\ 0 \in Nat /\ m \in Nat /\ Len(t) \in Nat /\ 0 <= m /\ m <= m /\ m - 0 = m /\ 0 + 1 = 1
  BY LenProperties DEF IsSequence
<1>2. m <= Len(t) /\ u = v
  BY <1>1 DEF IsPrefix
<1>3. \A i \in 1..(m - 0) : u[i] = t[0 + i]
  BY <1>1, <1>2, PartIs
<1>4. \A i \in 1..(m - 0) : v[i] = s[0 + i]
  BY <1>1, PartIs
<1> HIDE DEF u, v
<1> QED
  BY <1>1, <1>2, <1>3, <1>4

LEMMA BeginningIsWellSent ==
  ASSUME NEW s, NEW t, IsSequence(s), WellSent(t), IsPrefix(s, t)
  PROVE  WellSent(s)
<1>1. IsSequence(t)
  BY DEF WellSent, IsSequence
<1>2. /\ Len(s) \in Nat /\ Len(t) \in Nat /\ Len(s) <= Len(t)
      /\ \A i \in 1..Len(s) : t[i] = s[i]
  BY <1>1, PrefixIs
<1>3. DOMAIN s = 1..Len(s) /\ DOMAIN t = 1..Len(t)
  BY <1>1, LenProperties DEF IsSequence
<1>4. \A i \in DOMAIN s : i \in DOMAIN t /\ t[i] = s[i]
  BY <1>2, <1>3
<1> QED
  BY <1>4 DEF WellSent, IsSequence

LEMMA JoinIsWellSent ==
  ASSUME NEW s, NEW t, WellSent(s), WellSent(t)
  PROVE  WellSent(s \o t)
<1> DEFINE S == ToSet(s) \cup ToSet(t)
           Good(x) == x.kind = "ok" => x.size \in Nat /\ x = OkHead(x.size)
<1>1. s \in Seq(S) /\ t \in Seq(S)
  BY DEF WellSent
<1>2. (\A i \in DOMAIN s : Good(s[i])) /\ (\A i \in DOMAIN t : Good(t[i]))
  BY DEF WellSent
<1>3. IsSequence(s \o t)
  BY SequenceConcat DEF IsSequence, WellSent
<1> HIDE DEF S, Good
<1>4. /\ Len(s) \in Nat /\ Len(t) \in Nat /\ Len(s \o t) = Len(s) + Len(t)
      /\ \A i \in 1..(Len(s) + Len(t)) :
           (s \o t)[i] = IF i <= Len(s) THEN s[i] ELSE t[i - Len(s)]
  BY <1>1, ConcatProperties, LenProperties
<1>5. DOMAIN s = 1..Len(s) /\ DOMAIN t = 1..Len(t) /\ DOMAIN (s \o t) = 1..Len(s \o t)
  BY <1>1, ConcatProperties, LenProperties
<1>6. ASSUME NEW i \in 1..(Len(s) + Len(t))
      PROVE  Good((s \o t)[i])
  <2>1. CASE i <= Len(s)
    <3>1. i \in DOMAIN s /\ (s \o t)[i] = s[i]
      BY <1>4, <1>5, <2>1
    <3> QED
      BY <1>2, <3>1
  <2>2. CASE i > Len(s)
    <3>1. i - Len(s) \in DOMAIN t /\ (s \o t)[i] = t[i - Len(s)]
      BY <1>4, <1>5, <2>2
    <3> QED
      BY <1>2, <3>1
  <2> QED
    BY <1>4, <2>1, <2>2
<1>7. \A i \in DOMAIN (s \o t) : Good((s \o t)[i])
  BY <1>4, <1>5, <1>6
<1> QED
  BY <1>3, <1>7 DEF WellSent, IsSequence, Good

LEMMA LinesAreWellSent ==
  /\ WellSent(Line(ReadyHead)) /\ \A why : WellSent(Line(ErrHead(why)))
  /\ \A n \in Nat : WellSent(Line(OkHead(n)))
<1>1. ASSUME NEW head, head.kind = "ok" => head.size \in Nat /\ head = OkHead(head.size)
      PROVE  WellSent(Line(head))
  BY <1>1, SequenceLines DEF Line, WellSent, IsSequence, Newline
<1>2. ReadyHead.kind = "ready" /\ \A why : ErrHead(why).kind = "err"
  BY DEF ReadyHead, ErrHead
<1>3. \A n : OkHead(n).kind = "ok" /\ OkHead(n).size = n
  BY DEF OkHead
<1> QED
  BY <1>1, <1>2, <1>3

LEMMA VersionsAreWellSent ==
  ASSUME NEW n, NEW v \in Versions(n)
  PROVE  WellSent(v)
<1>1. \E src, k : v = Bytes(src, k)
  BY DEF Versions
<1>2. \A src, i : Byte(src, i).kind = "data"
  BY DEF Byte
<1>3. \A src, k : \A i \in DOMAIN Bytes(src, k) : Bytes(src, k)[i] = Byte(src, i)
  BY DEF Bytes
<1>4. \A i \in DOMAIN v : v[i].kind = "data"
  BY <1>1, <1>2, <1>3
<1> QED
  BY <1>4, VersionsAreSequences DEF WellSent, IsSequence

\* A size is announced by the head of a complete reply alone.
LEMMA RepliesAreWellSent ==
  ASSUME NEW c \in Conns, NEW reply \in Replies(c)
  PROVE  WellSent(reply)
<1>1. CASE \E why \in Refusals : reply = Line(ErrHead(why))
  BY <1>1, LinesAreWellSent
<1>2. CASE Asked(c).operation = "Get" /\ reply \in Downloads(Asked(c).filename)
  <2>1. PICK v \in Versions(Asked(c).filename) : reply = Line(OkHead(Len(v))) \o v
    BY <1>2 DEF Downloads
  <2> QED
    BY <2>1, LinesAreWellSent, VersionsAreWellSent, VersionsAreSequences, JoinIsWellSent
<1>3. CASE Asked(c).operation = "Put" /\ reply \in Uploads(Asked(c).size)
  <2>1. PICK end \in {OkHead(Asked(c).size)} \cup {ErrHead(why) : why \in Aborts} :
          reply = Line(ReadyHead) \o Line(end)
    BY <1>3 DEF Uploads
  <2>2. WellSent(Line(end))
    BY <1>3, LinesAreWellSent, UploadIsVersion
  <2> QED
    BY <2>1, <2>2, LinesAreWellSent, JoinIsWellSent
<1>4. Asked(c).operation \in {"Get", "Put", "none"}
  BY DEF Asked, ParseRequest, NoRequest, GetRequest, PutRequest
<1> QED
  BY <1>1, <1>2, <1>3, <1>4 DEF Replies

LEMMA SentIsWellSent ==
  ASSUME IInv, NEW c \in Conns, Conversation(c)
  PROVE  WellSent(sent[c])
<1>1. PICK reply \in Replies(c) : IsPrefix(sent[c], reply)
  BY ReplyAhead
<1> QED
  BY <1>1, ClientFields, RepliesAreWellSent, BeginningIsWellSent

LEMMA ServerSpeaks ==
  ASSUME IInv, TInv, [Next]_vars, NEW c \in Conns
  PROVE  Speaks(c)
<1>1. Serves(c) \/ Kept(c) \/ Leaves(c)
  BY StepDone DEF TInv, Together
<1>2. \/ sent'[c] = sent[c]
      \/ Speaks(c)
  BY <1>1 DEF Serves, Effect, Waits, Refuses, BeginsDownload, BeginsUpload, ReceivesPart,
     FailsUpload, Flushes, SendsFile, Leaves, Ends, Kept, CompletesUpload
<1> QED
  BY <1>2, SaysNothing

LEMMA SpokenExtends ==
  ASSUME NEW s, IsSequence(s), NEW more, IsSequence(more)
  PROVE  Extends(s, s \o more)
<1>1. IsPrefix(s, s \o more) /\ IsSequence(s \o more)
  BY PrefixOfConcat, SequenceConcat
<1> QED
  BY <1>1, PrefixIs DEF Extends

\* Every part of a reply is well sent.
Tokenised == \A c \in Conns : WellSent(sent[c])

LEMMA ServerServes ==
  ASSUME IInv, TInv, SInv, Tokenised', [Next]_vars, UNCHANGED <<clientVars, offered>>
  PROVE  ServerMoves
<1>1. plan' = plan
  BY StepDone DEF TInv
<1>2. DOMAIN sent' = Conns
  BY SentIsFunction
<1>3. ASSUME NEW c \in Conns
      PROVE  Extends(sent[c], sent'[c])
  <2>1. PICK more : IsSequence(more) /\ sent'[c] = sent[c] \o more
    BY ServerSpeaks DEF Speaks
  <2> QED
    BY <2>1, ClientFields, SpokenExtends
<1> QED
  BY <1>1, <1>2, <1>3 DEF ServerMoves, Tokenised

\* Every step of the program is one of Served.
LEMMA StepIsServed ==
  ASSUME IInv, TInv, SInv, Tokenised', [SystemNext]_systemVars
  PROVE  [ServerMoves \/ \E c \in Conns : ClientStep(c)]_<<transportVars, clientVars>>
<1>1. ASSUME NEW c \in Conns, RunStep(c) \/ ClientMishap(c)
      PROVE  ClientStep(c)
  BY <1>1 DEF RunStep, ClientMishap, ClientStep
<1>2. ASSUME IInv, TInv, SInv, Tokenised',
             ServerAlone(Process) \/ ServerAlone(Signal) \/ ServerAlone(Kill)
               \/ ServerAlone(Restart) \/ ServerAlone(Tick)
      PROVE  ServerMoves
  <2>1. [Next]_vars /\ UNCHANGED clientVars
    BY <1>2 DEF ServerAlone, Next
  <2>2. offered' = offered
    BY <1>2 DEF ServerAlone, Process, StartRound, PollReady, PollReturns, EndRound, ReadEvent,
       WriteEvent, HangUp, ErrorEvent, NoEvent, Accept, AcceptEnds, Shutdown, ProcessEnds,
       Signal, Kill, Restart, Tick, transportVars
  <2> QED
    BY <1>2, <2>1, <2>2, ServerServes
<1>3. UNCHANGED systemVars => UNCHANGED <<transportVars, clientVars>>
  BY DEF systemVars, vars
<1> QED
  BY <1>1, <1>2, <1>3 DEF SystemNext

\* Against this server every run is served: what is proved of Served holds.
THEOREM SystemImplementsServed == SystemSpec => Served
<1>1. SystemInit => TransportInit /\ ClientInit
  BY DEF SystemInit, Init
<1>2. IInv /\ TInv => Tokenised
  BY SentIsWellSent DEF TInv, Tokenised
<1>3. IInv /\ TInv /\ SInv /\ Tokenised' /\ [SystemNext]_systemVars
        => [ServerMoves \/ \E c \in Conns : ClientStep(c)]_<<transportVars, clientVars>>
  BY StepIsServed
<1>4. SystemSpec => [](IInv /\ TInv /\ SInv)
  BY SystemImplementsServer, InvariantHolds, ConversationsHold, SInvHolds, PTL
<1> QED
  BY <1>1, <1>2, <1>3, <1>4, PTL DEF SystemSpec, Served

\* In the whole program the properties of the server and of the clients hold.
THEOREM SystemKeepsRuns ==
  SystemSpec => [](ClientTypeOK /\ UploadsConfirmed) /\ DownloadsWhole
BY SystemImplementsServed, RunTypesHold, UploadsAreConfirmed, DownloadsAreWhole, PTL

-----------------------------------------------------------------------------
(***************************************************************************)
(* What a client has fetched is a version of the file.                     *)
(***************************************************************************)
LEMMA LinesAreTokens ==
  ASSUME NEW head
  PROVE  Len(Line(head)) = 2 /\ Line(head)[1] = head /\ Line(head)[2] = Newline
BY DEF Line

\* Behind the head of a download comes the file.
LEMMA BehindHead ==
  ASSUME NEW v, IsSequence(v), NEW head
  PROVE  /\ IsSequence(Line(head) \o v) /\ Len(Line(head) \o v) = Len(v) + 2
         /\ (Line(head) \o v)[1] = head /\ (Line(head) \o v)[2] = Newline
         /\ SubSeq(Line(head) \o v, 3, Len(v) + 2) = v
<1> DEFINE h == Line(head)
           S == ToSet(h) \cup ToSet(v)
           r == h \o v
           d == SubSeq(r, 2 + 1, Len(v) + 2)
<1>1. /\ h \in Seq(S) /\ v \in Seq(S) /\ Len(v) \in Nat
      /\ Len(h) = 2 /\ h[1] = head /\ h[2] = Newline
  BY SequenceLines, LinesAreTokens, LenProperties DEF IsSequence
<1>2. IsSequence(r)
  BY SequenceLines, SequenceConcat
<1> HIDE DEF h, S
<1>3. /\ r \in Seq(S) /\ Len(r) = Len(h) + Len(v)
      /\ \A i \in 1..(Len(h) + Len(v)) : r[i] = IF i <= Len(h) THEN h[i] ELSE v[i - Len(h)]
  BY <1>1, ConcatProperties
<1> HIDE DEF r
<1>4. 2 \in Nat /\ Len(v) + 2 \in Nat /\ 2 <= Len(v) + 2 /\ Len(v) + 2 <= Len(r)
      /\ (Len(v) + 2) - 2 = Len(v) /\ 1 \in 1..(Len(h) + Len(v))
      /\ 2 \in 1..(Len(h) + Len(v))
  BY <1>1, <1>3
<1>5. /\ d \in Seq(S) /\ Len(d) = (Len(v) + 2) - 2
      /\ \A i \in 1..((Len(v) + 2) - 2) : d[i] = r[2 + i]
  BY <1>3, <1>4, PartIs
<1> HIDE DEF d
<1>6. \A i \in 1..Len(v) : d[i] = v[i]
  BY <1>1, <1>3, <1>4, <1>5
<1>7. d = v
  BY <1>1, <1>4, <1>5, <1>6, SequencesEqual
<1>8. r[1] = head /\ r[2] = Newline /\ Len(r) = Len(v) + 2
  BY <1>1, <1>3, <1>4
<1>9. SubSeq(r, 3, Len(v) + 2) = v
  <2>1. 2 + 1 = 3
    OBVIOUS
  <2>2. SubSeq(r, 2 + 1, Len(v) + 2) = v
    BY <1>7 DEF d
  <2> QED
    BY <2>1, <2>2, Zenon
<1> QED
  BY <1>2, <1>8, <1>9 DEF r, h

LEMMA FetchedIsVersion ==
  ASSUME IInv, TInv, NEW c \in Conns, Fetched(c)
  PROVE  local[Destination[c]] \in Versions(Asked(c).filename)
<1> DEFINE s == sent[c]
<1>1. /\ s[1].kind = "ok" /\ Size(c) = s[1].size /\ Size(c) \in Nat /\ Size(c) + 2 <= Len(s)
      /\ local[Destination[c]] = SubSeq(s, 3, Size(c) + 2)
  BY DEF Fetched, Downloaded, Delivered, Size
<1>2. PICK reply \in Replies(c) : IsPrefix(s, reply)
  BY ReplyAhead DEF TInv
<1>3. IsSequence(s) /\ IsSequence(reply)
  BY ClientFields, RepliesAre
<1> HIDE DEF s
<1>4. /\ Len(s) \in Nat /\ Len(reply) \in Nat /\ Len(s) <= Len(reply)
      /\ \A i \in 1..Len(s) : reply[i] = s[i]
  BY <1>2, <1>3, PrefixIs
<1>5. reply[1] = s[1]
  BY <1>1, <1>4
<1>6. ASSUME NEW head, head.kind # "ok", NEW t, IsSequence(t), reply = Line(head) \o t
      PROVE  FALSE
  <2>1. reply[1] = head
    BY <1>6, BehindHead
  <2> QED
    BY <1>1, <1>5, <1>6, <2>1
<1>7. /\ ReadyHead.kind # "ok" /\ \A why : ErrHead(why).kind # "ok"
  BY DEF ReadyHead, ErrHead
<1>8. ~\E why : reply = Line(ErrHead(why))
  BY <1>1, <1>5, <1>7, LinesAreTokens
<1>9. ~\E end : reply = Line(ReadyHead) \o Line(end)
  BY <1>6, <1>7, SequenceLines
<1>10. PICK v \in Versions(Asked(c).filename) : reply = Line(OkHead(Len(v))) \o v
  <2>1. Asked(c).operation \in {"Get", "Put", "none"}
    BY DEF Asked, ParseRequest, NoRequest, GetRequest, PutRequest
  <2> QED
    BY <1>2, <1>8, <1>9, <2>1 DEF Replies, Downloads, Uploads
<1>11. IsSequence(v) /\ Len(v) \in Nat
  BY VersionsAreSequences
<1>12. Len(reply) = Len(v) + 2 /\ reply[1] = OkHead(Len(v)) /\ SubSeq(reply, 3, Len(v) + 2) = v
  BY <1>10, <1>11, BehindHead
<1>13. Size(c) = Len(v)
  BY <1>1, <1>5, <1>12 DEF OkHead
<1>14. s = reply
  <2>1. Len(s) = Len(reply)
    BY <1>1, <1>4, <1>12, <1>13
  <2>2. \A i \in 1..Len(s) : s[i] = reply[i]
    BY <1>4
  <2> QED
    BY <1>3, <2>1, <2>2, SequencesEqual DEF IsSequence
<1> QED
  BY <1>1, <1>12, <1>13, <1>14

\* A GET that reports success has one whole version of the file, whatever uploads of
\* it were completed meanwhile.
THEOREM DownloadsAreOfVersions == SystemSpec => []DownloadsAreVersions
<1>1. IInv /\ TInv /\ RunsInv => DownloadsAreVersions
  BY FetchedIsVersion DEF RunsInv, RunInv, DownloadsAreVersions
<1> QED
  BY <1>1, SystemImplementsServer, SystemImplementsServed, InvariantHolds, ConversationsHold,
     RunsHold, PTL

-----------------------------------------------------------------------------
(***************************************************************************)
(* What was acknowledged is stored, or an upload that came later.          *)
(***************************************************************************)
\* No line acknowledges an upload, nor does what a failed one is told.
LEMMA NoAcknowledgement ==
  /\ ~Acknowledges(<<>>)
  /\ \A head : ~Acknowledges(Line(head))
  /\ \A why : ~Acknowledges(Line(ReadyHead) \o Line(ErrHead(why)))
<1>1. \A head : Len(Line(head)) = 2 /\ Len(<<>>) = 0
  BY LinesAreTokens
<1>2. ASSUME NEW why
      PROVE  (Line(ReadyHead) \o Line(ErrHead(why)))[3].kind = "err"
  <2>1. PICK end : end = ErrHead(why)
    OBVIOUS
  <2>2. end.kind = "err"
    BY <2>1 DEF ErrHead
  <2>3. (Line(ReadyHead) \o Line(end))[3] = end
    BY DEF Line
  <2> QED
    BY <2>1, <2>2, <2>3
<1> QED
  BY <1>1, <1>2 DEF Acknowledges

LEMMA BeginningAcknowledges ==
  ASSUME NEW s, NEW t, IsSequence(s), IsSequence(t), IsPrefix(s, t), Acknowledges(s)
  PROVE  Acknowledges(t)
<1>1. /\ Len(s) \in Nat /\ Len(t) \in Nat /\ Len(s) <= Len(t)
      /\ \A i \in 1..Len(s) : t[i] = s[i]
  BY PrefixIs
<1>2. Len(t) >= 3 /\ t[1] = s[1] /\ t[3] = s[3]
  BY <1>1 DEF Acknowledges
<1> QED
  BY <1>2 DEF Acknowledges

LEMMA ToldIs ==
  ASSUME IInv, NEW c \in Conns
  PROVE  /\ IsSequence(Told(c)) /\ IsPrefix(sent[c], Told(c))
         /\ client[c].pending_output = <<>> => Told(c) = sent[c]
         /\ sent[c] = <<>> => Told(c) = client[c].pending_output
BY ClientFields, SequenceConcat, PrefixOfConcat, ConcatNothing DEF Told

\* What is told of a download announces its size at once.
LEMMA DownloadsAcknowledgeNothing ==
  ASSUME NEW c \in Conns, Asked(c).operation = "Get", NEW reply \in Replies(c)
  PROVE  ~Acknowledges(reply)
<1>1. ReadyHead.kind = "ready" /\ \A n : OkHead(n).kind = "ok"
  BY DEF ReadyHead, OkHead
<1>2. CASE \E why \in Refusals : reply = Line(ErrHead(why))
  BY <1>2, NoAcknowledgement
<1>3. CASE reply \in Downloads(Asked(c).filename)
  <2>1. PICK v \in Versions(Asked(c).filename) : reply = Line(OkHead(Len(v))) \o v
    BY <1>3 DEF Downloads
  <2>2. reply[1] = OkHead(Len(v))
    BY <2>1, VersionsAreSequences, BehindHead
  <2> QED
    BY <1>1, <2>2 DEF Acknowledges
<1> QED
  BY <1>2, <1>3 DEF Replies

\* OK is queued for an upload by no step but the one that completes it.
LEMMA NewlyAcknowledged ==
  ASSUME IInv, IInv', TInv, RepliesWellFormed', [Next]_vars, NEW c \in Conns,
         Acknowledges(Told(c))', ~Acknowledges(Told(c))
  PROVE  CompletesUpload(c)
<1> DEFINE told  == sent[c] \o client[c].pending_output
           told2 == sent'[c] \o client'[c].pending_output
<1>1. Acknowledges(told2) /\ ~Acknowledges(told)
  BY DEF Acknowledges, Told
<1>2. /\ IsSequence(sent[c]) /\ IsSequence(told) /\ IsPrefix(sent[c], told)
      /\ sent[c] = <<>> => told = client[c].pending_output
  BY ToldIs, ClientFields DEF Told
<1>3. /\ IsSequence(sent'[c]) /\ IsSequence(client'[c].pending_output)
  BY DEF IInv, Buffers, WellBuffered
<1>4. /\ IsSequence(told2)
      /\ client'[c].pending_output = <<>> => told2 = sent'[c]
      /\ sent'[c] = <<>> => told2 = client'[c].pending_output
  BY <1>3, SequenceConcat, ConcatNothing
<1>5. Conversation(c)
  BY DEF TInv
<1> HIDE DEF told, told2
<1>6. ASSUME Waits(c) \/ Refuses(c) \/ BeginsDownload(c) \/ BeginsUpload(c)
      PROVE  FALSE
  <2>1. sent'[c] = sent[c] /\ socket[c] = "open" /\ client[c].state = "AwaitingRequest"
    BY <1>6 DEF Waits, Refuses, BeginsDownload, BeginsUpload, Turns
  <2>2. sent'[c] = <<>>
    BY <1>5, <2>1 DEF Conversation, Requesting, InUpload, InDownload, InReply, Uploading
  <2>3. client'[c].pending_output = <<>> \/ \E head : client'[c].pending_output = Line(head)
    BY <1>6 DEF Waits, Refuses, BeginsDownload, BeginsUpload
  <2> QED
    BY <1>1, <1>4, <2>2, <2>3, NoAcknowledgement
<1>7. ASSUME ReceivesPart(c)
      PROVE  FALSE
  <2>1. /\ sent'[c] = sent[c] /\ socket[c] = "open" /\ client[c].state = "ReceivingFile"
        /\ client'[c].pending_output = <<>>
    BY <1>7 DEF ReceivesPart, Turns
  <2>2. InUpload(c)
    BY <1>5, <2>1 DEF Conversation, Requesting, InDownload, InReply
  <2>3. client[c].pending_output = <<>> /\ told = Line(ReadyHead)
    BY <2>1, <2>2 DEF InUpload, told
  <2>4. told2 = told
    BY <1>4, <2>1, <2>3 DEF told, told2
  <2> QED
    BY <1>1, <2>4
<1>8. ASSUME FailsUpload(c)
      PROVE  FALSE
  <2>1. PICK why : client'[c].pending_output = Line(ErrHead(why))
    BY <1>8 DEF FailsUpload
  <2>2. told2 = Line(ReadyHead) \o Line(ErrHead(why))
    BY <1>8, <2>1 DEF FailsUpload, told2
  <2> QED
    BY <1>1, <2>2, NoAcknowledgement
<1>9. ASSUME Flushes(c) \/ Kept(c)
      PROVE  FALSE
  <2>1. told2 = told
    BY <1>9 DEF Flushes, Kept, SameTold, told, told2
  <2> QED
    BY <1>1, <2>1
<1>10. ASSUME SendsFile(c)
       PROVE  FALSE
  <2>1. Asked(c).operation = "Get"
    BY <1>5, <1>10 DEF Conversation, Requesting, InUpload, InDownload, InReply, Uploading,
       SendsFile, Turns
  <2>2. PICK reply \in Replies(c) : IsPrefix(told2, reply)
    <3>1. plan' = plan
      BY StepDone DEF TInv
    <3>2. PICK reply \in Replies(c)' : IsPrefix(told2, reply)
      BY DEF RepliesWellFormed, told2
    <3> QED
      BY <3>1, <3>2, PlanStays
  <2>3. Acknowledges(reply)
    BY <1>1, <1>4, <2>2, RepliesAre, BeginningAcknowledges
  <2> QED
    BY <2>1, <2>3, DownloadsAcknowledgeNothing
<1>11. ASSUME Leaves(c) \/ Ends(c)
       PROVE  FALSE
  <2>1. client'[c].pending_output = <<>> /\ (sent'[c] = sent[c] \/ sent'[c] = told)
    <3>1. client'[c].pending_output = <<>>
      BY <1>11, NewClientFields DEF Leaves, Ends
    <3> QED
      BY <1>11, <3>1 DEF Leaves, Ends, told
  <2>2. Acknowledges(sent[c]) \/ Acknowledges(told)
    BY <1>1, <1>4, <2>1
  <2> QED
    BY <1>1, <1>2, <2>2, BeginningAcknowledges
<1>12. Serves(c) \/ Kept(c) \/ Leaves(c)
  BY StepDone DEF TInv, Together
<1> QED
  BY <1>6, <1>7, <1>8, <1>9, <1>10, <1>11, <1>12 DEF Serves, Effect

LEMMA UploadStaysHeld ==
  ASSUME IInv, IInv', TInv, [Next]_vars, NEW n, HoldsUpload(n)
  PROVE  HoldsUpload(n)'
<1>1. plan' = plan
  BY StepDone DEF TInv
<1>2. n \in Names \cap DOMAIN entry
  BY DEF HoldsUpload
<1>3. n \in DOMAIN entry'
  BY <1>2, ReplacedStep
<1>4. CASE entry'[n] = entry[n]
  <2>1. entry[n] \in Files /\ Frozen(entry[n])
    BY <1>2 DEF IInv, TypeOK, Frozen
  <2>2. content'[entry[n]] = content[entry[n]]
    BY <2>1, NextKeepsFrozen
  <2> QED
    BY <1>1, <1>2, <1>3, <1>4, <2>2, PlanStays DEF HoldsUpload, Bytes
<1>5. CASE entry'[n] # entry[n]
  <2>1. PICK c \in Conns :
          /\ client'[c].state = "SendingResult" /\ client[c].state # "SendingResult"
          /\ Asked(c).filename = n
          /\ content'[entry'[n]] = Bytes(c, Asked(c).size)
    BY <1>2, <1>5, ReplacedStep
  <2>2. Asked(c).operation = "Put"
    BY <2>1, OnlyUploadsAcknowledge DEF CompletesUpload
  <2> QED
    BY <1>1, <1>2, <1>3, <2>1, <2>2, PlanStays DEF HoldsUpload, Bytes
<1> QED
  BY <1>4, <1>5

LEMMA NextAInv ==
  ASSUME IInv, IInv', TInv, AInv, RepliesWellFormed', [Next]_vars
  PROVE  AInv'
<1> SUFFICES ASSUME NEW c \in Conns, Acknowledges(Told(c))'
             PROVE  HoldsUpload(Asked(c).filename)'
  BY DEF AInv
<1>1. plan' = plan /\ Asked(c)' = Asked(c)
  BY StepDone, PlanStays DEF TInv
<1>2. ASSUME HoldsUpload(Asked(c).filename)
      PROVE  HoldsUpload(Asked(c).filename)'
  <2> DEFINE n == Asked(c).filename
  <2>1. PICK k : k = n
    OBVIOUS
  <2>2. HoldsUpload(k)'
    BY <1>2, <2>1, UploadStaysHeld
  <2> QED
    BY <1>1, <2>1, <2>2
<1>3. CASE Acknowledges(Told(c))
  BY <1>2, <1>3 DEF AInv
<1>4. CASE ~Acknowledges(Told(c))
  <2>1. CompletesUpload(c)
    BY <1>4, NewlyAcknowledged
  <2>2. /\ Asked(c).filename \in Names \cap DOMAIN entry'
        /\ content'[entry'[Asked(c).filename]] = Bytes(c, Asked(c).size)
        /\ Asked(c).operation = "Put"
    BY <2>1, UploadIsVersion DEF CompletesUpload
  <2> QED
    BY <1>1, <2>2 DEF HoldsUpload, Bytes
<1> QED
  BY <1>3, <1>4

\* What an OK is worth, through whatever restarts and failures follow: in the step that
\* queues it the name holds the file of this upload, whole; no step changes a byte of a
\* file while the name links it; a step that has the name link another file completes
\* an upload of that name; and so the name holds a whole PUT of that name ever after.
THEOREM AcknowledgedUploadsLast ==
  Spec => AcknowledgedIsStored /\ StoredBytesFrozen /\ NamesReplacedByUploads /\ []AInv
<1>1. Init => AInv
  <2>1. ASSUME Init, NEW c \in Conns
        PROVE  ~Acknowledges(Told(c))
    <3>1. sent[c] = <<>> /\ client[c].pending_output = <<>> /\ <<>> \o <<>> = <<>>
      BY <2>1 DEF Init, TransportInit, NewClient
    <3>2. Told(c) = <<>>
      BY <3>1 DEF Told
    <3> QED
      BY <3>2, NoAcknowledgement DEF Acknowledges
  <2> QED
    BY <2>1 DEF AInv
<1>2. IInv /\ IInv' /\ TInv /\ AInv /\ RepliesWellFormed' /\ [Next]_vars => AInv'
  BY NextAInv
<1> QED
  BY <1>1, <1>2, InvariantHolds, ConversationsHold, RepliesStayWellFormed,
     AcknowledgedStaysStored, StoredBytesStay, NamesStay, PTL DEF Spec

LEMMA ConfirmedIsHeld ==
  ASSUME IInv, AInv, NEW c \in Conns, RunInv(c), Confirmed(c)
  PROVE  HoldsUpload(Asked(c).filename)
<1>1. /\ Len(sent[c]) >= 4 /\ sent[c][1] = ReadyHead /\ sent[c][3] = OkHead(Announced(c))
  BY DEF Confirmed, Invited
<1>2. OkHead(Announced(c)).kind = "ok"
  BY DEF OkHead
<1>3. Len(sent[c]) \in Nat
  BY ClientFields, LenProperties DEF IsSequence
<1>4. Acknowledges(sent[c])
  BY <1>1, <1>2, <1>3 DEF Acknowledges
<1>5. Acknowledges(Told(c))
  BY <1>4, ClientFields, ToldIs, BeginningAcknowledges
<1> QED
  BY <1>5 DEF AInv, Acknowledges

\* When a PUT has reported success its bytes are stored under its name, or all the
\* bytes of another PUT of that name.
THEOREM ConfirmedUploadsStayStored == SystemSpec => []UploadsStored
<1>1. ASSUME NEW d \in Conns, Asked(d).operation = "Put"
      PROVE  IsPut(d) /\ Asked(d).size = Announced(d)
  BY <1>1 DEF Asked, ParseRequest, NoRequest, GetRequest, PutRequest, IsPut, Announced
<1>2. ASSUME IInv, AInv, RunsInv, NEW c \in Conns, Done(c), IsPut(c)
      PROVE  HoldsUpload(Asked(c).filename)
  BY <1>2, ConfirmedIsHeld DEF RunsInv, RunInv
<1>3. IInv /\ AInv /\ RunsInv => UploadsStored
  BY <1>1, <1>2 DEF HoldsUpload, UploadsStored
<1> QED
  BY <1>3, SystemImplementsServer, SystemImplementsServed, InvariantHolds,
     AcknowledgedUploadsLast, RunsHold, PTL

-----------------------------------------------------------------------------
(***************************************************************************)
(* A GET fails only when it was refused or its file did not come whole.    *)
(***************************************************************************)
\* What is announced stays announced, and is announced by start_request alone.
LEMMA BeginningAnnounces ==
  ASSUME NEW s, NEW t, IsSequence(s), IsSequence(t), IsPrefix(s, t), s # <<>>
  PROVE  Announces(t) <=> Announces(s)
<1>1. /\ Len(s) \in Nat /\ Len(t) \in Nat /\ Len(s) <= Len(t)
      /\ \A i \in 1..Len(s) : t[i] = s[i]
  BY PrefixIs
<1>2. Len(s) >= 1
  BY <1>1, EmptySeq DEF IsSequence
<1> QED
  BY <1>1, <1>2 DEF Announces

LEMMA NothingAnnounced == ~Announces(<<>>)
BY DEF Announces

LEMMA NewlyAnnounced ==
  ASSUME IInv, IInv', TInv, [Next]_vars, NEW c \in Conns,
         Announces(Told(c))', ~Announces(Told(c))
  PROVE  BeginsDownload(c)
<1> DEFINE told  == sent[c] \o client[c].pending_output
           told2 == sent'[c] \o client'[c].pending_output
<1>1. Announces(told2) /\ ~Announces(told)
  BY DEF Announces, Told
<1>2. /\ IsSequence(sent[c]) /\ IsSequence(told) /\ IsPrefix(sent[c], told)
      /\ sent[c] = <<>> => told = client[c].pending_output
      /\ client[c].pending_output = <<>> => told = sent[c]
  BY ToldIs, ClientFields DEF Told
<1>3. IsSequence(sent'[c]) /\ IsSequence(client'[c].pending_output)
  BY DEF IInv, Buffers, WellBuffered
<1>4. /\ IsSequence(told2)
      /\ client'[c].pending_output = <<>> => told2 = sent'[c]
      /\ sent'[c] = <<>> => told2 = client'[c].pending_output
  BY <1>3, SequenceConcat, ConcatNothing
<1>5. Conversation(c)
  BY DEF TInv
<1>6. /\ \A head : Announces(Line(head)) => head.kind = "ok"
      /\ \A head, end : Announces(Line(head) \o Line(end)) => head.kind = "ok"
  <2>1. \A head, end : (Line(head) \o Line(end))[1] = head
    BY BehindHead, SequenceLines
  <2> QED
    BY <2>1, LinesAreTokens DEF Announces
<1>7. ReadyHead.kind = "ready" /\ \A why : ErrHead(why).kind = "err"
  BY DEF ReadyHead, ErrHead
<1> HIDE DEF told, told2
<1>8. ASSUME Waits(c) \/ Refuses(c) \/ BeginsUpload(c)
      PROVE  FALSE
  <2>1. sent'[c] = sent[c] /\ socket[c] = "open" /\ client[c].state = "AwaitingRequest"
    BY <1>8 DEF Waits, Refuses, BeginsUpload, Turns
  <2>2. sent'[c] = <<>>
    BY <1>5, <2>1 DEF Conversation, Requesting, InUpload, InDownload, InReply, Uploading
  <2>3. \/ client'[c].pending_output = <<>> \/ client'[c].pending_output = Line(ReadyHead)
        \/ \E why : client'[c].pending_output = Line(ErrHead(why))
    BY <1>8 DEF Waits, Refuses, BeginsUpload
  <2> QED
    BY <1>1, <1>4, <1>6, <1>7, <2>2, <2>3, NothingAnnounced
<1>9. ASSUME ReceivesPart(c)
      PROVE  FALSE
  <2>1. /\ sent'[c] = sent[c] /\ socket[c] = "open" /\ client[c].state = "ReceivingFile"
        /\ client'[c].pending_output = <<>>
    BY <1>9 DEF ReceivesPart, Turns
  <2>2. client[c].pending_output = <<>>
    BY <1>5, <2>1 DEF Conversation, Requesting, InUpload, InDownload, InReply
  <2>3. told2 = told
    BY <1>4, <2>1, <2>2 DEF told, told2
  <2> QED
    BY <1>1, <2>3
<1>10. ASSUME FailsUpload(c) \/ CompletesUpload(c)
       PROVE  FALSE
  <2>1. sent'[c] = Line(ReadyHead) /\ \E end : client'[c].pending_output = Line(end)
    BY <1>10 DEF FailsUpload, CompletesUpload
  <2> QED
    BY <1>1, <1>6, <1>7, <2>1 DEF told2
<1>11. ASSUME Flushes(c) \/ Kept(c)
       PROVE  FALSE
  <2>1. told2 = told
    BY <1>11 DEF Flushes, Kept, SameTold, told, told2
  <2> QED
    BY <1>1, <2>1
<1>12. ASSUME SendsFile(c)
       PROVE  FALSE
  <2>1. InDownload(c) /\ client[c].state = "SendingFile"
    BY <1>5, <1>12 DEF Conversation, Requesting, InUpload, InReply, Uploading, SendsFile, Turns
  <2>2. sent[c] # <<>>
    BY <2>1, HeaderIsSaid
  <2>3. told = sent[c] /\ told2 = sent'[c]
    BY <1>2, <1>4, <1>12, <2>1 DEF InDownload, SendsFile
  <2>4. PICK more : IsSequence(more) /\ sent'[c] = sent[c] \o more
    BY <1>12 DEF SendsFile, Speaks
  <2>5. IsPrefix(told, told2)
    BY <1>2, <2>3, <2>4, PrefixOfConcat
  <2> QED
    BY <1>1, <1>2, <1>4, <2>2, <2>3, <2>5, BeginningAnnounces
<1>13. ASSUME Leaves(c) \/ Ends(c)
       PROVE  FALSE
  <2>1. client'[c].pending_output = <<>> /\ (sent'[c] = sent[c] \/ sent'[c] = told)
    <3>1. client'[c].pending_output = <<>>
      BY <1>13, NewClientFields DEF Leaves, Ends
    <3> QED
      BY <1>13, <3>1 DEF Leaves, Ends, told
  <2>2. Announces(sent[c])
    BY <1>1, <1>4, <2>1
  <2>3. sent[c] # <<>>
    BY <2>2, NothingAnnounced
  <2> QED
    BY <1>1, <1>2, <2>2, <2>3, BeginningAnnounces
<1>14. Serves(c) \/ Kept(c) \/ Leaves(c)
  BY StepDone DEF TInv, Together
<1> QED
  BY <1>8, <1>9, <1>10, <1>11, <1>12, <1>13, <1>14 DEF Serves, Effect

\* What was received is never taken back.
LEMMA ConsumedGrows ==
  ASSUME IInv, [Next]_vars, NEW c \in Conns
  PROVE  consumed[c] \in Nat /\ consumed'[c] \in Nat /\ consumed[c] <= consumed'[c]
<1>1. consumed \in [Conns -> Nat]
  BY DEF IInv, TypeOK, TransportTypeOK
<1>2. CASE consumed' = consumed
  BY <1>1, <1>2
<1>3. CASE \E d \in Conns : ReadEvent(d) /\ consumed' # consumed
  <2>1. PICK d \in Conns : consumed' = [consumed EXCEPT ![d] = @ + Received(d)] /\ Waiting(d) > 0
    BY <1>3 DEF ReadEvent, ReceiveEnds, ReceiveData
  <2>2. Received(d) \in Nat
    <3>1. Waiting(d) \in Nat
      BY <1>1, <2>1 DEF Waiting, IInv, TypeOK, TransportTypeOK
    <3> QED
      BY <3>1, ServerConstants DEF Received, Least
  <2> QED
    BY <1>1, <2>1, <2>2
<1>4. consumed' = consumed \/ \E d \in Conns : ReadEvent(d)
  BY DEF Next, Process, StartRound, PollReady, PollReturns, EndRound, WriteEvent, HangUp,
     ErrorEvent, NoEvent, Accept, AcceptEnds, Shutdown, ProcessEnds, Signal, Kill, Restart,
     Tick, Environment, Arrive, Connect, PeerStep, PeerSend, PeerRead, PeerShut, PeerReset,
     transportVars, vars
<1> QED
  BY <1>2, <1>3, <1>4

\* The server answers a GET only after it has received all of the request line.
THEOREM AnnouncedAfterRequest == Spec => []LInv
<1>1. Init => LInv
  <2>1. ASSUME Init, NEW c \in Conns
        PROVE  ~Announces(Told(c))
    <3>1. sent[c] = <<>> /\ client[c].pending_output = <<>> /\ <<>> \o <<>> = <<>>
      BY <2>1 DEF Init, TransportInit, NewClient
    <3> QED
      BY <3>1, NothingAnnounced DEF Told
  <2> QED
    BY <2>1 DEF LInv
<1>2. ASSUME IInv, IInv', TInv, LInv, [Next]_vars, NEW c \in Conns, Announces(Told(c))'
      PROVE  consumed'[c] >= LineLength(c)'
  <2>1. LineLength(c)' = LineLength(c) /\ LineLength(c) \in Nat
    BY <1>2, StepDone, PlanStays, StreamShape DEF TInv, IInv
  <2>2. consumed[c] \in Nat /\ consumed'[c] \in Nat /\ consumed[c] <= consumed'[c]
    BY <1>2, ConsumedGrows
  <2>3. Announces(Told(c)) => consumed[c] >= LineLength(c)
    BY <1>2 DEF LInv
  <2>4. ~Announces(Told(c)) => consumed'[c] = LineLength(c)
    BY <1>2, NewlyAnnounced DEF BeginsDownload
  <2> QED
    BY <2>1, <2>2, <2>3, <2>4
<1>3. IInv /\ IInv' /\ TInv /\ LInv /\ [Next]_vars => LInv'
  BY <1>2 DEF LInv
<1> QED
  BY <1>1, <1>3, InvariantHolds, ConversationsHold, PTL DEF Spec


-----------------------------------------------------------------------------
\* The replies that announce a file, and that a reply in its middle is no other.
LEMMA DownloadIs ==
  ASSUME NEW n, NEW reply \in Downloads(n)
  PROVE  /\ IsSequence(reply) /\ Len(reply) \in Nat
         /\ reply[1].kind = "ok" /\ reply[1].size \in Nat
         /\ Len(reply) = reply[1].size + 2 /\ reply[2] = Newline
<1>1. PICK v \in Versions(n) : reply = Line(OkHead(Len(v))) \o v
  BY DEF Downloads
<1>2. IsSequence(v) /\ Len(v) \in Nat
  BY <1>1, VersionsAreSequences
<1>3. /\ IsSequence(reply) /\ Len(reply) = Len(v) + 2
      /\ reply[1] = OkHead(Len(v)) /\ reply[2] = Newline
  BY <1>1, <1>2, BehindHead
<1>4. OkHead(Len(v)).kind = "ok" /\ OkHead(Len(v)).size = Len(v)
  BY DEF OkHead
<1> QED
  BY <1>2, <1>3, <1>4

LEMMA NewlineFollows ==
  ASSUME IInv, NEW c \in Conns, Conversation(c), Len(sent[c]) >= 2, sent[c][1].kind = "ok"
  PROVE  sent[c][2] = Newline
<1>1. PICK reply \in Replies(c) : IsPrefix(sent[c], reply)
  BY ReplyAhead
<1>2. IsSequence(sent[c]) /\ IsSequence(reply)
  BY ClientFields, RepliesAre
<1>3. /\ Len(sent[c]) \in Nat /\ Len(reply) \in Nat /\ Len(sent[c]) <= Len(reply)
      /\ \A i \in 1..Len(sent[c]) : reply[i] = sent[c][i]
  BY <1>1, <1>2, PrefixIs
<1>4. reply[2] = Newline
  <2>1. CASE \E head : reply = Line(head)
    BY <2>1, LinesAreTokens
  <2>2. CASE \E head, t : IsSequence(t) /\ reply = Line(head) \o t
    BY <2>2, BehindHead
  <2>3. Asked(c).operation \in {"Get", "Put", "none"}
    BY DEF Asked, ParseRequest, NoRequest, GetRequest, PutRequest
  <2> QED
    BY <2>1, <2>2, <2>3, SequenceLines, VersionsAreSequences DEF Replies, Downloads, Uploads
<1> QED
  BY <1>3, <1>4

\* A run understands every response line that begins with OK.
LEMMA OkIsUnderstood ==
  ASSUME IInv, RunsInv, LocalsFree, NEW c \in Conns, Conversation(c), Asking(c)
  PROVE  /\ TooLong(c) \/ (HasLine(c) /\ ~IsOk(c)) =>
              Len(sent[c]) >= 1 /\ sent[c][1].kind # "ok"
         /\ received[c] = Len(sent[c]) /\ Len(sent[c]) >= 2 /\ sent[c][1].kind = "ok" => HasLine(c)
<1> DEFINE s == sent[c]
           b == buffered[c]
           m == received[c]
           S == ToSet(s)
<1>1. s \in Seq(S) /\ m \in Nat /\ m <= Len(s) /\ Len(s) \in Nat
  BY DEF RunsInv, RunInv, WellSent
<1>2. Len(s) >= 2 /\ s[1].kind = "ok" => s[2] = Newline
  BY NewlineFollows
<1>3. b = SubSeq(s, 0 + 1, m)
  BY DEF Asking
<1>4. MaxResponseLine \in Nat /\ MaxResponseLine > 0
  BY ClientConstants DEF LocalsFree
<1>5. HasLine(c) <=> \E i \in DOMAIN b : b[i] = Newline
  BY DEF HasLine
<1>6. /\ b \in Seq(S) /\ Len(b) = m /\ \A i \in 1..m : b[i] = s[i]
  BY <1>1, <1>3, PartIs
<1>7. HasLine(c) =>
        /\ LineEnd(c) \in DOMAIN b /\ b[LineEnd(c)] = Newline
        /\ \A i \in 1..(LineEnd(c) - 1) : b[i] # Newline
        /\ Len(Response(c)) = LineEnd(c) - 1
        /\ \A i \in 1..(LineEnd(c) - 1) : Response(c)[i] = b[i]
  BY <1>6, LineIs
<1>8. TooLong(c) <=> ~HasLine(c) /\ Len(b) > MaxResponseLine
  BY DEF TooLong
<1>9. IsOk(c) <=> Len(Response(c)) = 1 /\ Response(c)[1].kind = "ok"
  BY DEF IsOk
<1>10. Newline.kind # "ok"
  BY DEF Newline
<1> HIDE DEF s, b, m, S
<1>11. DOMAIN b = 1..m
  BY <1>6
<1>12. CASE m < 2
  <2>1. b[1] = s[1] \/ m = 0
    BY <1>1, <1>6, <1>12
  <2>2. s[1].kind = "ok" => ~HasLine(c)
    BY <1>1, <1>5, <1>10, <1>6, <1>11, <1>12
  <2>3. ~TooLong(c)
    BY <1>1, <1>4, <1>8, <1>6, <1>12
  <2>4. HasLine(c) => m >= 1
    BY <1>1, <1>5, <1>11
  <2> QED
    BY <1>1, <1>12, <2>2, <2>3, <2>4 DEF s, m
<1>13. CASE m >= 2 /\ s[1].kind = "ok"
  <2>1. 1 \in 1..m /\ 2 \in 1..m /\ s[2] = Newline
    BY <1>1, <1>2, <1>13
  <2>2. b[1] = s[1] /\ b[2] = Newline /\ b[1] # Newline
    BY <1>10, <1>6, <1>13, <2>1
  <2>3. HasLine(c)
    BY <1>5, <1>11, <2>1, <2>2
  <2>4. LineEnd(c) \in 1..m /\ LineEnd(c) # 1 /\ ~(2 < LineEnd(c))
    BY <1>1, <1>7, <1>11, <2>2, <2>3
  <2>5. LineEnd(c) = 2
    BY <1>1, <2>4
  <2>6. IsOk(c)
    BY <1>7, <1>9, <1>13, <2>2, <2>3, <2>5
  <2> QED
    BY <1>8, <2>3, <2>6
<1> QED
  BY <1>1, <1>12, <1>13 DEF s, m

\* After the announcement of a file a run has all it needs: nothing of its request is
\* unread, and the rest of its file is on its way.
LEMMA AnnouncedIsRead ==
  ASSUME IInv, LInv, RunsInv, NEW c \in Conns, NEW n, sent[c] \in Downloads(n),
         offered[c] <= RequestEnd(c)
  PROVE  offered[c] = RequestEnd(c) /\ Waiting(c) = 0 /\ RequestEnd(c) \in Nat
<1>1. Announces(sent[c]) /\ sent[c] # <<>>
  <2>1. /\ Len(sent[c]) \in Nat /\ sent[c][1].kind = "ok" /\ sent[c][1].size \in Nat
        /\ Len(sent[c]) = sent[c][1].size + 2
    BY DownloadIs
  <2>2. Len(sent[c]) >= 1
    BY <2>1
  <2>3. Announces(sent[c])
    BY <2>1, <2>2 DEF Announces
  <2> QED
    BY <2>3, NothingAnnounced
<1>2. Announces(Told(c))
  BY <1>1, ClientFields, ToldIs, BeginningAnnounces
<1>3. consumed[c] >= LineLength(c)
  BY <1>2 DEF LInv
<1>4. RequestEnd(c) = LineLength(c)
  <2> DEFINE words == [i \in 1..Len(plan[c].line) |-> Word(plan[c].line[i])]
             W     == {words[i] : i \in 1..Len(plan[c].line)} \cup {Newline}
  <2>1. Len(plan[c].line) \in Nat
    BY StreamShape DEF IInv
  <2>2. words \in Seq(W) /\ Len(words) = Len(plan[c].line) /\ <<Newline>> \in Seq(W)
        /\ Len(<<Newline>>) = 1
    BY <2>1
  <2> HIDE DEF words, W
  <2>3. Len(words \o <<Newline>>) = Len(words) + 1
    BY <2>2, ConcatProperties
  <2> QED
    BY <2>2, <2>3 DEF RequestEnd, RequestTokens, LineLength, words
<1>5. consumed[c] \in Nat /\ offered[c] \in Nat /\ consumed[c] <= offered[c]
  BY ClientFields
<1>6. RequestEnd(c) \in Nat
  BY PlanIs DEF RunsInv, RunInv
<1> QED
  BY <1>3, <1>4, <1>5, <1>6 DEF Waiting

\* Of a whole reply a run misses nothing when recv reports its end.
LEMMA WholeReplyIsReceived ==
  ASSUME IInv, LInv, RunsInv, LocalsFree, NEW c \in Conns, Conversation(c), ~IsPut(c),
         NEW n, sent[c] \in Downloads(n)
  PROVE  ~SendToClosed(c) /\ ~RecvEnds(c)
<1> USE DEF RunsInv, RunInv
<1>1. /\ Len(sent[c]) \in Nat /\ sent[c][1].kind = "ok" /\ Size(c) \in Nat
      /\ Len(sent[c]) = Size(c) + 2
  BY DownloadIs DEF Size
<1>2. stage[c] \notin {"uploading", "confirm"}
  BY DEF Storing
<1>3. CASE SendToClosed(c)
  <2>1. stage[c] = "request" /\ offered[c] < RequestEnd(c)
    BY <1>2, <1>3 DEF SendToClosed, ToSend, SendGoal
  <2>2. offered[c] <= RequestEnd(c)
    BY <2>1 DEF Asking
  <2> QED
    BY <2>1, <2>2, AnnouncedIsRead
<1>4. CASE RecvEnds(c)
  <2>1. stage[c] \in {"response", "copying"} /\ (received[c] = Len(sent[c]) \/ Broken(c))
    BY <1>2, <1>4 DEF RecvEnds, Receiving
  <2>2. offered[c] <= RequestEnd(c)
    BY <2>1 DEF Asking, Copying
  <2>3. ~Broken(c)
    BY <2>1, <2>2, AnnouncedIsRead DEF Broken
  <2>4. CASE stage[c] = "response"
    <3>1. HasLine(c)
      BY <1>1, <2>1, <2>3, <2>4, OkIsUnderstood
    <3> QED
      BY <1>4, <2>4, <3>1 DEF RecvEnds, Receiving
  <2>5. CASE stage[c] = "copying"
    <3> DEFINE s == sent[c]
               b == Copied(c) + 2
               m == received[c]
    <3>1. /\ s \in Seq(ToSet(s)) /\ m = Len(s) /\ m \in Nat /\ remaining[c] \in Nat
          /\ b <= m /\ b \in Nat
      BY <1>1, <2>1, <2>3, <2>5 DEF WellSent, Copying, Copied
    <3>2. buffered[c] = SubSeq(s, b + 1, m)
      <4>1. Copied(c) + 3 = b + 1
        BY <1>1, <3>1 DEF Copied
      <4> QED
        BY <2>5, <4>1 DEF Copying
    <3>3. Len(SubSeq(s, b + 1, m)) = m - b
      BY <3>1, PartIs
    <3>4. buffered[c] = <<>> /\ remaining[c] > 0
      BY <1>4, <2>5 DEF RecvEnds, Receiving
    <3>5. m - b = 0
      <4> HIDE DEF s, b, m
      <4>1. PICK rest : rest = SubSeq(s, b + 1, m)
        OBVIOUS
      <4>2. rest = <<>> /\ Len(rest) = m - b /\ Len(<<>>) = 0
        BY <3>2, <3>3, <3>4, <4>1, SequenceLines
      <4> QED
        BY <4>2
    <3> QED
      BY <1>1, <3>1, <3>4, <3>5 DEF Copied
  <2> QED
    BY <2>1, <2>4, <2>5
<1> QED
  BY <1>3, <1>4

\* A GET fails for one of two reasons.
LEMMA FailsRightly ==
  ASSUME IInv, TInv, LInv, RunsInv, FailedInv, LocalsFree, NEW c \in Conns, ClientStep(c),
         ~IsPut(c), status[c] # "failed", status'[c] = "failed", NEW n
  PROVE  \/ Len(sent[c]) >= 1 /\ sent[c][1].kind # "ok"
         \/ socket[c] = "closed" /\ sent[c] \notin Downloads(n)
<1>1. Conversation(c) /\ RunInv(c) /\ (stage[c] \notin {"copying", "end"} => Free(c))
  BY DEF TInv, RunsInv, FailedInv
<1>2. stage[c] \notin {"uploading", "confirm"}
  BY <1>1 DEF RunInv, Storing
<1>3. "open" \notin LocalFaults /\ "write" \notin LocalFaults /\ "rename" \notin LocalFaults
  BY DEF LocalsFree
<1>4. CASE SendToClosed(c) \/ RecvEnds(c)
  BY <1>1, <1>4, WholeReplyIsReceived DEF SendToClosed, RecvEnds
<1>5. CASE LineTooLong(c) \/ (StartDownload(c) /\ GiveUp(c))
  <2>1. stage[c] = "response" /\ (TooLong(c) \/ (HasLine(c) /\ ~IsOk(c)))
    <3>1. CASE LineTooLong(c)
      BY <1>2, <3>1 DEF LineTooLong
    <3>2. CASE StartDownload(c) /\ GiveUp(c)
      <4>1. stage'[c] # "copying"
        BY <3>2 DEF GiveUp, Exit, To, StartDownload
      <4> QED
        BY <1>1, <1>3, <3>2, <4>1 DEF StartDownload
    <3> QED
      BY <1>5, <3>1, <3>2
  <2>2. Asking(c)
    BY <1>1, <2>1 DEF RunInv
  <2> QED
    BY <1>1, <2>1, <2>2, OkIsUnderstood
<1>6. CASE StartDownload(c) /\ ~GiveUp(c)
  BY <1>6 DEF StartDownload
<1>7. CASE Open(c) \/ Send(c) \/ Recv(c) \/ ResetAfterExit(c)
  BY <1>7 DEF Open, Send, Recv, ResetAfterExit, clientVars
<1>8. CASE SentAll(c)
  BY <1>2, <1>8 DEF SentAll, CountsAgree
<1>9. CASE Copy(c)
  BY <1>3, <1>9 DEF Copy
<1>10. CASE FinishDownload(c) \/ KillClient(c) \/ CannotConnect(c)
  <2>1. \E code : code # "failed" /\ status' = [status EXCEPT ![c] = code]
    BY <1>3, <1>10 DEF FinishDownload, KillClient, CannotConnect, Exit
  <2> QED
    BY <2>1
<1>11. CASE StartUpload(c) \/ FinishUpload(c) \/ CannotRead(c)
  BY <1>2, <1>11 DEF StartUpload, FinishUpload, CannotRead
<1> QED
  BY <1>4, <1>5, <1>6, <1>7, <1>8, <1>9, <1>10, <1>11 DEF ClientStep, Run

-----------------------------------------------------------------------------
\* Of local files: a run has nobody's path, and its own are free until it copies.
LEMMA FreeStays ==
  ASSUME ClientInv, FailedInv, LocalsFree, NEW e \in Conns, ClientStep(e),
         NEW c \in Conns, stage'[c] \notin {"copying", "end"}
  PROVE  Free(c)'
<1>1. /\ \A p \in DOMAIN local' : p \in DOMAIN local \/ p = Part(e) \/ p = Destination[e]
      /\ Begins(e) \/ Quiet(e) => local' = local
  <2>1. CASE Begins(e) \/ Quiet(e)
    BY <2>1 DEF Begins, Quiet
  <2>2. CASE Creates(e) \/ Finishes(e) \/ Removes(e)
    <3>1. ~Begins(e) /\ (Quiet(e) => local' = local)
      BY <2>2 DEF Creates, Finishes, Removes, Begins, Quiet
    <3> QED
      BY <2>2, <3>1 DEF Creates, Finishes, Removes, LocalWithout
  <2>3. CASE Writes(e)
    <3>1. ~Begins(e) /\ (Quiet(e) => local' = local)
      BY <2>3 DEF Writes, Begins, Quiet
    <3> QED
      BY <2>3, <3>1 DEF Writes
  <2> QED
    BY <2>1, <2>2, <2>3, StepKinds
<1>2. CASE c # e
  <2>1. stage'[c] = stage[c]
    BY <1>2, StepChanges DEF ChangesOnly, ClientInv
  <2>2. Destination[c] # Destination[e]
    BY <1>2 DEF LocalsFree
  <2>3. Free(c) /\ Destination[c] \notin {Part(e), Destination[e]}
          /\ Part(c) \notin {Part(e), Destination[e]}
    BY <2>1, <2>2, PartsApart DEF FailedInv
  <2> QED
    BY <1>1, <2>3 DEF Free, Part
<1>3. CASE c = e
  <2>1. ~Creates(c) /\ ~Writes(c) /\ ~Removes(c) /\ ~Finishes(c)
    BY <1>3 DEF Creates, Writes, Removes, Finishes, To, ClientInv
  <2>2. Begins(c) \/ Quiet(c)
    BY <1>3, <2>1, StepKinds
  <2>3. stage[c] \notin {"copying", "end"}
    <3>1. CASE Begins(c)
      BY <3>1 DEF Begins
    <3>2. CASE Quiet(c) /\ stage[c] = "copying"
      BY <1>3, <3>2, StepKinds DEF To, ClientInv
    <3>3. CASE Quiet(c) /\ stage[c] = "end"
      <4>1. stage' = stage \/ To(c, "end")
        BY <1>3, <2>1, <3>3, StepKinds DEF Running, Begins
      <4> QED
        BY <3>3, <4>1 DEF To, ClientInv
    <3> QED
      BY <2>2, <3>1, <3>2, <3>3
  <2> QED
    BY <1>1, <1>3, <2>2, <2>3 DEF FailedInv, Free, Part
<1> QED
  BY <1>2, <1>3

\* What the server does keeps a closed connection closed and what was said on it.
LEMMA ClosedStays ==
  ASSUME IInv, TInv, [Next]_vars, NEW c \in Conns, socket[c] = "closed"
  PROVE  socket'[c] = "closed" /\ sent'[c] = sent[c]
<1>1. Serves(c) \/ Kept(c) \/ Leaves(c)
  BY StepDone DEF TInv, Together
<1> QED
  BY <1>1 DEF Serves, Effect, Waits, Refuses, BeginsDownload, BeginsUpload, ReceivesPart,
     FailsUpload, Flushes, SendsFile, Leaves, Ends, Kept, CompletesUpload, Turns

LEMMA DownloadsStay ==
  ASSUME plan' = plan, NEW c \in Conns
  PROVE  Downloads(Asked(c).filename)' = Downloads(Asked(c).filename)
BY PlanStays DEF Downloads

\* A run that has failed has failed for the same reason after every step.
LEMMA FailureStays ==
  ASSUME IInv, TInv, RunsInv, [Next]_vars, plan' = plan, NEW c \in Conns,
         Extends(sent[c], sent'[c]),
         \/ Len(sent[c]) >= 1 /\ sent[c][1].kind # "ok"
         \/ socket[c] = "closed" /\ sent[c] \notin Downloads(Asked(c).filename)
  PROVE  \/ Len(sent'[c]) >= 1 /\ sent'[c][1].kind # "ok"
         \/ socket'[c] = "closed" /\ sent'[c] \notin Downloads(Asked(c).filename)'
<1>1. CASE Len(sent[c]) >= 1 /\ sent[c][1].kind # "ok"
  <2>1. Len(sent[c]) \in Nat
    BY ClientFields, LenProperties DEF IsSequence
  <2>2. Len(sent'[c]) >= Len(sent[c]) /\ sent'[c][1] = sent[c][1]
    BY <1>1, <2>1 DEF Extends
  <2>3. IsSequence(sent'[c]) \/ sent'[c] = sent[c]
    BY ServerSpeaks, SequenceConcat, ClientFields DEF Speaks
  <2>4. Len(sent'[c]) \in Nat
    BY <2>1, <2>3, LenProperties DEF IsSequence
  <2> QED
    BY <1>1, <2>1, <2>2, <2>4
<1>2. CASE socket[c] = "closed" /\ sent[c] \notin Downloads(Asked(c).filename)
  BY <1>2, ClosedStays, DownloadsStay
<1> QED
  BY <1>1, <1>2

LEMMA StepKeepsFailedInv ==
  ASSUME IInv, TInv, LInv, ClientInv, RunsInv, FailedInv, LocalsFree, [Next]_vars,
         ServerMoves \/ \E e \in Conns : ClientStep(e)
  PROVE  FailedInv'
<1>1. plan' = plan
  BY StepDone DEF TInv
<1>2. ASSUME NEW c \in Conns
      PROVE  IsPut(c)' = IsPut(c) /\ Extends(sent[c], sent'[c])
  <2>1. Extends(sent[c], sent'[c])
    <3>1. PICK more : IsSequence(more) /\ sent'[c] = sent[c] \o more
      BY ServerSpeaks DEF Speaks
    <3> QED
      BY <3>1, ClientFields, SpokenExtends
  <2> QED
    BY <1>1, <2>1, SamePlan
<1>3. ASSUME NEW c \in Conns, stage'[c] \notin {"copying", "end"}
      PROVE  Free(c)'
  <2>1. CASE ServerMoves
    BY <1>3, <2>1 DEF ServerMoves, clientVars, FailedInv, Free, Part
  <2> QED
    BY <1>3, <2>1, FreeStays
<1>4. ASSUME NEW c \in Conns, ~IsPut(c), status'[c] = "failed"
      PROVE  \/ Len(sent'[c]) >= 1 /\ sent'[c][1].kind # "ok"
             \/ socket'[c] = "closed" /\ sent'[c] \notin Downloads(Asked(c).filename)'
  <2>1. CASE status[c] = "failed"
    BY <1>1, <1>2, <1>4, <2>1, FailureStays DEF FailedInv
  <2>2. CASE status[c] # "failed"
    <3>1. PICK e \in Conns : ClientStep(e)
      BY <1>4, <2>2 DEF ServerMoves, clientVars
    <3>2. e = c
      BY <1>4, <2>2, <3>1, StepChanges DEF ChangesOnly, ClientInv
    <3>3. \/ Len(sent[c]) >= 1 /\ sent[c][1].kind # "ok"
          \/ socket[c] = "closed" /\ sent[c] \notin Downloads(Asked(c).filename)
      BY <1>4, <2>2, <3>1, <3>2, FailsRightly
    <3> QED
      BY <1>1, <1>2, <3>3, FailureStays
  <2> QED
    BY <2>1, <2>2
<1> QED
  BY <1>2, <1>3, <1>4 DEF FailedInv

\* A GET fails only when the server has not sent it the whole file: no close of the
\* server cuts off what it sent before.
THEOREM WhatIsSentIsDownloaded == LocalsFree => (SystemSpec => []SentIsDownloaded)
<1> SUFFICES ASSUME LocalsFree
             PROVE  SystemSpec => []SentIsDownloaded
  OBVIOUS
<1>1. SystemInit => FailedInv
  BY DEF SystemInit, ClientInit, FailedInv, LocalsFree, Free
<1>2. IInv /\ TInv /\ SInv /\ LInv /\ ClientInv /\ RunsInv /\ FailedInv /\ Tokenised'
        /\ [SystemNext]_systemVars => FailedInv'
  <2>1. ASSUME UNCHANGED <<transportVars, clientVars>>, FailedInv
        PROVE  FailedInv'
    <3>1. \A c \in Conns : /\ Free(c)' = Free(c) /\ IsPut(c)' = IsPut(c)
                           /\ Downloads(Asked(c).filename)' = Downloads(Asked(c).filename)
      BY <2>1, DownloadsStay, SamePlan DEF transportVars, clientVars, Free, Part
    <3> QED
      BY <2>1, <3>1 DEF transportVars, clientVars, FailedInv
  <2>2. [SystemNext]_systemVars => [Next]_vars
    BY SystemStep DEF systemVars
  <2> QED
    BY <2>1, <2>2, StepIsServed, StepKeepsFailedInv
<1>3. IInv /\ FailedInv => SentIsDownloaded
  <2>1. ASSUME NEW c \in Conns, NEW n, sent[c] \in Downloads(n)
        PROVE  sent[c][1].kind = "ok"
    BY <2>1, DownloadIs
  <2> QED
    BY <2>1 DEF FailedInv, SentIsDownloaded
<1>4. SystemSpec => [](IInv /\ TInv /\ SInv /\ LInv /\ ClientInv /\ RunsInv)
  BY SystemImplementsServer, SystemImplementsServed, InvariantHolds, ConversationsHold,
     SInvHolds, AnnouncedAfterRequest, RunsHold, PTL
<1>5. IInv /\ TInv => Tokenised
  BY SentIsWellSent DEF TInv, Tokenised
<1> QED
  BY <1>1, <1>2, <1>3, <1>4, <1>5, PTL DEF SystemSpec

-----------------------------------------------------------------------------
(***************************************************************************)
(* With --delay-ms: the idle timeout cuts off no upload whose client       *)
(* sleeps for less than the timeout.  An upload that goes on as it should  *)
(* does so after every step of the server, of its own run and of another,  *)
(* and time passes only while it sleeps and the server has read all it     *)
(* sent; what its connection is idle for and what is left of its sleep are *)
(* then together no longer than one sleep.                                 *)
(***************************************************************************)
\* Until a program is held up, a step of the paced system is one of the system.
LEMMA TimelyStep ==
  ASSUME [PaceNext]_paceVars, timely'
  PROVE  timely /\ [SystemNext]_systemVars
<1>1. CASE TimePasses
  BY <1>1 DEF TimePasses, SystemNext
<1>2. CASE HeldUp
  BY <1>2 DEF HeldUp
<1>3. CASE \E c \in Conns : PacedStep(c)
  BY <1>3 DEF PacedStep, SystemNext
<1>4. CASE Unpaced(ServerAlone(Process)) \/ Unpaced(ServerAlone(Signal \/ Kill))
  BY <1>4 DEF Unpaced, ServerAlone, SystemNext
<1>5. CASE UNCHANGED paceVars
  BY <1>5 DEF paceVars
<1> QED
  BY <1>1, <1>2, <1>3, <1>4, <1>5 DEF PaceNext

\* Here a server that has ended is not started again.
LEMMA StaysDown ==
  ASSUME [PaceNext]_paceVars, pc = "down"
  PROVE  pc' = "down"
<1>1. ASSUME Process
      PROVE  FALSE
  BY <1>1 DEF Process, StartRound, PollReady, PollReturns, EndRound, ReadEvent, WriteEvent,
     AtWrite, HangUp, ErrorEvent, NoEvent, Accept, AcceptEnds, Shutdown
<1>2. CASE TimePasses
  BY <1>2 DEF TimePasses, ServerAlone, Tick, loopVars, systemVars, vars
<1>3. CASE HeldUp
  BY <1>3 DEF HeldUp, loopVars
<1>4. CASE \E c \in Conns : PacedStep(c)
  BY <1>4 DEF PacedStep, RunStep, serverVars, loopVars
<1>5. CASE Unpaced(ServerAlone(Process)) \/ Unpaced(ServerAlone(Signal \/ Kill))
  BY <1>1, <1>5 DEF Unpaced, ServerAlone, Signal, Kill
<1>6. CASE UNCHANGED paceVars
  BY <1>6 DEF paceVars, systemVars, vars, loopVars
<1> QED
  BY <1>2, <1>3, <1>4, <1>5, <1>6 DEF PaceNext

\* The request a run sends is the line the server reads.
LEMMA RequestIsLine ==
  ASSUME TypeOK, NEW c \in Conns
  PROVE  RequestEnd(c) = LineLength(c)
<1> DEFINE words == [i \in 1..Len(plan[c].line) |-> Word(plan[c].line[i])]
           W     == {words[i] : i \in 1..Len(plan[c].line)} \cup {Newline}
<1>1. Len(plan[c].line) \in Nat
  BY StreamShape
<1>2. words \in Seq(W) /\ Len(words) = Len(plan[c].line) /\ <<Newline>> \in Seq(W)
      /\ Len(<<Newline>>) = 1
  BY <1>1
<1> HIDE DEF words, W
<1>3. Len(words \o <<Newline>>) = Len(words) + 1
  BY <1>2, ConcatProperties
<1> QED
  BY <1>2, <1>3 DEF RequestEnd, RequestTokens, LineLength, words

\* What the request of an upload that fits asks for, and how long its stream is.
LEMMA FittingUpload ==
  ASSUME TypeOK, UploadsFit, NEW c \in Conns, plan[c] \in Plans[c], IsPut(c)
  PROVE  /\ Asked(c).operation = "Put" /\ Asked(c).error = "none"
         /\ Asked(c).filename \in Names \ OfKind("directory")
         /\ Asked(c).size = Announced(c) /\ Announced(c) = plan[c].payload
         /\ RequestEnd(c) = LineLength(c) /\ LineLength(c) = Len(plan[c].line) + 1
         /\ LineLength(c) \in Nat /\ plan[c].payload \in Nat /\ Len(plan[c].line) \in Nat
         /\ Len(Stream(c)) = LineLength(c) + plan[c].payload
         /\ Len(plan[c].line) <= MaxRequestLine
         /\ CutsReach(plan[c])
<1>1. /\ ParseRequest(plan[c].line) = PutRequest(plan[c].line[2], plan[c].payload)
      /\ Len(plan[c].line) <= MaxRequestLine
      /\ plan[c].line[2] \notin OfKind("directory")
      /\ CutsReach(plan[c])
  BY DEF UploadsFit, IsPut
<1>2. ParseRequest(plan[c].line) = PutRequest(plan[c].line[2], plan[c].line[3])
      /\ plan[c].line[2] \in Names
  BY <1>1 DEF ParseRequest, NoRequest, GetRequest, PutRequest, is_safe_filename
<1>3. plan[c].line[3] = plan[c].payload
  BY <1>1, <1>2 DEF PutRequest
<1> QED
  BY <1>1, <1>2, <1>3, StreamShape, RequestIsLine DEF Asked, PutRequest, Announced, LineLength

\* What the server makes of the beginning of the stream: nothing, until it has the line.
LEMMA FittingRequest ==
  ASSUME TypeOK, UploadsFit, NEW c \in Conns, plan[c] \in Plans[c], IsPut(c),
         NEW n \in Nat, n <= LineLength(c)
  PROVE  RequestIn(SubSeq(Stream(c), 1, n)) =
           IF n = LineLength(c) THEN Asked(c) ELSE NoRequest("incomplete")
<1> DEFINE buffer == SubSeq(Stream(c), 1, n)
           line   == [i \in 1..(Len(buffer) - 1) |-> buffer[i].text]
           m      == Len(plan[c].line)
           newlines == {i \in 1..Len(buffer) : buffer[i].kind = "newline"}
<1>1. /\ m \in Nat /\ LineLength(c) = m + 1 /\ m <= MaxRequestLine
      /\ \A i \in 1..m : Stream(c)[i] = Word(plan[c].line[i])
      /\ Stream(c)[m + 1] = Newline
      /\ n <= Len(Stream(c))
  <2>1. LineLength(c) \in Nat /\ plan[c].payload \in Nat
        /\ Len(Stream(c)) = LineLength(c) + plan[c].payload
    BY FittingUpload
  <2>2. n <= Len(Stream(c))
    BY <2>1
  <2> QED
    BY <2>2, StreamShape, FittingUpload DEF LineLength
<1>2. Len(buffer) = n /\ \A i \in 1..n : buffer[i] = Stream(c)[i]
  BY <1>1, StreamIsSequence, SubSeqProperties DEF IsSequence
<1>3. Newline.kind = "newline" /\ \A x : Word(x).kind = "word" /\ Word(x).text = x
  BY DEF Newline, Word
<1>4. RequestIn(buffer) =
        CASE newlines = {} /\ Len(buffer) <= MaxRequestLine -> NoRequest("incomplete")
          [] newlines = {} /\ Len(buffer) > MaxRequestLine  -> NoRequest("request-too-long")
          [] newlines # {} /\ newlines # {Len(buffer)}      -> NoRequest("bad-request")
          [] newlines # {} /\ Len(buffer) - 1 > MaxRequestLine -> NoRequest("bad-request")
          [] OTHER                                          -> ParseRequest(line)
  BY DEF RequestIn
<1>5. MaxRequestLine \in Nat
  BY Sizes
<1> HIDE DEF buffer, m
<1>6. CASE n # LineLength(c)
  <2>1. n <= m
    BY <1>1, <1>6
  <2>2. newlines = {}
    BY <1>1, <1>2, <1>3, <2>1
  <2>3. Len(buffer) <= MaxRequestLine /\ ~(Len(buffer) > MaxRequestLine)
    BY <1>1, <1>2, <1>5, <2>1
  <2> HIDE DEF newlines, line
  <2>4. RequestIn(buffer) = NoRequest("incomplete")
    BY <1>4, <2>2, <2>3
  <2> QED
    BY <1>6, <2>4 DEF buffer
<1>7. CASE n = LineLength(c)
  <2>1. newlines = {Len(buffer)}
    <3>1. \A i \in 1..n : buffer[i].kind = "newline" <=> i = n
      BY <1>1, <1>2, <1>3, <1>7
    <3> QED
      BY <1>1, <1>2, <1>7, <3>1
  <2>2. ~(Len(buffer) - 1 > MaxRequestLine)
    BY <1>1, <1>2, <1>5, <1>7
  <2>3. Len(line) = m
    BY <1>1, <1>2, <1>7
  <2>4. ASSUME NEW i \in 1..m
        PROVE  line[i] = plan[c].line[i]
    <3>1. i \in 1..n /\ i \in 1..(Len(buffer) - 1)
      BY <1>1, <1>2, <1>7
    <3>2. buffer[i] = Word(plan[c].line[i])
      BY <1>1, <1>2, <3>1
    <3> QED
      BY <1>3, <3>1, <3>2
  <2> HIDE DEF newlines, line
  <2>5. ParseRequest(line) = ParseRequest(plan[c].line)
    BY <1>1, <2>3, <2>4, SameWords DEF m
  <2>6. RequestIn(buffer) = ParseRequest(line)
    BY <1>4, <2>1, <2>2
  <2> QED
    BY <1>7, <2>5, <2>6 DEF Asked, buffer
<1> QED
  BY <1>6, <1>7

\* An upload that goes on has been told what its state at the server says.
LEMMA UploadIsServed ==
  ASSUME IInv, TInv, RunsInv, UploadsFit, NEW c \in Conns, IsPut(c), Going(c),
         socket[c] = "open"
  PROVE  /\ client[c].state = "AwaitingRequest" =>
              Requesting(c) /\ sent[c] = <<>> /\ offered[c] <= LineLength(c)
         /\ client[c].state \in {"SendingReady", "ReceivingFile"} => InUpload(c)
         /\ client[c].state = "SendingResult" =>
              sent[c] \o client[c].pending_output =
                Line(ReadyHead) \o Line(OkHead(Announced(c)))
<1>1. plan[c] \in Plans[c] /\ Conversation(c) /\ RunInv(c) /\ TypeOK
  BY DEF RunsInv, RunInv, TInv, IInv
<1>2. Asked(c).size = Announced(c) /\ RequestEnd(c) = LineLength(c) /\ LineLength(c) \in Nat
  BY <1>1, FittingUpload
<1>3. Requesting(c) \/ InUpload(c) \/ InDownload(c) \/ InReply(c)
  BY <1>1 DEF Conversation
<1>4. client[c].state = "AwaitingRequest" => Requesting(c) /\ sent[c] = <<>>
  BY <1>3 DEF Requesting, InUpload, InDownload, InReply, Uploading
<1>5. sent[c] = <<>> => offered[c] <= LineLength(c)
  <2>1. Len(<<>>) = 0 /\ offered[c] \in Nat
    BY ClientFields
  <2>2. sent[c] = <<>> => ~Invited(c)
    BY <2>1 DEF Invited
  <2>3. offered[c] > RequestEnd(c) => Invited(c)
    BY <1>1 DEF RunInv
  <2> QED
    BY <1>2, <2>1, <2>2, <2>3
<1>6. client[c].state \in {"SendingReady", "ReceivingFile"} => InUpload(c)
  BY <1>3 DEF Requesting, InDownload, InReply
<1>7. client[c].state = "SendingResult" =>
        sent[c] \o client[c].pending_output = Line(ReadyHead) \o Line(OkHead(Announced(c)))
  <2>1. client[c].state = "SendingResult" => InReply(c)
    BY <1>3 DEF Requesting, InUpload, InDownload, Uploading
  <2> QED
    BY <1>2, <2>1 DEF InReply
<1> QED
  BY <1>4, <1>5, <1>6, <1>7

\* The bytes of a request line are kept until it is complete, and then READY is queued.
LEMMA RequestGoesOn ==
  ASSUME IInv, UploadsFit, NEW c \in Conns, IsPut(c), plan[c] \in Plans[c],
         Requesting(c), offered[c] <= LineLength(c), handle_request_readable(c),
         consumed' = [consumed EXCEPT ![c] = @ + Received(c)]
  PROVE  /\ client'[c].idle = 0
         /\ client'[c].state \in {"AwaitingRequest", "SendingReady"}
         /\ client'[c].state = "AwaitingRequest" => consumed'[c] < RequestEnd(c)
<1> DEFINE buffer  == client[c].request_buffer \o Chunk(c)
           request == RequestIn(buffer)
           got     == [client[c] EXCEPT !.request_buffer = buffer, !.idle = 0]
           start   == [got EXCEPT !.request_buffer = <<>>]
           n       == consumed[c] + Received(c)
<1>1. /\ buffer = SubSeq(Stream(c), 1, n) /\ n \in Nat /\ consumed'[c] = n
  BY RequestBuffer DEF IInv, TypeOK, TransportTypeOK
<1>2. n <= LineLength(c) /\ LineLength(c) \in Nat /\ RequestEnd(c) = LineLength(c)
  <2>1. /\ Received(c) \in Nat /\ Received(c) <= Waiting(c)
        /\ consumed[c] \in Nat /\ offered[c] \in Nat
    BY ChunkIsSequence, ClientFields DEF IInv
  <2>2. LineLength(c) \in Nat /\ RequestEnd(c) = LineLength(c)
    BY FittingUpload DEF IInv
  <2> QED
    BY <2>1, <2>2 DEF Waiting
<1>3. request = IF n = LineLength(c) THEN Asked(c) ELSE NoRequest("incomplete")
  <2>1. RequestIn(SubSeq(Stream(c), 1, n)) =
          IF n = LineLength(c) THEN Asked(c) ELSE NoRequest("incomplete")
    <3> HIDE DEF n
    <3> QED
      BY <1>1, <1>2, FittingRequest DEF IInv
  <2> QED
    BY <1>1, <2>1
<1>4. Asked(c).operation = "Put" /\ Asked(c).error = "none"
  BY FittingUpload DEF IInv
<1>5. /\ DOMAIN client = Conns /\ DOMAIN client[c] = DOMAIN NewClient
      /\ client[c].state = "AwaitingRequest"
  BY DEF IInv, TypeOK, IsClient, Requesting
<1>6. /\ got.idle = 0 /\ got.state = "AwaitingRequest" /\ start.idle = 0
      /\ DOMAIN start = DOMAIN NewClient
  BY <1>5 DEF NewClient
<1>7. \/ request.error = "incomplete" /\ Update(c, got)
      \/ request.error \notin {"incomplete", "none"}
      \/ request.operation = "Get"
      \/ request.operation = "Put" /\ StartPut(c, start, request.filename, request.size)
  BY DEF handle_request_readable, note_activity
<1> HIDE DEF n, request, buffer, got, start
<1>8. CASE request.error = "incomplete" /\ Update(c, got)
  <2>1. n # LineLength(c)
    BY <1>3, <1>4, <1>8
  <2>2. consumed'[c] < RequestEnd(c)
    BY <1>1, <1>2, <2>1
  <2>3. client'[c] = got
    BY <1>5, <1>8 DEF Update
  <2> QED
    BY <1>6, <2>2, <2>3
<1>9. CASE request.operation = "Put" /\ StartPut(c, start, request.filename, request.size)
  <2> DEFINE path == TempPath(start.fd, g_upload_sequence + 1)
             file == IF path \in DOMAIN entry THEN entry[path] ELSE c
             put  == [start EXCEPT !.expected_bytes = request.size, !.transferred_bytes = 0,
                                   !.final_path = request.filename, !.temporary_path = path]
             r    == [put EXCEPT !.output_file = file, !.pending_output = Line(ReadyHead),
                                 !.state = "SendingReady"]
  <2>1. client' = [client EXCEPT ![c] = r]
    BY <1>9 DEF StartPut, UploadsFit
  <2>2. r.idle = 0 /\ r.state = "SendingReady"
    BY <1>6 DEF NewClient
  <2> HIDE DEF r
  <2>3. client'[c] = r
    BY <1>5, <2>1
  <2> QED
    BY <2>2, <2>3
<1>10. request.error \in {"incomplete", "none"} /\ request.operation # "Get"
  BY <1>3, <1>4 DEF NoRequest
<1> QED
  BY <1>7, <1>8, <1>9, <1>10

\* The rename of a fitting upload works: its name is no directory.
LEMMA RenameWorks ==
  ASSUME TypeOK, UploadsFit, RootInv, NEW c \in Conns, IsPut(c), plan[c] \in Plans[c],
         NEW r, r.final_path = Asked(c).filename
  PROVE  ~RenameFails(r)
<1>1. Asked(c).filename \in Names \ OfKind("directory")
  BY FittingUpload
<1>2. OfKind("directory") \subseteq Names
  BY NamesApart DEF OfKind
<1>3. Asked(c).filename \in DOMAIN entry =>
        entry[Asked(c).filename] \in {Asked(c).filename} \cup Conns
  BY <1>1 DEF RootInv
<1> QED
  BY <1>1, <1>2, <1>3, NamesApart DEF RenameFails, IsDirectory

\* complete_upload of such an upload queues OK.
LEMMA CompletesWell ==
  ASSUME TypeOK, UploadsFit, RootInv, NEW c \in Conns, IsPut(c), plan[c] \in Plans[c],
         NEW r, DOMAIN r = DOMAIN NewClient, r.final_path = Asked(c).filename,
         CompleteUpload(c, r)
  PROVE  /\ client'[c].state = "SendingResult" /\ client'[c].idle = r.idle
         /\ client'[c].pending_output = Line(OkHead(r.expected_bytes))
<1> DEFINE e == [r EXCEPT !.output_file = None, !.temporary_path = None,
                          !.pending_output = Line(OkHead(r.expected_bytes)),
                          !.state = "SendingResult"]
<1>1. client' = [client EXCEPT ![c] = e]
  BY RenameWorks DEF CompleteUpload, UploadsFit
<1>2. e.state = "SendingResult" /\ e.idle = r.idle
      /\ e.pending_output = Line(OkHead(r.expected_bytes))
  BY DEF NewClient
<1> HIDE DEF e
<1>3. client'[c] = e
  BY <1>1 DEF TypeOK
<1> QED
  BY <1>2, <1>3

\* What the server does with bytes of such an upload: it never gets more of them than
\* were announced, and answers when it has them all.
LEMMA UploadGoesOn ==
  ASSUME IInv, UploadsFit, RootInv, NEW c \in Conns, IsPut(c), plan[c] \in Plans[c],
         InUpload(c), handle_upload_readable(c), Waiting(c) > 0,
         consumed' = [consumed EXCEPT ![c] = @ + Received(c)]
  PROVE  /\ client'[c].idle = 0
         /\ client'[c].state \in {"ReceivingFile", "SendingResult"}
         /\ client'[c].state = "ReceivingFile" =>
              client'[c].transferred_bytes < client'[c].expected_bytes
         /\ client'[c].state = "SendingResult" =>
              client'[c].pending_output # <<>> /\ consumed'[c] = Len(Stream(c))
<1> DEFINE cl       == client[c]
           accepted == Accepted(c)
           got      == [cl EXCEPT !.idle = 0]
           wrote    == [got EXCEPT !.transferred_bytes = @ + accepted]
           n        == Received(c)
           t        == cl.transferred_bytes
           size     == cl.expected_bytes
           k        == LineLength(c)
<1>1. TypeOK /\ DOMAIN client = Conns /\ IsClient(cl) /\ cl.state = "ReceivingFile"
      /\ cl.final_path = Asked(c).filename /\ size = plan[c].payload
      /\ consumed[c] = k + t
  BY FittingUpload DEF IInv, TypeOK, InUpload, handle_upload_readable
<1>2. /\ n \in Nat /\ t \in Nat /\ k \in Nat /\ size \in Nat /\ t <= size
      /\ consumed'[c] = k + t + n /\ k + t + n <= k + size
      /\ Len(Stream(c)) = k + size
  <2>1. /\ n \in Nat /\ n <= Waiting(c) /\ t \in Nat /\ t <= size
        /\ offered[c] \in Nat /\ consumed[c] \in Nat /\ offered[c] <= Len(Stream(c))
    BY ChunkIsSequence, ClientFields DEF IInv
  <2>2. k \in Nat /\ size \in Nat /\ Len(Stream(c)) = k + size
    BY <1>1, FittingUpload
  <2>3. consumed'[c] = consumed[c] + n
    BY DEF IInv, TypeOK, TransportTypeOK
  <2> QED
    BY <1>1, <2>1, <2>2, <2>3 DEF Waiting
<1>3. accepted = n
  <2>1. accepted = Least(size - t, n)
    BY DEF Accepted
  <2> HIDE DEF accepted, size, t, n, k
  <2>2. n <= size - t
    BY <1>2
  <2> QED
    BY <1>2, <2>1, <2>2 DEF Least
<1>4. /\ DOMAIN wrote = DOMAIN NewClient /\ wrote.final_path = Asked(c).filename
      /\ wrote.idle = 0 /\ wrote.state = "ReceivingFile" /\ wrote.expected_bytes = size
      /\ wrote.transferred_bytes = t + n
  <2>1. /\ DOMAIN got = DOMAIN NewClient /\ got.final_path = Asked(c).filename
        /\ got.idle = 0 /\ got.state = "ReceivingFile" /\ got.expected_bytes = size
        /\ got.transferred_bytes = t
    BY <1>1 DEF IsClient, NewClient
  <2> HIDE DEF got, accepted
  <2> QED
    BY <1>3, <2>1 DEF NewClient
<1>5. \/ CompleteUpload(c, wrote) /\ wrote.transferred_bytes = size
      \/ Update(c, wrote) /\ wrote.transferred_bytes # size
  BY <1>3 DEF handle_upload_readable, note_activity, UploadsFit
<1> HIDE DEF wrote, got, accepted
<1>6. CASE CompleteUpload(c, wrote) /\ wrote.transferred_bytes = size
  <2>1. client'[c].state = "SendingResult" /\ client'[c].idle = 0
        /\ client'[c].pending_output = Line(OkHead(wrote.expected_bytes))
    BY <1>1, <1>4, <1>6, CompletesWell
  <2>2. client'[c].pending_output # <<>>
    BY <2>1 DEF Line
  <2>3. consumed'[c] = Len(Stream(c))
    <3> HIDE DEF n, t, size, k
    <3> QED
      BY <1>2, <1>4, <1>6
  <2> QED
    BY <2>1, <2>2, <2>3
<1>7. CASE Update(c, wrote) /\ wrote.transferred_bytes # size
  <2>1. client'[c] = wrote
    BY <1>1, <1>7 DEF Update
  <2>2. wrote.transferred_bytes < size
    <3> HIDE DEF n, t, size, k
    <3> QED
      BY <1>2, <1>4, <1>7
  <2> QED
    BY <1>4, <2>1, <2>2
<1> QED
  BY <1>5, <1>6, <1>7

\* The struct and the wire after a send of what is pending.
LEMMA AfterFlushIs ==
  ASSUME IInv, NEW c \in Conns, SendPending(c)
  PROVE  LET flushed == AfterFlush(c) IN
         /\ flushed.idle \in {0, client[c].idle} /\ flushed.state = client[c].state
         /\ flushed.expected_bytes = client[c].expected_bytes
         /\ flushed.transferred_bytes = client[c].transferred_bytes
         /\ flushed.final_path = client[c].final_path
         /\ DOMAIN flushed = DOMAIN NewClient
         /\ ~Drained(c) => flushed.pending_output # <<>>
         /\ Drained(c) => sent'[c] = sent[c] \o client[c].pending_output
<1> DEFINE flushed == AfterFlush(c)
           buffer  == client[c].pending_output
           n       == Flushed(c)
<1>1. /\ flushed.pending_output = SubSeq(buffer, n + 1, Len(buffer))
      /\ flushed.state = client[c].state
      /\ flushed.final_path = client[c].final_path
      /\ flushed.transferred_bytes = client[c].transferred_bytes
      /\ flushed.expected_bytes = client[c].expected_bytes
      /\ flushed.idle \in {0, client[c].idle}
      /\ DOMAIN flushed = DOMAIN NewClient
  <2>1. IsClient(client[c])
    BY DEF IInv, TypeOK
  <2> QED
    BY <2>1 DEF AfterFlush, IsClient, NewClient, note_activity
<1>2. Drained(c) <=> n = Len(buffer)
  BY DEF Drained
<1>3. /\ n \in Nat /\ n <= Len(buffer) /\ Len(buffer) \in Nat
      /\ Len(SubSeq(buffer, n + 1, Len(buffer))) = Len(buffer) - n
  BY ClientFields, Sending DEF Flushed
<1>4. Drained(c) => sent'[c] = sent[c] \o buffer
  BY FlushDone
<1> HIDE DEF n, buffer, flushed
<1>5. ~Drained(c) => flushed.pending_output # <<>>
  <2>1. ~Drained(c) => Len(flushed.pending_output) > 0
    BY <1>1, <1>2, <1>3
  <2> QED
    BY <2>1, SequenceLines
<1> QED
  BY <1>1, <1>4, <1>5 DEF flushed, buffer

\* READY on its way: the upload is awaited next, or is complete if it has no bytes.
LEMMA ReadyGoesOn ==
  ASSUME IInv, UploadsFit, RootInv, NEW c \in Conns, IsPut(c), plan[c] \in Plans[c],
         InUpload(c), WriteReady(c), UNCHANGED consumed
  PROVE  /\ client'[c].idle \in {0, client[c].idle}
         /\ client'[c].state \in {"SendingReady", "ReceivingFile", "SendingResult"}
         /\ client'[c].state = "ReceivingFile" =>
              client'[c].transferred_bytes < client'[c].expected_bytes
         /\ client'[c].state \in {"SendingReady", "SendingResult"} =>
              client'[c].pending_output # <<>>
         /\ client'[c].state = "SendingResult" => consumed'[c] = Len(Stream(c))
         /\ UNCHANGED socket
<1> DEFINE flushed == AfterFlush(c)
           size    == client[c].expected_bytes
           asked   == [flushed EXCEPT !.state = "ReceivingFile"]
<1>1. TypeOK /\ DOMAIN client = Conns /\ client[c].state = "SendingReady" /\ SendPending(c)
      /\ client[c].final_path = Asked(c).filename /\ size = plan[c].payload
      /\ client[c].transferred_bytes = 0 /\ consumed[c] = LineLength(c) + 0
      /\ size \in Nat /\ LineLength(c) \in Nat /\ Len(Stream(c)) = LineLength(c) + size
  BY FittingUpload DEF IInv, TypeOK, InUpload, WriteReady
<1>2. /\ flushed.idle \in {0, client[c].idle} /\ flushed.state = client[c].state
      /\ flushed.expected_bytes = client[c].expected_bytes
      /\ flushed.transferred_bytes = client[c].transferred_bytes
      /\ flushed.final_path = client[c].final_path
      /\ DOMAIN flushed = DOMAIN NewClient
      /\ ~Drained(c) => flushed.pending_output # <<>>
  BY <1>1, AfterFlushIs
<1>3. /\ UNCHANGED socket
      /\ \/ ~Drained(c) /\ Update(c, flushed)
         \/ Drained(c) /\ size = 0 /\ CompleteUpload(c, flushed)
         \/ Drained(c) /\ size # 0 /\ Update(c, asked)
  BY DEF WriteReady
<1> HIDE DEF flushed
<1>4. CASE ~Drained(c) /\ Update(c, flushed)
  <2>1. client'[c] = flushed
    BY <1>1, <1>4 DEF Update
  <2> QED
    BY <1>1, <1>2, <1>3, <1>4, <2>1
<1>5. CASE Drained(c) /\ size = 0 /\ CompleteUpload(c, flushed)
  <2>1. client'[c].state = "SendingResult" /\ client'[c].idle = flushed.idle
        /\ client'[c].pending_output = Line(OkHead(flushed.expected_bytes))
    BY <1>1, <1>2, <1>5, CompletesWell
  <2>2. client'[c].pending_output # <<>>
    BY <2>1 DEF Line
  <2>3. consumed'[c] = Len(Stream(c))
    <3> HIDE DEF size
    <3> QED
      BY <1>1, <1>5
  <2> QED
    BY <1>2, <1>3, <2>1, <2>2, <2>3
<1>6. CASE Drained(c) /\ size # 0 /\ Update(c, asked)
  <2>1. /\ asked.state = "ReceivingFile" /\ asked.idle = flushed.idle
        /\ asked.transferred_bytes = 0 /\ asked.expected_bytes = size
    BY <1>1, <1>2 DEF NewClient
  <2> HIDE DEF asked
  <2>2. client'[c] = asked
    BY <1>1, <1>6 DEF Update
  <2>3. 0 < size
    BY <1>1, <1>6
  <2> QED
    BY <1>2, <1>3, <2>1, <2>2, <2>3
<1> QED
  BY <1>3, <1>4, <1>5, <1>6

\* OK on its way: the connection is closed when all of it has been sent.
LEMMA ReplyGoesOn ==
  ASSUME IInv, NEW c \in Conns, client[c].state = "SendingResult", WriteReply(c),
         sent[c] \o client[c].pending_output =
           Line(ReadyHead) \o Line(OkHead(Announced(c)))
  PROVE  \/ /\ UNCHANGED socket
            /\ client'[c].idle \in {0, client[c].idle}
            /\ client'[c].state = "SendingResult" /\ client'[c].pending_output # <<>>
         \/ /\ socket'[c] = "closed"
            /\ sent'[c] = Line(ReadyHead) \o Line(OkHead(Announced(c)))
<1> DEFINE flushed == AfterFlush(c)
<1>1. /\ flushed.idle \in {0, client[c].idle} /\ flushed.state = "SendingResult"
      /\ ~Drained(c) => flushed.pending_output # <<>>
      /\ Drained(c) => sent'[c] = sent[c] \o client[c].pending_output
  BY AfterFlushIs DEF WriteReply
<1>2. \/ Drained(c) /\ Fail(c)
      \/ ~Drained(c) /\ Update(c, flushed) /\ UNCHANGED socket
  BY DEF WriteReply
<1> HIDE DEF flushed
<1>3. CASE Drained(c) /\ Fail(c)
  <2>1. socket'[c] = "closed"
    BY <1>3, FailDone
  <2> QED
    BY <1>1, <1>3, <2>1
<1>4. CASE ~Drained(c) /\ Update(c, flushed) /\ UNCHANGED socket
  <2>1. client'[c] = flushed
    BY <1>4 DEF Update, IInv, TypeOK
  <2> QED
    BY <1>1, <1>4, <2>1
<1> QED
  BY <1>2, <1>3, <1>4

\* What a step of the server may do to an upload that goes on as it should.
Moved(c) ==
  \/ UNCHANGED <<socket[c], client[c], sent[c], consumed[c]>>
  \/ /\ socket[c] = "queued" /\ socket'[c] = "open"
     /\ client'[c].state = "AwaitingRequest" /\ client'[c].idle = 0
     /\ UNCHANGED <<sent[c], consumed[c]>>
  \/ /\ socket[c] = "open" /\ socket'[c] = "open" /\ Attended(c)'
     /\ \/ client'[c].idle = 0
        \/ client'[c].idle = client[c].idle /\ consumed'[c] = consumed[c]
  \/ /\ socket[c] = "open" /\ socket'[c] = "closed"
     /\ sent'[c] = Line(ReadyHead) \o Line(OkHead(Announced(c)))
     /\ consumed'[c] = Len(Stream(c))

\* What the remote names link stays of a kind that can be replaced.
LEMMA RootStays ==
  ASSUME IInv, TInv, SInv, RootInv, [Next]_vars
  PROVE  RootInv'
<1>1. CASE NamesKept
  BY <1>1 DEF NamesKept, RootInv
<1>2. ASSUME NEW d \in Conns, CompletesUpload(d)
      PROVE  RootInv'
  <2>1. client[d].output_file \in Conns
    <3>1. client[d].output_file # None
      BY <1>2 DEF CompletesUpload, IInv, Ownership
    <3> QED
      BY <3>1, UploadIsApart DEF SInv
  <2> QED
    BY <1>2, <2>1 DEF CompletesUpload, RootInv
<1> QED
  BY <1>1, <1>2, StepDone DEF TInv, Serves, Together

\* There is room for a connection that waits in the queue.
LEMMA RoomForOne ==
  ASSUME IInv, UploadsFit, pc = "accept", backlog # <<>>
  PROVE  ~Full
<1> DEFINE c == Head(backlog)
           N == 1..Len(clients)
<1>1. /\ c \in Conns /\ socket[c] = "queued"
  <2>1. 1 \in DOMAIN backlog /\ c = backlog[1]
    BY DEF IInv, Connections
  <2> QED
    BY <2>1 DEF IInv, Connections
<1>2. /\ clients \in Seq(Conns)
      /\ \A i, j \in DOMAIN clients : clients[i] = clients[j] => i = j
      /\ \A i \in DOMAIN clients : clients[i] \in Conns /\ socket[clients[i]] = "open"
  BY DEF IInv, TypeOK, Connections, ConnectionsAccounted
<1> HIDE DEF c
<1>3. clients \in Injection(N, Conns \ {c})
  <2>1. clients \in [N -> Conns \ {c}]
    <3>1. DOMAIN clients = N /\ clients \in [N -> Conns]
      BY <1>2
    <3> QED
      BY <1>1, <1>2, <3>1
  <2> QED
    BY <1>2, <2>1 DEF Injection, IsInjective
<1>4. IsFiniteSet(Conns \ {c}) /\ Cardinality(Conns \ {c}) = Cardinality(Conns) - 1
      /\ Cardinality(Conns) \in Nat /\ Cardinality(Conns) <= MaxClients
  BY <1>1, FS_RemoveElement, FS_CardinalityType DEF UploadsFit
<1>5. Cardinality(N) <= Cardinality(Conns \ {c})
  BY <1>3, <1>4, FS_Injection
<1>6. Cardinality(N) = Len(clients) /\ Len(clients) \in Nat
  <2>1. Len(clients) \in Nat
    BY <1>2
  <2>2. Cardinality(1..Len(clients)) = IF 1 > Len(clients) THEN 0 ELSE Len(clients) - 1 + 1
    BY <2>1, 1 \in Int, Len(clients) \in Int, FS_Interval
  <2> QED
    BY <2>1, <2>2
<1> HIDE DEF N
<1> QED
  BY <1>4, <1>5, <1>6, ServerConstants DEF Full

\* The read half takes the request line, or bytes of the file.
LEMMA ReadMoves ==
  ASSUME IInv, TInv, RunsInv, UploadsFit, RootInv, NEW c \in Conns, IsPut(c), Going(c),
         ReadEvent(c)
  PROVE  Moved(c)
<1>1. AtClient(c) /\ UNCHANGED <<plan, sent>>
  BY DEF ReadEvent, AtClient, InRound
<1>2. socket[c] = "open" /\ peer[c] = "open" /\ plan[c] \in Plans[c]
  BY <1>1, CurrentIsLive DEF IInv, Going, RunsInv, RunInv
<1>3. /\ consumed' = [consumed EXCEPT ![c] = @ + Received(c)] /\ UNCHANGED socket
      /\ handle_request_readable(c) \/ handle_upload_readable(c)
      /\ Waiting(c) > 0
  BY <1>2 DEF ReadEvent, ReceiveEnds, ReceiveData
<1>4. Stream(c)' = Stream(c) /\ RequestEnd(c)' = RequestEnd(c)
  BY <1>1, PlanStays, SamePlan
<1>5. CASE handle_request_readable(c)
  <2>1. Requesting(c) /\ offered[c] <= LineLength(c)
    BY <1>2, <1>5, UploadIsServed DEF handle_request_readable
  <2>2. /\ client'[c].idle = 0
        /\ client'[c].state \in {"AwaitingRequest", "SendingReady"}
        /\ client'[c].state = "AwaitingRequest" => consumed'[c] < RequestEnd(c)
    BY <1>2, <1>3, <1>5, <2>1, RequestGoesOn
  <2>3. client'[c].state = "SendingReady" => client'[c].pending_output # <<>>
    <3>1. Waits(c) \/ Refuses(c) \/ BeginsDownload(c) \/ BeginsUpload(c)
      BY <1>1, <1>2, <1>3, <1>5, <2>1, RequestDone
    <3>2. client'[c].state = "SendingReady" => client'[c].pending_output = Line(ReadyHead)
      BY <3>1 DEF Waits, Refuses, BeginsDownload, BeginsUpload, Turns
    <3> QED
      BY <3>2 DEF Line
  <2> QED
    BY <1>2, <1>3, <1>4, <2>2, <2>3 DEF Moved, Attended
<1>6. CASE handle_upload_readable(c)
  <2>1. InUpload(c)
    BY <1>2, <1>6, UploadIsServed DEF handle_upload_readable
  <2>2. /\ client'[c].idle = 0
        /\ client'[c].state \in {"ReceivingFile", "SendingResult"}
        /\ client'[c].state = "ReceivingFile" =>
             client'[c].transferred_bytes < client'[c].expected_bytes
        /\ client'[c].state = "SendingResult" =>
             client'[c].pending_output # <<>> /\ consumed'[c] = Len(Stream(c))
    BY <1>2, <1>3, <1>6, <2>1, UploadGoesOn
  <2> QED
    BY <1>2, <1>3, <1>4, <2>2 DEF Moved, Attended
<1> QED
  BY <1>3, <1>5, <1>6

\* The write half sends READY or OK, or a part of it.
LEMMA WriteMoves ==
  ASSUME IInv, TInv, RunsInv, UploadsFit, RootInv, NEW c \in Conns, IsPut(c), Going(c),
         WriteEvent(c)
  PROVE  Moved(c)
<1>1. AtClient(c) /\ UNCHANGED <<plan, consumed>>
  BY DEF WriteEvent, AtClient, AtWrite, InRound
<1>2. socket[c] = "open" /\ peer[c] = "open" /\ plan[c] \in Plans[c] /\ Attended(c)
  BY <1>1, CurrentIsLive DEF IInv, Going, RunsInv, RunInv
<1>3. WriteReady(c) \/ (WriteReply(c) /\ client[c].state = "SendingResult")
  BY <1>2 DEF WriteEvent, WriteGetHeader, WriteReply, WriteFile, Attended
<1>4. Stream(c)' = Stream(c) /\ RequestEnd(c)' = RequestEnd(c)
  BY <1>1, PlanStays, SamePlan
<1>5. CASE WriteReady(c)
  <2>1. InUpload(c)
    BY <1>2, <1>5, UploadIsServed DEF WriteReady
  <2>2. /\ client'[c].idle \in {0, client[c].idle}
        /\ client'[c].state \in {"SendingReady", "ReceivingFile", "SendingResult"}
        /\ client'[c].state = "ReceivingFile" =>
             client'[c].transferred_bytes < client'[c].expected_bytes
        /\ client'[c].state \in {"SendingReady", "SendingResult"} =>
             client'[c].pending_output # <<>>
        /\ client'[c].state = "SendingResult" => consumed'[c] = Len(Stream(c))
        /\ UNCHANGED socket
    BY <1>1, <1>2, <1>5, <2>1, ReadyGoesOn
  <2> QED
    BY <1>1, <1>2, <1>4, <2>2 DEF Moved, Attended
<1>6. CASE WriteReply(c) /\ client[c].state = "SendingResult"
  <2>1. sent[c] \o client[c].pending_output =
          Line(ReadyHead) \o Line(OkHead(Announced(c)))
    BY <1>2, <1>6, UploadIsServed
  <2>2. \/ /\ UNCHANGED socket
           /\ client'[c].idle \in {0, client[c].idle}
           /\ client'[c].state = "SendingResult" /\ client'[c].pending_output # <<>>
        \/ /\ socket'[c] = "closed"
           /\ sent'[c] = Line(ReadyHead) \o Line(OkHead(Announced(c)))
    BY <1>6, <2>1, ReplyGoesOn
  <2>3. consumed[c] = Len(Stream(c))
    BY <1>2, <1>6 DEF Attended
  <2> QED
    BY <1>1, <1>2, <1>4, <2>2, <2>3 DEF Moved, Attended
<1> QED
  BY <1>3, <1>5, <1>6

\* The connection of an upload that goes on is not hung up, is not in error and is never
\* expired.
LEMMA NotHungUp ==
  ASSUME IInv, TInv, NEW c \in Conns, peer[c] = "open"
  PROVE  ~HangUp(c) /\ ~ErrorEvent(c)
<1>1. ASSUME Current(c)
      PROVE  "HUP" \notin revents /\ "ERR" \notin revents /\ pc \notin {"write", "hangup"}
  <2>1. index \in DOMAIN poll_fds /\ clients[index] = c
    BY <1>1 DEF Current
  <2> QED
    BY <2>1 DEF TInv, Polled, revents
<1>2. ASSUME Current(c), pc = "dispatch", AtWrite, NeedsRead(client[c].state)
      PROVE  FALSE
  <2>1. index \in DOMAIN poll_fds
    BY <1>2 DEF Current
  <2>2. revents # {} /\ revents \subseteq {"OUT"}
    <3>1. revents \subseteq Reports
      BY <2>1 DEF IInv, TypeOK, revents
    <3> QED
      BY <1>1, <1>2, <3>1 DEF AtWrite, Reports
  <2>3. poll_fds[index].events = "OUT"
    BY <2>1, <2>2 DEF TInv, Polled, revents
  <2>4. poll_fds[index].events = requested_events(c)
    BY <1>2, DispatchedAsAsked
  <2> QED
    BY <1>2, <2>3, <2>4 DEF requested_events
<1> QED
  BY <1>1, <1>2 DEF HangUp, ErrorEvent, AtWrite

\* It is never idle for long enough to expire.
LEMMA NotExpired ==
  ASSUME IInv, NEW c \in Conns, Going(c), Delay < IdleTimeout
  PROVE  ~Expired(c)
<1>1. client[c].idle \in Nat /\ Delay \in Nat /\ IdleTimeout \in Nat
  BY PaceConstant, ServerConstants DEF IInv, TypeOK, IsClient
<1>2. CASE socket[c] = "open"
  <2>1. client[c].idle <= Delay + 1
    BY <1>2 DEF Going, InTime
  <2> QED
    BY <1>1, <2>1 DEF Expired
<1>3. CASE socket[c] # "open"
  <2>1. client[c].idle = 0
    BY <1>3, NotLiveIsNew DEF NewClient
  <2> QED
    BY <1>1, <2>1 DEF Expired
<1> QED
  BY <1>2, <1>3

\* Every step of the server leaves an upload as it was, or moves it on.
LEMMA ServerMovesOn ==
  ASSUME IInv, TInv, RunsInv, UploadsFit, RootInv, Delay < IdleTimeout,
         Process, pc' # "down", NEW c \in Conns, IsPut(c), Going(c)
  PROVE  Moved(c)
<1>1. Conversation(c) /\ peer[c] = "open"
  BY DEF TInv, Going
<1>2. CASE StartRound
  <2> DEFINE S == {d \in ToSet(clients) : Expired(d)}
  <2>1. CloseClients(S) /\ UNCHANGED <<sent, consumed>> /\ S \in SUBSET Conns
    BY <1>2 DEF StartRound, IInv, TypeOK, ToSet
  <2>2. c \notin S
    BY NotExpired
  <2> HIDE DEF S
  <2>3. client'[c] = client[c] /\ socket'[c] = socket[c]
    BY <2>1, <2>2, ClosedNames
  <2> QED
    BY <2>1, <2>3 DEF Moved
<1>3. CASE PollReady \/ PollReturns \/ EndRound \/ AcceptEnds
           \/ \E d \in Conns : NoEvent(d)
  BY <1>3 DEF PollReady, PollReturns, EndRound, AcceptEnds, NoEvent, transportVars, Moved
<1>4. ASSUME NEW d \in Conns \ {c}, Only(d)
      PROVE  Moved(c)
  BY <1>4 DEF Only, Moved
<1>5. ASSUME NEW d \in Conns, ReadEvent(d)
      PROVE  Moved(c)
  <2>1. Conversation(d)
    BY DEF TInv
  <2> QED
    BY <1>4, <1>5, <2>1, ReadMoves, ReadEventDone
<1>6. ASSUME NEW d \in Conns, WriteEvent(d)
      PROVE  Moved(c)
  <2>1. Conversation(d)
    BY DEF TInv
  <2> QED
    BY <1>4, <1>6, <2>1, WriteMoves, WriteEventDone
<1>7. ASSUME NEW d \in Conns, HangUp(d) \/ ErrorEvent(d)
      PROVE  Moved(c)
  <2>1. d # c
    BY <1>1, <1>7, NotHungUp
  <2>2. AtClient(d) /\ UNCHANGED <<plan, sent, consumed>>
    BY <1>7 DEF HangUp, ErrorEvent, AtClient, AtWrite, InRound
  <2>3. CASE Fail(d)
    BY <1>4, <2>1, <2>2, <2>3, FailEffect
  <2>4. CASE UNCHANGED <<client, socket>>
    BY <2>2, <2>4 DEF Moved
  <2> QED
    BY <1>7, <2>3, <2>4 DEF HangUp, ErrorEvent
<1>8. CASE Accept
  <2> DEFINE d == Head(backlog)
  <2>1. pc = "accept" /\ backlog # <<>> /\ UNCHANGED <<sent, consumed>>
    BY <1>8 DEF Accept
  <2>2. d \in Conns /\ socket[d] = "queued"
    <3>1. 1 \in DOMAIN backlog /\ d = backlog[1]
      BY <2>1 DEF IInv, Connections
    <3> QED
      BY <3>1 DEF IInv, Connections
  <2>3. PICK fd \in FreeFds : /\ socket' = [socket EXCEPT ![d] = "open"]
                              /\ client' = [client EXCEPT ![d] = [NewClient EXCEPT !.fd = fd]]
    BY <1>8, <2>1, RoomForOne DEF Accept, UploadsFit
  <2> DEFINE new == [NewClient EXCEPT !.fd = fd]
  <2>4. new.state = "AwaitingRequest" /\ new.idle = 0 /\ client' = [client EXCEPT ![d] = new]
    BY <2>3 DEF NewClient
  <2> HIDE DEF d, new
  <2>5. DOMAIN client = Conns /\ DOMAIN socket = Conns
    BY DEF IInv, TypeOK, TransportTypeOK
  <2>6. CASE c = d
    BY <2>1, <2>2, <2>3, <2>4, <2>5, <2>6 DEF Moved
  <2>7. CASE c # d
    BY <2>1, <2>2, <2>3, <2>4, <2>5, <2>7 DEF Moved
  <2> QED
    BY <2>6, <2>7
<1>9. CASE Shutdown
  BY <1>9 DEF Shutdown, ProcessEnds
<1> QED
  BY <1>2, <1>3, <1>5, <1>6, <1>7, <1>8, <1>9 DEF Process

\* An upload that the server left as it was, or moved on, still goes on.
LEMMA MovedGoesOn ==
  ASSUME IInv, TInv, RunsInv, UploadsFit, NEW c \in Conns, IsPut(c), Going(c), Moved(c),
         UNCHANGED <<plan, offered, taken, peer, stage, received, nap>>
  PROVE  Going(c)'
<1>1. /\ RequestEnd(c)' = RequestEnd(c) /\ Stream(c)' = Stream(c)
      /\ Announced(c)' = Announced(c)
  BY SamePlan, PlanStays
<1>2. /\ offered'[c] = offered[c] /\ taken'[c] = taken[c] /\ peer'[c] = peer[c]
      /\ stage'[c] = stage[c] /\ received'[c] = received[c] /\ nap'[c] = nap[c]
  OBVIOUS
<1>3. Delay \in Nat /\ nap[c] \in 0..(Delay + 1)
  BY PaceConstant DEF Going
<1>4. ASSUME UNCHANGED <<socket[c], client[c], sent[c], consumed[c]>>
      PROVE  Going(c)'
  <2>1. Attended(c)' = Attended(c)
    BY <1>1, <1>4 DEF Attended
  <2>2. InTime(c)' = InTime(c)
    BY <1>2, <1>4 DEF InTime, Waiting
  <2> QED
    BY <1>1, <1>2, <1>4, <2>1, <2>2 DEF Going
<1>5. ASSUME client'[c].idle = 0 \/ (client'[c].idle = client[c].idle /\ consumed'[c] = consumed[c]
                                     /\ InTime(c))
      PROVE  InTime(c)'
  BY <1>2, <1>3, <1>5 DEF InTime, Waiting
<1>6. ASSUME socket[c] = "queued", socket'[c] = "open",
             client'[c].state = "AwaitingRequest", client'[c].idle = 0,
             UNCHANGED <<sent[c], consumed[c]>>
      PROVE  Going(c)'
  <2>1. consumed[c] = 0 /\ sent[c] = <<>>
    BY <1>6 DEF TInv, Conversation
  <2>2. taken[c] = received[c]
    <3>1. taken[c] \in Nat /\ taken[c] <= Len(sent[c]) /\ received[c] \in 0..Len(sent[c])
      BY DEF IInv, TypeOK, TransportTypeOK, Buffers, RunsInv, RunInv
    <3> QED
      BY <2>1, <3>1, SequenceLines
  <2>3. consumed'[c] < RequestEnd(c)
    <3>1. RequestEnd(c) = LineLength(c) /\ LineLength(c) = Len(plan[c].line) + 1
          /\ Len(plan[c].line) \in Nat
      BY FittingUpload DEF IInv, RunsInv, RunInv
    <3>2. consumed'[c] = 0
      BY <1>6, <2>1
    <3> QED
      BY <3>1, <3>2
  <2>4. Attended(c)'
    BY <1>1, <1>6, <2>3 DEF Attended
  <2> QED
    BY <1>1, <1>2, <1>5, <1>6, <2>2, <2>4 DEF Going
<1>7. ASSUME socket[c] = "open", socket'[c] = "open", Attended(c)',
             \/ client'[c].idle = 0
             \/ client'[c].idle = client[c].idle /\ consumed'[c] = consumed[c]
      PROVE  Going(c)'
  <2>1. InTime(c)' /\ taken[c] = received[c]
    BY <1>5, <1>7 DEF Going
  <2> QED
    BY <1>1, <1>2, <1>7, <2>1 DEF Going
<1>8. ASSUME socket[c] = "open", socket'[c] = "closed",
             sent'[c] = Line(ReadyHead) \o Line(OkHead(Announced(c))),
             consumed'[c] = Len(Stream(c))
      PROVE  Going(c)'
  BY <1>1, <1>2, <1>8 DEF Going
<1> QED
  BY <1>4, <1>6, <1>7, <1>8 DEF Moved

\* What an upload that goes on was told is the beginning of READY and OK.
LEMMA ToldSoFar ==
  ASSUME IInv, TInv, RunsInv, UploadsFit, NEW c \in Conns, IsPut(c), Going(c)
  PROVE  /\ Len(sent[c]) \in 0..4
         /\ Len(sent[c]) >= 1 => sent[c][1] = ReadyHead
         /\ Len(sent[c]) >= 2 => sent[c][2] = Newline
         /\ Len(sent[c]) >= 3 => sent[c][3] = OkHead(Announced(c))
         /\ Len(sent[c]) >= 4 => sent[c][4] = Newline
<1> DEFINE s == sent[c]
           ready == Line(ReadyHead)
           full  == ready \o Line(OkHead(Announced(c)))
<1>1. IsSequence(ready) /\ IsSequence(full) /\ IsSequence(<<>>) /\ IsSequence(s)
  BY SequenceLines, SequenceConcat, ClientFields
<1>2. /\ Len(ready) = 2 /\ ready[1] = ReadyHead /\ ready[2] = Newline
      /\ Len(full) = 4 /\ full[1] = ReadyHead /\ full[2] = Newline
      /\ full[3] = OkHead(Announced(c)) /\ full[4] = Newline
  BY DEF Line
<1>3. socket[c] \in {"none", "queued", "open", "closed"} /\ Conversation(c)
  BY DEF IInv, TypeOK, TransportTypeOK, TInv
<1>4. s = <<>> \/ IsPrefix(s, ready) \/ IsPrefix(s, full)
  <2>1. CASE socket[c] \in {"none", "queued"}
    BY <1>3, <2>1 DEF Conversation
  <2>2. CASE socket[c] = "closed"
    <3>1. s = full
      BY <2>2 DEF Going
    <3> QED
      BY <1>1, <3>1, PrefixSame
  <2>3. CASE socket[c] = "open"
    <3>1. client[c].state \in {"AwaitingRequest", "SendingReady", "ReceivingFile", "SendingResult"}
      BY <2>3 DEF Going, Attended
    <3>2. IsSequence(client[c].pending_output)
      BY ClientFields
    <3>3. \/ s = <<>>
          \/ s \o client[c].pending_output = ready
          \/ s \o client[c].pending_output = full
      BY <2>3, <3>1, UploadIsServed DEF InUpload
    <3> HIDE DEF s, ready, full
    <3> QED
      BY <1>1, <3>2, <3>3, PrefixOfConcat
  <2> QED
    BY <1>3, <2>1, <2>2, <2>3
<1> HIDE DEF s, ready, full
<1>5. CASE s = <<>>
  BY <1>5, SequenceLines DEF s
<1>6. CASE IsPrefix(s, ready)
  <2>1. Len(s) \in Nat /\ Len(s) <= 2 /\ \A i \in 1..Len(s) : ready[i] = s[i]
    BY <1>1, <1>2, <1>6, PrefixIs
  <2>2. /\ Len(s) >= 1 => s[1] = ready[1]
        /\ Len(s) >= 2 => s[2] = ready[2]
    BY <2>1
  <2>3. /\ Len(s) \in 0..4
        /\ Len(s) >= 1 => s[1] = ReadyHead
        /\ Len(s) >= 2 => s[2] = Newline
        /\ Len(s) >= 3 => s[3] = OkHead(Announced(c))
        /\ Len(s) >= 4 => s[4] = Newline
    <3>1. Len(s) \in 0..4
      <4>1. Len(s) \in Nat /\ Len(s) <= 4
        BY <2>1
      <4>2. \A n \in Nat : n <= 4 => n \in 0..4
        OBVIOUS
      <4> QED
        BY <4>1, <4>2, Zenon
    <3>2. (Len(s) >= 1 => s[1] = ReadyHead) /\ (Len(s) >= 2 => s[2] = Newline)
      BY <1>2, <2>2
    <3>3. (Len(s) >= 3 => s[3] = OkHead(Announced(c))) /\ (Len(s) >= 4 => s[4] = Newline)
      BY <1>2, <2>1, <2>2
    <3> QED
      BY <3>1, <3>2, <3>3
  <2> QED
    BY <2>3 DEF s
<1>7. CASE IsPrefix(s, full)
  <2>1. Len(s) \in Nat /\ Len(s) <= 4 /\ \A i \in 1..Len(s) : full[i] = s[i]
    BY <1>1, <1>2, <1>7, PrefixIs
  <2>2. /\ Len(s) >= 1 => s[1] = full[1]
        /\ Len(s) >= 2 => s[2] = full[2]
        /\ Len(s) >= 3 => s[3] = full[3]
        /\ Len(s) >= 4 => s[4] = full[4]
    BY <2>1
  <2>3. /\ Len(s) \in 0..4
        /\ Len(s) >= 1 => s[1] = ReadyHead
        /\ Len(s) >= 2 => s[2] = Newline
        /\ Len(s) >= 3 => s[3] = OkHead(Announced(c))
        /\ Len(s) >= 4 => s[4] = Newline
    <3>1. Len(s) \in 0..4
      <4>1. Len(s) \in Nat /\ Len(s) <= 4
        BY <2>1
      <4>2. \A n \in Nat : n <= 4 => n \in 0..4
        OBVIOUS
      <4> QED
        BY <4>1, <4>2, Zenon
    <3>2. (Len(s) >= 1 => s[1] = ReadyHead) /\ (Len(s) >= 2 => s[2] = Newline)
      BY <1>2, <2>2
    <3>3. (Len(s) >= 3 => s[3] = OkHead(Announced(c))) /\ (Len(s) >= 4 => s[4] = Newline)
      BY <1>2, <2>1, <2>2
    <3> QED
      BY <3>1, <3>2, <3>3
  <2> QED
    BY <2>3 DEF s
<1> QED
  BY <1>4, <1>5, <1>6, <1>7

\* A line of one token that begins behind the first b tokens received.
LEMMA LineInBuffer ==
  ASSUME RunsInv, MaxResponseLine > 0, NEW c \in Conns, NEW b \in Nat, b <= received[c],
         buffered[c] = SubSeq(sent[c], b + 1, received[c]),
         Len(sent[c]) >= b + 1 => sent[c][b + 1] # Newline,
         Len(sent[c]) >= b + 2 => sent[c][b + 2] = Newline
  PROVE  /\ ~TooLong(c)
         /\ received[c] >= b + 2 => HasLine(c)
         /\ HasLine(c) => /\ Response(c) = <<sent[c][b + 1]>>
                          /\ b + 2 <= received[c]
<1> DEFINE s == sent[c]
           m == received[c]
           p == buffered[c]
           S == ToSet(s)
<1>1. s \in Seq(S) /\ m \in Nat /\ m <= Len(s) /\ b <= m /\ Len(s) \in Nat
  BY DEF RunsInv, RunInv, WellSent
<1>2. MaxResponseLine \in Nat
  BY ClientConstants
<1>3. p = SubSeq(s, b + 1, m)
  OBVIOUS
<1>4. HasLine(c) <=> \E i \in DOMAIN p : p[i] = Newline
  BY DEF HasLine
<1>5. TooLong(c) <=> ~HasLine(c) /\ Len(p) > MaxResponseLine
  BY DEF TooLong
<1>6. /\ Len(s) >= b + 1 => s[b + 1] # Newline
      /\ Len(s) >= b + 2 => s[b + 2] = Newline
  OBVIOUS
<1>7. p \in Seq(S) /\ Len(p) = m - b /\ \A i \in 1..(m - b) : p[i] = s[b + i]
  <2> HIDE DEF s, m, p, S
  <2> QED
    BY <1>1, <1>3, PartIs
<1>8. HasLine(c) => /\ LineEnd(c) \in 1..Len(p) /\ p[LineEnd(c)] = Newline
                    /\ Len(Response(c)) = LineEnd(c) - 1
                    /\ \A i \in 1..(LineEnd(c) - 1) : Response(c)[i] = p[i]
                    /\ \A i \in 1..(LineEnd(c) - 1) : p[i] # Newline
  BY <1>7, LineIs
<1>9. Response(c) = SubSeq(p, 1, LineEnd(c) - 1)
  BY DEF Response
<1> HIDE DEF s, m, p, S
<1>10. DOMAIN p = 1..(m - b)
  BY <1>1, <1>7
<1>11. m >= b + 2 => p[2] = Newline /\ 2 \in DOMAIN p
  BY <1>1, <1>6, <1>7, <1>10
<1>12. m >= b + 1 => p[1] # Newline
  BY <1>1, <1>6, <1>7
<1>13. m >= b + 2 => HasLine(c)
  BY <1>4, <1>11
<1>14. ~TooLong(c)
  BY <1>1, <1>2, <1>5, <1>7, <1>13
<1>15. HasLine(c) => LineEnd(c) = 2 /\ m >= b + 2
  <2>1. HasLine(c) => LineEnd(c) \in 1..(m - b) /\ LineEnd(c) # 1
    BY <1>1, <1>7, <1>8, <1>12
  <2>2. HasLine(c) => m >= b + 2
    BY <1>1, <2>1
  <2>3. HasLine(c) => ~(2 < LineEnd(c))
    BY <1>8, <1>11, <2>1, <2>2
  <2> QED
    BY <1>1, <2>1, <2>2, <2>3
<1>16. HasLine(c) => Response(c) = <<s[b + 1]>>
  <2>1. HasLine(c) => Len(Response(c)) = 1 /\ Response(c)[1] = s[b + 1]
    BY <1>1, <1>7, <1>8, <1>15
  <2>2. HasLine(c) => Response(c) \in Seq(S)
    <3>1. HasLine(c) => SubSeq(p, 0 + 1, 1) \in Seq(S)
      BY <1>1, <1>7, <1>15, PartIs
    <3> QED
      BY <1>9, <1>15, <3>1
  <2> QED
    BY <2>1, <2>2
<1> QED
  BY <1>13, <1>14, <1>15, <1>16 DEF s, m

\* What an upload that goes on has in its buffer where it awaits a line: no more than
\* READY, or OK behind it.
LEMMA AnswerIs ==
  ASSUME IInv, TInv, RunsInv, UploadsFit, NEW c \in Conns, IsPut(c), Going(c)
  PROVE  /\ stage[c] \in {"response", "confirm"} => ~TooLong(c)
         /\ stage[c] = "response" =>
              /\ received[c] >= 2 => HasLine(c)
              /\ HasLine(c) => Response(c) = <<ReadyHead>>
         /\ stage[c] = "confirm" =>
              /\ received[c] >= 4 => HasLine(c)
              /\ HasLine(c) => Response(c) = <<OkHead(Announced(c))>>
<1>1. /\ Len(sent[c]) >= 1 => sent[c][1] = ReadyHead
      /\ Len(sent[c]) >= 2 => sent[c][2] = Newline
      /\ Len(sent[c]) >= 3 => sent[c][3] = OkHead(Announced(c))
      /\ Len(sent[c]) >= 4 => sent[c][4] = Newline
      /\ Len(sent[c]) \in Nat
  BY ToldSoFar
<1>2. ReadyHead # Newline /\ OkHead(Announced(c)) # Newline
  BY DEF ReadyHead, OkHead, Newline
<1>3. MaxResponseLine > 0
  BY DEF UploadsFit
<1>4. received[c] \in Nat /\ received[c] <= Len(sent[c])
  BY <1>1 DEF RunsInv, RunInv
<1>5. ASSUME stage[c] = "response"
      PROVE  /\ ~TooLong(c) /\ (received[c] >= 2 => HasLine(c))
             /\ HasLine(c) => Response(c) = <<ReadyHead>>
  <2>1. buffered[c] = SubSeq(sent[c], 0 + 1, received[c])
    BY <1>5 DEF RunsInv, RunInv, Asking
  <2>2. /\ Len(sent[c]) >= 0 + 1 => sent[c][0 + 1] # Newline
        /\ Len(sent[c]) >= 0 + 2 => sent[c][0 + 2] = Newline
    BY <1>1, <1>2
  <2>3. 0 \in Nat /\ 0 <= received[c]
    BY <1>4
  <2>4. /\ ~TooLong(c)
        /\ received[c] >= 0 + 2 => HasLine(c)
        /\ HasLine(c) => Response(c) = <<sent[c][0 + 1]>> /\ 0 + 2 <= received[c]
    BY <1>3, <2>1, <2>2, <2>3, LineInBuffer, Zenon
  <2>5. HasLine(c) => sent[c][0 + 1] = ReadyHead
    BY <1>1, <1>4, <2>4
  <2> QED
    BY <1>4, <2>4, <2>5
<1>6. ASSUME stage[c] = "confirm"
      PROVE  /\ ~TooLong(c) /\ (received[c] >= 4 => HasLine(c))
             /\ HasLine(c) => Response(c) = <<OkHead(Announced(c))>>
  <2>1. buffered[c] = SubSeq(sent[c], 2 + 1, received[c]) /\ received[c] >= 2
    BY <1>6 DEF RunsInv, RunInv, Storing
  <2>2. /\ Len(sent[c]) >= 2 + 1 => sent[c][2 + 1] # Newline
        /\ Len(sent[c]) >= 2 + 2 => sent[c][2 + 2] = Newline
    BY <1>1, <1>2
  <2>3. 2 \in Nat /\ 2 <= received[c]
    BY <1>4, <2>1
  <2>4. /\ ~TooLong(c)
        /\ received[c] >= 2 + 2 => HasLine(c)
        /\ HasLine(c) => Response(c) = <<sent[c][2 + 1]>> /\ 2 + 2 <= received[c]
    BY <1>3, <2>1, <2>2, <2>3, LineInBuffer, Zenon
  <2>5. HasLine(c) => sent[c][2 + 1] = OkHead(Announced(c))
    BY <1>1, <1>4, <2>4
  <2> QED
    BY <1>4, <2>4, <2>5
<1> QED
  BY <1>5, <1>6

\* A run of the client changes what belongs to its own connection, and nothing that
\* the server has done.
LEMMA RunChanges ==
  ASSUME NEW c \in Conns, Run(c)
  PROVE  /\ stage[c] # "end" /\ UNCHANGED consumed
         /\ ChangesOnly(c, taken, taken') /\ ChangesOnly(c, peer, peer')
         /\ ChangesOnly(c, socket, socket')
<1> DEFINE Only3 == /\ UNCHANGED consumed
                    /\ ChangesOnly(c, taken, taken') /\ ChangesOnly(c, peer, peer')
                    /\ ChangesOnly(c, socket, socket')
<1>1. ASSUME UNCHANGED transportVars
      PROVE  Only3
  BY <1>1 DEF transportVars, ChangesOnly
<1>2. ASSUME NEW code, Exit(c, code)
      PROVE  Only3
  BY <1>1, <1>2 DEF Exit, PeerShut, ChangesOnly
<1>3. ASSUME GiveUp(c) \/ Abandon(c)
      PROVE  Only3
  BY <1>2, <1>3 DEF GiveUp, Abandon
<1>4. CASE Open(c)
  BY <1>4 DEF Open, Connect, ChangesOnly
<1>5. CASE Send(c)
  BY <1>5 DEF Send, ToSend, PeerSend, ChangesOnly
<1>6. CASE SentAll(c) \/ SendToClosed(c)
  BY <1>1, <1>3, <1>6 DEF SentAll, SendToClosed, ToSend
<1>7. CASE Recv(c)
  <2>1. CASE UNCHANGED transportVars
    BY <1>1, <1>7, <2>1 DEF Recv, Receiving
  <2>2. CASE PeerRead(c)
    BY <1>7, <2>2 DEF Recv, Receiving, PeerRead, ChangesOnly
  <2> QED
    BY <1>7, <2>1, <2>2 DEF Recv
<1>8. CASE RecvEnds(c) \/ LineTooLong(c)
  BY <1>3, <1>8 DEF RecvEnds, LineTooLong, Receiving
<1>9. CASE StartDownload(c) \/ Copy(c)
  BY <1>1, <1>3, <1>9 DEF StartDownload, Copy
<1>10. CASE FinishDownload(c)
  BY <1>2, <1>3, <1>10 DEF FinishDownload
<1>11. CASE StartUpload(c)
  BY <1>1, <1>3, <1>11 DEF StartUpload
<1>12. CASE FinishUpload(c)
  BY <1>2, <1>12 DEF FinishUpload
<1> QED
  BY <1>4, <1>5, <1>6, <1>7, <1>8, <1>9, <1>10, <1>11, <1>12 DEF Run

\* Runs do not get in each other's way.
LEMMA OtherRunGoesOn ==
  ASSUME IInv, RunsInv, ClientInv, NEW d \in Conns, PacedStep(d), NEW c \in Conns \ {d},
         Going(c), nap \in [Conns -> Nat]
  PROVE  Going(c)' /\ stage'[c] = stage[c] /\ status'[c] = status[c]
<1>1. Run(d) /\ UNCHANGED client
  BY DEF PacedStep, RunStep, serverVars
<1>2. /\ UNCHANGED <<plan, sent, consumed>>
      /\ ChangesOnly(d, offered, offered') /\ ChangesOnly(d, received, received')
      /\ ChangesOnly(d, stage, stage') /\ ChangesOnly(d, status, status')
      /\ ChangesOnly(d, taken, taken') /\ ChangesOnly(d, peer, peer')
      /\ ChangesOnly(d, socket, socket')
  BY <1>1, RunChanges, StepChanges DEF ClientStep
<1>3. nap'[c] = nap[c]
  BY DEF PacedStep
<1>4. /\ offered'[c] = offered[c] /\ received'[c] = received[c]
      /\ stage'[c] = stage[c] /\ status'[c] = status[c]
      /\ taken'[c] = taken[c] /\ peer'[c] = peer[c] /\ socket'[c] = socket[c]
  BY <1>2 DEF ChangesOnly, IInv, TypeOK, TransportTypeOK, RunsInv, ClientInv
<1>5. /\ RequestEnd(c)' = RequestEnd(c) /\ Stream(c)' = Stream(c)
      /\ Announced(c)' = Announced(c)
  BY <1>2, SamePlan, PlanStays
<1>6. Attended(c)' = Attended(c) /\ InTime(c)' = InTime(c)
  BY <1>1, <1>2, <1>3, <1>4, <1>5 DEF Attended, InTime, Waiting
<1> QED
  BY <1>2, <1>3, <1>4, <1>5, <1>6 DEF Going

\* An upload goes on after a step of its own that leaves its connection open.
LEMMA RunKeepsGoing ==
  ASSUME IInv, NEW c \in Conns, Going(c), nap[c] = 0,
         UNCHANGED <<plan, sent, consumed, client>>,
         socket'[c] = socket[c], peer'[c] = peer[c],
         stage[c] # "start", stage'[c] # "start",
         stage'[c] = "response" => offered'[c] = RequestEnd(c),
         stage'[c] = "confirm" => offered'[c] = Len(Stream(c)),
         socket[c] = "open" => taken'[c] = received'[c],
         offered'[c] \in Nat, offered[c] <= offered'[c],
         nap'[c] \in 0..(Delay + 1),
         nap'[c] > 0 => stage'[c] = "uploading" /\ offered[c] < offered'[c]
  PROVE  Going(c)'
<1>1. /\ RequestEnd(c)' = RequestEnd(c) /\ Stream(c)' = Stream(c)
      /\ Announced(c)' = Announced(c)
  BY SamePlan, PlanStays
<1>2. Attended(c)' = Attended(c)
  BY <1>1 DEF Attended
<1>3. offered[c] \in Nat /\ consumed[c] \in Nat /\ consumed[c] <= offered[c]
  BY DEF IInv, TypeOK, TransportTypeOK, Buffers
<1>4. ASSUME InTime(c)
      PROVE  InTime(c)'
  <2>1. Waiting(c)' = offered'[c] - consumed[c] /\ Waiting(c) = offered[c] - consumed[c]
    BY DEF Waiting
  <2>2. client'[c].idle = client[c].idle
    OBVIOUS
  <2>3. Waiting(c)' = 0 => Waiting(c) = 0 /\ nap'[c] = 0
    BY <1>3, <2>1
  <2> QED
    BY <1>4, <2>2, <2>3 DEF InTime
<1> QED
  BY <1>1, <1>2, <1>4 DEF Going

\* Where nothing has been sent yet, and where all has, nothing is left to receive.
LEMMA ClosedIsComplete ==
  ASSUME IInv, TInv, RunsInv, UploadsFit, NEW c \in Conns, IsPut(c), Going(c),
         socket[c] = "closed", Receiving(c)
  PROVE  ~Broken(c) /\ received[c] # Len(sent[c])
<1>1. /\ consumed[c] = Len(Stream(c)) /\ sent[c] = Line(ReadyHead) \o Line(OkHead(Announced(c)))
  BY DEF Going
<1>2. Len(sent[c]) = 4
  BY <1>1 DEF Line
<1>3. /\ offered[c] \in Nat /\ consumed[c] \in Nat /\ consumed[c] <= offered[c]
      /\ offered[c] <= Len(Stream(c)) /\ plan[c] \in Plans[c] /\ TypeOK
  BY DEF IInv, TypeOK, TransportTypeOK, Buffers, RunsInv, RunInv
<1>4. /\ RequestEnd(c) \in Nat /\ Len(Stream(c)) \in Nat /\ RequestEnd(c) <= Len(Stream(c))
  BY <1>3, FittingUpload
<1>5. ~Broken(c)
  BY <1>1, <1>3, <1>4 DEF Broken, Waiting
<1>6. stage[c] \in {"response", "confirm"} /\ ~HasLine(c)
  BY DEF Receiving, RunsInv, RunInv, Copying
<1>7. received[c] # 4
  BY <1>6, AnswerIs
<1> QED
  BY <1>2, <1>5, <1>7

\* Its own run sends its request and the file, receives READY and OK and succeeds.
LEMMA OwnRunGoesOn ==
  ASSUME IInv, TInv, RunsInv, ClientInv, UploadsFit, NEW c \in Conns, IsPut(c), Going(c),
         PacedStep(c), timely, nap \in [Conns -> Nat]
  PROVE  IF stage'[c] = "end" THEN status'[c] = "done" ELSE Going(c)'
<1>1. /\ Run(c) /\ nap[c] = 0 /\ UNCHANGED client /\ stage[c] # "end"
      /\ UNCHANGED <<plan, sent, consumed>>
  BY RunChanges, StepChanges DEF PacedStep, RunStep, serverVars, ClientStep
<1>2. /\ nap'[c] \in 0..(Delay + 1) /\ Delay \in Nat
      /\ nap'[c] > 0 => ChunkDone(c)
  <2>1. CASE ChunkDone(c)
    <3>1. PICK late \in 0..1 : nap' = [nap EXCEPT ![c] = Delay + late]
      BY <2>1 DEF PacedStep
    <3> QED
      BY <2>1, <3>1, PaceConstant
  <2>2. CASE ~ChunkDone(c)
    BY <1>1, <2>2, PaceConstant DEF PacedStep
  <2> QED
    BY <2>1, <2>2
<1>3. /\ offered[c] \in Nat /\ peer[c] = "open"
      /\ DOMAIN socket = Conns /\ DOMAIN stage = Conns /\ DOMAIN offered = Conns
      /\ DOMAIN taken = Conns /\ DOMAIN received = Conns /\ DOMAIN status = Conns
  BY DEF IInv, TypeOK, TransportTypeOK, RunsInv, ClientInv, Going
<1>4. /\ RequestEnd(c) \in Nat /\ Len(Stream(c)) \in Nat /\ plan[c].payload = Announced(c)
  <2>1. plan[c] \in Plans[c] /\ TypeOK
    BY DEF IInv, RunsInv, RunInv
  <2> QED
    BY <2>1, FittingUpload
<1>5. stage[c] # "copying"
  BY DEF RunsInv, RunInv, Copying
<1>6. ASSUME UNCHANGED <<transportVars, received>>, stage[c] # "start", stage'[c] # "start",
             stage'[c] = "response" => offered[c] = RequestEnd(c),
             stage'[c] = "confirm" => offered[c] = Len(Stream(c))
      PROVE  Going(c)'
  <2>1. UNCHANGED <<socket, peer, taken, offered>>
    BY <1>6 DEF transportVars
  <2>2. nap'[c] = 0
    BY <1>2, <1>3, <1>5, <2>1 DEF ChunkDone
  <2>3. socket[c] = "open" => taken[c] = received[c]
    BY DEF Going
  <2> QED
    BY <1>1, <1>2, <1>3, <1>6, <2>1, <2>2, <2>3, RunKeepsGoing
<1>7. CASE Open(c)
  <2>1. /\ socket'[c] = "queued" /\ stage'[c] = "request" /\ stage[c] = "start"
        /\ UNCHANGED <<peer, taken, offered, received>>
    BY <1>3, <1>7 DEF Open, Connect, To
  <2>2. nap'[c] = 0
    BY <1>2, <2>1 DEF ChunkDone
  <2> QED
    BY <1>1, <1>2, <1>3, <2>1, <2>2 DEF Going
<1>8. CASE Send(c)
  <2>1. /\ UNCHANGED <<socket, peer, taken, received, stage>>
        /\ stage[c] \in {"request", "uploading"}
    BY <1>8 DEF Send, ToSend, PeerSend, clientVars
  <2>2. PICK upto \in (offered[c] + 1)..Len(Stream(c)) : offered' = [offered EXCEPT ![c] = upto]
    BY <1>8 DEF Send, PeerSend
  <2>3. offered'[c] \in Nat /\ offered[c] < offered'[c] /\ offered[c] <= offered'[c]
    BY <1>3, <1>4, <2>2
  <2>4. nap'[c] > 0 => stage'[c] = "uploading" /\ offered[c] < offered'[c]
    BY <1>2, <1>5, <2>1, <2>3 DEF ChunkDone
  <2>5. socket[c] = "open" => taken[c] = received[c]
    BY DEF Going
  <2> QED
    BY <1>1, <1>2, <1>3, <2>1, <2>3, <2>4, <2>5, RunKeepsGoing
<1>9. CASE SentAll(c)
  <2>1. CountsAgree(c)
    BY <1>4 DEF CountsAgree
  <2>2. /\ UNCHANGED <<transportVars, received>> /\ stage'[c] = AfterSend(c)
        /\ stage[c] \in {"request", "uploading"} /\ offered[c] = SendGoal(c)
    BY <1>3, <1>9, <2>1 DEF SentAll, To
  <2>3. /\ stage'[c] \in {"response", "confirm"}
        /\ stage'[c] = "response" => offered[c] = RequestEnd(c)
        /\ stage'[c] = "confirm" => offered[c] = Len(Stream(c))
    BY <2>2 DEF AfterSend, SendGoal
  <2> QED
    BY <1>6, <2>2, <2>3
<1>10. ASSUME SendToClosed(c)
       PROVE  FALSE
  <2>1. /\ offered[c] < SendGoal(c) /\ stage[c] \in {"request", "uploading"}
        /\ consumed[c] = Len(Stream(c))
    BY <1>10 DEF SendToClosed, ToSend, Going
  <2>2. SendGoal(c) <= Len(Stream(c)) /\ SendGoal(c) \in Nat
    <3>1. RequestEnd(c) <= Len(Stream(c))
      <4>1. plan[c] \in Plans[c] /\ TypeOK
        BY DEF IInv, RunsInv, RunInv
      <4> QED
        BY <4>1, FittingUpload
    <3> QED
      BY <1>4, <2>1, <3>1 DEF SendGoal
  <2>3. consumed[c] <= offered[c]
    BY DEF IInv, Buffers
  <2> QED
    BY <1>3, <1>4, <2>1, <2>2, <2>3
<1>11. CASE Recv(c)
  <2>1. PICK n \in (received[c] + 1)..Len(sent[c]) :
          /\ received' = [received EXCEPT ![c] = n]
          /\ IF socket[c] = "open"
             THEN PeerRead(c) /\ taken'[c] = n
             ELSE UNCHANGED transportVars
    BY <1>11 DEF Recv
  <2>2. UNCHANGED <<stage, socket, peer, offered>> /\ Receiving(c)
    BY <1>11, <2>1 DEF Recv, PeerRead, transportVars
  <2>3. socket[c] = "open" => taken'[c] = received'[c]
    BY <1>3, <2>1
  <2>4. stage[c] \in {"response", "confirm"}
    BY <1>5, <2>2 DEF Receiving
  <2>5. nap'[c] = 0
    BY <1>2, <2>4 DEF ChunkDone
  <2>6. /\ stage'[c] = "response" => offered'[c] = RequestEnd(c)
        /\ stage'[c] = "confirm" => offered'[c] = Len(Stream(c))
    BY <2>2 DEF Going
  <2> QED
    BY <1>1, <1>2, <1>3, <2>2, <2>3, <2>4, <2>5, <2>6, RunKeepsGoing
<1>12. ASSUME RecvEnds(c) \/ LineTooLong(c)
       PROVE  FALSE
  BY <1>12, AnswerIs, ClosedIsComplete DEF RecvEnds, LineTooLong
<1>13. ASSUME StartDownload(c) \/ Copy(c) \/ FinishDownload(c)
       PROVE  FALSE
  BY <1>5, <1>13 DEF StartDownload, Copy, FinishDownload
<1>14. CASE StartUpload(c)
  <2>1. /\ UNCHANGED <<transportVars, received>> /\ stage'[c] = "uploading"
        /\ stage[c] = "response"
    BY <1>3, <1>14, AnswerIs DEF StartUpload, To
  <2> QED
    BY <1>6, <2>1
<1>15. CASE FinishUpload(c)
  <2>1. stage[c] = "confirm" /\ Response(c) = <<OkHead(Announced(c))>>
    BY <1>15, AnswerIs DEF FinishUpload
  <2>2. Confirms(c)
    BY <2>1 DEF Confirms, IsOk, OkSize, OkHead
  <2>3. stage'[c] = "end" /\ status'[c] = "done"
    BY <1>3, <1>15, <2>2 DEF FinishUpload, Exit, To
  <2> QED
    BY <2>3
<1> QED
  BY <1>1, <1>7, <1>8, <1>9, <1>10, <1>11, <1>12, <1>13, <1>14, <1>15 DEF Run

\* From wherever it is in its stream, an upload can send more once what it sent is read.
LEMMA CanSend ==
  ASSUME IInv, RunsInv, UploadsFit, NEW c \in Conns, IsPut(c), ToSend(c), Waiting(c) = 0
  PROVE  \E upto \in (offered[c] + 1)..SendGoal(c) :
           /\ upto \in Cuts \/ upto = Len(Stream(c))
           /\ upto - consumed[c] <= RcvBuf
<1> DEFINE request == Len(plan[c].line) + 1
           whole   == request + plan[c].payload
           k       == offered[c]
<1>1. plan[c] \in Plans[c] /\ TypeOK
  BY DEF IInv, RunsInv, RunInv
<1>2. /\ RequestEnd(c) = request /\ Len(Stream(c)) = whole /\ CutsReach(plan[c])
      /\ request \in Nat /\ plan[c].payload \in Nat
  BY <1>1, FittingUpload
<1>3. k \in Nat /\ consumed[c] = k
  BY DEF IInv, TypeOK, TransportTypeOK, Waiting
<1>4. /\ k < SendGoal(c)
      /\ SendGoal(c) = request \/ SendGoal(c) = whole
      /\ SendGoal(c) # whole => k < request
  BY <1>2 DEF ToSend, SendGoal
<1>5. k \in 0..(whole - 1)
  <2> HIDE DEF k, request
  <2> QED
    BY <1>2, <1>3, <1>4
<1>6. PICK upto \in (k + 1)..(IF k < request THEN request ELSE whole) :
        (upto \in Cuts \/ upto = whole) /\ upto - k <= RcvBuf
  BY <1>2, <1>5 DEF CutsReach
<1>7. upto \in (k + 1)..SendGoal(c)
  <2> HIDE DEF k, request
  <2> QED
    BY <1>2, <1>3, <1>4, <1>6
<1> QED
  BY <1>2, <1>3, <1>6, <1>7

\* READY is sent before the bytes of the file are, and before the file is read.
LEMMA ReadyIsShort ==
  ASSUME IInv, NEW c \in Conns, InUpload(c)
  PROVE  /\ client[c].state = "ReceivingFile" => Len(sent[c]) = 2
         /\ client[c].pending_output # <<>> => ~Invited(c)
<1> DEFINE s == sent[c]
           p == client[c].pending_output
<1>1. IsSequence(s) /\ IsSequence(p) /\ s \o p = Line(ReadyHead)
  BY ClientFields DEF InUpload
<1>2. Len(Line(ReadyHead)) = 2
  BY LinesAreTokens
<1>3. client[c].state = "ReceivingFile" => p = <<>>
  BY DEF InUpload
<1>4. Len(s) \in Nat /\ Len(p) \in Nat /\ Len(s \o p) = Len(s) + Len(p)
  <2> HIDE DEF s, p
  <2> QED
    BY <1>1, SequenceConcat
<1>5. Len(s) + Len(p) = 2
  <2> HIDE DEF s, p
  <2> QED
    BY <1>1, <1>2, <1>4
<1>6. Len(p) = 0 => p = <<>>
  <2> HIDE DEF s, p
  <2> QED
    BY <1>1 DEF IsSequence
<1>7. (p = <<>> => Len(s) = 2) /\ (p # <<>> => ~(Len(s) >= 2))
  <2> HIDE DEF s, p
  <2>1. \A m, n \in Nat : m + n = 2 => (n = 0 => m = 2) /\ (m >= 2 => n = 0)
    OBVIOUS
  <2>2. (Len(p) = 0 => Len(s) = 2) /\ (Len(s) >= 2 => Len(p) = 0)
    BY <1>4, <1>5, <2>1, Zenon
  <2>3. p = <<>> => Len(p) = 0
    OBVIOUS
  <2> QED
    BY <1>6, <2>2, <2>3
<1> QED
  BY <1>3, <1>7 DEF Invited

\* Where both programs wait, an upload sleeps, and the server has read all it sent.
LEMMA StandstillNaps ==
  ASSUME IInv, TInv, RunsInv, UploadsFit, NEW c \in Conns, IsPut(c), Going(c),
         stage[c] # "end", socket[c] = "open", pc # "down", Standstill
  PROVE  nap[c] > 0 /\ Waiting(c) = 0
<1> DEFINE state == client[c].state
<1>1. /\ offered[c] \in Nat /\ consumed[c] \in Nat /\ consumed[c] <= offered[c]
      /\ offered[c] <= Len(Stream(c)) /\ plan[c] \in Plans[c] /\ TypeOK
      /\ Waiting(c) = offered[c] - consumed[c] /\ RunInv(c) /\ nap[c] \in Nat
  BY PaceConstant DEF IInv, TypeOK, TransportTypeOK, Buffers, RunsInv, RunInv, Waiting, Going
<1>2. /\ RequestEnd(c) = LineLength(c) /\ RequestEnd(c) \in Nat /\ Len(Stream(c)) \in Nat
      /\ Len(Stream(c)) = LineLength(c) + plan[c].payload /\ plan[c].payload \in Nat
      /\ Asked(c).size = plan[c].payload
  BY <1>1, FittingUpload
<1>3. /\ Attended(c) /\ taken[c] = received[c] /\ peer[c] = "open" /\ stage[c] # "start"
  BY DEF Going
<1>4. Reported(c, requested_events(c)) = {}
  <2>1. c \in ToSet(clients)
    BY DEF IInv, Connections, ConnectionsAccounted, ToSet
  <2> QED
    BY <2>1 DEF Standstill
<1>5. /\ NeedsRead(state) => Waiting(c) = 0
      /\ ~NeedsRead(state) => ~(SendSpace(c) > 0)
  BY <1>1, <1>3, <1>4 DEF Reported, requested_events
<1>6. /\ state = "AwaitingRequest" => consumed[c] < RequestEnd(c)
      /\ state = "SendingResult" => Waiting(c) = 0 /\ consumed[c] = Len(Stream(c))
  BY <1>1, <1>2, <1>3 DEF Attended
<1>7. state \in {"SendingReady", "ReceivingFile"} =>
        /\ InUpload(c) /\ LineLength(c) <= consumed[c]
        /\ state = "SendingReady" => ~Invited(c)
        /\ state = "ReceivingFile" => Len(sent[c]) = 2 /\ consumed[c] < Len(Stream(c))
  <2>1. ASSUME state \in {"SendingReady", "ReceivingFile"}
        PROVE  InUpload(c)
    BY <2>1, UploadIsServed
  <2>2. client[c].transferred_bytes \in Nat
    BY <1>1 DEF TypeOK, IsClient
  <2>3. InUpload(c) => /\ consumed[c] = LineLength(c) + client[c].transferred_bytes
                       /\ client[c].expected_bytes = plan[c].payload
    BY <1>2 DEF InUpload
  <2>4. /\ state = "ReceivingFile" => client[c].transferred_bytes < client[c].expected_bytes
        /\ state = "SendingReady" => client[c].pending_output # <<>>
    BY <1>3 DEF Attended
  <2> QED
    BY <1>2, <2>1, <2>2, <2>3, <2>4, ReadyIsShort
<1>8. stage[c] \in {"uploading", "confirm"} => Invited(c)
  BY <1>1 DEF RunInv, Storing
<1>9. ASSUME nap[c] > 0
      PROVE  Waiting(c) = 0
  <2>1. stage[c] = "uploading"
    BY <1>9 DEF Going
  <2> QED
    BY <1>3, <1>5, <1>6, <1>7, <1>8, <2>1 DEF Attended, NeedsRead
<1>10. ASSUME ToSend(c), Waiting(c) = 0
       PROVE  \E upto \in (offered[c] + 1)..SendGoal(c) :
                (upto \in Cuts \/ upto = Len(Stream(c))) /\ ~(upto - consumed[c] > RcvBuf)
  <2>1. PICK upto \in (offered[c] + 1)..SendGoal(c) :
           /\ upto \in Cuts \/ upto = Len(Stream(c))
           /\ upto - consumed[c] <= RcvBuf
    BY <1>10, CanSend
  <2>2. upto \in Int /\ RcvBuf \in Int
    BY Sizes
  <2> QED
    BY <1>1, <2>1, <2>2
<1>11. ASSUME ToSend(c)
       PROVE  Waiting(c) = 0
  <2>1. \/ stage[c] = "request" /\ offered[c] < RequestEnd(c)
        \/ stage[c] = "uploading" /\ offered[c] < Len(Stream(c))
    BY <1>11 DEF ToSend, SendGoal
  <2>2. state # "SendingReady"
    BY <1>1, <1>2, <1>7, <1>8, <2>1
  <2> QED
    BY <1>3, <1>5, <1>6, <2>2 DEF Attended, NeedsRead
<1>12. ASSUME Receiving(c), received[c] = Len(sent[c])
       PROVE  FALSE
  <2>1. stage[c] \in {"response", "confirm"} /\ ~HasLine(c)
    BY <1>1, <1>12 DEF Receiving, RunInv, Copying
  <2>2. SendSpace(c) > 0
    <3>1. taken[c] \in Nat /\ taken[c] = Len(sent[c]) /\ SndBuf \in Nat /\ SndBuf > 0
      BY <1>3, <1>12, Sizes DEF UploadsFit, IInv, TypeOK, TransportTypeOK
    <3>2. SndBuf - (Len(sent[c]) - taken[c]) > 0
      BY <3>1
    <3> QED
      BY <3>2 DEF SendSpace
  <2>3. state \in {"AwaitingRequest", "ReceivingFile"} /\ Waiting(c) = 0
    BY <1>3, <1>5, <2>2 DEF Attended, NeedsRead
  <2>4. CASE stage[c] = "response"
    <3>1. offered[c] = RequestEnd(c)
      BY <2>4 DEF Going
    <3>2. state = "ReceivingFile"
      BY <1>1, <1>2, <1>6, <2>3, <3>1
    <3>3. received[c] >= 2 => HasLine(c)
      BY <2>4, AnswerIs
    <3>4. Len(sent[c]) = 2
      BY <1>7, <3>2
    <3> QED
      BY <1>12, <2>1, <3>3, <3>4
  <2>5. CASE stage[c] = "confirm"
    <3>1. offered[c] = Len(Stream(c))
      BY <2>5 DEF Going
    <3> QED
      BY <1>1, <1>2, <1>6, <1>7, <2>3, <3>1
  <2> QED
    BY <2>1, <2>4, <2>5
<1>13. ~Blocked(c)
  <2>1. stage[c] # "end"
    OBVIOUS
  <2> QED
    BY <1>10, <1>11, <1>12, <2>1 DEF Blocked
<1> QED
  BY <1>3, <1>9, <1>13 DEF Standstill

\* Every connection's sleep is a number of units.
LEMMA NapTyped ==
  ASSUME nap \in [Conns -> Nat], [PaceNext]_paceVars
  PROVE  nap' \in [Conns -> Nat]
<1>1. ASSUME NEW c \in Conns, PacedStep(c)
      PROVE  nap' \in [Conns -> Nat]
  BY <1>1, PaceConstant DEF PacedStep
<1>2. CASE TimePasses
  <2>1. \A c \in Conns : (IF nap[c] > 0 THEN nap[c] - 1 ELSE 0) \in Nat
    OBVIOUS
  <2> QED
    BY <1>2, <2>1 DEF TimePasses
<1>3. CASE HeldUp
  BY <1>3 DEF HeldUp
<1>4. CASE Unpaced(ServerAlone(Process)) \/ Unpaced(ServerAlone(Signal \/ Kill))
  BY <1>4 DEF Unpaced
<1>5. CASE UNCHANGED paceVars
  BY <1>5 DEF paceVars
<1> QED
  BY <1>1, <1>2, <1>3, <1>4, <1>5 DEF PaceNext

\* A unit of time brings an upload that sleeps nearer to the end of its sleep: what its
\* connection is idle for and its sleep are together never longer.
LEMMA TimeKeepsGoing ==
  ASSUME IInv, TInv, RunsInv, UploadsFit, NEW c \in Conns, IsPut(c), Going(c),
         stage[c] # "end", pc # "down", Delay < IdleTimeout, TimePasses
  PROVE  Going(c)'
<1>1. /\ UNCHANGED <<transportVars, clientVars>> /\ Standstill
      /\ nap'[c] = IF nap[c] > 0 THEN nap[c] - 1 ELSE 0
  BY DEF TimePasses, ServerAlone, Tick, systemVars, vars
<1>2. /\ RequestEnd(c)' = RequestEnd(c) /\ Stream(c)' = Stream(c)
      /\ Announced(c)' = Announced(c)
  BY <1>1, SamePlan, PlanStays DEF transportVars
<1>3. nap[c] \in 0..(Delay + 1) /\ Delay \in Nat /\ IdleTimeout \in Nat
  BY PaceConstant, ServerConstants DEF Going
<1>4. nap'[c] \in 0..(Delay + 1) /\ (nap'[c] > 0 => nap[c] > 0)
  BY <1>1, <1>3
<1>5. ASSUME socket[c] = "open"
      PROVE  Attended(c)' /\ InTime(c)'
  <2>1. nap[c] > 0 /\ Waiting(c) = 0 /\ Attended(c) /\ InTime(c)
    BY <1>1, <1>5, StandstillNaps DEF Going
  <2>2. client[c].idle \in Nat /\ IsClient(client[c])
    BY DEF IInv, TypeOK, IsClient
  <2>3. client[c].idle + nap[c] <= Delay + 1
    BY <2>1 DEF InTime
  <2>4. c \in ToSet(clients) /\ client[c].fd # None
    BY <1>5 DEF IInv, Connections, ConnectionsAccounted, ToSet, Live
  <2>5. client[c].idle <= IdleTimeout
    BY <1>3, <2>1, <2>2, <2>3
  <2>6. client'[c] = [client[c] EXCEPT !.idle = Least(@ + 1, IdleTimeout + 1)]
    BY <2>4, <2>5 DEF TimePasses, ServerAlone, Tick
  <2>7. /\ client'[c].idle = client[c].idle + 1
        /\ client'[c].state = client[c].state
        /\ client'[c].pending_output = client[c].pending_output
        /\ client'[c].transferred_bytes = client[c].transferred_bytes
        /\ client'[c].expected_bytes = client[c].expected_bytes
    <3>1. Least(client[c].idle + 1, IdleTimeout + 1) = client[c].idle + 1
      BY <1>3, <2>2, <2>5 DEF Least
    <3> QED
      BY <2>2, <2>6, <3>1 DEF IsClient, NewClient
  <2>8. Attended(c)'
    BY <1>1, <1>2, <2>1, <2>7 DEF Attended, transportVars
  <2>9. client'[c].idle + nap'[c] <= Delay + 1 /\ client'[c].idle <= Delay + 1
    BY <1>1, <1>3, <2>1, <2>2, <2>3, <2>7
  <2> QED
    BY <2>8, <2>9 DEF InTime
<1>6. UNCHANGED <<stage, offered, received, peer, socket, taken, sent, consumed>>
  BY <1>1 DEF transportVars, clientVars
<1> QED
  BY <1>2, <1>4, <1>5, <1>6 DEF Going

\* A step of the server is none of a peer.
LEMMA ProcessLeavesPeers ==
  ASSUME Process
  PROVE  UNCHANGED <<plan, offered, taken, peer>>
<1>1. CASE StartRound \/ Shutdown
  BY <1>1 DEF StartRound, Shutdown, ProcessEnds
<1>2. CASE PollReady \/ PollReturns \/ EndRound \/ \E c \in Conns : NoEvent(c)
  BY <1>2 DEF PollReady, PollReturns, EndRound, NoEvent, transportVars
<1>3. CASE \E c \in Conns : ReadEvent(c) \/ WriteEvent(c) \/ HangUp(c) \/ ErrorEvent(c)
  BY <1>3 DEF ReadEvent, WriteEvent, HangUp, ErrorEvent
<1>4. CASE Accept \/ AcceptEnds
  BY <1>4 DEF Accept, AcceptEnds, transportVars
<1> QED
  BY <1>1, <1>2, <1>3, <1>4 DEF Process

\* Every step keeps what PacedUploadsSucceed needs, until a program is held up.
LEMMA StepKeepsPaced ==
  ASSUME IInv, TInv, SInv, ClientInv, RunsInv, PacedInv, UploadsFit, Delay < IdleTimeout,
         nap \in [Conns -> Nat], timely, [Next]_vars, [PaceNext]_paceVars
  PROVE  PacedInv'
<1>1. SUFFICES ASSUME timely', pc' # "down"
               PROVE  /\ RootInv'
                      /\ \A c \in Conns : IsPut(c)' =>
                           IF stage'[c] = "end" THEN status'[c] = "done" ELSE Going(c)'
  BY DEF PacedInv
<1>2. pc # "down"
  BY <1>1, StaysDown
<1>3. RootInv /\ \A c \in Conns : IsPut(c) =>
                   IF stage[c] = "end" THEN status[c] = "done" ELSE Going(c)
  BY <1>2 DEF PacedInv
<1>4. RootInv'
  BY <1>3, RootStays
<1>5. SUFFICES ASSUME NEW c \in Conns, IsPut(c)'
               PROVE  IF stage'[c] = "end" THEN status'[c] = "done" ELSE Going(c)'
  BY <1>4
<1>6. ASSUME NEW d \in Conns, PacedStep(d)
      PROVE  IF stage'[c] = "end" THEN status'[c] = "done" ELSE Going(c)'
  <2>1. ClientStep(d) /\ RunStep(d) /\ Run(d)
    BY <1>6 DEF PacedStep, RunStep, ClientStep
  <2>2. /\ plan' = plan /\ stage[d] # "end"
        /\ ChangesOnly(d, stage, stage') /\ ChangesOnly(d, status, status')
    BY <2>1, StepChanges, RunChanges
  <2>3. IsPut(c)
    BY <1>5, <2>2, SamePlan
  <2>4. CASE d = c
    BY <1>3, <1>6, <2>2, <2>3, <2>4, OwnRunGoesOn
  <2>5. CASE d # c
    <3>1. CASE stage[c] = "end"
      BY <1>3, <2>2, <2>3, <2>5, <3>1 DEF ChangesOnly, ClientInv
    <3>2. CASE stage[c] # "end"
      <4>1. Going(c)' /\ stage'[c] = stage[c]
        BY <1>3, <1>6, <2>3, <2>5, <3>2, OtherRunGoesOn
      <4> QED
        BY <3>2, <4>1
    <3> QED
      BY <3>1, <3>2
  <2> QED
    BY <2>4, <2>5
<1>7. ASSUME UNCHANGED <<plan, clientVars>>,
             IsPut(c) /\ Going(c) /\ stage[c] # "end" => Going(c)'
      PROVE  IF stage'[c] = "end" THEN status'[c] = "done" ELSE Going(c)'
  <2>1. IsPut(c)
    BY <1>5, <1>7, SamePlan
  <2> QED
    BY <1>3, <1>7, <2>1 DEF clientVars
<1>8. CASE Unpaced(ServerAlone(Process))
  <2>1. Process /\ UNCHANGED <<clientVars, nap>>
    BY <1>8 DEF Unpaced, ServerAlone
  <2>2. UNCHANGED <<plan, offered, taken, peer>>
    BY <2>1, ProcessLeavesPeers
  <2>3. ASSUME IsPut(c), Going(c)
        PROVE  Going(c)'
    <3>1. Moved(c)
      BY <1>1, <1>3, <2>1, <2>3, ServerMovesOn
    <3> QED
      BY <2>1, <2>2, <2>3, <3>1, MovedGoesOn DEF clientVars
  <2> QED
    BY <1>7, <2>1, <2>2, <2>3
<1>9. ASSUME UNCHANGED <<transportVars, clientVars, client, nap>>
      PROVE  IF stage'[c] = "end" THEN status'[c] = "done" ELSE Going(c)'
  <2>1. UNCHANGED <<plan, offered, taken, peer, stage, received, socket, sent, consumed>>
    BY <1>9 DEF transportVars, clientVars
  <2>2. ASSUME IsPut(c), Going(c)
        PROVE  Going(c)'
    <3>1. Moved(c)
      BY <1>9, <2>1 DEF Moved
    <3> QED
      BY <1>9, <2>1, <2>2, <3>1, MovedGoesOn
  <2> QED
    BY <1>7, <1>9, <2>1, <2>2
<1>10. CASE Unpaced(ServerAlone(Signal \/ Kill))
  <2>1. Signal
    BY <1>1, <1>10 DEF Unpaced, ServerAlone, Kill, ProcessEnds
  <2> QED
    BY <1>9, <1>10, <2>1 DEF Unpaced, ServerAlone, Signal
<1>11. CASE TimePasses
  <2>1. UNCHANGED <<plan, clientVars>>
    BY <1>11 DEF TimePasses, ServerAlone, Tick, systemVars, vars, transportVars
  <2> QED
    BY <1>2, <1>7, <1>11, <2>1, TimeKeepsGoing
<1>12. CASE HeldUp
  BY <1>1, <1>12 DEF HeldUp
<1>13. CASE UNCHANGED paceVars
  BY <1>9, <1>13 DEF paceVars, systemVars, vars
<1> QED
  BY <1>6, <1>8, <1>10, <1>11, <1>12, <1>13 DEF PaceNext

\* At first no upload has begun, and the storage root is as it was found.
LEMMA InitPaced ==
  ASSUME PaceInit
  PROVE  PacedInv /\ nap \in [Conns -> Nat]
<1>1. /\ entry = [n \in DOMAIN InitialRoot |-> n] /\ DOMAIN InitialRoot \subseteq Names
      /\ nap = [c \in Conns |-> 0] /\ TransportInit /\ ClientInit
  BY NamesApart DEF PaceInit, SystemInit, Init, StorageInit
<1>2. RootInv
  BY <1>1 DEF RootInv
<1>3. ASSUME NEW c \in Conns
      PROVE  stage[c] # "end" /\ Going(c)
  BY <1>1, PaceConstant DEF TransportInit, ClientInit, Going
<1> QED
  BY <1>1, <1>2, <1>3 DEF PacedInv

\* The idle timeout never cuts off an upload whose client sleeps between chunks for less
\* than the timeout, and whose segments the server's receive buffer has room for: unless a
\* program is held up, or a call fails, every such upload that ends succeeds.
THEOREM UploadsArePaced ==
  Delay < IdleTimeout /\ UploadsFit => (PaceSpec => []PacedUploadsSucceed)
<1> SUFFICES ASSUME Delay < IdleTimeout, UploadsFit
             PROVE  PaceSpec => []PacedUploadsSucceed
  OBVIOUS
<1> DEFINE ServerSound == timely => IInv /\ TInv /\ SInv
           TokensSound == timely => Tokenised
           RunsSound   == timely => ClientInv /\ RunsInv
           NapSound    == nap \in [Conns -> Nat]
<1>1. PaceInit => ServerSound /\ RunsSound /\ NapSound /\ PacedInv
  BY InitInv, InitTInv, InitSInv, InitRuns, InitPaced DEF PaceInit, SystemInit, Init
<1>2. ServerSound => TokensSound
  BY SentIsWellSent DEF TInv, Tokenised
<1>3. ServerSound /\ [PaceNext]_paceVars => ServerSound'
  <2> SUFFICES ASSUME ServerSound, [PaceNext]_paceVars, timely'
               PROVE  (IInv /\ TInv /\ SInv)'
    OBVIOUS
  <2>1. timely /\ [Next]_vars
    BY TimelyStep, SystemStep DEF systemVars
  <2> QED
    BY <2>1, NextInv, NextTInv, NextSInv
<1>4. ServerSound /\ TokensSound' /\ RunsSound /\ [PaceNext]_paceVars => RunsSound'
  <2> SUFFICES ASSUME ServerSound, TokensSound', RunsSound, [PaceNext]_paceVars, timely'
               PROVE  (ClientInv /\ RunsInv)'
    OBVIOUS
  <2>1. timely /\ [SystemNext]_systemVars /\ Tokenised'
    BY TimelyStep
  <2>2. [ServerMoves \/ \E c \in Conns : ClientStep(c)]_<<transportVars, clientVars>>
    BY <2>1, StepIsServed
  <2> QED
    BY <2>1, <2>2, ServedKeeps DEF ServedNext
<1>5. NapSound /\ [PaceNext]_paceVars => NapSound'
  BY NapTyped
<1>6. ServerSound /\ RunsSound /\ NapSound /\ PacedInv /\ [PaceNext]_paceVars => PacedInv'
  <2>1. CASE timely'
    <3>1. [PaceNext]_paceVars => timely /\ [Next]_vars
      BY <2>1, TimelyStep, SystemStep DEF systemVars
    <3> QED
      BY <3>1, StepKeepsPaced
  <2>2. CASE ~timely'
    BY <2>2 DEF PacedInv
  <2> QED
    BY <2>1, <2>2
<1>7. PacedInv => PacedUploadsSucceed
  BY DEF PacedInv, PacedUploadsSucceed
<1> HIDE DEF ServerSound, TokensSound, RunsSound, NapSound
<1> QED
  BY <1>1, <1>2, <1>3, <1>4, <1>5, <1>6, <1>7, PTL DEF PaceSpec

=============================================================================
