---------------------------- MODULE LegacyProofs ----------------------------
(***************************************************************************)
(* For any number of clients, whoever of them is killed, any files and     *)
(* requests, whatever calls fail and whatever the array held before: as    *)
(* long as the array has not overflowed, its slots in use hold the open    *)
(* connections of the legacy servers, and transfers are whole.             *)
(***************************************************************************)
EXTENDS Legacy, SequenceTheorems, TLAPS

USE DEF Running

Places == {"poll", "slots", "sending", "receiving", "ended", "undefined"}

\* The array, and the connection a transfer is under way on.
ArrayOK ==
  /\ pointer \in 1..(Max_Clients + 1) /\ i \in Nat \ {0}
  /\ DOMAIN tester = 1..Max_Clients
  /\ \A k \in DOMAIN tester : DOMAIN tester[k] = {"fd", "revents"}
  /\ place \in {"sending", "receiving"} => i < pointer

\* Who waits to be accepted is queued, once.
QueueOK ==
  /\ backlog \in Seq(Conns)
  /\ \A k \in DOMAIN backlog : socket[backlog[k]] = "queued"
  /\ \A k, l \in DOMAIN backlog : backlog[k] = backlog[l] => k = l

\* Phase 1 accepts once.
FirstPhase ==
  phase = 1 =>
    /\ i = 1 /\ place \in {"poll", "sending", "ended"}
    /\ place = "poll" => pointer = 1

SlotsInv ==
  /\ phase \in 1..4 /\ place \in Places
  /\ socket \in [Conns -> {"none", "queued", "open", "closed", "lost"}]
  /\ DOMAIN ended = Conns
  /\ ArrayOK /\ FirstPhase
  /\ SlotsHoldConnections
  /\ Running => QueueOK

-----------------------------------------------------------------------------
\* The connection at the head of the queue has a slot, where the array has one.
LEMMA SlotIsFree ==
  ASSUME SlotsInv, Running, backlog # <<>>, pointer <= Max_Clients
  PROVE  /\ Head(backlog) \in Conns /\ socket[Head(backlog)] = "queued"
         /\ pointer \in 1..Max_Clients
<1>1. QueueOK /\ ArrayOK
  BY DEF SlotsInv
<1>2. 1 \in DOMAIN backlog /\ Head(backlog) = backlog[1]
  BY <1>1, HeadTailProperties DEF QueueOK
<1>3. pointer \in 1..Max_Clients
  BY <1>1, LegacyConstants DEF ArrayOK
<1> QED
  BY <1>1, <1>2, <1>3 DEF QueueOK

\* A slot that is filled leaves the others as they are.
LEMMA AcceptedKeeps ==
  ASSUME SlotsInv, Running, backlog # <<>>,
         NEW slots, DOMAIN slots = 1..Max_Clients,
         \A k \in 1..Max_Clients : DOMAIN slots[k] = {"fd", "revents"} /\ slots[k].fd = tester[k].fd,
         Accepted(slots, Head(backlog)), Running'
  PROVE  /\ SlotsHoldConnections' /\ QueueOK'
         /\ pointer' \in 2..(Max_Clients + 1) /\ pointer' = pointer + 1
         /\ DOMAIN tester' = 1..Max_Clients
         /\ \A k \in DOMAIN tester' : DOMAIN tester'[k] = {"fd", "revents"}
         /\ socket' = [socket EXCEPT ![Head(backlog)] = "open"]
<1> DEFINE c == Head(backlog)
<1>1. /\ c \in Conns /\ socket[c] = "queued" /\ pointer \in 1..Max_Clients
      /\ pointer \in Nat /\ Max_Clients \in Nat
  BY SlotIsFree, LegacyConstants DEF Accepted
<1>2. /\ pointer' = pointer + 1 /\ socket' = [socket EXCEPT ![c] = "open"]
      /\ tester' = [slots EXCEPT ![pointer] = [slots[pointer] EXCEPT !.fd = c]]
      /\ backlog' = Tail(backlog)
  BY DEF Accepted
<1>3. /\ DOMAIN tester' = 1..Max_Clients
      /\ \A k \in 1..Max_Clients : DOMAIN tester'[k] = {"fd", "revents"}
      /\ tester'[pointer].fd = c
      /\ \A k \in 1..(pointer - 1) : tester'[k].fd = tester[k].fd
  BY <1>1, <1>2
<1>4. SlotsHoldConnections /\ QueueOK /\ socket \in [Conns -> {"none", "queued", "open", "closed", "lost"}]
  BY DEF SlotsInv
<1>5. \A k \in 1..(pointer - 1) : tester[k].fd \in Conns /\ socket[tester[k].fd] = "open"
  BY <1>4 DEF SlotsHoldConnections
<1>6. SlotsHoldConnections'
  <2> DEFINE fd(k) == tester'[k].fd
  <2>1. 1..(pointer' - 1) = 1..pointer /\ \A k \in 1..pointer : k \in 1..(pointer - 1) \/ k = pointer
    <3>1. pointer' - 1 = pointer
      BY <1>1, <1>2
    <3> QED
      BY <1>1, <3>1
  <2>2. {fd(k) : k \in 1..pointer} = {d \in Conns : socket'[d] = "open"}
    <3>1. ASSUME NEW k \in 1..pointer
          PROVE  fd(k) \in Conns /\ socket'[fd(k)] = "open"
      BY <1>1, <1>2, <1>3, <1>4, <1>5, <2>1
    <3>2. ASSUME NEW d \in Conns, socket'[d] = "open"
          PROVE  \E k \in 1..pointer : fd(k) = d
      <4>1. CASE d = c
        BY <1>1, <1>3, <4>1
      <4>2. CASE d # c
        <5>1. socket[d] = "open"
          BY <1>2, <1>4, <3>2, <4>2
        <5>2. PICK k \in 1..(pointer - 1) : tester[k].fd = d
          BY <1>4, <5>1 DEF SlotsHoldConnections
        <5> QED
          BY <1>1, <1>3, <5>2
      <4> QED
        BY <4>1, <4>2
    <3> HIDE DEF fd
    <3> QED
      BY <3>1, <3>2
  <2>3. \A k, l \in 1..pointer : fd(k) = fd(l) => k = l
    BY <1>1, <1>3, <1>4, <1>5, <2>1 DEF SlotsHoldConnections
  <2> QED
    BY <2>1, <2>2, <2>3 DEF SlotsHoldConnections
<1>7. QueueOK'
  <2> DEFINE n == Len(backlog)
  <2>1. /\ Tail(backlog) \in Seq(Conns) /\ n \in Nat /\ Len(Tail(backlog)) = n - 1 /\ n >= 1
        /\ c = backlog[1]
        /\ \A k \in 1..(n - 1) : Tail(backlog)[k] = backlog[k + 1]
    BY <1>4, HeadTailProperties, LenProperties, EmptySeq DEF QueueOK
  <2>2. DOMAIN backlog = 1..n /\ DOMAIN Tail(backlog) = 1..(n - 1)
    BY <1>4, <2>1 DEF QueueOK
  <2> HIDE DEF n
  <2>3. \A k \in 1..(n - 1) : k + 1 \in 1..n /\ k + 1 # 1
    BY <2>1
  <2>4. \A k \in 1..(n - 1) : backlog[k + 1] # c /\ backlog[k + 1] \in Conns
    BY <1>4, <2>1, <2>2, <2>3 DEF QueueOK
  <2>5. \A k \in 1..(n - 1) : socket'[Tail(backlog)[k]] = "queued"
    BY <1>2, <1>4, <2>1, <2>2, <2>3, <2>4 DEF QueueOK
  <2>6. \A k, l \in 1..(n - 1) : Tail(backlog)[k] = Tail(backlog)[l] => k = l
    BY <1>4, <2>1, <2>2, <2>3 DEF QueueOK
  <2> QED
    BY <1>2, <2>1, <2>2, <2>5, <2>6 DEF QueueOK
<1> QED
  BY <1>1, <1>2, <1>3, <1>6, <1>7

\* The last slot moved over the served one loses no connection and doubles none.
LEMMA RemoveKeeps ==
  ASSUME SlotsInv, Running, i < pointer, Remove,
         NEW how \in {"closed", "lost"}, socket' = [socket EXCEPT ![Current] = how],
         UNCHANGED backlog, phase # 1, UNCHANGED <<phase, ended>>
  PROVE  SlotsInv'
<1> DEFINE last == pointer - 1
<1>1. /\ pointer \in 1..(Max_Clients + 1) /\ i \in Nat /\ i >= 1 /\ i <= last /\ last \in 1..Max_Clients
      /\ pointer \in Nat /\ Max_Clients \in Nat
      /\ DOMAIN tester = 1..Max_Clients
      /\ \A k \in 1..Max_Clients : DOMAIN tester[k] = {"fd", "revents"}
  BY LegacyConstants DEF SlotsInv, ArrayOK
<1>2. pointer' = last /\ place' = "slots" /\ i' \in {i, i + 1}
  BY DEF Remove
<1>3. /\ DOMAIN tester' = 1..Max_Clients
      /\ \A k \in 1..Max_Clients : DOMAIN tester'[k] = {"fd", "revents"}
      /\ \A k \in 1..(last - 1) : tester'[k].fd = IF k = i THEN tester[last].fd ELSE tester[k].fd
  <2>1. CASE i # last
    <3>1. tester' = [tester EXCEPT ![i] = [tester[i] EXCEPT !.fd = tester[last].fd]]
      BY <2>1 DEF Remove
    <3> QED
      BY <1>1, <2>1, <3>1
  <2>2. CASE i = last
    BY <1>1, <2>2 DEF Remove
  <2> QED
    BY <2>1, <2>2
<1>4. /\ {tester[k].fd : k \in 1..last} = {c \in Conns : socket[c] = "open"}
      /\ \A k, l \in 1..last : tester[k].fd = tester[l].fd => k = l
      /\ socket \in [Conns -> {"none", "queued", "open", "closed", "lost"}]
  BY DEF SlotsInv, SlotsHoldConnections
<1> HIDE DEF last
<1>5. Current = tester[i].fd /\ i \in 1..last /\ Current \in Conns /\ socket[Current] = "open"
  BY <1>1, <1>4 DEF Current
<1>6. SlotsHoldConnections'
  <2>1. {tester'[k].fd : k \in 1..(last - 1)} = {c \in Conns : socket'[c] = "open"}
    <3>1. ASSUME NEW k \in 1..(last - 1)
          PROVE  tester'[k].fd \in Conns /\ socket'[tester'[k].fd] = "open"
      <4>1. PICK l \in 1..last : l # i /\ tester'[k].fd = tester[l].fd
        BY <1>1, <1>3
      <4>2. tester[l].fd \in Conns /\ socket[tester[l].fd] = "open" /\ tester[l].fd # Current
        BY <1>4, <1>5, <4>1
      <4> QED
        BY <1>4, <4>1, <4>2
    <3>2. ASSUME NEW d \in Conns, socket'[d] = "open"
          PROVE  \E k \in 1..(last - 1) : tester'[k].fd = d
      <4>1. d # Current /\ socket[d] = "open"
        BY <1>4, <1>5, <3>2
      <4>2. PICK l \in 1..last : tester[l].fd = d
        BY <1>4, <4>1
      <4>3. l # i
        BY <1>5, <4>1, <4>2
      <4>4. CASE l = last
        <5>1. i \in 1..(last - 1) /\ tester'[i].fd = d
          BY <1>1, <1>3, <4>2, <4>3, <4>4
        <5> QED
          BY <5>1
      <4>5. CASE l # last
        <5>1. l \in 1..(last - 1) /\ tester'[l].fd = d
          BY <1>1, <1>3, <4>2, <4>3, <4>5
        <5> QED
          BY <5>1
      <4> QED
        BY <4>4, <4>5
    <3> DEFINE fd(k) == tester'[k].fd
    <3>3. /\ \A k \in 1..(last - 1) : fd(k) \in Conns /\ socket'[fd(k)] = "open"
          /\ \A d \in Conns : socket'[d] = "open" => \E k \in 1..(last - 1) : fd(k) = d
      BY <3>1, <3>2
    <3>4. {fd(k) : k \in 1..(last - 1)} = {c \in Conns : socket'[c] = "open"}
      <4> HIDE DEF fd
      <4> QED
        BY <3>3
    <3> QED
      BY <3>4
  <2>2. \A k, l \in 1..(last - 1) : tester'[k].fd = tester'[l].fd => k = l
    BY <1>1, <1>3, <1>4
  <2> QED
    BY <1>2, <2>1, <2>2 DEF SlotsHoldConnections
<1>7. QueueOK'
  <2>1. QueueOK /\ backlog' = backlog
    BY DEF SlotsInv
  <2>2. \A k \in DOMAIN backlog : backlog[k] \in Conns /\ socket'[backlog[k]] = "queued"
    BY <1>4, <1>5, <2>1 DEF QueueOK
  <2> QED
    BY <2>1, <2>2 DEF QueueOK
<1>8. ArrayOK'
  BY <1>1, <1>2, <1>3 DEF ArrayOK, last
<1> QED
  BY <1>2, <1>4, <1>5, <1>6, <1>7, <1>8 DEF SlotsInv, Places, FirstPhase

LEMMA EndKeeps ==
  ASSUME SlotsInv, Exit, UNCHANGED <<phase, ended>>
  PROVE  SlotsInv'
BY DEF SlotsInv, Exit, Places, ArrayOK, FirstPhase, SlotsHoldConnections

\* A step that leaves the sockets and the slots' descriptors as they are.
LEMMA SameSlotsKeep ==
  ASSUME SlotsInv, UNCHANGED <<phase, pointer, socket, backlog, ended>>,
         DOMAIN tester' = 1..Max_Clients,
         \A k \in 1..Max_Clients : DOMAIN tester'[k] = {"fd", "revents"} /\ tester'[k].fd = tester[k].fd,
         Running, place' \in {"poll", "slots", "sending", "receiving"}, i' \in Nat \ {0},
         place' \in {"sending", "receiving"} => i' < pointer,
         phase # 1 \/ UNCHANGED <<place, i>>
  PROVE  SlotsInv'
<1>1. SlotsHoldConnections'
  <2> DEFINE fd(k) == tester'[k].fd
             gd(k) == tester[k].fd
  <2>1. pointer' = pointer /\ \A k \in 1..(pointer - 1) : k \in 1..Max_Clients
    BY LegacyConstants DEF SlotsInv, ArrayOK
  <2>2. \A k \in 1..(pointer - 1) : fd(k) = gd(k)
    BY <2>1
  <2>3. /\ {gd(k) : k \in 1..(pointer - 1)} = {c \in Conns : socket'[c] = "open"}
        /\ \A k, l \in 1..(pointer - 1) : gd(k) = gd(l) => k = l
    BY DEF SlotsInv, SlotsHoldConnections
  <2>4. {fd(k) : k \in 1..(pointer - 1)} = {gd(k) : k \in 1..(pointer - 1)}
    <3> HIDE DEF fd, gd
    <3> QED
      BY <2>2
  <2> QED
    BY <2>1, <2>2, <2>3, <2>4 DEF SlotsHoldConnections
<1>2. QueueOK'
  BY DEF SlotsInv, QueueOK
<1>3. ArrayOK'
  BY DEF SlotsInv, ArrayOK
<1>4. FirstPhase'
  BY DEF SlotsInv, FirstPhase
<1> QED
  BY <1>1, <1>2, <1>3, <1>4 DEF SlotsInv, Places

\* Phase 1 has no loop over slots and receives nothing.
LEMMA LaterPhase ==
  ASSUME SlotsInv, place \in {"slots", "receiving"}
  PROVE  phase # 1
BY DEF SlotsInv, FirstPhase

LEMMA AcceptStepsKeep ==
  ASSUME SlotsInv, AcceptOne \/ Accept \/ Poll, UNCHANGED <<phase, ended>>
  PROVE  SlotsInv'
<1>1. /\ place = "poll" /\ Running /\ ArrayOK /\ DOMAIN tester = 1..Max_Clients
      /\ \A k \in 1..Max_Clients : DOMAIN tester[k] = {"fd", "revents"}
      /\ phase \in 1..4 /\ pointer \in 1..(Max_Clients + 1) /\ Max_Clients \in Nat
  BY LegacyConstants DEF SlotsInv, ArrayOK, AcceptOne, Accept, Poll
<1>2. ASSUME NEW slots, DOMAIN slots = 1..Max_Clients, backlog # <<>>,
             \A k \in 1..Max_Clients : DOMAIN slots[k] = {"fd", "revents"} /\ slots[k].fd = tester[k].fd,
             Accepted(slots, Head(backlog)),
             \/ phase = 1 /\ place' = "sending" /\ i' = i
             \/ phase # 1 /\ place' = "slots" /\ i' = 1
      PROVE  SlotsInv'
  <2>1. /\ SlotsHoldConnections' /\ QueueOK'
        /\ pointer' \in 2..(Max_Clients + 1) /\ pointer' = pointer + 1
        /\ DOMAIN tester' = 1..Max_Clients
        /\ \A k \in DOMAIN tester' : DOMAIN tester'[k] = {"fd", "revents"}
        /\ socket' = [socket EXCEPT ![Head(backlog)] = "open"]
    BY <1>1, <1>2, AcceptedKeeps
  <2>2. socket' \in [Conns -> {"none", "queued", "open", "closed", "lost"}]
    BY <2>1 DEF SlotsInv
  <2>3. phase = 1 => i' = 1 /\ place' = "sending"
    BY <1>2 DEF SlotsInv, FirstPhase
  <2>4. ArrayOK'
    BY <1>1, <1>2, <2>1, <2>3 DEF ArrayOK
  <2>5. FirstPhase'
    BY <1>1, <2>1, <2>3 DEF SlotsInv, FirstPhase
  <2>6. place' \in Places /\ phase' \in 1..4 /\ DOMAIN ended' = Conns
    BY <1>1, <1>2 DEF SlotsInv, Places
  <2> QED
    BY <2>1, <2>2, <2>4, <2>5, <2>6 DEF SlotsInv
<1>3. CASE AcceptOne
  BY <1>1, <1>2, <1>3 DEF AcceptOne
<1>4. CASE Accept
  <2> DEFINE slots == [tester EXCEPT ![1].revents = TRUE]
  <2>1. DOMAIN slots = 1..Max_Clients
    BY <1>1
  <2>2. \A k \in 1..Max_Clients : DOMAIN slots[k] = {"fd", "revents"} /\ slots[k].fd = tester[k].fd
    BY <1>1
  <2>3. /\ backlog # <<>> /\ Accepted(slots, Head(backlog)) /\ phase # 1 /\ place' = "slots" /\ i' = 1
    BY <1>4 DEF Accept
  <2> HIDE DEF slots
  <2> QED
    BY <1>2, <2>1, <2>2, <2>3
<1>5. CASE Poll
  <2> DEFINE slots == Polled
  <2>1. DOMAIN slots = 1..Max_Clients
    BY <1>1 DEF Polled
  <2>2. \A k \in 1..Max_Clients : DOMAIN slots[k] = {"fd", "revents"} /\ slots[k].fd = tester[k].fd
    BY <1>1 DEF Polled
  <2>3. /\ \/ backlog # <<>> /\ Accepted(slots, Head(backlog))
           \/ tester' = slots /\ UNCHANGED <<pointer, socket, backlog>>
        /\ phase > 2 /\ place' = "slots" /\ i' = 1
    BY <1>5 DEF Poll
  <2> HIDE DEF slots
  <2>4. CASE backlog # <<>> /\ Accepted(slots, Head(backlog))
    BY <1>1, <1>2, <2>1, <2>2, <2>3, <2>4
  <2>5. CASE tester' = slots /\ UNCHANGED <<pointer, socket, backlog>>
    <3>1. /\ DOMAIN tester' = 1..Max_Clients
          /\ \A k \in 1..Max_Clients : DOMAIN tester'[k] = {"fd", "revents"} /\ tester'[k].fd = tester[k].fd
          /\ UNCHANGED <<phase, pointer, socket, backlog, ended>>
          /\ place' \in {"poll", "slots", "sending", "receiving"} /\ i' \in Nat \ {0} /\ phase # 1
          /\ place' \notin {"sending", "receiving"}
      BY <1>1, <2>1, <2>2, <2>3, <2>5 DEF Places
    <3> QED
      BY <1>1, <3>1, SameSlotsKeep
  <2> QED
    BY <2>3, <2>4, <2>5
<1> QED
  BY <1>3, <1>4, <1>5

\* A step that leaves the whole array as it is, and makes a transfer of the slot it is at.
LEMMA SameArrayKeeps ==
  ASSUME SlotsInv, UNCHANGED <<phase, tester, pointer, i, socket, backlog, ended>>,
         Running, i < pointer, place' \in {"sending", "receiving"}, phase # 1 \/ UNCHANGED place
  PROVE  SlotsInv'
<1>1. /\ DOMAIN tester' = 1..Max_Clients
      /\ \A k \in 1..Max_Clients : DOMAIN tester'[k] = {"fd", "revents"} /\ tester'[k].fd = tester[k].fd
      /\ i' \in Nat \ {0} /\ i' < pointer
      /\ place' \in {"poll", "slots", "sending", "receiving"}
      /\ phase # 1 \/ UNCHANGED <<place, i>>
  BY DEF SlotsInv, ArrayOK, Places
<1> QED
  BY <1>1, SameSlotsKeep

LEMMA CloseKeeps ==
  ASSUME SlotsInv, Running, i < pointer, Close(Current), phase # 1,
         UNCHANGED <<backlog, phase, ended>>
  PROVE  SlotsInv'
BY RemoveKeeps DEF Close

LEMMA NextSlotKeeps ==
  ASSUME SlotsInv, NextSlot, UNCHANGED <<phase, ended>>
  PROVE  SlotsInv'
<1>1. /\ DOMAIN tester' = 1..Max_Clients
      /\ \A k \in 1..Max_Clients : DOMAIN tester'[k] = {"fd", "revents"} /\ tester'[k].fd = tester[k].fd
      /\ i' \in Nat \ {0} /\ Running
      /\ place' \in {"poll", "slots", "sending", "receiving"} /\ place' \notin {"sending", "receiving"}
      /\ phase # 1
      /\ UNCHANGED <<phase, pointer, socket, backlog, ended>>
  BY LaterPhase DEF NextSlot, SlotsInv, ArrayOK, Places
<1> QED
  BY <1>1, SameSlotsKeep

LEMMA OverflowKeeps ==
  ASSUME SlotsInv, Overflow, UNCHANGED <<phase, ended>>
  PROVE  SlotsInv'
<1>1. /\ phase > 2 /\ place' = "undefined"
      /\ UNCHANGED <<phase, tester, pointer, i, socket, backlog, ended>>
  BY DEF Overflow
<1>2. ArrayOK'
  BY <1>1 DEF SlotsInv, ArrayOK
<1>3. FirstPhase'
  BY <1>1 DEF SlotsInv, FirstPhase
<1> QED
  BY <1>1, <1>2, <1>3 DEF SlotsInv, Places, SlotsHoldConnections

LEMMA AtRequestIs ==
  ASSUME SlotsInv, AtRequest
  PROVE  place = "slots" /\ Running /\ i < pointer /\ phase # 1
BY LaterPhase DEF AtRequest

LEMMA ObeyKeeps ==
  ASSUME SlotsInv, AtRequest, NEW q, Obey(Current, q), UNCHANGED <<backlog, phase, ended>>
  PROVE  SlotsInv'
<1>1. place = "slots" /\ Running /\ i < pointer /\ phase # 1
  BY AtRequestIs
<1>2. CASE Retrieve(q)
  BY <1>1, <1>2, SameArrayKeeps DEF Retrieve
<1>3. CASE Refuse(Current, q)
  BY <1>1, <1>3, CloseKeeps DEF Refuse
<1>4. CASE FailToOpen(q)
  BY <1>4, EndKeeps DEF FailToOpen, End
<1>5. CASE Store(q)
  BY <1>1, <1>5, SameArrayKeeps DEF Store
<1>6. CASE Forget(Current, q)
  BY <1>1, <1>6, RemoveKeeps DEF Forget
<1> QED
  BY <1>2, <1>3, <1>4, <1>5, <1>6 DEF Obey

LEMMA RequestKeeps ==
  ASSUME SlotsInv, Request \/ RequestMissing \/ RequestFails, UNCHANGED <<phase, ended>>
  PROVE  SlotsInv'
<1>1. AtRequest /\ UNCHANGED <<backlog, phase, ended>>
  BY DEF Request, RequestMissing, RequestFails
<1>2. \/ \E q : Obey(Current, q)
      \/ Exit
      \/ Close(Current)
  BY DEF Request, RequestMissing, RequestFails, End
<1> QED
  BY <1>1, <1>2, ObeyKeeps, EndKeeps, CloseKeeps, AtRequestIs

LEMMA SendKeeps ==
  ASSUME SlotsInv, Send, UNCHANGED <<phase, ended>>
  PROVE  SlotsInv'
<1>1. /\ place = "sending" /\ Running /\ i < pointer /\ UNCHANGED <<backlog, phase, ended>>
      /\ pointer \in Nat /\ i \in Nat /\ i >= 1
  BY LegacyConstants DEF Send, SlotsInv, ArrayOK
<1>2. \/ UNCHANGED <<place, tester, pointer, i, socket>>
      \/ phase # 1 /\ Close(Current)
      \/ Exit
  BY DEF Send, End
<1> QED
  BY <1>1, <1>2, SameArrayKeeps, CloseKeeps, EndKeeps

LEMMA ReceiveKeeps ==
  ASSUME SlotsInv, Receive, UNCHANGED <<phase, ended>>
  PROVE  SlotsInv'
<1>1. /\ place = "receiving" /\ Running /\ i < pointer /\ phase # 1
      /\ UNCHANGED <<backlog, phase, ended>>
  BY LaterPhase DEF Receive, SlotsInv, ArrayOK
<1>2. UNCHANGED <<place, tester, pointer, i, socket>> \/ Close(Current) \/ Exit
  BY DEF Receive, End
<1> QED
  BY <1>1, <1>2, SameArrayKeeps, CloseKeeps, EndKeeps

LEMMA ConnectKeeps ==
  ASSUME SlotsInv, Running, NEW c \in Conns, ConnectTo(c), UNCHANGED phase
  PROVE  SlotsInv'
<1>1. /\ socket[c] = "none" /\ Running /\ socket' = [socket EXCEPT ![c] = "queued"]
      /\ backlog' = Append(backlog, c)
      /\ UNCHANGED <<phase, place, tester, pointer, i, ended>>
      /\ QueueOK /\ SlotsHoldConnections /\ ArrayOK /\ FirstPhase
      /\ socket \in [Conns -> {"none", "queued", "open", "closed", "lost"}]
  BY DEF ConnectTo, clientVars, SlotsInv
<1>2. SlotsHoldConnections'
  <2>1. {d \in Conns : socket'[d] = "open"} = {d \in Conns : socket[d] = "open"}
    BY <1>1
  <2> QED
    BY <1>1, <2>1 DEF SlotsHoldConnections
<1>3. QueueOK'
  <2> DEFINE n == Len(backlog)
  <2>1. /\ backlog' \in Seq(Conns) /\ n \in Nat /\ DOMAIN backlog = 1..n /\ DOMAIN backlog' = 1..(n + 1)
        /\ backlog'[n + 1] = c
        /\ \A k \in 1..n : backlog'[k] = backlog[k] /\ backlog[k] \in Conns
    BY <1>1, AppendProperties, LenProperties DEF QueueOK
  <2> HIDE DEF n
  <2>2. \A k \in 1..n : backlog[k] # c /\ socket'[backlog[k]] = "queued"
    BY <1>1, <2>1 DEF QueueOK
  <2>3. \A k \in 1..(n + 1) : k \in 1..n \/ k = n + 1
    BY <2>1
  <2>4. \A k, l \in 1..n : backlog[k] = backlog[l] => k = l
    BY <1>1, <2>1 DEF QueueOK
  <2>5. \A k \in 1..(n + 1) : socket'[backlog'[k]] = "queued"
    BY <1>1, <2>1, <2>2, <2>3
  <2>6. \A k, l \in 1..(n + 1) : backlog'[k] = backlog'[l] => k = l
    BY <2>1, <2>2, <2>3, <2>4
  <2> QED
    BY <2>1, <2>5, <2>6 DEF QueueOK
<1> QED
  BY <1>1, <1>2, <1>3 DEF SlotsInv, ArrayOK, FirstPhase

LEMMA ClientKeeps ==
  ASSUME SlotsInv, NEW c \in Conns, ClientStep(c)
  PROVE  SlotsInv'
<1>1. CASE ConnectTo(c)
  BY <1>1, ConnectKeeps DEF ClientStep
<1>2. ASSUME UNCHANGED <<phase, serverVars>>, DOMAIN ended' = Conns
      PROVE  SlotsInv'
  <2>1. UNCHANGED <<phase, place, tester, pointer, i, backlog, socket>>
    BY <1>2 DEF serverVars
  <2>2. ArrayOK'
    BY <2>1 DEF SlotsInv, ArrayOK
  <2>3. FirstPhase'
    BY <1>2, <2>1 DEF SlotsInv, FirstPhase
  <2>4. SlotsHoldConnections' /\ (Running' => QueueOK')
    BY <2>1 DEF SlotsInv, SlotsHoldConnections, QueueOK
  <2> QED
    BY <1>2, <2>1, <2>2, <2>3, <2>4 DEF SlotsInv
<1>3. CASE ClientSend(c) \/ ClientReceive(c)
  BY <1>2, <1>3 DEF ClientSend, ClientReceive, ClientStep, SlotsInv, FirstPhase
<1>4. CASE ClientEnd(c)
  <2>1. UNCHANGED <<phase, serverVars>> /\ ended' = [ended EXCEPT ![c] = TRUE]
    BY <1>4 DEF ClientEnd, ClientStep
  <2> QED
    BY <1>2, <2>1 DEF SlotsInv
<1> QED
  BY <1>1, <1>3, <1>4 DEF ClientStep

-----------------------------------------------------------------------------
LEMMA InitSlotsInv == Init => SlotsInv
<1> SUFFICES ASSUME Init
             PROVE  SlotsInv
  OBVIOUS
<1>1. /\ phase \in 1..4 /\ place \in Places
      /\ socket \in [Conns -> {"none", "queued", "open", "closed", "lost"}]
      /\ DOMAIN ended = Conns
  BY LegacyConstants DEF Init, Places
<1>2. pointer = 1 /\ i = 1 /\ 1..(pointer - 1) = {} /\ backlog = <<>>
  BY DEF Init
<1>3. SlotsHoldConnections
  BY <1>2 DEF Init, SlotsHoldConnections
<1>4. ArrayOK
  <2> DEFINE B == IF phase > 2 THEN BOOLEAN ELSE {FALSE}
  <2>1. tester \in [1..Max_Clients -> [fd : {None}, revents : B]] /\ place \notin {"sending", "receiving"}
    BY DEF Init
  <2> HIDE DEF B
  <2>2. \A k \in 1..Max_Clients : DOMAIN tester[k] = {"fd", "revents"}
    BY <2>1
  <2> QED
    BY <1>2, <2>1, <2>2, LegacyConstants DEF ArrayOK
<1>5. FirstPhase
  BY <1>2 DEF Init, FirstPhase
<1>6. QueueOK
  BY <1>2 DEF QueueOK
<1> QED
  BY <1>1, <1>3, <1>4, <1>5, <1>6 DEF SlotsInv

LEMMA NextKeepsSlotsInv == SlotsInv /\ [Next]_vars => SlotsInv'
<1> SUFFICES ASSUME SlotsInv, [Next]_vars
             PROVE  SlotsInv'
  OBVIOUS
<1>1. CASE UNCHANGED vars
  <2>1. UNCHANGED <<phase, place, tester, pointer, i, backlog, socket, ended>>
    BY <1>1 DEF vars, serverVars, clientVars
  <2>2. ArrayOK' /\ FirstPhase'
    BY <2>1 DEF SlotsInv, ArrayOK, FirstPhase
  <2>3. SlotsHoldConnections' /\ (Running' => QueueOK')
    BY <2>1 DEF SlotsInv, SlotsHoldConnections, QueueOK
  <2> QED
    BY <2>1, <2>2, <2>3 DEF SlotsInv
<1>2. CASE ServerStep
  <2>1. UNCHANGED <<phase, ended>>
    BY <1>2 DEF ServerStep, clientVars
  <2> QED
    BY <1>2, <2>1, AcceptStepsKeep, OverflowKeeps, NextSlotKeeps, RequestKeeps, SendKeeps,
       ReceiveKeeps, EndKeeps
       DEF ServerStep, AcceptFails, End
<1>3. CASE \E c \in Conns : ClientStep(c)
  BY <1>3, ClientKeeps
<1> QED
  BY <1>1, <1>2, <1>3 DEF Next

\* Whatever the order in which clients connect, ask and leave, the slots in use hold
\* the open connections, each once: handle of phases 3 and 4 neither loses nor doubles
\* a client when it moves the last slot over the served one.
THEOREM SlotsStayRight == Spec => []SlotsHoldConnections
<1>1. Spec => []SlotsInv
  BY InitSlotsInv, NextKeepsSlotsInv, PTL DEF Spec
<1>2. SlotsInv => SlotsHoldConnections
  BY DEF SlotsInv
<1> QED
  BY <1>1, <1>2, PTL

-----------------------------------------------------------------------------
(***************************************************************************)
(* The transfers.                                                          *)
(***************************************************************************)
Bytes ==
  (UNION {{InitialFiles[n][k] : k \in DOMAIN InitialFiles[n]} : n \in DOMAIN InitialFiles})
    \cup (Conns \X Nat) \cup AnyRequest

\* What is taken of a stream has been offered.
FlowOK ==
  /\ plan \in [Conns -> AnyRequest]
  /\ offered \in [Conns -> Nat] /\ consumed \in [Conns -> Nat]
  /\ \A c \in Conns : consumed[c] <= offered[c] /\ offered[c] <= Len(Stream(c))
  /\ delivered \in [Conns -> Seq(Bytes)]
  /\ \A n \in DOMAIN stored : stored[n] \in Seq(Bytes)
  /\ place = "sending" => data \in Seq(Bytes)
  /\ place = "receiving" => data \in DOMAIN stored /\ phase = 4
  /\ phase = 1 /\ place # "ended" => ServedFile \in DOMAIN stored

\* Nothing has been read from a connection or sent to it before its turn.
AtWork(c) == place \in {"sending", "receiving"} /\ c = Current
Fresh ==
  \A c \in Conns :
    socket[c] \in {"none", "queued", "open"} /\ ~AtWork(c) => consumed[c] = 0 /\ delivered[c] = <<>>

Wanted(c) == IF phase = 1 THEN ServedFile ELSE plan[c].name
SendingOK ==
  place = "sending" /\ ~ended[Current] => delivered[Current] \o data = stored[Wanted(Current)]

\* The file holds what has come, but for what was taken together with the request; who
\* was taken for the request of another has left and sends nothing.
ReceivingOK ==
  place = "receiving" =>
    /\ consumed[Current] = 0 => ended[Current] /\ offered[Current] = 0
    /\ consumed[Current] > 0 =>
         /\ behind \in Nat /\ behind + 1 <= consumed[Current]
         /\ data = plan[Current].name
         /\ stored[data] = SubSeq(Stream(Current), behind + 2, consumed[Current])

TransferInv == SlotsInv /\ FlowOK /\ Fresh /\ SendingOK /\ ReceivingOK

-----------------------------------------------------------------------------
LEMMA CurrentIsOpen ==
  ASSUME SlotsInv, Running, i < pointer
  PROVE  Current \in Conns /\ socket[Current] = "open"
<1>1. i \in 1..(pointer - 1)
  BY LegacyConstants DEF SlotsInv, ArrayOK
<1> QED
  BY <1>1 DEF SlotsInv, SlotsHoldConnections, Current

LEMMA StreamIs ==
  ASSUME NEW c \in Conns, plan \in [Conns -> AnyRequest]
  PROVE  /\ Stream(c) \in Seq(Bytes)
         /\ Stream(c) # <<>> => Stream(c)[1] = plan[c]
<1>1. plan[c] \in AnyRequest /\ plan[c] \in Bytes /\ plan[c].size \in Nat
  BY LegacyFiles DEF AnyRequest, Bytes
<1> DEFINE n == plan[c].size
           u == Upload(c)
           p == plan[c]
           v == IF plan[c].op = "put" THEN u ELSE <<>>
<1>2. v \in Seq(Bytes)
  <2>1. \A k \in 1..n : <<c, k>> \in Bytes
    BY <1>1 DEF Bytes
  <2>2. u \in [1..n -> Bytes]
    BY <2>1 DEF Upload
  <2>3. u \in Seq(Bytes)
    BY <1>1, <2>2
  <2> HIDE DEF u
  <2> QED
    BY <2>3
<1>3. Stream(c) = <<>> \/ Stream(c) = <<p>> \o v
  BY DEF Stream
<1>4. p \in Bytes
  BY <1>1
<1> HIDE DEF p, v
<1>5. <<p>> \o v \in Seq(Bytes) /\ (<<p>> \o v)[1] = p
  BY <1>2, <1>4
<1>6. <<>> \in Seq(Bytes)
  OBVIOUS
<1> QED
  BY <1>3, <1>5, <1>6 DEF p

LEMMA ChunkIs ==
  ASSUME NEW c \in Conns, FlowOK
  PROVE  /\ Chunk(c) \in Seq(Bytes) /\ Len(Chunk(c)) \in Nat /\ Len(Chunk(c)) <= BufferSize
         /\ consumed[c] + Len(Chunk(c)) <= offered[c]
         /\ Chunk(c) = <<>> => consumed[c] = offered[c]
         /\ Chunk(c) # <<>> => Len(Chunk(c)) >= 1
         /\ \A k \in 1..Len(Chunk(c)) : Chunk(c)[k] = Stream(c)[consumed[c] + k]
<1> DEFINE s == Stream(c)
           m == consumed[c]
           n == IF Waiting(c) < BufferSize THEN Waiting(c) ELSE BufferSize
           w == Waiting(c)
<1>1. s \in Seq(Bytes) /\ m \in Nat /\ offered[c] \in Nat /\ m <= offered[c] /\ offered[c] <= Len(s)
  BY StreamIs DEF FlowOK
<1>2. w = offered[c] - m /\ w \in Nat
  BY <1>1 DEF Waiting
<1>3. BufferSize \in Nat /\ BufferSize >= 1
  BY LegacyConstants
<1>4. n \in Nat /\ n <= BufferSize /\ m + n <= offered[c] /\ (n = 0 => m = offered[c])
  BY <1>1, <1>2, <1>3
<1>5. Chunk(c) = SubSeq(s, m + 1, m + n)
  BY DEF Chunk
<1> HIDE DEF s, m, n, w
<1>6. /\ SubSeq(s, m + 1, m + n) \in Seq(Bytes) /\ Len(SubSeq(s, m + 1, m + n)) = n
      /\ \A k \in 1..n : SubSeq(s, m + 1, m + n)[k] = s[m + k]
  <2>1. Len(s) \in Nat /\ m + n <= Len(s)
    BY <1>1, <1>4
  <2> QED
    BY <1>1, <1>4, <2>1
<1>7. Chunk(c) = <<>> => n = 0
  BY <1>5, <1>6
<1>8. Chunk(c) # <<>> => n # 0
  <2>1. n = 0 => Chunk(c) = <<>>
    BY <1>5, <1>6, EmptySeq
  <2> QED
    BY <2>1
<1> QED
  BY <1>4, <1>5, <1>6, <1>7, <1>8 DEF s, m

LEMMA TakeIs ==
  ASSUME NEW c \in Conns, FlowOK, Take(c), UNCHANGED offered
  PROVE  /\ consumed' \in [Conns -> Nat] /\ \A d \in Conns : consumed'[d] <= offered'[d]
         /\ \A d \in Conns \ {c} : consumed'[d] = consumed[d]
         /\ consumed'[c] = consumed[c] + Len(Chunk(c))
<1>1. /\ Len(Chunk(c)) \in Nat /\ consumed[c] + Len(Chunk(c)) <= offered[c]
      /\ consumed \in [Conns -> Nat] /\ \A d \in Conns : consumed[d] <= offered[d]
  BY ChunkIs DEF FlowOK
<1>2. consumed' = [consumed EXCEPT ![c] = consumed[c] + Len(Chunk(c))]
  BY DEF Take
<1> HIDE DEF Chunk
<1> QED
  BY <1>1, <1>2

\* Steps after which no transfer is under way.
Leaves(d) ==
  socket'[d] \in {"none", "queued", "open"} =>
    socket[d] \in {"none", "queued", "open"} /\ ~AtWork(d) /\ consumed'[d] = consumed[d]

LEMMA LeavingKeeps ==
  ASSUME TransferInv, SlotsInv', place' \in {"poll", "slots", "ended", "undefined"},
         UNCHANGED <<phase, plan, offered, ended, delivered>>,
         DOMAIN stored \subseteq DOMAIN stored', \A n \in DOMAIN stored' : stored'[n] \in Seq(Bytes),
         consumed' \in [Conns -> Nat], \A d \in Conns : consumed'[d] <= offered[d],
         phase = 1 => place # "ended" \/ place' = "ended",
         \A d \in Conns : Leaves(d)
  PROVE  TransferInv'
<1>1. \A d \in Conns : Stream(d)' = Stream(d)
  BY DEF Stream, Upload
<1>2. FlowOK'
  BY <1>1 DEF TransferInv, FlowOK
<1>3. Fresh'
  BY DEF TransferInv, Fresh, Leaves
<1>4. SendingOK' /\ ReceivingOK'
  BY DEF SendingOK, ReceivingOK
<1> QED
  BY <1>2, <1>3, <1>4 DEF TransferInv

LEMMA SameFiles ==
  ASSUME FlowOK, stored' = stored
  PROVE  DOMAIN stored \subseteq DOMAIN stored' /\ \A n \in DOMAIN stored' : stored'[n] \in Seq(Bytes)
BY DEF FlowOK

LEMMA TruncateKeeps ==
  ASSUME FlowOK, NEW n, Truncate(n)
  PROVE  /\ DOMAIN stored' = DOMAIN stored \cup {n} /\ stored'[n] = <<>>
         /\ \A m \in DOMAIN stored' : stored'[m] \in Seq(Bytes)
<1>1. <<>> \in Seq(Bytes)
  OBVIOUS
<1> QED
  BY <1>1 DEF Truncate, FlowOK

\* The served connection is closed, or forgotten, or all are closed, after something
\* was read from it or not.
LEMMA EndingKeeps ==
  ASSUME TransferInv, SlotsInv', Running, i < pointer,
         \/ Exit /\ (UNCHANGED stored \/ \E n : Truncate(n))
         \/ Close(Current)
         \/ \E c : c = Current /\ Remove /\ socket' = [socket EXCEPT ![c] = "lost"]
                     /\ UNCHANGED <<stored, delivered>>,
         Take(Current) \/ UNCHANGED consumed,
         UNCHANGED <<phase, plan, offered, ended>>
  PROVE  TransferInv'
<1> DEFINE c == Current
<1>1. /\ c \in Conns /\ socket[c] = "open" /\ SlotsInv /\ FlowOK
      /\ socket \in [Conns -> {"none", "queued", "open", "closed", "lost"}]
  BY CurrentIsOpen DEF TransferInv, SlotsInv
<1> HIDE DEF c
<1>2. /\ consumed' \in [Conns -> Nat] /\ \A d \in Conns : consumed'[d] <= offered[d]
      /\ \A d \in Conns \ {c} : consumed'[d] = consumed[d]
  <2>1. CASE Take(c)
    BY <1>1, <2>1, TakeIs
  <2>2. CASE UNCHANGED consumed
    BY <1>1, <2>2 DEF FlowOK
  <2> QED
    BY <2>1, <2>2 DEF c
<1>3. \/ place' = "ended" /\ socket' = [d \in Conns |-> IF socket[d] = "none" THEN "none" ELSE "closed"]
      \/ /\ place' = "slots"
         /\ \E how \in {"closed", "lost"} : socket' = [socket EXCEPT ![c] = how]
  BY DEF Exit, Close, Remove, c
<1>4. UNCHANGED delivered /\ (UNCHANGED stored \/ \E n : Truncate(n))
  BY DEF Exit, Close
<1>5. /\ DOMAIN stored \subseteq DOMAIN stored'
      /\ \A n \in DOMAIN stored' : stored'[n] \in Seq(Bytes)
  BY <1>1, <1>4, SameFiles, TruncateKeeps
<1>6. \A d \in Conns : Leaves(d)
  BY <1>1, <1>2, <1>3 DEF Leaves, AtWork, c
<1>7. place' \in {"poll", "slots", "ended", "undefined"} /\ (phase = 1 => place # "ended" \/ place' = "ended")
  BY <1>3
<1> QED
  BY <1>2, <1>4, <1>5, <1>6, <1>7, LeavingKeeps

LEMMA IdleStepsKeep ==
  ASSUME TransferInv, SlotsInv', Accept \/ AcceptFails \/ Poll \/ Overflow \/ NextSlot,
         UNCHANGED <<phase, plan, offered, ended>>
  PROVE  TransferInv'
<1>1. /\ place \in {"poll", "slots"} /\ place' \in {"poll", "slots", "ended", "undefined"}
      /\ UNCHANGED <<stored, delivered, consumed>>
      /\ \/ /\ backlog # <<>> /\ pointer <= Max_Clients
            /\ socket' = [socket EXCEPT ![Head(backlog)] = "open"]
         \/ UNCHANGED socket
         \/ socket' = [d \in Conns |-> IF socket[d] = "none" THEN "none" ELSE "closed"]
  BY DEF Accept, AcceptFails, End, Exit, Poll, Overflow, NextSlot, Accepted
<1>2. /\ SlotsInv /\ FlowOK /\ socket \in [Conns -> {"none", "queued", "open", "closed", "lost"}]
  BY DEF TransferInv, SlotsInv
<1>3. backlog # <<>> /\ pointer <= Max_Clients =>
        Head(backlog) \in Conns /\ socket[Head(backlog)] = "queued"
  BY <1>1, <1>2, SlotIsFree
<1>4. \A d \in Conns : Leaves(d)
  BY <1>1, <1>2, <1>3 DEF Leaves, AtWork
<1>5. consumed' \in [Conns -> Nat] /\ \A d \in Conns : consumed'[d] <= offered[d]
  BY <1>1, <1>2 DEF FlowOK
<1> QED
  BY <1>1, <1>2, <1>4, <1>5, SameFiles, LeavingKeeps

LEMMA AcceptOneTransfer ==
  ASSUME TransferInv, SlotsInv', AcceptOne, UNCHANGED <<phase, plan, offered, ended>>
  PROVE  TransferInv'
<1> DEFINE c == Head(backlog)
<1>1. /\ phase = 1 /\ place = "poll" /\ place' = "sending" /\ data' = stored[ServedFile]
      /\ UNCHANGED <<stored, delivered, consumed>> /\ i' = i /\ backlog # <<>>
      /\ pointer <= Max_Clients
      /\ tester' = [tester EXCEPT ![pointer].fd = c] /\ socket' = [socket EXCEPT ![c] = "open"]
  BY DEF AcceptOne, Accepted
<1>2. /\ SlotsInv /\ FlowOK /\ Fresh
      /\ socket \in [Conns -> {"none", "queued", "open", "closed", "lost"}]
      /\ i = 1 /\ pointer = 1 /\ ~AtWork(c)
  BY <1>1 DEF TransferInv, SlotsInv, FirstPhase, AtWork
<1>3. c \in Conns /\ socket[c] = "queued" /\ pointer \in 1..Max_Clients
  BY <1>1, <1>2, SlotIsFree
<1>4. Current' = c
  BY <1>1, <1>2, <1>3 DEF Current, SlotsInv, ArrayOK
<1>5. consumed[c] = 0 /\ delivered[c] = <<>>
  BY <1>2, <1>3 DEF Fresh
<1>6. \A d \in Conns : Stream(d)' = Stream(d)
  BY DEF Stream, Upload
<1>7. FlowOK'
  BY <1>1, <1>2, <1>6 DEF FlowOK
<1>8. Fresh'
  BY <1>1, <1>2, <1>3, <1>4, <1>5 DEF Fresh, AtWork
<1>9. SendingOK'
  <2>1. stored[ServedFile] \in Seq(Bytes)
    BY <1>1, <1>2 DEF FlowOK
  <2>2. PICK f \in Seq(Bytes) : f = stored[ServedFile]
    BY <2>1
  <2>3. <<>> \o f = f
    OBVIOUS
  <2> QED
    BY <1>1, <1>4, <1>5, <2>2, <2>3 DEF SendingOK, Wanted
<1>10. ReceivingOK'
  BY <1>1 DEF ReceivingOK
<1> QED
  BY <1>7, <1>8, <1>9, <1>10 DEF TransferInv

\* Nothing was read before; what is read now is the request of the connection, if
\* anything is, and else its client has left.
LEMMA RequestIsRead ==
  ASSUME TransferInv, AtRequest
  PROVE  /\ Current \in Conns /\ socket[Current] = "open" /\ phase # 1 /\ i < pointer /\ Running
         /\ consumed[Current] = 0 /\ delivered[Current] = <<>>
         /\ Chunk(Current) # <<>> => Chunk(Current)[1] = plan[Current]
         /\ Chunk(Current) = <<>> => ended[Current] /\ offered[Current] = 0
<1> DEFINE c == Current
<1>1. /\ c \in Conns /\ socket[c] = "open" /\ SlotsInv /\ FlowOK /\ phase # 1 /\ i < pointer /\ Running
      /\ place = "slots" /\ plan \in [Conns -> AnyRequest]
  BY CurrentIsOpen, AtRequestIs DEF TransferInv, FlowOK
<1>2. consumed[c] = 0 /\ delivered[c] = <<>>
  BY <1>1 DEF TransferInv, Fresh, AtWork
<1>3. Ready(c) /\ offered[c] \in Nat /\ offered[c] <= Len(Stream(c))
  BY <1>1 DEF FlowOK, AtRequest
<1> HIDE DEF c
<1>4. CASE Chunk(c) = <<>>
  <2>1. offered[c] = 0 /\ ended[c]
    BY <1>1, <1>2, <1>3, <1>4, ChunkIs DEF Ready, Waiting
  <2> QED
    BY <1>1, <1>2, <1>4, <2>1 DEF c
<1>5. CASE Chunk(c) # <<>>
  <2>1. /\ Len(Chunk(c)) >= 1 /\ Len(Chunk(c)) \in Nat /\ Len(Chunk(c)) <= offered[c]
        /\ Chunk(c)[1] = Stream(c)[1]
    <3>1. /\ Len(Chunk(c)) >= 1 /\ Len(Chunk(c)) \in Nat /\ 0 + Len(Chunk(c)) <= offered[c]
          /\ \A k \in 1..Len(Chunk(c)) : Chunk(c)[k] = Stream(c)[0 + k]
      BY <1>1, <1>2, <1>5, ChunkIs
    <3>2. 1 \in 1..Len(Chunk(c)) /\ 0 + 1 = 1
      BY <3>1
    <3>3. Chunk(c)[1] = Stream(c)[0 + 1]
      BY <3>1, <3>2
    <3> QED
      BY <3>1, <3>2, <3>3
  <2>2. Stream(c) # <<>>
    <3>1. Len(Stream(c)) # 0
      BY <1>3, <2>1
    <3> QED
      BY <3>1
  <2>3. Stream(c)[1] = plan[c]
    BY <1>1, <2>2, StreamIs
  <2> QED
    BY <1>1, <1>2, <1>5, <2>1, <2>3 DEF c
<1> QED
  BY <1>4, <1>5 DEF c

\* The transfer begins for the request that was read, or for one that was not, of a
\* client that has left.
Taken(q) ==
  \/ Chunk(Current) # <<>> /\ Take(Current) /\ q = Chunk(Current)[1] /\ behind' = Len(Chunk(Current)) - 1
  \/ ended[Current] /\ UNCHANGED consumed /\ (phase = 4 => Chunk(Current) = <<>>)

LEMMA TakenIs ==
  ASSUME TransferInv, AtRequest, NEW q, Taken(q), UNCHANGED offered
  PROVE  /\ ~ended[Current] => q = plan[Current]
         /\ consumed' \in [Conns -> Nat] /\ \A d \in Conns : consumed'[d] <= offered'[d]
         /\ \A d \in Conns \ {Current} : consumed'[d] = consumed[d]
         /\ phase = 4 => \/ consumed'[Current] = 0 /\ ended[Current] /\ offered[Current] = 0
                         \/ /\ q = plan[Current] /\ behind' \in Nat /\ consumed'[Current] = behind' + 1
                            /\ consumed'[Current] \in Nat
<1> DEFINE c == Current
<1>1. c \in Conns /\ FlowOK /\ consumed[c] = 0
  BY RequestIsRead DEF TransferInv
<1>2. CASE Chunk(c) # <<>> /\ Take(c) /\ q = Chunk(c)[1] /\ behind' = Len(Chunk(c)) - 1
  <2>1. Len(Chunk(c)) \in Nat /\ Len(Chunk(c)) >= 1 /\ q = plan[c]
    BY <1>1, <1>2, ChunkIs, RequestIsRead
  <2>2. /\ consumed' \in [Conns -> Nat] /\ \A d \in Conns : consumed'[d] <= offered'[d]
        /\ \A d \in Conns \ {c} : consumed'[d] = consumed[d]
        /\ consumed'[c] = 0 + Len(Chunk(c))
    BY <1>1, <1>2, TakeIs
  <2> HIDE DEF c
  <2>3. behind' \in Nat /\ consumed'[c] = behind' + 1 /\ consumed'[c] \in Nat
    BY <1>2, <2>1, <2>2
  <2> QED
    BY <2>1, <2>2, <2>3 DEF c
<1>3. CASE ended[c] /\ UNCHANGED consumed /\ (phase = 4 => Chunk(c) = <<>>)
  <2>1. phase = 4 => consumed'[c] = 0 /\ ended[c] /\ offered[c] = 0
    BY <1>1, <1>3, RequestIsRead
  <2> QED
    BY <1>1, <1>3, <2>1 DEF FlowOK
<1> QED
  BY <1>2, <1>3 DEF Taken

LEMMA RetrieveTransfer ==
  ASSUME TransferInv, SlotsInv', NEW q, Retrieve(q), AtRequest, Taken(q),
         UNCHANGED <<phase, plan, offered, ended>>
  PROVE  TransferInv'
<1> DEFINE c == Current
<1>1. /\ c \in Conns /\ socket[c] = "open" /\ SlotsInv /\ FlowOK /\ Fresh /\ phase # 1
      /\ delivered[c] = <<>>
  BY RequestIsRead DEF TransferInv
<1>2. /\ q.name \in DOMAIN stored /\ data' = stored[q.name] /\ place' = "sending"
      /\ UNCHANGED <<tester, pointer, i, stored, socket, delivered>>
  BY DEF Retrieve, Readable
<1>3. /\ ~ended[c] => q = plan[c]
      /\ consumed' \in [Conns -> Nat] /\ \A d \in Conns : consumed'[d] <= offered'[d]
      /\ \A d \in Conns \ {c} : consumed'[d] = consumed[d]
  BY TakenIs
<1>4. \A d \in Conns : Stream(d)' = Stream(d)
  BY DEF Stream, Upload
<1>5. c' = c
  BY <1>2 DEF Current
<1>6. FlowOK'
  BY <1>1, <1>2, <1>3, <1>4 DEF FlowOK
<1>7. Fresh'
  BY <1>1, <1>2, <1>3, <1>5 DEF Fresh, AtWork
<1>8. SendingOK'
  <2>1. stored[q.name] \in Seq(Bytes)
    BY <1>1, <1>2 DEF FlowOK
  <2>2. PICK f \in Seq(Bytes) : f = stored[q.name]
    BY <2>1
  <2>3. <<>> \o f = f
    OBVIOUS
  <2> QED
    BY <1>1, <1>2, <1>3, <1>5, <2>2, <2>3 DEF SendingOK, Wanted
<1>9. ReceivingOK'
  BY <1>2 DEF ReceivingOK
<1> QED
  BY <1>6, <1>7, <1>8, <1>9 DEF TransferInv

LEMMA StoreTransfer ==
  ASSUME TransferInv, SlotsInv', NEW q, Store(q), AtRequest, Taken(q),
         UNCHANGED <<phase, plan, offered, ended>>
  PROVE  TransferInv'
<1> DEFINE c == Current
<1>1. /\ c \in Conns /\ socket[c] = "open" /\ SlotsInv /\ FlowOK /\ Fresh /\ phase = 4
  BY RequestIsRead DEF TransferInv, Store, Puts
<1>2. /\ data' = q.name /\ place' = "receiving" /\ Truncate(q.name)
      /\ UNCHANGED <<tester, pointer, i, socket, delivered>>
  BY DEF Store
<1>3. /\ consumed' \in [Conns -> Nat] /\ \A d \in Conns : consumed'[d] <= offered'[d]
      /\ \A d \in Conns \ {c} : consumed'[d] = consumed[d]
      /\ \/ consumed'[c] = 0 /\ ended[c] /\ offered[c] = 0
         \/ q = plan[c] /\ behind' \in Nat /\ consumed'[c] = behind' + 1 /\ consumed'[c] \in Nat
  BY <1>1, TakenIs
<1>4. \A d \in Conns : Stream(d)' = Stream(d)
  BY DEF Stream, Upload
<1>5. c' = c
  BY <1>2 DEF Current
<1>6. /\ DOMAIN stored' = DOMAIN stored \cup {q.name} /\ stored'[q.name] = <<>>
      /\ \A n \in DOMAIN stored' : stored'[n] \in Seq(Bytes)
  BY <1>1, <1>2, TruncateKeeps
<1>7. FlowOK'
  BY <1>1, <1>2, <1>3, <1>4, <1>6 DEF FlowOK
<1>8. Fresh'
  BY <1>1, <1>2, <1>3, <1>5 DEF Fresh, AtWork
<1>9. SendingOK'
  BY <1>2 DEF SendingOK
<1>10. ReceivingOK'
  <2>1. CASE consumed'[c] = 0 /\ ended[c] /\ offered[c] = 0
    BY <1>5, <2>1 DEF ReceivingOK
  <2>2. CASE q = plan[c] /\ behind' \in Nat /\ consumed'[c] = behind' + 1 /\ consumed'[c] \in Nat
    <3> HIDE DEF c
    <3>0. PICK n \in Nat : n = behind'
      BY <2>2, Zenon
    <3>1. PICK k \in Nat : k = n + 2
      OBVIOUS
    <3>2. PICK s \in Seq(Bytes) : s = Stream(c)
      BY <1>1, StreamIs DEF FlowOK
    <3>3. SubSeq(s, k, k - 1) = <<>>
      OBVIOUS
    <3>4. consumed'[c] = n + 1
      BY <2>2, <3>0, Zenon
    <3>5. /\ consumed'[c] = k - 1
          /\ consumed'[c] # 0
          /\ behind' + 1 <= consumed'[c]
          /\ behind' + 2 = k
      <4>1. PICK h \in Nat : h = consumed'[c]
        BY <2>2, Zenon
      <4>2. h = n + 1
        BY <3>4, <4>1, Zenon
      <4>3. h = k - 1 /\ h # 0 /\ n + 1 <= h /\ n + 2 = k
        BY <3>1, <4>2
      <4>4. consumed'[c] = k - 1 /\ consumed'[c] # 0
        BY <4>1, <4>3, Zenon
      <4>5. behind' + 1 <= consumed'[c]
        <5> n + 1 <= h
          BY <4>3
        <5> QED
          BY <3>0, <4>1, Zenon
      <4>6. behind' + 2 = k
        BY <3>0, <4>3, Zenon
      <4> QED
        BY <4>4, <4>5, <4>6
    <3>6. stored'[data'] = SubSeq(Stream(c)', behind' + 2, consumed'[c])
      <4>1. stored'[data'] = <<>>
        BY <1>2, <1>6, Zenon
      <4>2. Stream(c)' = s
        BY <1>1, <1>4, <1>5, <3>2, Zenon
      <4> QED
        BY <3>3, <3>5, <4>1, <4>2, Zenon
    <3>7. data' = plan'[c].name
      BY <1>2, <2>2
    <3> QED
      BY <1>5, <2>2, <3>5, <3>6, <3>7 DEF ReceivingOK, c
  <2> QED
    BY <1>3, <2>1, <2>2
<1> QED
  BY <1>7, <1>8, <1>9, <1>10 DEF TransferInv

LEMMA ObeyTransfer ==
  ASSUME TransferInv, SlotsInv', AtRequest, NEW q, Obey(Current, q), Taken(q),
         UNCHANGED <<phase, plan, offered, ended>>
  PROVE  TransferInv'
<1>1. Running /\ i < pointer
  BY RequestIsRead
<1>2. Take(Current) \/ UNCHANGED consumed
  BY DEF Taken
<1>3. CASE Retrieve(q)
  BY <1>3, RetrieveTransfer
<1>4. CASE Refuse(Current, q)
  BY <1>1, <1>2, <1>4, EndingKeeps DEF Refuse
<1>5. CASE FailToOpen(q)
  BY <1>1, <1>2, <1>5, EndingKeeps DEF FailToOpen, End
<1>6. CASE Store(q)
  BY <1>6, StoreTransfer
<1>7. CASE Forget(Current, q)
  BY <1>1, <1>2, <1>7, EndingKeeps DEF Forget
<1> QED
  BY <1>3, <1>4, <1>5, <1>6, <1>7 DEF Obey

LEMMA RequestTransfer ==
  ASSUME TransferInv, SlotsInv', Request \/ RequestMissing \/ RequestFails,
         UNCHANGED <<phase, plan, offered, ended>>
  PROVE  TransferInv'
<1>1. AtRequest
  BY DEF Request, RequestMissing, RequestFails
<1>2. Running /\ i < pointer
  BY <1>1, RequestIsRead
<1>3. CASE Request
  BY <1>1, <1>3, ObeyTransfer DEF Request, Taken
<1>4. CASE RequestMissing
  <2>1. \A q : Taken(q)
    <3>1. ended[Current] /\ (phase = 4 => Chunk(Current) = <<>>) /\ UNCHANGED consumed
      BY <1>1, <1>4, RequestIsRead DEF RequestMissing, Broken
    <3> QED
      BY <3>1 DEF Taken
  <2>2. UNCHANGED consumed /\ (End \/ \E q : Obey(Current, q))
    BY <1>4 DEF RequestMissing
  <2> QED
    BY <1>1, <1>2, <2>1, <2>2, ObeyTransfer, EndingKeeps DEF End
<1>5. CASE RequestFails
  <2>1. /\ UNCHANGED consumed
        /\ (Exit /\ (UNCHANGED stored \/ \E n : Truncate(n))) \/ Close(Current)
    BY <1>5 DEF RequestFails, End
  <2> QED
    BY <1>2, <2>1, EndingKeeps
<1> QED
  BY <1>3, <1>4, <1>5

LEMMA MovedOver ==
  ASSUME NEW S, NEW d \in Seq(S), NEW e \in Seq(S), e # <<>>
  PROVE  /\ Append(d, Head(e)) \in Seq(S) /\ Tail(e) \in Seq(S)
         /\ Append(d, Head(e)) \o Tail(e) = d \o e
<1>1. Head(e) \in S /\ Tail(e) \in Seq(S) /\ Len(e) \in Nat /\ Len(e) >= 1
  BY EmptySeq
<1>2. Append(d, Head(e)) \in Seq(S)
  BY <1>1
<1>3. Append(d, Head(e)) \o Tail(e) = d \o e
  BY <1>1, <1>2
<1> QED
  BY <1>1, <1>2, <1>3

LEMMA SendTransfer ==
  ASSUME TransferInv, SlotsInv', Send, UNCHANGED <<phase, plan, offered, ended>>
  PROVE  TransferInv'
<1> DEFINE c == Current
<1>1. /\ place = "sending" /\ Running /\ i < pointer /\ UNCHANGED <<consumed, backlog>>
      /\ SlotsInv /\ FlowOK /\ Fresh /\ SendingOK
  BY DEF TransferInv, SlotsInv, ArrayOK, Send
<1>2. c \in Conns /\ socket[c] = "open"
  BY <1>1, CurrentIsOpen
<1>3. CASE End \/ Close(Current)
  BY <1>1, <1>3, EndingKeeps DEF End
<1>4. CASE /\ data # <<>>
           /\ delivered' = [delivered EXCEPT ![Current] = Append(@, Head(data))]
           /\ data' = Tail(data)
           /\ UNCHANGED <<place, tester, pointer, i, stored, socket>>
  <2>1. /\ Append(delivered[c], Head(data)) \in Seq(Bytes) /\ Tail(data) \in Seq(Bytes)
        /\ Append(delivered[c], Head(data)) \o Tail(data) = delivered[c] \o data
    BY <1>1, <1>2, <1>4, MovedOver DEF FlowOK
  <2>2. \A d \in Conns : Stream(d)' = Stream(d)
    BY DEF Stream, Upload
  <2>3. c' = c
    BY <1>4 DEF Current
  <2> HIDE DEF c
  <2>4. /\ delivered' \in [Conns -> Seq(Bytes)] /\ \A d \in Conns \ {c} : delivered'[d] = delivered[d]
        /\ delivered'[c] = Append(delivered[c], Head(data))
    BY <1>1, <1>2, <1>4, <2>1 DEF FlowOK, c
  <2>5. FlowOK'
    BY <1>1, <1>4, <2>1, <2>2, <2>4 DEF FlowOK
  <2>6. Fresh'
    BY <1>1, <1>4, <2>3, <2>4 DEF Fresh, AtWork, c
  <2>7. SendingOK'
    <3>1. ~ended[c] => delivered'[c] \o data' = stored[Wanted(c)]
      BY <1>1, <1>4, <2>1, <2>4 DEF SendingOK, c
    <3> QED
      BY <1>4, <2>3, <3>1 DEF SendingOK, Wanted, c
  <2>8. ReceivingOK'
    BY <1>1, <1>4 DEF ReceivingOK
  <2> QED
    BY <2>5, <2>6, <2>7, <2>8 DEF TransferInv
<1> QED
  BY <1>3, <1>4 DEF Send

\* part is what u has behind m, up to h.
Follows(part, u, k, m, h) ==
  /\ 1 <= k /\ k <= m + 1 /\ h = m + Len(part) /\ h <= Len(u)
  /\ \A j \in 1..Len(part) : part[j] = u[m + j]

LEMMA PartsJoin ==
  ASSUME NEW S, NEW u \in Seq(S), NEW part \in Seq(S), NEW k \in Nat, NEW m \in Nat, NEW h \in Nat,
         Follows(part, u, k, m, h)
  PROVE  SubSeq(u, k, m) \o part = SubSeq(u, k, h)
<1> USE DEF Follows
<1> DEFINE a == SubSeq(u, k, m)
           b == SubSeq(u, k, h)
           n == Len(part)
           low == (m + 1) - k
<1>1. n \in Nat /\ low \in Nat
  BY LenProperties
<1>2. a \in Seq(S) /\ Len(a) = low /\ \A j \in 1..low : a[j] = u[(k + j) - 1]
  BY <1>1
<1>3. b \in Seq(S) /\ Len(b) = low + n /\ \A j \in 1..(low + n) : b[j] = u[(k + j) - 1]
  BY <1>1
<1> HIDE DEF a, b
<1>4. /\ a \o part \in Seq(S) /\ Len(a \o part) = low + n
      /\ \A j \in 1..(low + n) : (a \o part)[j] = IF j <= low THEN a[j] ELSE part[j - low]
  BY <1>1, <1>2
<1>5. ASSUME NEW j \in 1..(low + n)
      PROVE  (a \o part)[j] = b[j]
  <2>1. j \in Nat /\ j >= 1
    BY <1>1
  <2>2. CASE j <= low
    <3>1. (a \o part)[j] = a[j] /\ a[j] = u[(k + j) - 1] /\ b[j] = u[(k + j) - 1]
      BY <1>1, <1>2, <1>3, <1>4, <2>1, <2>2
    <3> QED
      BY <3>1
  <2>3. CASE ~(j <= low)
    <3>1. PICK l \in 1..n : l = j - low
      BY <1>1, <2>1, <2>3
    <3>2. m + l = (k + j) - 1
      BY <2>1, <3>1
    <3>3. part[l] = u[(k + j) - 1]
      BY <3>1, <3>2
    <3>4. (a \o part)[j] = part[l]
      BY <1>4, <2>3, <3>1
    <3> QED
      BY <1>3, <3>3, <3>4
  <2> QED
    BY <2>2, <2>3
<1>6. Len(a \o part) = Len(b) /\ Len(b) = low + n
  BY <1>3, <1>4
<1> HIDE DEF low, n
<1> QED
  BY <1>3, <1>4, <1>5, <1>6, SeqEqual DEF a, b

LEMMA ReceiveTransfer ==
  ASSUME TransferInv, SlotsInv', Receive, UNCHANGED <<phase, plan, offered, ended>>
  PROVE  TransferInv'
<1> DEFINE c == Current
<1>1. /\ place = "receiving" /\ Running /\ i < pointer /\ UNCHANGED <<behind, backlog>>
      /\ SlotsInv /\ FlowOK /\ Fresh /\ ReceivingOK /\ phase # 1
  BY LaterPhase DEF TransferInv, SlotsInv, ArrayOK, Receive
<1>2. c \in Conns /\ socket[c] = "open"
  BY <1>1, CurrentIsOpen
<1>3. CASE (Close(Current) \/ End) /\ UNCHANGED consumed
  BY <1>1, <1>3, EndingKeeps DEF End
<1>4. CASE /\ Waiting(Current) > 0 /\ Take(Current)
           /\ stored' = [stored EXCEPT ![data] = @ \o Chunk(Current)]
           /\ UNCHANGED <<place, tester, pointer, i, data, socket, delivered>>
  <2> DEFINE part == Chunk(c)
             m == consumed[c]
             n == Len(part)
  <2>1. /\ consumed' \in [Conns -> Nat] /\ \A d \in Conns : consumed'[d] <= offered'[d]
        /\ \A d \in Conns \ {c} : consumed'[d] = consumed[d]
        /\ consumed'[c] = m + n
    BY <1>1, <1>2, <1>4, TakeIs
  <2>2. \A d \in Conns : Stream(d)' = Stream(d)
    BY DEF Stream, Upload
  <2>3. c' = c
    BY <1>4 DEF Current
  <2>4. /\ part \in Seq(Bytes) /\ n \in Nat /\ n = Len(part) /\ m + n <= offered[c] /\ m \in Nat
        /\ offered[c] <= Len(Stream(c)) /\ offered[c] \in Nat
        /\ \A j \in 1..n : part[j] = Stream(c)[m + j]
    BY <1>1, <1>2, ChunkIs DEF FlowOK
  <2>5. stored[data] \in Seq(Bytes) /\ data \in DOMAIN stored
    BY <1>1 DEF FlowOK
  <2>6. offered[c] # 0
    BY <1>4, <2>4 DEF Waiting
  <2>7. /\ m > 0 /\ behind \in Nat /\ behind + 1 <= m
        /\ data = plan[c].name /\ stored[data] = SubSeq(Stream(c), behind + 2, m)
    <3>1. m # 0
      BY <1>1, <2>6 DEF ReceivingOK
    <3>2. m > 0
      BY <2>4, <3>1
    <3> QED
      BY <1>1, <3>2 DEF ReceivingOK
  <2> HIDE DEF c, part, n
  <2>8. stored[data] \o part \in Seq(Bytes)
    BY <2>4, <2>5
  <2>9. /\ DOMAIN stored' = DOMAIN stored /\ stored'[data] = stored[data] \o part
        /\ \A name \in DOMAIN stored \ {data} : stored'[name] = stored[name]
    BY <1>4, <2>5 DEF part, c
  <2>10. FlowOK'
    <3>1. \A name \in DOMAIN stored' : stored'[name] \in Seq(Bytes)
      BY <1>1, <2>8, <2>9 DEF FlowOK
    <3> QED
      BY <1>1, <1>4, <2>1, <2>2, <2>9, <3>1 DEF FlowOK
  <2>11. Fresh'
    BY <1>1, <1>4, <2>1, <2>3 DEF Fresh, AtWork, c
  <2>12. SendingOK'
    BY <1>1, <1>4 DEF SendingOK
  <2>13. ReceivingOK'
    <3>1. PICK s \in Seq(Bytes) : s = Stream(c)
      BY <1>1, <1>2, StreamIs DEF FlowOK
    <3>2. PICK k \in Nat : k = behind + 2
      BY <2>7
    <3>3. SubSeq(s, k, m) \o part = SubSeq(s, k, m + n)
      <4> DEFINE high == m + n
                 pp == part
                 low == m
      <4>1. 1 <= k /\ k <= low + 1 /\ low \in Nat /\ high \in Nat /\ pp \in Seq(Bytes)
        BY <2>4, <2>7, <3>2
      <4>2. Follows(pp, s, k, low, high)
        BY <2>4, <3>1, <4>1 DEF Follows, n
      <4> HIDE DEF high, pp, low
      <4>3. SubSeq(s, k, low) \o pp = SubSeq(s, k, high)
        BY <4>1, <4>2, PartsJoin
      <4> QED
        BY <4>3 DEF high, pp, low
    <3>4. stored'[data] = SubSeq(Stream(c), behind + 2, consumed'[c])
      BY <2>1, <2>7, <2>9, <3>1, <3>2, <3>3
    <3>5. behind + 1 <= consumed'[c] /\ consumed'[c] # 0
      BY <2>1, <2>4, <2>7
    <3> QED
      BY <1>1, <1>2, <1>4, <2>2, <2>3, <2>7, <3>4, <3>5 DEF ReceivingOK, c
  <2> QED
    BY <2>10, <2>11, <2>12, <2>13 DEF TransferInv
<1> QED
  BY <1>3, <1>4 DEF Receive

LEMMA ClientTransfer ==
  ASSUME TransferInv, SlotsInv', NEW c \in Conns, ClientStep(c)
  PROVE  TransferInv'
<1>1. /\ UNCHANGED <<phase, plan, place, tester, pointer, i, data, behind, stored, consumed, delivered>>
      /\ SlotsInv /\ FlowOK /\ Fresh /\ SendingOK /\ ReceivingOK
      /\ DOMAIN ended = Conns /\ socket \in [Conns -> {"none", "queued", "open", "closed", "lost"}]
  BY DEF ClientStep, ConnectTo, ClientSend, ClientReceive, ClientEnd, serverVars, clientVars,
         TransferInv, SlotsInv
<1>2. /\ offered' = offered \/ (~ended[c] /\ offered[c] < Len(Stream(c))
                                /\ offered' = [offered EXCEPT ![c] = @ + 1])
      /\ \/ ended' = ended
         \/ ended' = [ended EXCEPT ![c] = TRUE] /\ offered' = offered
      /\ socket' = socket \/ (socket[c] = "none" /\ socket' = [socket EXCEPT ![c] = "queued"])
  BY DEF ClientStep, ConnectTo, ClientSend, ClientReceive, ClientEnd, serverVars, clientVars
<1>3. \A d \in Conns : Stream(d)' = Stream(d) /\ Upload(d)' = Upload(d)
  BY <1>1 DEF Stream, Upload
<1>4. Current' = Current
  BY <1>1 DEF Current
<1>5. /\ offered' \in [Conns -> Nat]
      /\ \A d \in Conns : consumed[d] <= offered'[d] /\ offered'[d] <= Len(Stream(d))
      /\ \A d \in Conns : ended[d] => offered'[d] = offered[d]
  <2>1. \A d \in Conns : Len(Stream(d)) \in Nat
    BY <1>1, StreamIs, LenProperties DEF FlowOK
  <2>2. CASE offered' = offered
    BY <1>1, <2>2 DEF FlowOK
  <2>3. CASE ~ended[c] /\ offered[c] < Len(Stream(c)) /\ offered' = [offered EXCEPT ![c] = @ + 1]
    <3> HIDE DEF Stream
    <3> QED
      BY <1>1, <2>1, <2>3 DEF FlowOK
  <2> QED
    BY <1>2, <2>2, <2>3
<1>6. FlowOK'
  BY <1>1, <1>3, <1>5 DEF FlowOK
<1>7. Fresh'
  BY <1>1, <1>2, <1>4 DEF Fresh, AtWork
<1>8. SendingOK'
  <2>1. place = "sending" => Current \in Conns
    BY <1>1, CurrentIsOpen DEF SlotsInv, ArrayOK
  <2>2. place = "sending" /\ ~ended'[Current] => ~ended[Current]
    BY <1>1, <1>2, <2>1
  <2> QED
    BY <1>1, <1>4, <2>2 DEF SendingOK, Wanted
<1>9. ReceivingOK'
  <2>1. SUFFICES ASSUME place = "receiving"
                 PROVE  ReceivingOK'
    BY <1>1 DEF ReceivingOK
  <2>2. Current \in Conns
    BY <1>1, <2>1, CurrentIsOpen DEF SlotsInv, ArrayOK
  <2>3. ended[Current] => ended'[Current] /\ offered'[Current] = offered[Current]
    BY <1>1, <1>2, <1>5, <2>2
  <2> HIDE DEF Stream
  <2> QED
    BY <1>1, <1>3, <1>4, <2>2, <2>3 DEF ReceivingOK
<1> QED
  BY <1>6, <1>7, <1>8, <1>9 DEF TransferInv

LEMMA InitTransferInv == Init => TransferInv
<1> SUFFICES ASSUME Init
             PROVE  TransferInv
  OBVIOUS
<1>1. SlotsInv
  BY InitSlotsInv
<1>2. /\ plan \in [Conns -> AnyRequest]
      /\ place \notin {"sending", "receiving"} /\ stored = InitialFiles
      /\ phase = 1 /\ place # "ended" => ServedFile \in DOMAIN stored
      /\ offered = [c \in Conns |-> 0] /\ consumed = [c \in Conns |-> 0]
      /\ delivered = [c \in Conns |-> <<>>] /\ ended = [c \in Conns |-> FALSE]
  BY DEF Init
<1>3. FlowOK
  <2>1. \A c \in Conns : Len(Stream(c)) \in Nat
    BY <1>2, StreamIs, LenProperties
  <2>2. ASSUME NEW n \in DOMAIN stored
        PROVE  stored[n] \in Seq(Bytes)
    <3> DEFINE B == {InitialFiles[n][k] : k \in DOMAIN InitialFiles[n]}
               f == InitialFiles[n]
    <3>1. f \in Seq(B)
      BY <1>2, LegacyFiles
    <3>2. B \subseteq Bytes
      BY <1>2 DEF Bytes
    <3>3. stored[n] = f
      BY <1>2
    <3> HIDE DEF B, f
    <3> QED
      BY <3>1, <3>2, <3>3
  <2>3. <<>> \in Seq(Bytes)
    OBVIOUS
  <2>4. \A c \in Conns : 0 <= Len(Stream(c))
    <3>1. \A n \in Nat : 0 <= n
      OBVIOUS
    <3> QED
      BY <2>1, <3>1, Zenon
  <2> QED
    BY <1>2, <2>2, <2>3, <2>4 DEF FlowOK
<1>4. Fresh
  BY <1>2 DEF Fresh
<1>5. SendingOK /\ ReceivingOK
  BY <1>2 DEF SendingOK, ReceivingOK
<1> QED
  BY <1>1, <1>3, <1>4, <1>5 DEF TransferInv

LEMMA NextKeepsTransferInv == TransferInv /\ [Next]_vars => TransferInv'
<1> SUFFICES ASSUME TransferInv, [Next]_vars
             PROVE  TransferInv'
  OBVIOUS
<1>1. SlotsInv'
  BY NextKeepsSlotsInv DEF TransferInv
<1>2. CASE UNCHANGED vars
  <2>1. UNCHANGED <<phase, plan, place, tester, i, data, behind, stored, offered, consumed, delivered,
                    ended, socket>>
    BY <1>2 DEF vars, serverVars, clientVars
  <2>2. FlowOK'
    BY <2>1 DEF TransferInv, FlowOK, Stream, Upload
  <2>3. Fresh' /\ SendingOK' /\ ReceivingOK'
    BY <2>1 DEF TransferInv, Fresh, AtWork, Current, SendingOK, Wanted, ReceivingOK, Stream, Upload
  <2> QED
    BY <1>1, <2>2, <2>3 DEF TransferInv
<1>3. CASE ServerStep
  <2>1. UNCHANGED <<phase, plan, offered, ended>>
    BY <1>3 DEF ServerStep, clientVars
  <2> QED
    BY <1>1, <1>3, <2>1, AcceptOneTransfer, IdleStepsKeep, RequestTransfer, SendTransfer, ReceiveTransfer
       DEF ServerStep
<1>4. CASE \E c \in Conns : ClientStep(c)
  BY <1>1, <1>4, ClientTransfer
<1> QED
  BY <1>2, <1>3, <1>4 DEF Next

\* A transfer is whole when the connection it was made on is closed.
LEMMA ClosedIsWhole ==
  ASSUME TransferInv, Next, NEW c \in Conns, c = Current, socket[c] = "open", socket'[c] = "closed"
  PROVE  /\ place = "sending" /\ ~ended[c] =>
              delivered'[c] = stored[IF phase = 1 THEN ServedFile ELSE plan[c].name]
         /\ place = "receiving" /\ place' # "ended" /\ consumed[c] > 0 =>
              stored[plan[c].name] = SubSeq(Stream(c), behind + 2, offered[c])
<1>1. /\ SlotsInv /\ FlowOK /\ SendingOK /\ ReceivingOK
      /\ socket \in [Conns -> {"none", "queued", "open", "closed", "lost"}]
  BY DEF TransferInv, SlotsInv
<1>2. ServerStep
  <2>1. ASSUME NEW d \in Conns, ClientStep(d)
        PROVE  FALSE
    BY <1>1, <2>1 DEF ClientStep, ConnectTo, ClientSend, ClientReceive, ClientEnd, serverVars
  <2> QED
    BY <2>1 DEF Next
<1>3. ASSUME place = "sending", ~ended[c]
      PROVE  delivered'[c] = stored[Wanted(c)]
  <2>1. Send
    BY <1>2, <1>3 DEF ServerStep, AcceptOne, Accept, AcceptFails, Poll, Overflow, NextSlot, Request,
                      RequestMissing, RequestFails, AtRequest, Receive
  <2>2. data = <<>> /\ delivered' = delivered
    BY <1>3, <2>1 DEF Send, Close, End, Exit
  <2>3. delivered[c] \o data = stored[Wanted(c)]
    BY <1>1, <1>3 DEF SendingOK
  <2>4. PICK f \in Seq(Bytes) : f = delivered[c]
    BY <1>1 DEF FlowOK
  <2>5. f \o <<>> = f
    OBVIOUS
  <2> QED
    BY <2>2, <2>3, <2>4, <2>5
<1>4. ASSUME place = "receiving", place' # "ended", consumed[c] > 0
      PROVE  stored[plan[c].name] = SubSeq(Stream(c), behind + 2, offered[c])
  <2>1. Receive
    BY <1>2, <1>4 DEF ServerStep, AcceptOne, Accept, AcceptFails, Poll, Overflow, NextSlot, Request,
                      RequestMissing, RequestFails, AtRequest, Send
  <2>2. Waiting(c) = 0
    BY <1>4, <2>1 DEF Receive, End, Exit
  <2>3. consumed[c] = offered[c]
    BY <1>1, <2>2 DEF Waiting, FlowOK
  <2> QED
    BY <1>1, <1>4, <2>3 DEF ReceivingOK
<1> QED
  BY <1>3, <1>4 DEF Wanted

\* For any files, sizes, buffer and clients, in all four phases, whoever is killed and
\* whatever fails: when a legacy server closes the connection of a client that is still
\* there, the client has been sent the whole file; and when it closes one behind an
\* upload and goes on, the file holds all that its client sent, but for exactly the
\* bytes that the recv of the request took with it.
THEOREM LegacyTransfersAreWhole == Spec => TransfersWhole
<1>1. Spec => []TransferInv
  BY InitTransferInv, NextKeepsTransferInv, PTL DEF Spec
<1> DEFINE A ==
  \A c \in Conns : socket[c] = "open" /\ socket'[c] = "closed" =>
       /\ place = "sending" /\ c = Current /\ ~ended[c] =>
            delivered'[c] = stored[IF phase = 1 THEN ServedFile ELSE plan[c].name]
       /\ place = "receiving" /\ c = Current /\ place' # "ended" /\ consumed[c] > 0 =>
            stored[plan[c].name] = SubSeq(Stream(c), behind + 2, offered[c])
<1>2. TransferInv /\ [Next]_vars => [A]_vars
  BY ClosedIsWhole
<1>3. TransfersWhole <=> [][A]_vars
  BY DEF TransfersWhole
<1> HIDE DEF A
<1> QED
  BY <1>1, <1>2, <1>3, PTL DEF Spec
=============================================================================
