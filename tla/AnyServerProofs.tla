--------------------------- MODULE AnyServerProofs --------------------------
(***************************************************************************)
(* A server that may do anything only adds to what it has sent, so what    *)
(* ClientProofs proves of runs that are served holds against it.           *)
(***************************************************************************)
EXTENDS AnyServer, ClientProofs

\* Any part of a script that goes on from what was sent adds to it.
LEMMA ScriptGoesOn ==
  ASSUME NEW s, NEW script, WellSent(s), WellSent(script), IsPrefix(s, script),
         NEW k \in Nat, Len(s) <= k, k <= Len(script)
  PROVE  WellSent(SubSeq(script, 1, k)) /\ Extends(s, SubSeq(script, 1, k))
<1> DEFINE S == ToSet(script)
           t == SubSeq(script, 0 + 1, k)
           u == SubSeq(script, 0 + 1, Len(s))
           v == SubSeq(s, 0 + 1, Len(s))
<1>1. /\ script \in Seq(S) /\ s \in Seq(ToSet(s)) /\ Len(s) \in Nat /\ Len(script) \in Nat
      /\ Len(s) <= Len(script) /\ 0 \in Nat /\ 0 + 1 = 1
  BY DEF WellSent
<1>2. t \in Seq(S) /\ Len(t) = k /\ \A i \in 1..k : t[i] = script[i]
  <2>1. t \in Seq(S) /\ Len(t) = k - 0 /\ \A i \in 1..(k - 0) : t[i] = script[0 + i]
    BY <1>1, PartIs
  <2> HIDE DEF t
  <2> QED
    BY <2>1
<1>3. \A i \in 1..Len(s) : script[i] = s[i]
  <2> DEFINE m == Len(s)
  <2>1. m \in Nat /\ 0 <= m /\ m <= m /\ m - 0 = m
    BY <1>1
  <2>2. u = v
    BY <1>1 DEF IsPrefix
  <2>3. \A i \in 1..(m - 0) : u[i] = script[0 + i]
    BY <1>1, <2>1, PartIs
  <2>4. \A i \in 1..(m - 0) : v[i] = s[0 + i]
    BY <1>1, <2>1, PartIs
  <2> HIDE DEF u, v
  <2> QED
    BY <2>1, <2>2, <2>3, <2>4
<1>4. SubSeq(script, 1, k) = t
  BY <1>1
<1> HIDE DEF t
<1>5. t \in Seq(ToSet(t))
  BY <1>2 DEF ToSet
<1>6. \A i \in DOMAIN t : i \in DOMAIN script /\ t[i] = script[i]
  BY <1>1, <1>2
<1>7. WellSent(t)
  BY <1>5, <1>6 DEF WellSent
<1>8. Extends(s, t)
  BY <1>1, <1>2, <1>3 DEF Extends
<1> QED
  BY <1>4, <1>7, <1>8

LEMMA AnyServerMoves ==
  ASSUME RunsInv, AnyServer
  PROVE  ServerMoves
<1>1. ASSUME NEW c \in Conns
      PROVE  WellSent(sent[c]) /\ Len(sent[c]) \in Nat
  <2>1. WellSent(sent[c])
    BY DEF RunsInv, RunInv
  <2>2. sent[c] \in Seq(ToSet(sent[c]))
    BY <2>1 DEF WellSent
  <2> QED
    BY <2>1, <2>2, LenProperties
<1>2. UNCHANGED <<clientVars, plan, offered>>
  BY DEF AnyServer, AnyAccept, AnyClose, AnyReceive, AnySend
<1>3. CASE sent' = sent
  <2>1. ASSUME NEW c \in Conns
        PROVE  Extends(sent[c], sent[c])
    <3>1. Len(sent[c]) \in Nat
      BY <1>1
    <3> QED
      BY <3>1 DEF Extends
  <2> QED
    BY <1>1, <1>2, <1>3, <2>1 DEF ServerMoves, RunsInv
<1>4. CASE \E c \in Conns : AnySend(c)
  <2>1. PICK c \in Conns : AnySend(c)
    BY <1>4
  <2>2. PICK script \in Scripts, n \in 1..SendSpace(c) :
          /\ IsPrefix(sent[c], script) /\ Len(sent[c]) + n <= Len(script)
          /\ sent' = [sent EXCEPT ![c] = SubSeq(script, 1, Len(@) + n)]
    BY <2>1 DEF AnySend
  <2>3. WellSent(script) /\ Len(sent[c]) + n \in Nat /\ Len(sent[c]) <= Len(sent[c]) + n
    BY <1>1, <2>2, Tokens
  <2>4. sent'[c] = SubSeq(script, 1, Len(sent[c]) + n)
    BY <2>2 DEF RunsInv
  <2>5. WellSent(sent'[c]) /\ Extends(sent[c], sent'[c])
    BY <1>1, <2>2, <2>3, <2>4, ScriptGoesOn
  <2>6. ASSUME NEW d \in Conns \ {c}
        PROVE  WellSent(sent'[d]) /\ Extends(sent[d], sent'[d])
    <3>1. sent'[d] = sent[d]
      BY <2>2
    <3> QED
      BY <1>1, <3>1 DEF Extends
  <2>7. DOMAIN sent' = Conns
    BY <2>2 DEF RunsInv
  <2> QED
    BY <1>2, <2>5, <2>6, <2>7 DEF ServerMoves
<1> QED
  BY <1>3, <1>4 DEF AnyServer, AnyAccept, AnyClose, AnyReceive

\* Against any server a run is served: whatever ClientProofs proves of Served holds.
THEOREM AnyServerServes == ClientAlone => Served
<1>1. AloneInit => ClientInv /\ RunsInv
  BY InitRuns DEF AloneInit
<1>2. RunsInv /\ [AloneNext]_<<transportVars, clientVars>> => [ServedNext]_<<transportVars, clientVars>>
  BY AnyServerMoves DEF AloneNext, ServedNext
<1>3. ClientAlone => [](ClientInv /\ RunsInv)
  <2>1. ClientInv /\ RunsInv /\ [AloneNext]_<<transportVars, clientVars>> => (ClientInv /\ RunsInv)'
    BY <1>2, ServedKeeps
  <2> QED
    BY <1>1, <2>1, PTL DEF ClientAlone
<1>4. AloneInit => TransportInit /\ ClientInit
  BY DEF AloneInit
<1> QED
  BY <1>2, <1>3, <1>4, PTL DEF ClientAlone, Served, ServedNext

\* The runs of the program against any server: what they receive never exceeds what
\* is sent, uploads are reported as confirmed, and downloads are whole.
THEOREM RunsAgainstAnyServer ==
  ClientAlone => [](ClientTypeOK /\ UploadsConfirmed) /\ DownloadsWhole
BY AnyServerServes, RunTypesHold, UploadsAreConfirmed, DownloadsAreWhole, PTL

=============================================================================
