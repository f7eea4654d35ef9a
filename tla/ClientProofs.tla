---------------------------- MODULE ClientProofs ----------------------------
(***************************************************************************)
(* Theorems about the client in any system it is in (Client's ClientSpec), *)
(* for any number of runs and whatever their servers do.                   *)
(***************************************************************************)
EXTENDS ClientInvariants, SequenceTheorems, WellFoundedInduction, TLAPS

\* Different destinations have different temporary paths, which are not
\* destinations.
LEMMA PartsApart ==
  ASSUME NEW c \in Conns, NEW d \in Conns
  PROVE  /\ Part(c) # Destination[d]
         /\ Part(c) = Part(d) <=> Destination[c] = Destination[d]
BY PathsApart DEF Part, PartOf

Codes == {"running", "done", "failed", "unconnected", "killed"}

\* How a step of c may change its stage and the local files.
Quiet(c)    == local' = local /\ (stage' = stage \/ \E s \in Stages \ {"copying"} : To(c, s))
Creates(c)  == /\ stage[c] = "response" /\ To(c, "copying") /\ Free(c)
               /\ local' = [p \in DOMAIN local \cup {Part(c)} |->
                              IF p = Part(c) THEN <<>> ELSE local[p]]
Writes(c)   == /\ stage[c] = "copying" /\ stage' = stage
               /\ \E bytes : local' = [local EXCEPT ![Part(c)] = bytes]
Removes(c)  == stage[c] = "copying" /\ To(c, "end") /\ local' = LocalWithout(Part(c))
Finishes(c) == /\ stage[c] = "copying" /\ To(c, "end")
               /\ status' = [status EXCEPT ![c] = "done"]
               /\ local' = [p \in (DOMAIN local \ {Part(c)}) \cup {Destination[c]} |->
                              IF p = Destination[c] THEN local[Part(c)] ELSE local[p]]
Begins(c)   == stage[c] = "start" /\ Alone(c) /\ To(c, "request") /\ local' = local

\* Every action of the client is of one of these kinds, and only a run that is killed,
\* or whose remove fails, ends quietly while it copies.
LEMMA StepKinds ==
  ASSUME ClientInv, NEW c \in Conns, ClientStep(c)
  PROVE  /\ \/ Begins(c) \/ Creates(c) \/ Writes(c) \/ Removes(c) \/ Finishes(c)
            \/ Quiet(c) /\ (~Running(c) => stage' = stage \/ To(c, "end"))
         /\ \/ status' = status
            \/ \E code \in Codes : status' = [status EXCEPT ![c] = code]
         /\ Quiet(c) /\ stage[c] = "copying" /\ stage' # stage =>
              /\ To(c, "end")
              /\ "remove" \in LocalFaults \/ status' = [status EXCEPT ![c] = "killed"]
<1> USE DEF Quiet, Stages, Running, Codes
<1>1. CASE Open(c)
  BY <1>1 DEF Open, Begins, To
<1>2. CASE Send(c)
  BY <1>2 DEF Send, clientVars
<1>3. ASSUME GiveUp(c), stage[c] # "start", stage[c] # "copying"
      PROVE  /\ Quiet(c) /\ stage[c] # "start" /\ stage[c] # "copying"
             /\ \E code \in Codes : status' = [status EXCEPT ![c] = code]
  BY <1>3 DEF GiveUp, Exit
<1>4. CASE SentAll(c) \/ SendToClosed(c)
  <2>1. stage[c] \in {"request", "uploading"} /\ AfterSend(c) \in {"response", "confirm"}
    BY <1>4 DEF SentAll, SendToClosed, ToSend, AfterSend
  <2>2. GiveUp(c) \/ (To(c, AfterSend(c)) /\ UNCHANGED <<local, status>>)
    BY <1>4 DEF SentAll, SendToClosed
  <2> QED
    BY <1>3, <2>1, <2>2
<1>5. CASE Recv(c)
  BY <1>5 DEF Recv
<1>6. ASSUME Abandon(c), stage[c] = "copying"
      PROVE  /\ Removes(c) \/ (Quiet(c) /\ To(c, "end") /\ "remove" \in LocalFaults)
             /\ \E code \in Codes : status' = [status EXCEPT ![c] = code]
  BY <1>6 DEF Abandon, Exit, Removes
<1>7. ASSUME Removes(c)
      PROVE  ~Quiet(c)
  BY <1>7 DEF Removes, ClientInv, LocalWithout
<1>8. CASE RecvEnds(c)
  <2>1. stage[c] \in {"response", "confirm", "copying"}
    BY <1>8 DEF RecvEnds, Receiving
  <2> QED
    BY <1>3, <1>6, <1>7, <1>8, <2>1 DEF RecvEnds
<1>9. CASE LineTooLong(c)
  BY <1>3, <1>9 DEF LineTooLong
<1>10. CASE StartDownload(c)
  BY <1>3, <1>10 DEF StartDownload, Creates
<1>11. CASE Copy(c)
  BY <1>6, <1>7, <1>11 DEF Copy, Writes
<1>12. CASE FinishDownload(c)
  <2>1. CASE Abandon(c)
    BY <1>6, <1>7, <1>12, <2>1 DEF FinishDownload
  <2>2. CASE ~Abandon(c)
    <3>1. Finishes(c) /\ \E code \in Codes : status' = [status EXCEPT ![c] = code]
      BY <1>12, <2>2 DEF FinishDownload, Finishes, Exit
    <3>2. ~Quiet(c)
      BY <3>1, PartsApart DEF Finishes, ClientInv
    <3> QED
      BY <3>1, <3>2
  <2> QED
    BY <2>1, <2>2
<1>13. CASE StartUpload(c)
  BY <1>3, <1>13 DEF StartUpload, To
<1>14. CASE FinishUpload(c)
  BY <1>14 DEF FinishUpload, Exit
<1>15. CASE CannotConnect(c)
  BY <1>15 DEF CannotConnect
<1>16. CASE CannotRead(c)
  BY <1>3, <1>16 DEF CannotRead
<1>17. CASE KillClient(c)
  BY <1>17 DEF KillClient, Exit
<1>18. CASE ResetAfterExit(c)
  BY <1>18 DEF ResetAfterExit, clientVars
<1> QED
  BY <1>1, <1>2, <1>4, <1>5, <1>8, <1>9, <1>10, <1>11, <1>12, <1>13, <1>14, <1>15, <1>16,
     <1>17, <1>18 DEF ClientStep, Run

\* Every action of the client preserves ClientInv.
LEMMA StepKeepsInv ==
  ASSUME ClientInv, NEW c \in Conns, ClientStep(c)
  PROVE  ClientInv'
<1>1. status' \in [Conns -> Codes]
  BY StepKinds DEF ClientInv, Codes
<1>2. /\ stage' \in [Conns -> Stages]
      /\ \A d \in Conns \ {c} : stage'[d] = stage[d]
      /\ Running(c)' => Running(c) \/ (Begins(c) /\ Alone(c))
  <2>1. stage' = stage \/ \E s \in Stages : To(c, s)
    BY StepKinds DEF Begins, Creates, Writes, Removes, Finishes, Quiet, Stages
  <2>2. \/ stage' = stage \/ To(c, "end")
        \/ Running(c)
        \/ Begins(c) /\ Alone(c)
    BY StepKinds DEF Begins, Creates, Writes, Removes, Finishes, Running
  <2>3. /\ stage' \in [Conns -> Stages]
        /\ \A d \in Conns \ {c} : stage'[d] = stage[d]
    BY <2>1 DEF To, ClientInv
  <2>4. Running(c)' => Running(c) \/ (Begins(c) /\ Alone(c))
    BY <2>2 DEF To, Running, ClientInv
  <2> QED
    BY <2>3, <2>4
<1>3. ASSUME NEW d \in Conns, NEW e \in Conns,
             Destination[d] = Destination[e], Running(d)', Running(e)'
      PROVE  d = e
  <2>1. CASE Running(c) \/ ~Running(c)'
    BY <1>2, <1>3, <2>1 DEF ClientInv, Running
  <2>2. CASE Begins(c) /\ Alone(c)
    BY <1>2, <1>3, <2>2 DEF ClientInv, Running, Alone
  <2> QED
    BY <1>2, <2>1, <2>2
<1>4. ASSUME NEW d \in Conns \ {c}, stage'[d] = "copying", stage[c] \notin {"start", "end"}
      PROVE  Destination[d] # Destination[c] /\ Part(d) # Part(c)
  BY <1>2, <1>4, PartsApart DEF ClientInv, Running
<1>5. ASSUME NEW d \in Conns, stage'[d] = "copying"
      PROVE  Destination[d] \notin DOMAIN local' /\ Part(d) \in DOMAIN local'
  <2>1. CASE Begins(c) \/ Quiet(c)
    BY <1>2, <1>5, <2>1 DEF Begins, Quiet, To, ClientInv
  <2>2. CASE Creates(c)
    BY <1>2, <1>4, <1>5, <2>2, PartsApart DEF Creates, Free, ClientInv
  <2>3. CASE Writes(c)
    BY <1>2, <1>4, <1>5, <2>3 DEF Writes, ClientInv
  <2>4. CASE Removes(c)
    BY <1>2, <1>4, <1>5, <2>4 DEF Removes, To, LocalWithout, ClientInv
  <2>5. CASE Finishes(c)
    BY <1>2, <1>4, <1>5, <2>5, PartsApart DEF Finishes, To, ClientInv
  <2> QED
    BY <2>1, <2>2, <2>3, <2>4, <2>5, StepKinds
<1> QED
  BY <1>1, <1>2, <1>3, <1>5 DEF ClientInv, Codes

\* ClientInv holds of the client in any system.
THEOREM ClientInvHolds == ClientSpec => []ClientInv
<1>1. ClientInit => ClientInv
  BY DEF ClientInit, ClientInv, Stages, Running
<1>2. ClientInv /\ [\E c \in Conns : ClientStep(c)]_clientVars => ClientInv'
  <2>1. CASE UNCHANGED clientVars
    BY <2>1 DEF clientVars, ClientInv, Running
  <2> QED
    BY <2>1, StepKeepsInv
<1> QED
  BY <1>1, <1>2, PTL DEF ClientSpec

-----------------------------------------------------------------------------
\* A run changes, replaces or removes no local file but its own temporary one,
\* whatever its server sends: run_get looks for the destination before it opens
\* the temporary file, and nobody makes the destination until it is renamed.
THEOREM LocalFilesStay == ClientSpec => LocalFilesKept
<1> DEFINE others == DOMAIN local \ {Part(c) : c \in {d \in Conns : stage[d] = "copying"}}
           Keeps  == \A p \in others : p \in DOMAIN local' /\ local'[p] = local[p]
<1>1. ASSUME ClientInv, NEW c \in Conns, ClientStep(c)
      PROVE  Keeps
  <2>1. CASE Begins(c) \/ Quiet(c)
    BY <2>1 DEF Begins, Quiet
  <2>2. CASE Creates(c)
    BY <2>2 DEF Creates, Free
  <2>3. CASE Writes(c) \/ Removes(c)
    BY <2>3 DEF Writes, Removes, LocalWithout
  <2>4. CASE Finishes(c)
    BY <1>1, <2>4 DEF Finishes, ClientInv
  <2> QED
    BY <1>1, <2>1, <2>2, <2>3, <2>4, StepKinds
<1>2. ClientInv /\ [\E c \in Conns : ClientStep(c)]_clientVars => [Keeps]_clientVars
  BY <1>1
<1> QED
  BY <1>2, ClientInvHolds, PTL DEF ClientSpec, LocalFilesKept

\* Where no remove fails, a run that fails in the middle of a download removes its
\* temporary file.
THEOREM PartsGo == "remove" \notin LocalFaults => (ClientSpec => PartsRemoved)
<1> SUFFICES ASSUME "remove" \notin LocalFaults
             PROVE  ClientSpec => PartsRemoved
  OBVIOUS
<1> DEFINE Removed == \A c \in Conns :
             stage[c] = "copying" /\ stage'[c] = "end" /\ Part(c) \in DOMAIN local' =>
               status'[c] = "killed"
<1>1. ASSUME ClientInv, NEW c \in Conns, ClientStep(c), NEW d \in Conns,
             stage[d] = "copying", stage'[d] = "end", Part(d) \in DOMAIN local'
      PROVE  status'[d] = "killed"
  <2>1. ~Creates(c) /\ ~Writes(c) /\ ~Removes(c) /\ ~Finishes(c) /\ ~Begins(c)
    <3>1. c = d \/ stage' = stage \/ stage'[d] = stage[d]
      <4>1. stage' = stage \/ \E s \in Stages : To(c, s)
        BY <1>1, StepKinds DEF Begins, Creates, Writes, Removes, Finishes, Quiet, Stages
      <4> QED
        BY <1>1, <4>1 DEF To, ClientInv
    <3>2. c = d
      BY <1>1, <3>1
    <3>3. stage'[c] = "end" /\ stage[c] = "copying" /\ stage \in [Conns -> Stages]
      BY <1>1, <3>2 DEF ClientInv
    <3>4. ~Creates(c) /\ ~Writes(c) /\ ~Begins(c)
      BY <3>3 DEF Creates, Writes, Begins, To
    <3>5. Part(c) \in DOMAIN local' /\ Part(c) # Destination[c]
      BY <1>1, <3>2, PartsApart
    <3> QED
      BY <3>4, <3>5 DEF Removes, Finishes, LocalWithout
  <2>2. Quiet(c) /\ stage' # stage
    BY <1>1, <2>1, StepKinds
  <2>3. c = d
    BY <1>1, <2>2 DEF Quiet, To, ClientInv
  <2> QED
    BY <1>1, <2>2, <2>3, StepKinds DEF ClientInv
<1>2. ClientInv /\ [\E c \in Conns : ClientStep(c)]_clientVars => [Removed]_clientVars
  BY <1>1
<1> QED
  BY <1>2, ClientInvHolds, PTL DEF ClientSpec, PartsRemoved

-----------------------------------------------------------------------------
(***************************************************************************)
(* Sequences.                                                              *)
(***************************************************************************)
LEMMA LeastNumber ==
  ASSUME NEW T, T \subseteq Nat, T # {}
  PROVE  \E x \in T : \A y \in T : x <= y
<1>1. PICK x \in T : \A y \in T : ~(<<y, x>> \in OpToRel(<, Nat))
  BY NatLessThanWellFounded, WFMin
<1>2. ASSUME NEW y \in T
      PROVE  x <= y
  <2>1. y < x => <<y, x>> \in OpToRel(<, Nat)
    BY <1>1 DEF OpToRel
  <2>2. ~(y < x)
    BY <1>1, <2>1
  <2> QED
    BY <2>2
<1> QED
  BY <1>2

\* What a sequence holds behind its first m elements, up to the n-th.
LEMMA PartIs ==
  ASSUME NEW S, NEW s \in Seq(S), NEW m \in Nat, NEW n \in Nat, m <= n, n <= Len(s)
  PROVE  /\ SubSeq(s, m + 1, n) \in Seq(S)
         /\ Len(SubSeq(s, m + 1, n)) = n - m
         /\ \A i \in 1..(n - m) : SubSeq(s, m + 1, n)[i] = s[m + i]
<1>1. \A i \in (m + 1)..n : s[i] \in S
  OBVIOUS
<1>2. m + 1 \in Int /\ n \in Int
  OBVIOUS
<1>3. /\ SubSeq(s, m + 1, n) \in Seq(S)
      /\ Len(SubSeq(s, m + 1, n)) = IF m + 1 <= n THEN n - (m + 1) + 1 ELSE 0
      /\ \A i \in 1..(n - (m + 1) + 1) : SubSeq(s, m + 1, n)[i] = s[(m + 1) + i - 1]
  BY <1>1, <1>2, SubSeqProperties
<1>4. \A i \in Int : (m + 1) + i - 1 = m + i
  OBVIOUS
<1>5. n - (m + 1) + 1 = n - m
  OBVIOUS
<1> QED
  BY <1>3, <1>4, <1>5

LEMMA SequencesEqual ==
  ASSUME NEW S, NEW s \in Seq(S), NEW T, NEW t \in Seq(T),
         Len(s) = Len(t), \A i \in 1..Len(s) : s[i] = t[i]
  PROVE  s = t
<1>1. s \in Seq(S \cup T) /\ t \in Seq(S \cup T)
  OBVIOUS
<1> QED
  BY <1>1, SeqEqual

LEMMA PartsJoin ==
  ASSUME NEW S, NEW s \in Seq(S), NEW l \in Nat, NEW m \in Nat, NEW n \in Nat,
         l <= m, m <= n, n <= Len(s)
  PROVE  SubSeq(s, l + 1, m) \o SubSeq(s, m + 1, n) = SubSeq(s, l + 1, n)
<1>1. l + 1 \in 1..(Len(s) + 1) /\ m \in (l + 1 - 1)..Len(s) /\ n \in m..Len(s)
  OBVIOUS
<1> QED
  BY <1>1, ConcatAdjacentSubSeq

LEMMA PartInPart ==
  ASSUME NEW S, NEW s \in Seq(S), NEW m \in Nat, NEW n \in Nat, m <= n, n <= Len(s),
         NEW k \in Nat, NEW j \in Nat, k <= j, j <= n - m
  PROVE  SubSeq(SubSeq(s, m + 1, n), k + 1, j) = SubSeq(s, m + k + 1, m + j)
<1> DEFINE p == SubSeq(s, m + 1, n)
           l == SubSeq(p, k + 1, j)
           r == SubSeq(s, m + k + 1, m + j)
<1>1. p \in Seq(S) /\ Len(p) = n - m /\ \A i \in 1..(n - m) : p[i] = s[m + i]
  BY PartIs
<1> HIDE DEF p
<1>2. l \in Seq(S) /\ Len(l) = j - k /\ \A i \in 1..(j - k) : l[i] = p[k + i]
  BY <1>1, PartIs
<1>3. m + k \in Nat /\ m + j \in Nat /\ m + k <= m + j /\ m + j <= Len(s)
      /\ (m + j) - (m + k) = j - k
  OBVIOUS
<1>4. r \in Seq(S) /\ Len(r) = (m + j) - (m + k)
      /\ \A i \in 1..((m + j) - (m + k)) : r[i] = s[(m + k) + i]
  BY <1>3, PartIs
<1> HIDE DEF l, r
<1>5. \A i \in 1..(j - k) : k + i \in 1..(n - m) /\ m + (k + i) = (m + k) + i
  OBVIOUS
<1>6. \A i \in 1..Len(l) : l[i] = r[i]
  BY <1>1, <1>2, <1>3, <1>4, <1>5
<1>7. l = r
  BY <1>2, <1>3, <1>4, <1>6, SequencesEqual
<1> QED
  BY <1>7 DEF l, r, p

LEMMA PartOfMore ==
  ASSUME NEW S, NEW s \in Seq(S), NEW T, NEW t \in Seq(T), Extends(s, t),
         NEW m \in Nat, NEW n \in Nat, m <= n, n <= Len(s)
  PROVE  SubSeq(t, m + 1, n) = SubSeq(s, m + 1, n)
<1> DEFINE l == SubSeq(t, m + 1, n)
           r == SubSeq(s, m + 1, n)
<1>1. Len(s) \in Nat /\ Len(t) \in Nat /\ Len(s) <= Len(t) /\ \A i \in 1..Len(s) : t[i] = s[i]
  BY DEF Extends
<1>2. l \in Seq(T) /\ Len(l) = n - m /\ \A i \in 1..(n - m) : l[i] = t[m + i]
  BY <1>1, PartIs
<1>3. r \in Seq(S) /\ Len(r) = n - m /\ \A i \in 1..(n - m) : r[i] = s[m + i]
  BY <1>1, PartIs
<1>4. \A i \in 1..(n - m) : m + i \in 1..Len(s)
  BY <1>1
<1>5. \A i \in 1..Len(l) : l[i] = r[i]
  BY <1>1, <1>2, <1>3, <1>4
<1> HIDE DEF l, r
<1>6. l = r
  BY <1>2, <1>3, <1>5, SequencesEqual
<1> QED
  BY <1>6 DEF l, r

-----------------------------------------------------------------------------
(***************************************************************************)
(* What a step of a run leaves alone.                                      *)
(***************************************************************************)
\* A step of c changes only c's part of a variable.
ChangesOnly(c, f, g) == g = f \/ \E x : g = [f EXCEPT ![c] = x]

LEMMA ExitChanges ==
  ASSUME NEW c \in Conns, NEW code, Exit(c, code)
  PROVE  /\ UNCHANGED <<plan, offered, sent>>
         /\ ChangesOnly(c, stage, stage') /\ ChangesOnly(c, status, status')
BY DEF Exit, To, PeerShut, transportVars, ChangesOnly

LEMMA StepChanges ==
  ASSUME NEW c \in Conns, ClientStep(c)
  PROVE  /\ UNCHANGED <<plan, sent>>
         /\ ChangesOnly(c, offered, offered')
         /\ ChangesOnly(c, stage, stage') /\ ChangesOnly(c, status, status')
         /\ ChangesOnly(c, received, received') /\ ChangesOnly(c, buffered, buffered')
         /\ ChangesOnly(c, remaining, remaining')
<1>1. ASSUME GiveUp(c) \/ (Exit(c, "failed") /\ UNCHANGED <<received, buffered, remaining>>)
      PROVE  /\ UNCHANGED <<plan, sent, offered, received, buffered, remaining>>
             /\ ChangesOnly(c, stage, stage') /\ ChangesOnly(c, status, status')
  BY <1>1, ExitChanges DEF GiveUp
<1>2. CASE Open(c)
  BY <1>2 DEF Open, Connect, To, ChangesOnly
<1>3. CASE Send(c)
  BY <1>3 DEF Send, PeerSend, clientVars, ChangesOnly
<1>4. CASE SentAll(c) \/ SendToClosed(c)
  BY <1>1, <1>4 DEF SentAll, SendToClosed, To, transportVars, ChangesOnly
<1>5. CASE Recv(c)
  BY <1>5 DEF Recv, PeerRead, transportVars, ChangesOnly
<1>6. CASE RecvEnds(c) \/ LineTooLong(c)
  BY <1>1, <1>6 DEF RecvEnds, LineTooLong, Abandon, ChangesOnly
<1>7. CASE StartDownload(c)
  BY <1>1, <1>7 DEF StartDownload, TakeLine, To, transportVars, ChangesOnly
<1>8. CASE Copy(c)
  BY <1>1, <1>8 DEF Copy, Abandon, transportVars, ChangesOnly
<1>9. CASE FinishDownload(c)
  BY <1>1, <1>9, ExitChanges DEF FinishDownload, Abandon, ChangesOnly
<1>10. CASE StartUpload(c)
  BY <1>1, <1>10 DEF StartUpload, TakeLine, To, transportVars, ChangesOnly
<1>11. CASE FinishUpload(c) \/ KillClient(c)
  BY <1>11, ExitChanges DEF FinishUpload, KillClient, ChangesOnly
<1>12. CASE CannotConnect(c)
  BY <1>12 DEF CannotConnect, To, transportVars, ChangesOnly
<1>13. CASE CannotRead(c)
  BY <1>1, <1>13 DEF CannotRead, ChangesOnly
<1>14. CASE ResetAfterExit(c)
  BY <1>14 DEF ResetAfterExit, PeerReset, clientVars, ChangesOnly
<1> QED
  BY <1>2, <1>3, <1>4, <1>5, <1>6, <1>7, <1>8, <1>9, <1>10, <1>11, <1>12, <1>13, <1>14
  DEF ClientStep, Run

\* What is said of a run by its plan, and by what was sent to it.
LEMMA SamePlan ==
  ASSUME plan' = plan, NEW c \in Conns
  PROVE  RequestEnd(c)' = RequestEnd(c) /\ IsPut(c)' = IsPut(c) /\ Announced(c)' = Announced(c)
BY DEF RequestEnd, IsPut, Announced

LEMMA PlanIs ==
  ASSUME NEW c \in Conns, plan[c] \in Plans[c]
  PROVE  RequestEnd(c) \in Nat /\ Len(Stream(c)) \in Nat
<1> DEFINE words == [i \in 1..Len(plan[c].line) |-> Word(plan[c].line[i])]
           S     == {words[i] : i \in 1..Len(plan[c].line)} \cup {Newline}
                      \cup {Byte(c, i) : i \in 1..plan[c].payload}
<1>1. Len(plan[c].line) \in Nat /\ plan[c].payload \in Nat
  BY Lines
<1>2. words \in Seq(S) /\ <<Newline>> \in Seq(S) /\ Bytes(c, plan[c].payload) \in Seq(S)
  BY <1>1 DEF Bytes
<1>3. RequestTokens(plan[c].line) \in Seq(S)
  BY <1>2, ConcatProperties DEF RequestTokens
<1>4. Stream(c) \in Seq(S)
  BY <1>2, <1>3, ConcatProperties DEF Stream
<1> QED
  BY <1>3, <1>4, LenProperties DEF RequestEnd

\* A step of one run leaves the others as they are, and their files.
LEMMA OtherRunsStay ==
  ASSUME ClientInv, RunsInv, NEW c \in Conns, ClientStep(c), NEW d \in Conns \ {c}
  PROVE  RunInv(d)'
<1>1. /\ plan' = plan /\ sent' = sent
      /\ offered'[d] = offered[d] /\ stage'[d] = stage[d] /\ status'[d] = status[d]
      /\ received'[d] = received[d] /\ buffered'[d] = buffered[d] /\ remaining'[d] = remaining[d]
  BY StepChanges DEF ChangesOnly, RunsInv, ClientInv
<1>2. stage[d] = "copying" => local'[Part(d)] = local[Part(d)]
  <2>1. SUFFICES ASSUME stage[d] = "copying"
                 PROVE  local'[Part(d)] = local[Part(d)]
    OBVIOUS
  <2>2. Part(d) \in DOMAIN local
    BY <2>1 DEF ClientInv
  <2>3. CASE Begins(c) \/ Quiet(c)
    BY <2>3 DEF Begins, Quiet
  <2>4. CASE Creates(c) \/ Writes(c) \/ Removes(c) \/ Finishes(c)
    <3>1. Running(c)
      BY <2>4 DEF Creates, Writes, Removes, Finishes, Running
    <3>2. Destination[c] # Destination[d]
      BY <2>1, <3>1 DEF ClientInv, Running
    <3>3. Part(c) # Part(d) /\ Part(d) # Destination[c]
      BY <3>2, PartsApart
    <3> QED
      BY <2>2, <2>4, <3>3 DEF Creates, Writes, Removes, Finishes, LocalWithout
  <2> QED
    BY <2>3, <2>4, StepKinds
<1>3. Downloaded(d) => Downloaded(d)'
  <2>1. SUFFICES ASSUME Downloaded(d)
                 PROVE  Destination[d] \in DOMAIN local' /\ local'[Destination[d]] = local[Destination[d]]
    BY <1>1 DEF Downloaded, Delivered, Done
  <2>2. Destination[d] \in DOMAIN local /\ Part(c) # Destination[d]
    BY <2>1, PartsApart DEF Downloaded
  <2>3. CASE Begins(c) \/ Quiet(c)
    BY <2>2, <2>3 DEF Begins, Quiet
  <2>4. CASE Creates(c) \/ Writes(c) \/ Removes(c)
    BY <2>2, <2>4 DEF Creates, Writes, Removes, LocalWithout
  <2>5. CASE Finishes(c)
    BY <2>2, <2>5 DEF Finishes, ClientInv
  <2> QED
    BY <2>3, <2>4, <2>5, StepKinds
<1>4. RunInv(d)
  BY DEF RunsInv
<1>5. RequestEnd(d)' = RequestEnd(d) /\ IsPut(d)' = IsPut(d) /\ Announced(d)' = Announced(d)
  BY <1>1, SamePlan
<1>6. /\ Asking(d)' = Asking(d) /\ Storing(d)' = Storing(d) /\ Invited(d)' = Invited(d)
      /\ Confirmed(d)' = Confirmed(d) /\ Size(d)' = Size(d) /\ Copied(d)' = Copied(d)
  BY <1>1, <1>5 DEF Asking, Storing, Invited, Confirmed, Size, Copied
<1>7. stage[d] = "copying" => (Copying(d) => Copying(d)')
  BY <1>1, <1>2, <1>5, <1>6 DEF Copying, Part
<1>8. Fetched(d) => Fetched(d)'
  BY <1>1, <1>3, <1>6 DEF Fetched
<1> QED
  BY <1>1, <1>4, <1>5, <1>6, <1>7, <1>8 DEF RunInv, Done

-----------------------------------------------------------------------------
(***************************************************************************)
(* What a step of a run makes of what it received.                         *)
(***************************************************************************)
\* The line read_line returns ends at the first newline.
LEMMA LineIs ==
  ASSUME NEW c \in Conns, NEW S, buffered[c] \in Seq(S), HasLine(c)
  PROVE  /\ LineEnd(c) \in 1..Len(buffered[c])
         /\ buffered[c][LineEnd(c)] = Newline
         /\ Len(Response(c)) = LineEnd(c) - 1
         /\ \A i \in 1..(LineEnd(c) - 1) : Response(c)[i] = buffered[c][i]
         /\ \A i \in 1..(LineEnd(c) - 1) : buffered[c][i] # Newline
<1> DEFINE T == {i \in DOMAIN buffered[c] : buffered[c][i] = Newline}
           P(i) == /\ buffered[c][i] = Newline
                   /\ \A j \in 1..(i - 1) : buffered[c][j] # Newline
<1>1. DOMAIN buffered[c] = 1..Len(buffered[c]) /\ Len(buffered[c]) \in Nat
  OBVIOUS
<1>2. T \subseteq Nat /\ T # {}
  BY <1>1 DEF HasLine
<1>3. PICK x \in T : \A y \in T : x <= y
  BY <1>2, LeastNumber
<1>4. \E i \in DOMAIN buffered[c] : P(i)
  <2>1. ASSUME NEW j \in 1..(x - 1)
        PROVE  buffered[c][j] # Newline
    <3>1. x \in 1..Len(buffered[c])
      BY <1>1, <1>3
    <3>2. j \in 1..Len(buffered[c]) /\ ~(x <= j)
      BY <3>1, <1>1
    <3> QED
      BY <1>1, <1>3, <3>2
  <2> QED
    BY <1>3, <2>1
<1>5. LineEnd(c) \in DOMAIN buffered[c] /\ P(LineEnd(c))
  BY <1>4 DEF LineEnd
<1>6. LineEnd(c) \in 1..Len(buffered[c])
  BY <1>1, <1>5
<1>7. 0 \in Nat /\ LineEnd(c) - 1 \in Nat /\ 0 <= LineEnd(c) - 1 /\ LineEnd(c) - 1 <= Len(buffered[c])
  BY <1>1, <1>6
<1> DEFINE e == LineEnd(c) - 1
<1>8. /\ Len(SubSeq(buffered[c], 0 + 1, e)) = e - 0
      /\ \A i \in 1..(e - 0) : SubSeq(buffered[c], 0 + 1, e)[i] = buffered[c][0 + i]
  BY <1>7, PartIs
<1>9. Response(c) = SubSeq(buffered[c], 0 + 1, e)
  BY DEF Response
<1> HIDE DEF e
<1>10. Len(Response(c)) = e /\ \A i \in 1..e : Response(c)[i] = buffered[c][i]
  BY <1>7, <1>8, <1>9 DEF e
<1> QED
  BY <1>5, <1>6, <1>10 DEF e

\* A run whose stage does not change to one of those that have received more.
LEMMA ExitKeeps ==
  ASSUME RunsInv, ClientInv, NEW c \in Conns, NEW code \in {"failed", "killed"}, Exit(c, code),
         UNCHANGED <<received, remaining>>
  PROVE  RunInv(c)'
<1>1. /\ UNCHANGED <<plan, offered, sent>> /\ stage'[c] = "end" /\ status'[c] = code
  BY ExitChanges DEF Exit, To, ClientInv
<1>2. RunInv(c) /\ RequestEnd(c)' = RequestEnd(c) /\ Invited(c)' = Invited(c)
  BY <1>1, SamePlan DEF RunsInv, Invited
<1> QED
  BY <1>1, <1>2 DEF RunInv, Done

LEMMA SendKeeps ==
  ASSUME RunsInv, ClientInv, NEW c \in Conns, Send(c)
  PROVE  RunInv(c)'
<1>1. /\ UNCHANGED <<plan, sent>> /\ UNCHANGED clientVars
      /\ stage[c] \in {"request", "uploading"} /\ offered'[c] <= SendGoal(c)
      /\ \E upto \in (offered[c] + 1)..Len(Stream(c)) : offered' = [offered EXCEPT ![c] = upto]
  BY DEF Send, PeerSend, ToSend
<1>2. RunInv(c) /\ offered[c] \in Nat /\ RequestEnd(c) \in Nat /\ Len(Stream(c)) \in Nat
  BY PlanIs DEF RunsInv, RunInv
<1>3. offered'[c] \in Nat
  BY <1>1, <1>2 DEF RunsInv
<1>4. /\ RequestEnd(c)' = RequestEnd(c) /\ IsPut(c)' = IsPut(c) /\ Announced(c)' = Announced(c)
      /\ Invited(c)' = Invited(c) /\ stage' = stage /\ received' = received
      /\ buffered' = buffered /\ remaining' = remaining /\ status' = status
  BY <1>1, SamePlan DEF Invited, clientVars
<1>5. stage[c] = "request" => offered'[c] <= RequestEnd(c)
  BY <1>1 DEF SendGoal
<1>6. stage[c] = "request" => Asking(c)'
  BY <1>1, <1>2, <1>4, <1>5 DEF RunInv, Asking
<1>7. stage[c] = "uploading" => Storing(c)' /\ Invited(c)'
  BY <1>1, <1>2, <1>4 DEF RunInv, Storing
<1>8. offered'[c] > RequestEnd(c) => stage[c] # "request"
  BY <1>2, <1>3, <1>5
<1> QED
  BY <1>1, <1>2, <1>3, <1>4, <1>6, <1>7, <1>8 DEF RunInv, Done

\* send_all returns: on to the response, or to the confirmation of a whole file.
LEMMA SentAllKeeps ==
  ASSUME RunsInv, ClientInv, NEW c \in Conns,
         stage[c] \in {"request", "uploading"}, CountsAgree(c), To(c, AfterSend(c)),
         UNCHANGED <<plan, offered, sent, received, buffered, remaining, status>>
  PROVE  RunInv(c)'
<1>1. /\ RunInv(c) /\ RequestEnd(c)' = RequestEnd(c) /\ IsPut(c)' = IsPut(c)
      /\ Announced(c)' = Announced(c) /\ Invited(c)' = Invited(c)
  BY SamePlan DEF RunsInv, Invited
<1>2. stage'[c] = AfterSend(c)
  BY DEF To, ClientInv
<1>3. CASE stage[c] = "request"
  BY <1>1, <1>2, <1>3 DEF RunInv, AfterSend, Asking, Done
<1>4. CASE stage[c] = "uploading"
  BY <1>1, <1>2, <1>4 DEF RunInv, AfterSend, Storing, CountsAgree, Done
<1> QED
  BY <1>3, <1>4

LEMMA RecvKeeps ==
  ASSUME RunsInv, ClientInv, NEW c \in Conns, Recv(c)
  PROVE  RunInv(c)'
<1>1. PICK n \in (received[c] + 1)..Len(sent[c]) :
        /\ received' = [received EXCEPT ![c] = n]
        /\ buffered' = [buffered EXCEPT ![c] = @ \o SubSeq(sent[c], received[c] + 1, n)]
  BY DEF Recv
<1>2. /\ UNCHANGED <<plan, offered, sent, stage, remaining, status, local>>
      /\ stage[c] \in {"response", "confirm", "copying"}
  BY DEF Recv, Receiving, PeerRead, transportVars
<1>3. RunInv(c) /\ received[c] \in Nat /\ sent[c] \in Seq(ToSet(sent[c])) /\ received[c] <= Len(sent[c])
  <2>1. RunInv(c)
    BY DEF RunsInv
  <2> QED
    BY <2>1 DEF RunInv, WellSent
<1>4. n \in Nat /\ received[c] <= n /\ n <= Len(sent[c]) /\ n \in 0..Len(sent[c])
  BY <1>3
<1>5. /\ received'[c] = n
      /\ buffered'[c] = buffered[c] \o SubSeq(sent[c], received[c] + 1, n)
  BY <1>1 DEF RunsInv
<1>6. ASSUME NEW b \in Nat, b <= received[c], buffered[c] = SubSeq(sent[c], b + 1, received[c])
      PROVE  buffered'[c] = SubSeq(sent[c], b + 1, n)
  <2> DEFINE s == sent[c]
             m == received[c]
  <2>1. s \in Seq(ToSet(s)) /\ m \in Nat /\ n \in Nat /\ b <= m /\ m <= n /\ n <= Len(s)
    BY <1>3, <1>4, <1>6
  <2> HIDE DEF s, m
  <2>2. SubSeq(s, b + 1, m) \o SubSeq(s, m + 1, n) = SubSeq(s, b + 1, n)
    BY <2>1, PartsJoin
  <2> QED
    BY <1>5, <1>6, <2>2 DEF s, m
<1>7. /\ RequestEnd(c)' = RequestEnd(c) /\ IsPut(c)' = IsPut(c) /\ Announced(c)' = Announced(c)
      /\ Invited(c)' = Invited(c) /\ Size(c)' = Size(c) /\ Copied(c)' = Copied(c)
  BY <1>2, SamePlan DEF Invited, Size, Copied
<1>8. stage[c] = "response" => Asking(c)'
  <2>1. SUFFICES ASSUME Asking(c)
                 PROVE  buffered'[c] = SubSeq(sent[c], 1, n)
    BY <1>2, <1>3, <1>5, <1>7 DEF RunInv, Asking
  <2>2. 0 \in Nat /\ 0 <= received[c] /\ 0 + 1 = 1
    BY <1>3
  <2> QED
    BY <1>6, <2>1, <2>2 DEF Asking
<1>9. stage[c] = "confirm" => Storing(c)'
  <2>1. SUFFICES ASSUME Storing(c)
                 PROVE  n >= 2 /\ buffered'[c] = SubSeq(sent[c], 3, n)
    BY <1>2, <1>3, <1>5, <1>7 DEF RunInv, Storing
  <2>2. 2 \in Nat /\ 2 <= received[c] /\ 2 + 1 = 3 /\ n >= 2
    BY <1>3, <1>4, <2>1 DEF Storing
  <2> QED
    BY <1>6, <2>1, <2>2 DEF Storing
<1>10. stage[c] = "copying" => Copying(c)'
  <2> SUFFICES ASSUME stage[c] = "copying"
               PROVE  Copying(c)'
    OBVIOUS
  <2>1. Copying(c)
    BY <1>3 DEF RunInv
  <2>2. Size(c) \in Nat /\ remaining[c] \in Nat /\ remaining[c] <= Size(c)
    <3>1. 1 \in DOMAIN sent[c]
      BY <1>3, <2>1 DEF Copying
    <3> QED
      BY <1>3, <2>1, <3>1 DEF RunInv, WellSent, Copying, Size
  <2>3. Copied(c) + 2 \in Nat /\ Copied(c) + 2 <= received[c]
    BY <2>1, <2>2 DEF Copied, Copying
  <2>4. (Copied(c) + 2) + 1 = Copied(c) + 3
    BY <2>2 DEF Copied
  <2>5. buffered'[c] = SubSeq(sent[c], Copied(c) + 3, n)
    BY <1>6, <2>1, <2>3, <2>4 DEF Copying
  <2>6. n >= 2 /\ Copied(c) + 2 <= n
    BY <1>3, <1>4, <2>1, <2>3 DEF Copying
  <2> QED
    BY <1>2, <1>5, <1>7, <2>1, <2>5, <2>6 DEF Copying, Part
<1> QED
  BY <1>2, <1>3, <1>4, <1>5, <1>7, <1>8, <1>9, <1>10 DEF RunInv, Done

\* A response of one token, and what is left when it is taken.
LEMMA HeadIs ==
  ASSUME RunsInv, NEW c \in Conns, NEW b \in Nat, b <= received[c],
         buffered[c] = SubSeq(sent[c], b + 1, received[c]),
         HasLine(c), Len(Response(c)) = 1
  PROVE  /\ b + 2 <= received[c]
         /\ Response(c)[1] = sent[c][b + 1] /\ sent[c][b + 2] = Newline
         /\ TakeLine(c) => buffered'[c] = SubSeq(sent[c], (b + 2) + 1, received[c])
<1> DEFINE s == sent[c]
           m == received[c]
           p == SubSeq(s, b + 1, m)
           S == ToSet(s)
<1>1. s \in Seq(S) /\ m \in Nat /\ m <= Len(s) /\ b <= m
  BY DEF RunsInv, RunInv, WellSent
<1> HIDE DEF s, m, S
<1>2. p \in Seq(S) /\ Len(p) = m - b /\ \A i \in 1..(m - b) : p[i] = s[b + i]
  BY <1>1, PartIs
<1>3. buffered[c] = p
  BY DEF s, m
<1> HIDE DEF p
<1>4. /\ LineEnd(c) \in 1..(m - b) /\ p[LineEnd(c)] = Newline
      /\ LineEnd(c) - 1 = 1 /\ \A i \in 1..1 : Response(c)[i] = p[i]
  BY <1>2, <1>3, LineIs
<1>5. LineEnd(c) = 2 /\ 2 \in 1..(m - b) /\ 1 \in 1..(m - b)
  BY <1>1, <1>4
<1>6. b + 2 <= m /\ Response(c)[1] = s[b + 1] /\ s[b + 2] = Newline
  BY <1>1, <1>2, <1>4, <1>5
<1>7. SubSeq(p, 2 + 1, m - b) = SubSeq(s, b + 2 + 1, b + (m - b))
  <2>1. 2 \in Nat /\ m - b \in Nat /\ 2 <= m - b /\ m - b <= m - b
    BY <1>1, <1>6
  <2> QED
    BY <1>1, <2>1, PartInPart DEF p
<1>8. b + (m - b) = m
  BY <1>1
<1>9. TakeLine(c) => buffered'[c] = SubSeq(p, LineEnd(c) + 1, Len(p))
  BY <1>3 DEF TakeLine, RunsInv
<1>10. TakeLine(c) => buffered'[c] = SubSeq(s, (b + 2) + 1, m)
  BY <1>2, <1>5, <1>7, <1>8, <1>9
<1> QED
  BY <1>6, <1>10 DEF s, m

LEMMA StartDownloadKeeps ==
  ASSUME RunsInv, ClientInv, NEW c \in Conns, StartDownload(c), ~GiveUp(c)
  PROVE  RunInv(c)'
<1>1. /\ stage[c] = "response" /\ ~IsPut(c) /\ HasLine(c) /\ IsOk(c)
      /\ TakeLine(c) /\ To(c, "copying")
      /\ remaining' = [remaining EXCEPT ![c] = OkSize(c)]
      /\ local' = [p \in DOMAIN local \cup {Part(c)} |-> IF p = Part(c) THEN <<>> ELSE local[p]]
      /\ UNCHANGED <<plan, offered, sent, received, status>>
  BY DEF StartDownload, transportVars
<1>2. RunInv(c) /\ Asking(c) /\ received[c] \in Nat /\ received[c] <= Len(sent[c])
      /\ WellSent(sent[c])
  <2>1. RunInv(c)
    BY DEF RunsInv
  <2> QED
    BY <1>1, <2>1 DEF RunInv, WellSent
<1>3. 0 \in Nat /\ 0 <= received[c] /\ buffered[c] = SubSeq(sent[c], 0 + 1, received[c])
  BY <1>2 DEF Asking
<1>4. Len(Response(c)) = 1 /\ Response(c)[1].kind = "ok"
  BY <1>1 DEF IsOk
<1>5. /\ 0 + 2 <= received[c] /\ Response(c)[1] = sent[c][0 + 1]
      /\ buffered'[c] = SubSeq(sent[c], (0 + 2) + 1, received[c])
  BY <1>1, <1>3, <1>4, HeadIs
<1>6. 1 \in DOMAIN sent[c] /\ Response(c)[1] = sent[c][1]
  BY <1>2, <1>5 DEF WellSent
<1>7. sent[c][1].kind = "ok" /\ Size(c) \in Nat /\ OkSize(c) = Size(c)
  BY <1>2, <1>4, <1>6 DEF WellSent, Size, OkSize
<1>8. /\ stage'[c] = "copying" /\ remaining'[c] = Size(c)
      /\ Size(c)' = Size(c) /\ Copied(c)' = Size(c) - remaining'[c]
  BY <1>1, <1>7 DEF To, ClientInv, RunsInv, Size, Copied
<1>9. /\ RequestEnd(c)' = RequestEnd(c) /\ IsPut(c)' = IsPut(c) /\ Announced(c)' = Announced(c)
      /\ Invited(c)' = Invited(c)
  BY <1>1, SamePlan DEF Invited
<1>10. Copied(c)' = 0 /\ Copied(c)' + 2 = 2 /\ Copied(c)' + 3 = 3
  BY <1>7, <1>8
<1>11. local'[Part(c)] = SubSeq(sent[c], 3, 2)
  <2>1. SubSeq(sent[c], 3, 2) = <<>>
    BY SubSeqEmpty
  <2> QED
    BY <1>1, <2>1
<1>12. buffered'[c] = SubSeq(sent[c], 3, received[c]) /\ 2 <= received[c]
  BY <1>5
<1>13. Copying(c)'
  <2>1. /\ ~IsPut(c)' /\ offered'[c] <= RequestEnd(c)'
        /\ received'[c] >= 2 /\ sent'[c][1].kind = "ok"
    BY <1>1, <1>2, <1>7, <1>9, <1>12 DEF Asking
  <2>2. remaining'[c] <= Size(c)' /\ Copied(c)' + 2 <= received'[c]
    BY <1>1, <1>2, <1>7, <1>8, <1>10, <1>12
  <2>3. /\ local'[Part(c)'] = SubSeq(sent'[c], 3, Copied(c)' + 2)
        /\ buffered'[c] = SubSeq(sent'[c], Copied(c)' + 3, received'[c])
    BY <1>1, <1>10, <1>11, <1>12 DEF Part
  <2> QED
    BY <2>1, <2>2, <2>3 DEF Copying
<1>14. remaining'[c] \in Nat
  BY <1>7, <1>8
<1> QED
  BY <1>1, <1>2, <1>8, <1>9, <1>13, <1>14 DEF RunInv, Done

\* One turn of copy_exactly moves n tokens from the buffer to the file.
LEMMA TurnIs ==
  ASSUME NEW S, NEW s \in Seq(S), NEW k \in Nat, NEW m \in Nat, NEW n \in Nat,
         2 <= k, k <= m, m <= Len(s), n <= m - k
  PROVE  /\ SubSeq(s, 3, k) \o SubSeq(SubSeq(s, k + 1, m), 1, n) = SubSeq(s, 3, k + n)
         /\ SubSeq(SubSeq(s, k + 1, m), n + 1, m - k) = SubSeq(s, k + n + 1, m)
<1> DEFINE p == SubSeq(s, k + 1, m)
<1>1. /\ 0 \in Nat /\ 0 <= n /\ n <= m - k /\ m - k \in Nat /\ m - k <= m - k
      /\ k + 0 + 1 = k + 1 /\ k + (m - k) = m /\ k + n \in Nat /\ k <= k + n
      /\ k + n <= Len(s) /\ 0 + 1 = 1 /\ 2 + 1 = 3
  OBVIOUS
<1>2. SubSeq(p, 0 + 1, n) = SubSeq(s, k + 0 + 1, k + n)
  BY <1>1, PartInPart
<1>3. SubSeq(p, n + 1, m - k) = SubSeq(s, k + n + 1, k + (m - k))
  BY <1>1, PartInPart
<1>4. SubSeq(s, 2 + 1, k) \o SubSeq(s, k + 1, k + n) = SubSeq(s, 2 + 1, k + n)
  BY <1>1, PartsJoin
<1> HIDE DEF p
<1>5. SubSeq(s, 3, k) \o SubSeq(p, 1, n) = SubSeq(s, 3, k + n)
  BY <1>1, <1>2, <1>4
<1>6. SubSeq(p, n + 1, m - k) = SubSeq(s, k + n + 1, m)
  BY <1>1, <1>3
<1> QED
  BY <1>5, <1>6 DEF p

LEMMA CopyKeeps ==
  ASSUME RunsInv, ClientInv, NEW c \in Conns, Copy(c), ~Abandon(c)
  PROVE  RunInv(c)'
<1>1. /\ stage[c] = "copying" /\ remaining[c] > 0
      /\ local' = [local EXCEPT ![Part(c)] = @ \o SubSeq(buffered[c], 1, Count(c))]
      /\ buffered' = [buffered EXCEPT ![c] = SubSeq(@, Count(c) + 1, Len(@))]
      /\ remaining' = [remaining EXCEPT ![c] = @ - Count(c)]
      /\ UNCHANGED <<plan, offered, sent, stage, received, status>>
  BY DEF Copy, transportVars
<1>2. RunInv(c) /\ Copying(c) /\ Part(c) \in DOMAIN local
  BY <1>1 DEF RunsInv, RunInv, ClientInv
<1>3. PICK s, m, r, size : s = sent[c] /\ m = received[c] /\ r = remaining[c] /\ size = Size(c)
  OBVIOUS
<1> DEFINE S == ToSet(s)
<1>4. s \in Seq(S) /\ m \in Nat /\ m <= Len(s) /\ r \in Nat
  BY <1>2, <1>3 DEF RunInv, WellSent
<1>5. m >= 2 /\ sent[c][1].kind = "ok" /\ r <= size /\ Copied(c) + 2 <= m
  BY <1>2, <1>3 DEF Copying
<1>6. size \in Nat
  <2>1. 1 \in DOMAIN sent[c]
    BY <1>3, <1>4, <1>5
  <2> QED
    BY <1>2, <1>3, <1>5, <2>1 DEF RunInv, WellSent, Size
<1>7. Copied(c) = size - r
  BY <1>3 DEF Copied
<1>8. PICK k : k = size - r + 2
  OBVIOUS
<1>9. /\ k \in Nat /\ 2 <= k /\ k <= m
      /\ Copied(c) + 2 = k /\ Copied(c) + 3 = k + 1
  BY <1>4, <1>5, <1>6, <1>7, <1>8
<1>10. local[Part(c)] = SubSeq(s, 3, k) /\ buffered[c] = SubSeq(s, k + 1, m)
  BY <1>2, <1>3, <1>9 DEF Copying
<1>11. Len(buffered[c]) = m - k
  BY <1>4, <1>9, <1>10, PartIs
<1>12. PICK n : n = Count(c)
  OBVIOUS
<1>13. n \in Nat /\ n <= r /\ n <= m - k
  BY <1>3, <1>4, <1>9, <1>11, <1>12 DEF Count
<1>14. /\ local'[Part(c)] = SubSeq(s, 3, k) \o SubSeq(SubSeq(s, k + 1, m), 1, n)
       /\ buffered'[c] = SubSeq(SubSeq(s, k + 1, m), n + 1, m - k)
       /\ remaining'[c] = r - n
  BY <1>1, <1>2, <1>3, <1>10, <1>11, <1>12 DEF RunsInv
<1>15. local'[Part(c)] = SubSeq(s, 3, k + n) /\ buffered'[c] = SubSeq(s, k + n + 1, m)
  <2> HIDE DEF S
  <2>1. /\ s \in Seq(S) /\ k \in Nat /\ m \in Nat /\ n \in Nat
        /\ 2 <= k /\ k <= m /\ m <= Len(s) /\ n <= m - k
    BY <1>4, <1>9, <1>13
  <2>2. /\ SubSeq(s, 3, k) \o SubSeq(SubSeq(s, k + 1, m), 1, n) = SubSeq(s, 3, k + n)
        /\ SubSeq(SubSeq(s, k + 1, m), n + 1, m - k) = SubSeq(s, k + n + 1, m)
    BY <2>1, TurnIs
  <2> QED
    BY <1>14, <2>2
<1>16. Size(c)' = size /\ Copied(c)' = size - remaining'[c]
  BY <1>1, <1>3 DEF Size, Copied
<1>17. /\ Copied(c)' + 2 = k + n /\ Copied(c)' + 3 = k + n + 1 /\ k + n <= m
       /\ remaining'[c] \in Nat /\ remaining'[c] <= size
  BY <1>4, <1>5, <1>6, <1>8, <1>9, <1>13, <1>14, <1>16
<1>18. /\ RequestEnd(c)' = RequestEnd(c) /\ IsPut(c)' = IsPut(c) /\ Announced(c)' = Announced(c)
       /\ Invited(c)' = Invited(c)
  BY <1>1, SamePlan DEF Invited
<1>19. Copying(c)'
  <2>1. /\ ~IsPut(c)' /\ offered'[c] <= RequestEnd(c)'
        /\ received'[c] >= 2 /\ sent'[c][1].kind = "ok"
    BY <1>1, <1>2, <1>18 DEF Copying
  <2>2. remaining'[c] <= Size(c)' /\ Copied(c)' + 2 <= received'[c]
    BY <1>1, <1>3, <1>16, <1>17
  <2>3. /\ local'[Part(c)'] = SubSeq(sent'[c], 3, Copied(c)' + 2)
        /\ buffered'[c] = SubSeq(sent'[c], Copied(c)' + 3, received'[c])
    BY <1>1, <1>3, <1>15, <1>17 DEF Part
  <2> QED
    BY <2>1, <2>2, <2>3 DEF Copying
<1> QED
  BY <1>1, <1>2, <1>17, <1>18, <1>19 DEF RunInv, Done

\* The destination is the whole file as it was announced and sent.
LEMMA FinishDownloadKeeps ==
  ASSUME RunsInv, ClientInv, NEW c \in Conns, FinishDownload(c), ~Abandon(c)
  PROVE  RunInv(c)'
<1>1. /\ stage[c] = "copying" /\ remaining[c] = 0 /\ Exit(c, "done")
      /\ local' = [p \in (DOMAIN local \ {Part(c)}) \cup {Destination[c]} |->
                     IF p = Destination[c] THEN local[Part(c)] ELSE local[p]]
      /\ UNCHANGED <<received, buffered, remaining>>
  BY DEF FinishDownload
<1>2. RunInv(c) /\ Copying(c)
  BY <1>1 DEF RunsInv, RunInv
<1>3. /\ UNCHANGED <<plan, offered, sent>> /\ stage'[c] = "end" /\ status'[c] = "done"
  BY <1>1, ExitChanges DEF Exit, To, ClientInv
<1>4. PICK s, size : s = sent[c] /\ size = Size(c)
  OBVIOUS
<1> DEFINE S == ToSet(s)
<1>5. s \in Seq(S) /\ received[c] \in Nat /\ received[c] <= Len(s) /\ received[c] >= 2
      /\ s[1].kind = "ok"
  BY <1>2, <1>4 DEF RunInv, WellSent, Copying
<1>6. size \in Nat
  <2>1. 1 \in DOMAIN s
    BY <1>5
  <2> QED
    BY <1>2, <1>4, <1>5, <2>1 DEF RunInv, WellSent, Size
<1>7. Copied(c) = size
  BY <1>1, <1>4, <1>6 DEF Copied
<1>8. size + 2 <= Len(s) /\ size + 2 \in Nat /\ 2 \in Nat /\ 2 <= size + 2 /\ (size + 2) - 2 = size
      /\ 2 + 1 = 3
  <2>1. Copied(c) + 2 <= received[c]
    BY <1>2 DEF Copying
  <2> QED
    BY <1>5, <1>6, <1>7, <2>1
<1>9. Len(SubSeq(s, 2 + 1, size + 2)) = (size + 2) - 2
  BY <1>5, <1>8, PartIs
<1>10. local[Part(c)] = SubSeq(s, 3, size + 2) /\ Len(local[Part(c)]) = size
  <2>1. local[Part(c)] = SubSeq(s, 3, size + 2)
    BY <1>2, <1>4, <1>7 DEF Copying
  <2> QED
    BY <1>8, <1>9, <2>1
<1>11. Destination[c] \in DOMAIN local' /\ local'[Destination[c]] = local[Part(c)]
  BY <1>1
<1>12. Downloaded(c)' /\ Size(c)' = size
  BY <1>3, <1>4, <1>10, <1>11 DEF Downloaded, Delivered, Done, Size
<1>13. Fetched(c)'
  BY <1>3, <1>4, <1>5, <1>6, <1>8, <1>12 DEF Fetched
<1>14. RequestEnd(c)' = RequestEnd(c) /\ IsPut(c)' = IsPut(c) /\ Invited(c)' = Invited(c) /\ ~IsPut(c)
  BY <1>2, <1>3, SamePlan DEF Invited, Copying
<1> QED
  BY <1>1, <1>2, <1>3, <1>13, <1>14 DEF RunInv, Done

LEMMA StartUploadKeeps ==
  ASSUME RunsInv, ClientInv, NEW c \in Conns, StartUpload(c), ~GiveUp(c)
  PROVE  RunInv(c)'
<1>1. /\ stage[c] = "response" /\ IsPut(c) /\ HasLine(c) /\ Response(c) = <<ReadyHead>>
      /\ TakeLine(c) /\ To(c, "uploading")
      /\ UNCHANGED <<plan, offered, sent, received, remaining, status>>
  BY DEF StartUpload, transportVars
<1>2. RunInv(c) /\ Asking(c) /\ received[c] \in Nat /\ received[c] <= Len(sent[c])
      /\ sent[c] \in Seq(ToSet(sent[c]))
  <2>1. RunInv(c)
    BY DEF RunsInv
  <2> QED
    BY <1>1, <2>1 DEF RunInv, WellSent
<1>3. 0 \in Nat /\ 0 <= received[c] /\ buffered[c] = SubSeq(sent[c], 0 + 1, received[c])
  BY <1>2 DEF Asking
<1>4. Len(Response(c)) = 1 /\ Response(c)[1] = ReadyHead
  BY <1>1
<1>5. /\ 0 + 2 <= received[c] /\ Response(c)[1] = sent[c][0 + 1] /\ sent[c][0 + 2] = Newline
      /\ buffered'[c] = SubSeq(sent[c], (0 + 2) + 1, received[c])
  BY <1>1, <1>3, <1>4, HeadIs
<1>6. Invited(c)' /\ received[c] >= 2
  BY <1>1, <1>2, <1>4, <1>5 DEF Invited
<1>7. RequestEnd(c)' = RequestEnd(c) /\ IsPut(c)' = IsPut(c) /\ Announced(c)' = Announced(c)
  BY <1>1, SamePlan
<1>8. buffered'[c] = SubSeq(sent[c], 3, received[c])
  BY <1>5
<1>9. Storing(c)'
  BY <1>1, <1>6, <1>7, <1>8 DEF Storing
<1>10. stage'[c] = "uploading"
  BY <1>1 DEF To, ClientInv
<1> QED
  BY <1>1, <1>2, <1>6, <1>9, <1>10 DEF RunInv, Done

LEMMA FinishUploadKeeps ==
  ASSUME RunsInv, ClientInv, NEW c \in Conns, FinishUpload(c)
  PROVE  RunInv(c)'
<1>1. CASE ~Confirms(c)
  BY <1>1, ExitKeeps DEF FinishUpload
<1>2. CASE Confirms(c)
  <2>1. /\ stage[c] = "confirm" /\ HasLine(c) /\ Exit(c, "done")
        /\ UNCHANGED <<received, buffered, remaining>>
    BY <1>2 DEF FinishUpload
  <2>2. /\ UNCHANGED <<plan, offered, sent>> /\ stage'[c] = "end" /\ status'[c] = "done"
    BY <2>1, ExitChanges DEF Exit, To, ClientInv
  <2>3. RunInv(c) /\ Storing(c) /\ plan[c].payload = Announced(c)
    BY <2>1 DEF RunsInv, RunInv
  <2>4. /\ 2 \in Nat /\ 2 <= received[c] /\ received[c] \in Nat /\ received[c] <= Len(sent[c])
        /\ buffered[c] = SubSeq(sent[c], 2 + 1, received[c]) /\ WellSent(sent[c]) /\ Invited(c)
        /\ sent[c] \in Seq(ToSet(sent[c]))
    BY <2>3 DEF RunInv, Storing, WellSent
  <2>5. /\ 2 + 2 <= received[c] /\ Response(c)[1] = sent[c][2 + 1] /\ sent[c][2 + 2] = Newline
    BY <1>2, <2>1, <2>4, HeadIs DEF Confirms, IsOk
  <2>6. /\ Len(sent[c]) >= 4 /\ Response(c)[1] = sent[c][3] /\ sent[c][4] = Newline
        /\ 3 \in DOMAIN sent[c]
    BY <2>4, <2>5
  <2>7. sent[c][3] = OkHead(Announced(c))
    BY <1>2, <2>4, <2>6 DEF Confirms, IsOk, OkSize, WellSent
  <2>8. Confirmed(c)
    BY <2>3, <2>4, <2>6, <2>7 DEF Confirmed
  <2>9. /\ RequestEnd(c)' = RequestEnd(c) /\ IsPut(c)' = IsPut(c) /\ Announced(c)' = Announced(c)
        /\ Invited(c)' = Invited(c) /\ IsPut(c)
    BY <2>2, <2>3, SamePlan DEF Invited, Storing
  <2>10. Confirmed(c)'
    BY <2>2, <2>8, <2>9 DEF Confirmed
  <2> QED
    BY <2>1, <2>2, <2>3, <2>9, <2>10 DEF RunInv, Done
<1> QED
  BY <1>1, <1>2

LEMMA OwnStays ==
  ASSUME RunsInv, ClientInv, NEW c \in Conns, ClientStep(c)
  PROVE  RunInv(c)'
<1>1. ASSUME GiveUp(c) \/ Abandon(c)
      PROVE  RunInv(c)'
  BY <1>1, ExitKeeps DEF GiveUp, Abandon
<1>2. CASE Open(c)
  <2>1. /\ stage[c] = "start" /\ To(c, "request")
        /\ UNCHANGED <<plan, offered, sent, received, buffered, remaining, status>>
    BY <1>2 DEF Open, Connect
  <2>2. RunInv(c) /\ RequestEnd(c)' = RequestEnd(c) /\ IsPut(c)' = IsPut(c)
        /\ Announced(c)' = Announced(c) /\ Invited(c)' = Invited(c) /\ stage'[c] = "request"
    BY <2>1, SamePlan DEF RunsInv, Invited, To, ClientInv
  <2> QED
    BY <2>1, <2>2 DEF RunInv, Asking, Done
<1>3. CASE Send(c)
  BY <1>3, SendKeeps
<1>4. CASE SentAll(c) \/ SendToClosed(c)
  BY <1>1, <1>4, SentAllKeeps DEF SentAll, SendToClosed, ToSend, transportVars
<1>5. CASE Recv(c)
  BY <1>5, RecvKeeps
<1>6. CASE RecvEnds(c) \/ LineTooLong(c)
  BY <1>1, <1>6 DEF RecvEnds, LineTooLong
<1>7. CASE StartDownload(c)
  BY <1>1, <1>7, StartDownloadKeeps
<1>8. CASE Copy(c)
  BY <1>1, <1>8, CopyKeeps
<1>9. CASE FinishDownload(c)
  BY <1>1, <1>9, FinishDownloadKeeps
<1>10. CASE StartUpload(c)
  BY <1>1, <1>10, StartUploadKeeps
<1>11. CASE FinishUpload(c)
  BY <1>11, FinishUploadKeeps
<1>12. CASE KillClient(c)
  BY <1>12, ExitKeeps DEF KillClient
<1>13. CASE CannotConnect(c)
  <2>1. /\ stage'[c] = "end" /\ status'[c] = "unconnected"
        /\ UNCHANGED <<plan, offered, sent, received, remaining>>
    BY <1>13 DEF CannotConnect, To, ClientInv, transportVars
  <2>2. RunInv(c) /\ RequestEnd(c)' = RequestEnd(c) /\ Invited(c)' = Invited(c)
    BY <2>1, SamePlan DEF RunsInv, Invited
  <2> QED
    BY <2>1, <2>2 DEF RunInv, Done
<1>14. CASE CannotRead(c)
  BY <1>1, <1>14 DEF CannotRead
<1>15. CASE ResetAfterExit(c)
  <2>1. UNCHANGED clientVars /\ UNCHANGED <<plan, offered, sent>> /\ stage[c] = "end"
    BY <1>15 DEF ResetAfterExit, PeerReset
  <2>2. /\ RunInv(c) /\ RequestEnd(c)' = RequestEnd(c) /\ Invited(c)' = Invited(c)
        /\ IsPut(c)' = IsPut(c) /\ Announced(c)' = Announced(c)
    BY <2>1, SamePlan DEF RunsInv, Invited
  <2>3. UNCHANGED <<stage, received, buffered, remaining, status, local>>
    BY <2>1 DEF clientVars
  <2>4. Done(c)' = Done(c) /\ Confirmed(c)' = Confirmed(c) /\ Fetched(c)' = Fetched(c)
    BY <2>1, <2>2, <2>3 DEF Done, Confirmed, Fetched, Downloaded, Delivered, Size
  <2> QED
    BY <2>1, <2>2, <2>3, <2>4 DEF RunInv
<1> QED
  BY <1>2, <1>3, <1>4, <1>5, <1>6, <1>7, <1>8, <1>9, <1>10, <1>11, <1>12, <1>13, <1>14, <1>15
  DEF ClientStep, Run

\* Every step of a run preserves RunsInv.
LEMMA StepKeepsRuns ==
  ASSUME RunsInv, ClientInv, NEW c \in Conns, ClientStep(c)
  PROVE  RunsInv'
<1>1. \A d \in Conns : RunInv(d)'
  BY OtherRunsStay, OwnStays
<1>2. /\ DOMAIN offered' = Conns /\ DOMAIN sent' = Conns
      /\ DOMAIN received' = Conns /\ DOMAIN buffered' = Conns
      /\ remaining' = [d \in Conns |-> remaining'[d]]
  BY StepChanges DEF RunsInv, ChangesOnly
<1> QED
  BY <1>1, <1>2 DEF RunsInv

\* So does whatever a server does.
LEMMA ServerKeepsRuns ==
  ASSUME RunsInv, ClientInv, ServerMoves
  PROVE  RunsInv' /\ ClientInv'
<1>1. /\ UNCHANGED <<plan, offered, stage, received, buffered, remaining, status, local>>
      /\ DOMAIN sent' = Conns
  BY DEF ServerMoves, clientVars
<1>2. ASSUME NEW c \in Conns
      PROVE  RunInv(c)'
  <2> DEFINE s == sent[c]
             t == sent'[c]
             m == received[c]
             S == ToSet(s)
             T == ToSet(t)
  <2>1. RunInv(c) /\ WellSent(t) /\ Extends(s, t)
    BY DEF RunsInv, ServerMoves
  <2>2. s \in Seq(S) /\ t \in Seq(T) /\ m \in Nat /\ m <= Len(s) /\ m \in 0..Len(t)
        /\ Len(s) \in Nat /\ Len(t) \in Nat /\ Len(s) <= Len(t)
    BY <2>1 DEF RunInv, WellSent, Extends
  <2>3. \A i \in 1..Len(s) : t[i] = s[i]
    BY <2>1 DEF Extends
  <2> HIDE DEF s, t, m, S, T
  <2>4. \A a, b \in Nat : a <= b /\ b <= Len(s) => SubSeq(t, a + 1, b) = SubSeq(s, a + 1, b)
    BY <2>1, <2>2, PartOfMore
  <2>5. /\ RequestEnd(c)' = RequestEnd(c) /\ IsPut(c)' = IsPut(c) /\ Announced(c)' = Announced(c)
    BY <1>1, SamePlan
  <2>6. Invited(c) => Invited(c)'
    BY <2>2, <2>3 DEF Invited, s, t
  <2>7. Confirmed(c) => Confirmed(c)'
    BY <1>1, <2>2, <2>3, <2>5, <2>6 DEF Confirmed, s, t
  <2>8. Asking(c) => Asking(c)'
    <3>1. SubSeq(t, 0 + 1, m) = SubSeq(s, 0 + 1, m) /\ 0 + 1 = 1
      BY <2>2, <2>4
    <3> QED
      BY <1>1, <2>5, <3>1 DEF Asking, s, t, m
  <2>9. Storing(c) => Storing(c)'
    <3> SUFFICES ASSUME Storing(c)
                 PROVE  SubSeq(t, 3, m) = SubSeq(s, 3, m)
      BY <1>1, <2>5, <2>6 DEF Storing, s, t, m
    <3>1. 2 \in Nat /\ 2 <= m /\ 2 + 1 = 3
      BY <2>2 DEF Storing, m
    <3> QED
      BY <2>2, <2>4, <3>1
  <2>10. 1 <= Len(s) => Size(c)' = Size(c) /\ Copied(c)' = Copied(c) /\ t[1] = s[1]
    BY <1>1, <2>2, <2>3 DEF Size, Copied, s, t
  <2>11. ASSUME s[1].kind = "ok", 1 <= Len(s)
         PROVE  Size(c) \in Nat
    <3>1. 1 \in DOMAIN s
      BY <2>2, <2>11
    <3> QED
      BY <2>1, <2>11, <3>1 DEF RunInv, WellSent, Size, s
  <2>12. Copying(c) => Copying(c)'
    <3> SUFFICES ASSUME Copying(c)
                 PROVE  Copying(c)'
      OBVIOUS
    <3>1. m >= 2 /\ s[1].kind = "ok" /\ remaining[c] <= Size(c) /\ Copied(c) + 2 <= m
          /\ remaining[c] \in Nat
      BY <2>1 DEF Copying, s, m, RunInv
    <3>2. 1 <= Len(s) /\ Size(c) \in Nat
      BY <2>2, <2>11, <3>1
    <3>3. PICK k : k = Copied(c) + 2
      OBVIOUS
    <3>4. k \in Nat /\ k <= m /\ 2 <= k /\ k + 1 = Copied(c) + 3 /\ 2 + 1 = 3 /\ k <= Len(s)
      BY <2>2, <3>1, <3>2, <3>3 DEF Copied
    <3>5. SubSeq(t, 2 + 1, k) = SubSeq(s, 2 + 1, k) /\ SubSeq(t, k + 1, m) = SubSeq(s, k + 1, m)
      BY <2>2, <2>4, <3>4
    <3>6. /\ SubSeq(t, 3, Copied(c) + 2) = SubSeq(s, 3, Copied(c) + 2)
          /\ SubSeq(t, Copied(c) + 3, m) = SubSeq(s, Copied(c) + 3, m)
      BY <3>3, <3>4, <3>5
    <3>7. /\ Size(c)' = Size(c) /\ Copied(c)' = Copied(c) /\ t[1] = s[1] /\ Part(c)' = Part(c)
      BY <2>10, <3>2 DEF Part
    <3> QED
      BY <1>1, <2>5, <3>6, <3>7 DEF Copying, s, t, m
  <2>13. Fetched(c) => Fetched(c)'
    <3> SUFFICES ASSUME Fetched(c)
                 PROVE  Fetched(c)'
      OBVIOUS
    <3>1. /\ s[1].kind = "ok" /\ Size(c) \in Nat /\ Size(c) + 2 <= Len(s) /\ Downloaded(c)
      BY DEF Fetched, s
    <3>2. PICK size : size = Size(c)
      OBVIOUS
    <3>3. size \in Nat /\ 1 <= Len(s) /\ 2 <= size + 2 /\ size + 2 <= Len(t) /\ 2 \in Nat
          /\ size + 2 \in Nat /\ size + 2 <= Len(s) /\ 2 + 1 = 3
      BY <2>2, <3>1, <3>2
    <3>4. Size(c)' = size /\ t[1] = s[1] /\ s[1].size = size
      BY <2>10, <3>2, <3>3 DEF Size, s
    <3>5. SubSeq(t, 3, size + 2) = SubSeq(s, 3, size + 2)
      <4>1. SubSeq(t, 2 + 1, size + 2) = SubSeq(s, 2 + 1, size + 2)
        BY <2>4, <3>3
      <4> QED
        BY <3>3, <4>1
    <3>6. Downloaded(c)'
      BY <1>1, <3>1, <3>4, <3>5 DEF Downloaded, Delivered, Done, s, t
    <3> QED
      BY <3>1, <3>3, <3>4, <3>6 DEF Fetched, t
  <2> QED
    BY <1>1, <2>1, <2>2, <2>5, <2>6, <2>7, <2>8, <2>9, <2>12, <2>13 DEF RunInv, Done, t, m
<1>3. ClientInv'
  BY <1>1 DEF ClientInv, Running, Part
<1> QED
  BY <1>1, <1>2, <1>3 DEF RunsInv

LEMMA InitRuns ==
  ASSUME TransportInit, ClientInit
  PROVE  ClientInv /\ RunsInv
<1>1. ClientInv
  BY DEF ClientInit, ClientInv, Stages, Running, Done
<1>2. ASSUME NEW c \in Conns
      PROVE  RunInv(c)
  <2>1. /\ plan[c] \in Plans[c] /\ sent[c] = <<>> /\ offered[c] = 0 /\ received[c] = 0
        /\ buffered[c] = <<>> /\ remaining[c] = 0 /\ stage[c] = "start" /\ status[c] = "running"
    BY DEF TransportInit, ClientInit
  <2>2. RequestEnd(c) \in Nat
    BY <2>1, PlanIs
  <2>3. WellSent(<<>>) /\ Len(<<>>) = 0
    BY DEF WellSent, ToSet
  <2>4. SubSeq(<<>>, 1, 0) = <<>>
    BY SubSeqEmpty
  <2> QED
    BY <2>1, <2>2, <2>3, <2>4 DEF RunInv, Asking, Done
<1>3. /\ DOMAIN offered = Conns /\ DOMAIN sent = Conns
      /\ DOMAIN received = Conns /\ DOMAIN buffered = Conns
      /\ remaining = [c \in Conns |-> remaining[c]]
  BY DEF TransportInit, ClientInit
<1> QED
  BY <1>1, <1>2, <1>3 DEF RunsInv

ServedNext == ServerMoves \/ \E c \in Conns : ClientStep(c)

LEMMA ServedKeeps ==
  ASSUME ClientInv, RunsInv, [ServedNext]_<<transportVars, clientVars>>
  PROVE  ClientInv' /\ RunsInv'
<1>1. CASE UNCHANGED <<transportVars, clientVars>>
  <2>1. ServerMoves
    <3>1. ASSUME NEW c \in Conns
          PROVE  WellSent(sent[c]) /\ Extends(sent[c], sent[c])
      <4>1. WellSent(sent[c]) /\ Len(sent[c]) \in Nat
        BY DEF RunsInv, RunInv, WellSent
      <4> QED
        BY <4>1 DEF Extends
    <3> QED
      BY <1>1, <3>1 DEF ServerMoves, transportVars, RunsInv
  <2> QED
    BY <2>1, ServerKeepsRuns
<1>2. CASE ServerMoves
  BY <1>2, ServerKeepsRuns
<1>3. CASE \E c \in Conns : ClientStep(c)
  BY <1>3, StepKeepsRuns, StepKeepsInv
<1> QED
  BY <1>1, <1>2, <1>3 DEF ServedNext

\* What each run has made of what it received holds whatever its server sends.
THEOREM RunsHold == Served => [](ClientInv /\ RunsInv)
<1>1. TransportInit /\ ClientInit => ClientInv /\ RunsInv
  BY InitRuns
<1>2. ClientInv /\ RunsInv /\ [ServedNext]_<<transportVars, clientVars>> => (ClientInv /\ RunsInv)'
  BY ServedKeeps
<1> QED
  BY <1>1, <1>2, PTL DEF Served, ServedNext

\* A stream begins with what its first tokens are.
LEMMA BeginsWith ==
  ASSUME NEW S, NEW s \in Seq(S), NEW T, NEW h \in Seq(T),
         Len(h) <= Len(s), \A i \in 1..Len(h) : s[i] = h[i]
  PROVE  IsPrefix(h, s)
<1> DEFINE n == Len(h)
<1>1. n \in Nat /\ 0 \in Nat /\ 0 <= n /\ n <= n /\ n <= Len(s) /\ n - 0 = n
  OBVIOUS
<1> HIDE DEF n
<1>2. /\ SubSeq(s, 0 + 1, n) \in Seq(S) /\ Len(SubSeq(s, 0 + 1, n)) = n
      /\ \A i \in 1..n : SubSeq(s, 0 + 1, n)[i] = s[0 + i]
  BY <1>1, PartIs
<1>3. /\ SubSeq(h, 0 + 1, n) \in Seq(T) /\ Len(SubSeq(h, 0 + 1, n)) = n
      /\ \A i \in 1..n : SubSeq(h, 0 + 1, n)[i] = h[0 + i]
  <2>1. n <= Len(h)
    BY <1>1 DEF n
  <2> QED
    BY <1>1, <2>1, PartIs
<1>4. \A i \in 1..n : s[0 + i] = h[0 + i]
  BY <1>1 DEF n
<1> DEFINE l == SubSeq(h, 0 + 1, n)
           r == SubSeq(s, 0 + 1, n)
<1>5. l \in Seq(T) /\ r \in Seq(S) /\ Len(l) = Len(r) /\ \A i \in 1..Len(l) : l[i] = r[i]
  BY <1>2, <1>3, <1>4
<1> HIDE DEF l, r
<1>6. l = r
  BY <1>5, SequencesEqual
<1>7. SubSeq(h, 1, n) = SubSeq(s, 1, n)
  <2>1. 0 + 1 = 1
    OBVIOUS
  <2>2. SubSeq(h, 0 + 1, n) = SubSeq(s, 0 + 1, n)
    BY <1>6 DEF l, r
  <2> QED
    BY <2>1, <2>2, Zenon
<1> QED
  BY <1>1, <1>7 DEF IsPrefix, n

\* The counters of a run stay in their ranges: recv never counts more than was sent,
\* and the unsigned remaining of copy_exactly never goes below zero.
THEOREM RunTypesHold == Served => []ClientTypeOK
<1>1. ClientInv /\ RunsInv => ClientTypeOK
  BY DEF ClientInv, RunsInv, RunInv, ClientTypeOK
<1> QED
  BY <1>1, RunsHold, PTL

\* A run sends file data only after READY, and reports success for a PUT only when
\* the server confirmed the count of bytes that the file had.
THEOREM UploadsAreConfirmed == Served => []UploadsConfirmed
<1>1. ASSUME RunsInv, NEW c \in Conns
      PROVE  /\ offered[c] > RequestEnd(c) => IsPrefix(Line(ReadyHead), sent[c])
             /\ Done(c) /\ IsPut(c) =>
                  /\ plan[c].payload = Announced(c)
                  /\ IsPrefix(Line(ReadyHead) \o Line(OkHead(Announced(c))), sent[c])
  <2> DEFINE s == sent[c]
             S == ToSet(s)
             ok == OkHead(Announced(c))
  <2>1. RunInv(c) /\ s \in Seq(S) /\ Len(s) \in Nat
    BY <1>1 DEF RunsInv, RunInv, WellSent
  <2>2. ASSUME Invited(c)
        PROVE  IsPrefix(Line(ReadyHead), s)
    <3>1. Len(s) >= 2 /\ s[1] = ReadyHead /\ s[2] = Newline
      BY <2>2 DEF Invited
    <3> DEFINE h == Line(ReadyHead)
    <3>2. h \in Seq({ReadyHead, Newline}) /\ Len(h) = 2 /\ h[1] = ReadyHead /\ h[2] = Newline
      BY DEF Line
    <3> HIDE DEF h, s, S
    <3>3. Len(h) <= Len(s) /\ \A i \in 1..Len(h) : s[i] = h[i]
      BY <2>1, <3>1, <3>2
    <3>4. IsPrefix(h, s)
      BY <2>1, <3>2, <3>3, BeginsWith
    <3> QED
      BY <3>4 DEF h
  <2>3. ASSUME Confirmed(c)
        PROVE  IsPrefix(Line(ReadyHead) \o Line(ok), s)
    <3>1. Len(s) >= 4 /\ s[1] = ReadyHead /\ s[2] = Newline /\ s[3] = ok /\ s[4] = Newline
      BY <2>3 DEF Confirmed, Invited
    <3> DEFINE U == {ReadyHead, Newline, ok}
               h == Line(ReadyHead)
               e == Line(ok)
    <3>2. /\ h \in Seq(U) /\ Len(h) = 2 /\ h[1] = ReadyHead /\ h[2] = Newline
          /\ e \in Seq(U) /\ Len(e) = 2 /\ e[1] = ok /\ e[2] = Newline
      BY DEF Line
    <3> HIDE DEF h, e, s, S, U, ok
    <3>3. /\ h \o e \in Seq(U) /\ Len(h \o e) = 2 + 2
          /\ \A i \in 1..(2 + 2) : (h \o e)[i] = IF i <= 2 THEN h[i] ELSE e[i - 2]
      <4>1. /\ h \o e \in Seq(U) /\ Len(h \o e) = Len(h) + Len(e)
            /\ \A i \in 1..(Len(h) + Len(e)) :
                 (h \o e)[i] = IF i <= Len(h) THEN h[i] ELSE e[i - Len(h)]
        BY <3>2, ConcatProperties
      <4> QED
        BY <3>2, <4>1
    <3>4. Len(h \o e) <= Len(s) /\ \A i \in 1..Len(h \o e) : s[i] = (h \o e)[i]
      BY <2>1, <3>1, <3>2, <3>3
    <3>5. IsPrefix(h \o e, s)
      BY <2>1, <3>3, <3>4, BeginsWith
    <3> QED
      BY <3>5 DEF h, e
  <2> QED
    BY <2>1, <2>2, <2>3 DEF RunInv, Confirmed
<1>2. RunsInv => UploadsConfirmed
  BY <1>1 DEF UploadsConfirmed
<1> QED
  BY <1>2, RunsHold, PTL

\* A destination appears in one step, whole, as its size was announced and its bytes
\* were sent, and stays so: success is reported with it.
THEOREM DownloadsAreWhole == Served => DownloadsWhole
<1> DEFINE Appears ==
      \A c \in Conns :
        /\ Destination[c] \in DOMAIN local' \ DOMAIN local =>
             \E d \in Conns : Destination[d] = Destination[c] /\ Downloaded(d)' /\ ~Done(d)
        /\ Done(c)' /\ ~IsPut(c) => Downloaded(c)'
<1>1. ASSUME ClientInv, RunsInv, ClientInv', RunsInv', NEW e \in Conns, ClientStep(e), NEW c \in Conns,
             Destination[c] \in DOMAIN local' \ DOMAIN local
      PROVE  \E d \in Conns : Destination[d] = Destination[c] /\ Downloaded(d)' /\ ~Done(d)
  <2>1. ~Begins(e) /\ ~Quiet(e) /\ ~Writes(e) /\ ~Removes(e)
    BY <1>1 DEF Begins, Quiet, Writes, Removes, LocalWithout
  <2>2. ~Creates(e)
    BY <1>1, PartsApart DEF Creates
  <2>3. Finishes(e)
    BY <1>1, <2>1, <2>2, StepKinds
  <2>4. Destination[e] = Destination[c]
    BY <1>1, <2>3 DEF Finishes
  <2>5. Done(e)' /\ ~Done(e) /\ ~IsPut(e)
    BY <1>1, <2>3 DEF Finishes, ClientInv, RunsInv, RunInv, Copying, Done
  <2>6. IsPut(e)' = IsPut(e)
    BY <1>1, StepChanges, SamePlan
  <2>7. Downloaded(e)'
    BY <1>1, <2>5, <2>6 DEF RunsInv, RunInv, Fetched
  <2> QED
    BY <2>4, <2>5, <2>7
<1>2. ASSUME RunsInv', plan' = plan, NEW c \in Conns, Done(c)', ~IsPut(c)
      PROVE  Downloaded(c)'
  <2>1. ~IsPut(c)'
    BY <1>2, SamePlan
  <2> QED
    BY <1>2, <2>1 DEF RunsInv, RunInv, Fetched
<1>3. ClientInv /\ RunsInv /\ (ClientInv /\ RunsInv)' /\ [ServedNext]_<<transportVars, clientVars>>
        => [Appears]_clientVars
  <2>1. CASE UNCHANGED <<transportVars, clientVars>> \/ ServerMoves
    BY <2>1 DEF ServerMoves
  <2>2. ASSUME ClientInv, RunsInv, (ClientInv /\ RunsInv)', NEW e \in Conns, ClientStep(e)
        PROVE  Appears
    <3>1. plan' = plan
      BY <2>2, StepChanges
    <3> QED
      BY <1>1, <1>2, <2>2, <3>1
  <2> QED
    BY <2>1, <2>2 DEF ServedNext
<1> HIDE DEF Appears
<1>4. Served => [][Appears]_clientVars
  BY <1>3, RunsHold, PTL DEF Served, ServedNext
<1> QED
  BY <1>4 DEF DownloadsWhole, Appears

=============================================================================
