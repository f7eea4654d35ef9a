--------------------------- MODULE TransferProofs ---------------------------
(***************************************************************************)
(* What the server stores and says is right, for every instance: TInv is   *)
(* an invariant.  First the algebra of byte streams that the handlers rely *)
(* on, then one lemma per handler on the conversation of its connection,   *)
(* then one on what a step leaves alone, then the theorems.                *)
(***************************************************************************)
EXTENDS ServerProofs

-----------------------------------------------------------------------------
(***************************************************************************)
(* Sequences.                                                              *)
(***************************************************************************)
LEMMA ConcatSame ==
  ASSUME NEW s, NEW t, NEW u, IsSequence(s), IsSequence(t), IsSequence(u)
  PROVE  (s \o t) \o u = s \o (t \o u)
<1> DEFINE S == ToSet(s) \cup ToSet(t) \cup ToSet(u)
<1>1. s \in Seq(S) /\ t \in Seq(S) /\ u \in Seq(S)
  BY DEF IsSequence
<1> QED
  BY <1>1, ConcatAssociative

LEMMA ConcatNothing ==
  ASSUME NEW s, IsSequence(s)
  PROVE  s \o <<>> = s /\ <<>> \o s = s
BY ConcatEmptySeq DEF IsSequence

\* A sequence is its first m elements and the rest.
LEMMA SequenceSplit ==
  ASSUME NEW s, IsSequence(s), NEW m \in Nat, NEW n \in Nat, m <= n, n <= Len(s)
  PROVE  SubSeq(s, 1, m) \o SubSeq(s, m + 1, n) = SubSeq(s, 1, n)
<1>1. s \in Seq(ToSet(s)) /\ Len(s) \in Nat
  BY DEF IsSequence
<1>2. 1 \in 1..(Len(s) + 1) /\ m \in (1 - 1)..Len(s) /\ n \in m..Len(s)
  BY <1>1
<1> QED
  BY <1>1, <1>2, ConcatAdjacentSubSeq

LEMMA SequenceWhole ==
  ASSUME NEW s, IsSequence(s)
  PROVE  /\ SubSeq(s, 1, Len(s)) = s
         /\ SubSeq(s, 1, 0) = <<>>
         /\ SubSeq(s, Len(s) + 1, Len(s)) = <<>>
         /\ Len(s) \in Nat
<1>1. s \in Seq(ToSet(s)) /\ Len(s) \in Nat
  BY DEF IsSequence
<1>2. SubSeq(s, 1, Len(s)) = s
  BY <1>1, SubSeqFull
<1> QED
  BY <1>1, <1>2, SubSeqEmpty

\* The two halves of a sequence.
LEMMA SequenceHalves ==
  ASSUME NEW t, IsSequence(t), NEW n \in Nat, n <= Len(t)
  PROVE  /\ IsSequence(SubSeq(t, 1, n)) /\ Len(SubSeq(t, 1, n)) = n
         /\ IsSequence(SubSeq(t, n + 1, Len(t)))
         /\ SubSeq(t, 1, n) \o SubSeq(t, n + 1, Len(t)) = t
<1> DEFINE front == SubSeq(t, 1, n)
           back  == SubSeq(t, n + 1, Len(t))
<1>1. Len(t) \in Nat /\ Len(t) <= Len(t)
  BY SequenceWhole
<1>2. front \in Seq(ToSet(t)) /\ Len(front) = n
  <2>1. \A i \in 1..n : t[i] \in ToSet(t)
    BY <1>1 DEF IsSequence
  <2>2. front \in Seq(ToSet(t)) /\ Len(front) = IF 1 <= n THEN n - 1 + 1 ELSE 0
    BY <2>1, SubSeqProperties, 1 \in Int, n \in Int
  <2> HIDE DEF front
  <2> QED
    BY <2>2
<1>3. back \in Seq(ToSet(t))
  BY <1>1 DEF IsSequence
<1>4. front \o back = t
  <2>1. front \o back = SubSeq(t, 1, Len(t))
    BY <1>1, SequenceSplit
  <2> QED
    BY <2>1, SequenceWhole
<1> HIDE DEF front, back
<1>5. IsSequence(front) /\ IsSequence(back)
  BY <1>2, <1>3, SequenceOf
<1> QED
  BY <1>2, <1>4, <1>5 DEF front, back

\* What is taken from the front of a buffer and put behind a stream leaves
\* stream and buffer together as they were.
LEMMA MovedOver ==
  ASSUME NEW s, NEW t, IsSequence(s), IsSequence(t), NEW n \in Nat, n <= Len(t)
  PROVE  (s \o SubSeq(t, 1, n)) \o SubSeq(t, n + 1, Len(t)) = s \o t
<1> DEFINE front == SubSeq(t, 1, n)
           back  == SubSeq(t, n + 1, Len(t))
<1>1. IsSequence(front) /\ IsSequence(back)
  BY SequenceHalves
<1>2. front \o back = t
  BY SequenceHalves
<1> HIDE DEF front, back
<1>3. (s \o front) \o back = s \o (front \o back)
  BY <1>1, ConcatSame
<1> QED
  BY <1>2, <1>3 DEF front, back

LEMMA PrefixOfConcat ==
  ASSUME NEW s, NEW t, IsSequence(s), IsSequence(t)
  PROVE  IsPrefix(s, s \o t)
<1> DEFINE S == ToSet(s) \cup ToSet(t)
<1>1. s \in Seq(S) /\ t \in Seq(S)
  BY DEF IsSequence
<1>2. /\ s \o t \in Seq(S) /\ Len(s \o t) = Len(s) + Len(t)
      /\ Len(s) \in Nat /\ Len(t) \in Nat
      /\ \A i \in 1..(Len(s) + Len(t)) : (s \o t)[i] = IF i <= Len(s) THEN s[i] ELSE t[i - Len(s)]
  BY <1>1, ConcatProperties, LenProperties
<1>3. /\ SubSeq(s \o t, 1, Len(s)) \in Seq(S) /\ SubSeq(s, 1, Len(s)) = s
      /\ Len(SubSeq(s \o t, 1, Len(s))) = Len(s)
  BY <1>1, <1>2, SubSeqFull
<1>4. \A i \in 1..Len(s) : SubSeq(s \o t, 1, Len(s))[i] = s[i]
  BY <1>1, <1>2
<1>5. SubSeq(s \o t, 1, Len(s)) = s
  BY <1>1, <1>3, <1>4, SeqEqual
<1> QED
  BY <1>2, <1>3, <1>5 DEF IsPrefix

LEMMA PrefixSame ==
  ASSUME NEW s, IsSequence(s)
  PROVE  IsPrefix(s, s) /\ IsPrefix(<<>>, s)
<1>1. s \o <<>> = s /\ <<>> \o s = s /\ IsSequence(<<>>)
  BY ConcatNothing, SequenceLines
<1> QED
  BY <1>1, PrefixOfConcat

\* A prefix of a stream that goes on as the other does is a prefix of both.
LEMMA PrefixOfPart ==
  ASSUME NEW s, NEW t, NEW u, IsSequence(s), IsSequence(t), IsSequence(u)
  PROVE  IsPrefix(s, (s \o t) \o u)
<1>1. IsSequence(t \o u)
  BY SequenceConcat
<1>2. (s \o t) \o u = s \o (t \o u)
  BY ConcatSame
<1> QED
  BY <1>1, <1>2, PrefixOfConcat

\* A header and a part of the data are a prefix of the header and the data.
LEMMA PrefixOfData ==
  ASSUME NEW s, NEW t, IsSequence(s), IsSequence(t), NEW n \in Nat, n <= Len(t)
  PROVE  IsPrefix(s \o SubSeq(t, 1, n), s \o t)
<1> DEFINE front == SubSeq(t, 1, n)
           back  == SubSeq(t, n + 1, Len(t))
<1>1. IsSequence(front) /\ IsSequence(back) /\ (s \o front) \o back = s \o t
  BY SequenceHalves, MovedOver
<1> HIDE DEF front, back
<1>2. IsSequence(s \o front)
  BY <1>1, SequenceConcat
<1>3. IsPrefix(s \o front, (s \o front) \o back)
  BY <1>1, <1>2, PrefixOfConcat
<1> QED
  BY <1>1, <1>3 DEF front

-----------------------------------------------------------------------------
(***************************************************************************)
(* The streams of the peers, and what a request line says.                 *)
(***************************************************************************)
LEMMA BytesAre ==
  ASSUME NEW src, NEW n \in Nat
  PROVE  /\ IsSequence(Bytes(src, n)) /\ Len(Bytes(src, n)) = n
         /\ \A i \in 1..n : Bytes(src, n)[i] = Byte(src, i)
<1>1. Bytes(src, n) \in Seq({Byte(src, i) : i \in 1..n})
  BY DEF Bytes
<1>2. Len(Bytes(src, n)) = n /\ \A i \in 1..n : Bytes(src, n)[i] = Byte(src, i)
  BY DEF Bytes
<1> QED
  BY <1>1, <1>2, SequenceOf

LEMMA StreamShape ==
  ASSUME TypeOK, NEW c \in Conns
  PROVE  /\ Len(plan[c].line) \in Nat /\ plan[c].payload \in Nat /\ LineLength(c) \in Nat
         /\ Len(Stream(c)) = LineLength(c) + plan[c].payload
         /\ \A i \in 1..Len(plan[c].line) : Stream(c)[i] = Word(plan[c].line[i])
         /\ Stream(c)[LineLength(c)] = Newline
         /\ \A i \in 1..plan[c].payload : Stream(c)[LineLength(c) + i] = Byte(c, i)
<1>1. Len(plan[c].line) \in Nat /\ plan[c].payload \in Nat
  <2>1. plan[c] \in SomePlans
    BY DEF TypeOK, TransportTypeOK
  <2>2. PICK d \in Conns : plan[c] \in Plans[d]
    BY <2>1 DEF SomePlans
  <2> QED
    BY <2>2, Sizes
<1> DEFINE m     == Len(plan[c].line)
           words == [i \in 1..m |-> Word(plan[c].line[i])]
           line  == words \o <<Newline>>
           data  == Bytes(c, plan[c].payload)
           S     == {Word(plan[c].line[i]) : i \in 1..m} \cup {Newline}
                      \cup {Byte(c, i) : i \in 1..plan[c].payload}
<1>2. words \in Seq(S) /\ <<Newline>> \in Seq(S) /\ data \in Seq(S)
  BY <1>1 DEF Bytes
<1>3. Len(words) = m /\ Len(<<Newline>>) = 1 /\ Len(data) = plan[c].payload
      /\ <<Newline>>[1] = Newline
  BY <1>1, BytesAre
<1>4. /\ \A i \in 1..m : words[i] = Word(plan[c].line[i])
      /\ \A i \in 1..plan[c].payload : data[i] = Byte(c, i)
  BY <1>1, BytesAre
<1>5. Stream(c) = line \o data /\ LineLength(c) = m + 1
  BY DEF Stream, RequestTokens, LineLength
<1> HIDE DEF words, data, S, m
<1>6. /\ line \in Seq(S) /\ Len(line) = m + 1
      /\ \A i \in 1..(m + 1) : line[i] = IF i <= m THEN words[i] ELSE <<Newline>>[i - m]
  BY <1>2, <1>3, ConcatProperties
<1> HIDE DEF line
<1>8. m \in Nat /\ m + 1 \in Nat /\ m = Len(plan[c].line)
  BY <1>1 DEF m
<1> DEFINE k == LineLength(c)
           p == plan[c].payload
<1>7. /\ Len(line \o data) = k + p
      /\ \A i \in 1..(k + p) : (line \o data)[i] = IF i <= k THEN line[i] ELSE data[i - k]
  <2>1. /\ line \in Seq(S) /\ Len(line) = k /\ data \in Seq(S) /\ Len(data) = p
        /\ k \in Nat /\ p \in Nat
    BY <1>1, <1>2, <1>3, <1>5, <1>6, <1>8
  <2> HIDE DEF k, p
  <2>2. /\ line \o data \in Seq(S) /\ Len(line \o data) = Len(line) + Len(data)
        /\ \A i \in 1..(Len(line) + Len(data)) :
             (line \o data)[i] = IF i <= Len(line) THEN line[i] ELSE data[i - Len(line)]
    BY <2>1, ConcatProperties
  <2> QED
    BY <2>1, <2>2
<1>9. \A i \in 1..m : (line \o data)[i] = Word(plan[c].line[i])
  BY <1>1, <1>4, <1>5, <1>6, <1>7, <1>8
<1>10. (line \o data)[k] = Newline
  <2>1. /\ k = m + 1 /\ m + 1 \in 1..(m + 1) /\ k \in 1..(k + p) /\ ~(m + 1 <= m)
        /\ (m + 1) - m = 1
    BY <1>1, <1>5, <1>8
  <2>2. line[m + 1] = <<Newline>>[(m + 1) - m]
    BY <1>6, <2>1
  <2> QED
    BY <1>3, <1>7, <2>1, <2>2
<1>11. ASSUME NEW i \in 1..p
       PROVE  (line \o data)[k + i] = Byte(c, i)
  <2>1. k + i \in 1..(k + p) /\ ~(k + i <= k) /\ (k + i) - k = i
    BY <1>1, <1>5, <1>8
  <2> QED
    BY <1>4, <1>7, <2>1
<1> QED
  BY <1>1, <1>5, <1>7, <1>8, <1>9, <1>10, <1>11

\* What the peer sent behind its line, so far and next.
LEMMA BytesGrow ==
  ASSUME TypeOK, NEW c \in Conns, NEW t \in Nat, NEW n \in Nat,
         LineLength(c) + t + n <= Len(Stream(c))
  PROVE  Bytes(c, t) \o SubSeq(Stream(c), LineLength(c) + t + 1, LineLength(c) + t + n)
           = Bytes(c, t + n)
<1> DEFINE part == SubSeq(Stream(c), LineLength(c) + t + 1, LineLength(c) + t + n)
           S    == {Byte(c, i) : i \in 1..(t + n)}
           k    == LineLength(c)
<1>1. /\ k \in Nat /\ plan[c].payload \in Nat /\ t + n <= plan[c].payload
      /\ \A i \in 1..plan[c].payload : Stream(c)[k + i] = Byte(c, i)
  BY StreamShape
<1>2. \A j \in (k + t + 1)..(k + t + n) : Stream(c)[j] = Byte(c, j - k) /\ j - k \in 1..(t + n)
  <2>1. ASSUME NEW j \in (k + t + 1)..(k + t + n)
        PROVE  Stream(c)[j] = Byte(c, j - k) /\ j - k \in 1..(t + n)
    <3>1. j - k \in 1..(t + n) /\ j - k \in 1..plan[c].payload /\ k + (j - k) = j
      BY <1>1
    <3> QED
      BY <1>1, <3>1
  <2> QED
    BY <2>1
<1>3. \A j \in (k + t + 1)..(k + t + n) : Stream(c)[j] \in S
  BY <1>2
<1>4. k + t + 1 \in Int /\ k + t + n \in Int
  BY <1>1
<1>12. part = SubSeq(Stream(c), k + t + 1, k + t + n)
  OBVIOUS
<1> HIDE DEF S, k, part
<1>5. /\ part \in Seq(S)
      /\ Len(part) = IF k + t + 1 <= k + t + n THEN (k + t + n) - (k + t + 1) + 1 ELSE 0
      /\ \A i \in 1..((k + t + n) - (k + t + 1) + 1) : part[i] = Stream(c)[(k + t + 1) + i - 1]
  BY <1>3, <1>4, <1>12, SubSeqProperties
<1>6. Len(part) = n
  BY <1>1, <1>5
<1>7. ASSUME NEW i \in 1..n
      PROVE  part[i] = Byte(c, t + i)
  <2>1. /\ i \in 1..((k + t + n) - (k + t + 1) + 1)
        /\ (k + t + 1) + i - 1 \in (k + t + 1)..(k + t + n)
        /\ ((k + t + 1) + i - 1) - k = t + i
    BY <1>1
  <2> QED
    BY <1>2, <1>5, <2>1
<1>8. /\ Bytes(c, t) \in Seq(S) /\ Len(Bytes(c, t)) = t
      /\ \A i \in 1..t : Bytes(c, t)[i] = Byte(c, i)
      /\ Bytes(c, t + n) \in Seq(S) /\ Len(Bytes(c, t + n)) = t + n
      /\ \A i \in 1..(t + n) : Bytes(c, t + n)[i] = Byte(c, i)
  BY BytesAre DEF Bytes, S
<1>9. /\ Bytes(c, t) \o part \in Seq(S) /\ Len(Bytes(c, t) \o part) = t + n
      /\ \A i \in 1..(t + n) :
           (Bytes(c, t) \o part)[i] = IF i <= t THEN Bytes(c, t)[i] ELSE part[i - t]
  <2>1. Bytes(c, t) \in Seq(S) /\ Len(Bytes(c, t)) = t /\ part \in Seq(S) /\ Len(part) = n
    BY <1>5, <1>6, <1>8
  <2>2. /\ Bytes(c, t) \o part \in Seq(S)
        /\ Len(Bytes(c, t) \o part) = Len(Bytes(c, t)) + Len(part)
        /\ \A i \in 1..(Len(Bytes(c, t)) + Len(part)) : (Bytes(c, t) \o part)[i] =
             IF i <= Len(Bytes(c, t)) THEN Bytes(c, t)[i] ELSE part[i - Len(Bytes(c, t))]
    BY <2>1, ConcatProperties
  <2> QED
    BY <2>1, <2>2
<1>10. \A i \in 1..(t + n) : (Bytes(c, t) \o part)[i] = Bytes(c, t + n)[i]
  <2>1. ASSUME NEW i \in 1..(t + n)
        PROVE  (Bytes(c, t) \o part)[i] = Byte(c, i)
    <3>1. CASE i <= t
      BY <1>8, <1>9, <3>1
    <3>2. CASE ~(i <= t)
      <4>1. i - t \in 1..n /\ t + (i - t) = i
        BY <3>2
      <4> QED
        BY <1>7, <1>9, <3>2, <4>1
    <3> QED
      BY <3>1, <3>2
  <2> QED
    BY <1>8, <2>1
<1>11. Bytes(c, t) \o part = Bytes(c, t + n)
  BY <1>8, <1>9, <1>10, SeqEqual
<1> QED
  BY <1>11 DEF part, k

\* handle_request_readable takes a request only from a buffer whose one newline
\* ends it.
LEMMA RequestTaken ==
  ASSUME NEW buffer, Len(buffer) \in Nat, RequestIn(buffer).operation # "none"
  PROVE  /\ {i \in 1..Len(buffer) : buffer[i].kind = "newline"} = {Len(buffer)}
         /\ RequestIn(buffer) = ParseRequest([i \in 1..(Len(buffer) - 1) |-> buffer[i].text])
<1> DEFINE newlines == {i \in 1..Len(buffer) : buffer[i].kind = "newline"}
           line     == [i \in 1..(Len(buffer) - 1) |-> buffer[i].text]
<1>1. RequestIn(buffer) =
        CASE newlines = {} /\ Len(buffer) <= MaxRequestLine -> NoRequest("incomplete")
          [] newlines = {} /\ Len(buffer) > MaxRequestLine  -> NoRequest("request-too-long")
          [] newlines # {} /\ newlines # {Len(buffer)}      -> NoRequest("bad-request")
          [] newlines # {} /\ Len(buffer) - 1 > MaxRequestLine -> NoRequest("bad-request")
          [] OTHER                                          -> ParseRequest(line)
  BY DEF RequestIn
<1> HIDE DEF newlines, line
<1> DEFINE none == {NoRequest("incomplete"), NoRequest("request-too-long"),
                    NoRequest("bad-request")}
<1>2. RequestIn(buffer) \notin none
  BY DEF NoRequest
<1>3. newlines # {}
  BY <1>1, <1>2, Sizes
<1>4. newlines = {Len(buffer)}
  BY <1>1, <1>2, <1>3
<1> HIDE DEF none
<1>5. RequestIn(buffer) = ParseRequest(line)
  <2>1. ~(Len(buffer) - 1 > MaxRequestLine)
    BY <1>1, <1>2, <1>3, <1>4 DEF none
  <2> QED
    BY <1>1, <1>3, <1>4, <2>1
<1> QED
  BY <1>4, <1>5 DEF newlines, line

\* A line is judged by its words.
LEMMA SameWords ==
  ASSUME NEW v, NEW w, Len(v) \in Nat, Len(v) = Len(w), \A i \in 1..Len(v) : v[i] = w[i]
  PROVE  ParseRequest(v) = ParseRequest(w)
<1>1. CASE Len(v) < 2
  BY <1>1 DEF ParseRequest
<1>2. CASE Len(v) = 2
  <2>1. v[1] = w[1] /\ v[2] = w[2]
    BY <1>2
  <2> QED
    BY <1>2, <2>1 DEF ParseRequest
<1>3. CASE Len(v) > 2
  <2>1. v[1] = w[1] /\ v[2] = w[2] /\ v[3] = w[3]
    BY <1>3
  <2> QED
    BY <1>3, <2>1 DEF ParseRequest
<1> QED
  BY <1>1, <1>2, <1>3

\* The buffer a request was taken from holds the peer's line, all of it and nothing
\* behind it; the request is then the one the peer made.
LEMMA RequestSeen ==
  ASSUME TypeOK, NEW c \in Conns, NEW n \in Nat, n <= Len(Stream(c)),
         RequestIn(SubSeq(Stream(c), 1, n)).operation # "none"
  PROVE  n = LineLength(c) /\ RequestIn(SubSeq(Stream(c), 1, n)) = Asked(c)
<1> DEFINE buffer == SubSeq(Stream(c), 1, n)
           line   == [i \in 1..(Len(buffer) - 1) |-> buffer[i].text]
           m      == Len(plan[c].line)
<1>1. /\ m \in Nat /\ LineLength(c) = m + 1
      /\ \A i \in 1..m : Stream(c)[i] = Word(plan[c].line[i])
      /\ Stream(c)[m + 1] = Newline
  BY StreamShape DEF LineLength
<1>2. Len(buffer) = n /\ \A i \in 1..n : buffer[i] = Stream(c)[i]
  BY StreamIsSequence, SubSeqProperties DEF IsSequence
<1>3. {i \in 1..Len(buffer) : buffer[i].kind = "newline"} = {Len(buffer)}
  BY <1>2, RequestTaken
<1>4. RequestIn(buffer) = ParseRequest(line)
  BY <1>2, RequestTaken
<1>5. Newline.kind = "newline" /\ \A x : Word(x).kind = "word" /\ Word(x).text = x
  BY DEF Newline, Word
<1> HIDE DEF buffer, m
<1>6. n \in 1..n /\ Stream(c)[n].kind = "newline"
  <2>1. n \in 1..n /\ buffer[n].kind = "newline"
    BY <1>2, <1>3
  <2> QED
    BY <1>2, <2>1
<1>7. ~(n <= m)
  <2>1. ASSUME n <= m PROVE FALSE
    <3>1. n \in 1..m
      BY <1>1, <1>6, <2>1
    <3>2. Stream(c)[n].kind = "word"
      BY <1>1, <1>5, <3>1
    <3> QED
      BY <1>6, <3>2
  <2> QED
    BY <2>1
<1>8. ~(n > m + 1)
  <2>1. ASSUME n > m + 1 PROVE FALSE
    <3>1. m + 1 \in 1..n /\ m + 1 # n
      BY <1>1, <2>1
    <3>2. buffer[m + 1].kind = "newline"
      BY <1>1, <1>2, <1>5, <3>1
    <3> QED
      BY <1>2, <1>3, <3>1, <3>2
  <2> QED
    BY <2>1
<1>9. n = m + 1
  BY <1>1, <1>7, <1>8
<1>10. Len(line) = m
  BY <1>1, <1>2, <1>9
<1>11. ASSUME NEW i \in 1..m
       PROVE  line[i] = plan[c].line[i]
  <2>1. i \in 1..n /\ i \in 1..(Len(buffer) - 1)
    BY <1>1, <1>2, <1>9
  <2>2. buffer[i] = Word(plan[c].line[i])
    BY <1>1, <1>2, <2>1
  <2> QED
    BY <1>5, <2>1, <2>2
<1> HIDE DEF line
<1>12. ParseRequest(line) = ParseRequest(plan[c].line)
  BY <1>1, <1>10, <1>11, SameWords DEF m
<1> QED
  BY <1>1, <1>4, <1>9, <1>12 DEF Asked, buffer

\* Its other verdicts are to wait or one of the reasons to refuse.
LEMMA RequestVerdicts ==
  ASSUME NEW buffer, RequestIn(buffer).operation \notin {"Get", "Put"}
  PROVE  RequestIn(buffer).error \in Refusals \cup {"incomplete"}
BY DEF RequestIn, ParseRequest, NoRequest, GetRequest, PutRequest, Refusals


-----------------------------------------------------------------------------
(***************************************************************************)
(* The versions a file may have and the replies a connection may get.      *)
(***************************************************************************)
LEMMA VersionsAreSequences ==
  ASSUME NEW n, NEW v \in Versions(n)
  PROVE  IsSequence(v) /\ Len(v) \in Nat
<1>1. CASE \E d \in Conns : Asked(d).operation = "Put" /\ v = Bytes(d, Asked(d).size)
  <2>1. PICK d \in Conns : Asked(d).operation = "Put" /\ v = Bytes(d, Asked(d).size)
    BY <1>1
  <2>2. Asked(d).size \in Nat
    BY <2>1 DEF Asked, ParseRequest, NoRequest, GetRequest, PutRequest, parse_uint64
  <2> QED
    BY <2>1, <2>2, BytesAre
<1>2. CASE \E m \in DOMAIN InitialRoot : v = Bytes(m, InitialRoot[m].size)
  BY <1>2, Sizes, BytesAre
<1> QED
  BY <1>1, <1>2 DEF Versions

\* An upload that was asked for has a size and a name, and is a version of it.
LEMMA UploadIsVersion ==
  ASSUME NEW c \in Conns, Asked(c).operation = "Put"
  PROVE  /\ Asked(c).size \in Nat /\ Asked(c).filename \in Names
         /\ Bytes(c, Asked(c).size) \in Versions(Asked(c).filename)
<1>1. Asked(c).size \in Nat /\ Asked(c).filename \in Names
  BY DEF Asked, ParseRequest, NoRequest, GetRequest, PutRequest, parse_uint64, is_safe_filename
<1> QED
  BY <1>1 DEF Versions

LEMMA HeadersAre ==
  ASSUME NEW v, IsSequence(v), NEW head
  PROVE  IsSequence(Line(head)) /\ Len(Line(head)) = 2 /\ IsSequence(Line(head) \o v)
<1>1. IsSequence(Line(head)) /\ Len(Line(head)) = 2
  BY SequenceLines DEF Line
<1> QED
  BY <1>1, SequenceConcat

LEMMA RepliesAre ==
  ASSUME NEW c \in Conns
  PROVE  /\ \A why \in Refusals : Line(ErrHead(why)) \in Replies(c)
         /\ Asked(c).operation = "Put" =>
              \A end \in {OkHead(Asked(c).size)} \cup {ErrHead(why) : why \in Aborts} :
                Line(ReadyHead) \o Line(end) \in Replies(c)
         /\ Asked(c).operation = "Get" =>
              \A v \in Versions(Asked(c).filename) : Line(OkHead(Len(v))) \o v \in Replies(c)
         /\ \A reply \in Replies(c) : IsSequence(reply)
<1>1. \A why \in Refusals : Line(ErrHead(why)) \in Replies(c)
  BY DEF Replies
<1>2. Asked(c).operation = "Put" =>
        \A end \in {OkHead(Asked(c).size)} \cup {ErrHead(why) : why \in Aborts} :
          Line(ReadyHead) \o Line(end) \in Replies(c)
  BY DEF Replies, Uploads
<1>3. Asked(c).operation = "Get" =>
        \A v \in Versions(Asked(c).filename) : Line(OkHead(Len(v))) \o v \in Replies(c)
  BY DEF Replies, Downloads
<1>4. ASSUME NEW reply \in Replies(c)
      PROVE  IsSequence(reply)
  <2>1. CASE \E why \in Refusals : reply = Line(ErrHead(why))
    BY <2>1, SequenceLines
  <2>2. CASE \E end : reply = Line(ReadyHead) \o Line(end)
    BY <2>2, SequenceLines, SequenceConcat
  <2>3. CASE \E v \in Versions(Asked(c).filename) : reply = Line(OkHead(Len(v))) \o v
    BY <2>3, VersionsAreSequences, HeadersAre
  <2>4. Asked(c).operation \in {"Get", "Put", "none"}
    BY DEF Asked, ParseRequest, NoRequest, GetRequest, PutRequest
  <2> QED
    BY <2>1, <2>2, <2>3, <2>4 DEF Replies, Downloads, Uploads
<1> QED
  BY <1>1, <1>2, <1>3, <1>4

\* What a peer sends is settled before it connects.
LEMMA PlanStays ==
  ASSUME plan' = plan
  PROVE  /\ \A c \in Conns : /\ Stream(c)' = Stream(c) /\ Asked(c)' = Asked(c)
                             /\ LineLength(c)' = LineLength(c) /\ Replies(c)' = Replies(c)
         /\ \A n : Versions(n)' = Versions(n)
<1>1. \A c : /\ Stream(c)' = Stream(c) /\ Asked(c)' = Asked(c)
             /\ LineLength(c)' = LineLength(c)
  BY DEF Stream, RequestTokens, Asked, LineLength
<1>2. \A n : Versions(n)' = Versions(n)
  BY <1>1 DEF Versions
<1>3. \A c \in Conns : Replies(c)' = Replies(c)
  BY <1>1, <1>2 DEF Replies, Downloads, Uploads
<1> QED
  BY <1>1, <1>2, <1>3

LEMMA PrefixShorter ==
  ASSUME NEW s, NEW t, NEW u, IsSequence(s), IsSequence(t), IsSequence(u), IsPrefix(s \o t, u)
  PROVE  IsPrefix(s, u)
<1> DEFINE st == s \o t
<1>1. /\ IsSequence(st) /\ Len(st) = Len(s) + Len(t) /\ Len(s) \in Nat /\ Len(t) \in Nat
      /\ IsPrefix(s, st)
  BY SequenceConcat, PrefixOfConcat
<1> HIDE DEF st
<1>2. Len(st) <= Len(u) /\ SubSeq(st, 1, Len(st)) = SubSeq(u, 1, Len(st)) /\ Len(u) \in Nat
  <2>1. IsPrefix(st, u)
    BY DEF st
  <2> QED
    BY <1>1, <2>1, SequenceWhole DEF IsPrefix
<1>3. st = SubSeq(u, 1, Len(st))
  BY <1>1, <1>2, SequenceWhole
<1>4. s = SubSeq(st, 1, Len(s))
  <2>1. SubSeq(s, 1, Len(s)) = SubSeq(st, 1, Len(s))
    BY <1>1 DEF IsPrefix
  <2> QED
    BY <2>1, SequenceWhole
<1>5. \A i \in 1..Len(st) : st[i] = u[i]
  <2> DEFINE front == SubSeq(u, 1, Len(st))
  <2>1. \A i \in 1..Len(st) : front[i] = u[i]
    BY <1>1, <1>2 DEF IsSequence
  <2> HIDE DEF front
  <2>2. front = st
    BY <1>3 DEF front
  <2> QED
    BY <2>1, <2>2
<1>6. \A i \in 1..Len(s) : s[i] = st[i]
  <2> DEFINE front == SubSeq(st, 1, Len(s))
  <2>1. \A i \in 1..Len(s) : front[i] = st[i]
    BY <1>1 DEF IsSequence
  <2> HIDE DEF front
  <2>2. front = s
    BY <1>4 DEF front
  <2> QED
    BY <2>1, <2>2
<1>7. Len(s) <= Len(st)
  BY <1>1
<1>8. \A i \in 1..Len(s) : s[i] = u[i]
  BY <1>1, <1>5, <1>6, <1>7
<1> DEFINE begin == SubSeq(u, 1, Len(s))
<1>9. /\ begin \in Seq(ToSet(u)) /\ Len(begin) = Len(s)
      /\ \A i \in 1..Len(s) : begin[i] = u[i]
  <2>1. Len(s) <= Len(u)
    BY <1>1, <1>2
  <2> QED
    BY <1>1, <1>2, <2>1 DEF IsSequence
<1> HIDE DEF begin
<1>10. begin = s
  <2> DEFINE S == ToSet(s) \cup ToSet(u)
  <2>1. begin \in Seq(S) /\ s \in Seq(S)
    BY <1>9 DEF IsSequence
  <2> HIDE DEF S
  <2> QED
    BY <1>8, <1>9, <2>1, SeqEqual
<1>11. SubSeq(s, 1, Len(s)) = SubSeq(u, 1, Len(s))
  <2>1. SubSeq(s, 1, Len(s)) = s
    BY SequenceWhole
  <2> QED
    BY <1>10, <2>1 DEF begin
<1>12. Len(s) <= Len(u)
  BY <1>1, <1>2
<1> QED
  BY <1>11, <1>12 DEF IsPrefix

\* What a client's struct holds, as sequences and numbers.
LEMMA ClientFields ==
  ASSUME IInv, NEW c \in Conns
  PROVE  /\ IsSequence(sent[c]) /\ IsSequence(client[c].pending_output)
         /\ IsSequence(client[c].file_buffer)
         /\ client[c].transferred_bytes \in Nat /\ client[c].expected_bytes \in Nat
         /\ client[c].transferred_bytes <= client[c].expected_bytes
         /\ Len(client[c].file_buffer) \in Nat
         /\ client[c].transferred_bytes + Len(client[c].file_buffer) <= client[c].expected_bytes
         /\ client[c].state # "SendingFile" => client[c].file_buffer = <<>>
         /\ consumed[c] \in Nat /\ offered[c] \in Nat
         /\ consumed[c] <= offered[c] /\ offered[c] <= Len(Stream(c))
<1>1. IsClient(client[c]) /\ WellBuffered(client[c]) /\ IsSequence(sent[c])
  BY DEF IInv, TypeOK, Buffers
<1>2. consumed[c] \in Nat /\ offered[c] \in Nat
      /\ consumed[c] <= offered[c] /\ offered[c] <= Len(Stream(c))
  BY DEF IInv, TypeOK, TransportTypeOK, Buffers
<1> QED
  BY <1>1, <1>2, SequenceWhole DEF IsClient, WellBuffered

\* Whatever state a connection is in, it has been told the beginning of one reply.
LEMMA ReplyAhead ==
  ASSUME IInv, NEW c \in Conns, Conversation(c)
  PROVE  \E reply \in Replies(c) : /\ IsPrefix(sent[c] \o client[c].pending_output, reply)
                                   /\ IsPrefix(sent[c], reply)
<1> DEFINE s == sent[c]
           p == client[c].pending_output
           b == client[c].file_buffer
<1>1. IsSequence(s) /\ IsSequence(p) /\ IsSequence(b) /\ IsSequence(s \o p)
  BY ClientFields, SequenceConcat
<1>2. \A reply \in Replies(c) : IsPrefix(s \o p, reply) => IsPrefix(s, reply)
  BY <1>1, RepliesAre, PrefixShorter
<1>3. \E reply \in Replies(c) : IsPrefix(s \o p, reply)
  <2>1. CASE s \o p = <<>>
    <3>1. Line(ErrHead("bad-request")) \in Replies(c)
      BY RepliesAre DEF Refusals
    <3> QED
      BY <2>1, <3>1, RepliesAre, PrefixSame
  <2>2. CASE s \o p \in Replies(c)
    BY <1>1, <2>2, PrefixSame
  <2>3. CASE InUpload(c)
    <3>1. Asked(c).operation = "Put" /\ s \o p = Line(ReadyHead)
      BY <2>3 DEF InUpload
    <3> DEFINE ok == Line(OkHead(Asked(c).size))
    <3>2. IsSequence(Line(ReadyHead)) /\ IsSequence(ok)
      BY SequenceLines
    <3>3. Line(ReadyHead) \o ok \in Replies(c)
      BY <3>1, RepliesAre
    <3> HIDE DEF ok
    <3>4. IsPrefix(Line(ReadyHead), Line(ReadyHead) \o ok)
      BY <3>2, PrefixOfConcat
    <3> QED
      BY <3>1, <3>3, <3>4
  <2>4. CASE InDownload(c)
    <3> DEFINE k == client[c].transferred_bytes + Len(b)
    <3>1. Asked(c).operation = "Get"
      BY <2>4 DEF InDownload
    <3>2. PICK v \in Versions(Asked(c).filename) :
            /\ client[c].expected_bytes = Len(v)
            /\ (s \o p) \o b = Line(OkHead(Len(v))) \o SubSeq(v, 1, k)
      BY <2>4 DEF InDownload
    <3>3. IsSequence(v) /\ IsSequence(Line(OkHead(Len(v)))) /\ k \in Nat /\ k <= Len(v)
      BY <3>2, VersionsAreSequences, SequenceLines, ClientFields
    <3> DEFINE reply == Line(OkHead(Len(v))) \o v
               sp    == s \o p
    <3> HIDE DEF k
    <3>4. IsPrefix(sp \o b, reply)
      BY <3>2, <3>3, PrefixOfData
    <3>5. reply \in Replies(c) /\ IsSequence(reply)
      BY <3>1, RepliesAre
    <3> HIDE DEF reply
    <3>7. IsSequence(sp)
      BY <1>1
    <3> HIDE DEF sp
    <3>6. IsPrefix(sp, reply)
      BY <1>1, <3>4, <3>5, <3>7, PrefixShorter
    <3> QED
      BY <3>5, <3>6 DEF sp
  <2>5. CASE socket[c] = "closed"
    <3>1. p = <<>>
      BY <2>5, NewClientFields DEF IInv, Connections, ConnectionsAccounted, ClosedKeepsNothing
    <3>2. s \o p = s
      BY <1>1, <3>1, ConcatNothing
    <3> QED
      BY <2>5, <3>2 DEF Conversation
  <2>6. CASE socket[c] \in {"none", "queued"}
    <3>1. p = <<>> /\ s = <<>>
      BY <2>6, NewClientFields
      DEF IInv, Connections, ConnectionsAccounted, ClosedKeepsNothing, Conversation
    <3> QED
      BY <2>1, <3>1, ConcatNothing, SequenceLines
  <2>7. CASE Requesting(c)
    BY <2>1, <2>7, ConcatNothing, SequenceLines DEF Requesting
  <2>8. CASE InReply(c)
    BY <2>2, <2>8 DEF InReply
  <2>9. socket[c] \in {"none", "queued", "open", "closed"}
    BY DEF IInv, TypeOK, TransportTypeOK
  <2> QED
    BY <2>3, <2>4, <2>5, <2>6, <2>7, <2>8, <2>9 DEF Conversation
<1> QED
  BY <1>2, <1>3

-----------------------------------------------------------------------------
(***************************************************************************)
(* What a step may do for one connection, and to the names of the store.   *)
(* Every handler of handle_client_event has one of these effects on its    *)
(* own connection.                                                         *)
(***************************************************************************)
\* The names link what they linked.
NamesKept ==
  /\ Names \cap DOMAIN entry' = Names \cap DOMAIN entry
  /\ \A n \in Names \cap DOMAIN entry : entry'[n] = entry[n]

Turns(c, from, to) ==
  /\ socket[c] = "open" /\ socket'[c] = "open"
  /\ client[c].state = from /\ client'[c].state = to

\* More of what is buffered for c goes on the wire, or nothing.
Speaks(c) == \E more : IsSequence(more) /\ sent'[c] = sent[c] \o more

SameTransfer(a, b) ==
  /\ a.input_file = b.input_file /\ a.output_file = b.output_file
  /\ a.final_path = b.final_path /\ a.expected_bytes = b.expected_bytes

\* The request line is not complete yet.
Waits(c) ==
  /\ Turns(c, "AwaitingRequest", "AwaitingRequest")
  /\ client'[c].request_buffer = SubSeq(Stream(c), 1, consumed'[c])
  /\ client'[c].pending_output = <<>> /\ client'[c].file_buffer = <<>>
  /\ client'[c].input_file = None
  /\ sent'[c] = sent[c]

Refuses(c) ==
  /\ Turns(c, "AwaitingRequest", "SendingError")
  /\ \E why \in Refusals : client'[c].pending_output = Line(ErrHead(why))
  /\ client'[c].file_buffer = <<>> /\ client'[c].input_file = None
  /\ sent'[c] = sent[c]

BeginsDownload(c) ==
  LET name == Asked(c).filename
      cl   == client'[c]
  IN  /\ Turns(c, "AwaitingRequest", "SendingGetHeader")
      /\ Asked(c).operation = "Get"
      /\ name \in Names \cap Retrievable
      /\ cl.input_file = entry[name] /\ cl.transferred_bytes = 0
      /\ cl.expected_bytes = Len(content[entry[name]])
      /\ cl.pending_output = Line(OkHead(cl.expected_bytes)) /\ cl.file_buffer = <<>>
      /\ content' = content
      /\ consumed'[c] = LineLength(c)
      /\ sent'[c] = sent[c]

BeginsUpload(c) ==
  LET cl == client'[c]
  IN  /\ Turns(c, "AwaitingRequest", "SendingReady")
      /\ Asked(c).operation = "Put"
      /\ cl.final_path = Asked(c).filename /\ cl.expected_bytes = Asked(c).size
      /\ cl.transferred_bytes = 0 /\ cl.input_file = None
      /\ cl.pending_output = Line(ReadyHead) /\ cl.file_buffer = <<>>
      /\ content'[cl.output_file] = <<>>
      /\ consumed'[c] = LineLength(c)
      /\ sent'[c] = sent[c]

ReceivesPart(c) ==
  LET cl == client'[c]
      n  == consumed'[c] - consumed[c]
  IN  /\ Turns(c, "ReceivingFile", "ReceivingFile")
      /\ SameTransfer(cl, client[c])
      /\ n \in Nat /\ consumed'[c] <= Len(Stream(c))
      /\ cl.transferred_bytes = client[c].transferred_bytes + n
      /\ cl.pending_output = <<>> /\ cl.file_buffer = <<>>
      /\ content'[cl.output_file] =
           content[cl.output_file] \o SubSeq(Stream(c), consumed[c] + 1, consumed'[c])
      /\ sent'[c] = sent[c]

\* The file has all its bytes, its name links it, and OK is queued.
CompletesUpload(c) ==
  LET name == Asked(c).filename
  IN  /\ Uploading(c)
      /\ Turns(c, client[c].state, "SendingResult")
      /\ Asked(c).operation = "Put"
      /\ client'[c].pending_output = Line(OkHead(Asked(c).size))
      /\ client'[c].file_buffer = <<>> /\ client'[c].input_file = None
      /\ Speaks(c) /\ sent'[c] = Line(ReadyHead)
      /\ Names \cap DOMAIN entry' = (Names \cap DOMAIN entry) \cup {name}
      /\ \A n \in (Names \cap DOMAIN entry) \ {name} : entry'[n] = entry[n]
      /\ entry'[name] = client[c].output_file
      /\ content'[client[c].output_file] = Bytes(c, Asked(c).size)

FailsUpload(c) ==
  /\ Uploading(c)
  /\ Turns(c, client[c].state, "SendingError")
  /\ \E why \in Aborts : client'[c].pending_output = Line(ErrHead(why))
  /\ client'[c].file_buffer = <<>> /\ client'[c].input_file = None
  /\ Speaks(c) /\ sent'[c] = Line(ReadyHead)

\* flush_pending_output, with the change of state when all of it is sent.
Flushes(c) ==
  LET from == client[c].state
      to   == client'[c].state
  IN  /\ Turns(c, from, to)
      /\ from \in {"SendingGetHeader", "SendingReady", "SendingResult", "SendingError"}
      /\ \/ to = from
         \/ /\ from = "SendingGetHeader" /\ to = "SendingFile"
            /\ client'[c].pending_output = <<>>
         \/ /\ from = "SendingReady" /\ to = "ReceivingFile"
            /\ client'[c].pending_output = <<>>
      /\ SameTransfer(client'[c], client[c])
      /\ client'[c].transferred_bytes = client[c].transferred_bytes
      /\ client'[c].file_buffer = client[c].file_buffer
      /\ Speaks(c)
      /\ sent'[c] \o client'[c].pending_output = sent[c] \o client[c].pending_output
      /\ content' = content /\ consumed'[c] = consumed[c]

\* Some of the file is read, if the buffer was empty, and some of it sent.
SendsFile(c) ==
  LET cl   == client[c]
      new  == client'[c]
      from == cl.transferred_bytes + Len(cl.file_buffer)
      to   == new.transferred_bytes + Len(new.file_buffer)
  IN  /\ Turns(c, "SendingFile", "SendingFile")
      /\ new.expected_bytes = cl.expected_bytes
      /\ new.pending_output = cl.pending_output
      /\ \/ new.input_file = cl.input_file
         \/ new.input_file = None /\ "read" \in Faults
      /\ from <= to
      /\ cl.input_file = None => from = to
      /\ Speaks(c)
      /\ sent'[c] \o new.file_buffer =
           IF from = to THEN sent[c] \o cl.file_buffer
           ELSE (sent[c] \o cl.file_buffer) \o SubSeq(content[cl.input_file], from + 1, to)
      /\ content' = content

\* close_client, when nothing more can be said.
Leaves(c) ==
  /\ socket[c] # "none" /\ socket'[c] = "closed"
  /\ client'[c] = NewClient
  /\ sent'[c] = sent[c]

\* close_client, after the last byte of a reply.
Ends(c) ==
  /\ socket[c] = "open" /\ socket'[c] = "closed"
  /\ client'[c] = NewClient
  /\ client[c].file_buffer = <<>>
  /\ Speaks(c)
  /\ sent'[c] = sent[c] \o client[c].pending_output
  /\ sent'[c] \in Replies(c)

SameTold(a, b) ==
  /\ a.state = b.state /\ a.request_buffer = b.request_buffer
  /\ a.pending_output = b.pending_output /\ a.file_buffer = b.file_buffer
  /\ a.transferred_bytes = b.transferred_bytes
  /\ SameTransfer(a, b)

\* Nothing happens to c, but that its request for a connection may be queued or
\* accepted and time may pass.
Kept(c) ==
  /\ SameTold(client'[c], client[c])
  /\ \A f \in {client[c].input_file, client[c].output_file} \ {None} : content'[f] = content[f]
  /\ consumed'[c] = consumed[c] /\ sent'[c] = sent[c]
  /\ \/ socket'[c] = socket[c]
     \/ socket[c] \in {"none", "queued"} /\ socket'[c] \in {"queued", "open"}

Effect(c) ==
  \/ Waits(c) \/ Refuses(c) \/ BeginsDownload(c) \/ BeginsUpload(c)
  \/ ReceivesPart(c) \/ FailsUpload(c) \/ Flushes(c) \/ SendsFile(c)
  \/ Leaves(c) \/ Ends(c) \/ Kept(c)

-----------------------------------------------------------------------------
(***************************************************************************)
(* Every effect keeps the conversation right.                              *)
(***************************************************************************)
LEMMA RequestEffects ==
  ASSUME IInv, IInv', plan' = plan, StoredFilesComplete, NEW c \in Conns, Conversation(c),
         Waits(c) \/ Refuses(c) \/ BeginsDownload(c) \/ BeginsUpload(c)
  PROVE  Conversation(c)'
<1>1. socket[c] = "open" /\ socket'[c] = "open" /\ client[c].state = "AwaitingRequest"
      /\ sent'[c] = sent[c]
  BY DEF Waits, Refuses, BeginsDownload, BeginsUpload, Turns
<1>2. sent[c] = <<>>
  BY <1>1 DEF Conversation, Requesting, InUpload, InDownload, InReply, Uploading
<1>3. /\ Asked(c)' = Asked(c) /\ LineLength(c)' = LineLength(c) /\ Replies(c)' = Replies(c)
      /\ Stream(c)' = Stream(c) /\ \A n : Versions(n)' = Versions(n)
  BY PlanStays
<1>4. CASE Waits(c)
  BY <1>1, <1>2, <1>3, <1>4 DEF Waits, Turns, Conversation, Requesting
<1>5. CASE Refuses(c)
  <2>1. PICK why \in Refusals : client'[c].pending_output = Line(ErrHead(why))
    BY <1>5 DEF Refuses
  <2>2. sent'[c] \o client'[c].pending_output = Line(ErrHead(why))
    BY <1>1, <1>2, <2>1, SequenceLines, ConcatNothing
  <2>3. InReply(c)'
    BY <1>3, <1>5, <2>2, RepliesAre DEF Refuses, Turns, InReply
  <2> QED
    BY <1>1, <2>3 DEF Conversation
<1>6. CASE BeginsDownload(c)
  <2> DEFINE v == content[entry[Asked(c).filename]]
             h == Line(OkHead(Len(v)))
  <2>1. v \in Versions(Asked(c).filename)
    BY <1>6 DEF BeginsDownload, StoredFilesComplete, Retrievable
  <2>2. IsSequence(v) /\ Len(v) \in Nat /\ IsSequence(h)
    BY <2>1, VersionsAreSequences, SequenceLines
  <2>3. SubSeq(v, 1, 0) = <<>> /\ h \o <<>> = h /\ <<>> \o h = h
    BY <2>2, SequenceWhole, ConcatNothing
  <2>4. /\ client'[c].state = "SendingGetHeader" /\ Asked(c).operation = "Get"
        /\ client'[c].expected_bytes = Len(v) /\ client'[c].transferred_bytes = 0
        /\ client'[c].pending_output = h /\ client'[c].file_buffer = <<>>
        /\ client'[c].input_file = entry[Asked(c).filename]
        /\ content'[client'[c].input_file] = v
    BY <1>6 DEF BeginsDownload, Turns
  <2>5. client'[c].input_file # None
    BY <1>6, <2>4, NamesApart DEF BeginsDownload, Retrievable, IInv, TypeOK, Files
  <2> HIDE DEF v, h
  <2>6. (sent'[c] \o client'[c].pending_output) \o client'[c].file_buffer =
          h \o SubSeq(v, 1, client'[c].transferred_bytes + Len(client'[c].file_buffer))
    <3>1. client'[c].transferred_bytes + Len(client'[c].file_buffer) = 0
      BY <2>4, SequenceLines
    <3>2. (sent'[c] \o client'[c].pending_output) \o client'[c].file_buffer = h
      BY <1>1, <1>2, <2>3, <2>4
    <3> QED
      BY <2>3, <3>1, <3>2
  <2>7. InDownload(c)'
    <3>1. v \in Versions(Asked(c).filename)'
      BY <1>3, <2>1
    <3> QED
      BY <1>3, <2>4, <2>5, <2>6, <3>1 DEF InDownload, h
  <2> QED
    BY <1>1, <2>7 DEF Conversation
<1>7. CASE BeginsUpload(c)
  <2>1. sent'[c] \o client'[c].pending_output = Line(ReadyHead)
    BY <1>1, <1>2, <1>7, SequenceLines, ConcatNothing DEF BeginsUpload
  <2>2. Bytes(c, 0) = <<>> /\ LineLength(c) + 0 = LineLength(c)
    <3>1. Bytes(c, 0) = <<>>
      BY DEF Bytes
    <3>2. LineLength(c) \in Nat
      BY StreamShape DEF IInv
    <3> QED
      BY <3>1, <3>2
  <2>3. InUpload(c)'
    BY <1>3, <1>7, <2>1, <2>2 DEF BeginsUpload, Turns, InUpload, Uploading
  <2> QED
    BY <1>1, <2>3 DEF Conversation
<1> QED
  BY <1>4, <1>5, <1>6, <1>7

LEMMA UploadEffects ==
  ASSUME IInv, IInv', plan' = plan, NEW c \in Conns, Conversation(c),
         ReceivesPart(c) \/ CompletesUpload(c) \/ FailsUpload(c)
  PROVE  Conversation(c)'
<1>1. socket[c] = "open" /\ socket'[c] = "open" /\ Uploading(c)
  BY DEF ReceivesPart, CompletesUpload, FailsUpload, Turns, Uploading
<1>2. InUpload(c)
  BY <1>1 DEF Conversation, Requesting, InDownload, InReply, Uploading
<1>3. /\ Asked(c)' = Asked(c) /\ LineLength(c)' = LineLength(c) /\ Replies(c)' = Replies(c)
      /\ Stream(c)' = Stream(c) /\ \A n : Bytes(c, n)' = Bytes(c, n)
  BY PlanStays
<1>4. CASE ReceivesPart(c)
  <2> DEFINE n == consumed'[c] - consumed[c]
             t == client[c].transferred_bytes
             k == LineLength(c)
  <2>1. /\ n \in Nat /\ t \in Nat /\ k \in Nat /\ consumed[c] = k + t
        /\ client'[c].transferred_bytes = t + n /\ consumed'[c] \in Nat
        /\ consumed'[c] <= Len(Stream(c))
    BY <1>2, <1>4, ClientFields, StreamShape
    DEF ReceivesPart, InUpload, IInv, TypeOK, TransportTypeOK
  <2>2. consumed'[c] = k + t + n /\ consumed'[c] = k + (t + n)
    BY <2>1
  <2> HIDE DEF n, t, k
  <2>3. /\ content'[client'[c].output_file] =
             content[client'[c].output_file] \o SubSeq(Stream(c), k + t + 1, k + t + n)
        /\ client'[c].output_file = client[c].output_file
        /\ content[client[c].output_file] = Bytes(c, t)
    BY <1>2, <1>4, <2>1, <2>2 DEF ReceivesPart, InUpload, SameTransfer, t
  <2>4. Bytes(c, t) \o SubSeq(Stream(c), k + t + 1, k + t + n) = Bytes(c, t + n)
    BY <2>1, <2>2, BytesGrow DEF k, IInv
  <2>5. content'[client'[c].output_file] = Bytes(c, client'[c].transferred_bytes)
    BY <2>1, <2>3, <2>4
  <2>6. consumed'[c] = LineLength(c) + client'[c].transferred_bytes
    BY <2>1, <2>2 DEF k
  <2>7. /\ client'[c].state = "ReceivingFile" /\ client'[c].pending_output = <<>>
        /\ client'[c].input_file = client[c].input_file
        /\ client'[c].final_path = client[c].final_path
        /\ client'[c].expected_bytes = client[c].expected_bytes
        /\ sent'[c] = sent[c] /\ client[c].state = "ReceivingFile"
    BY <1>4 DEF ReceivesPart, Turns, SameTransfer
  <2>8. InUpload(c)'
    BY <1>2, <1>3, <2>5, <2>6, <2>7 DEF InUpload, Uploading
  <2> QED
    BY <1>1, <2>8 DEF Conversation
<1>5. CASE CompletesUpload(c)
  <2>1. /\ sent'[c] \o client'[c].pending_output = Line(ReadyHead) \o Line(OkHead(Asked(c).size))
        /\ Asked(c).operation = "Put" /\ client'[c].state = "SendingResult"
        /\ client'[c].input_file = None
    BY <1>5 DEF CompletesUpload, Turns
  <2>2. InReply(c)'
    BY <1>3, <2>1, RepliesAre DEF InReply
  <2> QED
    BY <1>1, <2>2 DEF Conversation
<1>6. CASE FailsUpload(c)
  <2>1. PICK why \in Aborts : client'[c].pending_output = Line(ErrHead(why))
    BY <1>6 DEF FailsUpload
  <2>2. Asked(c).operation = "Put"
    BY <1>2 DEF InUpload
  <2>3. Line(ReadyHead) \o Line(ErrHead(why)) \in Replies(c)
    BY <2>2, RepliesAre
  <2>4. InReply(c)'
    BY <1>3, <1>6, <2>1, <2>3 DEF FailsUpload, Turns, InReply
  <2> QED
    BY <1>1, <2>4 DEF Conversation
<1> QED
  BY <1>4, <1>5, <1>6

LEMMA FlushEffects ==
  ASSUME IInv, IInv', plan' = plan, NEW c \in Conns, Conversation(c), Flushes(c)
  PROVE  Conversation(c)'
<1> DEFINE said  == sent[c] \o client[c].pending_output
           said2 == sent'[c] \o client'[c].pending_output
<1>1. /\ socket[c] = "open" /\ socket'[c] = "open" /\ said2 = said
      /\ content' = content /\ consumed'[c] = consumed[c]
      /\ client'[c].transferred_bytes = client[c].transferred_bytes
      /\ client'[c].file_buffer = client[c].file_buffer
      /\ client'[c].input_file = client[c].input_file
      /\ client'[c].output_file = client[c].output_file
      /\ client'[c].final_path = client[c].final_path
      /\ client'[c].expected_bytes = client[c].expected_bytes
      /\ \/ client'[c].state = client[c].state
         \/ /\ client[c].state = "SendingGetHeader" /\ client'[c].state = "SendingFile"
            /\ client'[c].pending_output = <<>>
         \/ /\ client[c].state = "SendingReady" /\ client'[c].state = "ReceivingFile"
            /\ client'[c].pending_output = <<>>
      /\ client[c].state \in
           {"SendingGetHeader", "SendingReady", "SendingResult", "SendingError"}
  BY DEF Flushes, Turns, SameTransfer
<1>2. /\ Asked(c)' = Asked(c) /\ LineLength(c)' = LineLength(c) /\ Replies(c)' = Replies(c)
      /\ \A n : Versions(n)' = Versions(n) /\ Bytes(c, n)' = Bytes(c, n)
  BY PlanStays
<1> HIDE DEF said, said2
<1>3. CASE InUpload(c)
  <2>1. InUpload(c)'
    BY <1>1, <1>2, <1>3 DEF InUpload, Uploading, said, said2
  <2> QED
    BY <1>1, <2>1 DEF Conversation
<1>4. CASE InDownload(c)
  <2> DEFINE k == client[c].transferred_bytes + Len(client[c].file_buffer)
  <2>1. PICK v \in Versions(Asked(c).filename) :
          /\ client[c].expected_bytes = Len(v)
          /\ client[c].input_file # None => content[client[c].input_file] = v
          /\ said \o client[c].file_buffer = Line(OkHead(Len(v))) \o SubSeq(v, 1, k)
    BY <1>4 DEF InDownload, said
  <2>2. client'[c].transferred_bytes + Len(client'[c].file_buffer) = k
    BY <1>1
  <2>3. said2 \o client'[c].file_buffer = Line(OkHead(Len(v))) \o SubSeq(v, 1, k)
    BY <1>1, <2>1
  <2> HIDE DEF k
  <2>4. /\ Asked(c).operation = "Get" /\ client[c].state = "SendingGetHeader"
        /\ client[c].transferred_bytes = 0 /\ client[c].input_file # None
    BY <1>1, <1>4 DEF InDownload
  <2>5. v \in Versions(Asked(c).filename)'
    BY <1>2, <2>1
  <2>6. InDownload(c)'
    BY <1>1, <1>2, <2>1, <2>2, <2>3, <2>4, <2>5 DEF InDownload, said2
  <2> QED
    BY <1>1, <2>6 DEF Conversation
<1>5. CASE InReply(c)
  <2>1. InReply(c)'
    BY <1>1, <1>2, <1>5 DEF InReply, said, said2
  <2> QED
    BY <1>1, <2>1 DEF Conversation
<1> QED
  BY <1>1, <1>3, <1>4, <1>5 DEF Conversation, Requesting

LEMMA SendEffects ==
  ASSUME IInv, IInv', plan' = plan, NEW c \in Conns, Conversation(c), SendsFile(c)
  PROVE  Conversation(c)'
<1> DEFINE cl   == client[c]
           new  == client'[c]
           from == cl.transferred_bytes + Len(cl.file_buffer)
           to   == new.transferred_bytes + Len(new.file_buffer)
           part == SubSeq(content[cl.input_file], from + 1, to)
           b    == cl.file_buffer
           b2   == new.file_buffer
<1>1. /\ socket[c] = "open" /\ socket'[c] = "open"
      /\ cl.state = "SendingFile" /\ new.state = "SendingFile"
      /\ new.expected_bytes = cl.expected_bytes /\ new.pending_output = cl.pending_output
      /\ new.input_file = cl.input_file \/ (new.input_file = None /\ "read" \in Faults)
      /\ from <= to /\ (cl.input_file = None => from = to)
      /\ sent'[c] \o b2 = IF from = to THEN sent[c] \o b ELSE (sent[c] \o b) \o part
      /\ content' = content
  BY DEF SendsFile, Turns
<1>2. /\ Asked(c)' = Asked(c) /\ \A n : Versions(n)' = Versions(n)
  BY PlanStays
<1>3. InDownload(c) /\ cl.pending_output = <<>>
  BY <1>1 DEF Conversation, Requesting, InUpload, InReply, Uploading, InDownload
<1>4. /\ from \in Nat /\ to \in Nat /\ to <= new.expected_bytes
      /\ IsSequence(sent[c]) /\ IsSequence(sent'[c]) /\ IsSequence(b) /\ IsSequence(b2)
  <2>1. /\ from \in Nat /\ IsSequence(sent[c]) /\ IsSequence(b)
    BY ClientFields
  <2>2. IsClient(new) /\ WellBuffered(new) /\ IsSequence(sent'[c])
    BY DEF IInv, TypeOK, Buffers
  <2>3. Len(b2) \in Nat /\ IsSequence(b2)
    BY <2>2, SequenceWhole DEF WellBuffered
  <2> QED
    BY <2>1, <2>2, <2>3 DEF IsClient, WellBuffered
<1>5. PICK v \in Versions(Asked(c).filename) :
        /\ cl.expected_bytes = Len(v)
        /\ cl.input_file # None => content[cl.input_file] = v
        /\ (sent[c] \o cl.pending_output) \o b = Line(OkHead(Len(v))) \o SubSeq(v, 1, from)
  BY <1>3 DEF InDownload
<1> DEFINE h     == Line(OkHead(Len(v)))
           front == SubSeq(v, 1, from)
           rest  == SubSeq(v, from + 1, to)
<1>6. sent[c] \o b = h \o front
  <2>1. sent[c] \o <<>> = sent[c]
    BY <1>4, ConcatNothing
  <2> QED
    BY <1>3, <1>5, <2>1
<1>7. IsSequence(v) /\ to <= Len(v) /\ IsSequence(h)
  BY <1>1, <1>4, <1>5, VersionsAreSequences, SequenceLines
<1>8. front \o rest = SubSeq(v, 1, to)
  <2> HIDE DEF from, to
  <2> QED
    BY <1>1, <1>4, <1>7, SequenceSplit
<1>9. IsSequence(front) /\ IsSequence(rest)
  <2>1. from <= Len(v)
    BY <1>1, <1>4, <1>7
  <2>2. IsSequence(front)
    BY <1>4, <1>7, <2>1, SequenceHalves
  <2> HIDE DEF from, to
  <2>3. IsSequence(rest)
    BY <1>1, <1>4, <1>7, SequencePart
  <2> QED
    BY <2>2, <2>3
<1>10. sent'[c] \o b2 = h \o SubSeq(v, 1, to)
  <2>1. CASE from = to
    BY <1>1, <1>6, <2>1
  <2>2. CASE from # to
    <3>1. part = rest
      BY <1>1, <1>5, <2>2
    <3>4. sent'[c] \o b2 = (sent[c] \o b) \o part
      BY <1>1, <2>2
    <3> HIDE DEF part, rest, front, h, b, b2
    <3>2. sent'[c] \o b2 = (h \o front) \o rest
      BY <1>6, <3>1, <3>4
    <3>5. IsSequence(h) /\ IsSequence(front) /\ IsSequence(rest)
      BY <1>7, <1>9
    <3>3. (h \o front) \o rest = h \o (front \o rest)
      BY <3>5, ConcatSame
    <3> QED
      BY <1>8, <3>2, <3>3
  <2> QED
    BY <2>1, <2>2
<1>11. (sent'[c] \o new.pending_output) \o b2 = h \o SubSeq(v, 1, to)
  <2>1. sent'[c] \o <<>> = sent'[c]
    BY <1>4, ConcatNothing
  <2> QED
    BY <1>1, <1>3, <1>10, <2>1
<1>12. v \in Versions(Asked(c).filename)'
  BY <1>2, <1>5
<1>13. InDownload(c)'
  <2>1. /\ new.input_file # None => content'[new.input_file] = v
        /\ "read" \notin Faults => new.input_file # None
        /\ new.pending_output = <<>> /\ new.expected_bytes = Len(v)
        /\ Asked(c)'.operation = "Get"
    BY <1>1, <1>2, <1>3, <1>5 DEF InDownload
  <2> QED
    BY <1>1, <1>11, <1>12, <2>1 DEF InDownload
<1> QED
  BY <1>1, <1>13 DEF Conversation

LEMMA ClosingEffects ==
  ASSUME IInv, plan' = plan, NEW c \in Conns, Conversation(c), Leaves(c) \/ Ends(c)
  PROVE  Conversation(c)'
<1>1. Replies(c)' = Replies(c)
  BY PlanStays
<1>2. CASE Leaves(c)
  BY <1>1, <1>2, ReplyAhead DEF Leaves, Conversation
<1>3. CASE Ends(c)
  <2>1. IsPrefix(sent'[c], sent'[c])
    BY <1>3, RepliesAre, PrefixSame DEF Ends
  <2> QED
    BY <1>1, <1>3, <2>1 DEF Ends, Conversation
<1> QED
  BY <1>2, <1>3

LEMMA KeptConversation ==
  ASSUME IInv, IInv', plan' = plan, NEW c \in Conns, Conversation(c), Kept(c)
  PROVE  Conversation(c)'
<1>1. /\ Asked(c)' = Asked(c) /\ LineLength(c)' = LineLength(c) /\ Replies(c)' = Replies(c)
      /\ Stream(c)' = Stream(c)
      /\ \A n : Versions(n)' = Versions(n) /\ Bytes(c, n)' = Bytes(c, n)
  BY PlanStays
<1>2. /\ consumed'[c] = consumed[c] /\ sent'[c] = sent[c]
      /\ client'[c].state = client[c].state
      /\ client'[c].request_buffer = client[c].request_buffer
      /\ client'[c].pending_output = client[c].pending_output
      /\ client'[c].file_buffer = client[c].file_buffer
      /\ client'[c].transferred_bytes = client[c].transferred_bytes
      /\ client'[c].input_file = client[c].input_file
      /\ client'[c].output_file = client[c].output_file
      /\ client'[c].final_path = client[c].final_path
      /\ client'[c].expected_bytes = client[c].expected_bytes
      /\ client[c].input_file # None => content'[client[c].input_file] = content[client[c].input_file]
      /\ client[c].output_file # None => content'[client[c].output_file] = content[client[c].output_file]
  BY DEF Kept, SameTold, SameTransfer
<1>3. CASE socket'[c] = socket[c]
  <2>1. CASE socket[c] # "open"
    BY <1>1, <1>2, <1>3, <2>1 DEF Conversation
  <2>2. CASE socket[c] = "open" /\ Requesting(c)
    BY <1>1, <1>2, <1>3, <2>2 DEF Conversation, Requesting
  <2>3. CASE socket[c] = "open" /\ InUpload(c)
    <3>1. client[c].output_file # None
      BY <2>3 DEF InUpload, IInv, Ownership
    <3>2. InUpload(c)'
      BY <1>1, <1>2, <2>3, <3>1 DEF InUpload, Uploading
    <3> QED
      BY <1>3, <2>3, <3>2 DEF Conversation
  <2>4. CASE socket[c] = "open" /\ InDownload(c)
    <3>1. InDownload(c)'
      BY <1>1, <1>2, <2>4 DEF InDownload
    <3> QED
      BY <1>3, <2>4, <3>1 DEF Conversation
  <2>5. CASE socket[c] = "open" /\ InReply(c)
    <3>1. InReply(c)'
      BY <1>1, <1>2, <2>5 DEF InReply
    <3> QED
      BY <1>3, <2>5, <3>1 DEF Conversation
  <2> QED
    BY <2>1, <2>2, <2>3, <2>4, <2>5 DEF Conversation
<1>4. CASE socket[c] \in {"none", "queued"} /\ socket'[c] \in {"queued", "open"}
  <2>1. /\ client[c] = NewClient /\ consumed[c] = 0 /\ sent[c] = <<>>
    BY <1>4 DEF Conversation, IInv, Connections, ConnectionsAccounted, ClosedKeepsNothing
  <2>2. /\ client'[c].request_buffer = <<>> /\ client'[c].state = "AwaitingRequest"
        /\ client'[c].pending_output = <<>> /\ client'[c].input_file = None
    BY <1>2, <2>1 DEF NewClient
  <2>3. SubSeq(Stream(c), 1, 0) = <<>>
    BY StreamIsSequence, SequenceWhole DEF IInv
  <2>4. Requesting(c)'
    BY <1>1, <1>2, <2>1, <2>2, <2>3 DEF Requesting
  <2> QED
    BY <1>2, <1>4, <2>1, <2>4 DEF Conversation
<1> QED
  BY <1>3, <1>4 DEF Kept

-----------------------------------------------------------------------------
(***************************************************************************)
(* Every handler has one of the effects.                                   *)
(***************************************************************************)
\* What is removed from the directory is never a remote name.
LEMMA RemovedNames ==
  ASSUME IInv, NEW P, P \cap Names = {}, Removed(P)
  PROVE  NamesKept
BY RemovedSome DEF NamesKept

LEMMA TemporaryIsNoName ==
  ASSUME NEW r, IsClient(r)
  PROVE  r.temporary_path \notin Names
BY NamesApart DEF IsClient

LEMMA ClosedNames ==
  ASSUME IInv, NEW S \in SUBSET Conns, CloseClients(S)
  PROVE  /\ NamesKept
         /\ \A c \in S : client'[c] = NewClient /\ socket'[c] = "closed"
         /\ \A c \in Conns \ S : client'[c] = client[c] /\ socket'[c] = socket[c]
<1>1. \A c \in S : IsClient(client[c])
  BY Zenon DEF IInv, TypeOK
<1> DEFINE P == {client[c].temporary_path : c \in S}
<1>2. P \cap Names = {}
  <2>1. \A c \in S : client[c].temporary_path \notin Names
    BY <1>1, TemporaryIsNoName
  <2> QED
    BY <2>1
<1>4. Removed(P)
  BY DEF CloseClients
<1> HIDE DEF P
<1>3. NamesKept
  BY <1>2, <1>4, RemovedNames
<1> QED
  BY <1>3 DEF CloseClients

LEMMA ErrorEffect ==
  ASSUME IInv, NEW c \in Conns, NEW r, IsClient(r), NEW why, QueueError(c, r, why)
  PROVE  /\ NamesKept
         /\ client'[c].state = "SendingError" /\ client'[c].input_file = None
         /\ client'[c].pending_output = Line(ErrHead(why))
         /\ client'[c].file_buffer = r.file_buffer
         /\ \A d \in Conns \ {c} : client'[d] = client[d]
<1>1. NamesKept
  BY TemporaryIsNoName, RemovedNames DEF QueueError
<1>2. client'[c] = Errored(r, why) /\ \A d \in Conns \ {c} : client'[d] = client[d]
  BY DEF QueueError, IInv, TypeOK
<1> QED
  BY <1>1, <1>2 DEF Errored, IsClient, NewClient

LEMMA UpdateEffect ==
  ASSUME IInv, NEW c \in Conns, NEW r, Update(c, r)
  PROVE  /\ NamesKept /\ client'[c] = r
         /\ \A d \in Conns \ {c} : client'[d] = client[d]
<1>1. client'[c] = r /\ entry' = entry /\ \A d \in Conns \ {c} : client'[d] = client[d]
  BY DEF Update, IInv, TypeOK
<1> QED
  BY <1>1 DEF NamesKept

\* What has been received of the stream of a connection that is still asking.
LEMMA RequestBuffer ==
  ASSUME IInv, NEW c \in Conns, Requesting(c)
  PROVE  /\ client[c].request_buffer \o Chunk(c) =
              SubSeq(Stream(c), 1, consumed[c] + Received(c))
         /\ consumed[c] + Received(c) \in Nat
         /\ consumed[c] + Received(c) <= Len(Stream(c))
<1>1. /\ Received(c) \in Nat /\ Received(c) <= Waiting(c)
      /\ consumed[c] \in Nat /\ offered[c] \in Nat /\ Len(Stream(c)) \in Nat
      /\ consumed[c] <= offered[c] /\ offered[c] <= Len(Stream(c)) /\ IsSequence(Stream(c))
  BY ChunkIsSequence, ClientFields, StreamIsSequence DEF IInv
<1> DEFINE m == consumed[c]
           n == consumed[c] + Received(c)
<1>2. m \in Nat /\ n \in Nat /\ m <= n /\ n <= Len(Stream(c))
  BY <1>1 DEF Waiting
<1>3. client[c].request_buffer = SubSeq(Stream(c), 1, m) /\ Chunk(c) = SubSeq(Stream(c), m + 1, n)
  BY DEF Requesting, Chunk
<1> HIDE DEF m, n
<1>4. SubSeq(Stream(c), 1, m) \o SubSeq(Stream(c), m + 1, n) = SubSeq(Stream(c), 1, n)
  BY <1>1, <1>2, SequenceSplit
<1> QED
  BY <1>2, <1>3, <1>4 DEF n

LEMMA RequestDone ==
  ASSUME IInv, NEW c \in Conns, Requesting(c), socket[c] = "open",
         handle_request_readable(c), UNCHANGED <<socket, sent>>,
         consumed' = [consumed EXCEPT ![c] = @ + Received(c)]
  PROVE  /\ NamesKept
         /\ \A d \in Conns \ {c} : client'[d] = client[d]
         /\ Waits(c) \/ Refuses(c) \/ BeginsDownload(c) \/ BeginsUpload(c)
<1> DEFINE buffer  == client[c].request_buffer \o Chunk(c)
           request == RequestIn(buffer)
           got     == [client[c] EXCEPT !.request_buffer = buffer, !.idle = 0]
           start   == [got EXCEPT !.request_buffer = <<>>]
           n       == consumed[c] + Received(c)
<1>1. /\ buffer = SubSeq(Stream(c), 1, n) /\ n \in Nat /\ n <= Len(Stream(c))
      /\ consumed'[c] = n
  BY RequestBuffer DEF IInv, TypeOK, TransportTypeOK
<1>2. /\ client[c].state = "AwaitingRequest" /\ IsClient(client[c]) /\ WellBuffered(client[c])
      /\ client[c].file_buffer = <<>> /\ client[c].pending_output = <<>>
      /\ client[c].input_file = None /\ sent'[c] = sent[c]
      /\ socket[c] = "open" /\ socket'[c] = "open"
  BY DEF Requesting, IInv, TypeOK, Buffers, WellBuffered
<1>3. /\ IsClient(got) /\ got.state = "AwaitingRequest" /\ got.request_buffer = buffer
      /\ got.pending_output = <<>> /\ got.file_buffer = <<>> /\ got.input_file = None
  BY <1>2, ServerConstants DEF IsClient, NewClient
<1>4. /\ IsClient(start) /\ start.state = "AwaitingRequest" /\ start.fd = client[c].fd
      /\ start.pending_output = <<>> /\ start.file_buffer = <<>> /\ start.input_file = None
  BY <1>3 DEF IsClient, NewClient
<1>5. request.operation \in {"Get", "Put"} => n = LineLength(c) /\ request = Asked(c)
  <2>1. RequestIn(SubSeq(Stream(c), 1, n)).operation \in {"Get", "Put"} =>
          n = LineLength(c) /\ RequestIn(SubSeq(Stream(c), 1, n)) = Asked(c)
    BY <1>1, RequestSeen DEF IInv
  <2> QED
    BY <1>1, <2>1
<1>6. \/ /\ Update(c, got)
      \/ /\ request.error \notin {"incomplete", "none"}
         /\ QueueError(c, got, request.error)
      \/ /\ request.operation = "Get"
         /\ StartGet(c, start, request.filename)
      \/ /\ request.operation = "Put"
         /\ StartPut(c, start, request.filename, request.size)
  BY DEF handle_request_readable, note_activity
<1>7. request.operation \notin {"Get", "Put"} => request.error \in Refusals \cup {"incomplete"}
  BY RequestVerdicts
<1>8. request.operation \in {"Get", "Put"} => request.error = "none"
  <2>1. Asked(c).operation \in {"Get", "Put"} => Asked(c).error = "none"
    BY DEF Asked, ParseRequest, NoRequest, GetRequest, PutRequest
  <2> QED
    BY <1>5, <2>1
<1>9. request.operation = "Get" => request.filename \in Names
  BY RequestTypes
<1> HIDE DEF got, start, n, request, buffer
<1>10. CASE Update(c, got)
  <2>1. /\ NamesKept /\ client'[c] = got
        /\ \A d \in Conns \ {c} : client'[d] = client[d]
    BY <1>10, UpdateEffect
  <2>2. Waits(c)
    BY <1>1, <1>2, <1>3, <2>1 DEF Waits, Turns
  <2> QED
    BY <2>1, <2>2
<1>11. ASSUME NEW why \in Refusals, NEW r \in {got, start}, QueueError(c, r, why)
       PROVE  NamesKept /\ (\A d \in Conns \ {c} : client'[d] = client[d]) /\ Refuses(c)
  <2>1. IsClient(r) /\ r.file_buffer = <<>>
    BY <1>3, <1>4
  <2>2. /\ NamesKept
        /\ client'[c].state = "SendingError" /\ client'[c].input_file = None
        /\ client'[c].pending_output = Line(ErrHead(why))
        /\ client'[c].file_buffer = r.file_buffer
        /\ \A d \in Conns \ {c} : client'[d] = client[d]
    BY <1>11, <2>1, ErrorEffect
  <2> QED
    BY <1>2, <2>1, <2>2 DEF Refuses, Turns
<1>12. CASE request.operation = "Get" /\ StartGet(c, start, request.filename)
  <2> DEFINE name == Asked(c).filename
             size == Len(content[entry[name]])
             r == [start EXCEPT !.input_file = entry[name], !.expected_bytes = size,
                                !.transferred_bytes = 0, !.pending_output = Line(OkHead(size)),
                                !.state = "SendingGetHeader"]
  <2>1. /\ name \in Names /\ content' = content /\ Asked(c).operation = "Get" /\ request = Asked(c)
        /\ n = LineLength(c)
    BY <1>5, <1>9, <1>12 DEF StartGet
  <2>2. CASE \E why \in {"not-found", "not-readable"} : QueueError(c, start, why)
    BY <1>11, <2>2 DEF Refusals
  <2>3. CASE name \in Retrievable /\ Update(c, r)
    <3>1. /\ NamesKept /\ client'[c] = r
          /\ \A d \in Conns \ {c} : client'[d] = client[d]
      BY <2>3, UpdateEffect
    <3>2. /\ r.input_file = entry[name] /\ r.expected_bytes = size /\ r.transferred_bytes = 0
          /\ r.pending_output = Line(OkHead(size)) /\ r.state = "SendingGetHeader"
          /\ r.file_buffer = <<>>
      BY <1>4 DEF IsClient, NewClient
    <3>3. BeginsDownload(c)
      <4> HIDE DEF r
      <4> QED
        BY <1>1, <1>2, <2>1, <2>3, <3>1, <3>2 DEF BeginsDownload, Turns
    <3> QED
      BY <3>1, <3>3
  <2> QED
    BY <1>12, <2>1, <2>2, <2>3 DEF StartGet
<1>13. CASE request.operation = "Put" /\ StartPut(c, start, request.filename, request.size)
  <2> DEFINE name == Asked(c).filename
             size == Asked(c).size
             path == TempPath(start.fd, g_upload_sequence + 1)
             file == IF path \in DOMAIN entry THEN entry[path] ELSE c
             put  == [start EXCEPT !.expected_bytes = size, !.transferred_bytes = 0,
                                   !.final_path = name, !.temporary_path = path]
             r    == [put EXCEPT !.output_file = file, !.pending_output = Line(ReadyHead),
                                 !.state = "SendingReady"]
  <2>1. /\ name \in Names /\ size \in Nat /\ Asked(c).operation = "Put" /\ request = Asked(c)
        /\ n = LineLength(c)
    BY <1>5, <1>13, UploadIsVersion
  <2>2. path \in TempNames /\ path \notin Names
    <3>1. Live(c)
      BY <1>2 DEF IInv, Connections, ConnectionsAccounted
    <3>2. path \in TempNames
      BY <1>4, <3>1 DEF TempPath, TempNames, Live, IInv, TypeOK, IsClient
    <3> QED
      BY <3>2, NamesApart
  <2>3. /\ IsClient(put) /\ put.file_buffer = <<>> /\ put.input_file = None
        /\ put.transferred_bytes = 0 /\ put.expected_bytes = size /\ put.final_path = name
        /\ put.temporary_path = path
    <3> HIDE DEF path, name, size
    <3> QED
      BY <1>4, <2>1, <2>2 DEF IsClient, NewClient
  <2>4. CASE QueueError(c, put, "storage-failure")
    <3>1. /\ NamesKept
          /\ client'[c].state = "SendingError" /\ client'[c].input_file = None
          /\ client'[c].pending_output = Line(ErrHead("storage-failure"))
          /\ client'[c].file_buffer = put.file_buffer
          /\ \A d \in Conns \ {c} : client'[d] = client[d]
      BY <2>3, <2>4, ErrorEffect
    <3>2. "storage-failure" \in Refusals
      BY DEF Refusals
    <3> QED
      BY <1>2, <2>3, <3>1, <3>2 DEF Refuses, Turns
  <2>5. CASE /\ client' = [client EXCEPT ![c] = r]
             /\ entry' = With(path, file)
             /\ content' = [content EXCEPT ![file] = <<>>]
    <3>1. /\ r.input_file = None /\ r.expected_bytes = size /\ r.transferred_bytes = 0
          /\ r.pending_output = Line(ReadyHead) /\ r.state = "SendingReady"
          /\ r.file_buffer = <<>> /\ r.final_path = name /\ r.output_file = file
      <4> HIDE DEF put
      <4> QED
        BY <2>3 DEF IsClient, NewClient
    <3>2. file \in Files
      BY DEF IInv, TypeOK, Files
    <3> HIDE DEF r, put, file, path
    <3>3. client'[c] = r /\ \A d \in Conns \ {c} : client'[d] = client[d]
      BY <2>5 DEF IInv, TypeOK
    <3>4. NamesKept
      BY <2>2, <2>5 DEF With, NamesKept
    <3>5. content'[file] = <<>>
      BY <2>5, <3>2 DEF IInv, TypeOK
    <3>6. BeginsUpload(c)
      BY <1>1, <1>2, <2>1, <3>1, <3>3, <3>5 DEF BeginsUpload, Turns
    <3> QED
      BY <3>3, <3>4, <3>6
  <2> QED
    BY <1>13, <2>1, <2>4, <2>5 DEF StartPut
<1>14. CASE request.error \notin {"incomplete", "none"} /\ QueueError(c, got, request.error)
  BY <1>7, <1>8, <1>11, <1>14
<1> QED
  BY <1>6, <1>10, <1>12, <1>13, <1>14

\* Nothing said is a way to speak.
LEMMA SaysNothing ==
  ASSUME IInv, NEW c \in Conns, sent'[c] = sent[c]
  PROVE  Speaks(c)
<1>1. IsSequence(sent[c]) /\ IsSequence(<<>>)
  BY ClientFields, SequenceLines
<1>2. sent[c] \o <<>> = sent[c]
  BY <1>1, ConcatNothing
<1> QED
  BY <1>1, <1>2 DEF Speaks

LEMMA CompleteDone ==
  ASSUME IInv, NEW c \in Conns, InUpload(c), socket[c] = "open", socket'[c] = "open",
         NEW r, IsClient(r), r.file_buffer = <<>>, r.input_file = None,
         r.temporary_path = client[c].temporary_path, r.final_path = client[c].final_path,
         r.expected_bytes = client[c].expected_bytes,
         CompleteUpload(c, r), Speaks(c), sent'[c] = Line(ReadyHead),
         content'[client[c].output_file] = Bytes(c, client[c].expected_bytes)
  PROVE  /\ \A d \in Conns \ {c} : client'[d] = client[d]
         /\ CompletesUpload(c) \/ (NamesKept /\ FailsUpload(c))
<1>1. /\ Uploading(c) /\ Asked(c).operation = "Put"
      /\ client[c].final_path = Asked(c).filename
      /\ client[c].expected_bytes = Asked(c).size
  BY DEF InUpload
<1>2. CASE QueueError(c, r, "storage-failure")
  <2>1. /\ NamesKept
        /\ client'[c].state = "SendingError" /\ client'[c].input_file = None
        /\ client'[c].pending_output = Line(ErrHead("storage-failure"))
        /\ client'[c].file_buffer = r.file_buffer
        /\ \A d \in Conns \ {c} : client'[d] = client[d]
    BY <1>2, ErrorEffect
  <2>2. "storage-failure" \in Aborts
    BY DEF Aborts
  <2>3. FailsUpload(c)
    BY <1>1, <2>1, <2>2 DEF FailsUpload, Turns
  <2> QED
    BY <2>1, <2>3
<1>3. CASE /\ entry' = Renamed(r.temporary_path, r.final_path)
           /\ client' = [client EXCEPT ![c] =
                [r EXCEPT !.output_file = None, !.temporary_path = None,
                          !.pending_output = Line(OkHead(r.expected_bytes)),
                          !.state = "SendingResult"]]
  <2> DEFINE e    == [r EXCEPT !.output_file = None, !.temporary_path = None,
                               !.pending_output = Line(OkHead(r.expected_bytes)),
                               !.state = "SendingResult"]
             t    == client[c].temporary_path
             name == Asked(c).filename
  <2>1. client'[c] = e /\ \A d \in Conns \ {c} : client'[d] = client[d]
    BY <1>3 DEF IInv, TypeOK
  <2>2. /\ e.state = "SendingResult" /\ e.file_buffer = <<>> /\ e.input_file = None
        /\ e.pending_output = Line(OkHead(Asked(c).size))
    BY <1>1 DEF IsClient, NewClient
  <2> HIDE DEF e
  <2>3. /\ t \in DOMAIN entry /\ entry[t] = client[c].output_file /\ t \notin Names
        /\ name \in Names
    <3>1. t # None /\ t \in DOMAIN entry /\ entry[t] = client[c].output_file
      BY <1>1 DEF IInv, Ownership
    <3>2. t \in TempNames
      BY <3>1 DEF IInv, TypeOK, IsClient
    <3> QED
      BY <1>1, <3>1, <3>2, UploadIsVersion, NamesApart
  <2>4. entry' = Renamed(t, name)
    BY <1>1, <1>3
  <2> HIDE DEF t, name
  <2>5. /\ Names \cap DOMAIN entry' = (Names \cap DOMAIN entry) \cup {name}
        /\ \A n \in (Names \cap DOMAIN entry) \ {name} : entry'[n] = entry[n]
        /\ entry'[name] = client[c].output_file
    BY <2>3, <2>4 DEF Renamed
  <2>6. CompletesUpload(c)
    BY <1>1, <2>1, <2>2, <2>5 DEF CompletesUpload, Turns, name
  <2> QED
    BY <2>1, <2>6
<1> QED
  BY <1>2, <1>3 DEF CompleteUpload

LEMMA UploadDone ==
  ASSUME IInv, NEW c \in Conns, InUpload(c), socket[c] = "open",
         handle_upload_readable(c), UNCHANGED <<socket, sent>>,
         consumed' = [consumed EXCEPT ![c] = @ + Received(c)]
  PROVE  /\ \A d \in Conns \ {c} : client'[d] = client[d]
         /\ CompletesUpload(c) \/ (NamesKept /\ (ReceivesPart(c) \/ FailsUpload(c)))
<1> DEFINE cl       == client[c]
           accepted == Accepted(c)
           got      == [cl EXCEPT !.idle = 0]
           wrote    == [got EXCEPT !.transferred_bytes = @ + accepted]
           n        == Received(c)
           t        == cl.transferred_bytes
           file     == cl.output_file
           k        == LineLength(c)
<1>1. /\ cl.state = "ReceivingFile" /\ Uploading(c) /\ cl.pending_output = <<>>
      /\ cl.input_file = None /\ cl.file_buffer = <<>> /\ IsClient(cl)
      /\ consumed[c] = k + t /\ content[file] = Bytes(c, t) /\ file \in Files
      /\ socket'[c] = "open"
  <2>1. Uploading(c) /\ file # None /\ file \in Files \cup {None}
    BY DEF InUpload, IInv, TypeOK, IsClient, Ownership
  <2> QED
    BY <2>1, ClientFields DEF handle_upload_readable, InUpload, IInv, TypeOK
<1>2. sent[c] = Line(ReadyHead) /\ sent'[c] = sent[c] /\ Speaks(c)
  <2>1. IsSequence(sent[c]) /\ sent[c] \o <<>> = Line(ReadyHead)
    BY <1>1, ClientFields DEF InUpload
  <2>2. sent[c] = Line(ReadyHead)
    BY <2>1, ConcatNothing
  <2> QED
    BY <2>2, SaysNothing
<1>3. /\ n \in Nat /\ t \in Nat /\ k \in Nat /\ k + t + n <= Len(Stream(c))
      /\ consumed'[c] = k + t + n /\ consumed'[c] = consumed[c] + n
      /\ Chunk(c) = SubSeq(Stream(c), k + t + 1, k + t + n)
      /\ IsSequence(Chunk(c)) /\ Len(Chunk(c)) = n
  <2>1. /\ n \in Nat /\ n <= Waiting(c) /\ t \in Nat /\ k \in Nat
        /\ offered[c] \in Nat /\ consumed[c] \in Nat /\ offered[c] <= Len(Stream(c))
        /\ Len(Stream(c)) \in Nat /\ IsSequence(Chunk(c)) /\ Len(Chunk(c)) = n
    BY ChunkIsSequence, ClientFields, StreamIsSequence, StreamShape DEF IInv
  <2>2. consumed[c] + n <= Len(Stream(c))
    BY <2>1 DEF Waiting
  <2>3. consumed'[c] = consumed[c] + n
    BY DEF IInv, TypeOK, TransportTypeOK
  <2> QED
    BY <1>1, <2>1, <2>2, <2>3 DEF Chunk
<1>4. /\ IsClient(got) /\ got.file_buffer = <<>> /\ got.input_file = None
      /\ got.temporary_path = cl.temporary_path /\ got.final_path = cl.final_path
      /\ got.expected_bytes = cl.expected_bytes
  BY <1>1, ServerConstants DEF IsClient, NewClient
<1>5. /\ accepted \in Nat /\ accepted <= n /\ t + accepted <= cl.expected_bytes
      /\ cl.expected_bytes \in Nat
  <2> DEFINE size == cl.expected_bytes
  <2>1. size \in Nat /\ t \in Nat /\ t <= size /\ accepted = Least(size - t, n)
    BY ClientFields DEF Accepted
  <2> HIDE DEF size, t, n, accepted
  <2>2. size - t \in Nat
    BY <2>1
  <2>3. accepted \in Nat /\ accepted <= n /\ accepted <= size - t
    BY <1>3, <2>1, <2>2, LeastOfNats
  <2>4. t + accepted <= size
    BY <2>1, <2>3
  <2> QED
    BY <2>1, <2>3, <2>4 DEF size
<1>6. /\ IsClient(wrote) /\ wrote.file_buffer = <<>> /\ wrote.input_file = None
      /\ wrote.temporary_path = cl.temporary_path /\ wrote.final_path = cl.final_path
      /\ wrote.expected_bytes = cl.expected_bytes /\ wrote.output_file = file
      /\ wrote.transferred_bytes = t + accepted /\ wrote.state = "ReceivingFile"
      /\ wrote.pending_output = <<>>
  <2>1. t + accepted \in 0..cl.expected_bytes
    <3> DEFINE size == cl.expected_bytes
    <3>1. size \in Nat /\ t \in Nat /\ accepted \in Nat /\ t + accepted <= size
      BY <1>3, <1>5
    <3> HIDE DEF size, t, accepted
    <3> QED
      BY <3>1 DEF size
  <2> HIDE DEF accepted
  <2>2. /\ wrote.file_buffer = <<>> /\ wrote.input_file = None
        /\ wrote.temporary_path = cl.temporary_path /\ wrote.final_path = cl.final_path
        /\ wrote.expected_bytes = cl.expected_bytes /\ wrote.output_file = file
        /\ wrote.transferred_bytes = t + accepted /\ wrote.state = "ReceivingFile"
        /\ wrote.pending_output = <<>> /\ wrote.fd = cl.fd /\ wrote.idle = 0
        /\ DOMAIN wrote = DOMAIN NewClient
    <3>1. /\ DOMAIN got = DOMAIN cl /\ DOMAIN cl = DOMAIN NewClient
          /\ got.output_file = file /\ got.transferred_bytes = t /\ got.idle = 0
          /\ got.state = "ReceivingFile" /\ got.pending_output = <<>> /\ got.fd = cl.fd
      BY <1>1 DEF IsClient, NewClient
    <3> HIDE DEF got
    <3> QED
      BY <1>4, <3>1 DEF NewClient
  <2> HIDE DEF wrote
  <2>3. IsClient(wrote)
    BY <1>1, <2>1, <2>2, ServerConstants DEF IsClient
  <2> QED
    BY <2>2, <2>3
<1>7. \/ QueueError(c, wrote, "protocol-error")
      \/ QueueError(c, got, "storage-failure")
      \/ /\ content' = [content EXCEPT ![file] = @ \o SubSeq(Chunk(c), 1, accepted)]
         /\ accepted = n
         /\ \/ CompleteUpload(c, wrote) /\ wrote.transferred_bytes = cl.expected_bytes
            \/ Update(c, wrote)
  BY DEF handle_upload_readable, note_activity
<1> HIDE DEF wrote, got, accepted, n, t, k, file
<1>8. ASSUME NEW why \in Aborts, NEW r \in {wrote, got}, QueueError(c, r, why)
      PROVE  NamesKept /\ (\A d \in Conns \ {c} : client'[d] = client[d]) /\ FailsUpload(c)
  <2>1. IsClient(r) /\ r.file_buffer = <<>>
    BY <1>4, <1>6
  <2>2. /\ NamesKept
        /\ client'[c].state = "SendingError" /\ client'[c].input_file = None
        /\ client'[c].pending_output = Line(ErrHead(why))
        /\ client'[c].file_buffer = r.file_buffer
        /\ \A d \in Conns \ {c} : client'[d] = client[d]
    BY <1>8, <2>1, ErrorEffect
  <2>3. FailsUpload(c)
    BY <1>1, <1>2, <2>1, <2>2 DEF FailsUpload, Turns
  <2> QED
    BY <2>2, <2>3
<1>9. "protocol-error" \in Aborts /\ "storage-failure" \in Aborts
  BY DEF Aborts
<1>10. CASE /\ content' = [content EXCEPT ![file] = @ \o SubSeq(Chunk(c), 1, accepted)]
            /\ accepted = n
            /\ \/ CompleteUpload(c, wrote) /\ wrote.transferred_bytes = cl.expected_bytes
               \/ Update(c, wrote)
  <2>1. SubSeq(Chunk(c), 1, accepted) = Chunk(c)
    BY <1>3, <1>10, SequenceWhole
  <2>2. content'[file] = content[file] \o Chunk(c)
    BY <1>1, <1>10, <2>1 DEF IInv, TypeOK
  <2>3. Bytes(c, t) \o SubSeq(Stream(c), LineLength(c) + t + 1, LineLength(c) + t + n)
          = Bytes(c, t + n)
    BY <1>3, BytesGrow DEF IInv, k
  <2>4. content'[file] = Bytes(c, t + n)
    BY <1>1, <1>3, <2>2, <2>3 DEF k
  <2>5. CASE CompleteUpload(c, wrote) /\ wrote.transferred_bytes = cl.expected_bytes
    <3>1. content'[cl.output_file] = Bytes(c, cl.expected_bytes)
      BY <1>6, <1>10, <2>4, <2>5 DEF file
    <3> QED
      BY <1>1, <1>2, <1>6, <2>5, <3>1, CompleteDone
  <2>6. CASE Update(c, wrote)
    <3>1. /\ NamesKept /\ client'[c] = wrote
          /\ \A d \in Conns \ {c} : client'[d] = client[d]
      BY <2>6, UpdateEffect
    <3>2. consumed'[c] - consumed[c] = n /\ consumed'[c] <= Len(Stream(c))
          /\ consumed[c] + 1 = k + t + 1
      <4> DEFINE m == consumed[c]
      <4>1. /\ m \in Nat /\ n \in Nat /\ m = k + t /\ consumed'[c] = m + n
            /\ consumed'[c] = k + t + n /\ k + t + n <= Len(Stream(c))
        BY <1>1, <1>3, ClientFields
      <4> HIDE DEF m
      <4>2. (m + n) - m = n
        BY <4>1
      <4> QED
        BY <4>1, <4>2 DEF m
    <3>3. content'[file] = content[file] \o SubSeq(Stream(c), consumed[c] + 1, consumed'[c])
      BY <1>3, <2>2, <3>2
    <3>4. ReceivesPart(c)
      BY <1>1, <1>2, <1>3, <1>6, <1>10, <3>1, <3>2, <3>3
      DEF ReceivesPart, Turns, SameTransfer, file, t
    <3> QED
      BY <3>1, <3>4
  <2> QED
    BY <1>10, <2>5, <2>6
<1> QED
  BY <1>7, <1>8, <1>9, <1>10

\* As many bytes of the buffer are sent as the send buffer takes.
Sends(c, buffer, n) ==
  /\ IsSequence(buffer)
  /\ n = Least(SendSpace(c), Len(buffer))
  /\ sent'[c] = sent[c] \o SubSeq(buffer, 1, n)

\* What is sent leaves the buffer: the two together stay as they were.
LEMMA BufferSent ==
  ASSUME IInv, NEW c \in Conns, NEW buffer, NEW n, Sends(c, buffer, n)
  PROVE  /\ Speaks(c) /\ n \in Nat /\ n <= Len(buffer) /\ Len(buffer) \in Nat
         /\ sent'[c] \o SubSeq(buffer, n + 1, Len(buffer)) = sent[c] \o buffer
         /\ Len(SubSeq(buffer, n + 1, Len(buffer))) = Len(buffer) - n
         /\ n = Len(buffer) => /\ sent'[c] = sent[c] \o buffer
                               /\ SubSeq(buffer, n + 1, Len(buffer)) = <<>>
<1> DEFINE front == SubSeq(buffer, 1, n)
           back  == SubSeq(buffer, n + 1, Len(buffer))
<1>1. /\ n \in Nat /\ n <= Len(buffer) /\ Len(buffer) \in Nat /\ Len(back) = Len(buffer) - n
  BY Sending DEF Sends
<1>2. sent'[c] = sent[c] \o front /\ IsSequence(buffer)
  BY DEF Sends
<1>3. IsSequence(front)
  BY <1>1, <1>2, SequenceHalves
<1>4. (sent[c] \o front) \o back = sent[c] \o buffer
  BY <1>1, <1>2, ClientFields, MovedOver
<1>5. n = Len(buffer) => front = buffer /\ back = <<>>
  BY <1>1, <1>2, SequenceWhole
<1>6. Speaks(c)
  BY <1>2, <1>3 DEF Speaks
<1> HIDE DEF front, back
<1> QED
  BY <1>1, <1>2, <1>4, <1>5, <1>6 DEF back

LEMMA FlushDone ==
  ASSUME IInv, NEW c \in Conns, SendPending(c)
  PROVE  LET flushed == AfterFlush(c) IN
         /\ Speaks(c) /\ sent'[c] \o flushed.pending_output = sent[c] \o client[c].pending_output
         /\ Drained(c) => /\ sent'[c] = sent[c] \o client[c].pending_output
                          /\ flushed.pending_output = <<>>
         /\ \A d \in Conns \ {c} : sent'[d] = sent[d]
         /\ IsClient(flushed) /\ flushed.state = client[c].state
         /\ SameTransfer(flushed, client[c])
         /\ flushed.transferred_bytes = client[c].transferred_bytes
         /\ flushed.file_buffer = client[c].file_buffer
         /\ flushed.temporary_path = client[c].temporary_path
<1> DEFINE flushed == AfterFlush(c)
           buffer  == client[c].pending_output
           n       == Flushed(c)
<1>1. IsSequence(buffer) /\ n = Least(SendSpace(c), Len(buffer))
  BY ClientFields DEF Flushed
<1>9. sent'[c] = sent[c] \o SubSeq(buffer, 1, n) /\ \A d \in Conns \ {c} : sent'[d] = sent[d]
  BY DEF SendPending, IInv, TypeOK, TransportTypeOK
<1>10. Sends(c, buffer, n)
  BY <1>1, <1>9 DEF Sends
<1>8. IsClient(client[c]) /\ (Drained(c) <=> n = Len(buffer))
  BY DEF IInv, TypeOK, Drained
<1>2. /\ flushed.pending_output = SubSeq(buffer, n + 1, Len(buffer))
      /\ flushed.fd = client[c].fd /\ flushed.state = client[c].state
      /\ flushed.output_file = client[c].output_file
      /\ flushed.temporary_path = client[c].temporary_path
      /\ flushed.final_path = client[c].final_path
      /\ flushed.input_file = client[c].input_file
      /\ flushed.file_buffer = client[c].file_buffer
      /\ flushed.transferred_bytes = client[c].transferred_bytes
      /\ flushed.expected_bytes = client[c].expected_bytes
      /\ flushed.idle \in {0, client[c].idle}
      /\ DOMAIN flushed = DOMAIN NewClient
  BY <1>8 DEF AfterFlush, IsClient, NewClient, note_activity
<1> HIDE DEF n, buffer, flushed
<1>3. /\ Speaks(c) /\ n \in Nat /\ n <= Len(buffer) /\ Len(buffer) \in Nat
      /\ sent'[c] \o SubSeq(buffer, n + 1, Len(buffer)) = sent[c] \o buffer
      /\ Len(SubSeq(buffer, n + 1, Len(buffer))) = Len(buffer) - n
      /\ n = Len(buffer) => /\ sent'[c] = sent[c] \o buffer
                            /\ SubSeq(buffer, n + 1, Len(buffer)) = <<>>
  BY <1>10, BufferSent
<1>4. IsClient(flushed)
  BY <1>2, <1>8, ServerConstants DEF IsClient
<1>5. SameTransfer(flushed, client[c])
  BY <1>2 DEF SameTransfer
<1>6. sent'[c] \o flushed.pending_output = sent[c] \o buffer
  BY <1>2, <1>3
<1>7. Drained(c) => sent'[c] = sent[c] \o buffer /\ flushed.pending_output = <<>>
  BY <1>2, <1>3, <1>8
<1> QED
  BY <1>2, <1>4, <1>5, <1>6, <1>7, <1>9, <1>3 DEF flushed, buffer

\* What close_client of one connection does to the rest.
LEMMA FailDone ==
  ASSUME IInv, NEW c \in Conns, Fail(c)
  PROVE  /\ NamesKept /\ client'[c] = NewClient /\ socket'[c] = "closed"
         /\ \A d \in Conns \ {c} : client'[d] = client[d] /\ socket'[d] = socket[d]
<1>1. CloseClients({c}) /\ {c} \in SUBSET Conns /\ c \in {c}
  BY DEF Fail
<1> QED
  BY <1>1, ClosedNames

LEMMA HeaderDone ==
  ASSUME IInv, NEW c \in Conns, Conversation(c), socket[c] = "open", WriteGetHeader(c),
         UNCHANGED <<content, consumed>>
  PROVE  /\ \A d \in Conns \ {c} : /\ client'[d] = client[d] /\ socket'[d] = socket[d]
                                   /\ sent'[d] = sent[d]
         /\ NamesKept /\ (Flushes(c) \/ Ends(c))
<1> DEFINE flushed == AfterFlush(c)
           sending == [flushed EXCEPT !.state = "SendingFile"]
<1>1. client[c].state = "SendingGetHeader" /\ SendPending(c)
  BY DEF WriteGetHeader
<1>2. InDownload(c)
  BY <1>1 DEF Conversation, Requesting, InUpload, InReply, Uploading
<1>3. /\ Speaks(c) /\ sent'[c] \o flushed.pending_output = sent[c] \o client[c].pending_output
      /\ Drained(c) => /\ sent'[c] = sent[c] \o client[c].pending_output
                       /\ flushed.pending_output = <<>>
      /\ \A d \in Conns \ {c} : sent'[d] = sent[d]
      /\ IsClient(flushed) /\ flushed.state = client[c].state
      /\ SameTransfer(flushed, client[c])
      /\ flushed.transferred_bytes = client[c].transferred_bytes
      /\ flushed.file_buffer = client[c].file_buffer
  BY <1>1, FlushDone
<1>4. \/ Drained(c) /\ client[c].expected_bytes = 0 /\ Fail(c)
      \/ Update(c, flushed) /\ UNCHANGED socket
      \/ Drained(c) /\ Update(c, sending) /\ UNCHANGED socket
  BY DEF WriteGetHeader
<1> HIDE DEF flushed
<1>5. CASE Drained(c) /\ client[c].expected_bytes = 0 /\ Fail(c)
  <2>1. /\ NamesKept /\ client'[c] = NewClient /\ socket'[c] = "closed"
        /\ \A d \in Conns \ {c} : client'[d] = client[d] /\ socket'[d] = socket[d]
    BY <1>5, FailDone
  <2>2. client[c].file_buffer = <<>>
    BY <1>1, ClientFields
  <2>3. sent'[c] \in Replies(c)
    <3> DEFINE said == sent[c] \o client[c].pending_output
    <3>1. PICK v \in Versions(Asked(c).filename) :
            /\ Len(v) = 0
            /\ said \o <<>> = Line(OkHead(Len(v))) \o SubSeq(v, 1, 0)
      <4>1. client[c].transferred_bytes + Len(client[c].file_buffer) = 0
        BY <1>1, <1>2, <2>2, SequenceLines DEF InDownload
      <4> QED
        BY <1>2, <1>5, <2>2, <4>1 DEF InDownload
    <3>2. IsSequence(said)
      BY ClientFields, SequenceConcat
    <3>3. v = SubSeq(v, 1, 0)
      BY <3>1, VersionsAreSequences, SequenceWhole
    <3> HIDE DEF said
    <3>4. said = Line(OkHead(Len(v))) \o v
      BY <3>1, <3>2, <3>3, ConcatNothing
    <3> QED
      BY <1>2, <1>3, <1>5, <3>4, RepliesAre DEF InDownload, said
  <2>4. Ends(c)
    BY <1>3, <1>5, <2>1, <2>2, <2>3 DEF Ends
  <2> QED
    BY <1>3, <2>1, <2>4
<1>6. ASSUME NEW r, Update(c, r), UNCHANGED socket, r = flushed \/ (Drained(c) /\ r = sending)
      PROVE  /\ \A d \in Conns \ {c} : client'[d] = client[d]
             /\ NamesKept /\ Flushes(c)
  <2>1. /\ NamesKept /\ client'[c] = r /\ \A d \in Conns \ {c} : client'[d] = client[d]
    BY <1>6, UpdateEffect
  <2>2. /\ r.pending_output = flushed.pending_output /\ SameTransfer(r, client[c])
        /\ r.transferred_bytes = client[c].transferred_bytes
        /\ r.file_buffer = client[c].file_buffer
        /\ \/ r.state = client[c].state
           \/ r.state = "SendingFile" /\ r.pending_output = <<>>
    BY <1>3, <1>6 DEF IsClient, NewClient, SameTransfer
  <2>3. Flushes(c)
    BY <1>1, <1>3, <1>6, <2>1, <2>2 DEF Flushes, Turns
  <2> QED
    BY <2>1, <2>3
<1> QED
  BY <1>3, <1>4, <1>5, <1>6

\* The buffer of a client is emptied a little further, and its state moves on at most.
LEMMA FlushEffect ==
  ASSUME IInv, NEW c \in Conns, socket[c] = "open", SendPending(c),
         client[c].state \in {"SendingReady", "SendingResult", "SendingError"},
         NEW r, Update(c, r), UNCHANGED <<socket, content, consumed>>,
         \/ r = AfterFlush(c)
         \/ /\ r = [AfterFlush(c) EXCEPT !.state = "ReceivingFile"]
            /\ Drained(c) /\ client[c].state = "SendingReady"
  PROVE  /\ NamesKept /\ \A d \in Conns \ {c} : client'[d] = client[d]
         /\ Flushes(c)
<1> DEFINE flushed == AfterFlush(c)
<1>1. /\ Speaks(c) /\ sent'[c] \o flushed.pending_output = sent[c] \o client[c].pending_output
      /\ Drained(c) => flushed.pending_output = <<>>
      /\ IsClient(flushed) /\ flushed.state = client[c].state
      /\ SameTransfer(flushed, client[c])
      /\ flushed.transferred_bytes = client[c].transferred_bytes
      /\ flushed.file_buffer = client[c].file_buffer
  BY FlushDone
<1>3. \/ r = flushed
      \/ r = [flushed EXCEPT !.state = "ReceivingFile"] /\ Drained(c)
         /\ client[c].state = "SendingReady"
  OBVIOUS
<1> HIDE DEF flushed
<1>2. /\ NamesKept /\ client'[c] = r /\ \A d \in Conns \ {c} : client'[d] = client[d]
  BY UpdateEffect
<1>4. /\ r.pending_output = flushed.pending_output /\ SameTransfer(r, client[c])
      /\ r.transferred_bytes = client[c].transferred_bytes
      /\ r.file_buffer = client[c].file_buffer
      /\ \/ r.state = client[c].state
         \/ /\ r.state = "ReceivingFile" /\ r.pending_output = <<>>
            /\ client[c].state = "SendingReady"
  BY <1>1, <1>3 DEF IsClient, NewClient, SameTransfer
<1>5. Flushes(c)
  BY <1>1, <1>2, <1>4 DEF Flushes, Turns
<1> QED
  BY <1>2, <1>5

LEMMA ReplyDone ==
  ASSUME IInv, NEW c \in Conns, Conversation(c), socket[c] = "open", WriteReply(c),
         UNCHANGED <<content, consumed>>
  PROVE  /\ \A d \in Conns \ {c} : /\ client'[d] = client[d] /\ socket'[d] = socket[d]
                                   /\ sent'[d] = sent[d]
         /\ NamesKept /\ (Flushes(c) \/ Ends(c))
<1>1. /\ client[c].state \in {"SendingResult", "SendingError"} /\ SendPending(c)
      /\ \/ Drained(c) /\ Fail(c)
         \/ Update(c, AfterFlush(c)) /\ UNCHANGED socket
  BY DEF WriteReply
<1>2. InReply(c)
  BY <1>1 DEF Conversation, Requesting, InUpload, InDownload, Uploading
<1>3. /\ Speaks(c) /\ \A d \in Conns \ {c} : sent'[d] = sent[d]
      /\ Drained(c) => sent'[c] = sent[c] \o client[c].pending_output
  BY <1>1, FlushDone
<1>4. CASE Drained(c) /\ Fail(c)
  <2>1. /\ NamesKept /\ client'[c] = NewClient /\ socket'[c] = "closed"
        /\ \A d \in Conns \ {c} : client'[d] = client[d] /\ socket'[d] = socket[d]
    BY <1>4, FailDone
  <2>2. client[c].file_buffer = <<>>
    BY <1>1, ClientFields
  <2>3. Ends(c)
    BY <1>2, <1>3, <1>4, <2>1, <2>2 DEF Ends, InReply
  <2> QED
    BY <1>3, <2>1, <2>3
<1>5. CASE Update(c, AfterFlush(c)) /\ UNCHANGED socket
  BY <1>1, <1>3, <1>5, FlushEffect
<1> QED
  BY <1>1, <1>4, <1>5

LEMMA ReadyDone ==
  ASSUME IInv, NEW c \in Conns, Conversation(c), socket[c] = "open", WriteReady(c),
         UNCHANGED <<content, consumed>>
  PROVE  /\ \A d \in Conns \ {c} : /\ client'[d] = client[d] /\ socket'[d] = socket[d]
                                   /\ sent'[d] = sent[d]
         /\ CompletesUpload(c) \/ (NamesKept /\ (Flushes(c) \/ FailsUpload(c)))
<1> DEFINE flushed == AfterFlush(c)
<1>1. /\ client[c].state = "SendingReady" /\ SendPending(c) /\ UNCHANGED socket
      /\ \/ Update(c, flushed)
         \/ Drained(c) /\ client[c].expected_bytes = 0 /\ CompleteUpload(c, flushed)
         \/ Drained(c) /\ Update(c, [flushed EXCEPT !.state = "ReceivingFile"])
  BY DEF WriteReady
<1>2. InUpload(c)
  BY <1>1 DEF Conversation, Requesting, InDownload, InReply
<1>3. /\ Speaks(c) /\ \A d \in Conns \ {c} : sent'[d] = sent[d]
      /\ Drained(c) => sent'[c] = sent[c] \o client[c].pending_output
      /\ IsClient(flushed) /\ SameTransfer(flushed, client[c])
      /\ flushed.file_buffer = client[c].file_buffer
      /\ flushed.temporary_path = client[c].temporary_path
  BY <1>1, FlushDone
<1>4. CASE Update(c, flushed) \/ (Drained(c) /\ Update(c, [flushed EXCEPT !.state = "ReceivingFile"]))
  <2>1. PICK r : /\ Update(c, r)
                 /\ \/ r = flushed
                    \/ r = [flushed EXCEPT !.state = "ReceivingFile"] /\ Drained(c)
    BY <1>4
  <2>2. /\ NamesKept /\ \A d \in Conns \ {c} : client'[d] = client[d]
        /\ Flushes(c)
    BY <1>1, <2>1, FlushEffect
  <2> QED
    BY <1>1, <1>3, <2>2
<1>5. CASE Drained(c) /\ client[c].expected_bytes = 0 /\ CompleteUpload(c, flushed)
  <2>1. sent'[c] = Line(ReadyHead)
    BY <1>2, <1>3, <1>5 DEF InUpload
  <2>2. content'[client[c].output_file] = Bytes(c, client[c].expected_bytes)
    <3>1. client[c].transferred_bytes = 0
      BY <1>1, <1>2 DEF InUpload
    <3> QED
      BY <1>2, <1>5, <3>1 DEF InUpload
  <2>3. /\ flushed.file_buffer = <<>> /\ flushed.input_file = None
        /\ flushed.final_path = client[c].final_path
        /\ flushed.expected_bytes = client[c].expected_bytes
    BY <1>1, <1>2, <1>3, ClientFields DEF SameTransfer, InUpload
  <2> HIDE DEF flushed
  <2>4. /\ \A d \in Conns \ {c} : client'[d] = client[d]
        /\ CompletesUpload(c) \/ (NamesKept /\ FailsUpload(c))
    BY <1>1, <1>2, <1>3, <1>5, <2>1, <2>2, <2>3, CompleteDone
  <2> QED
    BY <1>1, <1>3, <2>4
<1> QED
  BY <1>1, <1>4, <1>5

\* The beginning of a part of a sequence is a part of it.
LEMMA PartOfPart ==
  ASSUME NEW s, IsSequence(s), NEW m \in Nat, NEW n \in Nat, NEW k \in Nat,
         m + k <= n, n <= Len(s)
  PROVE  SubSeq(SubSeq(s, m + 1, n), 1, k) = SubSeq(s, m + 1, m + k)
<1> DEFINE a == SubSeq(s, m + 1, m + k)
           b == SubSeq(s, (m + k) + 1, n)
<1>1. s \in Seq(ToSet(s)) /\ Len(s) \in Nat
  BY DEF IsSequence
<1>2. m + 1 \in 1..(Len(s) + 1) /\ m + k \in ((m + 1) - 1)..Len(s) /\ n \in (m + k)..Len(s)
  BY <1>1
<1>3. a \o b = SubSeq(s, m + 1, n)
  BY <1>1, <1>2, ConcatAdjacentSubSeq
<1>4. IsSequence(a) /\ IsSequence(b) /\ Len(a) = k
  <2>1. m + k \in Nat /\ m <= m + k /\ m + k <= Len(s) /\ m + k <= n /\ (m + k) - m = k
    BY <1>1
  <2> QED
    BY <2>1, SequencePart
<1> HIDE DEF a, b
<1>5. IsPrefix(a, a \o b)
  BY <1>4, PrefixOfConcat
<1>6. SubSeq(a, 1, k) = SubSeq(a \o b, 1, k)
  BY <1>4, <1>5 DEF IsPrefix
<1>7. SubSeq(a, 1, k) = a
  BY <1>4, SequenceWhole
<1> QED
  BY <1>3, <1>6, <1>7 DEF a

\* While the input file is open it has all the bytes that were announced.
LEMMA UnreadIs ==
  ASSUME IInv, NEW c \in Conns, InDownload(c), NEW wanted,
         wanted = Least(client[c].expected_bytes - client[c].transferred_bytes, BufferSize)
  PROVE  LET t    == client[c].transferred_bytes
             file == client[c].input_file
         IN  /\ wanted \in Nat /\ t + wanted <= client[c].expected_bytes
             /\ wanted = 0 => t = client[c].expected_bytes
             /\ file = None => Unread(client[c]) = <<>>
             /\ file # None =>
                  /\ Unread(client[c]) = SubSeq(content[file], t + 1, t + wanted)
                  /\ Len(Unread(client[c])) = wanted
                  /\ IsSequence(content[file]) /\ t + wanted <= Len(content[file])
<1> DEFINE t    == client[c].transferred_bytes
           size == client[c].expected_bytes
           file == client[c].input_file
           v    == content[file]
<1>1. t \in Nat /\ size \in Nat /\ t <= size /\ BufferSize \in Nat /\ BufferSize # 0
  BY ClientFields, ServerConstants
<1>2. Unread(client[c]) = IF file = None THEN <<>>
                          ELSE SubSeq(v, t + 1, Least(t + wanted, Len(v)))
  BY DEF Unread
<1>3. file # None => IsSequence(v) /\ Len(v) = size
  <2>1. file # None => Len(v) = size
    BY DEF InDownload
  <2>2. file \in Files \cup {None}
    BY DEF IInv, TypeOK, IsClient
  <2> QED
    BY <2>1, <2>2 DEF IInv, Buffers
<1>4. wanted = Least(size - t, BufferSize)
  OBVIOUS
<1> HIDE DEF t, size, v, file
<1>5. wanted \in Nat /\ t + wanted <= size /\ (wanted = 0 => t = size)
  BY <1>1, <1>4 DEF Least
<1>6. ASSUME file # None
      PROVE  /\ Unread(client[c]) = SubSeq(v, t + 1, t + wanted)
             /\ Len(Unread(client[c])) = wanted
  <2>1. Least(t + wanted, Len(v)) = t + wanted
    BY <1>1, <1>3, <1>5, <1>6 DEF Least
  <2>2. Unread(client[c]) = SubSeq(v, t + 1, t + wanted)
    BY <1>2, <1>6, <2>1
  <2>3. t + wanted \in Nat /\ t <= t + wanted /\ t + wanted <= Len(v) /\ (t + wanted) - t = wanted
    BY <1>1, <1>3, <1>5, <1>6
  <2>4. Len(SubSeq(v, t + 1, t + wanted)) = wanted
    BY <1>1, <1>3, <1>6, <2>3, SequencePart
  <2> QED
    BY <2>2, <2>4
<1> QED
  BY <1>2, <1>3, <1>5, <1>6 DEF t, size, v, file

\* The struct after n bytes of the input file have been read into it.
Refills(c, cl, n) ==
  LET old == client[c]
      t   == old.transferred_bytes
  IN  /\ cl.transferred_bytes = t /\ cl.expected_bytes = old.expected_bytes
      /\ cl.pending_output = old.pending_output /\ cl.state = old.state
      /\ \/ cl.input_file = old.input_file
         \/ cl.input_file = None /\ "read" \in Faults
      /\ IsSequence(cl.file_buffer)
      /\ \/ /\ n = 0 /\ cl.file_buffer = old.file_buffer
            /\ cl.file_buffer = <<>> => "read" \in Faults \/ t = old.expected_bytes
         \/ /\ n > 0 /\ old.file_buffer = <<>> /\ old.input_file # None
            /\ Len(cl.file_buffer) = n /\ t + n <= old.expected_bytes
            /\ cl.file_buffer = SubSeq(content[old.input_file], t + 1, t + n)

LEMMA RefilledIs ==
  ASSUME IInv, NEW c \in Conns, InDownload(c), client[c].state = "SendingFile",
         NEW cl \in Refilled(client[c])
  PROVE  \E n \in Nat : Refills(c, cl, n)
<1> DEFINE t      == client[c].transferred_bytes
           file   == client[c].input_file
           wanted == Least(client[c].expected_bytes - t, BufferSize)
           unread == Unread(client[c])
<1>1. /\ IsClient(client[c]) /\ IsSequence(client[c].file_buffer) /\ t \in Nat
      /\ "read" \notin Faults => file # None
  BY ClientFields DEF IInv, TypeOK, InDownload
<1>2. /\ wanted \in Nat /\ t + wanted <= client[c].expected_bytes
      /\ wanted = 0 => t = client[c].expected_bytes
      /\ file = None => unread = <<>>
      /\ file # None => /\ unread = SubSeq(content[file], t + 1, t + wanted)
                        /\ Len(unread) = wanted
                        /\ IsSequence(content[file]) /\ t + wanted <= Len(content[file])
  BY UnreadIs
<1>3. Len(unread) \in Nat /\ IsSequence(unread)
  BY UnreadWell
<1>4. CASE client[c].file_buffer # <<>>
  <2>1. cl = client[c]
    BY <1>4 DEF Refilled
  <2>2. Refills(c, cl, 0)
    BY <1>1, <1>4, <2>1 DEF Refills
  <2> QED
    BY <2>2
<1>5. CASE client[c].file_buffer = <<>>
  <2>1. PICK n \in 0..Len(unread) : /\ cl = ReadInto(client[c], SubSeq(unread, 1, n))
                                    /\ "read" \notin Faults => n = Len(unread)
    BY <1>3, <1>5 DEF Refilled
  <2> DEFINE data == SubSeq(unread, 1, n)
  <2>2. /\ n \in Nat /\ n <= Len(unread) /\ IsSequence(data) /\ Len(data) = n
        /\ n = 0 => data = <<>>
    <3>1. n \in Nat /\ n <= Len(unread)
      BY <1>3, <2>1
    <3>2. IsSequence(data) /\ Len(data) = n
      BY <1>3, <3>1, SequenceHalves
    <3>3. n = 0 => data = <<>>
      BY <1>3, SequenceWhole
    <3> QED
      BY <3>1, <3>2, <3>3
  <2> HIDE DEF data
  <2>3. /\ cl.transferred_bytes = t /\ cl.expected_bytes = client[c].expected_bytes
        /\ cl.pending_output = client[c].pending_output /\ cl.state = client[c].state
        /\ cl.file_buffer = data
        /\ cl.input_file = IF Len(data) = wanted THEN file ELSE None
    <3>1. cl = ReadInto(client[c], data)
      BY <2>1 DEF data
    <3> QED
      BY <1>1, <3>1 DEF ReadInto, IsClient, NewClient
  <2> HIDE DEF wanted, unread, t, file
  <2>7. "read" \notin Faults => n = wanted
    <3>1. "read" \notin Faults => n = Len(unread)
      BY <2>1, Zenon
    <3>2. file # None => Len(unread) = wanted
      BY <1>2, Zenon
    <3> QED
      BY <1>1, <3>1, <3>2
  <2>4. cl.input_file = file \/ (cl.input_file = None /\ "read" \in Faults)
    BY <2>2, <2>3, <2>7
  <2>5. CASE n = 0
    <3>1. "read" \in Faults \/ t = client[c].expected_bytes
      BY <1>2, <2>5, <2>7
    <3>2. cl.file_buffer = <<>> /\ IsSequence(<<>>)
      BY <2>2, <2>3, <2>5, SequenceLines
    <3>3. Refills(c, cl, 0)
      BY <1>5, <2>3, <2>4, <3>1, <3>2 DEF Refills, t, file
    <3> QED
      BY <3>3
  <2>6. CASE n # 0
    <3>1. file # None
      BY <1>2, <2>2, <2>6, SequenceLines
    <3>2. n <= wanted /\ t + n <= t + wanted /\ n > 0 /\ t + n <= client[c].expected_bytes
          /\ t + wanted \in Nat
      <4>1. client[c].expected_bytes \in Nat
        BY <1>1 DEF IsClient
      <4> QED
        BY <1>1, <1>2, <2>2, <2>6, <3>1, <4>1
    <3>3. data = SubSeq(SubSeq(content[file], t + 1, t + wanted), 1, n)
      BY <1>2, <3>1 DEF data
    <3>4. SubSeq(SubSeq(content[file], t + 1, t + wanted), 1, n) = SubSeq(content[file], t + 1, t + n)
      <4> DEFINE bytes == content[file]
                 last  == t + wanted
      <4>1. /\ IsSequence(bytes) /\ t \in Nat /\ last \in Nat /\ n \in Nat
            /\ t + n <= last /\ last <= Len(bytes)
        BY <1>1, <1>2, <2>2, <3>1, <3>2
      <4> HIDE DEF bytes, last
      <4>2. SubSeq(SubSeq(bytes, t + 1, last), 1, n) = SubSeq(bytes, t + 1, t + n)
        BY <4>1, PartOfPart
      <4> QED
        BY <4>2 DEF bytes, last
    <3>5. data = SubSeq(content[file], t + 1, t + n)
      BY <3>3, <3>4
    <3>6. Refills(c, cl, n)
      <4>1. IsSequence(cl.file_buffer) /\ Len(cl.file_buffer) = n
        BY <2>2, <2>3
      <4>2. cl.file_buffer = SubSeq(content[file], t + 1, t + n)
        BY <2>3, <3>5
      <4> QED
        BY <1>5, <2>3, <2>4, <3>1, <3>2, <4>1, <4>2, Zenon DEF Refills, t, file
    <3> QED
      BY <2>2, <3>6
  <2> QED
    BY <2>5, <2>6
<1> QED
  BY <1>4, <1>5

\* A download ends inside its data only where a read of the file has failed.
LEMMA FileDone ==
  ASSUME IInv, NEW c \in Conns, Conversation(c), socket[c] = "open", WriteFile(c),
         UNCHANGED <<content, consumed>>
  PROVE  /\ \A d \in Conns \ {c} : /\ client'[d] = client[d] /\ socket'[d] = socket[d]
                                   /\ sent'[d] = sent[d]
         /\ NamesKept
         /\ \/ SendsFile(c)
            \/ Leaves(c) /\ ("read" \in Faults \/ sent'[c] \in Replies(c))
<1> DEFINE old  == client[c]
           from == old.transferred_bytes + Len(old.file_buffer)
<1>1. old.state = "SendingFile" /\ InDownload(c)
  BY DEF WriteFile, Conversation, Requesting, InUpload, InReply, Uploading
<1>2. PICK cl \in Refilled(old) :
        LET n == Least(SendSpace(c), Len(cl.file_buffer)) IN
        IF cl.file_buffer = <<>>
        THEN Fail(c) /\ UNCHANGED sent
        ELSE /\ sent' = [sent EXCEPT ![c] = @ \o SubSeq(cl.file_buffer, 1, n)]
             /\ Update(c, [cl EXCEPT !.file_buffer = SubSeq(@, n + 1, Len(@)),
                                     !.transferred_bytes = @ + n,
                                     !.idle = IF n > 0 THEN 0 ELSE @])
             /\ UNCHANGED socket
  BY DEF WriteFile, note_activity
<1>3. IsClient(cl) /\ WellBuffered(cl)
  BY <1>1, RefilledWell
<1>4. PICK k \in Nat : Refills(c, cl, k)
  BY <1>1, RefilledIs
<1>5. /\ IsSequence(sent[c]) /\ IsSequence(old.pending_output) /\ IsSequence(old.file_buffer)
      /\ old.transferred_bytes \in Nat /\ Len(old.file_buffer) \in Nat
      /\ old.pending_output = <<>>
  BY <1>1, ClientFields DEF InDownload
<1>6. CASE cl.file_buffer = <<>>
  <2>1. Fail(c) /\ UNCHANGED sent
    BY <1>2, <1>6
  <2>2. /\ NamesKept /\ client'[c] = NewClient /\ socket'[c] = "closed"
        /\ \A d \in Conns \ {c} : client'[d] = client[d] /\ socket'[d] = socket[d]
    BY <2>1, FailDone
  <2>3. Leaves(c)
    BY <2>1, <2>2 DEF Leaves
  <2>4. /\ old.file_buffer = <<>>
        /\ "read" \in Faults \/ old.transferred_bytes = old.expected_bytes
    <3>1. k = 0
      BY <1>4, <1>6, SequenceLines DEF Refills
    <3> QED
      BY <1>4, <1>6, <3>1 DEF Refills
  <2>5. ASSUME old.transferred_bytes = old.expected_bytes
        PROVE  sent'[c] \in Replies(c)
    <3> DEFINE t == old.transferred_bytes + Len(old.file_buffer)
    <3>1. PICK v \in Versions(Asked(c).filename) :
            /\ old.expected_bytes = Len(v)
            /\ (sent[c] \o old.pending_output) \o old.file_buffer =
                 Line(OkHead(Len(v))) \o SubSeq(v, 1, t)
      BY <1>1 DEF InDownload
    <3>2. t = Len(v)
      BY <1>5, <2>4, <2>5, <3>1, SequenceLines
    <3>3. SubSeq(v, 1, t) = v
      BY <3>2, VersionsAreSequences, SequenceWhole
    <3>4. (sent[c] \o old.pending_output) \o old.file_buffer = sent[c]
      BY <1>5, <2>4, ConcatNothing
    <3>5. sent[c] = Line(OkHead(Len(v))) \o v
      BY <3>1, <3>3, <3>4
    <3> QED
      BY <1>1, <2>1, <3>5, RepliesAre DEF InDownload
  <2> QED
    BY <2>1, <2>2, <2>3, <2>4, <2>5
<1>7. CASE cl.file_buffer # <<>>
  <2> DEFINE buffer == cl.file_buffer
             n      == Least(SendSpace(c), Len(buffer))
             r      == [cl EXCEPT !.file_buffer = SubSeq(@, n + 1, Len(@)),
                                  !.transferred_bytes = @ + n,
                                  !.idle = IF n > 0 THEN 0 ELSE @]
             rest   == SubSeq(buffer, n + 1, Len(buffer))
  <2>1. /\ sent' = [sent EXCEPT ![c] = @ \o SubSeq(buffer, 1, n)]
        /\ Update(c, r) /\ UNCHANGED socket
    BY <1>2, <1>7
  <2>2. sent'[c] = sent[c] \o SubSeq(buffer, 1, n) /\ \A d \in Conns \ {c} : sent'[d] = sent[d]
    BY <2>1 DEF IInv, TypeOK, TransportTypeOK
  <2>3. Sends(c, buffer, n)
    BY <1>3, <2>2 DEF Sends, WellBuffered
  <2>4. /\ r.state = cl.state /\ r.input_file = cl.input_file
        /\ r.pending_output = cl.pending_output /\ r.expected_bytes = cl.expected_bytes
        /\ r.file_buffer = rest /\ r.transferred_bytes = cl.transferred_bytes + n
    BY <1>3 DEF IsClient, NewClient
  <2> HIDE DEF n, r
  <2>5. NamesKept /\ client'[c] = r /\ \A d \in Conns \ {c} : client'[d] = client[d]
    BY <2>1, UpdateEffect
  <2>6. /\ Speaks(c) /\ n \in Nat /\ n <= Len(buffer) /\ Len(buffer) \in Nat
        /\ sent'[c] \o rest = sent[c] \o buffer
        /\ Len(rest) = Len(buffer) - n
    <3> HIDE DEF buffer
    <3>1. /\ Speaks(c) /\ n \in Nat /\ n <= Len(buffer) /\ Len(buffer) \in Nat
          /\ sent'[c] \o SubSeq(buffer, n + 1, Len(buffer)) = sent[c] \o buffer
          /\ Len(SubSeq(buffer, n + 1, Len(buffer))) = Len(buffer) - n
      BY <2>3, BufferSent
    <3> QED
      BY <3>1
  <2> DEFINE to == r.transferred_bytes + Len(r.file_buffer)
  <2>7. to = old.transferred_bytes + Len(buffer) /\ to \in Nat
    <3>1. cl.transferred_bytes = old.transferred_bytes
      BY <1>4 DEF Refills
    <3> HIDE DEF rest, buffer
    <3> QED
      BY <1>5, <2>4, <2>6, <3>1
  <2> HIDE DEF rest, to, from
  <2>8. /\ from <= to /\ (old.input_file = None => from = to)
        /\ sent'[c] \o rest =
             IF from = to THEN sent[c] \o old.file_buffer
             ELSE (sent[c] \o old.file_buffer) \o SubSeq(content[old.input_file], from + 1, to)
    <3>1. CASE k = 0 /\ buffer = old.file_buffer
      <4>1. from = to /\ from \in Nat
        BY <1>5, <2>7, <3>1 DEF from
      <4> QED
        BY <2>6, <3>1, <4>1
    <3>2. CASE /\ k > 0 /\ old.file_buffer = <<>> /\ old.input_file # None
               /\ Len(buffer) = k
               /\ buffer = SubSeq(content[old.input_file], old.transferred_bytes + 1,
                                  old.transferred_bytes + k)
      <4>5. Len(old.file_buffer) = 0 /\ k \in Nat /\ k > 0 /\ Len(buffer) = k
        BY <1>4, <3>2, SequenceLines
      <4>1. from = old.transferred_bytes /\ to = from + k /\ from \in Nat
        BY <1>5, <2>7, <4>5 DEF from
      <4>2. from <= to /\ from # to
        BY <4>1, <4>5
      <4>3. buffer = SubSeq(content[old.input_file], from + 1, to)
        BY <3>2, <4>1
      <4>4. sent[c] \o old.file_buffer = sent[c]
        BY <1>5, <3>2, ConcatNothing
      <4>6. sent'[c] \o rest = (sent[c] \o old.file_buffer) \o SubSeq(content[old.input_file], from + 1, to)
        BY <2>6, <4>3, <4>4
      <4> QED
        BY <3>2, <4>2, <4>6
    <3> QED
      BY <1>4, <3>1, <3>2 DEF Refills
  <2>9. SendsFile(c)
    <3>1. /\ cl.state = old.state /\ cl.expected_bytes = old.expected_bytes
          /\ cl.pending_output = old.pending_output
          /\ cl.input_file = old.input_file \/ (cl.input_file = None /\ "read" \in Faults)
      BY <1>4 DEF Refills
    <3> QED
      BY <1>1, <2>1, <2>4, <2>5, <2>6, <2>8, <3>1 DEF SendsFile, Turns, from, to
  <2> QED
    BY <2>1, <2>2, <2>5, <2>9
<1> QED
  BY <1>6, <1>7

-----------------------------------------------------------------------------
(***************************************************************************)
(* What every step does for every connection.                              *)
(***************************************************************************)
\* Nothing else happens than what happens for c.
Only(c) ==
  /\ plan' = plan
  /\ \A d \in Conns \ {c} : /\ client'[d] = client[d] /\ socket'[d] = socket[d]
                            /\ sent'[d] = sent[d] /\ consumed'[d] = consumed[d]

Serves(c) == CompletesUpload(c) \/ (NamesKept /\ Effect(c))

LEMMA FailEffect ==
  ASSUME IInv, NEW c \in Conns, AtClient(c), Fail(c), UNCHANGED <<plan, sent, consumed>>
  PROVE  Only(c) /\ NamesKept /\ Leaves(c)
<1>1. socket[c] = "open"
  BY CurrentIsLive DEF IInv
<1>2. /\ NamesKept /\ client'[c] = NewClient /\ socket'[c] = "closed"
      /\ \A d \in Conns \ {c} : client'[d] = client[d] /\ socket'[d] = socket[d]
  BY FailDone
<1> QED
  BY <1>1, <1>2 DEF Only, Leaves

LEMMA ReadEventDone ==
  ASSUME IInv, NEW c \in Conns, Conversation(c), ReadEvent(c)
  PROVE  Only(c) /\ Serves(c)
<1>1. AtClient(c) /\ UNCHANGED <<plan, sent>>
  BY DEF ReadEvent, AtClient, InRound
<1>2. socket[c] = "open"
  BY <1>1, CurrentIsLive DEF IInv
<1>3. CASE ReceiveEnds(c)
  <2>1. Fail(c) /\ UNCHANGED consumed
    BY <1>3 DEF ReceiveEnds
  <2> QED
    BY <1>1, <2>1, FailEffect DEF Serves, Effect
<1>4. CASE ReceiveData(c)
  <2>1. /\ consumed' = [consumed EXCEPT ![c] = @ + Received(c)] /\ UNCHANGED socket
        /\ handle_request_readable(c) \/ handle_upload_readable(c)
    BY <1>4 DEF ReceiveData
  <2>2. \A d \in Conns \ {c} : consumed'[d] = consumed[d]
    BY <2>1 DEF IInv, TypeOK, TransportTypeOK
  <2>3. CASE handle_request_readable(c)
    <3>1. Requesting(c)
      BY <1>2, <2>3 DEF Conversation, handle_request_readable, InUpload, InDownload, InReply, Uploading
    <3>2. /\ NamesKept /\ \A d \in Conns \ {c} : client'[d] = client[d]
          /\ Waits(c) \/ Refuses(c) \/ BeginsDownload(c) \/ BeginsUpload(c)
      BY <1>1, <1>2, <2>1, <2>3, <3>1, RequestDone
    <3> QED
      BY <1>1, <2>1, <2>2, <3>2 DEF Only, Serves, Effect
  <2>4. CASE handle_upload_readable(c)
    <3>1. InUpload(c)
      BY <1>2, <2>4 DEF Conversation, handle_upload_readable, Requesting, InDownload, InReply
    <3>2. /\ \A d \in Conns \ {c} : client'[d] = client[d]
          /\ CompletesUpload(c) \/ (NamesKept /\ (ReceivesPart(c) \/ FailsUpload(c)))
      BY <1>1, <1>2, <2>1, <2>4, <3>1, UploadDone
    <3> QED
      BY <1>1, <2>1, <2>2, <3>2 DEF Only, Serves, Effect
  <2> QED
    BY <2>1, <2>3, <2>4
<1> QED
  BY <1>3, <1>4 DEF ReadEvent

\* Only a failed read lets the write half leave a peer before its reply is complete.
LEMMA WriteEventDone ==
  ASSUME IInv, NEW c \in Conns, Conversation(c), WriteEvent(c)
  PROVE  /\ Only(c) /\ Serves(c)
         /\ socket'[c] = "closed" => \/ peer[c] = "reset" \/ "read" \in Faults
                                     \/ sent'[c] \in Replies(c)
<1>1. AtClient(c) /\ UNCHANGED <<plan, content, consumed>>
  BY DEF WriteEvent, AtClient, AtWrite, InRound
<1>2. socket[c] = "open"
  BY <1>1, CurrentIsLive DEF IInv
<1>3. CASE peer[c] = "reset" /\ Fail(c) /\ UNCHANGED sent
  BY <1>1, <1>3, FailEffect DEF Serves, Effect
<1>4. CASE WriteGetHeader(c) \/ WriteReply(c)
  <2>1. /\ \A d \in Conns \ {c} : client'[d] = client[d] /\ socket'[d] = socket[d] /\ sent'[d] = sent[d]
        /\ NamesKept /\ (Flushes(c) \/ Ends(c))
    BY <1>1, <1>2, <1>4, HeaderDone, ReplyDone
  <2>2. socket'[c] = "closed" => sent'[c] \in Replies(c)
    BY <2>1 DEF Flushes, Ends, Turns
  <2> QED
    BY <1>1, <2>1, <2>2 DEF Only, Serves, Effect
<1>5. CASE WriteReady(c)
  <2>1. /\ \A d \in Conns \ {c} : client'[d] = client[d] /\ socket'[d] = socket[d] /\ sent'[d] = sent[d]
        /\ CompletesUpload(c) \/ (NamesKept /\ (Flushes(c) \/ FailsUpload(c)))
    BY <1>1, <1>2, <1>5, ReadyDone
  <2>2. socket'[c] = "open"
    BY <1>2, <1>5 DEF WriteReady
  <2> QED
    BY <1>1, <2>1, <2>2 DEF Only, Serves, Effect
<1>6. CASE WriteFile(c)
  <2>1. /\ \A d \in Conns \ {c} : client'[d] = client[d] /\ socket'[d] = socket[d] /\ sent'[d] = sent[d]
        /\ NamesKept
        /\ \/ SendsFile(c)
           \/ Leaves(c) /\ ("read" \in Faults \/ sent'[c] \in Replies(c))
    BY <1>1, <1>2, <1>6, FileDone
  <2>2. SendsFile(c) => socket'[c] = "open"
    BY DEF SendsFile, Turns
  <2> QED
    BY <1>1, <2>1, <2>2 DEF Only, Serves, Effect
<1> QED
  BY <1>3, <1>4, <1>5, <1>6 DEF WriteEvent

\* Whose file a step of the read half may write: no other upload has it.
LEMMA OutputsApart ==
  ASSUME IInv, NEW c \in Conns, NEW d \in Conns \ {c}, Uploading(d), Live(c)
  PROVE  /\ client[d].output_file \in Files
         /\ Uploading(c) => client[d].output_file # client[c].output_file
         /\ client[c].state = "AwaitingRequest" =>
              \A path \in TempNames : path[1] = client[c].fd =>
                client[d].output_file # (IF path \in DOMAIN entry THEN entry[path] ELSE c)
<1> DEFINE t == client[d].temporary_path
<1>1. /\ t \in DOMAIN entry /\ entry[t] = client[d].output_file /\ t[1] = client[d].fd
      /\ client[d].output_file # None
  BY DEF IInv, Ownership
<1>2. client[d].output_file \in Files
  BY <1>1 DEF IInv, TypeOK
<1>3. client[d].fd # client[c].fd
  BY DEF IInv, Connections, ConnectionsAccounted, Live
<1>4. Uploading(c) => /\ client[c].temporary_path \in DOMAIN entry
                      /\ entry[client[c].temporary_path] = client[c].output_file
                      /\ client[c].temporary_path[1] = client[c].fd
  BY DEF IInv, Ownership
<1>5. \A m, n \in DOMAIN entry : entry[m] = entry[n] => m = n
  BY DEF IInv, Ownership
<1>6. client[c].state = "AwaitingRequest" => \A n \in DOMAIN entry : entry[n] # c
  BY DEF IInv, Ownership, Fresh
<1> HIDE DEF t
<1>7. ASSUME Uploading(c)
      PROVE  client[d].output_file # client[c].output_file
  BY <1>1, <1>3, <1>4, <1>5, <1>7
<1>8. ASSUME client[c].state = "AwaitingRequest", NEW path \in TempNames, path[1] = client[c].fd
      PROVE  client[d].output_file # (IF path \in DOMAIN entry THEN entry[path] ELSE c)
  BY <1>1, <1>3, <1>5, <1>6, <1>8
<1> QED
  BY <1>2, <1>7, <1>8

LEMMA OutputsKept ==
  ASSUME IInv, NEW c \in Conns, ReadEvent(c), NEW d \in Conns \ {c},
         client[d].output_file # None
  PROVE  content'[client[d].output_file] = content[client[d].output_file]
<1>1. AtClient(c) /\ Live(c) /\ Uploading(d)
  <2>1. AtClient(c)
    BY DEF ReadEvent, AtClient, InRound
  <2> QED
    BY <2>1, CurrentIsLive DEF IInv, Ownership
<1>2. DOMAIN content = Files /\ client[d].output_file \in Files
  BY <1>1, OutputsApart DEF IInv, TypeOK
<1>3. CASE UNCHANGED content
  BY <1>3
<1>4. CASE handle_upload_readable(c)
  <2>1. Uploading(c) /\ (UNCHANGED content \/ \E s : content' = [content EXCEPT ![client[c].output_file] = s])
    BY <1>4 DEF handle_upload_readable, Uploading
  <2>2. client[d].output_file # client[c].output_file
    BY <1>1, <2>1, OutputsApart
  <2> QED
    BY <1>2, <2>1, <2>2
<1>5. CASE handle_request_readable(c) /\ ~UNCHANGED content
  <2>1. PICK r, name, size :
          client[c].state = "AwaitingRequest" /\ r.fd = client[c].fd /\ StartPut(c, r, name, size)
    <3> DEFINE buffer  == client[c].request_buffer \o Chunk(c)
               request == RequestIn(buffer)
               got     == [client[c] EXCEPT !.request_buffer = buffer, !.idle = 0]
               start   == [got EXCEPT !.request_buffer = <<>>]
    <3>1. IsClient(client[c])
      BY DEF IInv, TypeOK
    <3>2. start.fd = client[c].fd
      BY <3>1 DEF IsClient, NewClient
    <3>3. client[c].state = "AwaitingRequest" /\ StartPut(c, start, request.filename, request.size)
      BY <1>5 DEF handle_request_readable, StartGet, note_activity
    <3> HIDE DEF start, request
    <3> QED
      BY <3>2, <3>3
  <2> DEFINE path == TempPath(r.fd, g_upload_sequence + 1)
             file == IF path \in DOMAIN entry THEN entry[path] ELSE c
  <2>2. path \in TempNames /\ path[1] = client[c].fd
    BY <1>1, <2>1 DEF TempPath, TempNames, IInv, TypeOK, IsClient, Live
  <2>3. content' = [content EXCEPT ![file] = <<>>]
    BY <1>5, <2>1 DEF StartPut
  <2> HIDE DEF path
  <2>4. client[d].output_file # file
    BY <1>1, <2>1, <2>2, OutputsApart
  <2> QED
    BY <1>2, <2>3, <2>4
<1> QED
  BY <1>3, <1>4, <1>5 DEF ReadEvent, ReceiveEnds, ReceiveData

LEMMA OthersKept ==
  ASSUME IInv, [Next]_vars, NEW c \in Conns, ReadEvent(c) \/ UNCHANGED content, Only(c),
         NEW d \in Conns \ {c}
  PROVE  Kept(d)
<1>1. /\ client'[d] = client[d] /\ socket'[d] = socket[d]
      /\ sent'[d] = sent[d] /\ consumed'[d] = consumed[d]
  BY DEF Only
<1>2. client[d].input_file # None => content'[client[d].input_file] = content[client[d].input_file]
  <2>1. client[d].input_file \in Files \cup {None}
    BY DEF IInv, TypeOK, IsClient
  <2> QED
    BY <2>1, NextKeepsFrozen DEF Frozen
<1>3. client[d].output_file # None => content'[client[d].output_file] = content[client[d].output_file]
  BY OutputsKept
<1> QED
  BY <1>1, <1>2, <1>3 DEF Kept, SameTold, SameTransfer

\* Steps that only close connections, or do nothing a user could notice.
Together == plan' = plan /\ NamesKept /\ \A c \in Conns : Kept(c) \/ Leaves(c)

LEMMA NotLiveIsNew ==
  ASSUME IInv, NEW c \in Conns, socket[c] # "open"
  PROVE  client[c] = NewClient
BY DEF IInv, Connections, ConnectionsAccounted, ClosedKeepsNothing

LEMMA NothingNoticed ==
  ASSUME IInv, UNCHANGED <<entry, content, plan, consumed, sent>>,
         \A c \in Conns :
           /\ SameTold(client'[c], client[c])
           /\ \/ socket'[c] = socket[c]
              \/ socket[c] \in {"none", "queued"} /\ socket'[c] \in {"queued", "open"}
  PROVE  Together
BY DEF Together, NamesKept, Kept

LEMMA StartRoundDone ==
  ASSUME IInv, StartRound
  PROVE  Together
<1> DEFINE S == {c \in ToSet(clients) : Expired(c)}
<1>1. CloseClients(S) /\ UNCHANGED <<content, plan, consumed, sent>>
  BY DEF StartRound
<1>2. S \in SUBSET Conns /\ \A c \in S : socket[c] # "none"
  BY DEF IInv, TypeOK, Connections, ToSet
<1> HIDE DEF S
<1>3. /\ NamesKept
      /\ \A c \in S : client'[c] = NewClient /\ socket'[c] = "closed"
      /\ \A c \in Conns \ S : client'[c] = client[c] /\ socket'[c] = socket[c]
  BY <1>1, <1>2, ClosedNames
<1> QED
  BY <1>1, <1>2, <1>3 DEF Together, Kept, Leaves, SameTold, SameTransfer

LEMMA EndsDone ==
  ASSUME IInv, Shutdown \/ Kill
  PROVE  Together
<1>1. ProcessEnds
  BY DEF Shutdown, Kill
<1>2. NamesKept
  <2>1. CASE entry' = entry
    BY <2>1 DEF NamesKept
  <2>2. CASE Removed({client[c].temporary_path : c \in ToSet(clients)})
    <3> DEFINE S == ToSet(clients)
               P == {client[c].temporary_path : c \in S}
    <3>3. Removed(P)
      BY <2>2
    <3>4. S \subseteq Conns
      BY DEF ToSet, IInv, TypeOK
    <3> HIDE DEF S
    <3>1. \A c \in S : IsClient(client[c])
      BY <3>4, Zenon DEF IInv, TypeOK
    <3>2. P \cap Names = {}
      <4>1. \A c \in S : client[c].temporary_path \notin Names
        BY <3>1, TemporaryIsNoName
      <4> QED
        BY <4>1
    <3> HIDE DEF P
    <3> QED
      BY <3>2, <3>3, RemovedNames
  <2> QED
    BY <2>1, <2>2 DEF Shutdown, Kill
<1>3. UNCHANGED <<content, plan, consumed, sent>>
  BY <1>1 DEF ProcessEnds
<1>4. ASSUME NEW c \in Conns
      PROVE  Kept(c) \/ Leaves(c)
  <2>1. /\ client'[c] = NewClient
        /\ socket'[c] = IF socket[c] = "none" THEN "none" ELSE "closed"
    BY <1>1 DEF ProcessEnds
  <2>2. CASE socket[c] = "none"
    <3>1. client'[c] = client[c] /\ socket'[c] = socket[c]
      BY <2>1, <2>2, NotLiveIsNew
    <3> QED
      BY <1>3, <3>1 DEF Kept, SameTold, SameTransfer
  <2>3. CASE socket[c] # "none"
    BY <1>3, <2>1, <2>3 DEF Leaves
  <2> QED
    BY <2>2, <2>3
<1> QED
  BY <1>2, <1>3, <1>4 DEF Together

LEMMA AcceptDone ==
  ASSUME IInv, Accept
  PROVE  Together
<1> DEFINE c == Head(backlog)
<1>1. /\ backlog # <<>> /\ UNCHANGED <<entry, content, plan, consumed, sent>>
      /\ \/ socket' = [socket EXCEPT ![c] = "closed"] /\ UNCHANGED client
         \/ /\ socket' = [socket EXCEPT ![c] = "open"]
            /\ \E fd \in FreeFds : client' = [client EXCEPT ![c] = [NewClient EXCEPT !.fd = fd]]
  BY DEF Accept, storageVars
<1>2. c \in Conns /\ socket[c] = "queued"
  <2>1. 1 \in DOMAIN backlog /\ c = backlog[1]
    BY <1>1 DEF IInv, Connections
  <2> QED
    BY <2>1 DEF IInv, Connections
<1> HIDE DEF c
<1>3. client[c] = NewClient
  BY <1>2, NotLiveIsNew
<1>4. /\ \A d \in Conns \ {c} : client'[d] = client[d] /\ socket'[d] = socket[d]
      /\ \/ socket'[c] = "closed" /\ client'[c] = client[c]
         \/ socket'[c] = "open" /\ \E fd : client'[c] = [NewClient EXCEPT !.fd = fd]
  <2>1. DOMAIN client = Conns /\ DOMAIN socket = Conns
    BY DEF IInv, TypeOK, TransportTypeOK
  <2>2. CASE socket' = [socket EXCEPT ![c] = "closed"] /\ UNCHANGED client
    BY <1>2, <2>1, <2>2
  <2>3. CASE /\ socket' = [socket EXCEPT ![c] = "open"]
             /\ \E fd \in FreeFds : client' = [client EXCEPT ![c] = [NewClient EXCEPT !.fd = fd]]
    <3>1. PICK fd \in FreeFds : client' = [client EXCEPT ![c] = [NewClient EXCEPT !.fd = fd]]
      BY <2>3
    <3> DEFINE new == [NewClient EXCEPT !.fd = fd]
    <3>2. client' = [client EXCEPT ![c] = new]
      BY <3>1
    <3>3. \E g : new = [NewClient EXCEPT !.fd = g]
      OBVIOUS
    <3> HIDE DEF new
    <3>4. client'[c] = new /\ \A d \in Conns \ {c} : client'[d] = client[d]
      BY <1>2, <2>1, <3>2
    <3> QED
      BY <1>2, <2>1, <2>3, <3>3, <3>4
  <2> QED
    BY <1>1, <2>2, <2>3
<1>5. NamesKept
  BY <1>1 DEF NamesKept
<1>6. \A d \in Conns \ {c} : Kept(d)
  BY <1>1, <1>4 DEF Kept, SameTold, SameTransfer
<1>7. CASE socket'[c] = "closed" /\ client'[c] = client[c]
  BY <1>1, <1>2, <1>3, <1>5, <1>6, <1>7 DEF Together, Leaves
<1>8. CASE socket'[c] = "open" /\ \E fd : client'[c] = [NewClient EXCEPT !.fd = fd]
  <2>1. SameTold(client'[c], client[c])
    BY <1>3, <1>8 DEF SameTold, SameTransfer, NewClient
  <2>2. Kept(c)
    BY <1>1, <1>2, <1>8, <2>1 DEF Kept
  <2> QED
    BY <1>1, <1>2, <1>5, <1>6, <2>2 DEF Together
<1> QED
  BY <1>4, <1>7, <1>8

LEMMA TickDone ==
  ASSUME IInv, Tick
  PROVE  Together
<1>1. UNCHANGED <<entry, content, plan, consumed, sent, socket>>
  BY DEF Tick, storageVars, transportVars
<1>2. \A c \in Conns : SameTold(client'[c], client[c])
  <2>1. \A c \in Conns : IsClient(client[c])
    BY DEF IInv, TypeOK
  <2>2. \A c \in Conns : client'[c] = IF client[c].fd # None
                THEN [client[c] EXCEPT !.idle = Least(@ + 1, IdleTimeout + 1)] ELSE client[c]
    BY DEF Tick
  <2> QED
    BY <2>1, <2>2 DEF SameTold, SameTransfer, IsClient, NewClient
<1> QED
  BY <1>1, <1>2, NothingNoticed

LEMMA EnvironmentDone ==
  ASSUME IInv, Environment
  PROVE  Together
<1>1. UNCHANGED <<entry, content, client>>
  BY DEF Environment, storageVars
<1>2. /\ UNCHANGED <<plan, consumed, sent>>
      /\ \A c \in Conns : \/ socket'[c] = socket[c]
                          \/ socket[c] = "none" /\ socket'[c] = "queued"
  BY DEF Environment, Arrive, Connect, PeerStep, PeerSend, PeerRead, PeerShut, PeerReset,
         IInv, TypeOK, TransportTypeOK
<1> QED
  BY <1>1, <1>2, NothingNoticed DEF SameTold, SameTransfer

LEMMA StepDone ==
  ASSUME IInv, \A c \in Conns : Conversation(c), [Next]_vars
  PROVE  /\ plan' = plan
         /\ \/ \E c \in Conns : Only(c) /\ Serves(c) /\ \A d \in Conns \ {c} : Kept(d)
            \/ Together
<1>1. ASSUME NEW c \in Conns, Only(c), Serves(c), ReadEvent(c) \/ UNCHANGED content
      PROVE  Only(c) /\ Serves(c) /\ plan' = plan /\ \A d \in Conns \ {c} : Kept(d)
  BY <1>1, OthersKept DEF Only
<1>2. ASSUME NEW c \in Conns, ReadEvent(c)
      PROVE  Only(c) /\ Serves(c) /\ plan' = plan /\ \A d \in Conns \ {c} : Kept(d)
  BY <1>1, <1>2, ReadEventDone
<1>3. ASSUME NEW c \in Conns, WriteEvent(c)
      PROVE  Only(c) /\ Serves(c) /\ plan' = plan /\ \A d \in Conns \ {c} : Kept(d)
  <2>1. UNCHANGED content
    BY <1>3 DEF WriteEvent
  <2> QED
    BY <1>1, <1>3, <2>1, WriteEventDone
<1>4. ASSUME NEW c \in Conns, HangUp(c) \/ ErrorEvent(c), Fail(c)
      PROVE  Only(c) /\ Serves(c) /\ plan' = plan /\ \A d \in Conns \ {c} : Kept(d)
  <2>1. AtClient(c) /\ UNCHANGED <<content, plan, sent, consumed>>
    BY <1>4 DEF HangUp, ErrorEvent, AtClient, AtWrite, InRound
  <2> QED
    BY <1>1, <1>4, <2>1, FailEffect DEF Serves, Effect
<1>5. ASSUME UNCHANGED <<entry, content, plan, consumed, sent, socket, client>>
      PROVE  Together
  BY <1>5, NothingNoticed DEF SameTold, SameTransfer
<1>6. ASSUME NEW c \in Conns, HangUp(c) \/ ErrorEvent(c) \/ NoEvent(c), ~Fail(c)
      PROVE  Together
  <2>1. UNCHANGED <<entry, content, plan, consumed, sent, socket, client>>
    BY <1>6 DEF HangUp, ErrorEvent, NoEvent, storageVars, transportVars
  <2> QED
    BY <1>5, <2>1
<1>7. CASE PollReady \/ PollReturns \/ EndRound \/ AcceptEnds \/ Signal \/ Restart \/ UNCHANGED vars
  <2>1. UNCHANGED <<entry, content, plan, consumed, sent, socket, client>>
    BY <1>7 DEF PollReady, PollReturns, EndRound, AcceptEnds, Signal, Restart, vars,
                storageVars, transportVars
  <2> QED
    BY <1>5, <2>1
<1>8. Together => plan' = plan
  BY DEF Together
<1>9. ASSUME NEW c \in Conns,
             ReadEvent(c) \/ WriteEvent(c) \/ HangUp(c) \/ ErrorEvent(c) \/ NoEvent(c)
      PROVE  \/ Only(c) /\ Serves(c) /\ plan' = plan /\ \A d \in Conns \ {c} : Kept(d)
             \/ Together
  <2>1. CASE NoEvent(c) /\ Fail(c)
    <3>1. UNCHANGED <<entry, content, plan, consumed, sent, socket, client>>
      BY <2>1 DEF NoEvent, storageVars, transportVars
    <3> QED
      BY <1>5, <3>1
  <2> QED
    BY <1>2, <1>3, <1>4, <1>6, <1>9, <2>1
<1> QED
  BY <1>7, <1>8, <1>9, StartRoundDone, EndsDone, AcceptDone, TickDone, EnvironmentDone
  DEF Next, Process

-----------------------------------------------------------------------------
(***************************************************************************)
(* TInv is an invariant.                                                   *)
(***************************************************************************)
LEMMA PeersOnlyLeave ==
  ASSUME IInv, [Next]_vars
  PROVE  \A c \in Conns : /\ peer[c] # "open" => peer'[c] # "open"
                          /\ peer[c] = "reset" => peer'[c] = "reset"
<1>1. CASE UNCHANGED peer
  BY <1>1
<1>2. CASE Environment
  BY <1>2 DEF Environment, Arrive, Connect, PeerStep, PeerSend, PeerRead, PeerShut, PeerReset,
              IInv, TypeOK, TransportTypeOK
<1> QED
  BY <1>1, <1>2
  DEF Next, Process, StartRound, PollReady, PollReturns, EndRound, ReadEvent, WriteEvent, HangUp,
      ErrorEvent, NoEvent, Accept, AcceptEnds, Shutdown, Kill, ProcessEnds, Restart, Tick,
      Signal, vars, transportVars

\* The steps in which what poll reported stays where it is.
LEMMA ReportStays ==
  ASSUME IInv, Polled, [Next]_vars, poll_fds' = poll_fds,
         clients' = clients \/ poll_fds = <<>>,
         pc' \in {"write", "hangup"} =>
           /\ index' = index
           /\ pc \in {"write", "hangup"} \/ "HUP" \in revents
  PROVE  Polled'
<1>1. ASSUME NEW i \in DOMAIN poll_fds
      PROVE  /\ clients' = clients /\ clients[i] \in Conns
             /\ "HUP" \in poll_fds[i].revents => peer[clients[i]] # "open"
             /\ "ERR" \in poll_fds[i].revents => peer[clients[i]] = "reset"
             /\ "IN" \in poll_fds[i].revents => poll_fds[i].events = "IN"
             /\ "OUT" \in poll_fds[i].revents => poll_fds[i].events = "OUT"
  <2>1. clients[i] \in Conns
    <3>1. i \in DOMAIN clients
      BY <1>1 DEF IInv, Round
    <3> QED
      BY <3>1 DEF IInv, TypeOK
  <2>2. clients' = clients
    BY <1>1
  <2> QED
    BY <1>1, <2>1, <2>2 DEF Polled
<1>2. pc' \in {"write", "hangup"} => "HUP" \in poll_fds[index].revents
  BY DEF Polled, revents
<1> QED
  BY <1>1, <1>2, PeersOnlyLeave DEF Polled

LEMMA ReportBegins ==
  ASSUME IInv, PollReady
  PROVE  Polled'
<1>1. /\ pc' = "dispatch" /\ UNCHANGED <<peer, clients>>
      /\ poll_fds' = [i \in DOMAIN poll_fds |->
           [poll_fds[i] EXCEPT !.revents = Reported(clients[i], poll_fds[i].events)]]
  BY DEF PollReady, transportVars
<1>2. ASSUME NEW i \in DOMAIN poll_fds
      PROVE  /\ poll_fds'[i].events = poll_fds[i].events
             /\ poll_fds'[i].revents = Reported(clients[i], poll_fds[i].events)
  <2>1. poll_fds[i] \in [fd : Fds, events : {"IN", "OUT"}, revents : SUBSET Reports]
    BY <1>2 DEF IInv, TypeOK
  <2>2. poll_fds'[i] = [poll_fds[i] EXCEPT !.revents = Reported(clients[i], poll_fds[i].events)]
    BY <1>1, <1>2
  <2> QED
    BY <2>1, <2>2
<1>3. \A c, events : /\ "HUP" \in Reported(c, events) => peer[c] # "open"
                     /\ "ERR" \in Reported(c, events) => peer[c] = "reset"
                     /\ "IN" \in Reported(c, events) => events = "IN"
                     /\ "OUT" \in Reported(c, events) => events = "OUT"
  BY DEF Reported
<1>4. DOMAIN poll_fds' = DOMAIN poll_fds
  BY <1>1
<1> HIDE DEF Reported
<1> QED
  BY <1>1, <1>2, <1>3, <1>4 DEF Polled

LEMMA PolledStays ==
  ASSUME IInv, Polled, [Next]_vars
  PROVE  Polled'
<1>1. CASE PollReady
  BY <1>1, ReportBegins
<1>2. CASE StartRound
  <2>1. /\ pc' = "poll"
        /\ \A i \in DOMAIN poll_fds' : poll_fds'[i].revents = {}
    BY <1>2 DEF StartRound
  <2> QED
    BY <2>1 DEF Polled
<1>3. CASE PollReturns \/ EndRound \/ Shutdown \/ Kill
  <2>1. poll_fds' = <<>> /\ pc' \notin {"write", "hangup"}
    BY <1>3 DEF PollReturns, EndRound, Shutdown, Kill, ProcessEnds
  <2> QED
    BY <2>1 DEF Polled
<1>4. CASE \E c \in Conns : ReadEvent(c) \/ WriteEvent(c) \/ HangUp(c) \/ ErrorEvent(c) \/ NoEvent(c)
  <2>1. \/ NextClient
        \/ \E stage \in {"write", "hangup"} : Continue(stage)
    BY <1>4 DEF ReadEvent, ReceiveEnds, ReceiveData, WriteEvent, WriteGetHeader, WriteReady,
                WriteReply, WriteFile, HangUp, ErrorEvent, NoEvent, Fail
  <2>2. /\ UNCHANGED <<poll_fds, clients>>
        /\ pc' \in {"write", "hangup"} => "HUP" \in revents /\ index' = index
    BY <2>1 DEF NextClient, Continue
  <2> QED
    BY <2>2, ReportStays
<1>5. CASE Accept
  <2>1. pc = "accept" /\ UNCHANGED <<poll_fds, pc, index>>
    BY <1>5 DEF Accept
  <2>2. poll_fds = <<>>
    BY <2>1 DEF IInv, Round, InRound
  <2> QED
    BY <2>1, <2>2, ReportStays
<1>6. CASE AcceptEnds \/ Environment \/ Signal \/ Restart \/ Tick \/ UNCHANGED vars
  <2>1. /\ UNCHANGED <<poll_fds, clients, index>>
        /\ pc' = pc \/ pc' = "top"
    BY <1>6 DEF AcceptEnds, Environment, Signal, Restart, Tick, vars, loopVars
  <2> QED
    BY <2>1, ReportStays
<1> QED
  BY <1>1, <1>2, <1>3, <1>4, <1>5, <1>6 DEF Next, Process

LEMMA ConversationStays ==
  ASSUME IInv, IInv', plan' = plan, StoredFilesComplete, NEW c \in Conns, Conversation(c),
         Serves(c) \/ Kept(c) \/ Leaves(c)
  PROVE  Conversation(c)'
BY RequestEffects, UploadEffects, FlushEffects, SendEffects, ClosingEffects, KeptConversation
DEF Serves, Effect

\* A stored version stays one while its bytes are frozen.
LEMMA StoredStay ==
  ASSUME IInv, plan' = plan, StoredFilesComplete, [Next]_vars,
         NEW n \in Names \cap DOMAIN entry, entry'[n] = entry[n]
  PROVE  content'[entry'[n]] \in Versions(n)'
<1>1. entry[n] \in Files /\ Frozen(entry[n])
  BY DEF IInv, TypeOK, Frozen
<1>2. content'[entry[n]] = content[entry[n]]
  BY <1>1, NextKeepsFrozen
<1>3. Versions(n)' = Versions(n)
  BY PlanStays
<1> QED
  BY <1>2, <1>3 DEF StoredFilesComplete

LEMMA StoredFilesStay ==
  ASSUME IInv, plan' = plan, StoredFilesComplete, [Next]_vars,
         NamesKept \/ \E c \in Conns : CompletesUpload(c)
  PROVE  StoredFilesComplete'
<1>1. CASE NamesKept
  BY <1>1, StoredStay DEF NamesKept, StoredFilesComplete
<1>2. ASSUME NEW c \in Conns, CompletesUpload(c)
      PROVE  StoredFilesComplete'
  <2> DEFINE name == Asked(c).filename
  <2>1. /\ Names \cap DOMAIN entry' = (Names \cap DOMAIN entry) \cup {name}
        /\ \A n \in (Names \cap DOMAIN entry) \ {name} : entry'[n] = entry[n]
        /\ content'[entry'[name]] = Bytes(c, Asked(c).size)
        /\ Asked(c).operation = "Put"
    BY <1>2 DEF CompletesUpload
  <2>2. Bytes(c, Asked(c).size) \in Versions(name)
    BY <2>1, UploadIsVersion
  <2> HIDE DEF name
  <2>3. ASSUME NEW n \in Names \cap DOMAIN entry'
        PROVE  content'[entry'[n]] \in Versions(n)'
    <3>1. CASE n = name
      <4>1. Versions(n)' = Versions(n)
        BY PlanStays
      <4>2. content'[entry'[n]] \in Versions(n)
        BY <2>1, <2>2, <3>1
      <4> QED
        BY <4>1, <4>2
    <3>2. CASE n # name
      <4>1. n \in Names \cap DOMAIN entry /\ entry'[n] = entry[n]
        BY <2>1, <2>3, <3>2
      <4> QED
        BY <4>1, StoredStay
    <3> QED
      BY <3>1, <3>2
  <2> QED
    BY <2>3 DEF StoredFilesComplete
<1> QED
  BY <1>1, <1>2

LEMMA NextTInv ==
  ASSUME IInv, TInv, [Next]_vars
  PROVE  TInv'
<1>1. IInv' /\ Polled'
  BY NextInv, PolledStays DEF TInv
<1>2. /\ plan' = plan
      /\ \/ \E c \in Conns : Only(c) /\ Serves(c) /\ \A d \in Conns \ {c} : Kept(d)
         \/ Together
  BY StepDone DEF TInv
<1>3. NamesKept \/ \E c \in Conns : CompletesUpload(c)
  BY <1>2 DEF Serves, Together
<1>4. StoredFilesComplete'
  BY <1>2, <1>3, StoredFilesStay DEF TInv
<1>5. ASSUME NEW c \in Conns
      PROVE  Conversation(c)'
  <2>1. Serves(c) \/ Kept(c) \/ Leaves(c)
    BY <1>2 DEF Together
  <2> QED
    BY <1>1, <1>2, <2>1, ConversationStays DEF TInv
<1> QED
  BY <1>1, <1>4, <1>5 DEF TInv

LEMMA InitTInv ==
  ASSUME Init
  PROVE  TInv
<1>1. Polled
  BY DEF Init, Polled
<1>2. \A c \in Conns : Conversation(c)
  BY DEF Init, TransportInit, Conversation
<1>3. StoredFilesComplete
  <2>1. ASSUME NEW n \in Names \cap DOMAIN entry
        PROVE  content[entry[n]] \in Versions(n)
    <3>1. n \in DOMAIN InitialRoot /\ entry[n] = n /\ n \in Files
      BY <2>1 DEF Init, StorageInit, Files
    <3>2. content[n] = Bytes(n, InitialRoot[n].size)
      BY <3>1 DEF Init, StorageInit
    <3> QED
      BY <3>1, <3>2 DEF Versions
  <2> QED
    BY <2>1 DEF StoredFilesComplete
<1> QED
  BY <1>1, <1>2, <1>3 DEF TInv

\* What has been stored and said so far is right in every state: each connection is
\* in a conversation that its request allows, and every name holds a whole version.
THEOREM ConversationsHold == Spec => []TInv
<1>1. Init => TInv
  BY InitTInv
<1>2. IInv /\ TInv /\ [Next]_vars => TInv'
  BY NextTInv
<1> QED
  BY <1>1, <1>2, InvariantHolds, PTL DEF Spec

\* A remote name holds a whole version at every moment: start_request writes
\* elsewhere, and complete_upload renames only what has all its bytes.
THEOREM StoredFilesAreComplete == Spec => []StoredFilesComplete
<1>1. TInv => StoredFilesComplete
  BY DEF TInv
<1> QED
  BY <1>1, ConversationsHold, PTL

LEMMA UploadIsApart ==
  ASSUME IInv, TInv, NEW c \in Conns, client[c].output_file # None
  PROVE  /\ client[c].temporary_path \in DOMAIN entry \ Names
         /\ entry[client[c].temporary_path] = client[c].output_file
         /\ content[client[c].output_file] = Bytes(c, client[c].transferred_bytes)
         /\ \A d \in Conns \ {c} : client[d].output_file # client[c].output_file
<1>1. /\ Uploading(c) /\ client[c].temporary_path \in DOMAIN entry
      /\ entry[client[c].temporary_path] = client[c].output_file
      /\ client[c].temporary_path # None
  BY DEF IInv, Ownership
<1>2. socket[c] = "open" /\ Live(c)
  BY <1>1, NotLiveIsNew, NewClientFields
  DEF Uploading, IInv, Connections, ConnectionsAccounted
<1>3. InUpload(c)
  BY <1>1, <1>2 DEF TInv, Conversation, Requesting, InDownload, InReply, Uploading
<1>4. client[c].temporary_path \notin Names
  BY <1>1, TemporaryIsNoName DEF IInv, TypeOK
<1>5. ASSUME NEW d \in Conns \ {c}
      PROVE  client[d].output_file # client[c].output_file
  <2>1. CASE client[d].output_file = None
    BY <2>1
  <2>2. CASE Uploading(d)
    BY <1>1, <1>2, <1>5, <2>2, OutputsApart
  <2> QED
    BY <2>1, <2>2 DEF IInv, Ownership
<1> QED
  BY <1>1, <1>3, <1>4, <1>5 DEF InUpload

\* Each upload in progress has a file of its own, behind its own temporary path, that
\* holds exactly the bytes received so far (handle_upload_readable).
THEOREM UploadsStayApart == Spec => []UploadsApart
<1>1. IInv /\ TInv => UploadsApart
  BY UploadIsApart DEF UploadsApart
<1> QED
  BY <1>1, InvariantHolds, ConversationsHold, PTL

\* Whatever a peer has been told and will be told from the buffer begins one of the
\* replies its request can have (queue_error, start_request, handle_file_writable).
THEOREM RepliesStayWellFormed == Spec => []RepliesWellFormed
<1>1. IInv /\ TInv => RepliesWellFormed
  BY ReplyAhead DEF RepliesWellFormed, TInv
<1> QED
  BY <1>1, InvariantHolds, ConversationsHold, PTL

\* OK is queued by no step but the one that completes an upload.
LEMMA OnlyUploadsAcknowledge ==
  ASSUME IInv, TInv, [Next]_vars, NEW c \in Conns,
         client'[c].state = "SendingResult", client[c].state # "SendingResult"
  PROVE  CompletesUpload(c)
<1>1. Serves(c) \/ Kept(c) \/ Leaves(c)
  BY StepDone DEF TInv, Together
<1>2. ~Kept(c) /\ ~Leaves(c)
  BY NewClientFields DEF Kept, SameTold, Leaves
<1>3. ~Ends(c) /\ ~FailsUpload(c) /\ ~SendsFile(c) /\ ~ReceivesPart(c)
  BY NewClientFields DEF Ends, FailsUpload, SendsFile, ReceivesPart, Turns
<1>4. ~Waits(c) /\ ~Refuses(c) /\ ~BeginsDownload(c) /\ ~BeginsUpload(c) /\ ~Flushes(c)
  BY DEF Waits, Refuses, BeginsDownload, BeginsUpload, Flushes, Turns
<1> QED
  BY <1>1, <1>2, <1>3, <1>4 DEF Serves, Effect

LEMMA AcknowledgedStep ==
  ASSUME IInv, TInv, [Next]_vars, NEW c \in Conns,
         client'[c].state = "SendingResult", client[c].state # "SendingResult"
  PROVE  /\ Asked(c).filename \in DOMAIN entry'
         /\ content'[entry'[Asked(c).filename]] = Bytes(c, Asked(c).size)
BY OnlyUploadsAcknowledge DEF CompletesUpload

\* complete_upload queues OK in a step after which the name holds all the bytes.
THEOREM AcknowledgedStaysStored == Spec => AcknowledgedIsStored
<1> DEFINE Step == \A c \in Conns :
       client'[c].state = "SendingResult" /\ client[c].state # "SendingResult" =>
         /\ Asked(c).filename \in DOMAIN entry'
         /\ content'[entry'[Asked(c).filename]] = Bytes(c, Asked(c).size)
<1>1. IInv /\ TInv /\ [Next]_vars => [Step]_vars
  BY AcknowledgedStep
<1>2. Spec => [][Step]_vars
  BY <1>1, InvariantHolds, ConversationsHold, PTL DEF Spec
<1> QED
  BY <1>2 DEF AcknowledgedIsStored

LEMMA ReplacedStep ==
  ASSUME IInv, TInv, [Next]_vars, NEW n \in Names \cap DOMAIN entry
  PROVE  /\ n \in DOMAIN entry'
         /\ entry'[n] # entry[n] =>
              \E c \in Conns :
                /\ client'[c].state = "SendingResult" /\ client[c].state # "SendingResult"
                /\ Asked(c).filename = n
                /\ content'[entry'[n]] = Bytes(c, Asked(c).size)
<1>1. NamesKept \/ \E c \in Conns : CompletesUpload(c)
  BY StepDone DEF Serves, Together, TInv
<1>2. CASE NamesKept
  BY <1>2 DEF NamesKept
<1>3. ASSUME NEW c \in Conns, CompletesUpload(c)
      PROVE  /\ n \in DOMAIN entry'
             /\ entry'[n] # entry[n] =>
                  /\ client'[c].state = "SendingResult" /\ client[c].state # "SendingResult"
                  /\ Asked(c).filename = n
                  /\ content'[entry'[n]] = Bytes(c, Asked(c).size)
  BY <1>3 DEF CompletesUpload, Uploading, Turns
<1> QED
  BY <1>1, <1>2, <1>3

\* What a remote name links is replaced only by an upload that has all its bytes.
THEOREM NamesStay == Spec => NamesReplacedByUploads
<1> DEFINE Step == \A n \in Names \cap DOMAIN entry :
       /\ n \in DOMAIN entry'
       /\ entry'[n] # entry[n] =>
            \E c \in Conns :
              /\ client'[c].state = "SendingResult" /\ client[c].state # "SendingResult"
              /\ Asked(c).filename = n
              /\ content'[entry'[n]] = Bytes(c, Asked(c).size)
<1>1. IInv /\ TInv /\ [Next]_vars => [Step]_vars
  BY ReplacedStep
<1>2. Spec => [][Step]_vars
  BY <1>1, InvariantHolds, ConversationsHold, PTL DEF Spec
<1> QED
  BY <1>2 DEF NamesReplacedByUploads

=============================================================================
