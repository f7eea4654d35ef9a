---------------------------- MODULE StartupProofs ---------------------------
(***************************************************************************)
(* For every word width, all command lines, any number of processes and of *)
(* addresses: the numbers of a command line are read exactly, no candidate *)
(* leaves a socket behind, a server that gives up met a listener on every  *)
(* address, a client reaches a server that stays, and the command lines    *)
(* that are taken are those the usage text allows.                         *)
(***************************************************************************)
EXTENDS Startup, FiniteSetTheorems, WellFoundedInduction, TLAPS

Text  == Seq(0..NotDigit)
Bound == {PortMax, WordMax}

NumberRead(n, bound) ==
  /\ n \in [text : Text, at : Nat, value : 0..WordMax, exact : Nat,
            verdict : {"open", "accepted", "rejected"}]
  /\ n.at <= Len(n.text)
  /\ n.verdict = "open" => n.text # <<>>
  /\ Exact(n, bound)

-----------------------------------------------------------------------------
(***************************************************************************)
(* The loop over the digits.                                               *)
(***************************************************************************)
LEMMA BoundsFit == Bound \subseteq 0..WordMax
  BY StartupConstants, WordConstant DEF Bound

\* A text that is not read yet.
LEMMA UnreadExact ==
  ASSUME NEW text \in Text, NEW bound \in 0..WordMax
  PROVE  NumberRead(Unread(text), bound)
  BY WordConstant, bound \in Nat DEF NumberRead, Unread, Exact, Text, Character, IsDigit

\* The check before a digit refuses exactly the values that do not fit: no digit
\* wraps the value (parse_uint64, server.cpp).
LEMMA NoWrap ==
  ASSUME NEW value \in 0..WordMax, NEW digit \in 0..9
  PROVE  /\ ~Overflows(value, digit) => Appended(value, digit) = value * 10 + digit
         /\ Overflows(value, digit) => value * 10 + digit > WordMax
<1> DEFINE rest == (WordMax - digit) \div 10
<1>1. WordMax \in Nat /\ value \in Nat /\ digit \in Nat
  BY WordConstant
<1>2. 10 * rest <= WordMax - digit /\ WordMax - digit < 10 * rest + 10 /\ rest \in Int
  BY <1>1
<1> HIDE DEF rest
<1>3. CASE value > rest
  <2>1. value * 10 + digit > WordMax
    BY <1>1, <1>2, <1>3
  <2> QED
    BY <1>3, <2>1 DEF Overflows, rest
<1>4. CASE value <= rest
  <2>1. value * 10 + digit \in 0..WordMax
    BY <1>1, <1>2, <1>4
  <2>2. (value * 10 + digit) % (WordMax + 1) = value * 10 + digit
    BY <2>1, <1>1
  <2> QED
    BY <1>1, <1>2, <1>4, <2>2 DEF Overflows, Appended, rest
<1> QED
  BY <1>1, <1>2, <1>3, <1>4

LEMMA StepExact ==
  ASSUME NEW n, NEW bound \in 0..WordMax, NumberRead(n, bound), n.verdict = "open"
  PROVE  NumberRead(Step(n, bound), bound)
<1> DEFINE digit == Character(n)
<1>1. /\ n \in [text : Text, at : Nat, value : 0..WordMax, exact : Nat,
                verdict : {"open", "accepted", "rejected"}]
      /\ n.at <= Len(n.text) /\ Exact(n, bound) /\ n.text \in Seq(0..10)
      /\ WordMax \in Nat /\ bound \in Nat
  BY WordConstant DEF NumberRead, Text, NotDigit
<1>2. CASE n.at = Len(n.text)
  <2>1. Step(n, bound) = [n EXCEPT !.verdict = "accepted"]
    BY <1>2 DEF Step
  <2>2. n.text # <<>>
    BY DEF NumberRead
  <2> QED
    BY <1>1, <1>2, <2>1, <2>2 DEF NumberRead, Exact
<1>3. CASE n.at < Len(n.text)
  <2>1. n.at + 1 \in 1..Len(n.text) /\ digit \in 0..10 /\ n.text # <<>>
    BY <1>1, <1>3 DEF Character
  <2>2. CASE Refuses(n, bound)
    <3>1. Step(n, bound) = [n EXCEPT !.verdict = "rejected"]
      BY <1>1, <1>3, <2>2 DEF Step
    <3>2. ~IsDigit(digit) \/ n.exact * 10 + digit > bound
      <4>1. /\ n.value \in 0..WordMax /\ n.exact = n.value
            /\ WordMax \in Nat /\ bound \in 0..WordMax
        BY <1>1 DEF Exact
      <4>2. ~IsDigit(digit) \/ Overflows(n.value, digit) \/ Appended(n.value, digit) > bound
        BY <2>2 DEF Refuses
      <4>3. CASE IsDigit(digit) /\ Overflows(n.value, digit)
        <5>1. digit \in 0..9 /\ n.value * 10 + digit > WordMax
          BY <4>1, <4>3, NoWrap DEF IsDigit
        <5> HIDE DEF digit
        <5> QED
          BY <4>1, <5>1
      <4>4. CASE IsDigit(digit) /\ ~Overflows(n.value, digit)
        <5>1. Appended(n.value, digit) = n.value * 10 + digit
          BY <4>1, <4>4, NoWrap DEF IsDigit
        <5> QED
          BY <4>1, <4>2, <4>4, <5>1
      <4> QED
        BY <4>3, <4>4
    <3> QED
      BY <1>1, <1>3, <3>1, <3>2 DEF NumberRead, Exact, Character
  <2>3. CASE ~Refuses(n, bound)
    <3> DEFINE m == [n EXCEPT !.at = @ + 1, !.value = Appended(@, digit),
                              !.exact = @ * 10 + digit]
    <3>1. Step(n, bound) = m
      BY <1>1, <1>3, <2>3 DEF Step
    <3>2. digit \in 0..9 /\ ~Overflows(n.value, digit)
      BY <2>1, <2>3 DEF Refuses, IsDigit
    <3>3. /\ Appended(n.value, digit) = n.value * 10 + digit
          /\ Appended(n.value, digit) <= bound
      <4>1. Appended(n.value, digit) = n.value * 10 + digit
        BY <1>1, <3>2, NoWrap
      <4>2. ~(Appended(n.value, digit) > bound)
        BY <2>3 DEF Refuses
      <4>3. n.value * 10 + digit \in Nat
        <5>1. n.value \in 0..WordMax /\ digit \in 0..9
          BY <1>1, <3>2
        <5> HIDE DEF digit
        <5> QED
          BY <1>1, <5>1
      <4> HIDE DEF digit
      <4> QED
        BY <1>1, <4>1, <4>2, <4>3
    <3>4. m.text = n.text /\ m.at = n.at + 1 /\ m.verdict = "open"
          /\ m.value = n.value * 10 + digit /\ m.exact = n.exact * 10 + digit
      BY <1>1, <3>3
    <3>5. m \in [text : Text, at : Nat, value : 0..WordMax, exact : Nat,
                 verdict : {"open", "accepted", "rejected"}]
      <4>1. n.value \in 0..WordMax /\ n.exact = n.value /\ n.at \in Nat
        BY <1>1 DEF Exact
      <4>2. /\ n.value * 10 + digit \in 0..WordMax
            /\ n.exact * 10 + digit \in Nat
            /\ n.at + 1 \in Nat
        <5>1. n.value * 10 + digit <= bound
          BY <3>3
        <5>2. /\ digit \in 0..9 /\ n.value \in 0..WordMax /\ WordMax \in Nat
              /\ bound \in 0..WordMax /\ n.at \in Nat /\ n.exact = n.value
          BY <1>1, <3>2, <4>1
        <5> HIDE DEF digit
        <5> QED
          BY <5>1, <5>2
      <4>3. m = [n EXCEPT !.at = n.at + 1, !.value = n.value * 10 + digit,
                          !.exact = n.exact * 10 + digit]
        BY <1>1, <3>3
      <4> HIDE DEF m, digit
      <4> QED
        BY <1>1, <4>2, <4>3
    <3>6. \A k \in 1..m.at : IsDigit(m.text[k])
      <4>1. \A k \in 1..n.at : IsDigit(n.text[k])
        BY <1>1 DEF Exact
      <4>2. IsDigit(n.text[n.at + 1])
        BY <3>2 DEF IsDigit, Character
      <4>3. n.at \in Nat /\ m.at = n.at + 1 /\ m.text = n.text
        BY <1>1, <3>4
      <4> HIDE DEF m, digit
      <4> QED
        BY <4>1, <4>2, <4>3
    <3> HIDE DEF m
    <3> QED
      BY <1>1, <1>3, <3>1, <3>2, <3>3, <3>4, <3>5, <3>6 DEF NumberRead, Exact
  <2> QED
    BY <2>2, <2>3
<1> QED
  BY <1>1, <1>2, <1>3

-----------------------------------------------------------------------------
(***************************************************************************)
(* The inductive invariant: what holds of one process p with the variables *)
(* r and the sockets S, and what a client knows of the servers that have   *)
(* been serving since its walk began.                                      *)
(***************************************************************************)
Early   == {"off", "operation", "arguments", "number", "resolve"}
Holding == {"bind", "listen", "nonblock", "name", "serving", "connect", "connected"}
Empty   == {"usage", "socket", "failed", "refused"}

AnArgument == [word : STRING, text : Text]
Options    == UNION {[D -> AnArgument \cup Nat] : D \in SUBSET STRING}
ASocket    == [address : Range(Addresses), bound : BOOLEAN, listening : BOOLEAN,
               reuse : BOOLEAN, nonblocking : BOOLEAN]
AProcess   == [place : Early \cup Holding \cup Empty, starts : Nat, at : Nat \ {0}, given : Options,
               number : [text : Text, at : Nat, value : 0..WordMax, exact : Nat,
                         verdict : {"open", "accepted", "rejected"}],
               candidate : Nat \ {0}, rivals : SUBSET (DOMAIN Addresses), struck : BOOLEAN,
               serving : SUBSET Servers]

Holds(r, S) ==
  IF r.place \in Holding
  THEN /\ r.candidate <= Len(Addresses)
       /\ \E s \in ASocket :
            /\ S = {s} /\ s.address = Addresses[r.candidate] /\ (~r.struck => s.reuse)
            /\ r.place \in {"listen", "nonblock", "name", "serving"} => s.bound
            /\ r.place \in {"nonblock", "name", "serving"} => s.listening
            /\ r.place \in {"name", "serving"} => s.nonblocking
  ELSE S = {}

Walked(r, p) ==
  /\ r.candidate <= Len(Addresses) + 1
  /\ r.place \in Early => r.candidate = 1
  /\ r.place = "number" => r.at <= Len(line[p])
  /\ r.place = "refused" => r.candidate = Len(Addresses) + 1
  /\ p \in Servers /\ ~r.struck => 1..(r.candidate - 1) \subseteq r.rivals

Good(r, S, p) ==
  /\ r \in AProcess
  /\ NumberRead(r.number, DigitBound(p))
  /\ Holds(r, S)
  /\ Walked(r, p)

PassedBy(r) ==
  \A q \in r.serving :
    /\ At(q, "serving")
    /\ ~r.struck => \A k \in 1..(r.candidate - 1) : Addresses[k] # Candidate(q)

IInv ==
  /\ line \in [Processes -> Seq(AnArgument)]
  /\ proc = [p \in Processes |-> proc[p]] /\ sockets = [p \in Processes |-> sockets[p]]
  /\ \A p \in Processes : Good(proc[p], sockets[p], p)
  /\ \A p \in Clients : PassedBy(proc[p])

LEMMA NewProcessGood ==
  ASSUME NEW starts \in Nat, NEW p
  PROVE  Good(NewProcess(starts), {}, p) /\ PassedBy(NewProcess(starts))
<1> DEFINE r == NewProcess(starts)
<1>1. DigitBound(p) \in 0..WordMax /\ <<>> \in Text
  BY StartupConstants, WordConstant DEF DigitBound, Text
<1>2. NumberRead(Unread(<<>>), DigitBound(p))
  BY <1>1, UnreadExact
<1>3. <<>> \in Options
  <2>1. <<>> \in [{} -> AnArgument \cup Nat]
    OBVIOUS
  <2> QED
    BY <2>1 DEF Options
<1>4. r \in AProcess
  <2> DEFINE n == Unread(<<>>)
  <2>1. n \in [text : Text, at : Nat, value : 0..WordMax, exact : Nat,
               verdict : {"open", "accepted", "rejected"}]
    BY <1>2 DEF NumberRead
  <2>2. r = [place |-> "off", starts |-> starts, at |-> 1, given |-> <<>>, number |-> n,
             candidate |-> 1, rivals |-> {}, struck |-> FALSE, serving |-> {}]
    BY DEF NewProcess
  <2> HIDE DEF n, r
  <2> QED
    BY <1>3, <2>1, <2>2 DEF AProcess, Early
<1>5. r.place = "off" /\ r.candidate = 1 /\ r.serving = {} /\ r.number = Unread(<<>>)
  BY DEF NewProcess
<1>6. Len(Addresses) \in Nat
  BY StartupConstants
<1> HIDE DEF r
<1>7. Holds(r, {}) /\ Walked(r, p)
  BY <1>5, <1>6 DEF Holds, Walked, Holding, Early
<1> QED
  BY <1>2, <1>4, <1>5, <1>7 DEF Good, PassedBy, r

\* A step of a process that is not serving.
LEMMA OneStep ==
  ASSUME IInv, NEW p \in Processes, ~At(p, "serving"), NEW r, NEW S,
         proc' = [proc EXCEPT ![p] = r], sockets' = [sockets EXCEPT ![p] = S],
         UNCHANGED line, Good(r, S, p), p \in Clients => PassedBy(r)
  PROVE  IInv'
<1>1. \A q \in Processes \ {p} : proc'[q] = proc[q] /\ sockets'[q] = sockets[q]
  BY DEF IInv
<1>2. proc'[p] = r /\ sockets'[p] = S
  BY DEF IInv
<1>3. ASSUME NEW q \in Processes PROVE Good(proc'[q], sockets'[q], q)
  <2>1. Good(proc[q], sockets[q], q)
    BY DEF IInv
  <2> QED
    BY <1>1, <1>2, <2>1
<1>4. ASSUME NEW c \in Clients PROVE PassedBy(proc[c])'
  <2>1. c \in Processes /\ PassedBy(proc'[c]) /\ proc'[c].serving \subseteq Servers
    <3>1. c \in Processes
      BY DEF Processes
    <3>2. proc'[c].serving \subseteq Servers
      BY <1>3, <3>1 DEF Good, AProcess
    <3>3. PassedBy(proc[c]) /\ (c # p => proc'[c] = proc[c])
      BY <1>1, <3>1 DEF IInv
    <3> QED
      BY <1>2, <3>1, <3>2, <3>3
  <2>2. \A q \in proc'[c].serving : q \in Processes /\ q # p
    BY <2>1 DEF PassedBy, At, Processes
  <2> QED
    BY <1>1, <2>1, <2>2 DEF PassedBy, At, Candidate
<1>5. /\ proc' = [q \in Processes |-> proc'[q]] /\ sockets' = [q \in Processes |-> sockets'[q]]
      /\ line' \in [Processes -> Seq(AnArgument)]
  BY DEF IInv
<1>6. \A q \in Processes : Good(proc[q], sockets[q], q)'
  BY <1>3 DEF Good, Walked
<1> QED
  BY <1>4, <1>5, <1>6 DEF IInv

-----------------------------------------------------------------------------
(***************************************************************************)
(* Reading the command line.                                               *)
(***************************************************************************)
LEMMA ReadingStep ==
  ASSUME IInv, NEW p \in Processes, proc[p].place \in Early,
         NEW r \in AProcess, r.place \in Early \cup {"usage"},
         r.candidate = proc[p].candidate, r.serving = proc[p].serving,
         r.struck = proc[p].struck, NumberRead(r.number, DigitBound(p)),
         r.place = "number" => r.at <= Len(line[p]),
         Become(p, r), UNCHANGED <<sockets, line>>
  PROVE  IInv'
<1>1. Good(proc[p], sockets[p], p)
  BY DEF IInv
<1>2. r.candidate = 1 /\ sockets[p] = {} /\ Len(Addresses) \in Nat
  BY <1>1, StartupConstants DEF Good, Holds, Walked, Early, Holding
<1>3. Good(r, sockets[p], p)
  BY <1>2 DEF Good, Holds, Walked, Early, Holding
<1>4. p \in Clients => PassedBy(r)
  BY <1>2 DEF IInv, PassedBy
<1>5. sockets' = [sockets EXCEPT ![p] = sockets[p]] /\ ~At(p, "serving")
  BY DEF IInv, At, Early
<1>6. proc' = [proc EXCEPT ![p] = r] /\ UNCHANGED line
  BY DEF Become
<1> QED
  BY <1>3, <1>4, <1>5, <1>6, OneStep

LEMMA ArgumentTypes ==
  ASSUME IInv, NEW p \in Processes
  PROVE  /\ proc[p] \in AProcess /\ NumberRead(proc[p].number, DigitBound(p))
         /\ Left(p) => Flag(p) \in STRING
         /\ proc[p].at < Len(line[p]) => Value(p) \in AnArgument
<1>1. line[p] \in Seq(AnArgument) /\ proc[p] \in AProcess /\ NumberRead(proc[p].number, DigitBound(p))
  BY DEF IInv, Good
<1>2. proc[p].at \in Nat \ {0}
  BY <1>1 DEF AProcess
<1>3. \A k \in 1..Len(line[p]) : line[p][k] \in AnArgument
  BY <1>1
<1>4. Left(p) => Flag(p) \in STRING
  BY <1>1, <1>2, <1>3 DEF Left, Flag, AnArgument
<1>5. proc[p].at < Len(line[p]) => Value(p) \in AnArgument
  BY <1>1, <1>2, <1>3 DEF Value
<1> QED
  BY <1>1, <1>4, <1>5

\* An option that is taken: the rest of the process stays as it is.
LEMMA GivenTypes ==
  ASSUME IInv, NEW p \in Processes, Left(p), NEW value \in AnArgument \cup Nat
  PROVE  /\ Given(p, value) \in AProcess
         /\ Given(p, value).place = "arguments"
         /\ Given(p, value).candidate = proc[p].candidate
         /\ Given(p, value).serving = proc[p].serving
         /\ Given(p, value).struck = proc[p].struck
         /\ Given(p, value).number = proc[p].number
<1> DEFINE options == [f \in DOMAIN proc[p].given \cup {Flag(p)} |->
                         IF f = Flag(p) THEN value ELSE proc[p].given[f]]
<1>1. proc[p] \in AProcess /\ Flag(p) \in STRING
  BY ArgumentTypes
<1>2. options \in Options
  <2>1. PICK D \in SUBSET STRING : proc[p].given \in [D -> AnArgument \cup Nat]
    BY <1>1 DEF AProcess, Options
  <2>2. options \in [D \cup {Flag(p)} -> AnArgument \cup Nat]
    BY <2>1
  <2>3. D \cup {Flag(p)} \in SUBSET STRING
    BY <1>1
  <2> QED
    BY <2>2, <2>3 DEF Options
<1>3. Given(p, value) = [proc[p] EXCEPT !.place = "arguments", !.at = @ + 2, !.given = options]
  BY DEF Given
<1>4. proc[p].at + 2 \in Nat \ {0}
  BY <1>1 DEF AProcess
<1> DEFINE old == proc[p]
           r == Given(p, value)
<1>5. r = [old EXCEPT !.place = "arguments", !.at = old.at + 2, !.given = options]
  BY <1>1, <1>3 DEF AProcess
<1> HIDE DEF options, old, r
<1>6. /\ r \in AProcess /\ r.place = "arguments" /\ r.candidate = old.candidate
      /\ r.serving = old.serving /\ r.struck = old.struck /\ r.number = old.number
  BY <1>1, <1>2, <1>4, <1>5 DEF AProcess, Early, old
<1> QED
  BY <1>6 DEF r, old

LEMMA GoTypes ==
  ASSUME IInv, NEW p \in Processes, NEW place \in Early \cup Holding \cup Empty
  PROVE  /\ [proc[p] EXCEPT !.place = place] \in AProcess
         /\ [proc[p] EXCEPT !.place = place].place = place
         /\ [proc[p] EXCEPT !.place = place].candidate = proc[p].candidate
         /\ [proc[p] EXCEPT !.place = place].serving = proc[p].serving
         /\ [proc[p] EXCEPT !.place = place].struck = proc[p].struck
         /\ [proc[p] EXCEPT !.place = place].rivals = proc[p].rivals
         /\ [proc[p] EXCEPT !.place = place].number = proc[p].number
BY ArgumentTypes DEF AProcess

LEMMA ReadArgumentsKeeps ==
  ASSUME IInv, NEW p \in Processes, ReadArguments(p)
  PROVE  IInv'
<1>1. proc[p] \in AProcess /\ NumberRead(proc[p].number, DigitBound(p))
  BY ArgumentTypes
<1>2. UNCHANGED <<sockets, line>> /\ DigitBound(p) \in 0..WordMax
  BY StartupConstants, WordConstant DEF ReadArguments, DigitBound
<1>3. ASSUME NEW place \in {"arguments", "resolve", "usage"}, proc[p].place \in Early, Go(p, place)
      PROVE  IInv'
  <2> DEFINE r == [proc[p] EXCEPT !.place = place]
  <2>1. place \in Early \cup Holding \cup Empty
    BY DEF Empty, Early
  <2>2. r \in AProcess /\ r.place = place /\ r.number = proc[p].number
        /\ r.candidate = proc[p].candidate /\ r.serving = proc[p].serving
        /\ r.struck = proc[p].struck
    BY <2>1, GoTypes
  <2>3. Become(p, r)
    BY <1>3 DEF Go
  <2> HIDE DEF r
  <2> QED
    BY <1>1, <1>2, <1>3, <2>2, <2>3, ReadingStep DEF Early
<1>4. ASSUME NEW value \in AnArgument \cup Nat, proc[p].place \in Early, Left(p),
             Become(p, Given(p, value))
      PROVE  IInv'
  <2>1. NumberRead(Given(p, value).number, DigitBound(p)) /\ "arguments" \in Early
    BY <1>1, <1>4, GivenTypes DEF Early
  <2> QED
    BY <1>2, <1>4, <2>1, GivenTypes, ReadingStep
<1>5. ASSUME Operation(p) PROVE IInv'
  <2>1. CASE IsOperation(p)
    <3> DEFINE r == [proc[p] EXCEPT !.place = "arguments", !.at = 2]
    <3>1. r \in AProcess /\ r.place = "arguments" /\ r.number = proc[p].number
          /\ r.candidate = proc[p].candidate /\ r.serving = proc[p].serving
          /\ r.struck = proc[p].struck
      BY <1>1, 2 \in Nat \ {0} DEF AProcess, Early
    <3>2. Become(p, r) /\ proc[p].place \in Early /\ "arguments" \in Early
      BY <1>5, <2>1 DEF Operation, At, Early
    <3> HIDE DEF r
    <3> QED
      BY <1>1, <1>2, <3>1, <3>2, ReadingStep
  <2>2. CASE ~IsOperation(p)
    BY <1>3, <1>5, <2>2 DEF Operation, At, Early
  <2> QED
    BY <2>1, <2>2
<1>6. ASSUME Argument(p) PROVE IInv'
  <2>1. proc[p].place \in Early /\ Left(p)
    BY <1>6 DEF Argument, At, Early
  <2>2. CASE Takes(p) /\ Flag(p) \in Numeric
    <3> DEFINE n == Unread(Value(p).text)
               r == [proc[p] EXCEPT !.place = "number", !.number = n]
    <3>1. Value(p).text \in Text
      BY <2>2, ArgumentTypes DEF Takes, AnArgument
    <3>2. NumberRead(n, DigitBound(p))
      BY <1>2, <3>1, UnreadExact
    <3>3. n \in [text : Text, at : Nat, value : 0..WordMax, exact : Nat,
                 verdict : {"open", "accepted", "rejected"}]
      BY <3>2 DEF NumberRead
    <3>4. Become(p, r)
      BY <1>6, <2>2 DEF Argument
    <3> HIDE DEF n
    <3>5. r \in AProcess /\ r.place = "number" /\ r.number = n /\ r.at = proc[p].at
          /\ r.candidate = proc[p].candidate /\ r.serving = proc[p].serving
          /\ r.struck = proc[p].struck
      BY <1>1, <3>3 DEF AProcess, Early
    <3> HIDE DEF r
    <3> QED
      BY <1>2, <2>1, <3>2, <3>4, <3>5, ReadingStep DEF Early, Left
  <2>3. CASE Takes(p) /\ Flag(p) \notin Numeric /\ Fits(p)
    <3>1. Become(p, Given(p, Value(p)))
      BY <1>6, <2>3 DEF Argument
    <3>2. Value(p) \in AnArgument
      BY <2>3, ArgumentTypes DEF Takes
    <3> QED
      BY <1>4, <2>1, <3>1, <3>2
  <2>4. CASE ~(Takes(p) /\ Flag(p) \in Numeric)
             /\ ~(Takes(p) /\ Flag(p) \notin Numeric /\ Fits(p))
    <3>1. Go(p, "usage")
      BY <1>6, <2>4 DEF Argument
    <3> QED
      BY <1>3, <2>1, <3>1
  <2> QED
    BY <2>2, <2>3, <2>4
<1>7. ASSUME Number(p) PROVE IInv'
  <2> DEFINE n == proc[p].number
  <2>1. proc[p].place \in Early
    BY <1>7 DEF Number, At, Early
  <2>2. Left(p)
    BY <1>7 DEF Number, At, IInv, Good, Walked, Left
  <2>3. CASE n.verdict = "open"
    <3> DEFINE r == [proc[p] EXCEPT !.number = Step(n, DigitBound(p))]
    <3>1. NumberRead(Step(n, DigitBound(p)), DigitBound(p))
      BY <1>1, <1>2, <2>3, StepExact
    <3>2. r \in AProcess /\ r.place = proc[p].place /\ r.number = Step(n, DigitBound(p))
          /\ r.at = proc[p].at
          /\ r.candidate = proc[p].candidate /\ r.serving = proc[p].serving
          /\ r.struck = proc[p].struck
      BY <1>1, <3>1 DEF AProcess, NumberRead
    <3>3. Become(p, r)
      BY <1>7, <2>3 DEF Number
    <3> HIDE DEF r
    <3> QED
      BY <1>2, <2>1, <2>2, <3>1, <3>2, <3>3, ReadingStep DEF Left
  <2>4. CASE n.verdict = "accepted" /\ InRange(p) /\ Left(p)
    <3>1. Become(p, Given(p, n.value))
      BY <1>7, <2>4 DEF Number
    <3>2. n.value \in Nat
      BY <1>1, WordConstant DEF AProcess
    <3> QED
      BY <1>4, <2>1, <2>4, <3>1, <3>2
  <2>5. CASE n.verdict # "open" /\ ~(n.verdict = "accepted" /\ InRange(p))
    BY <1>3, <1>7, <2>1, <2>5 DEF Number
  <2> QED
    BY <2>3, <2>4, <2>5, <2>2
<1>8. ASSUME ArgumentsEnd(p) PROVE IInv'
  BY <1>3, <1>8 DEF ArgumentsEnd, At, Early
<1> QED
  BY <1>5, <1>6, <1>7, <1>8 DEF ReadArguments

-----------------------------------------------------------------------------
(***************************************************************************)
(* The walk over the addresses.                                            *)
(***************************************************************************)
LEMMA StartKeeps ==
  ASSUME IInv, NEW p \in Processes, Start(p)
  PROVE  IInv'
<1> DEFINE new == NewProcess(proc[p].starts + 1)
           place == IF p \in Servers THEN "arguments" ELSE "operation"
           r == [new EXCEPT !.place = place]
<1>1. proc[p].starts + 1 \in Nat /\ sockets[p] = {} /\ ~At(p, "serving")
  <2>1. proc[p].place = "off" /\ proc[p].starts \in Nat
    BY ArgumentTypes DEF Start, At, AProcess
  <2>2. Holds(proc[p], sockets[p])
    BY DEF IInv, Good
  <2> QED
    BY <2>1, <2>2 DEF Holds, At, Holding
<1>2. Good(new, {}, p) /\ PassedBy(new) /\ new.serving = {} /\ new.candidate = 1
  BY <1>1, NewProcessGood DEF NewProcess
<1>3. place \in Early /\ place \notin Holding /\ place # "refused" /\ place # "number"
  BY DEF Early, Holding
<1>4. Become(p, r) /\ UNCHANGED <<line, sockets>>
  BY DEF Start
<1> HIDE DEF new, place
<1>5. /\ r \in AProcess /\ r.place = place /\ r.number = new.number
      /\ r.serving = {} /\ r.candidate = 1
  BY <1>2, <1>3 DEF Good, AProcess
<1>6. Good(r, {}, p) /\ PassedBy(r)
  BY <1>2, <1>3, <1>5 DEF Good, Holds, Walked, PassedBy
<1>7. sockets' = [sockets EXCEPT ![p] = {}] /\ proc' = [proc EXCEPT ![p] = r]
  BY <1>1, <1>4 DEF IInv, Become
<1> HIDE DEF r
<1> QED
  BY <1>1, <1>4, <1>6, <1>7, OneStep

\* A step of the walk that stays at its candidate.
LEMMA StayingStep ==
  ASSUME IInv, NEW p \in Processes, ~At(p, "serving"), NEW place \in Holding \cup {"failed", "refused"},
         Go(p, place), NEW S, sockets' = [sockets EXCEPT ![p] = S], UNCHANGED line,
         Holds([proc[p] EXCEPT !.place = place], S),
         place = "refused" => proc[p].candidate = Len(Addresses) + 1
  PROVE  IInv'
<1> DEFINE r == [proc[p] EXCEPT !.place = place]
<1>1. place \in Early \cup Holding \cup Empty /\ place \notin Early
  BY DEF Early, Holding, Empty
<1>2. /\ r \in AProcess /\ r.place = place /\ r.number = proc[p].number
      /\ r.candidate = proc[p].candidate /\ r.serving = proc[p].serving
      /\ r.struck = proc[p].struck /\ r.rivals = proc[p].rivals
  BY <1>1, GoTypes
<1>3. Good(proc[p], sockets[p], p) /\ (p \in Clients => PassedBy(proc[p]))
  BY DEF IInv
<1>4. proc' = [proc EXCEPT ![p] = r] /\ Holds(r, S)
  BY DEF Go, Become
<1> HIDE DEF r
<1>5. Walked(r, p)
  BY <1>1, <1>2, <1>3 DEF Good, Walked, Early
<1>6. Good(r, S, p) /\ (p \in Clients => PassedBy(r))
  BY <1>2, <1>3, <1>4, <1>5 DEF Good, PassedBy
<1> QED
  BY <1>4, <1>6, OneStep

\* The socket of a process that holds one.
LEMMA CurrentHeld ==
  ASSUME IInv, NEW p \in Processes, proc[p].place \in Holding
  PROVE  /\ sockets[p] = {Current(p)} /\ Current(p) \in ASocket
         /\ Current(p).address = Candidate(p) /\ (~proc[p].struck => Current(p).reuse)
         /\ proc[p].place \in {"listen", "nonblock", "name", "serving"} => Current(p).bound
         /\ proc[p].place \in {"nonblock", "name", "serving"} => Current(p).listening
         /\ proc[p].place \in {"name", "serving"} => Current(p).nonblocking
         /\ proc[p].candidate \in 1..Len(Addresses)
<1>1. Holds(proc[p], sockets[p]) /\ proc[p].candidate \in Nat \ {0} /\ Len(Addresses) \in Nat
  BY StartupConstants DEF IInv, Good, AProcess
<1>2. PICK s \in ASocket :
        /\ sockets[p] = {s} /\ s.address = Candidate(p) /\ (~proc[p].struck => s.reuse)
        /\ proc[p].place \in {"listen", "nonblock", "name", "serving"} => s.bound
        /\ proc[p].place \in {"nonblock", "name", "serving"} => s.listening
        /\ proc[p].place \in {"name", "serving"} => s.nonblocking
  BY <1>1 DEF Holds, Candidate
<1>3. Current(p) = s
  BY <1>2 DEF Current
<1> QED
  BY <1>1, <1>2, <1>3 DEF Holds

\* A call that fails takes the process to the next candidate, and a server on to it
\* only past a rival or when a call has failed for a reason of its own.
LEMMA OnwardStep ==
  ASSUME IInv, NEW p \in Processes, ~At(p, "serving"), proc[p].place \in Holding,
         NEW struck \in BOOLEAN, NextCandidate(p, struck), UNCHANGED line,
         p \in Servers /\ ~proc[p].struck /\ ~struck => Rivalled(p, Candidate(p)),
         p \in Clients /\ ~struck => ~Listened(p, Candidate(p))
  PROVE  IInv'
<1> DEFINE old == proc[p]
           r == Onward(p, struck)
<1>1. /\ old \in AProcess /\ NumberRead(old.number, DigitBound(p))
      /\ Walked(old, p) /\ (p \in Clients => PassedBy(old))
  BY DEF IInv, Good
<1>2. old.candidate \in 1..Len(Addresses) /\ sockets[p] = {Current(p)} /\ Len(Addresses) \in Nat
  BY CurrentHeld, StartupConstants
<1>3. DOMAIN Addresses = 1..Len(Addresses)
  BY StartupConstants
<1>4. /\ r \in AProcess /\ r.place = "socket" /\ r.candidate = old.candidate + 1
      /\ r.struck = (old.struck \/ struck) /\ r.number = old.number
      /\ r.serving = old.serving
      /\ r.rivals = IF Rivalled(p, Candidate(p)) THEN old.rivals \cup {old.candidate} ELSE old.rivals
  <2> DEFINE rivals == IF Rivalled(p, Candidate(p)) THEN old.rivals \cup {old.candidate}
                       ELSE old.rivals
             ill == old.struck \/ struck
  <2>1. /\ rivals \in SUBSET (DOMAIN Addresses) /\ old.candidate + 1 \in Nat \ {0}
        /\ ill \in BOOLEAN
    BY <1>1, <1>2, <1>3 DEF AProcess
  <2>2. r = [old EXCEPT !.place = "socket", !.candidate = old.candidate + 1,
                        !.struck = ill, !.rivals = rivals]
    BY <1>1 DEF Onward, AProcess
  <2>3. "socket" \in Early \cup Holding \cup Empty
    BY DEF Empty
  <2> HIDE DEF rivals, ill, old, r
  <2>4. r \in AProcess /\ r.place = "socket" /\ r.candidate = old.candidate + 1
        /\ r.struck = ill /\ r.number = old.number /\ r.serving = old.serving
        /\ r.rivals = rivals
    BY <1>1, <2>1, <2>2, <2>3 DEF AProcess
  <2> QED
    BY <2>4 DEF rivals, ill
<1>5. /\ proc' = [proc EXCEPT ![p] = r] /\ sockets' = [sockets EXCEPT ![p] = {}]
  BY <1>2 DEF NextCandidate, Become
<1> HIDE DEF r
<1>6. Walked(r, p)
  <2>1. r.candidate <= Len(Addresses) + 1 /\ r.place \notin Early /\ r.place # "refused"
        /\ r.place # "number"
    BY <1>2, <1>4 DEF Early
  <2>2. ASSUME p \in Servers, ~r.struck PROVE 1..(r.candidate - 1) \subseteq r.rivals
    <3>1. Rivalled(p, Candidate(p)) /\ ~old.struck
      BY <1>4, <2>2
    <3>2. r.rivals = old.rivals \cup {old.candidate} /\ 1..(old.candidate - 1) \subseteq old.rivals
      BY <1>1, <1>4, <2>2, <3>1 DEF Walked
    <3> QED
      BY <1>2, <1>4, <3>2
  <2> QED
    BY <2>1, <2>2 DEF Walked
<1>7. ASSUME p \in Clients PROVE PassedBy(r)
  <2>1. ASSUME NEW q \in r.serving PROVE At(q, "serving") /\ q \in Servers /\ q # p
    BY <1>1, <1>4, <1>7, <2>1, StartupConstants DEF PassedBy, AProcess
  <2>2. ASSUME NEW q \in r.serving, ~r.struck, NEW k \in 1..(r.candidate - 1)
        PROVE  Addresses[k] # Candidate(q)
    <3>1. CASE k = old.candidate
      <4>1. q \in Processes /\ q # p /\ proc[q].place = "serving" /\ "serving" \in Holding
        BY <2>1, <2>2 DEF Processes, At, Holding
      <4>2. Current(q) \in sockets[q] /\ Current(q).address = Candidate(q) /\ Current(q).listening
        BY <4>1, CurrentHeld
      <4>3. Candidate(q) # Candidate(p)
        BY <1>4, <1>7, <2>2, <4>1, <4>2 DEF Listened, Others
      <4> QED
        BY <3>1, <4>3 DEF Candidate
    <3>2. CASE k # old.candidate
      <4>1. ~old.struck /\ q \in old.serving
        BY <1>4, <2>2
      <4>2. k \in 1..old.candidate /\ old.candidate \in Nat
        BY <1>2, <1>4, <2>2
      <4>3. k \in 1..(old.candidate - 1)
        BY <3>2, <4>2
      <4> QED
        BY <1>1, <1>7, <4>1, <4>3 DEF PassedBy
    <3> QED
      BY <3>1, <3>2
  <2> QED
    BY <2>1, <2>2 DEF PassedBy
<1>8. Good(r, {}, p)
  BY <1>1, <1>4, <1>6 DEF Good, Holds, Holding
<1> QED
  BY <1>5, <1>7, <1>8, OneStep

LEMMA ResolveKeeps ==
  ASSUME IInv, NEW p \in Processes, Resolve(p)
  PROVE  IInv'
<1> DEFINE old == proc[p]
<1>1. Good(old, sockets[p], p) /\ old.place = "resolve" /\ ~At(p, "serving")
  BY DEF IInv, Resolve, At
<1>2. PICK place \in {"failed", "socket"} :
        Become(p, [old EXCEPT !.place = place, !.serving = ServingNow])
  BY DEF Resolve
<1> DEFINE r == [old EXCEPT !.place = place, !.serving = ServingNow]
<1>3. /\ place \in Empty /\ place \notin Early /\ place \notin Holding
      /\ place # "refused" /\ place # "number"
  BY DEF Early, Holding, Empty
<1>4. old \in AProcess /\ ServingNow \in SUBSET Servers
  BY <1>1 DEF Good, ServingNow
<1> HIDE DEF old
<1>5. /\ r \in AProcess /\ r.place = place /\ r.number = old.number /\ r.serving = ServingNow
      /\ r.candidate = old.candidate /\ r.struck = old.struck /\ r.rivals = old.rivals
  BY <1>3, <1>4 DEF AProcess
<1> HIDE DEF r
<1>6. sockets[p] = {} /\ old.candidate = 1 /\ NumberRead(old.number, DigitBound(p))
  BY <1>1 DEF Good, Holds, Walked, Early, Holding
<1>7. Walked(r, p) /\ Holds(r, {})
  BY <1>1, <1>3, <1>5, <1>6 DEF Good, Walked, Holds
<1>8. PassedBy(r)
  BY <1>5, <1>6 DEF PassedBy, ServingNow
<1>9. proc' = [proc EXCEPT ![p] = r] /\ sockets' = [sockets EXCEPT ![p] = {}] /\ UNCHANGED line
  BY <1>2, <1>6 DEF Resolve, Become, IInv, r, old
<1> QED
  BY <1>1, <1>5, <1>6, <1>7, <1>8, <1>9, OneStep DEF Good

LEMMA SocketKeeps ==
  ASSUME IInv, NEW p \in Processes, Socket(p)
  PROVE  IInv'
<1> DEFINE old == proc[p]
<1>1. /\ Good(old, sockets[p], p) /\ (p \in Clients => PassedBy(old))
      /\ old.place = "socket" /\ ~At(p, "serving") /\ UNCHANGED line
  BY DEF IInv, Socket, At
<1>2. /\ old.candidate \in 1..Len(Addresses) /\ Len(Addresses) \in Nat /\ sockets[p] = {}
      /\ Candidate(p) \in Range(Addresses)
  <2>1. old.candidate \in Nat \ {0} /\ ~(old.candidate > Len(Addresses)) /\ sockets[p] = {}
    BY <1>1 DEF Socket, Tried, Good, AProcess, Holds, Holding
  <2> QED
    BY <2>1, StartupConstants DEF Candidate, Range
<1>3. ASSUME Become(p, [old EXCEPT !.candidate = @ + 1, !.struck = TRUE]), UNCHANGED sockets
      PROVE  IInv'
  <2> DEFINE r == [old EXCEPT !.candidate = @ + 1, !.struck = TRUE]
  <2>1. old \in AProcess /\ old.candidate + 1 \in Nat \ {0}
    BY <1>1, <1>2 DEF Good
  <2>2. /\ r \in AProcess /\ r.place = "socket" /\ r.number = old.number
        /\ r.candidate = old.candidate + 1 /\ r.struck /\ r.serving = old.serving
    BY <1>1, <2>1 DEF AProcess
  <2>3. proc' = [proc EXCEPT ![p] = r] /\ sockets' = [sockets EXCEPT ![p] = {}]
    BY <1>2, <1>3 DEF Become, IInv
  <2> HIDE DEF r
  <2>4. Walked(r, p) /\ Holds(r, {})
    BY <1>2, <2>2 DEF Walked, Holds, Early, Holding
  <2>5. p \in Clients => PassedBy(r)
    BY <1>1, <2>2 DEF PassedBy
  <2> QED
    BY <1>1, <2>2, <2>3, <2>4, <2>5, OneStep DEF Good
<1>4. ASSUME NEW place \in {"bind", "connect"}, Go(p, place),
             sockets' = [sockets EXCEPT ![p] = @ \cup {NewSocket(Candidate(p), TRUE)}]
      PROVE  IInv'
  <2> DEFINE s == NewSocket(Candidate(p), TRUE)
             r == [old EXCEPT !.place = place]
  <2>1. s \in ASocket /\ s.address = Candidate(p) /\ s.reuse
    BY <1>2 DEF NewSocket, ASocket
  <2>2. place \in Holding /\ place # "refused"
    BY DEF Holding
  <2>3. sockets' = [sockets EXCEPT ![p] = {s}]
    BY <1>2, <1>4 DEF IInv
  <2>4. r.place = place /\ r.candidate = old.candidate
    BY <2>2, GoTypes
  <2> HIDE DEF s, r
  <2>5. Holds(r, {s})
    BY <1>2, <2>1, <2>2, <2>4 DEF Holds, Candidate
  <2> QED
    BY <1>1, <1>4, <2>2, <2>3, <2>5, StayingStep DEF r
<1>5. ASSUME p \in Servers, Become(p, [old EXCEPT !.place = "bind", !.struck = TRUE]),
             sockets' = [sockets EXCEPT ![p] = @ \cup {NewSocket(Candidate(p), FALSE)}]
      PROVE  IInv'
  <2> DEFINE s == NewSocket(Candidate(p), FALSE)
             r == [old EXCEPT !.place = "bind", !.struck = TRUE]
  <2>1. s \in ASocket /\ s.address = Candidate(p)
    BY <1>2 DEF NewSocket, ASocket
  <2>2. "bind" \in Holding /\ "bind" \notin Early /\ "bind" \in Early \cup Holding \cup Empty
        /\ "bind" \notin {"refused", "number", "listen", "nonblock", "name", "serving"}
    BY DEF Holding, Early
  <2>3. old \in AProcess
    BY <1>1 DEF Good
  <2> HIDE DEF s
  <2>7. old.candidate <= Len(Addresses) /\ s.address = Addresses[old.candidate]
    BY <1>2, <2>1 DEF Candidate
  <2> HIDE DEF old
  <2>4. /\ r \in AProcess /\ r.place = "bind" /\ r.number = old.number
        /\ r.candidate = old.candidate /\ r.struck
    <3>1. PICK place : place = "bind"
      OBVIOUS
    <3>2. r = [old EXCEPT !.place = place, !.struck = TRUE]
      BY <3>1
    <3>3. place \in Early \cup Holding \cup Empty
      BY <2>2, <3>1
    <3> HIDE DEF r
    <3> QED
      BY <2>3, <3>1, <3>2, <3>3 DEF AProcess
  <2>5. proc' = [proc EXCEPT ![p] = r] /\ sockets' = [sockets EXCEPT ![p] = {s}]
    BY <1>2, <1>5 DEF Become, IInv, s, old
  <2>6. p \notin Clients
    BY <1>5, StartupConstants
  <2> HIDE DEF r
  <2>8. Walked(r, p) /\ Holds(r, {s})
    BY <1>2, <2>1, <2>2, <2>4, <2>7 DEF Walked, Holds
  <2> QED
    BY <1>1, <2>4, <2>5, <2>6, <2>8, OneStep DEF Good
<1> QED
  BY <1>3, <1>4, <1>5 DEF Socket

LEMMA CallKeeps ==
  ASSUME IInv, NEW p \in Processes,
         NEW name \in Holding \ {"serving"}, NEW next \in Holding,
         NEW allowed \in BOOLEAN, NEW s \in ASocket, Call(p, name, allowed, s, next),
         At(p, name) => Holds([proc[p] EXCEPT !.place = next], {s}),
         p \in Servers /\ ~proc[p].struck /\ ~allowed => Rivalled(p, Candidate(p)),
         p \in Clients => (allowed <=> Listened(p, Candidate(p)))
  PROVE  IInv'
<1>1. proc[p].place = name /\ ~At(p, "serving") /\ UNCHANGED line
  BY DEF Call, At
<1>2. ASSUME Go(p, next), sockets' = [sockets EXCEPT ![p] = (@ \ {Current(p)}) \cup {s}]
      PROVE  IInv'
  <2>1. sockets' = [sockets EXCEPT ![p] = {s}]
    BY <1>1, <1>2, CurrentHeld DEF IInv
  <2>2. next # "refused" /\ Holds([proc[p] EXCEPT !.place = next], {s})
    BY <1>1 DEF At, Holding
  <2> QED
    BY <1>1, <1>2, <2>1, <2>2, StayingStep
<1>3. ASSUME NEW struck \in BOOLEAN, struck \/ ~allowed, NextCandidate(p, struck)
      PROVE  IInv'
  BY <1>1, <1>3, OnwardStep
<1> QED
  BY <1>2, <1>3 DEF Call

\* An address is refused only where another process listens, or is bound without
\* SO_REUSEADDR: create_listener sets it before bind, so that nothing else refuses.
LEMMA TakenRivalled ==
  ASSUME IInv, NEW p \in Processes, proc[p].place \in Holding, ~proc[p].struck,
         Taken(p, Candidate(p), Current(p))
  PROVE  Rivalled(p, Candidate(p))
<1>1. Current(p).reuse
  BY CurrentHeld
<1> QED
  BY <1>1 DEF Taken, Rivalled

\* What the current socket of p is when p has gone on to its next call with it.
LEMMA HoldsNext ==
  ASSUME IInv, NEW p \in Processes, proc[p].place \in Holding, NEW next \in Holding,
         NEW s \in ASocket, s.address = Candidate(p), ~proc[p].struck => s.reuse,
         next \in {"listen", "nonblock", "name", "serving"} => s.bound,
         next \in {"nonblock", "name", "serving"} => s.listening,
         next \in {"name", "serving"} => s.nonblocking
  PROVE  Holds([proc[p] EXCEPT !.place = next], {s})
<1> DEFINE r == [proc[p] EXCEPT !.place = next]
<1>1. r.place = next /\ r.candidate = proc[p].candidate /\ r.struck = proc[p].struck
  BY GoTypes
<1>2. r.candidate <= Len(Addresses) /\ s.address = Addresses[r.candidate]
  BY <1>1, CurrentHeld, StartupConstants DEF Candidate
<1> HIDE DEF r
<1>3. Holds(r, {s})
  BY <1>1, <1>2 DEF Holds
<1> QED
  BY <1>3 DEF r

LEMMA ListenerKeeps ==
  ASSUME IInv, NEW p \in Servers, Bind(p) \/ Listen(p) \/ SetNonblocking(p)
  PROVE  IInv'
<1> USE DEF Processes
<1>1. p \notin Clients
  BY StartupConstants
<1>2. ASSUME proc[p].place \in Holding
      PROVE  /\ Current(p) \in ASocket /\ Current(p).address = Candidate(p)
             /\ ~proc[p].struck => Current(p).reuse
             /\ proc[p].place \in {"listen", "nonblock"} => Current(p).bound
             /\ proc[p].place = "nonblock" => Current(p).listening
  BY <1>2, CurrentHeld
<1>3. CASE Bind(p)
  <2> DEFINE s == [Current(p) EXCEPT !.bound = TRUE]
  <2>1. proc[p].place = "bind" /\ proc[p].place \in Holding
    BY <1>3 DEF Bind, Call, At, Holding
  <2>2. s \in ASocket /\ s.address = Candidate(p) /\ (~proc[p].struck => s.reuse) /\ s.bound
    BY <1>2, <2>1 DEF ASocket
  <2>3. Call(p, "bind", ~Taken(p, Candidate(p), Current(p)), s, "listen")
    BY <1>3 DEF Bind
  <2>4. ~proc[p].struck /\ ~~Taken(p, Candidate(p), Current(p)) => Rivalled(p, Candidate(p))
    BY <2>1, TakenRivalled
  <2> HIDE DEF s
  <2>5. Holds([proc[p] EXCEPT !.place = "listen"], {s})
    BY <2>1, <2>2, HoldsNext DEF Holding
  <2> QED
    BY <1>1, <2>2, <2>3, <2>4, <2>5, CallKeeps DEF Holding
<1>4. CASE Listen(p)
  <2> DEFINE s == [Current(p) EXCEPT !.listening = TRUE]
  <2>1. proc[p].place = "listen" /\ proc[p].place \in Holding
    BY <1>4 DEF Listen, Call, At, Holding
  <2>2. s \in ASocket /\ s.address = Candidate(p) /\ (~proc[p].struck => s.reuse) /\ s.bound /\ s.listening
    BY <1>2, <2>1 DEF ASocket
  <2>3. Call(p, "listen", ~Listened(p, Candidate(p)), s, "nonblock")
    BY <1>4 DEF Listen
  <2> HIDE DEF s
  <2>4. Holds([proc[p] EXCEPT !.place = "nonblock"], {s})
    BY <2>1, <2>2, HoldsNext DEF Holding
  <2>5. ~~Listened(p, Candidate(p)) => Rivalled(p, Candidate(p))
    BY DEF Listened, Rivalled
  <2> QED
    BY <1>1, <2>2, <2>3, <2>4, <2>5, CallKeeps DEF Holding
<1>5. CASE SetNonblocking(p)
  <2> DEFINE s == [Current(p) EXCEPT !.nonblocking = TRUE]
  <2>1. proc[p].place = "nonblock" /\ proc[p].place \in Holding
    BY <1>5 DEF SetNonblocking, Call, At, Holding
  <2>2. /\ s \in ASocket /\ s.address = Candidate(p) /\ (~proc[p].struck => s.reuse) /\ s.bound /\ s.listening
        /\ s.nonblocking
    BY <1>2, <2>1 DEF ASocket
  <2>3. Call(p, "nonblock", TRUE, s, "name")
    BY <1>5 DEF SetNonblocking
  <2> HIDE DEF s
  <2>4. Holds([proc[p] EXCEPT !.place = "name"], {s})
    BY <2>1, <2>2, HoldsNext DEF Holding
  <2> QED
    BY <1>1, <2>2, <2>3, <2>4, CallKeeps DEF Holding
<1> QED
  BY <1>3, <1>4, <1>5

LEMMA ConnectKeeps ==
  ASSUME IInv, NEW p \in Clients, Connect(p)
  PROVE  IInv'
<1>1. p \in Processes /\ p \notin Servers
  BY StartupConstants DEF Processes
<1>2. proc[p].place = "connect" /\ proc[p].place \in Holding
  BY DEF Connect, Call, At, Holding
<1>3. /\ Current(p) \in ASocket /\ Current(p).address = Candidate(p)
      /\ ~proc[p].struck => Current(p).reuse
  BY <1>1, <1>2, CurrentHeld
<1>4. Holds([proc[p] EXCEPT !.place = "connected"], {Current(p)})
  BY <1>1, <1>2, <1>3, HoldsNext DEF Holding
<1>5. Call(p, "connect", Listened(p, Candidate(p)), Current(p), "connected")
  BY DEF Connect
<1>6. Listened(p, Candidate(p)) \in BOOLEAN
  BY DEF Listened
<1>7. "connect" \in Holding \ {"serving"} /\ "connected" \in Holding
  BY DEF Holding
<1> QED
  BY <1>1, <1>3, <1>4, <1>5, <1>6, <1>7, CallKeeps

LEMMA ExhaustedKeeps ==
  ASSUME IInv, NEW p \in Processes, Exhausted(p)
  PROVE  IInv'
<1>1. Good(proc[p], sockets[p], p) /\ proc[p].place = "socket" /\ Len(Addresses) \in Nat
  BY StartupConstants DEF IInv, Exhausted, At
<1>2. proc[p].candidate = Len(Addresses) + 1 /\ sockets[p] = {}
  <2>1. proc[p].candidate > Len(Addresses) /\ proc[p].candidate <= Len(Addresses) + 1
        /\ proc[p].candidate \in Nat
    BY <1>1 DEF Exhausted, Tried, Good, Walked, AProcess
  <2> QED
    BY <1>1, <2>1 DEF Good, Holds, Holding
<1>3. Go(p, "refused") /\ UNCHANGED line /\ sockets' = [sockets EXCEPT ![p] = {}]
  BY <1>2 DEF Exhausted, IInv
<1>4. Holds([proc[p] EXCEPT !.place = "refused"], {}) /\ ~At(p, "serving")
  BY <1>1, GoTypes DEF Holds, Holding, At, Empty
<1> QED
  BY <1>2, <1>3, <1>4, StayingStep

LEMMA NameKeeps ==
  ASSUME IInv, NEW p \in Processes, Name(p)
  PROVE  IInv'
<1>1. proc[p].place = "name" /\ proc[p].place \in Holding /\ ~At(p, "serving") /\ UNCHANGED line
  BY DEF Name, At, Holding
<1>2. /\ sockets[p] = {Current(p)} /\ Current(p) \in ASocket
      /\ Current(p).address = Candidate(p) /\ (~proc[p].struck => Current(p).reuse)
      /\ Current(p).bound /\ Current(p).listening /\ Current(p).nonblocking
  BY <1>1, CurrentHeld
<1>3. CASE Go(p, "failed") /\ sockets' = [sockets EXCEPT ![p] = @ \ {Current(p)}]
  <2>1. sockets' = [sockets EXCEPT ![p] = {}]
    BY <1>2, <1>3 DEF IInv
  <2>2. Holds([proc[p] EXCEPT !.place = "failed"], {})
    BY GoTypes DEF Holds, Holding, Empty
  <2> QED
    BY <1>1, <1>3, <2>1, <2>2, StayingStep
<1>4. CASE Go(p, "serving") /\ sockets' = [sockets EXCEPT ![p] = @]
  <2>1. Holds([proc[p] EXCEPT !.place = "serving"], {Current(p)})
    BY <1>1, <1>2, HoldsNext DEF Holding
  <2>2. sockets' = [sockets EXCEPT ![p] = {Current(p)}]
    BY <1>2, <1>4 DEF IInv
  <2> QED
    BY <1>1, <1>4, <2>1, <2>2, StayingStep DEF Holding
<1> QED
  BY <1>3, <1>4 DEF Name

-----------------------------------------------------------------------------
\* A server that ends is taken off what the clients' walks rely on.
LEMMA StopKeeps ==
  ASSUME IInv, NEW p \in Processes, Stop(p)
  PROVE  IInv'
<1> DEFINE new == NewProcess(proc[p].starts)
           other(q) == [proc[q] EXCEPT !.serving = @ \ {p}]
<1>1. /\ proc' = [q \in Processes |-> IF q = p THEN new ELSE other(q)]
      /\ sockets' = [sockets EXCEPT ![p] = {}] /\ UNCHANGED line /\ p \in Servers
  BY DEF Stop
<1>2. Good(new, {}, p) /\ PassedBy(new)
  <2>1. proc[p].starts \in Nat
    BY ArgumentTypes DEF AProcess
  <2> QED
    BY <2>1, NewProcessGood
<1>3. ASSUME NEW q \in Processes, q # p
      PROVE  /\ Good(other(q), sockets[q], q)
             /\ other(q).serving = proc[q].serving \ {p}
             /\ other(q).candidate = proc[q].candidate
             /\ other(q).struck = proc[q].struck /\ other(q).place = proc[q].place
  <2> DEFINE old == proc[q]
             r == other(q)
  <2>1. Good(old, sockets[q], q) /\ old \in AProcess
    BY DEF IInv, Good
  <2> HIDE DEF old
  <2>2. /\ r \in AProcess /\ r.place = old.place /\ r.number = old.number /\ r.at = old.at
        /\ r.candidate = old.candidate /\ r.struck = old.struck /\ r.rivals = old.rivals
        /\ r.serving = old.serving \ {p}
    BY <2>1 DEF AProcess, old
  <2> HIDE DEF r
  <2>3. Good(r, sockets[q], q)
    BY <2>1, <2>2 DEF Good, Holds, Walked
  <2> QED
    BY <2>2, <2>3 DEF r, old
<1> HIDE DEF new, other
<1>4. ASSUME NEW q \in Processes PROVE Good(proc[q], sockets[q], q)'
  <2>1. Good(proc'[q], sockets'[q], q)
    BY <1>1, <1>2, <1>3 DEF IInv
  <2> QED
    BY <1>1, <2>1 DEF Good, Walked
<1>5. ASSUME NEW c \in Clients PROVE PassedBy(proc[c])'
  <2>1. c \in Processes /\ c # p
    BY <1>1, StartupConstants DEF Processes
  <2>2. proc'[c] = other(c) /\ proc[c].serving \subseteq Servers /\ PassedBy(proc[c])
    BY <1>1, <2>1 DEF IInv, Good, AProcess
  <2>3. ASSUME NEW q \in proc'[c].serving
        PROVE  /\ q \in proc[c].serving /\ proc'[q].place = proc[q].place
               /\ proc'[q].candidate = proc[q].candidate
    BY <1>1, <1>3, <2>1, <2>2 DEF Processes
  <2>4. proc'[c].struck = proc[c].struck /\ proc'[c].candidate = proc[c].candidate
    BY <1>3, <2>1, <2>2
  <2> QED
    BY <2>2, <2>3, <2>4 DEF PassedBy, At, Candidate
<1>6. /\ proc' = [q \in Processes |-> proc'[q]] /\ sockets' = [q \in Processes |-> sockets'[q]]
      /\ line' \in [Processes -> Seq(AnArgument)]
  BY <1>1 DEF IInv
<1> QED
  BY <1>4, <1>5, <1>6 DEF IInv

LEMMA InitKeeps == Init => IInv
<1> SUFFICES ASSUME Init PROVE IInv
  OBVIOUS
<1>1. proc = [p \in Processes |-> NewProcess(0)] /\ sockets = [p \in Processes |-> {}]
  BY DEF Init
<1>2. line \in [Processes -> Seq(AnArgument)]
  BY StartupConstants DEF Init, AnArgument, Text
<1>3. \A p \in Processes : Good(proc[p], sockets[p], p) /\ PassedBy(proc[p])
  BY <1>1, NewProcessGood, 0 \in Nat
<1> QED
  BY <1>1, <1>2, <1>3 DEF IInv, Processes

LEMMA StutterKeeps ==
  ASSUME IInv, UNCHANGED <<line, proc, sockets>>
  PROVE  IInv'
<1>1. line' = line /\ proc' = proc /\ sockets' = sockets
  OBVIOUS
<1>2. \A p \in Processes : Good(proc[p], sockets[p], p)'
  BY <1>1 DEF IInv, Good, Walked
<1>3. \A p \in Clients : PassedBy(proc[p])'
  BY <1>1 DEF IInv, PassedBy, At, Candidate
<1> QED
  BY <1>1, <1>2, <1>3 DEF IInv

LEMMA NextKeeps == IInv /\ [Next]_vars => IInv'
<1> SUFFICES ASSUME IInv, [Next]_vars PROVE IInv'
  OBVIOUS
<1>1. CASE Expire \/ UNCHANGED vars
  BY <1>1, StutterKeeps DEF Expire, vars
<1>2. ASSUME NEW p \in Processes, Start(p) PROVE IInv'
  BY <1>2, StartKeeps
<1>3. ASSUME NEW p \in Processes, ReadArguments(p) PROVE IInv'
  BY <1>3, ReadArgumentsKeeps
<1>4. ASSUME NEW p \in Processes, Walk(p) PROVE IInv'
  BY <1>4, ResolveKeeps, SocketKeeps, ExhaustedKeeps, ListenerKeeps, NameKeeps, ConnectKeeps
  DEF Walk
<1>5. ASSUME NEW p \in Processes, Stop(p) PROVE IInv'
  BY <1>5, StopKeeps
<1> QED
  BY <1>1, <1>2, <1>3, <1>4, <1>5 DEF Next

\* The inductive invariant holds in every state (main of both programs, up to the
\* first use of the network).
THEOREM StartupInvariant == Spec => []IInv
  BY InitKeeps, NextKeeps, PTL DEF Spec

\* Every number of a command line is read exactly, for every width of the word
\* (parse_uint64, parse_port).
THEOREM NumbersAreExact == Spec => []NumbersExact
<1>1. IInv => NumbersExact
  BY DEF IInv, Good, NumberRead, NumbersExact
<1> QED
  BY <1>1, StartupInvariant, PTL

\* No candidate leaves its socket behind, and what a server serves on is bound,
\* listening and non-blocking (create_listener, connect_to_server).
THEOREM SocketsAreAccounted == Spec => []SocketsAccounted
<1>1. IInv => SocketsAccounted
  <2> SUFFICES ASSUME IInv, NEW p \in Processes
               PROVE  /\ Cardinality(sockets[p]) = IF proc[p].place \in Holding THEN 1 ELSE 0
                      /\ At(p, "serving") =>
                           \A s \in sockets[p] : s.bound /\ s.listening /\ s.nonblocking
    BY DEF SocketsAccounted, Holding
  <2>1. CASE proc[p].place \in Holding
    <3>1. sockets[p] = {Current(p)}
      BY <2>1, CurrentHeld
    <3>2. Cardinality(sockets[p]) = 1
      BY <3>1, FS_Singleton
    <3>3. At(p, "serving") => \A s \in sockets[p] : s.bound /\ s.listening /\ s.nonblocking
      BY <2>1, <3>1, CurrentHeld DEF At
    <3> QED
      BY <2>1, <3>2, <3>3
  <2>2. CASE proc[p].place \notin Holding
    <3>1. sockets[p] = {}
      BY <2>2 DEF IInv, Good, Holds
    <3>2. Cardinality(sockets[p]) = 0
      BY <3>1, FS_EmptySet
    <3> QED
      BY <2>2, <3>1, <3>2
  <2> QED
    BY <2>1, <2>2
<1> QED
  BY <1>1, StartupInvariant, PTL

\* A server that gives up, no call having failed for a reason of its own, met a
\* listener on every address, or a socket whose setsockopt had failed: neither a lingering connection nor another start at
\* the same moment keeps it from starting (create_listener).
THEOREM RefusalsHaveListeners == Spec => []RefusedByListeners
<1>1. IInv => RefusedByListeners
  <2> SUFFICES ASSUME IInv, NEW p \in Servers, At(p, "refused"), ~proc[p].struck
               PROVE  proc[p].rivals = DOMAIN Addresses
    BY DEF RefusedByListeners
  <2>1. Good(proc[p], sockets[p], p)
    BY DEF IInv, Processes
  <2>2. /\ 1..Len(Addresses) \subseteq proc[p].rivals
        /\ proc[p].rivals \subseteq DOMAIN Addresses
    <3>1. proc[p].candidate = Len(Addresses) + 1 /\ Len(Addresses) \in Nat
      BY <2>1, StartupConstants DEF Good, Walked, At
    <3>2. proc[p].candidate - 1 = Len(Addresses)
      BY <3>1
    <3> QED
      BY <2>1, <3>2 DEF Good, Walked, AProcess
  <2>3. DOMAIN Addresses = 1..Len(Addresses)
    BY StartupConstants
  <2> QED
    BY <2>2, <2>3
<1> QED
  BY <1>1, StartupInvariant, PTL

\* A client that gives up, no call having failed for a reason of its own, had no
\* server to reach: none has been serving since its walk began (connect_to_server).
THEOREM ServersAreReached == Spec => []ServersReached
<1>1. IInv => ServersReached
  <2> SUFFICES ASSUME IInv, NEW p \in Clients, At(p, "refused"), ~proc[p].struck,
                      NEW q \in proc[p].serving
               PROVE  FALSE
    BY DEF ServersReached
  <2>1. Good(proc[p], sockets[p], p) /\ PassedBy(proc[p]) /\ q \in Processes
    BY DEF IInv, Processes, Good, AProcess
  <2>2. proc[p].candidate = Len(Addresses) + 1 /\ Len(Addresses) \in Nat
    BY <2>1, StartupConstants DEF Good, Walked, At
  <2>3. proc[p].candidate - 1 = Len(Addresses)
    BY <2>2
  <2>4. proc[q].place \in Holding
    BY <2>1 DEF PassedBy, At, Holding
  <2>5. proc[q].candidate \in 1..(proc[p].candidate - 1)
    BY <2>1, <2>3, <2>4, CurrentHeld
  <2> QED
    BY <2>1, <2>5 DEF PassedBy, Candidate
<1> QED
  BY <1>1, StartupInvariant, PTL

-----------------------------------------------------------------------------
(***************************************************************************)
(* What a text of digits means: the recursive function of ValueOf exists,  *)
(* and grows with the digits.                                              *)
(***************************************************************************)
\* A set of numbers has a least element.
LEMMA Least ==
  ASSUME NEW T \in SUBSET Nat, T # {}
  PROVE  \E x \in T : \A y \in T : x <= y
<1> DEFINE R == OpToRel(<, Nat)
<1>1. IsWellFoundedOn(R, Nat)
  BY NatLessThanWellFounded, Zenon
<1>2. \A x, y \in Nat : y < x => <<y, x>> \in R
  BY Zenon DEF OpToRel
<1> HIDE DEF R
<1>3. PICK x \in T : \A y \in T : ~ (<<y, x>> \in R)
  BY <1>1, WFMin, Zenon
<1>4. \A y \in T : ~(y < x)
  BY <1>2, <1>3, Zenon
<1> QED
  BY <1>4

\* f is the function of ValueOf for the first n characters.
IsValue(f, text, n) ==
  f = [i \in 0..n |-> IF i = 0 THEN 0 ELSE f[i - 1] * 10 + text[i]]

Prefixes(text) == CHOOSE f : IsValue(f, text, Len(text))

\* Hence the function of ValueOf exists, for every length.
LEMMA ValueExists ==
  ASSUME NEW text, NEW n \in Nat
  PROVE  \E f : IsValue(f, text, n)
<1> DEFINE T == {k \in Nat : ~ \E f : IsValue(f, text, k)}
<1> SUFFICES ASSUME T # {} PROVE FALSE
  OBVIOUS
<1>1. PICK k \in T : \A m \in T : k <= m
  BY Least
<1>2. k # 0
  <2>1. IsValue([i \in 0..0 |-> 0], text, 0)
    BY DEF IsValue
  <2> QED
    BY <1>1, <2>1
<1>3. PICK f : IsValue(f, text, k - 1)
  <2>1. k - 1 \in Nat /\ ~ (k <= k - 1)
    BY <1>1, <1>2
  <2> QED
    BY <1>1, <2>1
<1> DEFINE g == [i \in 0..k |-> IF i = k THEN f[k - 1] * 10 + text[k] ELSE f[i]]
<1>4. k \in Nat
  BY <1>1
<1>5. ASSUME NEW i \in 0..k
      PROVE  g[i] = IF i = 0 THEN 0 ELSE g[i - 1] * 10 + text[i]
  <2>1. CASE i = k
    <3>1. g[k] = f[k - 1] * 10 + text[k] /\ g[k - 1] = f[k - 1]
      BY <1>2, <1>4
    <3> HIDE DEF g
    <3> QED
      BY <1>2, <2>1, <3>1
  <2>2. CASE i # k
    <3>1. i \in 0..(k - 1) /\ g[i] = f[i]
      BY <1>4, <1>5, <2>2
    <3>2. i # 0 => g[i - 1] = f[i - 1]
      BY <1>4, <1>5, <2>2
    <3>3. f[i] = IF i = 0 THEN 0 ELSE f[i - 1] * 10 + text[i]
      BY <1>3, <3>1 DEF IsValue
    <3> HIDE DEF g
    <3> QED
      BY <3>1, <3>2, <3>3
  <2> QED
    BY <2>1, <2>2
<1>6. IsValue(g, text, k)
  BY <1>5 DEF IsValue
<1> HIDE DEF g
<1> QED
  BY <1>1, <1>6

\* What ValueOf is, without its recursion.
LEMMA PrefixesAre ==
  ASSUME NEW text, Len(text) \in Nat
  PROVE  /\ Prefixes(text)[0] = 0
         /\ \A i \in 1..Len(text) : Prefixes(text)[i] = Prefixes(text)[i - 1] * 10 + text[i]
         /\ ValueOf(text) = Prefixes(text)[Len(text)]
<1> DEFINE f == Prefixes(text)
<1>1. IsValue(f, text, Len(text))
  BY ValueExists DEF Prefixes
<1>2. ValueOf(text) = f[Len(text)]
  BY DEF ValueOf, IsValue, Prefixes
<1> HIDE DEF f
<1>3. f[0] = 0 /\ \A i \in 1..Len(text) : f[i] = f[i - 1] * 10 + text[i]
  BY <1>1 DEF IsValue
<1> QED
  BY <1>2, <1>3 DEF f

LEMMA DigitAdds ==
  ASSUME NEW value \in Nat, NEW digit \in 0..9, NEW least \in Nat, least <= value
  PROVE  value * 10 + digit \in Nat /\ least <= value * 10 + digit
OBVIOUS

\* More digits never mean less.
LEMMA ValuesGrow ==
  ASSUME NEW text \in Text, \A i \in DOMAIN text : IsDigit(text[i]), NEW m \in 0..Len(text)
  PROVE  /\ Prefixes(text)[m] \in Nat /\ ValueOf(text) \in Nat
         /\ Prefixes(text)[m] <= ValueOf(text)
<1> DEFINE f == Prefixes(text)
<1>1. Len(text) \in Nat /\ \A i \in 1..Len(text) : text[i] \in 0..9
  BY DEF Text, IsDigit
<1>2. /\ f[0] = 0 /\ \A i \in 1..Len(text) : f[i] = f[i - 1] * 10 + text[i]
      /\ ValueOf(text) = f[Len(text)]
  BY <1>1, PrefixesAre
<1> HIDE DEF f
<1>3. \A j \in 0..Len(text) : f[j] \in Nat
  <2> DEFINE T == {j \in 0..Len(text) : f[j] \notin Nat}
  <2> SUFFICES ASSUME T # {} PROVE FALSE
    OBVIOUS
  <2>1. T \in SUBSET Nat
    BY <1>1
  <2>2. PICK j \in T : \A k \in T : j <= k
    BY <2>1, Least
  <2>3. j \in 1..Len(text) /\ j - 1 \in 0..Len(text) /\ j - 1 \notin T
    BY <1>1, <1>2, <2>2
  <2>4. f[j - 1] \in Nat /\ f[j] = f[j - 1] * 10 + text[j] /\ text[j] \in 0..9
    BY <1>1, <1>2, <2>3
  <2>5. f[j] \in Nat
    <3>1. f[j - 1] <= f[j - 1]
      BY <2>4
    <3> QED
      BY <2>4, <3>1, DigitAdds
  <2> QED
    BY <2>2, <2>5
<1>4. \A j \in m..Len(text) : f[m] <= f[j]
  <2> DEFINE T == {j \in m..Len(text) : ~ (f[m] <= f[j])}
  <2> SUFFICES ASSUME T # {} PROVE FALSE
    OBVIOUS
  <2>1. T \in SUBSET Nat
    BY <1>1
  <2>2. PICK j \in T : \A k \in T : j <= k
    BY <2>1, Least
  <2>3. j # m
    BY <1>3, <2>2
  <2>4. j \in 1..Len(text) /\ j - 1 \in m..Len(text) /\ j - 1 \notin T
    BY <1>1, <2>2, <2>3
  <2>5. f[j - 1] \in Nat /\ f[j] = f[j - 1] * 10 + text[j] /\ text[j] \in 0..9
    BY <1>1, <1>2, <1>3, <2>4
  <2>6. f[m] <= f[j - 1] /\ f[m] \in Nat
    BY <1>3, <2>4
  <2>7. f[m] <= f[j]
    BY <2>5, <2>6, DigitAdds
  <2> QED
    BY <2>2, <2>7
<1> QED
  BY <1>1, <1>2, <1>3, <1>4 DEF f

\* exact is what the digits read so far mean.
MeansSoFar(n) == n.exact = Prefixes(n.text)[n.at]

\* The loop over the digits starts with what no digit means.
LEMMA UnreadMeans ==
  ASSUME NEW text \in Text
  PROVE  MeansSoFar(Unread(text)) /\ Unread(text).text = text
<1>1. Unread(text).exact = 0 /\ Unread(text).at = 0 /\ Unread(text).text = text
  BY DEF Unread
<1>2. Prefixes(text)[0] = 0
  BY PrefixesAre DEF Text
<1> QED
  BY <1>1, <1>2 DEF MeansSoFar

\* A turn of the loop over the digits keeps exact at their meaning.
LEMMA StepMeans ==
  ASSUME NEW n, NEW bound, NumberRead(n, bound), n.verdict = "open", MeansSoFar(n)
  PROVE  MeansSoFar(Step(n, bound)) /\ Step(n, bound).text = n.text
<1>1. /\ n \in [text : Text, at : Nat, value : 0..WordMax, exact : Nat,
                verdict : {"open", "accepted", "rejected"}]
      /\ n.at <= Len(n.text)
  BY DEF NumberRead
<1>2. CASE n.at = Len(n.text)
  <2>1. Step(n, bound) = [n EXCEPT !.verdict = "accepted"]
    BY <1>2 DEF Step
  <2> QED
    BY <1>1, <2>1 DEF MeansSoFar
<1>3. CASE n.at < Len(n.text) /\ Refuses(n, bound)
  <2>1. Step(n, bound) = [n EXCEPT !.verdict = "rejected"]
    BY <1>1, <1>3 DEF Step, Text
  <2> QED
    BY <1>1, <2>1 DEF MeansSoFar
<1>4. CASE n.at < Len(n.text) /\ ~Refuses(n, bound)
  <2> DEFINE value == Appended(n.value, Character(n))
             exact == n.exact * 10 + Character(n)
  <2>1. Step(n, bound) = [n EXCEPT !.at = @ + 1, !.value = Appended(@, Character(n)),
                                   !.exact = @ * 10 + Character(n)]
    BY <1>1, <1>4 DEF Step, Text
  <2>2. Step(n, bound) = [n EXCEPT !.at = n.at + 1, !.value = value, !.exact = exact]
    BY <1>1, <2>1
  <2> HIDE DEF value, exact
  <2>3. /\ Step(n, bound).exact = exact /\ Step(n, bound).at = n.at + 1
        /\ Step(n, bound).text = n.text
    BY <1>1, <2>2
  <2>4. Prefixes(n.text)[n.at + 1] = Prefixes(n.text)[n.at] * 10 + n.text[n.at + 1]
    <3>1. Len(n.text) \in Nat /\ n.at + 1 \in 1..Len(n.text) /\ (n.at + 1) - 1 = n.at
      BY <1>1, <1>4 DEF Text
    <3> QED
      BY <3>1, PrefixesAre
  <2> QED
    BY <2>3, <2>4 DEF MeansSoFar, exact, Character
<1> QED
  BY <1>1, <1>2, <1>3, <1>4 DEF Text

\* The verdict on a text is the right one.
LEMMA VerdictRight ==
  ASSUME NEW n, NEW bound \in 0..WordMax, NumberRead(n, bound), MeansSoFar(n)
  PROVE  /\ n.verdict = "accepted" =>
              /\ n.value = ValueOf(n.text)
              /\ \A least, most \in Nat : n.value \in least..most => IsNumber(n.text, least, most)
         /\ n.verdict = "rejected" =>
              \A least, most \in Nat : most <= bound => ~IsNumber(n.text, least, most)
<1>1. /\ n.text \in Text /\ n.at \in Nat /\ n.exact \in Nat /\ n.value = n.exact
      /\ n.at <= Len(n.text) /\ Exact(n, bound) /\ Len(n.text) \in Nat
  BY DEF NumberRead, Exact, Text
<1>2. ASSUME n.verdict = "accepted"
      PROVE  /\ n.value = ValueOf(n.text)
             /\ \A least, most \in Nat : n.value \in least..most => IsNumber(n.text, least, most)
  <2>1. n.text # <<>> /\ n.at = Len(n.text) /\ \A i \in 1..n.at : IsDigit(n.text[i])
    BY <1>1, <1>2 DEF Exact
  <2>2. n.value = ValueOf(n.text)
    BY <1>1, <2>1, PrefixesAre DEF MeansSoFar
  <2> QED
    BY <1>1, <2>1, <2>2 DEF IsNumber, Text
<1>3. ASSUME n.verdict = "rejected", NEW least \in Nat, NEW most \in Nat, most <= bound,
             IsNumber(n.text, least, most)
      PROVE  FALSE
  <2>1. /\ n.text # <<>> /\ \A i \in DOMAIN n.text : IsDigit(n.text[i])
        /\ ValueOf(n.text) <= most
    BY <1>3 DEF IsNumber
  <2>2. n.at < Len(n.text)
    BY <1>1, <1>3, <2>1 DEF Exact
  <2>3. n.at + 1 \in 1..Len(n.text) /\ DOMAIN n.text = 1..Len(n.text) /\ (n.at + 1) - 1 = n.at
    BY <1>1, <2>2 DEF Text
  <2>4. n.exact * 10 + n.text[n.at + 1] > bound
    BY <1>1, <1>3, <2>1, <2>3 DEF Exact, Character
  <2>5. Prefixes(n.text)[n.at + 1] = n.exact * 10 + n.text[n.at + 1]
    BY <1>1, <2>3, PrefixesAre DEF MeansSoFar
  <2>6. /\ Prefixes(n.text)[n.at + 1] \in Nat /\ ValueOf(n.text) \in Nat
        /\ Prefixes(n.text)[n.at + 1] <= ValueOf(n.text)
    <3> DEFINE m == n.at + 1
    <3>1. m \in 0..Len(n.text)
      BY <1>1, <2>3
    <3> HIDE DEF m
    <3>2. /\ Prefixes(n.text)[m] \in Nat /\ ValueOf(n.text) \in Nat
          /\ Prefixes(n.text)[m] <= ValueOf(n.text)
      BY <1>1, <2>1, <3>1, ValuesGrow
    <3> QED
      BY <3>2 DEF m
  <2> HIDE DEF Prefixes
  <2> QED
    BY <1>3, <2>1, <2>4, <2>5, <2>6, WordConstant
<1> QED
  BY <1>2, <1>3

-----------------------------------------------------------------------------
(***************************************************************************)
(* What a command line says: the flag and the value of its pair j, counted *)
(* from 0 behind the operation.                                            *)
(***************************************************************************)
First(p) == IF p \in Servers THEN 1 ELSE 2

Spot(p, j)    == First(p) + 2 * j + 1
InLine(p, j)  == Spot(p, j) <= Len(line[p])
FlagAt(p, j)  == line[p][First(p) + 2 * j].word
ValueAt(p, j) == line[p][Spot(p, j)]

Readable(p, flag, v) ==
  CASE flag = "--port" -> IsNumber(v.text, IF p \in Servers THEN 0 ELSE 1, PortMax)
    [] flag = "--delay-ms" -> IsNumber(v.text, 0, DelayMax)
    [] flag = "--remote" -> v.word \notin Unsafe
    [] OTHER -> p \in Servers \/ v.word # ""

Meaning(flag, v) == IF flag \in Numeric THEN ValueOf(v.text) ELSE v

\* given is what the pairs before k say.
ReadTo(p, k, given) ==
  /\ \A j \in 0..(k - 1) : FlagAt(p, j) \in Flags(p) /\ Readable(p, FlagAt(p, j), ValueAt(p, j))
  /\ DOMAIN given = {FlagAt(p, j) : j \in 0..(k - 1)}
  /\ \A flag \in DOMAIN given : \E j \in 0..(k - 1) :
       /\ FlagAt(p, j) = flag /\ given[flag] = Meaning(flag, ValueAt(p, j))
       /\ \A m \in 0..(k - 1) : FlagAt(p, m) = flag => m <= j
  /\ p \in Clients => \A i, j \in 0..(k - 1) :
       FlagAt(p, i) = FlagAt(p, j) /\ FlagAt(p, i) \in Needed(p) => i = j

\* Before the loop over the arguments no pair is read.
LEMMA ReadNothing ==
  ASSUME NEW p
  PROVE  ReadTo(p, 0, <<>>)
BY DEF ReadTo

\* A pair that is right extends what is read.
LEMMA ReadMore ==
  ASSUME NEW p, NEW k \in Nat, NEW given, ReadTo(p, k, given),
         FlagAt(p, k) \in Flags(p), Readable(p, FlagAt(p, k), ValueAt(p, k)),
         p \in Clients /\ FlagAt(p, k) \in Needed(p) => FlagAt(p, k) \notin DOMAIN given
  PROVE  ReadTo(p, k + 1, [f \in DOMAIN given \cup {FlagAt(p, k)} |->
                             IF f = FlagAt(p, k) THEN Meaning(f, ValueAt(p, k)) ELSE given[f]])
<1> DEFINE flag == FlagAt(p, k)
           new  == [f \in DOMAIN given \cup {flag} |->
                      IF f = flag THEN Meaning(f, ValueAt(p, k)) ELSE given[f]]
           F(j) == FlagAt(p, j)
           V(j) == ValueAt(p, j)
<1>1. /\ 0..((k + 1) - 1) = 0..(k - 1) \cup {k}
      /\ \A j \in 0..(k - 1) : j \in Nat /\ j < k
  OBVIOUS
<1>2. \A j \in 0..(k - 1) : F(j) \in Flags(p) /\ Readable(p, F(j), V(j))
  BY DEF ReadTo
<1>3. DOMAIN given = {F(j) : j \in 0..(k - 1)}
  BY DEF ReadTo
<1>4. \A f \in DOMAIN given : \E j \in 0..(k - 1) :
        /\ F(j) = f /\ given[f] = Meaning(f, V(j))
        /\ \A m \in 0..(k - 1) : F(m) = f => m <= j
  BY DEF ReadTo
<1>5. p \in Clients => \A i, j \in 0..(k - 1) : F(i) = F(j) /\ F(i) \in Needed(p) => i = j
  BY DEF ReadTo
<1>6. F(k) = flag /\ flag \in Flags(p) /\ Readable(p, flag, V(k))
      /\ (p \in Clients /\ flag \in Needed(p) => flag \notin DOMAIN given)
  OBVIOUS
<1>7. /\ DOMAIN new = DOMAIN given \cup {flag} /\ new[flag] = Meaning(flag, V(k))
      /\ \A f \in DOMAIN given \ {flag} : new[f] = given[f]
  OBVIOUS
<1> HIDE DEF flag, new, F, V
<1>8. \A j \in 0..((k + 1) - 1) : F(j) \in Flags(p) /\ Readable(p, F(j), V(j))
  BY <1>1, <1>2, <1>6
<1>9. DOMAIN new = {F(j) : j \in 0..((k + 1) - 1)}
  BY <1>1, <1>3, <1>6, <1>7
<1>10. ASSUME NEW f \in DOMAIN new
       PROVE  \E j \in 0..((k + 1) - 1) :
                /\ F(j) = f /\ new[f] = Meaning(f, V(j))
                /\ \A m \in 0..((k + 1) - 1) : F(m) = f => m <= j
  <2>1. CASE f = flag
    <3>1. \A m \in 0..((k + 1) - 1) : m <= k
      BY <1>1
    <3> QED
      BY <1>1, <1>6, <1>7, <2>1, <3>1
  <2>2. CASE f # flag
    <3>1. f \in DOMAIN given /\ new[f] = given[f]
      BY <1>7, <1>10, <2>2
    <3>2. PICK j \in 0..(k - 1) : /\ F(j) = f /\ given[f] = Meaning(f, V(j))
                                  /\ \A m \in 0..(k - 1) : F(m) = f => m <= j
      BY <1>4, <3>1
    <3>3. \A m \in 0..((k + 1) - 1) : F(m) = f => m <= j
      BY <1>1, <1>6, <2>2, <3>2
    <3> QED
      BY <1>1, <3>1, <3>2, <3>3
  <2> QED
    BY <2>1, <2>2
<1>11. ASSUME p \in Clients, NEW i \in 0..((k + 1) - 1), NEW j \in 0..((k + 1) - 1),
              F(i) = F(j), F(i) \in Needed(p)
       PROVE  i = j
  <2>1. \A m \in 0..(k - 1) : F(m) \in DOMAIN given
    BY <1>3
  <2> QED
    BY <1>1, <1>5, <1>6, <1>11, <2>1
<1>12. ReadTo(p, k + 1, new)
  BY <1>8, <1>9, <1>10, <1>11 DEF ReadTo, F, V
<1> QED
  BY <1>12 DEF new, flag

-----------------------------------------------------------------------------
\* The values of a flag on the whole line.
HasValue(p, flag, i) ==
  \E j \in Nat : i = Spot(p, j) /\ InLine(p, j) /\ FlagAt(p, j) = flag

\* The values of a flag are those of its pairs.
LEMMA ValuesAre ==
  ASSUME NEW p, Len(line[p]) \in Nat, NEW flag, NEW i
  PROVE  i \in ValuesOf(line[p], flag, First(p)) <=> HasValue(p, flag, i)
<1> DEFINE f == First(p)
           l == line[p]
<1>1. f \in {1, 2} /\ Len(l) \in Nat
  BY DEF First
<1>2. ASSUME i \in ValuesOf(l, flag, f)
      PROVE  \E j \in Nat : i = f + 2 * j + 1 /\ i <= Len(l) /\ FlagAt(p, j) = flag
  <2>1. i \in f..Len(l) /\ (i - f) % 2 = 1 /\ l[i - 1].word = flag
    BY <1>2 DEF ValuesOf
  <2> DEFINE j == (i - f) \div 2
  <2>2. j \in Nat /\ i = f + 2 * j + 1
    <3> DEFINE d == i - f
    <3>1. d \in Nat /\ d % 2 = 1 /\ i = f + d /\ j = d \div 2 /\ f \in Nat
      BY <1>1, <2>1
    <3> HIDE DEF d, f, j
    <3> QED
      BY <3>1
  <2> HIDE DEF j
  <2>3. i - 1 = f + 2 * j
    BY <1>1, <2>1, <2>2
  <2>4. FlagAt(p, j) = flag
    BY <2>1, <2>3 DEF FlagAt
  <2> QED
    BY <2>1, <2>2, <2>4
<1>3. ASSUME NEW j \in Nat, i = f + 2 * j + 1, i <= Len(l), FlagAt(p, j) = flag
      PROVE  i \in ValuesOf(l, flag, f)
  <2>1. i \in f..Len(l) /\ (i - f) % 2 = 1 /\ i - 1 = f + 2 * j
    BY <1>1, <1>3
  <2> QED
    BY <1>3, <2>1 DEF ValuesOf, FlagAt
<1> QED
  BY <1>2, <1>3 DEF HasValue, Spot, InLine

\* The last value of a flag.
LEMMA FinalIs ==
  ASSUME NEW p, Len(line[p]) \in Nat, NEW flag, NEW j \in Nat, InLine(p, j), FlagAt(p, j) = flag,
         \A m \in Nat : InLine(p, m) /\ FlagAt(p, m) = flag => m <= j
  PROVE  Final(line[p], flag, First(p)) = ValueAt(p, j)
<1> DEFINE S == ValuesOf(line[p], flag, First(p))
           x == Spot(p, j)
<1>1. \A y : y \in S <=> HasValue(p, flag, y)
  BY ValuesAre, Zenon
<1> HIDE DEF S
<1>2. x \in S
  BY <1>1 DEF HasValue
<1>3. First(p) \in Nat /\ x \in Nat
  BY DEF First, Spot
<1>4. ASSUME NEW y \in S PROVE y \in Nat /\ y <= x
  <2>1. PICK m \in Nat : y = Spot(p, m) /\ InLine(p, m) /\ FlagAt(p, m) = flag
    BY <1>1 DEF HasValue
  <2>2. m <= j
    BY <2>1
  <2> QED
    BY <1>3, <2>1, <2>2 DEF Spot
<1> HIDE DEF x
<1> DEFINE c == CHOOSE i \in S : \A y \in S : y <= i
<1>5. c \in S /\ \A y \in S : y <= c
  BY <1>2, <1>4
<1> HIDE DEF c
<1>6. c = x
  BY <1>2, <1>3, <1>4, <1>5
<1> QED
  BY <1>6 DEF Final, ValueAt, S, x, c

-----------------------------------------------------------------------------
(***************************************************************************)
(* A line that the usage text allows, by its pairs.                        *)
(***************************************************************************)
OnceEach(p) == \A i, j \in Nat :
  InLine(p, i) /\ InLine(p, j) /\ FlagAt(p, i) = FlagAt(p, j) /\ FlagAt(p, i) \in Needed(p) => i = j

Paired(p) == \A j \in Nat : First(p) + 2 * j <= Len(line[p]) => InLine(p, j)

LineRight(p) ==
  /\ p \in Clients => 1 <= Len(line[p]) /\ line[p][1].word \in {"get", "put"}
  /\ Paired(p)
  /\ \A j \in Nat : InLine(p, j) =>
       FlagAt(p, j) \in Flags(p) /\ Readable(p, FlagAt(p, j), ValueAt(p, j))
  /\ p \in Clients => OnceEach(p)
  /\ \A flag \in Needed(p) : \E j \in Nat : InLine(p, j) /\ FlagAt(p, j) = flag
  /\ p \in Servers => Final(line[p], "--root", 1).word # ""

\* Every flag has a value when the length of the line has the right parity.
LEMMA PairedIs ==
  ASSUME NEW p, Len(line[p]) \in Nat, p \notin Servers => Len(line[p]) >= 1
  PROVE  Paired(p) <=> Len(line[p]) % 2 = First(p) - 1
<1> DEFINE n == Len(line[p])
           f == First(p)
<1>1. n \in Nat /\ f \in {1, 2} /\ (f = 2 => n >= 1)
  BY DEF First
<1>2. ASSUME n % 2 = f - 1, NEW j \in Nat, f + 2 * j <= n
      PROVE  f + 2 * j + 1 <= n
  <2> HIDE DEF n, f
  <2> QED
    BY <1>1, <1>2
<1>3. ASSUME n % 2 # f - 1
      PROVE  \E j \in Nat : f + 2 * j <= n /\ ~ (f + 2 * j + 1 <= n)
  <2> HIDE DEF n, f
  <2> DEFINE j == (n - f) \div 2
  <2>1. n - f >= 0
    BY <1>1, <1>3
  <2>2. n - f \in Nat /\ (n - f) % 2 = 0
    BY <1>1, <1>3, <2>1
  <2>3. j \in Nat /\ n = f + 2 * j
    <3> DEFINE d == n - f
    <3>1. d \in Nat /\ d % 2 = 0 /\ n = f + d /\ j = d \div 2
      BY <1>1, <2>2
    <3> HIDE DEF d, j
    <3> QED
      BY <1>1, <3>1
  <2> HIDE DEF j
  <2> QED
    BY <1>1, <2>3
<1> QED
  BY <1>2, <1>3 DEF Paired, InLine, Spot

\* The flags of a line, by index.
LEMMA FlagsAre ==
  ASSUME NEW p, Len(line[p]) \in Nat, Paired(p)
  PROVE  (\A i \in First(p)..Len(line[p]) : i % 2 = First(p) % 2 => line[p][i].word \in Flags(p))
           <=> \A j \in Nat : InLine(p, j) => FlagAt(p, j) \in Flags(p)
<1> DEFINE n == Len(line[p])
           f == First(p)
<1>1. n \in Nat /\ f \in {1, 2}
  BY DEF First
<1>2. ASSUME \A i \in f..n : i % 2 = f % 2 => line[p][i].word \in Flags(p),
             NEW j \in Nat, InLine(p, j)
      PROVE  FlagAt(p, j) \in Flags(p)
  <2>1. f + 2 * j \in f..n /\ (f + 2 * j) % 2 = f % 2
    <3>1. f + 2 * j + 1 <= n
      BY <1>2 DEF InLine, Spot
    <3> HIDE DEF f, n
    <3> QED
      BY <1>1, <3>1
  <2> QED
    BY <1>2, <2>1 DEF FlagAt
<1>3. ASSUME \A j \in Nat : InLine(p, j) => FlagAt(p, j) \in Flags(p),
             NEW i \in f..n, i % 2 = f % 2
      PROVE  line[p][i].word \in Flags(p)
  <2> DEFINE j == (i - f) \div 2
  <2>1. j \in Nat /\ i = f + 2 * j
    <3> DEFINE d == i - f
    <3>1. d \in Nat /\ d % 2 = 0 /\ i = f + d /\ j = d \div 2 /\ f \in Nat
      BY <1>1, <1>3
    <3> HIDE DEF d, j, f
    <3> QED
      BY <3>1
  <2> HIDE DEF j
  <2>2. InLine(p, j)
    BY <1>1, <1>3, <2>1 DEF Paired
  <2> QED
    BY <1>3, <2>1, <2>2 DEF FlagAt
<1> QED
  BY <1>2, <1>3

\* A flag that has one value.
Once(p, flag) == \A i, j \in Nat :
  InLine(p, i) /\ FlagAt(p, i) = flag /\ InLine(p, j) /\ FlagAt(p, j) = flag => i = j

\* A flag has one value when it is given once.
LEMMA OneValue ==
  ASSUME NEW p, Len(line[p]) \in Nat, NEW flag
  PROVE  Cardinality(ValuesOf(line[p], flag, First(p))) = 1 <=>
           /\ \E j \in Nat : InLine(p, j) /\ FlagAt(p, j) = flag
           /\ Once(p, flag)
<1> DEFINE S == ValuesOf(line[p], flag, First(p))
<1>1. \A y : y \in S <=> HasValue(p, flag, y)
  BY ValuesAre, Zenon
<1>2. IsFiniteSet(S)
  <2>1. IsFiniteSet(First(p)..Len(line[p]))
    <3>1. First(p) \in Int /\ Len(line[p]) \in Int
      BY DEF First
    <3> QED
      BY <3>1, FS_Interval
  <2>2. S \in SUBSET (First(p)..Len(line[p]))
    BY DEF ValuesOf
  <2> QED
    BY <2>1, <2>2, FS_Subset
<1> HIDE DEF S
<1>3. Cardinality(S) = 1 <=> \E x : S = {x}
  BY <1>2, FS_Singleton
<1>4. \A i, j \in Nat : Spot(p, i) = Spot(p, j) => i = j
  BY DEF Spot, First
<1>5. (\E x : S = {x}) => \E j \in Nat : InLine(p, j) /\ FlagAt(p, j) = flag
  BY <1>1 DEF HasValue
<1>6. ASSUME NEW x, S = {x}
      PROVE  Once(p, flag)
  <2>1. ASSUME NEW i \in Nat, InLine(p, i), FlagAt(p, i) = flag
        PROVE  Spot(p, i) = x
    BY <1>1, <1>6, <2>1 DEF HasValue
  <2>2. ASSUME NEW i \in Nat, NEW j \in Nat, InLine(p, i), FlagAt(p, i) = flag,
               InLine(p, j), FlagAt(p, j) = flag
        PROVE  i = j
    <3>1. Spot(p, i) = Spot(p, j)
      BY <2>1, <2>2
    <3> QED
      BY <1>4, <3>1
  <2> QED
    BY <2>2 DEF Once
<1>7. ASSUME NEW j \in Nat, InLine(p, j), FlagAt(p, j) = flag, Once(p, flag)
      PROVE  S = {Spot(p, j)}
  <2>1. Spot(p, j) \in S
    BY <1>1, <1>7 DEF HasValue
  <2>2. ASSUME NEW y \in S PROVE y = Spot(p, j)
    <3>1. PICK m \in Nat : y = Spot(p, m) /\ InLine(p, m) /\ FlagAt(p, m) = flag
      BY <1>1 DEF HasValue
    <3> QED
      BY <1>7, <3>1 DEF Once
  <2> QED
    BY <2>1, <2>2
<1>8. Cardinality(S) = 1 <=>
           /\ \E j \in Nat : InLine(p, j) /\ FlagAt(p, j) = flag
           /\ Once(p, flag)
  BY <1>3, <1>5, <1>6, <1>7
<1> QED
  BY <1>8 DEF S

-----------------------------------------------------------------------------
\* The flags of a server and of a client.
LEMMA ProcessKinds ==
  ASSUME NEW p \in Processes
  PROVE  /\ p \in Servers => p \notin Clients /\ First(p) = 1
         /\ p \notin Servers => p \in Clients /\ First(p) = 2
         /\ p \in Servers => Needed(p) = {"--port", "--root"}
                             /\ Flags(p) = {"--port", "--root", "--bind"}
         /\ p \notin Servers => Needed(p) = {"--host", "--port", "--remote", "--local"}
                                /\ Flags(p) = {"--host", "--port", "--remote", "--local", "--delay-ms"}
BY StartupConstants DEF Processes, First, Needed, Flags

LEMMA ServerLineIs ==
  ASSUME NEW p \in Processes, p \in Servers, Len(line[p]) \in Nat, DOMAIN line[p] = 1..Len(line[p])
  PROVE  GoodLine(p) <=> LineRight(p)
<1> DEFINE l == line[p]
<1>1. /\ First(p) = 1 /\ p \notin Clients /\ Needed(p) = {"--port", "--root"}
      /\ Flags(p) = {"--port", "--root", "--bind"} /\ (GoodLine(p) <=> GoodServerLine(l, p))
  BY ProcessKinds DEF GoodLine
<1>2. Paired(p) <=> Len(l) % 2 = 0
  <2>1. Paired(p) <=> Len(line[p]) % 2 = First(p) - 1
    BY PairedIs, Zenon
  <2>2. First(p) - 1 = 0
    BY <1>1
  <2> QED
    BY <2>1, <2>2, Zenon
<1>3. ASSUME Paired(p)
      PROVE  (\A i \in DOMAIN l : i % 2 = 1 => l[i].word \in Flags(p))
               <=> \A j \in Nat : InLine(p, j) => FlagAt(p, j) \in Flags(p)
  <2>1. (\A i \in First(p)..Len(l) : i % 2 = First(p) % 2 => l[i].word \in Flags(p))
          <=> \A j \in Nat : InLine(p, j) => FlagAt(p, j) \in Flags(p)
    BY <1>3, FlagsAre, Zenon
  <2>2. First(p) % 2 = 1 /\ First(p)..Len(l) = DOMAIN l
    BY <1>1
  <2> HIDE DEF l
  <2> QED
    BY <2>1, <2>2
<1>4. \A flag : ValuesOf(l, flag, 1) # {} <=> \E j \in Nat : InLine(p, j) /\ FlagAt(p, j) = flag
  <2> SUFFICES ASSUME NEW flag
               PROVE  ValuesOf(l, flag, 1) # {} <=>
                        \E j \in Nat : InLine(p, j) /\ FlagAt(p, j) = flag
    OBVIOUS
  <2>1. \A i : i \in ValuesOf(l, flag, First(p)) <=> HasValue(p, flag, i)
    BY ValuesAre, Zenon
  <2> QED
    BY <1>1, <2>1 DEF HasValue
<1>5. (\A i \in ValuesOf(l, "--port", 1) : IsNumber(l[i].text, 0, PortMax)) <=>
        \A j \in Nat : InLine(p, j) /\ FlagAt(p, j) = "--port" =>
                         IsNumber(ValueAt(p, j).text, 0, PortMax)
  <2>1. \A i : i \in ValuesOf(l, "--port", First(p)) <=> HasValue(p, "--port", i)
    BY ValuesAre, Zenon
  <2> QED
    BY <1>1, <2>1 DEF HasValue, ValueAt
<1>6. \A j \in Nat : FlagAt(p, j) \in Flags(p) =>
        (Readable(p, FlagAt(p, j), ValueAt(p, j)) <=>
           (FlagAt(p, j) = "--port" => IsNumber(ValueAt(p, j).text, 0, PortMax)))
  BY <1>1 DEF Readable
<1> DEFINE A == Paired(p)
           B == \A j \in Nat : InLine(p, j) => FlagAt(p, j) \in Flags(p)
           C == \A j \in Nat : InLine(p, j) /\ FlagAt(p, j) = "--port" =>
                                 IsNumber(ValueAt(p, j).text, 0, PortMax)
           D == \A flag \in Needed(p) : \E j \in Nat : InLine(p, j) /\ FlagAt(p, j) = flag
           E == Final(l, "--root", 1).word # ""
<1>7. GoodServerLine(l, p) <=> A /\ B /\ C /\ D /\ E
  BY <1>2, <1>3, <1>4, <1>5, Zenon DEF GoodServerLine
<1>8. LineRight(p) <=> A /\ B /\ C /\ D /\ E
  BY <1>1, <1>6 DEF LineRight
<1> QED
  BY <1>1, <1>7, <1>8

LEMMA ClientLineIs ==
  ASSUME NEW p \in Processes, p \notin Servers, Len(line[p]) \in Nat
  PROVE  GoodLine(p) <=> LineRight(p)
<1> DEFINE l == line[p]
<1>1. /\ First(p) = 2 /\ p \in Clients /\ Needed(p) = {"--host", "--port", "--remote", "--local"}
      /\ Flags(p) = {"--host", "--port", "--remote", "--local", "--delay-ms"}
      /\ (GoodLine(p) <=> GoodClientLine(l, p))
  BY ProcessKinds DEF GoodLine
<1>2. Len(l) >= 1 => (Paired(p) <=> Len(l) % 2 = 1)
  <2>1. Len(line[p]) >= 1 => (Paired(p) <=> Len(line[p]) % 2 = First(p) - 1)
    BY PairedIs, Zenon
  <2>2. First(p) - 1 = 1
    BY <1>1
  <2> QED
    BY <2>1, <2>2, Zenon
<1>3. ASSUME Paired(p)
      PROVE  (\A i \in 2..Len(l) : i % 2 = 0 => l[i].word \in Flags(p))
               <=> \A j \in Nat : InLine(p, j) => FlagAt(p, j) \in Flags(p)
  <2>1. (\A i \in First(p)..Len(l) : i % 2 = First(p) % 2 => l[i].word \in Flags(p))
          <=> \A j \in Nat : InLine(p, j) => FlagAt(p, j) \in Flags(p)
    BY <1>3, FlagsAre, Zenon
  <2>2. First(p) % 2 = 0 /\ First(p) = 2
    BY <1>1
  <2> HIDE DEF l
  <2> QED
    BY <2>1, <2>2
<1>4. \A flag : Cardinality(ValuesOf(l, flag, 2)) = 1 <=>
                  (\E j \in Nat : InLine(p, j) /\ FlagAt(p, j) = flag) /\ Once(p, flag)
  <2> SUFFICES ASSUME NEW flag
               PROVE  Cardinality(ValuesOf(l, flag, 2)) = 1 <=>
                        (\E j \in Nat : InLine(p, j) /\ FlagAt(p, j) = flag) /\ Once(p, flag)
    OBVIOUS
  <2>1. Cardinality(ValuesOf(l, flag, First(p))) = 1 <=>
          (\E j \in Nat : InLine(p, j) /\ FlagAt(p, j) = flag) /\ Once(p, flag)
    BY OneValue, Zenon
  <2> QED
    BY <1>1, <2>1
<1>5. (\A i \in ValuesOf(l, "--delay-ms", 2) : IsNumber(l[i].text, 0, DelayMax)) <=>
        \A j \in Nat : InLine(p, j) /\ FlagAt(p, j) = "--delay-ms" =>
                         IsNumber(ValueAt(p, j).text, 0, DelayMax)
  <2>1. \A i : i \in ValuesOf(l, "--delay-ms", First(p)) <=> HasValue(p, "--delay-ms", i)
    BY ValuesAre, Zenon
  <2> QED
    BY <1>1, <2>1 DEF HasValue, ValueAt
<1>6. ASSUME NEW flag, Once(p, flag), NEW j \in Nat, InLine(p, j), FlagAt(p, j) = flag
      PROVE  Final(l, flag, 2) = ValueAt(p, j)
  <2>1. ASSUME NEW m \in Nat, InLine(p, m) /\ FlagAt(p, m) = flag PROVE m <= j
    BY <1>6, <2>1 DEF Once
  <2>2. Final(l, flag, First(p)) = ValueAt(p, j)
    BY <1>6, <2>1, FinalIs
  <2> QED
    BY <1>1, <2>2
<1>7. OnceEach(p) <=> \A flag \in Needed(p) : Once(p, flag)
  BY DEF OnceEach, Once
<1>8. \A j \in Nat : FlagAt(p, j) \in Flags(p) =>
        (Readable(p, FlagAt(p, j), ValueAt(p, j)) <=>
           /\ FlagAt(p, j) = "--port" => IsNumber(ValueAt(p, j).text, 1, PortMax)
           /\ FlagAt(p, j) = "--delay-ms" => IsNumber(ValueAt(p, j).text, 0, DelayMax)
           /\ FlagAt(p, j) = "--remote" => ValueAt(p, j).word \notin Unsafe
           /\ FlagAt(p, j) \in {"--host", "--local"} => ValueAt(p, j).word # "")
  <2> SUFFICES ASSUME NEW flag \in Flags(p), NEW v
               PROVE  Readable(p, flag, v) <=>
                        /\ flag = "--port" => IsNumber(v.text, 1, PortMax)
                        /\ flag = "--delay-ms" => IsNumber(v.text, 0, DelayMax)
                        /\ flag = "--remote" => v.word \notin Unsafe
                        /\ flag \in {"--host", "--local"} => v.word # ""
    OBVIOUS
  <2> QED
    BY <1>1 DEF Readable
<1> DEFINE A == 1 <= Len(l) /\ l[1].word \in {"get", "put"} /\ Paired(p)
           B == \A j \in Nat : InLine(p, j) => FlagAt(p, j) \in Flags(p)
           C == \A flag \in Needed(p) :
                  (\E j \in Nat : InLine(p, j) /\ FlagAt(p, j) = flag) /\ Once(p, flag)
           D(v, flag) == /\ flag = "--port" => IsNumber(v.text, 1, PortMax)
                         /\ flag = "--remote" => v.word \notin Unsafe
                         /\ flag \in {"--host", "--local"} => v.word # ""
           E == \A j \in Nat : InLine(p, j) /\ FlagAt(p, j) = "--delay-ms" =>
                                 IsNumber(ValueAt(p, j).text, 0, DelayMax)
           F == \A flag \in Needed(p) : D(Final(l, flag, 2), flag)
           G == \A j \in Nat : InLine(p, j) /\ FlagAt(p, j) \in Needed(p) =>
                                 D(ValueAt(p, j), FlagAt(p, j))
<1>9. GoodClientLine(l, p) <=> A /\ B /\ C /\ E /\ F
  <2>1. F <=> /\ IsNumber(Final(l, "--port", 2).text, 1, PortMax)
              /\ Final(l, "--remote", 2).word \notin Unsafe
              /\ \A flag \in {"--host", "--local"} : Final(l, flag, 2).word # ""
    BY <1>1
  <2>2. C <=> \A flag \in Needed(p) : Cardinality(ValuesOf(l, flag, 2)) = 1
    BY <1>4
  <2>3. Len(l) % 2 = 1 => 1 <= Len(l)
    <3> DEFINE n == Len(l)
    <3>1. n \in Nat
      OBVIOUS
    <3> HIDE DEF n
    <3>2. n % 2 = 1 => 1 <= n
      BY <3>1
    <3> QED
      BY <3>2 DEF n
  <2>4. A <=> Len(l) % 2 = 1 /\ l[1].word \in {"get", "put"}
    BY <1>2, <2>3
  <2>5. A => (B <=> \A i \in 2..Len(l) : i % 2 = 0 => l[i].word \in Flags(p))
    BY <1>3
  <2> HIDE DEF A, B, C, F
  <2> QED
    BY <1>5, <2>1, <2>2, <2>4, <2>5, Zenon DEF GoodClientLine
<1>10. LineRight(p) <=> A /\ B /\ C /\ E /\ G
  <2>1. B => ((\A j \in Nat : InLine(p, j) => Readable(p, FlagAt(p, j), ValueAt(p, j))) <=> E /\ G)
    BY <1>1, <1>8
  <2>2. C <=> OnceEach(p) /\ \A flag \in Needed(p) : \E j \in Nat : InLine(p, j) /\ FlagAt(p, j) = flag
    BY <1>7
  <2> QED
    BY <1>1, <2>1, <2>2 DEF LineRight
<1>11. B /\ C => (F <=> G)
  <2> SUFFICES ASSUME B, C PROVE F <=> G
    OBVIOUS
  <2> HIDE DEF D
  <2>1. ASSUME F, NEW j \in Nat, InLine(p, j), FlagAt(p, j) \in Needed(p)
        PROVE  D(ValueAt(p, j), FlagAt(p, j))
    BY <1>6, <2>1
  <2>2. ASSUME G, NEW flag \in Needed(p) PROVE D(Final(l, flag, 2), flag)
    <3>1. PICK j \in Nat : InLine(p, j) /\ FlagAt(p, j) = flag
      OBVIOUS
    <3> QED
      BY <1>6, <2>2, <3>1
  <2> QED
    BY <2>1, <2>2
<1> QED
  BY <1>1, <1>9, <1>10, <1>11

LEMMA GoodLineIs ==
  ASSUME NEW p \in Processes, Len(line[p]) \in Nat, DOMAIN line[p] = 1..Len(line[p])
  PROVE  GoodLine(p) <=> LineRight(p)
BY ServerLineIs, ClientLineIs

-----------------------------------------------------------------------------
(***************************************************************************)
(* What the loop over the arguments makes of the line.                     *)
(***************************************************************************)
OperationRight(p) == p \in Clients => 1 <= Len(line[p]) /\ line[p][1].word \in {"get", "put"}

\* The loop is behind the last pair.
LEMMA EndOfLine ==
  ASSUME NEW p \in Processes, Len(line[p]) \in Nat, NEW k \in Nat, NEW given,
         First(p) + 2 * k = Len(line[p]) + 1, ReadTo(p, k, given), OperationRight(p)
  PROVE  /\ LineRight(p) <=> /\ Needed(p) \subseteq DOMAIN given
                             /\ p \in Servers => given["--root"].word # ""
         /\ "--port" \in DOMAIN given =>
              given["--port"] = ValueOf(Final(line[p], "--port", First(p)).text)
<1>1. First(p) \in {1, 2}
  BY DEF First
<1>2. \A j \in Nat : InLine(p, j) <=> j \in 0..(k - 1)
  BY <1>1 DEF InLine, Spot
<1>3. Paired(p)
  <2>1. ASSUME NEW j \in Nat, First(p) + 2 * j <= Len(line[p]) PROVE InLine(p, j)
    BY <1>1, <2>1 DEF InLine, Spot
  <2> QED
    BY <2>1 DEF Paired
<1>4. \A j \in Nat : InLine(p, j) =>
        FlagAt(p, j) \in Flags(p) /\ Readable(p, FlagAt(p, j), ValueAt(p, j))
  BY <1>2 DEF ReadTo
<1>5. p \in Clients => OnceEach(p)
  BY <1>2 DEF ReadTo, OnceEach
<1>6. \A flag : flag \in DOMAIN given <=> \E j \in Nat : InLine(p, j) /\ FlagAt(p, j) = flag
  <2>1. DOMAIN given = {FlagAt(p, j) : j \in 0..(k - 1)}
    BY DEF ReadTo
  <2> QED
    BY <1>2, <2>1
<1>7. ASSUME NEW flag \in DOMAIN given
      PROVE  given[flag] = Meaning(flag, Final(line[p], flag, First(p)))
  <2>1. PICK j \in 0..(k - 1) :
          /\ FlagAt(p, j) = flag /\ given[flag] = Meaning(flag, ValueAt(p, j))
          /\ \A m \in 0..(k - 1) : FlagAt(p, m) = flag => m <= j
    BY DEF ReadTo
  <2>2. j \in Nat /\ InLine(p, j) /\ \A m \in Nat : InLine(p, m) /\ FlagAt(p, m) = flag => m <= j
    BY <1>2, <2>1
  <2>3. Final(line[p], flag, First(p)) = ValueAt(p, j)
    BY <2>1, <2>2, FinalIs
  <2> QED
    BY <2>1, <2>3
<1>8. p \in Servers => First(p) = 1 /\ "--root" \in Needed(p)
  BY ProcessKinds
<1>9. "--root" \notin Numeric /\ "--port" \in Numeric
  BY DEF Numeric
<1>10. "--root" \in DOMAIN given /\ p \in Servers =>
         given["--root"] = Final(line[p], "--root", 1)
  BY <1>7, <1>8, <1>9 DEF Meaning
<1>11. LineRight(p) <=> /\ Needed(p) \subseteq DOMAIN given
                        /\ p \in Servers => given["--root"].word # ""
  BY <1>3, <1>4, <1>5, <1>6, <1>8, <1>10 DEF LineRight, OperationRight
<1> QED
  BY <1>7, <1>9, <1>11 DEF Meaning

\* The loop stops at a pair.
LEMMA PairRefused ==
  ASSUME NEW p \in Processes, Len(line[p]) \in Nat, NEW k \in Nat, NEW given,
         First(p) + 2 * k <= Len(line[p]), ReadTo(p, k, given),
         \/ ~InLine(p, k) \/ FlagAt(p, k) \notin Flags(p)
         \/ ~Readable(p, FlagAt(p, k), ValueAt(p, k))
         \/ p \in Clients /\ FlagAt(p, k) \in Needed(p) \cap DOMAIN given
  PROVE  ~LineRight(p)
<1> SUFFICES ASSUME LineRight(p) PROVE FALSE
  OBVIOUS
<1>1. InLine(p, k)
  BY DEF LineRight, Paired
<1>2. FlagAt(p, k) \in Flags(p) /\ Readable(p, FlagAt(p, k), ValueAt(p, k))
  BY <1>1 DEF LineRight
<1>3. p \in Clients /\ FlagAt(p, k) \in Needed(p) /\ FlagAt(p, k) \in DOMAIN given
  BY <1>1, <1>2
<1>4. PICK j \in 0..(k - 1) : FlagAt(p, j) = FlagAt(p, k)
  BY <1>3 DEF ReadTo
<1>5. j \in Nat /\ j < k
  BY <1>4
<1>6. InLine(p, j)
  <2>1. First(p) \in Nat
    BY DEF First
  <2> QED
    BY <1>1, <1>5, <2>1 DEF InLine, Spot
<1>7. j = k
  BY <1>1, <1>3, <1>4, <1>5, <1>6 DEF LineRight, OnceEach
<1> QED
  BY <1>5, <1>7

-----------------------------------------------------------------------------
\* The loop over the arguments is at the pair at.
Reading(r, p) ==
  /\ OperationRight(p)
  /\ \E k \in Nat : /\ r.at = First(p) + 2 * k /\ r.at <= Len(line[p]) + 1
                    /\ ReadTo(p, k, r.given)

\* It reads the number that is the value there.
ReadingNumber(r, p) ==
  LET flag == line[p][r.at].word IN
  /\ r.at < Len(line[p]) /\ flag \in Flags(p) \cap Numeric
  /\ p \in Clients /\ flag \in Needed(p) => flag \notin DOMAIN r.given
  /\ r.number.text = line[p][r.at + 1].text /\ MeansSoFar(r.number)

Understood(r, p) ==
  /\ r.place = "operation" => p \in Clients /\ r.at = 1 /\ r.given = <<>>
  /\ r.place \in {"arguments", "number"} => Reading(r, p)
  /\ r.place = "number" => ReadingNumber(r, p)
  /\ r.place = "usage" => ~GoodLine(p)
  /\ r.place \notin {"off", "operation", "arguments", "number", "usage"} =>
       /\ GoodLine(p)
       /\ r.given["--port"] = ValueOf(Final(line[p], "--port", First(p)).text)

ReadInv == \A p \in Processes : Understood(proc[p], p)

\* The line of a process is a sequence of arguments.
LEMMA LineTypes ==
  ASSUME IInv, NEW p \in Processes
  PROVE  /\ Len(line[p]) \in Nat /\ DOMAIN line[p] = 1..Len(line[p])
         /\ \A i \in 1..Len(line[p]) : line[p][i] \in AnArgument
<1>1. line[p] \in Seq(AnArgument)
  BY DEF IInv
<1> QED
  BY <1>1

\* Flag and Value of the loop are those of the pair it is at.
LEMMA PairHere ==
  ASSUME IInv, NEW p \in Processes, NEW k \in Nat, proc[p].at = First(p) + 2 * k
  PROVE  /\ Flag(p) = FlagAt(p, k) /\ Value(p) = ValueAt(p, k)
         /\ line[p][proc[p].at + 1] = ValueAt(p, k)
         /\ Left(p) <=> First(p) + 2 * k <= Len(line[p])
         /\ proc[p].at < Len(line[p]) <=> InLine(p, k)
<1>1. Len(line[p]) \in Nat /\ First(p) \in Nat
  BY LineTypes DEF First
<1>2. proc[p].at + 1 = Spot(p, k)
  BY DEF Spot
<1>3. proc[p].at < Len(line[p]) <=> InLine(p, k)
  BY <1>1 DEF InLine, Spot
<1> QED
  BY <1>1, <1>2, <1>3 DEF Flag, Value, FlagAt, ValueAt, Left

\* One more pair has been read.
LEMMA PairTaken ==
  ASSUME IInv, NEW p \in Processes, NEW k \in Nat, proc[p].at = First(p) + 2 * k,
         OperationRight(p), ReadTo(p, k, proc[p].given), InLine(p, k), FlagAt(p, k) \in Flags(p),
         Readable(p, FlagAt(p, k), ValueAt(p, k)),
         p \in Clients /\ FlagAt(p, k) \in Needed(p) => FlagAt(p, k) \notin DOMAIN proc[p].given,
         NEW value, value = Meaning(FlagAt(p, k), ValueAt(p, k))
  PROVE  Reading(Given(p, value), p) /\ Given(p, value).place = "arguments"
<1> DEFINE old == proc[p]
           r   == Given(p, value)
           new == [f \in DOMAIN old.given \cup {FlagAt(p, k)} |->
                     IF f = FlagAt(p, k) THEN Meaning(f, ValueAt(p, k)) ELSE old.given[f]]
<1>1. old \in AProcess /\ Len(line[p]) \in Nat /\ First(p) \in Nat
  BY LineTypes DEF IInv, Good, First
<1>2. ReadTo(p, k + 1, new)
  BY ReadMore
<1>3. Flag(p) = FlagAt(p, k)
  BY PairHere
<1>4. [f \in DOMAIN old.given \cup {Flag(p)} |-> IF f = Flag(p) THEN value ELSE old.given[f]] = new
  BY <1>3
<1>5. r = [old EXCEPT !.place = "arguments", !.at = old.at + 2, !.given = new]
  BY <1>1, <1>4 DEF Given, AProcess
<1> HIDE DEF r, new, old
<1>6. r.place = "arguments" /\ r.at = old.at + 2 /\ r.given = new
  BY <1>1, <1>5 DEF AProcess
<1>7. r.at = First(p) + 2 * (k + 1) /\ r.at <= Len(line[p]) + 1 /\ k + 1 \in Nat
  BY <1>1, <1>6 DEF InLine, Spot, old
<1>8. ReadTo(p, k + 1, r.given)
  BY <1>2, <1>6
<1>9. Reading(r, p)
  BY <1>7, <1>8 DEF Reading
<1> QED
  BY <1>6, <1>9 DEF r

-----------------------------------------------------------------------------
(***************************************************************************)
(* The steps.  The line of a process never changes.                        *)
(***************************************************************************)
LEMMA SameLine ==
  ASSUME UNCHANGED line, NEW p, NEW r, proc'[p] = r
  PROVE  Understood(proc[p], p)' <=> Understood(r, p)
<1>1. line' = line /\ proc'[p] = r
  OBVIOUS
<1>2. GoodLine(p)' <=> GoodLine(p)
  BY <1>1 DEF GoodLine, GoodServerLine, GoodClientLine
<1>3. \A j : FlagAt(p, j)' = FlagAt(p, j) /\ ValueAt(p, j)' = ValueAt(p, j)
  BY <1>1 DEF FlagAt, ValueAt
<1>4. ASSUME NEW k PROVE ReadTo(p, k, proc[p].given)' <=> ReadTo(p, k, r.given)
  BY <1>1, <1>3 DEF ReadTo
<1>5. Reading(proc[p], p)' <=> Reading(r, p)
  BY <1>1, <1>4 DEF Reading, OperationRight
<1>6. ReadingNumber(proc[p], p)' <=> ReadingNumber(r, p)
  BY <1>1 DEF ReadingNumber, MeansSoFar
<1> QED
  BY <1>1, <1>2, <1>5, <1>6 DEF Understood

\* A step of one process.
LEMMA OneReads ==
  ASSUME IInv, ReadInv, NEW p \in Processes, NEW r, proc' = [proc EXCEPT ![p] = r],
         UNCHANGED line, Understood(r, p)
  PROVE  ReadInv'
<1>1. proc'[p] = r /\ \A q \in Processes \ {p} : proc'[q] = proc[q]
  BY DEF IInv
<1>2. \A q \in Processes : Understood(proc'[q], q)
  BY <1>1 DEF ReadInv
<1>3. ASSUME NEW q \in Processes PROVE Understood(proc[q], q)'
  <2>1. PICK s : s = proc'[q]
    OBVIOUS
  <2>2. Understood(proc[q], q)' <=> Understood(s, q)
    BY <2>1, SameLine
  <2> QED
    BY <1>2, <2>1, <2>2
<1> QED
  BY <1>3 DEF ReadInv

\* A process that is not started has read nothing.
LEMMA OffUnderstood ==
  ASSUME NEW starts, NEW p
  PROVE  Understood(NewProcess(starts), p)
<1>1. NewProcess(starts).place = "off"
  BY DEF NewProcess
<1> QED
  BY <1>1 DEF Understood

\* The definition of a right line, by its pairs.
LEMMA GoodLineOf ==
  ASSUME IInv, NEW p \in Processes
  PROVE  GoodLine(p) <=> LineRight(p)
BY LineTypes, GoodLineIs

LEMMA GoKeepsRest ==
  ASSUME IInv, NEW p \in Processes, NEW place
  PROVE  /\ [proc[p] EXCEPT !.place = place].place = place
         /\ [proc[p] EXCEPT !.place = place].at = proc[p].at
         /\ [proc[p] EXCEPT !.place = place].given = proc[p].given
         /\ [proc[p] EXCEPT !.place = place].number = proc[p].number
<1>1. proc[p] \in AProcess
  BY DEF IInv, Good
<1> QED
  BY <1>1 DEF AProcess

LEMMA GoReads ==
  ASSUME IInv, ReadInv, NEW p \in Processes, NEW place, Go(p, place), UNCHANGED line,
         Understood([proc[p] EXCEPT !.place = place], p)
  PROVE  ReadInv'
BY OneReads DEF Go, Become

\* A pair that is refused ends the process, with a line that is not right.
LEMMA UsageReads ==
  ASSUME IInv, ReadInv, NEW p \in Processes, Go(p, "usage"), UNCHANGED line, ~LineRight(p)
  PROVE  ReadInv'
<1>1. Understood([proc[p] EXCEPT !.place = "usage"], p)
  <2> DEFINE r == [proc[p] EXCEPT !.place = "usage"]
  <2>1. r.place = "usage" /\ ~GoodLine(p)
    BY GoKeepsRest, GoodLineOf
  <2> HIDE DEF r
  <2> QED
    BY <2>1 DEF Understood, r
<1> QED
  BY <1>1, GoReads

\* A loop begins.
LEMMA FirstPair ==
  ASSUME NEW p \in Processes, Len(line[p]) \in Nat, OperationRight(p),
         NEW r, r.at = First(p), r.given = <<>>
  PROVE  Reading(r, p)
<1>1. First(p) + 2 * 0 = First(p) /\ First(p) <= Len(line[p]) + 1
  BY ProcessKinds DEF OperationRight
<1>2. ReadTo(p, 0, r.given)
  BY ReadNothing
<1> QED
  BY <1>1, <1>2 DEF Reading

\* main of the client looks at its first argument.
LEMMA OperationReads ==
  ASSUME IInv, ReadInv, NEW p \in Processes, Operation(p), UNCHANGED line
  PROVE  ReadInv'
<1>1. p \in Clients /\ proc[p].at = 1 /\ proc[p].given = <<>> /\ proc[p] \in AProcess
  BY DEF Operation, ReadInv, Understood, At, IInv, Good
<1>2. p \notin Servers /\ First(p) = 2 /\ Len(line[p]) \in Nat
  BY <1>1, ProcessKinds, LineTypes
<1>4. CASE IsOperation(p)
  <2>1. PICK r : r = [proc[p] EXCEPT !.place = "arguments", !.at = 2]
    OBVIOUS
  <2>2. r.place = "arguments" /\ r.at = First(p) /\ r.given = <<>>
    BY <1>1, <1>2, <2>1 DEF AProcess
  <2>3. OperationRight(p)
    BY <1>1, <1>2, <1>4 DEF OperationRight, IsOperation, Left, Flag
  <2>4. Understood(r, p)
    BY <1>2, <2>2, <2>3, FirstPair DEF Understood
  <2> QED
    BY <1>4, <2>1, <2>4, OneReads DEF Operation, Become
<1>5. CASE ~IsOperation(p)
  <2>1. ~OperationRight(p)
    BY <1>1, <1>2, <1>5 DEF OperationRight, IsOperation, Left, Flag
  <2>2. ~LineRight(p)
    BY <2>1 DEF LineRight, OperationRight
  <2> QED
    BY <1>5, <2>2, UsageReads DEF Operation
<1> QED
  BY <1>4, <1>5

\* A process is started.
LEMMA StartReads ==
  ASSUME IInv, ReadInv, NEW p \in Processes, Start(p)
  PROVE  ReadInv'
<1> DEFINE new == NewProcess(proc[p].starts + 1)
<1>1. PICK r : r = [new EXCEPT !.place = IF p \in Servers THEN "arguments" ELSE "operation"]
  OBVIOUS
<1>2. /\ r.place = IF p \in Servers THEN "arguments" ELSE "operation"
      /\ r.at = 1 /\ r.given = <<>>
  BY <1>1 DEF NewProcess
<1>3. Len(line[p]) \in Nat
  BY LineTypes
<1>4. ASSUME p \in Servers PROVE Understood(r, p)
  <2>1. First(p) = 1 /\ OperationRight(p)
    BY <1>4, ProcessKinds DEF OperationRight
  <2>2. Reading(r, p)
    BY <1>2, <1>3, <2>1, FirstPair
  <2> QED
    BY <1>2, <1>4, <2>2 DEF Understood
<1>5. ASSUME p \notin Servers PROVE Understood(r, p)
  BY <1>2, <1>5, ProcessKinds DEF Understood
<1>6. Understood(r, p)
  BY <1>4, <1>5
<1>7. proc' = [proc EXCEPT ![p] = r] /\ UNCHANGED line
  BY <1>1 DEF Start, Become
<1> QED
  BY <1>6, <1>7, OneReads

\* One turn of the loop over the arguments.
LEMMA ArgumentReads ==
  ASSUME IInv, ReadInv, NEW p \in Processes, Argument(p), UNCHANGED line
  PROVE  ReadInv'
<1>1. At(p, "arguments") /\ Left(p) /\ Reading(proc[p], p) /\ OperationRight(p)
  BY DEF Argument, ReadInv, Understood, At, Reading
<1>2. PICK k \in Nat : proc[p].at = First(p) + 2 * k /\ ReadTo(p, k, proc[p].given)
  BY <1>1 DEF Reading
<1>3. /\ Flag(p) = FlagAt(p, k) /\ Value(p) = ValueAt(p, k)
      /\ First(p) + 2 * k <= Len(line[p])
      /\ (proc[p].at < Len(line[p]) <=> InLine(p, k))
  BY <1>1, <1>2, PairHere
<1>4. Takes(p) <=> /\ InLine(p, k) /\ FlagAt(p, k) \in Flags(p)
                   /\ (p \in Clients /\ FlagAt(p, k) \in Needed(p) =>
                         FlagAt(p, k) \notin DOMAIN proc[p].given)
  BY <1>3 DEF Takes
<1>5. Len(line[p]) \in Nat
  BY LineTypes
<1>6. CASE Takes(p) /\ Flag(p) \in Numeric
  <2>1. PICK n : n = Unread(Value(p).text)
    OBVIOUS
  <2>2. Value(p) \in AnArgument
    BY <1>4, <1>3, <1>6, ArgumentTypes
  <2>3. n.text = Value(p).text /\ MeansSoFar(n)
    BY <2>1, <2>2, UnreadMeans DEF AnArgument
  <2>4. PICK r : r = [proc[p] EXCEPT !.place = "number", !.number = n]
    OBVIOUS
  <2>5. r.place = "number" /\ r.at = proc[p].at /\ r.given = proc[p].given /\ r.number = n
    BY <2>4, ArgumentTypes DEF AProcess
  <2>6. Reading(r, p)
    BY <1>1, <2>5 DEF Reading
  <2>7. ReadingNumber(r, p)
    BY <1>6, <2>3, <2>5 DEF ReadingNumber, Takes, Flag, Value
  <2>8. Understood(r, p)
    BY <2>5, <2>6, <2>7 DEF Understood
  <2>9. proc' = [proc EXCEPT ![p] = r]
    BY <1>6, <2>1, <2>4 DEF Argument, Become
  <2> QED
    BY <2>8, <2>9, OneReads
<1>7. CASE Takes(p) /\ Flag(p) \notin Numeric /\ Fits(p)
  <2>1. Readable(p, FlagAt(p, k), ValueAt(p, k))
    BY <1>3, <1>4, <1>7, ProcessKinds DEF Readable, Fits, Numeric
  <2>2. PICK value : value = Value(p)
    OBVIOUS
  <2>3. value = Meaning(FlagAt(p, k), ValueAt(p, k))
    BY <1>3, <1>7, <2>2 DEF Meaning
  <2>4. PICK r : r = Given(p, value)
    OBVIOUS
  <2>5. Reading(r, p) /\ r.place = "arguments"
    BY <1>1, <1>2, <1>4, <1>7, <2>1, <2>3, <2>4, PairTaken
  <2>6. Understood(r, p)
    BY <2>5 DEF Understood
  <2>7. proc' = [proc EXCEPT ![p] = r]
    BY <1>7, <2>2, <2>4 DEF Argument, Become
  <2> QED
    BY <2>6, <2>7, OneReads
<1>8. CASE ~ (Takes(p) /\ Flag(p) \in Numeric) /\ ~ (Takes(p) /\ Flag(p) \notin Numeric /\ Fits(p))
  <2>1. Go(p, "usage")
    BY <1>8 DEF Argument
  <2>2. ~Takes(p) \/ ~Readable(p, FlagAt(p, k), ValueAt(p, k))
    BY <1>3, <1>8, ProcessKinds, <1>4 DEF Readable, Fits, Numeric
  <2>3. \/ ~InLine(p, k) \/ FlagAt(p, k) \notin Flags(p)
        \/ ~Readable(p, FlagAt(p, k), ValueAt(p, k))
        \/ p \in Clients /\ FlagAt(p, k) \in Needed(p) \cap DOMAIN proc[p].given
    BY <1>4, <2>2
  <2>4. ~LineRight(p)
    BY <1>2, <1>3, <1>5, <2>3, PairRefused
  <2> QED
    BY <2>1, <2>4, UsageReads
<1> QED
  BY <1>6, <1>7, <1>8

\* The end of the loop, with the test that all needed flags are there.
LEMMA ArgumentsEndReads ==
  ASSUME IInv, ReadInv, NEW p \in Processes, ArgumentsEnd(p), UNCHANGED line
  PROVE  ReadInv'
<1>1. At(p, "arguments") /\ ~Left(p) /\ Reading(proc[p], p) /\ OperationRight(p)
  BY DEF ArgumentsEnd, ReadInv, Understood, At, Reading
<1>2. PICK k \in Nat : /\ proc[p].at = First(p) + 2 * k /\ ReadTo(p, k, proc[p].given)
                       /\ proc[p].at <= Len(line[p]) + 1
  BY <1>1 DEF Reading
<1>3. Len(line[p]) \in Nat /\ First(p) \in Nat
  BY LineTypes DEF First
<1>4. First(p) + 2 * k = Len(line[p]) + 1
  BY <1>1, <1>2, <1>3 DEF Left
<1>5. /\ LineRight(p) <=> /\ Needed(p) \subseteq DOMAIN proc[p].given
                          /\ p \in Servers => proc[p].given["--root"].word # ""
      /\ "--port" \in DOMAIN proc[p].given =>
           proc[p].given["--port"] = ValueOf(Final(line[p], "--port", First(p)).text)
  BY <1>1, <1>2, <1>3, <1>4, EndOfLine
<1>6. LineRight(p) <=> Complete(p)
  BY <1>5 DEF Complete
<1>7. CASE Complete(p)
  <2>1. PICK r : r = [proc[p] EXCEPT !.place = "resolve"]
    OBVIOUS
  <2>2. r.place = "resolve" /\ r.given = proc[p].given
    BY <2>1, GoKeepsRest
  <2>3. "--port" \in DOMAIN proc[p].given
    BY <1>7, ProcessKinds DEF Complete
  <2>4. Understood(r, p)
    BY <1>5, <1>6, <1>7, <2>2, <2>3, GoodLineOf DEF Understood
  <2> QED
    BY <1>7, <2>1, <2>4, GoReads DEF ArgumentsEnd
<1>8. CASE ~Complete(p)
  BY <1>6, <1>8, UsageReads DEF ArgumentsEnd
<1> QED
  BY <1>7, <1>8

\* The range the program checks is the range of the usage text.
LEMMA RangesAgree ==
  ASSUME NEW p \in Processes, Flag(p) \in Flags(p) \cap Numeric, NEW v, v.text = proc[p].number.text,
         NumberRead(proc[p].number, DigitBound(p)), MeansSoFar(proc[p].number)
  PROVE  /\ proc[p].number.verdict = "accepted" =>
              /\ InRange(p) <=> Readable(p, Flag(p), v)
              /\ proc[p].number.value = Meaning(Flag(p), v)
         /\ proc[p].number.verdict = "rejected" => ~Readable(p, Flag(p), v)
<1> DEFINE n == proc[p].number
<1>1. /\ PortMax \in Nat /\ DelayMax \in Nat /\ PortMax <= WordMax /\ DelayMax <= WordMax
      /\ WordMax \in Nat /\ 0 \in Nat /\ 1 \in Nat
  BY StartupConstants, WordConstant
<1>2. DigitBound(p) \in 0..WordMax
  BY <1>1 DEF DigitBound
<1>3. /\ n.value \in Nat /\ n.value <= DigitBound(p)
  BY <1>1 DEF NumberRead, Exact
<1>4. /\ n.verdict = "accepted" =>
           /\ n.value = ValueOf(n.text)
           /\ \A least, most \in Nat : n.value \in least..most => IsNumber(n.text, least, most)
      /\ n.verdict = "rejected" =>
           \A least, most \in Nat : most <= DigitBound(p) => ~IsNumber(n.text, least, most)
  BY <1>2, VerdictRight
<1>5. \A least, most \in Nat : IsNumber(n.text, least, most) => ValueOf(n.text) \in least..most
  BY DEF IsNumber
<1>6. Flag(p) \in {"--port", "--delay-ms"} /\ (p \in Servers => Flag(p) = "--port")
  BY ProcessKinds DEF Numeric
<1>7. v.text = n.text
  OBVIOUS
<1>8. /\ p \in Servers => InRange(p)
      /\ p \notin Servers =>
           (InRange(p) <=> n.value \in IF Flag(p) = "--port" THEN 1..PortMax ELSE 0..DelayMax)
  BY ProcessKinds DEF InRange
<1> HIDE DEF n
<1>9. CASE p \in Servers
  <2>1. /\ Readable(p, Flag(p), v) <=> IsNumber(n.text, 0, PortMax)
        /\ DigitBound(p) = PortMax /\ InRange(p)
    <3>1. Readable(p, Flag(p), v) <=> IsNumber(n.text, 0, PortMax)
      BY <1>6, <1>7, <1>9 DEF Readable
    <3>2. DigitBound(p) = PortMax
      BY <1>9 DEF DigitBound
    <3>3. InRange(p)
      BY <1>8, <1>9
    <3> QED
      BY <3>1, <3>2, <3>3
  <2>2. Meaning(Flag(p), v) = ValueOf(n.text)
    BY <1>6, <1>7 DEF Meaning, Numeric
  <2>3. n.verdict = "accepted" => IsNumber(n.text, 0, PortMax) /\ n.value = ValueOf(n.text)
    <3>1. n.value \in 0..PortMax
      BY <1>1, <1>3, <2>1
    <3> QED
      BY <1>1, <1>4, <3>1
  <2>4. n.verdict = "rejected" => ~IsNumber(n.text, 0, PortMax)
    <3>1. PortMax <= DigitBound(p)
      BY <1>1, <2>1
    <3> QED
      BY <1>1, <1>4, <3>1
  <2> QED
    BY <2>1, <2>2, <2>3, <2>4 DEF n
<1>10. CASE p \notin Servers
  <2>1. DigitBound(p) = WordMax
    BY <1>10 DEF DigitBound
  <2>2. PICK least \in Nat, most \in Nat :
          /\ Readable(p, Flag(p), v) <=> IsNumber(n.text, least, most)
          /\ InRange(p) <=> n.value \in least..most
          /\ most <= WordMax
    <3>1. CASE Flag(p) = "--port"
      <4>1. /\ Readable(p, Flag(p), v) <=> IsNumber(n.text, 1, PortMax)
            /\ InRange(p) <=> n.value \in 1..PortMax
        BY <1>7, <1>8, <1>10, <3>1 DEF Readable
      <4> QED
        BY <1>1, <4>1
    <3>2. CASE Flag(p) = "--delay-ms"
      <4>1. Readable(p, Flag(p), v) <=> IsNumber(n.text, 0, DelayMax)
        BY <1>7, <1>10, <3>2 DEF Readable
      <4>2. InRange(p) <=> n.value \in 0..DelayMax
        BY <1>6, <1>8, <1>10, <3>2
      <4> QED
        BY <1>1, <4>1, <4>2
    <3> QED
      BY <1>6, <3>1, <3>2
  <2>3. Meaning(Flag(p), v) = ValueOf(n.text)
    BY <1>6, <1>7 DEF Meaning, Numeric
  <2>4. n.verdict = "accepted" =>
          n.value = ValueOf(n.text) /\ (n.value \in least..most <=> IsNumber(n.text, least, most))
    BY <1>4, <1>5
  <2>5. n.verdict = "rejected" => ~IsNumber(n.text, least, most)
    BY <1>4, <2>1, <2>2
  <2> QED
    BY <2>2, <2>3, <2>4, <2>5 DEF n
<1> QED
  BY <1>9, <1>10

\* One turn of the loop over the digits, and the test of the range behind it.
LEMMA NumberReads ==
  ASSUME IInv, ReadInv, NEW p \in Processes, Number(p), UNCHANGED line
  PROVE  ReadInv'
<1> DEFINE n == proc[p].number
<1>1. At(p, "number") /\ Reading(proc[p], p) /\ ReadingNumber(proc[p], p) /\ OperationRight(p)
  BY DEF Number, ReadInv, Understood, At, Reading
<1>2. PICK k \in Nat : proc[p].at = First(p) + 2 * k /\ ReadTo(p, k, proc[p].given)
  BY <1>1 DEF Reading
<1>3. /\ Flag(p) = FlagAt(p, k) /\ line[p][proc[p].at + 1] = ValueAt(p, k)
      /\ proc[p].at < Len(line[p]) /\ InLine(p, k)
  BY <1>1, <1>2, PairHere DEF ReadingNumber
<1>4. /\ Flag(p) \in Flags(p) \cap Numeric /\ MeansSoFar(n) /\ ValueAt(p, k).text = n.text
      /\ (p \in Clients /\ Flag(p) \in Needed(p) => Flag(p) \notin DOMAIN proc[p].given)
  BY <1>1, <1>3 DEF ReadingNumber, Flag
<1>5. NumberRead(n, DigitBound(p)) /\ proc[p] \in AProcess
  BY ArgumentTypes
<1>6. n.verdict \in {"open", "accepted", "rejected"}
  BY <1>5 DEF AProcess
<1>7. PICK v : v = ValueAt(p, k)
  OBVIOUS
<1>8. /\ n.verdict = "accepted" => /\ InRange(p) <=> Readable(p, Flag(p), v)
                                   /\ n.value = Meaning(Flag(p), v)
      /\ n.verdict = "rejected" => ~Readable(p, Flag(p), v)
  BY <1>4, <1>5, <1>7, RangesAgree
<1>9. CASE n.verdict = "open"
  <2>1. PICK m : m = Step(n, DigitBound(p))
    OBVIOUS
  <2>2. MeansSoFar(m) /\ m.text = n.text
    BY <1>4, <1>5, <1>9, <2>1, StepMeans
  <2>3. PICK r : r = [proc[p] EXCEPT !.number = m]
    OBVIOUS
  <2>4. r.place = "number" /\ r.at = proc[p].at /\ r.given = proc[p].given /\ r.number = m
    BY <1>1, <1>5, <2>3 DEF AProcess, At
  <2>5. Reading(r, p)
    BY <1>1, <2>4 DEF Reading
  <2>6. ReadingNumber(r, p)
    BY <1>1, <2>2, <2>4 DEF ReadingNumber
  <2>7. Understood(r, p)
    BY <2>4, <2>5, <2>6 DEF Understood
  <2>8. proc' = [proc EXCEPT ![p] = r]
    BY <1>9, <2>1, <2>3 DEF Number, Become
  <2> QED
    BY <2>7, <2>8, OneReads
<1>10. CASE n.verdict = "accepted" /\ InRange(p)
  <2>1. PICK value : value = n.value
    OBVIOUS
  <2>2. /\ value = Meaning(FlagAt(p, k), ValueAt(p, k)) /\ FlagAt(p, k) \in Flags(p)
        /\ Readable(p, FlagAt(p, k), ValueAt(p, k))
        /\ (p \in Clients /\ FlagAt(p, k) \in Needed(p) => FlagAt(p, k) \notin DOMAIN proc[p].given)
    BY <1>3, <1>4, <1>7, <1>8, <1>10, <2>1
  <2>3. PICK r : r = Given(p, value)
    OBVIOUS
  <2>4. Reading(r, p) /\ r.place = "arguments"
    BY <1>1, <1>2, <1>3, <2>2, <2>3, PairTaken
  <2>5. Understood(r, p)
    BY <2>4 DEF Understood
  <2>6. proc' = [proc EXCEPT ![p] = r]
    BY <1>10, <2>1, <2>3 DEF Number, Become
  <2> QED
    BY <2>5, <2>6, OneReads
<1>11. CASE n.verdict # "open" /\ ~ (n.verdict = "accepted" /\ InRange(p))
  <2>1. Go(p, "usage")
    BY <1>11 DEF Number
  <2>2. ~Readable(p, FlagAt(p, k), ValueAt(p, k))
    BY <1>3, <1>6, <1>7, <1>8, <1>11
  <2>3. First(p) + 2 * k <= Len(line[p]) /\ Len(line[p]) \in Nat
    <3>1. Len(line[p]) \in Nat /\ First(p) \in Nat
      BY LineTypes DEF First
    <3> QED
      BY <1>2, <1>3, <3>1
  <2>4. ~LineRight(p)
    BY <1>2, <2>2, <2>3, PairRefused
  <2> QED
    BY <2>1, <2>4, UsageReads
<1> QED
  BY <1>6, <1>9, <1>10, <1>11

Past(place) == place \notin {"off", "operation", "arguments", "number", "usage"}

\* The walk over the addresses leaves the options alone.
LEMMA PastReads ==
  ASSUME IInv, ReadInv, NEW p \in Processes, Past(proc[p].place), NEW r, Become(p, r),
         UNCHANGED line, Past(r.place), r.given = proc[p].given
  PROVE  ReadInv'
<1>1. Understood(r, p)
  BY DEF ReadInv, Understood, Past
<1> QED
  BY <1>1, OneReads DEF Become

LEMMA GoPastReads ==
  ASSUME IInv, ReadInv, NEW p \in Processes, Past(proc[p].place), NEW place, Go(p, place),
         UNCHANGED line, Past(place)
  PROVE  ReadInv'
<1>1. PICK r : r = [proc[p] EXCEPT !.place = place]
  OBVIOUS
<1>2. r.place = place /\ r.given = proc[p].given /\ Become(p, r)
  BY <1>1, GoKeepsRest DEF Go
<1> QED
  BY <1>2, PastReads

LEMMA ResolveReads ==
  ASSUME IInv, ReadInv, NEW p \in Processes, Resolve(p)
  PROVE  ReadInv'
<1>1. PICK struck \in BOOLEAN :
        Become(p, [proc[p] EXCEPT !.place = IF struck THEN "failed" ELSE "socket",
                                  !.serving = ServingNow])
  BY DEF Resolve
<1>2. PICK r : r = [proc[p] EXCEPT !.place = IF struck THEN "failed" ELSE "socket",
                                   !.serving = ServingNow]
  OBVIOUS
<1>3. r.place \in {"failed", "socket"} /\ r.given = proc[p].given
  BY <1>2, ArgumentTypes DEF AProcess
<1>4. Past(proc[p].place) /\ Past(r.place) /\ UNCHANGED line
  BY <1>3 DEF Resolve, At, Past
<1> QED
  BY <1>1, <1>2, <1>3, <1>4, PastReads

LEMMA SocketReads ==
  ASSUME IInv, ReadInv, NEW p \in Processes, Socket(p)
  PROVE  ReadInv'
<1>1. /\ Past(proc[p].place) /\ UNCHANGED line
      /\ \/ Become(p, [proc[p] EXCEPT !.candidate = @ + 1, !.struck = TRUE])
         \/ Go(p, IF p \in Servers THEN "bind" ELSE "connect")
         \/ Become(p, [proc[p] EXCEPT !.place = "bind", !.struck = TRUE])
  BY DEF Socket, At, Past
<1>2. CASE Become(p, [proc[p] EXCEPT !.candidate = @ + 1, !.struck = TRUE])
  <2>1. PICK r : r = [proc[p] EXCEPT !.candidate = @ + 1, !.struck = TRUE]
    OBVIOUS
  <2>2. r.place = proc[p].place /\ r.given = proc[p].given
    BY <2>1, ArgumentTypes DEF AProcess
  <2> QED
    BY <1>1, <1>2, <2>1, <2>2, PastReads
<1>3. CASE Go(p, IF p \in Servers THEN "bind" ELSE "connect")
  <2>1. PICK place \in {"bind", "connect"} : place = IF p \in Servers THEN "bind" ELSE "connect"
    OBVIOUS
  <2> QED
    BY <1>1, <1>3, <2>1, GoPastReads DEF Past
<1>4. CASE Become(p, [proc[p] EXCEPT !.place = "bind", !.struck = TRUE])
  <2>1. PICK r : r = [proc[p] EXCEPT !.place = "bind", !.struck = TRUE]
    OBVIOUS
  <2>2. r.place = "bind" /\ r.given = proc[p].given
    BY <2>1, ArgumentTypes DEF AProcess
  <2> QED
    BY <1>1, <1>4, <2>1, <2>2, PastReads DEF Past
<1> QED
  BY <1>1, <1>2, <1>3, <1>4

LEMMA CallReads ==
  ASSUME IInv, ReadInv, NEW p \in Processes, NEW name, NEW allowed, NEW s, NEW next,
         Call(p, name, allowed, s, next), Past(name), Past(next)
  PROVE  ReadInv'
<1>1. /\ Past(proc[p].place) /\ UNCHANGED line
      /\ Go(p, next) \/ \E struck \in BOOLEAN : Become(p, Onward(p, struck))
  BY DEF Call, At, NextCandidate
<1>2. CASE Go(p, next)
  BY <1>1, <1>2, GoPastReads
<1>3. CASE \E struck \in BOOLEAN : Become(p, Onward(p, struck))
  <2>1. PICK struck \in BOOLEAN : Become(p, Onward(p, struck))
    BY <1>3
  <2>2. PICK r : r = Onward(p, struck)
    OBVIOUS
  <2>3. r.place = "socket" /\ r.given = proc[p].given
    BY <2>2, ArgumentTypes DEF AProcess, Onward
  <2> QED
    BY <1>1, <2>1, <2>2, <2>3, PastReads DEF Past
<1> QED
  BY <1>1, <1>2, <1>3

LEMMA NameReads ==
  ASSUME IInv, ReadInv, NEW p \in Processes, Name(p)
  PROVE  ReadInv'
<1>1. PICK place \in {"failed", "serving"} : Go(p, place)
  BY DEF Name
<1>2. Past(proc[p].place) /\ Past(place) /\ UNCHANGED line
  BY <1>1 DEF Name, At, Past
<1> QED
  BY <1>1, <1>2, GoPastReads

LEMMA WalkReads ==
  ASSUME IInv, ReadInv, NEW p \in Processes, Walk(p)
  PROVE  ReadInv'
<1>1. \A name \in {"bind", "listen", "nonblock", "name", "connect", "connected"} : Past(name)
  BY DEF Past
<1>2. ASSUME Exhausted(p) PROVE ReadInv'
  BY <1>2, GoPastReads DEF Exhausted, At, Past
<1>3. ASSUME Bind(p) PROVE ReadInv'
  BY <1>1, <1>3, CallReads DEF Bind
<1>4. ASSUME Listen(p) PROVE ReadInv'
  BY <1>1, <1>4, CallReads DEF Listen
<1>5. ASSUME SetNonblocking(p) PROVE ReadInv'
  BY <1>1, <1>5, CallReads DEF SetNonblocking
<1>6. ASSUME Connect(p) PROVE ReadInv'
  BY <1>1, <1>6, CallReads DEF Connect
<1> QED
  BY <1>2, <1>3, <1>4, <1>5, <1>6, ResolveReads, SocketReads, NameReads DEF Walk

LEMMA StopReads ==
  ASSUME IInv, ReadInv, NEW p \in Processes, Stop(p)
  PROVE  ReadInv'
<1>1. /\ UNCHANGED line
      /\ proc' = [q \in Processes |->
                    IF q = p THEN NewProcess(proc[p].starts)
                             ELSE [proc[q] EXCEPT !.serving = @ \ {p}]]
  BY DEF Stop
<1>2. ASSUME NEW q \in Processes PROVE Understood(proc[q], q)'
  <2>1. PICK r : r = proc'[q]
    OBVIOUS
  <2>2. CASE q = p
    BY <1>1, <2>1, <2>2, OffUnderstood, SameLine
  <2>3. CASE q # p
    <3>1. r = [proc[q] EXCEPT !.serving = @ \ {p}]
      BY <1>1, <2>1, <2>3
    <3>2. /\ r.place = proc[q].place /\ r.at = proc[q].at
          /\ r.given = proc[q].given /\ r.number = proc[q].number
      BY <3>1, ArgumentTypes DEF AProcess
    <3>3. Understood(proc[q], q)
      BY DEF ReadInv
    <3>4. Understood(r, q)
      BY <3>2, <3>3 DEF Understood, Reading, ReadingNumber
    <3> QED
      BY <1>1, <2>1, <3>4, SameLine
  <2> QED
    BY <2>2, <2>3
<1> QED
  BY <1>2 DEF ReadInv

LEMMA StutterReads ==
  ASSUME ReadInv, UNCHANGED <<line, proc>>
  PROVE  ReadInv'
<1>1. ASSUME NEW q \in Processes PROVE Understood(proc[q], q)'
  <2>1. PICK r : r = proc[q]
    OBVIOUS
  <2> QED
    BY <2>1, SameLine DEF ReadInv
<1> QED
  BY <1>1 DEF ReadInv

LEMMA InitReads == Init => ReadInv
<1> SUFFICES ASSUME Init, NEW p \in Processes PROVE Understood(proc[p], p)
  BY DEF ReadInv
<1>1. proc[p] = NewProcess(0)
  BY DEF Init
<1> QED
  BY <1>1, OffUnderstood

LEMMA NextReads == IInv /\ ReadInv /\ [Next]_vars => ReadInv'
<1> SUFFICES ASSUME IInv, ReadInv, [Next]_vars PROVE ReadInv'
  OBVIOUS
<1>1. CASE Expire \/ UNCHANGED vars
  BY <1>1, StutterReads DEF Expire, vars
<1>2. ASSUME NEW p \in Processes, Start(p) PROVE ReadInv'
  BY <1>2, StartReads
<1>3. ASSUME NEW p \in Processes, ReadArguments(p) PROVE ReadInv'
  BY <1>3, OperationReads, ArgumentReads, NumberReads, ArgumentsEndReads DEF ReadArguments
<1>4. ASSUME NEW p \in Processes, Walk(p) PROVE ReadInv'
  BY <1>4, WalkReads
<1>5. ASSUME NEW p \in Processes, Stop(p) PROVE ReadInv'
  BY <1>5, StopReads
<1> QED
  BY <1>1, <1>2, <1>3, <1>4, <1>5 DEF Next

\* A process goes on to the network exactly with the command lines the usage text
\* allows, with the port its last --port gives (parse_options, main of the server).
THEOREM LinesAreUnderstood == Spec => []LinesUnderstood
<1>1. ReadInv => LinesUnderstood
  <2> SUFFICES ASSUME ReadInv, NEW p \in Processes
               PROVE  /\ At(p, "usage") => ~GoodLine(p)
                      /\ ~At(p, "usage") /\ ~At(p, "off") /\ ~At(p, "operation")
                           /\ ~At(p, "arguments") /\ ~At(p, "number") =>
                           /\ GoodLine(p)
                           /\ proc[p].given["--port"] =
                                ValueOf(Final(line[p], "--port", IF p \in Servers THEN 1 ELSE 2).text)
    BY DEF LinesUnderstood
  <2>1. Understood(proc[p], p)
    BY DEF ReadInv
  <2> QED
    BY <2>1 DEF Understood, At, First
<1> QED
  BY <1>1, InitReads, NextReads, StartupInvariant, PTL DEF Spec

=============================================================================
