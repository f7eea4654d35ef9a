------------------------------ MODULE Startup -------------------------------
(***************************************************************************)
(* Both programs from main to the first use of the network: they read      *)
(* their command lines, then walk over the addresses getaddrinfo returned, *)
(* the servers to listen on one (create_listener), the clients to connect  *)
(* (connect_to_server).  Several processes of each do so at the same time, *)
(* and servers stop and are started again.                                 *)
(***************************************************************************)
EXTENDS Decimal, FiniteSets, Functions

CONSTANTS
  Servers, Clients, \* the processes
  Addresses,        \* what getaddrinfo returns for the host and port, in order
  CommandLines,     \* bound: what the processes may be given, process |-> arguments
  PortMax,          \* std::numeric_limits<std::uint16_t>::max()
  DelayMax,         \* the largest --delay-ms
  MaxFaults,        \* bound: how many calls fail for reasons of their own
  MaxStarts         \* bound: how often a process is started

Processes == Servers \cup Clients

ASSUME StartupConstants ==
  /\ Servers \cap Clients = {}
  /\ CommandLines \subseteq [Processes -> Seq([word : STRING, text : Seq(0..NotDigit)])]
  /\ Addresses \in Seq(Range(Addresses))
  /\ PortMax \in 0..WordMax /\ DelayMax \in 0..WordMax
  /\ MaxFaults \in Nat /\ MaxStarts \in Nat

VARIABLES
  line,      \* process |-> its arguments, without the program's name
  proc,      \* process |-> its variables
  sockets,   \* process |-> its open sockets
  lingering, \* addresses that closed connections still occupy (TIME_WAIT)
  faults     \* failed calls so far

vars == <<line, proc, sockets, lingering, faults>>

\* An argument: its text, where digits matter, and a word that stands for it.
Word(w)   == [word |-> w, text |-> IF w = "" THEN <<>> ELSE <<NotDigit>>]
Digits(t) == [word |-> "digits", text |-> t]
Unsafe    == {"", "../a"}

\* The variables of main and what it calls: where it is, the argument it looks at,
\* the options read (flag |-> value), the number being read, the address being
\* tried.  The properties need three more: on which addresses another's socket was
\* in the way, whether a call failed for a reason of its own, and which servers have
\* been serving since the walk began.
NewProcess(starts) ==
  [place |-> "off", starts |-> starts, at |-> 1, given |-> <<>>, number |-> Unread(<<>>),
   candidate |-> 1, rivals |-> {}, struck |-> FALSE, serving |-> {}]

Init ==
  /\ line \in CommandLines
  /\ proc = [p \in Processes |-> NewProcess(0)]
  /\ sockets = [p \in Processes |-> {}]
  /\ lingering = {} /\ faults = 0

Become(p, r) == proc' = [proc EXCEPT ![p] = r]
Go(p, place) == Become(p, [proc[p] EXCEPT !.place = place])
At(p, place) == proc[p].place = place

Start(p) ==
  /\ At(p, "off") /\ proc[p].starts < MaxStarts
  /\ Become(p, [NewProcess(proc[p].starts + 1) EXCEPT
                  !.place = IF p \in Servers THEN "arguments" ELSE "operation"])
  /\ UNCHANGED <<line, sockets, lingering, faults>>

-----------------------------------------------------------------------------
(***************************************************************************)
(* The loop over the arguments, flags with a value each.  The server takes *)
(* the last value of a flag; the client takes --delay-ms again, and every  *)
(* other flag once.                                                        *)
(***************************************************************************)
Needed(p) == IF p \in Servers THEN {"--port", "--root"}
             ELSE {"--host", "--port", "--remote", "--local"}
Flags(p)  == Needed(p) \cup (IF p \in Servers THEN {"--bind"} ELSE {"--delay-ms"})
Numeric   == {"--port", "--delay-ms"}

Left(p)  == proc[p].at <= Len(line[p])
Flag(p)  == line[p][proc[p].at].word
Value(p) == line[p][proc[p].at + 1]

\* Mistake: a flag given twice is not noticed.
TakesAgain(p) == proc[p].at < Len(line[p]) /\ Flag(p) \in Flags(p)

Takes(p) ==
  /\ proc[p].at < Len(line[p]) /\ Flag(p) \in Flags(p)
  /\ p \in Clients /\ Flag(p) \in Needed(p) => Flag(p) \notin DOMAIN proc[p].given

Fits(p) ==
  p \in Clients =>
    Value(p).word \notin IF Flag(p) = "--remote" THEN Unsafe ELSE {""}

\* parse_port of the server bounds the value after each digit, the client the
\* result of parse_uint64.
DigitBound(p) == IF p \in Servers THEN PortMax ELSE WordMax
InRange(p)    ==
  p \in Clients =>
    proc[p].number.value \in IF Flag(p) = "--port" THEN 1..PortMax ELSE 0..DelayMax

Given(p, value) ==
  [proc[p] EXCEPT !.place = "arguments", !.at = @ + 2,
                  !.given = [f \in DOMAIN @ \cup {Flag(p)} |->
                               IF f = Flag(p) THEN value ELSE @[f]]]

Complete(p) ==
  /\ Needed(p) \subseteq DOMAIN proc[p].given
  /\ p \in Servers => proc[p].given["--root"].word # ""

IsOperation(p) == Left(p) /\ Flag(p) \in {"get", "put"}

Operation(p) ==
  /\ At(p, "operation")
  /\ IF IsOperation(p)
     THEN Become(p, [proc[p] EXCEPT !.place = "arguments", !.at = 2])
     ELSE Go(p, "usage")

Argument(p) ==
  /\ At(p, "arguments") /\ Left(p)
  /\ CASE Takes(p) /\ Flag(p) \in Numeric ->
            Become(p, [proc[p] EXCEPT !.place = "number", !.number = Unread(Value(p).text)])
       [] Takes(p) /\ Flag(p) \notin Numeric /\ Fits(p) -> Become(p, Given(p, Value(p)))
       [] OTHER -> Go(p, "usage")

Number(p) ==
  /\ At(p, "number")
  /\ LET n == proc[p].number IN
     CASE n.verdict = "open" -> Become(p, [proc[p] EXCEPT !.number = Step(n, DigitBound(p))])
       [] n.verdict = "accepted" /\ InRange(p) -> Become(p, Given(p, n.value))
       [] OTHER -> Go(p, "usage")

ArgumentsEnd(p) ==
  /\ At(p, "arguments") /\ ~Left(p)
  /\ Go(p, IF Complete(p) THEN "resolve" ELSE "usage")

ReadArguments(p) ==
  /\ Operation(p) \/ Argument(p) \/ Number(p) \/ ArgumentsEnd(p)
  /\ UNCHANGED <<line, sockets, lingering, faults>>

-----------------------------------------------------------------------------
(***************************************************************************)
(* The kernel's table of sockets.  An address can be bound twice while no  *)
(* socket listens on it, if all its sockets have SO_REUSEADDR, which also  *)
(* passes over connections that linger.  One socket listens.               *)
(***************************************************************************)
\* Mistake: SO_REUSEADDR is not set.
StrictSocket(a, reuse) == [address |-> a, bound |-> FALSE, listening |-> FALSE,
                           reuse |-> FALSE, nonblocking |-> FALSE]

NewSocket(a, reuse) == [address |-> a, bound |-> FALSE, listening |-> FALSE,
                        reuse |-> reuse, nonblocking |-> FALSE]

Others(p, a)   == UNION {{s \in sockets[q] : s.address = a} : q \in Processes \ {p}}
Listened(p, a) == \E s \in Others(p, a) : s.listening
Rivalled(p, a) == \E s \in Others(p, a) : s.listening \/ (s.bound /\ ~s.reuse)
Taken(p, a, s) ==
  \/ \E t \in Others(p, a) : t.bound /\ (t.listening \/ ~t.reuse \/ ~s.reuse)
  \/ a \in lingering /\ ~s.reuse

-----------------------------------------------------------------------------
(***************************************************************************)
(* The walk over the candidates.                                           *)
(***************************************************************************)
Candidate(p)  == Addresses[proc[p].candidate]
Current(p)    == CHOOSE s \in sockets[p] : s.address = Candidate(p)
Tried(p)      == proc[p].candidate > Len(Addresses)
Fault(struck) == faults' = faults + (IF struck THEN 1 ELSE 0) /\ faults' <= MaxFaults

ServingNow == {q \in Servers : At(q, "serving")}

\* main prepares the storage root; getaddrinfo.  Both may fail.
Resolve(p) ==
  /\ At(p, "resolve")
  /\ \E struck \in BOOLEAN :
       /\ Fault(struck)
       /\ Become(p, [proc[p] EXCEPT !.place = IF struck THEN "failed" ELSE "socket",
                                    !.serving = ServingNow])
  /\ UNCHANGED <<line, sockets, lingering>>

\* socket may fail.  So may setsockopt in a server, at which nobody looks.
Socket(p) ==
  /\ At(p, "socket") /\ ~Tried(p)
  /\ \/ /\ Fault(TRUE)
        /\ Become(p, [proc[p] EXCEPT !.candidate = @ + 1, !.struck = TRUE])
        /\ UNCHANGED sockets
     \/ /\ Fault(FALSE)
        /\ Go(p, IF p \in Servers THEN "bind" ELSE "connect")
        /\ sockets' = [sockets EXCEPT ![p] = @ \cup {NewSocket(Candidate(p), TRUE)}]
     \/ /\ p \in Servers /\ Fault(TRUE)
        /\ Become(p, [proc[p] EXCEPT !.place = "bind", !.struck = TRUE])
        /\ sockets' = [sockets EXCEPT ![p] = @ \cup {NewSocket(Candidate(p), FALSE)}]
  /\ UNCHANGED <<line, lingering>>

\* The process after a call on the current candidate failed.
Onward(p, struck) ==
  [proc[p] EXCEPT !.place = "socket", !.candidate = @ + 1, !.struck = @ \/ struck,
                  !.rivals = IF Rivalled(p, Candidate(p)) THEN @ \cup {proc[p].candidate} ELSE @]

\* Mistake: the first address decides.
NextCandidateNever(p, struck) ==
  /\ Become(p, [Onward(p, struck) EXCEPT !.candidate = Len(Addresses) + 1])
  /\ sockets' = [sockets EXCEPT ![p] = @ \ {Current(p)}]

NextCandidate(p, struck) ==
  /\ Become(p, Onward(p, struck))
  /\ sockets' = [sockets EXCEPT ![p] = @ \ {Current(p)}]

\* A call on the current socket: it makes it s, or it fails and the socket is closed.
Call(p, name, allowed, s, next) ==
  /\ At(p, name)
  /\ \/ /\ allowed
        /\ Go(p, next)
        /\ sockets' = [sockets EXCEPT ![p] = (@ \ {Current(p)}) \cup {s}]
        /\ UNCHANGED faults
     \/ \E struck \in BOOLEAN :
          /\ struck \/ ~allowed
          /\ Fault(struck)
          /\ NextCandidate(p, struck)
  /\ UNCHANGED <<line, lingering>>

Bind(p) == Call(p, "bind", ~Taken(p, Candidate(p), Current(p)),
                [Current(p) EXCEPT !.bound = TRUE], "listen")

Listen(p) == Call(p, "listen", ~Listened(p, Candidate(p)),
                  [Current(p) EXCEPT !.listening = TRUE], "nonblock")

\* Mistake: what fcntl returns is not looked at.
SetNonblockingMaybe(p) ==
  \E done \in BOOLEAN :
    Call(p, "nonblock", TRUE, [Current(p) EXCEPT !.nonblocking = done], "name")

SetNonblocking(p) ==
  Call(p, "nonblock", TRUE, [Current(p) EXCEPT !.nonblocking = TRUE], "name")

Connect(p) == Call(p, "connect", Listened(p, Candidate(p)), Current(p), "connected")

Exhausted(p) ==
  /\ At(p, "socket") /\ Tried(p)
  /\ Go(p, "refused")
  /\ UNCHANGED <<line, sockets, lingering, faults>>

\* getsockname, and the port it returns; the server announces itself.
Name(p) ==
  /\ At(p, "name")
  /\ \E struck \in BOOLEAN :
       /\ Fault(struck)
       /\ Go(p, IF struck THEN "failed" ELSE "serving")
       /\ sockets' = [sockets EXCEPT ![p] = IF struck THEN @ \ {Current(p)} ELSE @]
  /\ UNCHANGED <<line, lingering>>

Walk(p) ==
  \/ Resolve(p) \/ Socket(p) \/ Exhausted(p)
  \/ p \in Servers /\ (Bind(p) \/ Listen(p) \/ SetNonblocking(p) \/ Name(p))
  \/ p \in Clients /\ Connect(p)

-----------------------------------------------------------------------------
\* A server has ended: by itself, a signal or a kill.  Its connections may linger.
Stop(p) ==
  /\ p \in Servers /\ ~At(p, "off")
  /\ proc' = [q \in Processes |->
                IF q = p THEN NewProcess(proc[p].starts)
                         ELSE [proc[q] EXCEPT !.serving = @ \ {p}]]
  /\ sockets' = [sockets EXCEPT ![p] = {}]
  /\ \E left \in SUBSET {s.address : s \in {t \in sockets[p] : t.listening}} :
       lingering' = lingering \cup left
  /\ UNCHANGED <<line, faults>>

Expire ==
  /\ lingering # {}
  /\ \E a \in lingering : lingering' = lingering \ {a}
  /\ UNCHANGED <<line, proc, sockets, faults>>

Next == Expire \/ \E p \in Processes : Start(p) \/ ReadArguments(p) \/ Walk(p) \/ Stop(p)

Spec == Init /\ [][Next]_vars

-----------------------------------------------------------------------------
\* Every number of a command line is read exactly (parse_uint64, parse_port).
NumbersExact ==
  \A p \in Processes : ~At(p, "off") => Exact(proc[p].number, DigitBound(p))

\* The values a flag of line l has, in order; those of the client begin behind its
\* operation.
ValuesOf(l, flag, first) ==
  {i \in first..Len(l) : (i - first) % 2 = 1 /\ l[i - 1].word = flag}
Final(l, flag, first) ==
  l[CHOOSE i \in ValuesOf(l, flag, first) : \A j \in ValuesOf(l, flag, first) : j <= i]

GoodServerLine(l, p) ==
  /\ Len(l) % 2 = 0
  /\ \A i \in DOMAIN l : i % 2 = 1 => l[i].word \in Flags(p)
  /\ \A i \in ValuesOf(l, "--port", 1) : IsNumber(l[i].text, 0, PortMax)
  /\ \A flag \in Needed(p) : ValuesOf(l, flag, 1) # {}
  /\ Final(l, "--root", 1).word # ""

GoodClientLine(l, p) ==
  /\ Len(l) % 2 = 1 /\ l[1].word \in {"get", "put"}
  /\ \A i \in 2..Len(l) : i % 2 = 0 => l[i].word \in Flags(p)
  /\ \A flag \in Needed(p) : Cardinality(ValuesOf(l, flag, 2)) = 1
  /\ IsNumber(Final(l, "--port", 2).text, 1, PortMax)
  /\ Final(l, "--remote", 2).word \notin Unsafe
  /\ \A flag \in {"--host", "--local"} : Final(l, flag, 2).word # ""
  /\ \A i \in ValuesOf(l, "--delay-ms", 2) : IsNumber(l[i].text, 0, DelayMax)

GoodLine(p) == IF p \in Servers THEN GoodServerLine(line[p], p) ELSE GoodClientLine(line[p], p)

\* A process goes on to the network exactly with the command lines the usage text
\* allows, and the port it goes on with is what the last --port says.
LinesUnderstood ==
  \A p \in Processes :
    /\ At(p, "usage") => ~GoodLine(p)
    /\ ~At(p, "usage") /\ ~At(p, "off") /\ ~At(p, "operation")
         /\ ~At(p, "arguments") /\ ~At(p, "number") =>
         /\ GoodLine(p)
         /\ proc[p].given["--port"] =
              ValueOf(Final(line[p], "--port", IF p \in Servers THEN 1 ELSE 2).text)

\* No candidate that failed leaves its socket behind, and a server that announces
\* itself has one socket, listening and non-blocking: accept_connections would
\* otherwise block the whole event loop.
SocketsAccounted ==
  \A p \in Processes :
    LET held == {"bind", "listen", "nonblock", "name", "serving", "connect", "connected"} IN
    /\ Cardinality(sockets[p]) = IF proc[p].place \in held THEN 1 ELSE 0
    /\ At(p, "serving") => \A s \in sockets[p] : s.bound /\ s.listening /\ s.nonblocking

\* A server gives up only after it met another server's listener on every address (or
\* a socket for which setsockopt failed), unless a call of its own failed for a reason
\* of its own: connections of a server that was there before, or another start at the
\* same moment, do not keep it from starting.
RefusedByListeners ==
  \A p \in Servers : At(p, "refused") /\ ~proc[p].struck =>
    proc[p].rivals = DOMAIN Addresses

\* A client that cannot connect although no call of it failed for a reason of its
\* own has no server to connect to: none has been serving all the while.
ServersReached ==
  \A p \in Clients : At(p, "refused") /\ ~proc[p].struck => proc[p].serving = {}

=============================================================================
