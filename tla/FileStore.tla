----------------------------- MODULE FileStore ------------------------------
(***************************************************************************)
(* What the file server promises to its users, with no process, sockets or *)
(* temporary files: a store of named byte sequences, which each connection *)
(* reads or replaces as a whole in one step.                               *)
(*                                                                         *)
(* promise[c] is all the server has committed itself to tell c so far and  *)
(* said[c] the part of it that is on the wire.  A GET is decided once: its *)
(* promise is one stored value with that value's size.  A PUT changes the  *)
(* store in the step that promises its OK, so no OK is ever said before    *)
(* the file is stored.  A connection may be lost at any point, and a       *)
(* download cut short where its file cannot be read.                       *)
(***************************************************************************)
EXTENDS Wire, SequencesExt

CONSTANT InitialStore  \* name |-> bytes, at first

VARIABLES
  plan,    \* connection |-> what its peer sends: a line of words, then data
  store, promise, said, closed

storeVars == <<plan, store, promise, said, closed>>

Asked(c) == ParseRequest(plan[c].line)

Init ==
  /\ DOMAIN plan = Conns
  /\ store = InitialStore
  /\ promise = [c \in Conns |-> <<>>]
  /\ said = [c \in Conns |-> <<>>]
  /\ closed = [c \in Conns |-> FALSE]

Promise(c, reply) == promise' = [promise EXCEPT ![c] = @ \o reply]

Refuse(c) ==
  /\ promise[c] = <<>>
  /\ \E why \in Refusals : Promise(c, Line(ErrHead(why)))
  /\ UNCHANGED store

Get(c) ==
  LET name == Asked(c).filename IN
  /\ Asked(c).operation = "Get"
  /\ promise[c] = <<>>
  /\ name \in DOMAIN store
  /\ Promise(c, Line(OkHead(Len(store[name]))) \o store[name])
  /\ UNCHANGED store

Invite(c) ==
  /\ Asked(c).operation = "Put"
  /\ promise[c] = <<>>
  /\ Promise(c, Line(ReadyHead))
  /\ UNCHANGED store

Commit(c) ==
  LET name == Asked(c).filename IN
  /\ Asked(c).operation = "Put"
  /\ promise[c] = Line(ReadyHead)
  /\ Promise(c, Line(OkHead(Asked(c).size)))
  /\ store' = [n \in DOMAIN store \cup {name} |->
                 IF n = name THEN Bytes(c, Asked(c).size) ELSE store[n]]

Abort(c) ==
  /\ Asked(c).operation = "Put"
  /\ promise[c] = Line(ReadyHead)
  /\ \E why \in Aborts : Promise(c, Line(ErrHead(why)))
  /\ UNCHANGED store

Decide(c) == Refuse(c) \/ Get(c) \/ Invite(c) \/ Commit(c) \/ Abort(c)

\* More of what was promised to c goes on the wire, or nothing.
Say(c) ==
  \E n \in Len(said[c])..Len(promise[c]) :
    said' = [said EXCEPT ![c] = SubSeq(promise[c], 1, n)]

\* The stored file cannot be read any further: c is promised only a part of the rest.
CutShort(c) ==
  /\ Asked(c).operation = "Get"
  /\ said[c] # <<>>
  /\ \E n \in Len(said'[c])..Len(promise[c]) :
       promise' = [promise EXCEPT ![c] = SubSeq(@, 1, n)]
  /\ UNCHANGED store

Serve(c) ==
  /\ ~closed[c]
  /\ Say(c)
  /\ Decide(c) \/ CutShort(c) \/ UNCHANGED <<store, promise>>
  /\ UNCHANGED closed

\* c gets its last bytes and its connection ends.
Close(c) ==
  /\ ~closed[c]
  /\ Say(c)
  /\ promise' = [promise EXCEPT ![c] = said'[c]]
  /\ closed' = [closed EXCEPT ![c] = TRUE]
  /\ UNCHANGED store

\* Connections are lost together: idle ones, or all when the process ends.
Lose(S) ==
  /\ \A c \in S : ~closed[c]
  /\ promise' = [c \in Conns |-> IF c \in S THEN said[c] ELSE promise[c]]
  /\ closed' = [c \in Conns |-> closed[c] \/ c \in S]
  /\ UNCHANGED <<store, said>>

Next ==
  /\ \/ \E c \in Conns : Serve(c) \/ Close(c)
     \/ \E S \in SUBSET Conns : Lose(S)
  /\ UNCHANGED plan

Spec == Init /\ [][Next]_storeVars

=============================================================================
