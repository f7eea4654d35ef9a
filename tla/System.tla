------------------------------- MODULE System -------------------------------
(***************************************************************************)
(* The whole program: tcp_file_server and the runs of tcp_file_client that *)
(* are its peers.  The clients do some of what the peers of Transport may  *)
(* do, so all that holds of Server holds here (module SystemProofs).       *)
(***************************************************************************)
EXTENDS ServerInvariants, ClientInvariants

serverVars == <<storageVars, loopVars, signalVars, g_upload_sequence, client>>

\* Only a process that runs takes connections.
RunStep(c) ==
  /\ Run(c) /\ (pc = "down" => stage[c] # "start")
  /\ UNCHANGED serverVars

ClientMishap(c) ==
  /\ CannotConnect(c) \/ CannotRead(c) \/ KillClient(c) \/ ResetAfterExit(c)
  /\ UNCHANGED serverVars

ServerAlone(action) == action /\ UNCHANGED clientVars

systemVars == <<vars, clientVars>>

SystemInit == Init /\ ClientInit

SystemNext ==
  \/ ServerAlone(Process) \/ ServerAlone(Signal) \/ ServerAlone(Kill)
  \/ ServerAlone(Restart) \/ ServerAlone(Tick)
  \/ \E c \in Conns : RunStep(c) \/ ClientMishap(c)

SystemSpec == SystemInit /\ [][SystemNext]_systemVars

-----------------------------------------------------------------------------
\* When a PUT has reported success its bytes are stored under its name, or all the
\* bytes of another PUT of that name: never again what the name held before.
UploadsStored ==
  \A c \in Conns : Done(c) /\ IsPut(c) =>
    LET name == Asked(c).filename IN
    /\ name \in DOMAIN entry
    /\ \E d \in Conns :
         /\ IsPut(d) /\ Asked(d).filename = name
         /\ content[entry[name]] = Bytes(d, Announced(d))

\* When a GET reports success its destination holds one whole version of the
\* remote file, although uploads of that file completed meanwhile.
DownloadsAreVersions ==
  \A c \in Conns : Done(c) /\ ~IsPut(c) =>
    local[Destination[c]] \in Versions(Asked(c).filename)

\* A GET fails only when the server has not sent it the whole file, where local
\* files do not get in its way: the close after the last byte cuts nothing off.
SentIsDownloaded ==
  \A c \in Conns : ~IsPut(c) /\ status[c] = "failed" =>
                     sent[c] \notin Downloads(Asked(c).filename)

-----------------------------------------------------------------------------
\* Local files do not get in the way: every run has a destination of its own, which
\* is free at first, and no call on a local file fails.
LocalsFree ==
  /\ LocalFaults \cap {"open", "write", "rename"} = {}
  /\ MaxResponseLine > 0
  /\ \A c, d \in Conns : Destination[c] = Destination[d] => c = d
  /\ \A files \in InitialLocals : \A c \in Conns :
       Destination[c] \notin DOMAIN files /\ Part(c) \notin DOMAIN files

\* What SentIsDownloaded needs besides the invariants of the server and the clients:
\* a GET failed because it was refused, or its connection ended too early.
FailedInv ==
  \A c \in Conns :
    /\ stage[c] \notin {"copying", "end"} => Free(c)
    /\ ~IsPut(c) /\ status[c] = "failed" =>
         \/ Len(sent[c]) >= 1 /\ sent[c][1].kind # "ok"
         \/ socket[c] = "closed" /\ sent[c] \notin Downloads(Asked(c).filename)

=============================================================================
