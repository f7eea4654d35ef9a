-------------------------- MODULE ClientProperties --------------------------
(***************************************************************************)
(* What makes the client correct, whatever the server it talks to does.    *)
(***************************************************************************)
EXTENDS Client

Done(c) == status[c] = "done"

\* The bytes a server has announced and sent, once its line is OK.
Delivered(c) == SubSeq(sent[c], 3, sent[c][1].size + 2)

Downloaded(c) ==
  /\ Done(c) /\ Destination[c] \in DOMAIN local
  /\ Len(local[Destination[c]]) = sent[c][1].size
  /\ local[Destination[c]] = Delivered(c)

\* A destination appears in one step, with exactly the bytes its run was
\* announced and sent, and that run reports success (run_get writes elsewhere and
\* renames; copy_exactly stops at the announced count).
DownloadsWhole ==
  [][\A c \in Conns :
       /\ Destination[c] \in DOMAIN local' \ DOMAIN local =>
            \E d \in Conns : Destination[d] = Destination[c] /\ Downloaded(d)' /\ ~Done(d)
       /\ Done(c)' /\ ~IsPut(c) => Downloaded(c)']_clientVars

\* Unless a remove fails, a run leaves its temporary file only when it is killed:
\* after any other failure the next GET is not refused because of it.
PartsRemoved ==
  [][\A c \in Conns :
       stage[c] = "copying" /\ stage'[c] = "end" /\ Part(c) \in DOMAIN local' =>
         status'[c] = "killed"]_clientVars

\* File data follows READY only, never the request ("The client waits for READY
\* before sending file bytes", docs/protocol.md:26), and a PUT reports success
\* only when it had as many bytes as announced and the server confirmed as many.
UploadsConfirmed ==
  \A c \in Conns :
    /\ offered[c] > RequestEnd(c) => IsPrefix(Line(ReadyHead), sent[c])
    /\ Done(c) /\ IsPut(c) =>
         /\ plan[c].payload = Announced(c)
         /\ IsPrefix(Line(ReadyHead) \o Line(OkHead(Announced(c))), sent[c])

\* No run changes or removes a local file that is not its temporary one.
LocalFilesKept ==
  [][\A p \in DOMAIN local \ {Part(c) : c \in {d \in Conns : stage[d] = "copying"}} :
       p \in DOMAIN local' /\ local'[p] = local[p]]_clientVars

=============================================================================
