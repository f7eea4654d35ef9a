------------------------------- MODULE MCPace -------------------------------
EXTENDS MCSystem, Pace

ShortA == a :> [kind |-> "regular", size |-> 1]

\* A download, and an upload of three chunks.
Paced == c1 :> {Get(a)} @@ c2 :> {Put(a, 3, 3)}

\* The delay is shorter than the timeout, and the upload fits.
ASSUME DelayIsShort == Delay < IdleTimeout /\ UploadsFit

=============================================================================
