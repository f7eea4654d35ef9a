------------------------------ MODULE Storage -------------------------------
(***************************************************************************)
(* The storage root as the server uses it: a directory of links to files.  *)
(* A file outlives its link while it is open, and renaming a link onto     *)
(* another name replaces what that name linked to in one step.  This is    *)
(* the behaviour of the file system behind std::filesystem and fstream.    *)
(***************************************************************************)
EXTENDS Wire

CONSTANTS
  Fds,         \* descriptor numbers accept can return
  InitialRoot, \* what the root holds at first: name |-> [kind, size]
  None         \* an empty path, a closed file, a closed descriptor

VARIABLES
  entry,   \* name |-> the file it links to, for the names that exist
  content  \* file |-> its bytes

storageVars == <<entry, content>>

\* A file is named after what created it: a connection's upload, or the name
\* it had when the root was set up.
Files == Conns \cup Names

\* (".upload-" fd "-" sequence ".part"): the names the server gives uploads.
TempNames == Fds \X Nat

OfKind(kind)   == {n \in DOMAIN InitialRoot : InitialRoot[n].kind = kind}
IsRegular(f)   == f \notin OfKind("directory") \cup OfKind("symlink")
IsDirectory(f) == f \in OfKind("directory")

\* The names that link a regular file.
Retrievable == {n \in DOMAIN entry : IsRegular(entry[n])}

StorageInit ==
  /\ entry = [n \in DOMAIN InitialRoot |-> n]
  /\ content = [f \in Files |-> IF f \in DOMAIN InitialRoot
                                THEN Bytes(f, InitialRoot[f].size) ELSE <<>>]

\* The directory without the links in P.
Without(P) == [n \in (DOMAIN entry) \ P |-> entry[n]]

\* The directory with n linking to f.
With(n, f) == [m \in (DOMAIN entry) \cup {n} |-> IF m = n THEN f ELSE entry[m]]

\* The directory after rename(from, to).
Renamed(from, to) ==
  [n \in ((DOMAIN entry) \ {from}) \cup {to} |->
     IF n = to THEN entry[from] ELSE entry[n]]

=============================================================================
