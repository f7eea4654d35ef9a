----------------------------- MODULE MCOverlap ------------------------------
(***************************************************************************)
(* The server when a remote name is also a name it gives to an upload in   *)
(* progress: is_safe_filename accepts ".upload-7-1.part".  Two peers       *)
(* upload under distinct names, and one of them picks that name.           *)
(***************************************************************************)
EXTENDS ServerProperties

CONSTANTS c1, c2

a    == <<"a">>
part == <<7, 1>>  \* the temporary path of descriptor 7 and sequence number 1

Put(n, s) == [line |-> <<"PUT", n, s>>, payload |-> s]

OverlappingNames == {a, part}
NoFiles          == <<>>
DistinctNames    == c1 :> {Put(a, 2)} @@ c2 :> {Put(part, 1)}

\* README.md:110 tells writers that must not replace one another to use distinct
\* names.  These do, so each answered OK is of an upload stored under its name.
DistinctNamesSuffice == AcknowledgedIsStored

=============================================================================
