-------------------------------- MODULE Wire --------------------------------
(***************************************************************************)
(* The vocabulary of the protocol: what travels on a connection, how a     *)
(* request line is judged and which replies exist.                         *)
(*                                                                         *)
(* A byte stream is a sequence of tokens.  A token is a word of a control  *)
(* line, the newline that ends the line, the head of a reply line, or one  *)
(* byte of file data.  A data byte carries where it comes from and its     *)
(* position there, so that lost, repeated, reordered or mixed bytes differ *)
(* from the right ones.  Any stream may be cut between any two tokens.     *)
(***************************************************************************)
EXTENDS Integers, Sequences

CONSTANTS
  Conns,          \* connections; each carries at most one request
  Names,          \* remote file names is_safe_filename accepts
  MaxRequestLine, \* kMaxRequestLine, counted in words
  MaxUploadBytes  \* kMaxUploadBytes

Word(w)      == [kind |-> "word", text |-> w]
Newline      == [kind |-> "newline"]
Byte(src, i) == [kind |-> "data", src |-> src, pos |-> i]
OkHead(n)    == [kind |-> "ok", size |-> n]
ReadyHead    == [kind |-> "ready"]
ErrHead(why) == [kind |-> "err", reason |-> why]

\* A reply line: its text and the newline, which two sends may separate.
Line(head) == <<head, Newline>>

\* The reasons of ERR, before an upload has begun and after.
Refusals == {"request-too-long", "bad-request", "unsafe-filename", "invalid-size",
             "not-found", "not-readable", "storage-failure"}
Aborts   == {"storage-failure", "protocol-error"}

\* The first n bytes of the file whose bytes come from src.
Bytes(src, n) == [i \in 1..n |-> Byte(src, i)]

-----------------------------------------------------------------------------
(***************************************************************************)
(* parse_request: the words of a line become a request or an error.  A     *)
(* size word is its number; -1 is a text parse_uint64 refuses.             *)
(***************************************************************************)
NoRequest(why)   == [error |-> why, operation |-> "none"]
GetRequest(f)    == [error |-> "none", operation |-> "Get", filename |-> f]
PutRequest(f, n) == [error |-> "none", operation |-> "Put", filename |-> f, size |-> n]

is_safe_filename(filename) == filename \in Names

\* The text is a number, one that 64 bits hold.
parse_uint64(text) == text \in Nat

ParseRequest(line) ==
  IF Len(line) < 2 THEN NoRequest("bad-request")
  ELSE IF ~is_safe_filename(line[2]) THEN NoRequest("unsafe-filename")
  ELSE IF line[1] = "GET"
       THEN IF Len(line) = 2 THEN GetRequest(line[2]) ELSE NoRequest("bad-request")
  ELSE IF line[1] # "PUT" \/ Len(line) # 3 THEN NoRequest("bad-request")
  ELSE IF ~parse_uint64(line[3]) \/ line[3] > MaxUploadBytes THEN NoRequest("invalid-size")
  ELSE PutRequest(line[2], line[3])

(***************************************************************************)
(* What handle_request_readable makes of the bytes received so far: wait   *)
(* for more, refuse with a reason, or take the request of the line.        *)
(***************************************************************************)
RequestIn(buffer) ==
  LET newlines == {i \in 1..Len(buffer) : buffer[i].kind = "newline"}
      line     == [i \in 1..(Len(buffer) - 1) |-> buffer[i].text]
  IN  CASE newlines = {} /\ Len(buffer) <= MaxRequestLine -> NoRequest("incomplete")
        [] newlines = {} /\ Len(buffer) > MaxRequestLine  -> NoRequest("request-too-long")
        [] newlines # {} /\ newlines # {Len(buffer)}      -> NoRequest("bad-request")
        [] newlines # {} /\ Len(buffer) - 1 > MaxRequestLine -> NoRequest("bad-request")
        [] OTHER                                          -> ParseRequest(line)

=============================================================================
