------------------------------ MODULE Decimal -------------------------------
(***************************************************************************)
(* parse_uint64 of both programs, and the server's parse_port, which makes *)
(* the same loop with a bound on the value after each digit.  A text is a  *)
(* sequence of characters, of which the digits are 0..9.  The value has    *)
(* the width of uint64_t: it wraps.                                        *)
(***************************************************************************)
EXTENDS Integers, Sequences

CONSTANT WordMax \* std::numeric_limits<std::uint64_t>::max()

ASSUME WordConstant == WordMax \in Nat

IsDigit(character) == character \in 0..9
NotDigit           == 10

\* The loop before its first turn.  exact is not in the code: it is what the
\* digits read so far mean, and does not wrap.
Unread(text) ==
  [text |-> text, at |-> 0, value |-> 0, exact |-> 0,
   verdict |-> IF text = <<>> THEN "rejected" ELSE "open"]

Character(n) == n.text[n.at + 1]

\* Mistake: the last digit is not taken off first.
OverflowsRounded(value, digit) == value > WordMax \div 10

Overflows(value, digit) == value > (WordMax - digit) \div 10

Appended(value, digit) == (value * 10 + digit) % (WordMax + 1)

Refuses(n, bound) ==
  \/ ~IsDigit(Character(n))
  \/ Overflows(n.value, Character(n))
  \/ Appended(n.value, Character(n)) > bound

\* One turn of the loop, or the return behind it.
Step(n, bound) ==
  CASE n.at = Len(n.text) -> [n EXCEPT !.verdict = "accepted"]
    [] n.at < Len(n.text) /\ Refuses(n, bound) -> [n EXCEPT !.verdict = "rejected"]
    [] n.at < Len(n.text) /\ ~Refuses(n, bound) ->
         [n EXCEPT !.at = @ + 1,
                   !.value = Appended(@, Character(n)),
                   !.exact = @ * 10 + Character(n)]

-----------------------------------------------------------------------------
\* What a text of digits means, for reference.
ValueOf(text) ==
  LET value[i \in 0..Len(text)] == IF i = 0 THEN 0 ELSE value[i - 1] * 10 + text[i]
  IN  value[Len(text)]

IsNumber(text, least, most) ==
  /\ text # <<>>
  /\ \A i \in DOMAIN text : IsDigit(text[i])
  /\ ValueOf(text) \in least..most

\* A number is accepted only when all of its text is digits and their meaning is
\* at most bound, and rejected only when not: no digit ever wraps the value.
Exact(n, bound) ==
  /\ n.value = n.exact /\ n.value <= bound
  /\ \A i \in 1..n.at : IsDigit(n.text[i])
  /\ n.verdict = "accepted" => n.text # <<>> /\ n.at = Len(n.text)
  /\ n.verdict = "rejected" =>
       \/ n.text = <<>>
       \/ n.at < Len(n.text) /\ (~IsDigit(Character(n)) \/ n.exact * 10 + Character(n) > bound)

=============================================================================
