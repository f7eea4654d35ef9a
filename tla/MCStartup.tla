----------------------------- MODULE MCStartup ------------------------------
EXTENDS Startup, TLC

CONSTANTS s1, s2, k1, ip4, ip6

\* The texts of numbers, with a word of one byte: WordMax = 255.
Texts ==
  {Digits(t) : t \in {<<>>} \cup [1..1 -> {0, 2, NotDigit}] \cup [1..2 -> {0, 2, 5, NotDigit}]
                       \cup [1..3 -> {0, 2, 5, 6, 9}] \cup [1..4 -> {0, 2, 5, 6}]}

Eighty == Digits(<<8, 0>>)
Good   == <<Word("--port"), Eighty, Word("--root"), Word("r")>>
Host   == <<Word("--host"), Word("h")>>
Remote == <<Word("--remote"), Word("a")>>
Local  == <<Word("--local"), Word("a")>>
Port   == <<Word("--port"), Eighty>>
Get    == <<Word("get")>>
Fetch  == Get \o Host \o Port \o Remote \o Local

Pairs == {<<f, v>> : f \in {Word("--port"), Word("--root"), Word("--bind"), Word("--x")},
                     v \in {Eighty, Word("r"), Word("")}}

\* What a server may be given: a port of any text, any three options, a flag
\* without a value.
ServerLines ==
  {<<Word("--root"), Word("r"), Word("--port"), t>> : t \in Texts}
  \cup {a \o b : a, b \in Pairs} \cup {Good \o a : a \in Pairs}
  \cup {<<Word("--port"), Eighty, Word("--root")>>, <<Word("--port"), Word("--root"), Word("r")>>}

Parts == {Host, Remote, Local, Port, <<Word("--remote"), Word("../a")>>,
          <<Word("--local"), Word("")>>, <<Word("--delay-ms"), Digits(<<9>>)>>}

ClientLines ==
  {Get \o Host \o <<Word("--port"), t>> \o Remote \o Local : t \in Texts}
  \cup {Fetch \o <<Word("--delay-ms"), t>> : t \in Texts}
  \cup {Get \o a \o b \o c \o Port : a, b, c \in Parts}
  \cup {Fetch \o a : a \in Parts} \cup {Host, <<>>, <<Word("del")>>, Fetch \o <<Word("--delay-ms")>>}

\* Either one process reads any line and the others give up at once, or all go on
\* to the network.
Network == s1 :> Good @@ s2 :> Good @@ k1 :> Fetch
Nothing == [p \in {s1, s2, k1} |-> <<>>]
Lines   == {Network} \cup {[Nothing EXCEPT ![s1] = l] : l \in ServerLines}
                     \cup {[Nothing EXCEPT ![s2] = l] : l \in ServerLines}
                     \cup {[Nothing EXCEPT ![k1] = l] : l \in ClientLines}

TwoAddresses == <<ip6, ip4>>
Twins        == Permutations({s1, s2})

=============================================================================
