------------------------------ MODULE MCTexts ------------------------------
(* Short texts over the symbols the operations tell apart.                   *)
EXTENDS Texts

SeqsUpTo(S, n) == UNION {[1..m -> S] : m \in 0..n}

MCDatas == SeqsUpTo({0, 1, 61, 128, 255}, 3) \cup SeqsUpTo({0, 255}, 6)
MCBases == {2, 10, 16, 32, 33, 62, 64}
MCNumbers ==
    UNION {{Zeros(8 - Len(s)) \o s, s \o Zeros(8 - Len(s))} : s \in SeqsUpTo({0, 127, 255}, 4)}

MCSymbols == {"a", "b", "A", "B", ".", "*", "h", "://"}
MCLowerCase == [s \in MCSymbols |-> CASE s = "A" -> "a" [] s = "B" -> "b" [] OTHER -> s]
Hosts == SeqsUpTo({"a", "b", "."}, 3) \ {<<>>}
MCOrigins ==
    {<<>>, <<"a">>} \cup
    {<<"h", "://">> \o s : s \in Hosts \cup {<<"A", "b">>, <<"a", "*", "b">>, <<"a", "b", "b", "a">>}}
Patterns ==
    SeqsUpTo({"a", "*"}, 4) \cup SeqsUpTo({"a", "b", "*"}, 3) \cup {<<"B">>, <<"*", ".", "B">>}
        \cup {<<"h", "://">> \o s : s \in SeqsUpTo({"a", "b", "*"}, 2)} \cup {<<"*", "://", "a">>}
MCAllowLists == {<<>>} \cup {<<p>> : p \in Patterns} \cup {<<p, <<"*">>>> : p \in {<<>>, <<"a">>}}
    \cup {<<p, q>> : p, q \in {<<"a", "*">>, <<"*", "B">>, <<"h", "://", "*">>, <<"b">>}}

MCNames ==
    {K!NoPath} \cup {K!Path(FALSE, <<h>> \o t) : h \in {"a", ".", "..", "sp", "pct61"},
                                                 t \in SeqsUpTo({"a", "", ".."}, 1)}
        \cup {K!Path(TRUE, t) : t \in SeqsUpTo({"a", "", ".."}, 2) \ {<<"">>}}
        \cup {K!Path(FALSE, <<"a", "..", "..">>)}
MCServers ==
    {[scheme |-> s, host |-> h, port |-> p, segs |-> g] :
        s \in {"http", "https"}, h \in {"h"}, p \in {"", "80", "443"}, g \in {<<>>, <<"v1">>}}
    \cup {[scheme |-> "http", host |-> "other", port |-> "", segs |-> <<>>]}
=============================================================================
