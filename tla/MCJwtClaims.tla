---------------------------- MODULE MCJwtClaims -----------------------------
(* Payloads for TLC: documents of one or two members, and any short text   *)
(* after the key.                                                          *)
EXTENDS JwtClaims

MCKey == <<"k">>
MCChars == {Quote, Backslash, Space, FormFeed, Nul, ":", ",", "[", "]", "{", "}",
            "0", "1", "f", "x", "v", "j", "k"}

Gaps == {<<>>, <<Space>>, <<FormFeed>>}

Values ==
    {<<Quote, Quote>>, <<Quote, "v", Quote>>, <<Quote, "v", Backslash, Quote, "v", Quote>>,
     Needle, <<Quote, ",", "}", Quote>>,
     <<"1", "0">>, <<"1">>, <<"1", "0", "1">>, <<"1", "v">>,
     <<"[", Quote, "]", ",", Quote, ",", "1", "]">>, <<"{", Quote, "v", Quote, ":", "1", "}">>,
     <<Quote, "0", "x", "f", Quote>>, <<Quote, "0", "x", "1", "f", Quote>>,
     <<Quote, "0", "x", "1", "0", "f", Quote>>, <<Quote, "0", "x", Quote>>,
     <<Quote, "0", "x", "v", Quote>>}

TheMembers ==
    {[key |-> Key, value |-> v, beforeColon |-> a, afterColon |-> b, afterValue |-> c]
        : v \in Values, a \in Gaps, b \in Gaps, c \in Gaps}
OtherMembers ==
    {[key |-> <<n>>, value |-> v, beforeColon |-> <<>>, afterColon |-> <<>>, afterValue |-> <<>>]
        : n \in {"j", "k"}, v \in {Needle, <<"1">>, <<"[", Needle[1], "k", Quote, "]">>}}

MCDocuments ==
    {<<m>> : m \in TheMembers} \cup {<<o>> : o \in OtherMembers}
    \cup {<<o, m>> : o \in OtherMembers, m \in TheMembers}
    \cup {<<m, o>> : o \in OtherMembers, m \in TheMembers}

Alphabet == {Quote, Backslash, ":", ",", "}", "[", "]", Space, FormFeed, "1"}
MCTexts == {Needle \o t : t \in UNION {[1..n -> Alphabet] : n \in 0..4}}
=============================================================================
