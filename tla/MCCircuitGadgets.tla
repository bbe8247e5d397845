-------------------------- MODULE MCCircuitGadgets --------------------------
EXTENDS CircuitGadgets

(* Big numbers of two limbs of two bits: canonical ones, and one whose lowest limb is out of range. *)
MCOperands == {NatToLimbs(n, 2) : n \in {1, 6, 13}} \cup {[k \in 0..1 |-> IF k = 0 THEN 4 ELSE 0]}
MCModuli == {NatToLimbs(n, 2) : n \in {0, 7, 15}} \cup {[k \in 0..1 |-> 4]}
(* Canonical bounds, and those of verify_opt's squarings after the first: the key has the *)
(* bound RSA gives it. Its other operations need more room: they are MCFastPath's.       *)
MCWords == {Canonical, [x |-> MaxWord, y |-> MaxWord, m |-> KeyWord]}

(* Two blocks and two bytes. Paddings of messages on both sides of the block's  *)
(* 55th byte, for one and for two blocks, with one byte changed.                *)
MCText == [k \in 1..130 |-> (37 * k) % 256]
Lens == {0, 55, 56, 64, 119}
Tweaks == {<<0, 0>>} \cup ({2, 56, 57, 58, 64, 65, 121, 128} \X {1, 128})
Tweaked(data, t) == [k \in DOMAIN data |-> IF k = t[1] THEN t[2] ELSE data[k]]
MCBuffers ==
    {[data |-> Tweaked(Stretch(Sha256PadWithLen(SubSeq(MCText, 1, n), n + d), 128), t),
      last |-> l, prefix |-> p, total |-> n + d, pad |-> n + e] :
        n \in Lens, t \in Tweaks, l \in 0..2, p \in 0..1, d \in {0, 64}, e \in {0, 1}}

(* The block of the empty message, and one made of round constants. *)
MCBlockOf(in) ==
    [k \in 1..16 |-> IF in = "empty" THEN IF k = 1 THEN <<\h8000, 0>> ELSE <<0, 0>> ELSE K[k + 40]]
MCStateOf(in) == IF in = "empty" THEN InitialState ELSE [k \in 1..8 |-> K[8 + k]]

(* Behind the issuer's claims comes a member of the user's own choice: a plain one; an     *)
(* object with claims of another audience, expiry, run and subject; or bytes that hold     *)
(* those claims' text a character of base64 off.                                           *)
Own(iss, rest) == [aud |-> 33, exp |-> 37, iss |-> iss, run |-> 1, random |-> 3, sub |-> 50, rest |-> rest]
Flat == <<6, 33, 125>>
Others(aud) == TextOf([aud |-> aud, exp |-> 38, iss |-> 40, run |-> 2, random |-> 7, sub |-> 51, rest |-> <<>>])
Nested == <<6, 123>> \o SubSeq(Others(35), 1, 19) \o <<125, 125>>
Shifted == <<6>> \o JoinBits([c \in 1..28 |-> IF c = 1 THEN 0 ELSE SixBits(Others(36), c - 1)])
Token(own, key, header, signed) ==
    [f \in DOMAIN own \cup {"key", "header", "signed"} |->
        CASE f = "key" -> key [] f = "header" -> header [] f = "signed" -> signed [] OTHER -> own[f]]
Short(v) == [k \in 1..MaxClaim |-> IF k = 1 THEN v ELSE IF k = 2 THEN QuoteChar ELSE 0]
Leaf(k) == CASE k = 1 -> <<Short(40), "k1">> [] k = 2 -> <<Short(41), "k3">> [] OTHER -> <<Short(0), "none">>
MCLeaves == [k \in 0..3 |-> Leaf(k)]
(* Of 55, 59 and 120 bytes; with another claim of each name; with them a character off; *)
(* for another issuer; by another key; not signed; too long to decode.                  *)
PlainToken == Token(Own(40, Flat), "k1", 23, TRUE)
MCTokens ==
    {PlainToken, Token(Own(40, Flat \o <<125>>), "k1", 26, TRUE), Token(Own(40, Flat), "k1", 88, TRUE),
     Token(Own(40, Nested), "k1", 10, TRUE), Token(Own(40, Shifted), "k1", 10, TRUE),
     Token(Own(41, Flat), "k1", 23, TRUE), Token(Own(40, Flat), "k2", 23, TRUE),
     Token(Own(40, Flat), "k3", 23, TRUE), Token(Own(40, Flat), "k1", 24, FALSE),
     Token(Own(40, Nested \o <<125, 125, 125, 125>>), "k1", 10, TRUE)}
Auds == <<Poseidon(<<Packed(Short(33))>>), Poseidon(<<Packed(Short(0))>>)>>
Request(t) ==
    [token |-> t, key |-> t.key, run |-> 1, random |-> 3, leafIdx |-> 1, path |-> PathOf(1),
     slot |-> 2, audList |-> Auds, order |-> ClaimNames]
Plain == Request(PlainToken)
MCTokenRequests ==
    {Request(t) : t \in MCTokens} \cup
    {[Plain EXCEPT !.order = <<"aud", "iss", "exp", "nonce", "sub">>], [Plain EXCEPT !.run = 2],
     [Plain EXCEPT !.random = 0], [Plain EXCEPT !.path = <<>>], [Plain EXCEPT !.leafIdx = 2],
     [Plain EXCEPT !.audList = <<Auds[2]>>], [Plain EXCEPT !.key = "k3"]}
(* Identities that differ in a trailing zero byte, in where one claim ends and the next *)
(* begins, and at the last byte of a value and of a claim; configurations with one     *)
(* fault each.                                                                          *)
LongText(n) == [k \in 1..n |-> 97]
Person(aud) == [aud |-> aud, iss |-> <<105>>, sub |-> <<115>>]
MCIdentities ==
    {Person(aud) : aud \in {<<97>>, <<97, 0>>, LongText(10), LongText(11)}} \cup
    {[aud |-> <<97>>, iss |-> <<105, 115>>, sub |-> <<>>], [aud |-> <<97>>, iss |-> <<105>>, sub |-> LongText(9)]}
BaseConfig ==
    [jwt |-> 64, payload |-> 64, n |-> 3, k |-> 2, height |-> 2, limit |-> 3, claims |-> 5,
     forbidden |-> <<97>>, max |-> [aud |-> 12, exp |-> 10, iss |-> 12, nonce |-> 8, sub |-> 10]]
MCHostConfigs ==
    {BaseConfig,
     [BaseConfig EXCEPT !.jwt = 96], [BaseConfig EXCEPT !.jwt = 65536],
     [BaseConfig EXCEPT !.payload = 128], [BaseConfig EXCEPT !.payload = 62],
     [BaseConfig EXCEPT !.n = 1], [BaseConfig EXCEPT !.n = 256], [BaseConfig EXCEPT !.height = 17],
     [BaseConfig EXCEPT !.limit = 0], [BaseConfig EXCEPT !.limit = 1], [BaseConfig EXCEPT !.limit = 2],
     [BaseConfig EXCEPT !.claims = 4], [BaseConfig EXCEPT !.max["aud"] = 11],
     [BaseConfig EXCEPT !.max["exp"] = 8], [BaseConfig EXCEPT !.max["iss"] = 4],
     [BaseConfig EXCEPT !.forbidden = LongText(10)], [BaseConfig EXCEPT !.forbidden = LongText(11)],
     [BaseConfig EXCEPT !.limit = 2, !.forbidden = LongText(11)]}
(* Every system of two equations over 0, 1 and -1 with two targets: a pivot is       *)
(* missing in either place, or in the other row. The anchor's systems have three.    *)
Grids == [0..1 -> [0..1 -> {0, 1, 126}]]
MCSystems ==
    {[size |-> 2, matrix |-> g, target |-> [r \in 0..1 |-> IF r = 0 THEN t ELSE 5]] :
        g \in Grids, t \in {0, 3}}
=============================================================================
