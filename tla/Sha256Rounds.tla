---------------------------- MODULE Sha256Rounds ----------------------------
(***************************************************************************)
(* The compression function of SHA-256, written twice in                   *)
(* gadget/src/hashes/sha256: once over circuit bits (update_state of       *)
(* constraints.rs) and once over u32 (update_with_state of utils.rs), in   *)
(* different formulas. They run side by side here, an index of the message *)
(* schedule and then a round at a time. A word is its 32 bits, the least   *)
(* significant first, as to_bits_le has them.                              *)
(***************************************************************************)
EXTENDS NatPowers, Sequences

CONSTANT CompressInputs     \* the pairs of a state and a block tried, by name
CONSTANT StateOf(_), BlockOf(_)

ASSUME CompressAssumption ==
    \A in \in CompressInputs : DOMAIN StateOf(in) = 1..8 /\ DOMAIN BlockOf(in) = 1..16

VARIABLES
    input,          \* the pair being compressed
    schedule,       \* w: 16 to 64 words, by the same formula on both sides
    working,      \* h and a..h
    rounds,          \* rounds done; 65 when the state has been added
    compressing

roundVars == <<input, schedule, working, rounds, compressing>>

Sides == {"circuit", "host"}

-----------------------------------------------------------------------------
(* UInt32                                                                  *)

Bit32 == 0..31
Word32(halves) ==
    [k \in Bit32 |-> (halves[IF k < 16 THEN 2 ELSE 1] \div NatPower(2, k % 16)) % 2 = 1]
Half(w, from) ==
    LET n[k \in 0..16] == IF k = 0 THEN 0 ELSE 2 * n[k - 1] + (IF w[from + 16 - k] THEN 1 ELSE 0)
    IN n[16]
Halves(w) == <<Half(w, 16), Half(w, 0)>>

RotateRight(w, n) == [k \in Bit32 |-> w[(k + n) % 32]]
ShiftRight(w, n) == [k \in Bit32 |-> IF k + n < 32 THEN w[k + n] ELSE FALSE]
Xor(v, w) == [k \in Bit32 |-> v[k] # w[k]]
And(v, w) == [k \in Bit32 |-> v[k] /\ w[k]]
Or(v, w) == [k \in Bit32 |-> v[k] \/ w[k]]
Not(w) == [k \in Bit32 |-> ~w[k]]

\* wrapping_add_many, and wrapping_add in a row: the sum modulo 2^32.
WrappingAdd(words) ==
    LET sum(from) == LET s[i \in 0..Len(words)] ==
                            IF i = 0 THEN 0 ELSE s[i - 1] + Half(words[i], from)
                     IN s[Len(words)]
        low == sum(0)
    IN Word32(<<(sum(16) + low \div 65536) % 65536, low % 65536>>)

-----------------------------------------------------------------------------
(* The constants of mod.rs.                                                *)

K == << <<\h428a, \h2f98>>, <<\h7137, \h4491>>, <<\hb5c0, \hfbcf>>, <<\he9b5, \hdba5>>, <<\h3956, \hc25b>>,
      <<\h59f1, \h11f1>>, <<\h923f, \h82a4>>, <<\hab1c, \h5ed5>>, <<\hd807, \haa98>>, <<\h1283, \h5b01>>,
      <<\h2431, \h85be>>, <<\h550c, \h7dc3>>, <<\h72be, \h5d74>>, <<\h80de, \hb1fe>>, <<\h9bdc, \h06a7>>,
      <<\hc19b, \hf174>>, <<\he49b, \h69c1>>, <<\hefbe, \h4786>>, <<\h0fc1, \h9dc6>>, <<\h240c, \ha1cc>>,
      <<\h2de9, \h2c6f>>, <<\h4a74, \h84aa>>, <<\h5cb0, \ha9dc>>, <<\h76f9, \h88da>>, <<\h983e, \h5152>>,
      <<\ha831, \hc66d>>, <<\hb003, \h27c8>>, <<\hbf59, \h7fc7>>, <<\hc6e0, \h0bf3>>, <<\hd5a7, \h9147>>,
      <<\h06ca, \h6351>>, <<\h1429, \h2967>>, <<\h27b7, \h0a85>>, <<\h2e1b, \h2138>>, <<\h4d2c, \h6dfc>>,
      <<\h5338, \h0d13>>, <<\h650a, \h7354>>, <<\h766a, \h0abb>>, <<\h81c2, \hc92e>>, <<\h9272, \h2c85>>,
      <<\ha2bf, \he8a1>>, <<\ha81a, \h664b>>, <<\hc24b, \h8b70>>, <<\hc76c, \h51a3>>, <<\hd192, \he819>>,
      <<\hd699, \h0624>>, <<\hf40e, \h3585>>, <<\h106a, \ha070>>, <<\h19a4, \hc116>>, <<\h1e37, \h6c08>>,
      <<\h2748, \h774c>>, <<\h34b0, \hbcb5>>, <<\h391c, \h0cb3>>, <<\h4ed8, \haa4a>>, <<\h5b9c, \hca4f>>,
      <<\h682e, \h6ff3>>, <<\h748f, \h82ee>>, <<\h78a5, \h636f>>, <<\h84c8, \h7814>>, <<\h8cc7, \h0208>>,
      <<\h90be, \hfffa>>, <<\ha450, \h6ceb>>, <<\hbef9, \ha3f7>>, <<\hc671, \h78f2>> >>

InitialState == << <<\h6a09, \he667>>, <<\hbb67, \hae85>>, <<\h3c6e, \hf372>>, <<\ha54f, \hf53a>>,
      <<\h510e, \h527f>>, <<\h9b05, \h688c>>, <<\h1f83, \hd9ab>>, <<\h5be0, \hcd19>> >>

-----------------------------------------------------------------------------
(* What the two have in common.                                            *)

\* Wrong: the last of the three is a rotation, too.
SmallSigma0Rotating(w) == Xor(RotateRight(w, 7), Xor(RotateRight(w, 18), RotateRight(w, 3)))
SmallSigma0(w) == Xor(RotateRight(w, 7), Xor(RotateRight(w, 18), ShiftRight(w, 3)))
SmallSigma1(w) == Xor(RotateRight(w, 17), Xor(RotateRight(w, 19), ShiftRight(w, 10)))
BigSigma0(a) == Xor(RotateRight(a, 2), Xor(RotateRight(a, 13), RotateRight(a, 22)))
BigSigma1(e) == Xor(RotateRight(e, 6), Xor(RotateRight(e, 11), RotateRight(e, 25)))

NextWord(w) ==
    LET i == Len(w) + 1
    IN WrappingAdd(<<SmallSigma0(w[i - 15]), SmallSigma1(w[i - 2]), w[i - 16], w[i - 7]>>)

-----------------------------------------------------------------------------
(* The circuit: a choice by the bits of e, and two conjunctions for Ma.    *)

ChSelector(e, f, g) == [k \in Bit32 |-> IF e[k] THEN f[k] ELSE g[k]]
\* Wrong: where all three bits are set the two terms cancel out.
MaByOr(a, b, c) == Xor(And(a, b), And(c, Or(a, b)))
Ma(a, b, c) == Xor(And(a, b), And(c, Xor(a, b)))

CircuitRound(h, k, w) ==
    LET t0 == WrappingAdd(<<h[8], ChSelector(h[5], h[6], h[7]), BigSigma1(h[5]), k, w>>)
    IN <<WrappingAdd(<<t0, Ma(h[1], h[2], h[3]), BigSigma0(h[1])>>), h[1], h[2], h[3],
         WrappingAdd(<<t0, h[4]>>), h[5], h[6], h[7]>>

(* The host: the formulas of FIPS 180-4.                                   *)

Ch(e, f, g) == Xor(And(e, f), And(Not(e), g))
Maj(a, b, c) == Xor(And(a, b), Xor(And(a, c), And(b, c)))

HostRound(r, k, w) ==
    LET temp1 == WrappingAdd(<<r[8], BigSigma1(r[5]), Ch(r[5], r[6], r[7]), k, w>>)
        temp2 == WrappingAdd(<<BigSigma0(r[1]), Maj(r[1], r[2], r[3])>>)
    IN <<WrappingAdd(<<temp1, temp2>>), r[1], r[2], r[3],
         WrappingAdd(<<r[4], temp1>>), r[5], r[6], r[7]>>

-----------------------------------------------------------------------------

WordsOf(halves) == [i \in DOMAIN halves |-> Word32(halves[i])]

RoundsStart(in, running) ==
    /\ input = in
    /\ schedule = WordsOf(BlockOf(in))
    /\ working = [s \in Sides |-> WordsOf(StateOf(in))]
    /\ rounds = 0
    /\ compressing = running
RoundsInit == \E in \in CompressInputs : RoundsStart(in, TRUE)
RoundsIdle == RoundsStart(CHOOSE in \in CompressInputs : TRUE, FALSE)

ExtendSchedule ==
    /\ compressing /\ Len(schedule) < 64
    /\ schedule' = Append(schedule, NextWord(schedule))
    /\ UNCHANGED <<input, working, rounds, compressing>>

Round ==
    /\ compressing /\ Len(schedule) = 64 /\ rounds < 64
    /\ rounds' = rounds + 1
    /\ LET k == Word32(K[rounds'])
       IN working' = [s \in Sides |->
              IF s = "circuit" THEN CircuitRound(working[s], k, schedule[rounds'])
              ELSE HostRound(working[s], k, schedule[rounds'])]
    /\ UNCHANGED <<input, schedule, compressing>>

AddToState ==
    /\ compressing /\ rounds = 64
    /\ rounds' = 65
    /\ working' = [s \in Sides |->
          [i \in 1..8 |-> WrappingAdd(<<working[s][i], WordsOf(StateOf(input))[i]>>)]]
    /\ UNCHANGED <<input, schedule, compressing>>

RoundsNext == ExtendSchedule \/ Round \/ AddToState
RoundsSpec == RoundsInit /\ [][RoundsNext]_roundVars

-----------------------------------------------------------------------------

\* The state of SHA-256 after the one block of the empty message, words 0, 1, 2
\* and 7, as utils.rs has them in test_update_known_vector.
KnownVector ==
    << <<\he3b0, \hc442>>, <<\h98fc, \h1c14>>, <<\h9afb, \hf4c8>>, <<\h7852, \hb855>> >>

\* The circuit and the host hold the same words after every round, although
\* they choose, take majorities and add up in different orders.
SidesCompressAlike == working["circuit"] = working["host"]

\* They end a block with the digest the standard gives it.
CompressionIsSha256 ==
    rounds = 65 /\ input = "empty" =>
        LET d == working["circuit"]
        IN <<Halves(d[1]), Halves(d[2]), Halves(d[3]), Halves(d[8])>> = KnownVector
=============================================================================
