----------------------------- MODULE JwtClaims ------------------------------
(***************************************************************************)
(* One claim of a token on its way through both readers: the host locates  *)
(* it, reads it its own way, pads its bytes, and hands the positions to    *)
(* the circuit, which slices the same payload again and checks the         *)
(* claim's format.                                                         *)
(***************************************************************************)
EXTENDS ClaimLocator, ClaimGadgets

CONSTANTS
    Documents,      \* flat JSON objects: sequences of members
    Texts,          \* other payloads, well-formed or not
    BufferLen,      \* bytes of the decoded payload in the circuit
    MaxLens         \* max_*_len of the configurations

(* How a claim is used: aud, iss, sub; exp; nonce. *)
Kinds == {"string", "exp", "nonce"}

Member == [key : Seq(Chars), value : Seq(Chars),
           beforeColon : Seq(Chars), afterColon : Seq(Chars), afterValue : Seq(Chars)]

VARIABLES
    source,     \* the document the payload was made from, or <<>>
    kind, maxLen,
    host,       \* what the host made of the claim
    circuit     \* what the circuit made of it

vars == <<locator, source, kind, maxLen, host, circuit>>

None == "none"
Refused == [ok |-> FALSE]

-----------------------------------------------------------------------------
(* A document as text, without white space but in its members' gaps.       *)

MemberText(m) ==
    <<Quote>> \o m.key \o <<Quote>> \o m.beforeColon \o <<":">> \o m.afterColon
    \o m.value \o m.afterValue
TextOf(d) ==
    LET upTo[i \in 0..Len(d)] ==
            IF i = 0 THEN <<>>
            ELSE upTo[i - 1] \o (IF i = 1 THEN <<"{">> ELSE <<",">>) \o MemberText(d[i])
    IN upTo[Len(d)] \o <<"}">>

-----------------------------------------------------------------------------
(* The documents that locate_claim is for, by RFC 8259. A name holds no    *)
(* escaped quote. A value is a string with escapes, or a number, a literal, *)
(* an array or an object, whose brackets are in balance outside its        *)
(* strings. It may hold the key, but not as a name of its own ("flat").    *)

\* An odd number of backslashes ends before the i-th byte.
Escaped(s, i) ==
    \E n \in 0..(i - 1) :
        /\ n % 2 = 1 /\ \A j \in (i - n)..(i - 1) : s[j] = Backslash
        /\ n < i - 1 => s[i - n - 1] # Backslash

\* An odd number of quotes before it opens a string.
QuotesBefore(s, i) == {j \in 1..(i - 1) : s[j] = Quote /\ ~Escaped(s, j)}
WithinString(s, i) == Cardinality(QuotesBefore(s, i)) % 2 = 1

Outside(s, c, i) == {j \in 1..(i - 1) : s[j] = c /\ ~WithinString(s, j)}
Open(s, open, close, i) == Cardinality(Outside(s, open, i)) - Cardinality(Outside(s, close, i))
AtTop(s, i) == ~WithinString(s, i) /\ Open(s, "[", "]", i) = 0 /\ Open(s, "{", "}", i) = 0

IsString(s) ==
    /\ Len(s) >= 2 /\ s[1] = Quote
    /\ \A i \in 2..Len(s) : s[i] = Quote /\ ~Escaped(s, i) <=> i = Len(s)
IsBare(s) ==
    /\ Len(s) >= 1 /\ s[1] \notin Blank \cup {Quote}
    /\ AtTop(s, Len(s) + 1)
    /\ \A i \in 1..Len(s) :
          /\ Open(s, "[", "]", i) >= 0 /\ Open(s, "{", "}", i) >= 0
          /\ s[i] = Backslash => WithinString(s, i)
          /\ AtTop(s, i) => s[i] \notin Terminator

NamesNothing(s) ==
    \A i \in Occurrences(s) : \A c \in (i + Len(Needle) + 1)..Len(s) :
        s[c] = ":" => \E b \in (i + Len(Needle) + 1)..(c - 1) : s[b] \notin Blank

IsMember(m) ==
    /\ m \in Member /\ \A i \in 1..Len(m.key) : m.key[i] # Quote
    /\ IsString(m.value) \/ IsBare(m.value)
    /\ NamesNothing(m.value)
    /\ {m.beforeColon, m.afterColon, m.afterValue} \subseteq Seq(Blank)

Members == UNION {{d[i] : i \in 1..Len(d)} : d \in Documents}

\* The claims' names are plain words.
ASSUME ClaimsAssumption ==
    /\ Texts \subseteq Seq(Chars) /\ Blank \cup Terminator \cup {":", "{"} \subseteq Chars
    /\ \A i \in 1..Len(Key) : Key[i] \notin {Quote, ":", ","}
    /\ \A m \in Members : IsMember(m)
    /\ Documents \subseteq Seq(Members)
    /\ BufferLen \in 1..(Word - 1) /\ MaxLens \subseteq Nat \ {0}

-----------------------------------------------------------------------------
(* The host.                                                               *)

ValueBytes == SubSeq(payload, value + 1, valueEnd)

(* claim_value_bytes_padded: resize() cuts as well as it pads. *)
ValueBytesPadded(max) ==
    [i \in 1..max |-> IF i <= Len(ValueBytes) THEN ValueBytes[i] ELSE Nul]

(* extract_string_claim takes the quotes off, derive_x_from_secret puts    *)
(* them back and pads; both refuse.                                        *)
Unquoted(s) == SubSeq(s, 2, Len(s) - 1)
Quoted(s) == <<Quote>> \o s \o <<Quote>>
Padded(s, max) == [i \in 1..max |-> IF i <= Len(s) THEN s[i] ELSE Nul]
HostStringOk(s, max) ==
    /\ Len(s) >= 2 /\ s[1] = Quote /\ s[Len(s)] = Quote
    /\ Len(Quoted(Unquoted(s))) <= max
HostStringBare(s, max) == Padded(Unquoted(s), max)
HostString(s, max) == Padded(Quoted(Unquoted(s)), max)

(* decimal_bytes_to_field, over the padded bytes *)
HostExpOk(bytes) ==
    /\ Len(bytes) >= ExpDigits
    /\ \A i \in 1..ExpDigits : bytes[i] \in Decimal
    /\ \A i \in (ExpDigits + 1)..Len(bytes) : bytes[i] = Nul
HostExp(bytes) == NumberOf(SubSeq(bytes, 1, ExpDigits), 10)

(* jwt_nonce_to_field, over the bare value *)
NonceDigits(s) == SubSeq(s, 4, Len(s) - 1)
HostNonceOk(s) ==
    /\ Len(s) >= 5 /\ s[1] = Quote /\ s[2] = "0" /\ s[3] = "x" /\ s[Len(s)] = Quote
    /\ Len(NonceDigits(s)) \in 1..HexDigits
    /\ \A i \in 1..Len(NonceDigits(s)) : NonceDigits(s)[i] \in Hex
HostNonce(s) == NumberOf(NonceDigits(s), 16)

(* IndexBits::from_base64_url refuses a payload longer than the circuit's. *)
HostReads(k, max) ==
    LET padded == ValueBytesPadded(max)
        ok == CASE k = "string" -> HostStringOk(ValueBytes, max)
                [] k = "exp" -> HostExpOk(padded)
                [] k = "nonce" -> HostNonceOk(ValueBytes)
        read == CASE k = "string" -> HostString(ValueBytes, max)
                  [] k = "exp" -> HostExp(padded)
                  [] k = "nonce" -> HostNonce(ValueBytes)
    IN IF ok /\ Len(payload) <= BufferLen THEN [ok |-> TRUE, read |-> read] ELSE Refused

-----------------------------------------------------------------------------
(* The circuit: the extractor, then the reader of the claim's kind. The    *)
(* decoder gives zeros beyond the payload's end.                           *)

Buffer == [i \in 1..BufferLen |-> IF i <= Len(payload) THEN payload[i] ELSE Nul]

LastQuote == Decrement(ClaimIndices.value_len)
ReaderOk(k, bytes) ==
    CASE k = "string" -> TRUE
      [] k = "exp" -> JwtExpOk(bytes)
      [] k = "nonce" -> JwtNonceOk(bytes, LastQuote)
Reader(k, bytes) ==
    CASE k = "string" -> bytes
      [] k = "exp" -> JwtExp(bytes)
      [] k = "nonce" -> JwtNonce(bytes, LastQuote)

-----------------------------------------------------------------------------
Init ==
    /\ \/ \E d \in Documents : source = d /\ LocatorInit(TextOf(d))
       \/ \E t \in Texts : source = <<>> /\ LocatorInit(t)
    /\ kind = None /\ maxLen = 0 /\ host = Refused /\ circuit = Refused

Search == Locate /\ UNCHANGED <<source, kind, maxLen, host, circuit>>

Read ==
    /\ pc = "found" /\ kind = None
    /\ \E k \in Kinds, max \in MaxLens :
          kind' = k /\ maxLen' = max /\ host' = HostReads(k, max)
    /\ pc' = "read"
    /\ UNCHANGED <<payload, p, keyPos, colon, value, valueEnd, Nesting, source, circuit>>

(* Synthesis: the two slices of the claim and of its value... *)
SliceClaim ==
    /\ pc = "read" /\ host.ok
    /\ SlicesOk(Buffer, ClaimIndices, maxLen)
    /\ circuit' = [ok |-> FALSE, claim |-> ClaimSlice(Buffer, ClaimIndices, maxLen),
                   bytes |-> ValueSlice(Buffer, ClaimIndices, maxLen)]
    /\ pc' = "sliced"
    /\ UNCHANGED <<payload, p, keyPos, colon, value, valueEnd, Nesting, source, kind, maxLen, host>>

(* ...and the constraints on them. *)
Constrain ==
    /\ pc = "sliced"
    /\ circuit' = IF ClaimOk(Needle, circuit.claim, ClaimIndices) /\ ReaderOk(kind, circuit.bytes)
                  THEN [ok |-> TRUE, bytes |-> circuit.bytes, read |-> Reader(kind, circuit.bytes)]
                  ELSE Refused
    /\ pc' = "constrained"
    /\ UNCHANGED <<payload, p, keyPos, colon, value, valueEnd, Nesting, source, kind, maxLen, host>>

SliceFails ==
    /\ pc = "read" /\ host.ok /\ ~SlicesOk(Buffer, ClaimIndices, maxLen)
    /\ pc' = "constrained"
    /\ UNCHANGED <<payload, p, keyPos, colon, value, valueEnd, Nesting, source, kind, maxLen,
                   host, circuit>>

Next == Search \/ Read \/ SliceClaim \/ SliceFails \/ Constrain

Spec == Init /\ [][Next]_vars /\ WF_vars(Next)

-----------------------------------------------------------------------------
Located == pc \in {"found", "read", "sliced", "constrained"}

TypeOK ==
    /\ payload \in Seq(Chars)
    /\ pc \in Ended \cup {"find", "toColon", "toValue", "quoted", "bare", "toEnd",
                          "read", "sliced", "constrained"}
    /\ p \in Nat /\ keyPos \in Nat /\ colon \in Nat /\ value \in Nat /\ valueEnd \in Nat
    /\ inString \in BOOLEAN /\ brackets \in Nat /\ braces \in Nat
    /\ kind \in Kinds \cup {None} /\ maxLen \in MaxLens \cup {0}
    /\ host.ok \in BOOLEAN /\ circuit.ok \in BOOLEAN

Within(C, i, j) == \A k \in i..(j - 1) : At(k) \in C
GapsIn(C) ==
    /\ Within(C, keyPos + Len(Needle), colon)
    /\ Within(C, colon + 1, value)
    /\ Within(C, valueEnd, p)

(* Whatever the payload, the positions that locate_claim returns are those *)
(* of a claim inside it: the key, a colon, the value and a terminator in   *)
(* this order, with nothing but white space between them. The callers      *)
(* slice the payload with them unchecked.                                  *)
IndicesDescribeClaim ==
    Located =>
        LET pos == ClaimIndices IN
        /\ OccursAt(payload, pos.offset)
        /\ Len(Needle) <= pos.colon_idx /\ pos.colon_idx < pos.value_idx
        /\ pos.value_len >= 0 /\ pos.value_idx + pos.value_len < pos.claim_len
        /\ pos.offset + pos.claim_len <= Len(payload)
        /\ At(pos.offset + pos.colon_idx) = ":"
        /\ At(pos.offset + pos.claim_len - 1) \in Terminator
        /\ GapsIn(Blank)

(* In a flat document the claim found is the first member of that name,    *)
(* never a value that reads like it or a part of a string or an array. A   *)
(* bare value is taken with the white space after it.                      *)
FirstMember(d, n) == d[n].key = Key /\ \A j \in 1..(n - 1) : d[j].key # Key
ValueTaken(m) == IF m.value[1] = Quote THEN m.value ELSE m.value \o m.afterValue
FoundIsMember ==
    Located /\ source # <<>> =>
        \E n \in 1..Len(source) : FirstMember(source, n) /\ ValueBytes = ValueTaken(source[n])

(* The search finds the member that is there, unless a value before it     *)
(* holds the key as a string, at which the search gives up.                *)
MemberIsFound ==
    \A n \in 1..Len(source) :
        FirstMember(source, n) /\ (\A j \in 1..(n - 1) : Occurrences(source[j].value) = {})
            => pc \notin Failed

(* What the host accepts of a claim, the circuit accepts too, when the     *)
(* gaps hold JSON's own white space and the claim, key and terminator      *)
(* included, fits the slice: then no proof is begun that must fail.        *)
CircuitAccepts ==
    pc = "constrained" /\ GapsIn(CircuitBlank) /\ ClaimIndices.claim_len <= maxLen
        => circuit.ok

(* The claim's bytes are the same on both sides, and so is the value read  *)
(* from them: the anchor secret, the expiry, the nonce.                    *)
SidesAgree ==
    pc = "constrained" /\ circuit.ok =>
        circuit.bytes = ValueBytesPadded(maxLen) /\ circuit.read = host.read

(* The search and the readers end, on every payload.                       *)
Answered == <>(pc \in Failed \/ (pc = "read" /\ ~host.ok) \/ pc = "constrained")

(* CircuitConfig describes max_*_len as the most bytes of a claim's value. *)
(* A value that fits it is then accepted by the circuit.                   *)
ValueLengthSuffices ==
    pc = "constrained" /\ GapsIn(CircuitBlank) /\ ClaimIndices.value_len <= maxLen
        => circuit.ok
=============================================================================
