---------------------------- MODULE ClaimLocator ----------------------------
(***************************************************************************)
(* locate_claim of service/src/jwt/parser.rs: one pass over a token's      *)
(* payload that finds a key and measures its claim. A byte is a character  *)
(* of the payload, positions count from 0 as in the code, and every round  *)
(* of one of its loops is a step.                                          *)
(***************************************************************************)
EXTENDS Integers, Sequences

CONSTANTS
    Chars,      \* the bytes that payloads are made of
    Key         \* the claim's name, without its quotes

Quote == "quote"
Backslash == "backslash"
Space == "space"
FormFeed == "formfeed"      \* white space to u8::is_ascii_whitespace, not to JSON
Nul == "nul"                \* the byte 0

Blank == {Space, FormFeed}
Terminator == {",", "}"}
ASSUME KeyAssumption == Key \in Seq(Chars) /\ Quote \in Chars

Needle == <<Quote>> \o Key \o <<Quote>>

VARIABLES
    payload,    \* the decoded payload
    pc,         \* the loop that is running, or how the search ended
    p,          \* the code's cursor
    keyPos, colon, value, valueEnd,     \* absolute positions found so far
    inString, brackets, braces          \* nesting inside a bare value

locator == <<payload, pc, p, keyPos, colon, value, valueEnd, inString, brackets, braces>>

Failed == {"notFound", "badFormat"}
Ended == Failed \cup {"found"}

At(i) == payload[i + 1]
Here(c) == p < Len(payload) /\ At(p) = c
HereIn(C) == p < Len(payload) /\ At(p) \in C
OccursAt(s, i) ==
    /\ i + Len(Needle) <= Len(s)
    /\ \A j \in 1..Len(Needle) : s[i + j] = Needle[j]
Occurrences(s) == {i \in 0..Len(s) : OccursAt(s, i)}

(* Each local is assigned before it is read; until then it is 0. *)
LocatorInit(text) ==
    /\ payload = text
    /\ pc = "find" /\ p = 0
    /\ keyPos = 0 /\ colon = 0 /\ value = 0 /\ valueEnd = 0
    /\ inString = FALSE /\ brackets = 0 /\ braces = 0

Move(to, steps) == pc' = to /\ p' = p + steps /\ UNCHANGED payload
Nesting == <<inString, brackets, braces>>

(* payload.find(&needle): the first occurrence. *)
FindKey ==
    /\ pc = "find"
    /\ \E i \in Occurrences(payload) :
          /\ \A j \in Occurrences(payload) : i <= j
          /\ keyPos' = i /\ p' = i + Len(Needle) /\ pc' = "toColon"
    /\ UNCHANGED <<payload, colon, value, valueEnd, Nesting>>

MissKey ==
    /\ pc = "find" /\ Occurrences(payload) = {}
    /\ Move("notFound", 0)
    /\ UNCHANGED <<keyPos, colon, value, valueEnd, Nesting>>

SkipBlankNot ==
    /\ pc \in {"toColon", "toValue", "toEnd"} /\ HereIn(Blank)
    /\ Move(pc, 0)
    /\ UNCHANGED <<keyPos, colon, value, valueEnd, Nesting>>

SkipBlank ==
    /\ pc \in {"toColon", "toValue", "toEnd"} /\ HereIn(Blank)
    /\ Move(pc, 1)
    /\ UNCHANGED <<keyPos, colon, value, valueEnd, Nesting>>

ReadColon ==
    /\ pc = "toColon" /\ Here(":")
    /\ colon' = p /\ Move("toValue", 1)
    /\ UNCHANGED <<keyPos, value, valueEnd, Nesting>>

BeginQuoted ==
    /\ pc = "toValue" /\ Here(Quote)
    /\ value' = p /\ Move("quoted", 1)
    /\ UNCHANGED <<keyPos, colon, valueEnd, Nesting>>

BeginBare ==
    /\ pc = "toValue" /\ p < Len(payload) /\ At(p) \notin Blank \cup {Quote}
    /\ value' = p /\ Move("bare", 0)
    /\ inString' = FALSE /\ brackets' = 0 /\ braces' = 0
    /\ UNCHANGED <<keyPos, colon, valueEnd>>

ScanQuotedPlain ==
    /\ pc = "quoted" /\ p < Len(payload) /\ ~Here(Quote)
    /\ Move("quoted", 1)
    /\ UNCHANGED <<keyPos, colon, value, valueEnd, Nesting>>

(* An escape takes the next byte with it, whatever that is. *)
ScanQuoted ==
    /\ pc = "quoted" /\ p < Len(payload) /\ ~Here(Quote)
    /\ Move("quoted", IF Here(Backslash) THEN 2 ELSE 1)
    /\ UNCHANGED <<keyPos, colon, value, valueEnd, Nesting>>

EndQuotedInside ==
    /\ pc = "quoted" /\ Here(Quote)
    /\ valueEnd' = p /\ Move("toEnd", 1)
    /\ UNCHANGED <<keyPos, colon, value, Nesting>>

EndQuoted ==
    /\ pc = "quoted" /\ Here(Quote)
    /\ valueEnd' = p + 1 /\ Move("toEnd", 1)
    /\ UNCHANGED <<keyPos, colon, value, Nesting>>

LessUnsaturated(n) == n - 1
Less(n) == IF n > 0 THEN n - 1 ELSE 0       \* saturating_sub(1)
Depth(n, open, close) ==
    IF inString THEN n ELSE IF Here(open) THEN n + 1 ELSE IF Here(close) THEN Less(n) ELSE n
TopLevel == ~inString /\ brackets = 0 /\ braces = 0
AtBareEndNested == p < Len(payload) => At(p) \in Terminator
AtBareEnd == p < Len(payload) => TopLevel /\ At(p) \in Terminator

ScanBare ==
    /\ pc = "bare" /\ ~AtBareEnd
    /\ Move("bare", IF inString /\ Here(Backslash) THEN 2 ELSE 1)
    /\ inString' = (IF Here(Quote) THEN ~inString ELSE inString)
    /\ brackets' = Depth(brackets, "[", "]")
    /\ braces' = Depth(braces, "{", "}")
    /\ UNCHANGED <<keyPos, colon, value, valueEnd>>

EndBare ==
    /\ pc = "bare" /\ AtBareEnd
    /\ valueEnd' = p /\ Move("toEnd", 0)
    /\ UNCHANGED <<keyPos, colon, value, Nesting>>

(* A loop that ran off the text, or met another byte than it waits for. *)
Refuse ==
    /\ \/ pc = "toColon" /\ ~HereIn(Blank \cup {":"})
       \/ pc = "toValue" /\ p >= Len(payload)
       \/ pc = "quoted" /\ p >= Len(payload)
       \/ pc = "toEnd" /\ ~HereIn(Blank \cup Terminator)
    /\ Move("badFormat", 0)
    /\ UNCHANGED <<keyPos, colon, value, valueEnd, Nesting>>

(* The cursor stays on the terminator. *)
Finish ==
    /\ pc = "toEnd" /\ HereIn(Terminator)
    /\ Move("found", 0)
    /\ UNCHANGED <<keyPos, colon, value, valueEnd, Nesting>>

Locate ==
    \/ FindKey \/ MissKey \/ SkipBlank \/ ReadColon
    \/ BeginQuoted \/ ScanQuoted \/ EndQuoted
    \/ BeginBare \/ ScanBare \/ EndBare
    \/ Refuse \/ Finish

(* The answer: positions relative to the key's opening quote. *)
ClaimIndices ==
    [offset |-> keyPos, claim_len |-> p + 1 - keyPos, colon_idx |-> colon - keyPos,
     value_idx |-> value - keyPos, value_len |-> valueEnd - value]
=============================================================================
