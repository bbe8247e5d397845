-------------------------- MODULE JwtClaimsProofs --------------------------
(***************************************************************************)
(* What holds of a claim on its way through host and circuit, for every    *)
(* payload, key, buffer and length of a group: the positions that the      *)
(* search returns describe a claim inside the payload, the circuit slices  *)
(* the bytes that the host reads, and it accepts what the host accepts. In *)
(* every flat document the claim is the first member of its name.          *)
(***************************************************************************)
EXTENDS JwtClaims, FiniteSetTheorems, SequenceTheorems, TLAPS

\* The quoted key is a text.
LEMMA NeedleType == Needle \in Seq(Chars) /\ Len(Needle) \in Nat
  <1>1. <<Quote>> \in Seq(Chars)
    BY KeyAssumption
  <1>2. <<Quote>> \o Key \in Seq(Chars)
    BY <1>1, KeyAssumption, ConcatProperties
  <1>3. Needle \in Seq(Chars)
    BY <1>1, <1>2, ConcatProperties DEF Needle
  <1> QED
    BY <1>3

\* A nonempty set of naturals has a least member. It stands in for the library's
\* induction, whose theorems take an operator.
LEMMA Least ==
    ASSUME NEW T \in SUBSET Nat, T # {}
    PROVE  \E m \in T : \A k \in T : m <= k
  <1>. DEFINE Upto == {0..m : m \in T}
              R == StrictSubsetOrdering(Nat)
              S == FiniteSubsetsOf(Nat)
  <1>1. IsWellFoundedOn(R, S)
    BY FS_StrictSubsetOrderingWellFounded
  <1>2. Upto \subseteq S
    <2>1. ASSUME NEW m \in T PROVE IsFiniteSet(0..m) /\ 0..m \subseteq Nat
      BY <2>1, FS_Interval
    <2>. QED
      BY <2>1 DEF FiniteSubsetsOf
  <1>3. Upto # {}
    OBVIOUS
  <1>4. \E x \in Upto : \A y \in Upto : ~(<<y, x>> \in R)
    <2>. HIDE DEF R, S, Upto
    <2>. QED
    BY <1>1, <1>2, <1>3, WFMin
  <1>5. PICK m \in T : \A k \in T : ~(<<0..k, 0..m>> \in R)
    BY <1>4
  <1>6. ASSUME NEW k \in T, k < m PROVE FALSE
    <2>1. 0..k \subseteq 0..m /\ 0..k # 0..m
      <3>1. m \in 0..m /\ m \notin 0..k
         BY <1>6
      <3>. QED
         BY <1>6, <3>1
    <2>2. <<0..k, 0..m>> \in R
      BY <2>1 DEF StrictSubsetOrdering
    <2>. QED
      BY <1>5, <2>2
  <1>. QED
    BY <1>6

\* Induction over the naturals, with the set of those for which a fact holds.
LEMMA Induct ==
    ASSUME NEW T, 0 \in T, \A n \in Nat : n \in T => n + 1 \in T
    PROVE  Nat \subseteq T
  <1>. SUFFICES ASSUME NEW z \in Nat, z \notin T PROVE FALSE
    OBVIOUS
  <1>1. PICK m \in Nat \ T : \A k \in Nat \ T : m <= k
    BY Least
  <1>2. m # 0 /\ m - 1 \in Nat
    BY <1>1
  <1>3. m - 1 \in T
    BY <1>1, <1>2
  <1>. QED
    BY <1>1, <1>2, <1>3

-----------------------------------------------------------------------------
(* The texts of documents. *)

\* Two texts make one.
LEMMA Joined ==
    ASSUME NEW s \in Seq(Chars), NEW t \in Seq(Chars)
    PROVE  /\ s \o t \in Seq(Chars) /\ Len(s \o t) = Len(s) + Len(t)
           /\ \A k \in 1..Len(s) : (s \o t)[k] = s[k]
           /\ \A k \in 1..Len(t) : (s \o t)[Len(s) + k] = t[k]
  OBVIOUS

\* JSON's marks are bytes of a payload, and no mark is another.
LEMMA Marks ==
    /\ Quote \in Chars /\ ":" \in Chars /\ "," \in Chars /\ "{" \in Chars /\ "}" \in Chars
    /\ Quote \notin Blank \cup Terminator \cup {":", "{"} /\ ":" \notin Blank \cup Terminator
    /\ Blank \cap Terminator = {}
  BY KeyAssumption, ClaimsAssumption DEF Blank, Terminator, Quote, Space, FormFeed

\* Every member of a document is a JSON member.
LEMMA MembersAre ==
    ASSUME NEW d \in Documents
    PROVE  /\ Len(d) \in Nat
           /\ \A n \in 1..Len(d) : IsMember(d[n])
  <1>1. d \in Seq(Members)
    BY ClaimsAssumption
  <1>2. Len(d) \in Nat /\ \A n \in 1..Len(d) : d[n] \in Members
    BY <1>1
  <1>3. \A m \in Members : IsMember(m)
    BY ClaimsAssumption
  <1>. QED
    BY <1>2, <1>3

\* The parts of a member are texts, its gaps blank.
LEMMA MemberTyped ==
    ASSUME NEW m, IsMember(m)
    PROVE  /\ m.key \in Seq(Chars) /\ m.value \in Seq(Chars)
           /\ m.beforeColon \in Seq(Chars) /\ m.afterColon \in Seq(Chars)
           /\ m.afterValue \in Seq(Chars)
           /\ \A i \in 1..Len(m.beforeColon) : m.beforeColon[i] \in Blank
           /\ \A i \in 1..Len(m.afterColon) : m.afterColon[i] \in Blank
           /\ \A i \in 1..Len(m.afterValue) : m.afterValue[i] \in Blank
  BY DEF IsMember, Member

\* s is in the text behind its first places.
Spans(text, at, s) ==
    /\ at + Len(s) <= Len(text)
    /\ \A k \in 1..Len(s) : text[at + k] = s[k]

\* Where two joined texts stand, the first stands and the second behind it.
LEMMA SpansBoth ==
    ASSUME NEW text \in Seq(Chars), NEW at \in Nat, NEW s \in Seq(Chars), NEW t \in Seq(Chars),
           Spans(text, at, s \o t)
    PROVE  Spans(text, at, s) /\ Spans(text, at + Len(s), t)
  <1>n. PICK a \in Nat, b \in Nat : a = Len(s) /\ b = Len(t)
    OBVIOUS
  <1>q. PICK q : q = s \o t
    OBVIOUS
  <1>1. /\ Len(q) = a + b /\ \A k \in 1..a : q[k] = s[k]
        /\ \A k \in 1..b : q[a + k] = t[k]
    BY <1>n, <1>q, Joined
  <1>2. at + (a + b) <= Len(text) /\ \A k \in 1..(a + b) : text[at + k] = q[k]
    BY <1>q, <1>1 DEF Spans
  <1>3. ASSUME NEW k \in 1..a PROVE text[at + k] = s[k]
    BY <1>1, <1>2
  <1>4. ASSUME NEW k \in 1..b PROVE text[at + a + k] = t[k]
    <2>1. a + k \in 1..(a + b) /\ at + (a + k) = at + a + k
      OBVIOUS
    <2>. QED
      BY <1>1, <1>2, <2>1
  <1>. QED
    BY <1>n, <1>2, <1>3, <1>4 DEF Spans

-----------------------------------------------------------------------------
KeyEnd(m) == Len(m.key) + 2
ColonAt(m) == KeyEnd(m) + Len(m.beforeColon)
ValueAt(m) == ColonAt(m) + 1 + Len(m.afterColon)
EndAt(m) == ValueAt(m) + Len(m.value)
StopAt(m) == EndAt(m) + Len(m.afterValue)

\* The places of a member come in the order of its parts.
LEMMA PlacesType ==
    ASSUME NEW m, IsMember(m)
    PROVE  /\ KeyEnd(m) \in Nat /\ ColonAt(m) \in Nat /\ ValueAt(m) \in Nat
           /\ EndAt(m) \in Nat /\ StopAt(m) \in Nat
           /\ 2 <= KeyEnd(m) /\ KeyEnd(m) <= ColonAt(m) /\ ColonAt(m) < ValueAt(m)
           /\ ValueAt(m) < EndAt(m) /\ EndAt(m) <= StopAt(m)
           /\ Len(m.value) \in Nat /\ Len(m.value) >= 1 /\ EndAt(m) = ValueAt(m) + Len(m.value)
  <1>1. Len(m.key) \in Nat /\ Len(m.value) \in Nat
        /\ Len(m.beforeColon) \in Nat /\ Len(m.afterColon) \in Nat /\ Len(m.afterValue) \in Nat
    BY MemberTyped
  <1>2. Len(m.value) >= 1
    <2>1. CASE IsString(m.value)
      BY <1>1, <2>1 DEF IsString
    <2>2. CASE IsBare(m.value)
      BY <2>2 DEF IsBare
    <2>. QED
      BY <2>1, <2>2 DEF IsMember
  <1>k. PICK k \in Nat, b \in Nat, a \in Nat, v \in Nat, e \in Nat :
           /\ k = Len(m.key) /\ b = Len(m.beforeColon) /\ a = Len(m.afterColon)
           /\ v = Len(m.value) /\ e = Len(m.afterValue)
    BY <1>1
  <1>3. /\ KeyEnd(m) = k + 2 /\ ColonAt(m) = (k + 2) + b /\ ValueAt(m) = ((k + 2) + b) + 1 + a
        /\ EndAt(m) = (((k + 2) + b) + 1 + a) + v /\ StopAt(m) = ((((k + 2) + b) + 1 + a) + v) + e
    BY <1>k DEF KeyEnd, ColonAt, ValueAt, EndAt, StopAt
  <1>. QED
    <2>1. v >= 1
      BY <1>k, <1>2
    <2>2. /\ KeyEnd(m) \in Nat /\ ColonAt(m) \in Nat /\ ValueAt(m) \in Nat
          /\ EndAt(m) \in Nat /\ StopAt(m) \in Nat
      BY <1>3
    <2>3. /\ 2 <= KeyEnd(m) /\ KeyEnd(m) <= ColonAt(m) /\ ColonAt(m) < ValueAt(m)
          /\ ValueAt(m) < EndAt(m) /\ EndAt(m) <= StopAt(m)
      BY <1>3, <2>1
    <2>4. EndAt(m) = ValueAt(m) + Len(m.value)
      BY DEF EndAt
    <2>. QED
      BY <1>1, <1>2, <2>2, <2>3, <2>4

\* The pieces of a member's text.
Pieces(text, s, m) ==
    /\ text[s + 1] = Quote /\ text[s + KeyEnd(m)] = Quote
    /\ Spans(text, s + 1, m.key)
    /\ Spans(text, s + KeyEnd(m), m.beforeColon)
    /\ text[s + ColonAt(m) + 1] = ":"
    /\ Spans(text, s + ColonAt(m) + 1, m.afterColon)
    /\ Spans(text, s + ValueAt(m), m.value)
    /\ Spans(text, s + EndAt(m), m.afterValue)

\* Where a text of one letter stands, that letter does.
LEMMA SpansOne ==
    ASSUME NEW text \in Seq(Chars), NEW at \in Nat, NEW c, Spans(text, at, <<c>>)
    PROVE  text[at + 1] = c
  BY DEF Spans

\* Where a member's text stands, its parts stand in their places.
LEMMA MemberPieces ==
    ASSUME NEW m, IsMember(m)
    PROVE  /\ MemberText(m) \in Seq(Chars) /\ Len(MemberText(m)) = StopAt(m)
           /\ \A text \in Seq(Chars), s \in Nat :
                 Spans(text, s, MemberText(m)) => Pieces(text, s, m)
  <1>1. /\ m.key \in Seq(Chars) /\ m.value \in Seq(Chars)
        /\ m.beforeColon \in Seq(Chars) /\ m.afterColon \in Seq(Chars)
        /\ m.afterValue \in Seq(Chars)
    BY MemberTyped
  <1>2. <<Quote>> \in Seq(Chars) /\ <<":">> \in Seq(Chars) /\ Len(<<Quote>>) = 1 /\ Len(<<":">>) = 1
    <2>1. PICK q, c : q = Quote /\ c = ":" /\ q \in Chars /\ c \in Chars
      BY Marks
    <2>2. <<q>> \in Seq(Chars) /\ <<c>> \in Seq(Chars) /\ Len(<<q>>) = 1 /\ Len(<<c>>) = 1
      BY <2>1
    <2>. QED
      BY <2>1, <2>2
  <1>q. PICK q, c : q = <<Quote>> /\ c = <<":">>
    OBVIOUS
  <1>k. PICK k, b, a, v, e :
           /\ k = m.key /\ b = m.beforeColon /\ a = m.afterColon
           /\ v = m.value /\ e = m.afterValue
    OBVIOUS
  <1>3. /\ q \in Seq(Chars) /\ c \in Seq(Chars) /\ k \in Seq(Chars) /\ b \in Seq(Chars)
        /\ a \in Seq(Chars) /\ v \in Seq(Chars) /\ e \in Seq(Chars) /\ Len(q) = 1 /\ Len(c) = 1
    BY <1>1, <1>2, <1>q, <1>k
  <1>x. PICK x1, x2, x3, x4, x5, x6 :
           /\ x1 = q \o k /\ x2 = x1 \o q /\ x3 = x2 \o b
           /\ x4 = x3 \o c /\ x5 = x4 \o a /\ x6 = x5 \o v
    OBVIOUS
  <1>m. MemberText(m) = x6 \o e
    BY <1>q, <1>k, <1>x DEF MemberText
  <1>4. x1 \in Seq(Chars) /\ Len(x1) = 1 + Len(k)
    <2>1. x1 \in Seq(Chars) /\ Len(x1) = Len(q) + Len(k)
      BY <1>3, <1>x, Joined
    <2>. QED
      BY <1>3, <2>1
  <1>5. x2 \in Seq(Chars) /\ Len(x2) = KeyEnd(m)
    <2>1. x2 \in Seq(Chars) /\ Len(x2) = Len(x1) + 1
      BY <1>3, <1>4, <1>x, Joined
    <2>. QED
      BY <2>1, <1>3, <1>4, <1>k DEF KeyEnd
  <1>6. x3 \in Seq(Chars) /\ Len(x3) = ColonAt(m)
    <2>1. x3 \in Seq(Chars) /\ Len(x3) = Len(x2) + Len(b)
      BY <1>3, <1>5, <1>x, Joined
    <2>. QED
      BY <2>1, <1>5, <1>k DEF ColonAt
  <1>7. x4 \in Seq(Chars) /\ Len(x4) = ColonAt(m) + 1
    <2>1. x4 \in Seq(Chars) /\ Len(x4) = Len(x3) + Len(c)
      BY <1>3, <1>6, <1>x, Joined
    <2>. QED
      BY <2>1, <1>3, <1>6
  <1>8. x5 \in Seq(Chars) /\ Len(x5) = ValueAt(m)
    <2>1. x5 \in Seq(Chars) /\ Len(x5) = Len(x4) + Len(a)
      BY <1>3, <1>7, <1>x, Joined
    <2>. QED
      BY <2>1, <1>7, <1>k DEF ValueAt
  <1>9. x6 \in Seq(Chars) /\ Len(x6) = EndAt(m)
    <2>1. x6 \in Seq(Chars) /\ Len(x6) = Len(x5) + Len(v)
      BY <1>3, <1>8, <1>x, Joined
    <2>. QED
      BY <2>1, <1>8, <1>k DEF EndAt
  <1>10. x6 \o e \in Seq(Chars) /\ Len(x6 \o e) = StopAt(m)
    <2>1. x6 \o e \in Seq(Chars) /\ Len(x6 \o e) = Len(x6) + Len(e)
      BY <1>3, <1>9, Joined
    <2>. QED
      BY <2>1, <1>9, <1>k DEF StopAt
  <1>11. ASSUME NEW text \in Seq(Chars), NEW s \in Nat, Spans(text, s, MemberText(m))
         PROVE  Pieces(text, s, m)
    <2>1. Spans(text, s, x6) /\ Spans(text, s + EndAt(m), e)
      BY <1>3, <1>9, <1>m, <1>11, SpansBoth
    <2>2. Spans(text, s, x5) /\ Spans(text, s + ValueAt(m), v)
      BY <1>3, <1>8, <1>x, <2>1, SpansBoth
    <2>3. Spans(text, s, x4) /\ Spans(text, s + (ColonAt(m) + 1), a)
      BY <1>3, <1>7, <1>x, <2>2, SpansBoth
    <2>4. Spans(text, s, x3) /\ Spans(text, s + ColonAt(m), c)
      BY <1>3, <1>6, <1>x, <2>3, SpansBoth
    <2>5. Spans(text, s, x2) /\ Spans(text, s + KeyEnd(m), b)
      BY <1>3, <1>5, <1>x, <2>4, SpansBoth
    <2>6. Spans(text, s, x1) /\ Spans(text, s + (1 + Len(k)), q)
      BY <1>3, <1>4, <1>x, <2>5, SpansBoth
    <2>7. Spans(text, s, q) /\ Spans(text, s + 1, k)
      BY <1>3, <1>x, <2>6, SpansBoth
    <2>8. text[s + 1] = Quote
      BY <1>q, <2>7, SpansOne
    <2>9. text[s + KeyEnd(m)] = Quote
      <3>1. Len(k) \in Nat /\ s + (1 + Len(k)) \in Nat /\ (s + (1 + Len(k))) + 1 = s + KeyEnd(m)
        BY <1>3, <1>k DEF KeyEnd
      <3>2. text[(s + (1 + Len(k))) + 1] = Quote
        BY <1>q, <2>6, <3>1, SpansOne
      <3>. QED
        BY <3>1, <3>2
    <2>10. ColonAt(m) \in Nat
      BY PlacesType
    <2>11. text[s + ColonAt(m) + 1] = ":"
      BY <1>q, <2>4, <2>10, SpansOne
    <2>12. s + (ColonAt(m) + 1) = s + ColonAt(m) + 1
      BY <2>10
    <2>. QED
      BY <1>k, <2>1, <2>2, <2>3, <2>5, <2>7, <2>8, <2>9, <2>11, <2>12 DEF Pieces
  <1>. QED
    BY <1>m, <1>10, <1>11

\* What stands before the n-th member.
Before(n) == IF n = 1 THEN <<"{">> ELSE <<",">>

\* f holds a document's text up to each of its first n members.
AreTexts(f, d, n) ==
    f = [i \in 0..n |-> IF i = 0 THEN <<>> ELSE f[i - 1] \o Before(i) \o MemberText(d[i])]

\* There are texts up to any number of members.
LEMMA TextsExist == ASSUME NEW d, NEW n \in Nat PROVE \E f : AreTexts(f, d, n)
  <1>. DEFINE T == {k \in Nat : \E f : AreTexts(f, d, k)}
  <1>1. 0 \in T
    <2>. DEFINE f == [i \in 0..0 |-> <<>>]
    <2>1. AreTexts(f, d, 0)
      BY DEF AreTexts
    <2>. QED
      BY <2>1
  <1>2. ASSUME NEW k \in Nat, k \in T PROVE k + 1 \in T
    <2>1. PICK f : AreTexts(f, d, k)
      BY <1>2
    <2>t. PICK t : t = f[k] \o Before(k + 1) \o MemberText(d[k + 1])
      OBVIOUS
    <2>. DEFINE g == [i \in 0..(k + 1) |-> IF i <= k THEN f[i] ELSE t]
    <2>2. ASSUME NEW i \in 0..(k + 1)
          PROVE  g[i] = IF i = 0 THEN <<>> ELSE g[i - 1] \o Before(i) \o MemberText(d[i])
      <3>1. CASE i <= k
        <4>1. f[i] = IF i = 0 THEN <<>> ELSE f[i - 1] \o Before(i) \o MemberText(d[i])
          BY <2>1, <3>1 DEF AreTexts
        <4>2. g[i] = f[i] /\ (i # 0 => g[i - 1] = f[i - 1])
          BY <3>1
        <4>. QED
          BY <4>1, <4>2
      <3>2. CASE i = k + 1
        <4>1. g[i] = t /\ g[i - 1] = f[k] /\ i # 0
          BY <3>2
        <4>. QED
          BY <2>t, <3>2, <4>1
      <3>. QED
        BY <3>1, <3>2
    <2>3. AreTexts(g, d, k + 1)
      BY <2>2 DEF AreTexts
    <2>. QED
      BY <2>3
  <1>. HIDE DEF T
  <1>3. Nat \subseteq T
    BY <1>1, <1>2, Induct
  <1>. QED
    BY <1>3 DEF T

\* TextOf is the last of these texts and a brace.
LEMMA TextIs ==
    ASSUME NEW d, Len(d) \in Nat
    PROVE  \E f : AreTexts(f, d, Len(d)) /\ TextOf(d) = f[Len(d)] \o <<"}">>
  <1>. DEFINE S(f) == f = [i \in 0..Len(d) |->
                             IF i = 0 THEN <<>>
                             ELSE f[i - 1] \o (IF i = 1 THEN <<"{">> ELSE <<",">>) \o MemberText(d[i])]
              all == CHOOSE f : S(f)
  <1>1. TextOf(d) = all[Len(d)] \o <<"}">>
    BY DEF TextOf
  <1>2. \E f : S(f)
    BY TextsExist DEF AreTexts, Before
  <1>3. S(all)
    <2>. HIDE DEF S
    <2>. QED
      BY <1>2
  <1>4. AreTexts(all, d, Len(d))
    <2>. HIDE DEF all
    <2>. QED
      BY <1>3 DEF AreTexts, Before
  <1>. HIDE DEF all
  <1>. QED
    BY <1>1, <1>4

\* A letter is a text.
LEMMA OneLetter ==
    ASSUME NEW c \in Chars
    PROVE  <<c>> \in Seq(Chars) /\ Len(<<c>>) = 1 /\ <<c>>[1] = c
  OBVIOUS

\* A brace or a comma stands before a member.
LEMMA BeforeType ==
    ASSUME NEW n
    PROVE  /\ Before(n) \in Seq(Chars) /\ Len(Before(n)) = 1
           /\ Before(n)[1] = IF n = 1 THEN "{" ELSE ","
  <1>1. CASE n = 1
    <2>1. PICK c : c = "{" /\ c \in Chars
      BY Marks
    <2>2. <<c>> \in Seq(Chars) /\ Len(<<c>>) = 1 /\ <<c>>[1] = c
      BY <2>1, OneLetter
    <2>. QED
      BY <1>1, <2>1, <2>2 DEF Before
  <1>2. CASE n # 1
    <2>1. PICK c : c = "," /\ c \in Chars
      BY Marks
    <2>2. <<c>> \in Seq(Chars) /\ Len(<<c>>) = 1 /\ <<c>>[1] = c
      BY <2>1, OneLetter
    <2>. QED
      BY <1>2, <2>1, <2>2 DEF Before
  <1>. QED
    BY <1>1, <1>2

\* The text up to the i-th member is the text before it and one more member.
OneMore(f, d, i) ==
    /\ f[i] \in Seq(Chars) /\ Len(f[i]) = Len(f[i - 1]) + 1 + StopAt(d[i])
    /\ \A k \in 1..Len(f[i - 1]) : f[i][k] = f[i - 1][k]
    /\ f[i][Len(f[i - 1]) + 1] = IF i = 1 THEN "{" ELSE ","
    /\ Spans(f[i], Len(f[i - 1]) + 1, MemberText(d[i]))

\* Each text is the one before and a member more.
LEMMA TextStep ==
    ASSUME NEW f, NEW d, NEW n \in Nat, AreTexts(f, d, n), NEW i \in 1..n, IsMember(d[i]),
           f[i - 1] \in Seq(Chars)
    PROVE  OneMore(f, d, i)
  <1>x. PICK t, b, m : t = f[i - 1] /\ b = Before(i) /\ m = MemberText(d[i])
    OBVIOUS
  <1>l. PICK l \in Nat : l = Len(t)
    BY <1>x
  <1>1. f[i] = (t \o b) \o m
    <2>1. i \in 0..n /\ i # 0
      OBVIOUS
    <2>2. f[i] = f[i - 1] \o Before(i) \o MemberText(d[i])
      BY <2>1 DEF AreTexts
    <2>. QED
      BY <1>x, <2>2
  <1>2. b \in Seq(Chars) /\ Len(b) = 1 /\ b[1] = IF i = 1 THEN "{" ELSE ","
    BY <1>x, BeforeType
  <1>3. m \in Seq(Chars) /\ Len(m) = StopAt(d[i])
    BY <1>x, MemberPieces
  <1>y. PICK y : y = t \o b
    OBVIOUS
  <1>4. /\ y \in Seq(Chars) /\ Len(y) = l + 1 /\ \A k \in 1..l : y[k] = t[k]
        /\ y[l + 1] = b[1]
    <2>0. t \in Seq(Chars) /\ b \in Seq(Chars)
      BY <1>2, <1>x
    <2>1. /\ y \in Seq(Chars) /\ Len(y) = Len(t) + Len(b) /\ \A k \in 1..Len(t) : y[k] = t[k]
          /\ \A k \in 1..Len(b) : y[Len(t) + k] = b[k]
      BY <2>0, <1>y, Joined
    <2>2. 1 \in 1..Len(b) /\ Len(b) = 1
      <3>1. Len(b) = 1
        BY <1>2
      <3>. QED
        BY <3>1
    <2>. QED
      BY <1>l, <2>1, <2>2
  <1>z. PICK z : z = y \o m
    OBVIOUS
  <1>5. /\ z \in Seq(Chars) /\ Len(z) = (l + 1) + Len(m) /\ \A k \in 1..(l + 1) : z[k] = y[k]
        /\ \A k \in 1..Len(m) : z[(l + 1) + k] = m[k]
    <2>1. /\ z \in Seq(Chars) /\ Len(z) = Len(y) + Len(m) /\ \A k \in 1..Len(y) : z[k] = y[k]
          /\ \A k \in 1..Len(m) : z[Len(y) + k] = m[k]
      BY <1>3, <1>4, <1>z, Joined
    <2>. QED
      BY <1>4, <2>1
  <1>6. f[i] = z
    BY <1>1, <1>y, <1>z
  <1>7. \A k \in 1..l : z[k] = t[k]
    BY <1>4, <1>5
  <1>8. z[l + 1] = IF i = 1 THEN "{" ELSE ","
    <2>1. l + 1 \in 1..(l + 1)
      OBVIOUS
    <2>2. z[l + 1] = b[1]
      BY <1>4, <1>5, <2>1
    <2>. QED
      BY <1>2, <2>2, Zenon
  <1>9. Spans(z, l + 1, m)
    BY <1>3, <1>5 DEF Spans
  <1>. QED
    BY <1>3, <1>5, <1>6, <1>7, <1>8, <1>9, <1>x, <1>l DEF OneMore

Continues(text, part) ==
    Len(part) <= Len(text) /\ \A k \in 1..Len(part) : text[k] = part[k]

\* Earlier text stays in front.
LEMMA TextGrows ==
    ASSUME NEW f, NEW d, NEW n \in Nat, AreTexts(f, d, n), \A j \in 1..n : IsMember(d[j])
    PROVE  /\ \A j \in 0..n : f[j] \in Seq(Chars)
           /\ \A i, j \in 0..n : i <= j => Continues(f[j], f[i])
  <1>. DEFINE Good(j) == f[j] \in Seq(Chars)
              After(i, j) == Len(f[i]) <= Len(f[j]) /\ \A k \in 1..Len(f[i]) : f[j][k] = f[i][k]
              T == {j \in Nat : j <= n => Good(j)}
  <1>1. 0 \in T
    <2>1. 0 \in 0..n
      OBVIOUS
    <2>2. f[0] = <<>>
      BY <2>1 DEF AreTexts
    <2>3. <<>> \in Seq(Chars)
      OBVIOUS
    <2>. QED
      BY <2>2, <2>3
  <1>2. ASSUME NEW j \in Nat, j \in T PROVE j + 1 \in T
    <2>. SUFFICES ASSUME j + 1 <= n PROVE Good(j + 1)
      OBVIOUS
    <2>1. j + 1 \in 1..n /\ (j + 1) - 1 = j /\ f[j] \in Seq(Chars)
      BY <1>2
    <2>2. OneMore(f, d, j + 1)
      BY <2>1, TextStep
    <2>. QED
      BY <2>2 DEF OneMore
  <1>3. Nat \subseteq T
    <2>. HIDE DEF T
    <2>. QED
      BY <1>1, <1>2, Induct
  <1>4. \A j \in 0..n : Good(j)
    BY <1>3
  <1>5. ASSUME NEW i \in 0..n
        PROVE  \A j \in 0..n : i <= j => After(i, j)
    <2>. DEFINE U == {e \in Nat : i + e <= n => After(i, i + e)}
    <2>1. 0 \in U
      <3>1. i + 0 = i /\ Len(f[i]) \in Nat
        BY <1>4
      <3>. QED
        BY <3>1
    <2>2. ASSUME NEW e \in Nat, e \in U PROVE e + 1 \in U
      <3>. SUFFICES ASSUME i + (e + 1) <= n PROVE After(i, i + (e + 1))
        OBVIOUS
      <3>j. PICK j \in 1..n : j = i + (e + 1) /\ j - 1 = i + e /\ j - 1 \in 0..n /\ i \in 0..n
        OBVIOUS
      <3>1. After(i, j - 1)
        BY <2>2, <3>j
      <3>2. f[j - 1] \in Seq(Chars) /\ f[j] \in Seq(Chars) /\ f[i] \in Seq(Chars)
        BY <1>4, <3>j
      <3>3. /\ Len(f[j]) = Len(f[j - 1]) + 1 + StopAt(d[j])
            /\ \A k \in 1..Len(f[j - 1]) : f[j][k] = f[j - 1][k]
        <4>1. IsMember(d[j])
          BY <3>j, Zenon
        <4>2. OneMore(f, d, j)
          BY <3>2, <4>1, TextStep
        <4>. QED
          BY <4>2 DEF OneMore
      <3>4. StopAt(d[j]) \in Nat
        BY PlacesType
      <3>5. PICK a \in Nat, b \in Nat, c \in Nat : a = Len(f[i]) /\ b = Len(f[j - 1]) /\ c = Len(f[j])
        BY <3>2
      <3>6. a <= b /\ b <= c
        BY <3>1, <3>3, <3>4, <3>5
      <3>7. ASSUME NEW k \in 1..a PROVE f[j][k] = f[i][k]
        BY <3>1, <3>3, <3>5, <3>6
      <3>. QED
        BY <3>5, <3>6, <3>7, <3>j
    <2>3. Nat \subseteq U
      <3>. HIDE DEF U
      <3>. QED
        BY <2>1, <2>2, Induct
    <2>4. ASSUME NEW j \in 0..n, i <= j PROVE After(i, j)
      <3>1. j - i \in U /\ i + (j - i) = j /\ j - i \in Nat
        BY <2>3, <2>4
      <3>. QED
        BY <3>1
    <2>. HIDE DEF After
    <2>. QED
      BY <2>4
  <1>. HIDE DEF Good, After
  <1>6. \A i, j \in 0..n : i <= j => After(i, j)
    BY <1>5
  <1>. QED
    BY <1>4, <1>6 DEF Good, After, Continues

Closes(text, t) ==
    /\ t \in Seq(Chars) /\ text \in Seq(Chars) /\ Len(text) = Len(t) + 1
    /\ Continues(text, t) /\ text[Len(t) + 1] = "}"

\* A document's text is that of its members, closed.
LEMMA TextEnds ==
    ASSUME NEW d \in Documents
    PROVE  \E f : AreTexts(f, d, Len(d)) /\ Closes(TextOf(d), f[Len(d)])
  <1>n. PICK n \in Nat : n = Len(d)
    BY MembersAre
  <1>1. PICK f : AreTexts(f, d, n) /\ TextOf(d) = f[n] \o <<"}">>
    BY <1>n, TextIs
  <1>2. f[n] \in Seq(Chars)
    <2>1. \A j \in 1..n : IsMember(d[j])
      BY <1>n, MembersAre
    <2>2. n \in 0..n
      OBVIOUS
    <2>. QED
      BY <1>1, <2>1, <2>2, TextGrows
  <1>c. PICK c \in Chars : c = "}"
    BY Marks
  <1>t. PICK t, e : t = f[n] /\ e = <<c>>
    OBVIOUS
  <1>3. t \in Seq(Chars) /\ e \in Seq(Chars) /\ Len(e) = 1 /\ e[1] = c
    BY <1>2, <1>t, OneLetter
  <1>4. /\ t \o e \in Seq(Chars) /\ Len(t \o e) = Len(t) + Len(e)
        /\ \A k \in 1..Len(t) : (t \o e)[k] = t[k]
        /\ \A k \in 1..Len(e) : (t \o e)[Len(t) + k] = e[k]
    BY <1>3, Joined
  <1>5. 1 \in 1..Len(e)
    BY <1>3
  <1>6. (t \o e)[Len(t) + 1] = c /\ Len(t \o e) = Len(t) + 1
    BY <1>3, <1>4, <1>5
  <1>7. Continues(t \o e, t)
    <2>1. Len(t) \in Nat /\ Len(t) <= Len(t \o e)
      BY <1>3, <1>6
    <2>. QED
      BY <1>4, <2>1 DEF Continues
  <1>8. Closes(t \o e, t)
    BY <1>3, <1>4, <1>6, <1>7, <1>c DEF Closes
  <1>9. TextOf(d) = t \o e
    BY <1>1, <1>c, <1>t
  <1>. QED
    BY <1>n, <1>1, <1>t, <1>8, <1>9

\* A document's text is a payload.
LEMMA TextType == \A d \in Documents : TextOf(d) \in Seq(Chars)
  BY TextEnds DEF Closes

-----------------------------------------------------------------------------
\* The host answers yes or no.
LEMMA ReadsType ==
  \A k, max : HostReads(k, max).ok \in BOOLEAN
  <1> SUFFICES ASSUME NEW k, NEW max PROVE HostReads(k, max).ok \in BOOLEAN
    OBVIOUS
  <1> QED
    BY DEF HostReads, Refused

\* Nesting is counted by naturals.
LEMMA DepthType ==
  ASSUME NEW n \in Nat, NEW open, NEW close
  PROVE  Depth(n, open, close) \in Nat
  <1>1. n + 1 \in Nat /\ Less(n) \in Nat
    BY DEF Less
  <1> QED
    BY <1>1, Zenon DEF Depth

(* locate_claim and the readers keep the types of their variables.         *)
THEOREM TypeCorrect == Spec => []TypeOK
<1>1. Init => TypeOK
  <2>1. Init => payload \in Seq(Chars)
    BY ClaimsAssumption, TextType DEF Init, LocatorInit
  <2>2. Init => inString \in BOOLEAN
    BY DEF Init, LocatorInit
  <2>3. Refused.ok \in BOOLEAN
    BY DEF Refused
  <2>4. Init => host.ok \in BOOLEAN /\ circuit.ok \in BOOLEAN
    BY <2>3 DEF Init
  <2> QED
    BY <2>1, <2>2, <2>4 DEF Init, LocatorInit, TypeOK, None
<1>2. TypeOK /\ [Next]_vars => TypeOK'
  <2> SUFFICES ASSUME TypeOK, [Next]_vars PROVE TypeOK'
    OBVIOUS
  <2> USE NeedleType DEF TypeOK
  <2>1. CASE Search
    <3> USE <2>1 DEF Search, Nesting
    <3>1. CASE FindKey
      BY <3>1 DEF FindKey, Occurrences
    <3>2. CASE MissKey
      BY <3>2 DEF MissKey, Move, Ended, Failed
    <3>3. CASE SkipBlank
      BY <3>3 DEF SkipBlank, Move
    <3>4. CASE ReadColon
      BY <3>4 DEF ReadColon, Move
    <3>5. CASE BeginQuoted
      BY <3>5 DEF BeginQuoted, Move
    <3>6. CASE ScanQuoted
      BY <3>6 DEF ScanQuoted, Move
    <3>7. CASE EndQuoted
      BY <3>7 DEF EndQuoted, Move
    <3>8. CASE BeginBare
      <4>1. inString' \in BOOLEAN
        BY <3>8 DEF BeginBare
      <4> QED
        BY <3>8, <4>1 DEF BeginBare, Move
    <3>9. CASE ScanBare
      <4>1. inString' \in BOOLEAN
        BY <3>9 DEF ScanBare
      <4>2. brackets' \in Nat
        BY <3>9, DepthType DEF ScanBare
      <4>3. braces' \in Nat
        BY <3>9, DepthType DEF ScanBare
      <4>4. p' \in Nat
        <5>1. p' = p + 1 \/ p' = p + 2
          BY <3>9, Zenon DEF ScanBare, Move
        <5> QED
          BY <5>1
      <4> QED
        BY <3>9, <4>1, <4>2, <4>3, <4>4 DEF ScanBare, Move
    <3>10. CASE EndBare
      BY <3>10 DEF EndBare, Move
    <3>11. CASE Refuse
      BY <3>11 DEF Refuse, Move, Ended, Failed
    <3>12. CASE Finish
      BY <3>12 DEF Finish, Move, Ended, Failed
    <3> QED
      BY <3>1, <3>2, <3>3, <3>4, <3>5, <3>6, <3>7, <3>8, <3>9, <3>10, <3>11, <3>12
      DEF Locate
  <2>2. CASE Read
    BY <2>2, ReadsType DEF Read, Nesting
  <2>3. CASE SliceClaim
    BY <2>3 DEF SliceClaim, Nesting
  <2>4. CASE SliceFails
    BY <2>4 DEF SliceFails, Nesting
  <2>5. CASE Constrain
    BY <2>5 DEF Constrain, Nesting, Refused
  <2>6. CASE UNCHANGED vars
    BY <2>6 DEF vars, locator
  <2> QED
    BY <2>1, <2>2, <2>3, <2>4, <2>5, <2>6 DEF Next
<1> QED
  BY <1>1, <1>2, PTL DEF Spec

-----------------------------------------------------------------------------
(* Where the cursor stands and what it has passed, loop by loop.           *)

LocatedPcs == {"found", "read", "sliced", "constrained"}
PastValue == {"toEnd"} \cup LocatedPcs
PastColon == {"quoted", "bare"} \cup PastValue
AfterKey == keyPos + Len(Needle)

KeyRead == pc \notin {"find"} \cup Failed => OccursAt(payload, keyPos)
ColonSought == pc = "toColon" => AfterKey <= p /\ Within(Blank, AfterKey, p)
ColonRead ==
    pc \in {"toValue"} \cup PastColon =>
        /\ AfterKey <= colon /\ colon < Len(payload) /\ At(colon) = ":"
        /\ Within(Blank, AfterKey, colon)
ValueSought == pc = "toValue" => colon < p /\ Within(Blank, colon + 1, p)
ValueRead == pc \in PastColon => colon < value /\ Within(Blank, colon + 1, value)
Scanning == pc \in {"quoted", "bare"} => value <= p
EndSought ==
    pc \in PastValue => value <= valueEnd /\ valueEnd <= p /\ Within(Blank, valueEnd, p)
EndRead == pc \in LocatedPcs => p < Len(payload) /\ At(p) \in Terminator

LocInv ==
    /\ KeyRead /\ ColonSought /\ ColonRead /\ ValueSought /\ ValueRead
    /\ Scanning /\ EndSought /\ EndRead

\* Before the search the cursor has passed nothing.
LEMMA LocInvInit == Init => LocInv
  BY DEF Init, LocatorInit, LocInv, KeyRead, ColonSought, ColonRead, ValueSought, ValueRead,
         Scanning, EndSought, EndRead, LocatedPcs, PastValue, PastColon

\* Each round of each loop keeps what the cursor is known to have passed.
LEMMA LocInvNext == TypeOK /\ LocInv /\ [Next]_vars => LocInv'
<1> SUFFICES ASSUME TypeOK, LocInv, [Next]_vars PROVE LocInv'
  OBVIOUS
<1> USE NeedleType
<1> USE DEF TypeOK, LocInv, KeyRead, ColonSought, ColonRead, ValueSought, ValueRead, Scanning,
            EndSought, EndRead, LocatedPcs, PastValue, PastColon, AfterKey, Failed, Nesting
<1>1. CASE FindKey
  BY <1>1 DEF FindKey, Occurrences, OccursAt, Within
<1>2. CASE MissKey
  BY <1>2 DEF MissKey, Move
<1>3. CASE SkipBlank
  BY <1>3 DEF SkipBlank, Move, HereIn, Within, At, OccursAt
<1>4. CASE ReadColon
  BY <1>4 DEF ReadColon, Move, Here, Within, At, OccursAt
<1>5. CASE BeginQuoted
  BY <1>5 DEF BeginQuoted, Move, Here, Within, At, OccursAt
<1>6. CASE ScanQuoted
  BY <1>6 DEF ScanQuoted, Move, Within, At, OccursAt
<1>7. CASE EndQuoted
  BY <1>7 DEF EndQuoted, Move, Within, At, OccursAt
<1>8. CASE BeginBare
  BY <1>8 DEF BeginBare, Move, Within, At, OccursAt
<1>9. CASE ScanBare
  <2>1. p' = p + 1 \/ p' = p + 2
    BY <1>9, Zenon DEF ScanBare, Move
  <2>2. pc' = pc /\ pc = "bare" /\ UNCHANGED <<payload, keyPos, colon, value, valueEnd>>
    BY <1>9 DEF ScanBare, Move
  <2> QED
    BY <2>1, <2>2 DEF Within, At, OccursAt
<1>10. CASE EndBare
  BY <1>10 DEF EndBare, Move, Within, At, OccursAt
<1>11. CASE Refuse
  BY <1>11 DEF Refuse, Move
<1>12. CASE Finish
  BY <1>12 DEF Finish, Move, HereIn, Within, At, OccursAt
<1>13. CASE Read \/ SliceClaim \/ SliceFails \/ Constrain \/ UNCHANGED vars
  BY <1>13 DEF Read, SliceClaim, SliceFails, Constrain, vars, locator, Within, At, OccursAt
<1> QED
  BY <1>1, <1>2, <1>3, <1>4, <1>5, <1>6, <1>7, <1>8, <1>9, <1>10, <1>11, <1>12, <1>13
  DEF Next, Search, Locate

(* For every payload, key and buffer, what locate_claim returns describes  *)
(* a claim inside the payload: the callers may slice with it.              *)
THEOREM IndicesDescribe == Spec => []IndicesDescribeClaim
<1>1. TypeOK /\ LocInv => IndicesDescribeClaim
  BY NeedleType DEF TypeOK, LocInv, KeyRead, ColonRead, ValueRead, EndSought, EndRead,
     LocatedPcs, PastValue, PastColon, AfterKey, Failed, IndicesDescribeClaim, Located,
     ClaimIndices, GapsIn, Within, At
<1> QED
  BY <1>1, LocInvInit, LocInvNext, TypeCorrect, PTL DEF Spec

-----------------------------------------------------------------------------
(* Slices: powers of two, groups, and the bytes cut out of whole groups.   *)

\* f holds the powers of two up to that of n.
IsPowers(f, n) == f = [e \in 0..n |-> IF e = 0 THEN 1 ELSE 2 * f[e - 1]]

\* There are powers of two up to any exponent.
LEMMA PowersExist == ASSUME NEW n \in Nat PROVE \E f : IsPowers(f, n)
  <1>. DEFINE T == {k \in Nat : \E f : IsPowers(f, k)}
  <1>1. 0 \in T
    <2>. DEFINE f == [e \in 0..0 |-> 1]
    <2>1. IsPowers(f, 0)
      BY DEF IsPowers
    <2>. QED
      BY <2>1
  <1>2. ASSUME NEW k \in Nat, k \in T PROVE k + 1 \in T
    <2>1. PICK f : IsPowers(f, k)
      BY <1>2
    <2>. DEFINE g == [e \in 0..(k + 1) |-> IF e <= k THEN f[e] ELSE 2 * f[k]]
    <2>2. ASSUME NEW e \in 0..(k + 1) PROVE g[e] = IF e = 0 THEN 1 ELSE 2 * g[e - 1]
      <3>1. CASE e <= k
        BY <2>1, <3>1 DEF IsPowers
      <3>2. CASE e = k + 1
        BY <3>2
      <3>. QED
        BY <3>1, <3>2
    <2>3. IsPowers(g, k + 1)
      BY <2>2 DEF IsPowers
    <2>. QED
      BY <2>3
  <1>. HIDE DEF T
  <1>3. Nat \subseteq T
    BY <1>1, <1>2, Induct
  <1>. QED
    BY <1>3 DEF T

\* A power of two is more than its exponent.
LEMMA PowersGrow ==
    ASSUME NEW n \in Nat, NEW f, IsPowers(f, n), NEW e \in 0..n
    PROVE  f[e] \in Nat /\ e < f[e]
  <1>. DEFINE T == {k \in Nat : k <= n => f[k] \in Nat /\ k < f[k]}
  <1>1. 0 \in T
    BY DEF IsPowers
  <1>2. ASSUME NEW k \in Nat, k \in T PROVE k + 1 \in T
    <2>. SUFFICES ASSUME k + 1 <= n PROVE f[k + 1] \in Nat /\ k + 1 < f[k + 1]
      OBVIOUS
    <2>1. f[k + 1] = 2 * f[k]
      BY DEF IsPowers
    <2>2. f[k] \in Nat /\ k < f[k]
      BY <1>2
    <2>. QED
      BY <2>1, <2>2
  <1>. HIDE DEF T
  <1>3. Nat \subseteq T
    BY <1>1, <1>2, Induct
  <1>. QED
    BY <1>3 DEF T

\* The next power of two is no less than the number.
LEMMA PowerCovers == ASSUME NEW n \in Nat PROVE NextPowerOfTwo(n) \in Nat /\ n <= NextPowerOfTwo(n)
  <1>. DEFINE S(f) == f = [e \in 0..n |-> IF e = 0 THEN 1 ELSE 2 * f[e - 1]]
              two == CHOOSE f : S(f)
              enough == {two[e] : e \in {d \in 0..n : n <= two[d]}}
  <1>1. NextPowerOfTwo(n) = CHOOSE q \in enough : \A other \in enough : q <= other
    BY DEF NextPowerOfTwo
  <1>2. \E f : S(f)
    BY PowersExist DEF IsPowers
  <1>3. S(two)
    <2>. HIDE DEF S
    <2>. QED
      BY <1>2
  <1>4. IsPowers(two, n)
    <2>. HIDE DEF two
    <2>. QED
      BY <1>3 DEF IsPowers
  <1>. HIDE DEF S, two
  <1>5. \A e \in 0..n : two[e] \in Nat /\ e < two[e]
    BY <1>4, PowersGrow
  <1>6. enough \in SUBSET Nat /\ \A q \in enough : n <= q
    BY <1>5
  <1>7. enough # {}
    <2>1. n \in 0..n /\ n <= two[n]
      BY <1>5
    <2>. QED
      BY <2>1
  <1>. HIDE DEF enough
  <1>8. \E q \in enough : \A other \in enough : q <= other
    BY <1>6, <1>7, Least
  <1>9. NextPowerOfTwo(n) \in enough
    BY <1>1, <1>8
  <1>. QED
    BY <1>6, <1>9

\* Dividing a position by the length of a group.
LEMMA GroupOf ==
    ASSUME NEW a \in Nat
    PROVE  /\ a \div GroupLen \in Nat /\ a % GroupLen \in 0..(GroupLen - 1)
           /\ a = GroupLen * (a \div GroupLen) + (a % GroupLen)
           /\ GroupLen \in Nat \ {0}
  <1>1. GroupLen \in {2, 4, 8, 16}
    BY GadgetAssumption
  <1>. QED
    BY <1>1

\* A later position is in no earlier group.
LEMMA GroupsInOrder ==
    ASSUME NEW a \in Nat, NEW b \in Nat, a <= b
    PROVE  a \div GroupLen <= b \div GroupLen
  <1>1. GroupLen \in {2, 4, 8, 16}
    BY GadgetAssumption
  <1>. QED
    BY <1>1

\* The group and the place in it, counted from the group of an earlier position.
LEMMA GroupFrom ==
    ASSUME NEW a \in Nat, NEW i \in Nat
    PROVE  /\ (a + i) \div GroupLen = a \div GroupLen + (i + (a % GroupLen)) \div GroupLen
           /\ (a + i) % GroupLen = (i + (a % GroupLen)) % GroupLen
           /\ (i + (a % GroupLen)) \div GroupLen <= CeilDiv(i, GroupLen)
  <1>1. GroupLen \in {2, 4, 8, 16}
    BY GadgetAssumption
  <1>. QED
    BY <1>1 DEF CeilDiv

\* The groups of n bytes hold the first n positions, and no fewer groups do.
LEMMA GroupsHold ==
    ASSUME NEW n \in Nat \ {0}, NEW a \in 0..(n - 1)
    PROVE  /\ CeilDiv(n, GroupLen) \in Nat \ {0} /\ a \div GroupLen < CeilDiv(n, GroupLen)
           /\ CeilDiv(a, GroupLen) \in Nat /\ CeilDiv(a, GroupLen) <= CeilDiv(n - 1, GroupLen)
           /\ CeilDiv(n, GroupLen) <= n
  <1>1. GroupLen \in {2, 4, 8, 16}
    BY GadgetAssumption
  <1>. QED
    BY <1>1 DEF CeilDiv

\* A number below the modulus is its own residue.
LEMMA Unwrapped == ASSUME NEW x \in Nat, NEW n \in Nat, x < n PROVE x % n = x
  OBVIOUS

\* Decrement takes one from a positive word.
LEMMA DecrementBy ==
    ASSUME NEW n \in Nat, 0 < n, n < Word
    PROVE  Decrement(n) = n - 1
  BY DEF Decrement, Word

\* What SliceInBinaryTree returns where the slice lies within its input.
LEMMA TreeSlice ==
    ASSUME NEW S, NEW input \in Seq(S), NEW offset \in Nat, NEW length \in Nat, NEW n \in Nat,
           offset + length <= Len(input), NEW i \in 1..n, i <= length, 0 < Len(input)
    PROVE  SliceInBinaryTree(input, offset, length, n)[i] = input[offset + i]
  <1>. DEFINE bits == 2 * NextPowerOfTwo(Len(input))
  <1>1. bits \in Nat /\ Len(input) < bits
    <2>1. Len(input) \in Nat
      OBVIOUS
    <2>2. NextPowerOfTwo(Len(input)) \in Nat /\ Len(input) <= NextPowerOfTwo(Len(input))
      BY <2>1, PowerCovers
    <2>. QED
      BY <2>1, <2>2
  <1>2. SliceInBinaryTree(input, offset, length, n)[i] =
           IF (i - 1) % bits < length % bits /\ (offset + i - 1) % bits < Len(input)
           THEN input[((offset + i - 1) % bits) + 1] ELSE PadGroup
    BY DEF SliceInBinaryTree
  <1>. HIDE DEF bits
  <1>3. (i - 1) % bits = i - 1 /\ length % bits = length /\ (offset + i - 1) % bits = offset + i - 1
    BY <1>1, Unwrapped
  <1>4. i - 1 < length /\ offset + i - 1 < Len(input) /\ offset + i - 1 + 1 = offset + i
    OBVIOUS
  <1>. QED
    BY <1>2, <1>3, <1>4

\* The groups hold the data's bytes, each in its place.
Grouped(S, data) ==
    /\ Groups(data) \in Seq([1..GroupLen -> S \cup {Zero}])
    /\ Len(Groups(data)) = CeilDiv(Len(data), GroupLen)
    /\ \A a \in 0..(Len(data) - 1) :
          Groups(data)[a \div GroupLen + 1][(a % GroupLen) + 1] = data[a + 1]

\* The groups of a text are a sequence, each byte in its group.
LEMMA GroupsType ==
    ASSUME NEW S, NEW data \in Seq(S), 0 < Len(data)
    PROVE  Grouped(S, data)
  <1>. DEFINE count == CeilDiv(Len(data), GroupLen)
  <1>1. count \in Nat
    BY GroupsHold
  <1>2. ASSUME NEW g \in 1..count
        PROVE [j \in 1..GroupLen |-> LET i == (g - 1) * GroupLen + j
                                     IN IF i <= Len(data) THEN data[i] ELSE Zero]
                 \in [1..GroupLen -> S \cup {Zero}]
    <2>1. ASSUME NEW j \in 1..GroupLen, (g - 1) * GroupLen + j <= Len(data)
          PROVE data[(g - 1) * GroupLen + j] \in S
      <3>1. GroupLen \in {2, 4, 8, 16}
        BY GadgetAssumption
      <3>2. (g - 1) * GroupLen + j \in 1..Len(data)
        BY <3>1, <2>1, <1>1
      <3>. QED
        BY <3>2
    <2>. QED
      BY <2>1
  <1>3. Groups(data) = [g \in 1..count |->
            [j \in 1..GroupLen |-> LET i == (g - 1) * GroupLen + j
                                   IN IF i <= Len(data) THEN data[i] ELSE Zero]]
    BY DEF Groups
  <1>. HIDE DEF count
  <1>4. Groups(data) \in Seq([1..GroupLen -> S \cup {Zero}]) /\ Len(Groups(data)) = count
    BY <1>1, <1>2, <1>3
  <1>5. ASSUME NEW a \in 0..(Len(data) - 1)
        PROVE Groups(data)[a \div GroupLen + 1][(a % GroupLen) + 1] = data[a + 1]
    <2>. DEFINE g == a \div GroupLen + 1  j == (a % GroupLen) + 1
    <2>1. g \in 1..count /\ j \in 1..GroupLen /\ (g - 1) * GroupLen + j = a + 1
      <3>1. a \div GroupLen \in Nat /\ a % GroupLen \in 0..(GroupLen - 1) /\ GroupLen \in Nat \ {0}
            /\ a = GroupLen * (a \div GroupLen) + (a % GroupLen)
        <4>1. a \in Nat
          OBVIOUS
        <4>. HIDE DEF g, j
        <4>. QED
          BY <4>1, GroupOf
      <3>2. a \div GroupLen < count
        BY GroupsHold DEF count
      <3>3. (g - 1) * GroupLen = GroupLen * (a \div GroupLen)
        BY <3>1
      <3>. QED
        BY <3>1, <3>2, <3>3, <1>1
    <2>. HIDE DEF g, j
    <2>2. Groups(data)[g][j] = IF (g - 1) * GroupLen + j <= Len(data)
                               THEN data[(g - 1) * GroupLen + j] ELSE Zero
      BY <2>1, <1>3
    <2>3. Groups(data)[g][j] = data[a + 1]
      BY <2>1, <2>2
    <2>. QED
      BY <2>3 DEF g, j
  <1>. QED
    BY <1>4, <1>5 DEF count, Grouped

\* Where the slice lies within the data, it is cut out byte for byte and padded.
LEMMA SliceIsExact ==
    ASSUME NEW S, NEW data \in Seq(S), NEW index \in Nat, NEW length \in Nat, NEW max \in Nat,
           1 <= length, length <= max, index + length <= Len(data), Len(data) < Word
    PROVE  Slice(data, index, length, max)
              = [i \in 1..max |-> IF i <= length THEN data[index + i] ELSE Zero]
  <1>. DEFINE first == index \div GroupLen
              last == Decrement(index + length) \div GroupLen
              taken == SliceInBinaryTree(Groups(data), first, last - first + 1, GroupsOut(max))
              byte(i) == taken[(i \div GroupLen) + 1][(i % GroupLen) + 1]
              turned == [i \in 1..max |-> byte(i - 1 + (index % GroupLen))]
              count == CeilDiv(Len(data), GroupLen)
  <1>0. Len(data) \in Nat /\ index + length \in Nat /\ index + length <= Len(data)
    OBVIOUS
  <1>1. Slice(data, index, length, max) = SliceFromStart(turned, length, max, Zero)
    BY DEF Slice
  <1>2. /\ Groups(data) \in Seq([1..GroupLen -> S \cup {Zero}])
        /\ Len(Groups(data)) = count
        /\ \A a \in 0..(Len(data) - 1) :
              Groups(data)[a \div GroupLen + 1][(a % GroupLen) + 1] = data[a + 1]
    <2>1. Grouped(S, data)
      BY <1>0, GroupsType
    <2>. QED
      BY <2>1 DEF Grouped
  <1>3. last = (index + length - 1) \div GroupLen
    <2>1. index + length \in Nat /\ 0 < index + length /\ index + length < Word
      BY DEF Word
    <2>2. Decrement(index + length) = index + length - 1
      BY <2>1, DecrementBy
    <2>. QED
      BY <2>2
  <1>4. /\ count \in Nat \ {0} /\ last \in Nat /\ last < count
        /\ first \in Nat /\ first <= last
    <2>1. index + length - 1 \in 0..(Len(data) - 1) /\ Len(data) \in Nat \ {0}
      OBVIOUS
    <2>2. count \in Nat \ {0} /\ last < count
      BY <1>3, <2>1, GroupsHold
    <2>3. last \in Nat /\ first \in Nat
      <3>1. index + length - 1 \in Nat /\ index \in Nat
        BY <2>1
      <3>. HIDE DEF last
      <3>. QED
        BY <3>1, <1>3, GroupOf
    <2>4. first <= last
      BY <1>3, <2>1, GroupsInOrder
    <2>. QED
      BY <2>2, <2>3, <2>4
  <1>5. GroupsOut(max) \in Nat
    BY GroupsHold DEF GroupsOut
  <1>6. ASSUME NEW i \in 1..max, i <= length PROVE turned[i] = data[index + i]
    <2>. DEFINE place == i - 1 + (index % GroupLen)  a == index + (i - 1)
                g == place \div GroupLen
    <2>1. /\ a \div GroupLen = first + g /\ a % GroupLen = place % GroupLen
          /\ g <= CeilDiv(i - 1, GroupLen)
      <3>1. i - 1 \in Nat
        OBVIOUS
      <3>. QED
        BY <3>1, GroupFrom
    <2>2. place \in Nat /\ g \in Nat
      <3>1. index % GroupLen \in Nat
        <4>1. index % GroupLen \in 0..(GroupLen - 1) /\ GroupLen \in Nat \ {0}
          BY GroupOf
        <4>. QED
          BY <4>1
      <3>2. place \in Nat
        BY <3>1
      <3>. HIDE DEF place
      <3>. QED
        BY <3>2, GroupOf
    <2>3. a \in 0..(Len(data) - 1) /\ a + 1 = index + i
      <3>1. index + i <= Len(data)
        BY <1>0, <1>6
      <3>. QED
        BY <3>1, <1>0
    <2>4. first + g <= last
      <3>1. a <= index + length - 1 /\ a \in Nat /\ index + length - 1 \in Nat
        BY <1>0, <1>6
      <3>2. a \div GroupLen <= (index + length - 1) \div GroupLen
        BY <3>1, GroupsInOrder
      <3>. QED
        BY <3>2, <2>1, <1>3
    <2>5. g + 1 \in 1..GroupsOut(max)
      <3>1. max \in Nat \ {0} /\ i - 1 \in 0..(max - 1)
        OBVIOUS
      <3>2. CeilDiv(i - 1, GroupLen) <= CeilDiv(max - 1, GroupLen) /\ CeilDiv(i - 1, GroupLen) \in Nat
        BY <3>1, GroupsHold
      <3>3. max - 1 \in 0..(max - 1)
        BY <3>1
      <3>4. CeilDiv(max - 1, GroupLen) \in Nat
        BY <3>1, <3>3, GroupsHold
      <3>. QED
        BY <3>2, <3>4, <2>1, <2>2 DEF GroupsOut
    <2>6. taken[g + 1] = Groups(data)[first + (g + 1)]
      <3>1. g + 1 <= last - first + 1 /\ first + (last - first + 1) <= Len(Groups(data))
            /\ last - first + 1 \in Nat /\ 0 < Len(Groups(data))
        BY <1>2, <1>4, <2>2, <2>4
      <3>. HIDE DEF g, first, last
      <3>. QED
        BY <3>1, <1>2, <1>4, <1>5, <2>5, TreeSlice
    <2>7. turned[i] = taken[g + 1][(place % GroupLen) + 1]
      OBVIOUS
    <2>8. first + (g + 1) = a \div GroupLen + 1
      BY <2>1, <2>2, <1>4
    <2>9. Groups(data)[a \div GroupLen + 1][(a % GroupLen) + 1] = data[a + 1]
      BY <1>2, <2>3
    <2>. HIDE DEF place, a, g, taken, first, last, turned
    <2>. QED
      BY <2>1, <2>3, <2>6, <2>7, <2>8, <2>9
  <1>. HIDE DEF turned
  <1>. QED
    BY <1>1, <1>6 DEF SliceFromStart

-----------------------------------------------------------------------------
(* What host and circuit have made of the claim, stage by stage.           *)

AfterRead == {"read", "sliced", "constrained"}

\* What Constrain leaves of the two slices.
Constrained(claim, bytes) ==
    IF ClaimOk(Needle, claim, ClaimIndices) /\ ReaderOk(kind, bytes)
    THEN [ok |-> TRUE, bytes |-> bytes, read |-> Reader(kind, bytes)]
    ELSE Refused

TheClaim == ClaimSlice(Buffer, ClaimIndices, maxLen)
TheValue == ValueSlice(Buffer, ClaimIndices, maxLen)
Sliceable == SlicesOk(Buffer, ClaimIndices, maxLen)

HostRead ==
    pc \in AfterRead =>
        kind \in Kinds /\ maxLen \in MaxLens /\ host = HostReads(kind, maxLen)
NotSliced == pc \notin {"sliced", "constrained"} => circuit = Refused
Slices ==
    pc = "sliced" =>
        host.ok /\ Sliceable /\ circuit = [ok |-> FALSE, claim |-> TheClaim, bytes |-> TheValue]
Answer ==
    pc = "constrained" =>
        /\ host.ok
        /\ Sliceable => circuit = Constrained(TheClaim, TheValue)
        /\ ~Sliceable => circuit = Refused

ReadInv == HostRead /\ NotSliced /\ Slices /\ Answer

\* What the readers compute depends on what they are given.
LEMMA ReadingsStay ==
    ASSUME UNCHANGED <<payload, p, keyPos, colon, value, valueEnd>>
    PROVE  /\ \A k, max : HostReads(k, max)' = HostReads(k, max)
           /\ Buffer' = Buffer /\ ClaimIndices' = ClaimIndices
  <1>1. ValueBytes' = ValueBytes /\ Buffer' = Buffer /\ ClaimIndices' = ClaimIndices
    BY DEF ValueBytes, Buffer, ClaimIndices
  <1>2. \A max : ValueBytesPadded(max)' = ValueBytesPadded(max)
    BY <1>1 DEF ValueBytesPadded
  <1>3. \A k, max : HostReads(k, max)' = HostReads(k, max)
    BY <1>1, <1>2 DEF HostReads
  <1>. QED
    BY <1>1, <1>3

\* Nothing is read, sliced or constrained yet.
LEMMA ReadInit == Init => ReadInv
  BY DEF Init, LocatorInit, ReadInv, HostRead, NotSliced, Slices, Answer, AfterRead

\* Every step of the search, the host and the circuit keeps the stages as described.
LEMMA ReadInvNext == TypeOK /\ ReadInv /\ [Next]_vars => ReadInv'
<1> SUFFICES ASSUME TypeOK, ReadInv, [Next]_vars PROVE ReadInv'
  OBVIOUS
<1> USE DEF ReadInv, AfterRead
<1>1. CASE Search
  <2>1. pc' \notin AfterRead /\ pc \notin AfterRead /\ circuit' = circuit
    BY <1>1 DEF Search, Locate, FindKey, MissKey, SkipBlank, ReadColon, BeginQuoted, ScanQuoted,
       EndQuoted, BeginBare, ScanBare, EndBare, Refuse, Finish, Move
  <2>. QED
    BY <2>1 DEF HostRead, NotSliced, Slices, Answer
<1>2. CASE Read
  <2>1. UNCHANGED <<payload, p, keyPos, colon, value, valueEnd, circuit>> /\ pc = "found" /\ pc' = "read"
    BY <1>2 DEF Read
  <2>2. PICK k \in Kinds, max \in MaxLens : kind' = k /\ maxLen' = max /\ host' = HostReads(k, max)
    BY <1>2 DEF Read
  <2>3. HostReads(k, max)' = HostReads(k, max)
    BY <2>1, ReadingsStay
  <2>4. HostReads(kind, maxLen)' = HostReads(k, max)'
    BY <2>2 DEF HostReads, ValueBytesPadded
  <2>5. HostRead'
    BY <2>2, <2>3, <2>4 DEF HostRead
  <2>6. NotSliced' /\ Slices' /\ Answer'
    BY <2>1 DEF NotSliced, Slices, Answer
  <2>. QED
    BY <2>5, <2>6
<1>3. CASE SliceClaim \/ SliceFails \/ Constrain \/ UNCHANGED vars
  <2>1. UNCHANGED <<payload, p, keyPos, colon, value, valueEnd, kind, maxLen, host>>
    BY <1>3 DEF SliceClaim, SliceFails, Constrain, vars, locator
  <2>2. /\ \A k, max : HostReads(k, max)' = HostReads(k, max)
        /\ Buffer' = Buffer /\ ClaimIndices' = ClaimIndices
    BY <2>1, ReadingsStay
  <2>3. HostReads(kind, maxLen)' = HostReads(kind, maxLen)
    <3>1. ValueBytes' = ValueBytes /\ ValueBytesPadded(maxLen)' = ValueBytesPadded(maxLen)
      BY <2>1 DEF ValueBytes, ValueBytesPadded
    <3>. QED
      BY <2>1, <3>1 DEF HostReads
  <2>4. TheClaim' = TheClaim /\ TheValue' = TheValue /\ Sliceable' = Sliceable
    BY <2>1, <2>2 DEF TheClaim, TheValue, Sliceable
  <2>5. Constrained(TheClaim, TheValue)' = Constrained(TheClaim, TheValue)
    BY <2>1, <2>2, <2>4 DEF Constrained, ReaderOk, Reader, LastQuote
  <2>6. HostRead'
    BY <1>3, <2>1, <2>3 DEF HostRead, SliceClaim, SliceFails, Constrain, vars, locator
  <2>7. NotSliced'
    BY <1>3, <2>1 DEF NotSliced, SliceClaim, SliceFails, Constrain, vars, locator
  <2>8. Slices'
    BY <1>3, <2>1, <2>4 DEF Slices, SliceClaim, SliceFails, Constrain, vars, locator,
       TheClaim, TheValue, Sliceable
  <2>9. Answer'
    <3>1. CASE SliceClaim
      BY <3>1 DEF Answer, SliceClaim
    <3>2. CASE SliceFails
      <4>1. ~Sliceable /\ host.ok /\ circuit' = circuit /\ pc = "read"
        BY <3>2 DEF SliceFails, Sliceable
      <4>2. circuit = Refused /\ host'.ok /\ ~Sliceable'
        BY <4>1, <2>1, <2>4 DEF NotSliced
      <4>. QED
        BY <4>1, <4>2 DEF Answer
    <3>3. CASE Constrain
      <4>1. circuit' = Constrained(TheClaim, TheValue) /\ Sliceable /\ host.ok
        <5>1. Sliceable /\ host.ok /\ circuit.claim = TheClaim /\ circuit.bytes = TheValue
          BY <3>3 DEF Constrain, Slices
        <5>2. circuit' = Constrained(circuit.claim, circuit.bytes)
          BY <3>3 DEF Constrain, Constrained
        <5>. QED
          BY <5>1, <5>2
      <4>. QED
        BY <4>1, <2>1, <2>4, <2>5 DEF Answer
    <3>4. CASE UNCHANGED vars
      BY <3>4, <2>1, <2>4, <2>5 DEF Answer, vars, locator
    <3>. QED
      BY <1>3, <3>1, <3>2, <3>3, <3>4
  <2>. QED
    BY <2>6, <2>7, <2>8, <2>9
<1>. QED
  BY <1>1, <1>2, <1>3 DEF Next

-----------------------------------------------------------------------------
(* The slices and the readers, for a claim placed as the search leaves it. *)

\* The claim's positions, in the payload and in this order.
Placed ==
    /\ payload \in Seq(Chars) /\ Len(payload) <= BufferLen
    /\ keyPos \in Nat /\ colon \in Nat /\ value \in Nat /\ valueEnd \in Nat /\ p \in Nat
    /\ OccursAt(payload, keyPos)
    /\ AfterKey <= colon /\ colon < value /\ value <= valueEnd /\ valueEnd <= p
    /\ p < Len(payload) /\ At(colon) = ":" /\ At(p) \in Terminator

\* After the host has accepted, the positions are such.
LEMMA AcceptedIsPlaced ==
    ASSUME TypeOK, LocInv, pc \in LocatedPcs, Len(payload) <= BufferLen
    PROVE  Placed
  BY DEF TypeOK, LocInv, KeyRead, ColonRead, ValueRead, EndSought, EndRead, LocatedPcs, PastValue,
     PastColon, Failed, Placed

\* Positions in the buffer are words.
LEMMA BufferLenType == BufferLen \in Nat /\ BufferLen < Word /\ Word \in Nat
  <1>1. BufferLen \in 1..(Word - 1)
    BY ClaimsAssumption
  <1>2. Word = 65536
    BY DEF Word
  <1>3. BufferLen < Word
    BY <1>1, <1>2
  <1>4. BufferLen \in Nat
    BY <1>1
  <1>. QED
    BY <1>2, <1>3, <1>4

\* The buffer is the payload with zeros after it.
LEMMA BufferType ==
    ASSUME payload \in Seq(Chars), Len(payload) <= BufferLen
    PROVE  /\ Buffer \in Seq(Chars \cup {Nul}) /\ Len(Buffer) = BufferLen
           /\ BufferLen \in Nat /\ BufferLen < Word
           /\ \A i \in 1..Len(payload) : Buffer[i] = payload[i]
  <1>1. BufferLen \in Nat /\ BufferLen < Word
    BY BufferLenType
  <1>2. \A i \in 1..BufferLen : (IF i <= Len(payload) THEN payload[i] ELSE Nul) \in Chars \cup {Nul}
    OBVIOUS
  <1>. QED
    BY <1>1, <1>2 DEF Buffer

\* The bytes of the value, as the host takes them out of the payload.
LEMMA ValueBytesType ==
    ASSUME Placed
    PROVE  /\ ValueBytes \in Seq(Chars) /\ Len(ValueBytes) = valueEnd - value
           /\ \A i \in 1..(valueEnd - value) : ValueBytes[i] = payload[value + i]
  <1>1. payload \in Seq(Chars) /\ value + 1 \in 1..(Len(payload) + 1) /\ valueEnd \in 0..Len(payload)
    BY DEF Placed
  <1>2. value \in Nat /\ valueEnd \in Nat /\ value <= valueEnd
    BY DEF Placed
  <1>. QED
    BY <1>1, <1>2 DEF ValueBytes

\* The circuit's slice of the value is the host's padded value.
LEMMA ValueSliced ==
    ASSUME Placed, maxLen \in Nat, 1 <= valueEnd - value, valueEnd - value <= maxLen
    PROVE  TheValue = ValueBytesPadded(maxLen)
  <1>. DEFINE length == valueEnd - value
  <1>1. ClaimIndices.value_len = length /\ ClaimIndices.offset + ClaimIndices.value_idx = value
    BY DEF ClaimIndices, Placed
  <1>2. value \in Nat /\ length \in Nat /\ value + length <= BufferLen /\ value + length <= Len(payload)
    BY BufferType DEF Placed
  <1>3. /\ Buffer \in Seq(Chars \cup {Nul}) /\ Len(Buffer) = BufferLen
        /\ BufferLen \in Nat /\ BufferLen < Word
        /\ \A i \in 1..Len(payload) : Buffer[i] = payload[i]
    BY BufferType DEF Placed
  <1>4. ValueOffset(ClaimIndices) = value
    <2>1. value < Word /\ Word \in Nat
      BY <1>2, <1>3 DEF Word
    <2>. QED
      BY <1>1, <1>2, <2>1, Unwrapped DEF ValueOffset
  <1>5. TheValue = Slice(Buffer, value, length, maxLen)
    BY <1>1, <1>4 DEF TheValue, ValueSlice
  <1>. HIDE DEF length
  <1>6. TheValue = [i \in 1..maxLen |-> IF i <= length THEN Buffer[value + i] ELSE Zero]
    <2>1. 1 <= length /\ length <= maxLen
      BY DEF length
    <2>2. Buffer \in Seq(Chars \cup {Nul}) /\ value + length <= Len(Buffer) /\ Len(Buffer) < Word
      BY <1>2, <1>3
    <2>3. value \in Nat /\ length \in Nat /\ maxLen \in Nat
      BY <1>2
    <2>4. Slice(Buffer, value, length, maxLen)
             = [i \in 1..maxLen |-> IF i <= length THEN Buffer[value + i] ELSE Zero]
      BY ONLY <2>1, <2>2, <2>3, SliceIsExact
    <2>. QED
      BY <1>5, <2>4
  <1>7. Len(ValueBytes) = length /\ \A i \in 1..length : ValueBytes[i] = payload[value + i]
    BY ValueBytesType DEF length
  <1>8. ASSUME NEW i \in 1..maxLen
        PROVE (IF i <= length THEN Buffer[value + i] ELSE Zero)
                 = (IF i <= Len(ValueBytes) THEN ValueBytes[i] ELSE Nul)
    <2>1. CASE i <= length
      <3>1. value + i \in 1..Len(payload) /\ i \in 1..length
        BY <2>1, <1>2 DEF Placed
      <3>. QED
        BY <2>1, <3>1, <1>3, <1>7
    <2>2. CASE ~(i <= length)
      BY <2>2, <1>7 DEF Zero, Nul
    <2>. QED
      BY <2>1, <2>2
  <1>. QED
    BY <1>6, <1>8 DEF ValueBytesPadded

\* The circuit's slice of the claim is the claim, from the key to its terminator.
LEMMA ClaimSliced ==
    ASSUME Placed, maxLen \in Nat, p + 1 - keyPos <= maxLen
    PROVE  /\ TheClaim \in [1..maxLen -> Chars \cup {Nul}]
           /\ \A i \in 1..(p + 1 - keyPos) : TheClaim[i] = payload[keyPos + i]
  <1>. DEFINE length == p + 1 - keyPos
  <1>1. ClaimIndices.claim_len = length /\ ClaimIndices.offset = keyPos
    BY DEF ClaimIndices
  <1>2. keyPos \in Nat /\ length \in Nat /\ 1 <= length /\ keyPos + length <= BufferLen
        /\ keyPos + length <= Len(payload)
    BY NeedleType, BufferType DEF Placed, AfterKey
  <1>3. /\ Buffer \in Seq(Chars \cup {Nul}) /\ Len(Buffer) = BufferLen
        /\ BufferLen \in Nat /\ BufferLen < Word
        /\ \A i \in 1..Len(payload) : Buffer[i] = payload[i]
    BY BufferType DEF Placed
  <1>4. TheClaim = Slice(Buffer, keyPos, length, maxLen)
    BY <1>1 DEF TheClaim, ClaimSlice
  <1>5. length <= maxLen
    OBVIOUS
  <1>. HIDE DEF length
  <1>6. TheClaim = [i \in 1..maxLen |-> IF i <= length THEN Buffer[keyPos + i] ELSE Zero]
    BY <1>2, <1>3, <1>4, <1>5, SliceIsExact
  <1>7. ASSUME NEW i \in 1..length PROVE keyPos + i \in 1..Len(payload) /\ i \in 1..maxLen
    BY <1>2, <1>5 DEF Placed
  <1>8. ASSUME NEW i \in 1..maxLen
        PROVE (IF i <= length THEN Buffer[keyPos + i] ELSE Zero) \in Chars \cup {Nul}
    <2>1. CASE i <= length
      <3>1. keyPos + i \in 1..Len(Buffer)
        BY <2>1, <1>2, <1>3
      <3>. QED
        BY <2>1, <3>1, <1>3
    <2>. QED
      BY <2>1 DEF Zero, Nul
  <1>9. \A i \in 1..length : TheClaim[i] = payload[keyPos + i]
    BY <1>3, <1>6, <1>7
  <1>. QED
    BY <1>6, <1>8, <1>9 DEF length

\* What the host demands of a value it accepts, and what it makes of it.
LEMMA HostAccepted ==
    ASSUME NEW k \in Kinds, NEW max, HostReads(k, max).ok
    PROVE  /\ Len(payload) <= BufferLen
           /\ k = "string" => /\ HostStringOk(ValueBytes, max)
                              /\ HostReads(k, max).read = HostString(ValueBytes, max)
           /\ k = "exp" => /\ HostExpOk(ValueBytesPadded(max))
                           /\ HostReads(k, max).read = HostExp(ValueBytesPadded(max))
           /\ k = "nonce" => /\ HostNonceOk(ValueBytes)
                             /\ HostReads(k, max).read = HostNonce(ValueBytes)
  <1>. DEFINE padded == ValueBytesPadded(max)
              ok == CASE k = "string" -> HostStringOk(ValueBytes, max)
                      [] k = "exp" -> HostExpOk(padded)
                      [] k = "nonce" -> HostNonceOk(ValueBytes)
              read == CASE k = "string" -> HostString(ValueBytes, max)
                        [] k = "exp" -> HostExp(padded)
                        [] k = "nonce" -> HostNonce(ValueBytes)
  <1>1. HostReads(k, max) = IF ok /\ Len(payload) <= BufferLen
                            THEN [ok |-> TRUE, read |-> read] ELSE Refused
    BY DEF HostReads
  <1>2. ~Refused.ok
    BY DEF Refused
  <1>. HIDE DEF ok, read
  <1>3. ok /\ Len(payload) <= BufferLen /\ HostReads(k, max).read = read
    BY <1>1, <1>2
  <1>4. CASE k = "string"
    BY <1>3, <1>4 DEF ok, read
  <1>5. CASE k = "exp"
    BY <1>3, <1>5 DEF ok, read
  <1>6. CASE k = "nonce"
    BY <1>3, <1>6 DEF ok, read
  <1>. QED
    BY <1>3, <1>4, <1>5, <1>6 DEF Kinds

\* Of an empty value the host accepts nothing.
LEMMA AcceptedHasValue ==
    ASSUME Placed, NEW k \in Kinds, NEW max \in Nat \ {0}, HostReads(k, max).ok
    PROVE  1 <= valueEnd - value
  <1>1. Len(ValueBytes) = valueEnd - value /\ valueEnd - value \in Nat
    BY ValueBytesType DEF Placed
  <1>2. CASE k = "string"
    BY <1>1, <1>2, HostAccepted DEF HostStringOk
  <1>3. CASE k = "exp"
    <2>1. HostExpOk(ValueBytesPadded(max))
      BY <1>3, HostAccepted
    <2>2. Len(ValueBytesPadded(max)) = max
      BY DEF ValueBytesPadded
    <2>3. ExpDigits \in Nat /\ 1 <= ExpDigits
      BY GadgetAssumption
    <2>4. 1 \in 1..max /\ ValueBytesPadded(max)[1] \in Decimal
      BY <2>1, <2>2, <2>3 DEF HostExpOk
    <2>5. ValueBytesPadded(max)[1] = IF 1 <= Len(ValueBytes) THEN ValueBytes[1] ELSE Nul
      BY <2>4 DEF ValueBytesPadded
    <2>. QED
      BY <2>4, <2>5, <1>1 DEF Decimal, Nul
  <1>4. CASE k = "nonce"
    BY <1>1, <1>4, HostAccepted DEF HostNonceOk
  <1>. QED
    BY <1>2, <1>3, <1>4 DEF Kinds

\* The circuit's reader accepts the padded value that the host accepts, and reads the same.
LEMMA ReadersAgree ==
    ASSUME Placed, kind \in Kinds, maxLen \in Nat \ {0}, HostReads(kind, maxLen).ok,
           valueEnd - value <= maxLen
    PROVE  /\ ReaderOk(kind, ValueBytesPadded(maxLen))
           /\ Reader(kind, ValueBytesPadded(maxLen)) = HostReads(kind, maxLen).read
  <1>. DEFINE bytes == ValueBytesPadded(maxLen)  s == ValueBytes  n == valueEnd - value
  <1>1. s \in Seq(Chars) /\ Len(s) = n /\ n \in Nat /\ 1 <= n /\ n <= maxLen
    BY ValueBytesType, AcceptedHasValue DEF Placed
  <1>2. bytes = [i \in 1..maxLen |-> IF i <= Len(s) THEN s[i] ELSE Nul]
    BY DEF ValueBytesPadded
  <1>3. bytes \in Seq(Chars \cup {Nul}) /\ Len(bytes) = maxLen
    BY <1>1, <1>2
  <1>4. \A i \in 1..n : bytes[i] = s[i]
    BY <1>1, <1>2
  <1>5. CASE kind = "string"
    <2>1. HostStringOk(s, maxLen) /\ HostReads(kind, maxLen).read = HostString(s, maxLen)
      BY <1>5, HostAccepted
    <2>2. n >= 2 /\ s[1] = Quote /\ s[n] = Quote
      BY <2>1, <1>1 DEF HostStringOk
    <2>. HIDE DEF bytes, s, n
    <2>3. Unquoted(s) \in Seq(Chars) /\ Len(Unquoted(s)) = n - 2
          /\ \A i \in 1..(n - 2) : Unquoted(s)[i] = s[i + 1]
      BY <1>1, <2>2 DEF Unquoted
    <2>4. Quoted(Unquoted(s)) \in Seq(Chars) /\ Len(Quoted(Unquoted(s))) = n
      BY <2>3, <1>1, <2>2, KeyAssumption DEF Quoted
    <2>5. ASSUME NEW i \in 1..n PROVE Quoted(Unquoted(s))[i] = s[i]
      <3>1. CASE i = 1
        BY <3>1, <2>2, <2>3 DEF Quoted
      <3>2. CASE i = n
        BY <3>2, <2>2, <2>3, <1>1 DEF Quoted
      <3>3. CASE i # 1 /\ i # n
        BY <3>3, <2>2, <2>3, <1>1 DEF Quoted
      <3>. QED
        BY <3>1, <3>2, <3>3
    <2>6. HostString(s, maxLen) = [i \in 1..maxLen |-> IF i <= n THEN Quoted(Unquoted(s))[i] ELSE Nul]
      BY <2>4 DEF HostString, Padded
    <2>7. HostString(s, maxLen) = bytes
      BY <2>5, <2>6, <1>1, <1>2
    <2>. QED
      BY <2>1, <2>7, <1>5 DEF ReaderOk, Reader, bytes
  <1>6. CASE kind = "exp"
    <2>1. HostExpOk(bytes) /\ HostReads(kind, maxLen).read = HostExp(bytes)
      BY <1>6, HostAccepted
    <2>. HIDE DEF bytes
    <2>2. JwtExpOk(bytes) /\ JwtExp(bytes) = HostExp(bytes)
      BY <2>1 DEF HostExpOk, JwtExpOk, HostExp, JwtExp, Nul, Zero
    <2>. QED
      BY <1>6, <2>1, <2>2 DEF ReaderOk, Reader, bytes
  <1>7. CASE kind = "nonce"
    <2>1. HostNonceOk(s) /\ HostReads(kind, maxLen).read = HostNonce(s)
      BY <1>7, HostAccepted
    <2>2. LastQuote = n - 1
      <3>1. ClaimIndices.value_len = n
        BY DEF ClaimIndices
      <3>2. n < Word
        BY BufferLenType DEF Placed
      <3>. QED
        BY <3>1, <3>2, <1>1, DecrementBy DEF LastQuote
    <2>. HIDE DEF bytes, s, n
    <2>3. /\ n >= 5 /\ s[1] = Quote /\ s[2] = "0" /\ s[3] = "x" /\ s[n] = Quote
          /\ Len(NonceDigits(s)) \in 1..HexDigits
          /\ \A i \in 1..Len(NonceDigits(s)) : NonceDigits(s)[i] \in Hex
      BY <2>1, <1>1 DEF HostNonceOk
    <2>4. Len(NonceDigits(s)) = n - 4 /\ \A i \in 1..(n - 4) : NonceDigits(s)[i] = s[i + 3]
      BY <2>3, <1>1 DEF NonceDigits
    <2>5. SubSeq(bytes, 1, 3) = <<"quote", "0", "x">>
      <3>. DEFINE t == SubSeq(bytes, 1, 3)  u == <<"quote", "0", "x">>
      <3>1. t \in Seq(Chars \cup {Nul}) /\ Len(t) = 3 /\ \A i \in 1..3 : t[i] = bytes[i]
        BY <1>1, <1>3, <2>3
      <3>2. u \in Seq({"quote", "0", "x"}) /\ Len(u) = 3 /\ u[1] = Quote /\ u[2] = "0" /\ u[3] = "x"
        BY DEF Quote
      <3>3. bytes[1] = Quote /\ bytes[2] = "0" /\ bytes[3] = "x"
        BY <1>1, <1>4, <2>3
      <3>. HIDE DEF t, u
      <3>4. \A i \in 1..3 : t[i] = u[i]
        BY <3>1, <3>2, <3>3
      <3>5. t = u
        BY <3>1, <3>2, <3>4, SeqEqual
      <3>. QED
        BY <3>5 DEF t, u
    <2>6. n - 1 < MaxQuoteIndex(bytes) + 1
      BY <1>1, <1>3, <2>3, <2>4, GadgetAssumption DEF MaxQuoteIndex
    <2>7. bytes[n - 1 + 1] = "quote"
      BY <1>1, <1>4, <2>3 DEF Quote
    <2>8. \A i \in 3..(n - 1 - 1) : bytes[i + 1] \in Hex
      <3>. TAKE i \in 3..(n - 1 - 1)
      <3>1. i + 1 \in 1..n /\ i - 2 \in 1..(n - 4) /\ i - 2 + 3 = i + 1
        BY <1>1
      <3>2. bytes[i + 1] = s[i + 1] /\ NonceDigits(s)[i - 2] = s[i + 1]
        BY <3>1, <1>4, <2>4
      <3>. QED
        BY <3>1, <3>2, <2>3, <2>4
    <2>9. JwtNonceOk(bytes, LastQuote)
      BY <1>1, <1>3, <2>2, <2>3, <2>5, <2>6, <2>7, <2>8 DEF JwtNonceOk
    <2>10. SubSeq(bytes, 4, n - 1) = NonceDigits(s)
      BY <1>1, <1>3, <1>4, <2>3 DEF NonceDigits
    <2>11. JwtNonce(bytes, LastQuote) = HostNonce(s)
      BY <2>2, <2>10 DEF JwtNonce, HostNonce
    <2>. QED
      BY <1>7, <2>1, <2>9, <2>11 DEF ReaderOk, Reader, bytes
  <1>. QED
    BY <1>5, <1>6, <1>7 DEF Kinds

-----------------------------------------------------------------------------
(* The format that the circuit demands of the claim.                       *)

\* A range of blanks adds nothing to the prefix sums.
LEMMA BlankRange ==
    ASSUME NEW S, NEW claim \in Seq(S), NEW start \in Int, NEW end \in Nat,
           start + 1 \in Nat, start + 1 < Word, end < Word, end <= Len(claim),
           \A k \in (start + 1)..(end - 1) : claim[k + 1] \in CircuitBlank
    PROVE  RangeIsWhitespace(claim, start, end)
  <1>. DEFINE from == IF (start + 1) % Word <= end % Word THEN start + 1 ELSE end
              sums == PrefixSums(claim)
              full(k) == {i \in 1..(k - 1) : claim[i] \notin CircuitBlank}
  <1>1. (start + 1) % Word = start + 1 /\ end % Word = end
    BY BufferLenType, Unwrapped
  <1>2. from \in Nat /\ from <= end /\ (from = start + 1 \/ from = end)
    BY <1>1
  <1>. HIDE DEF from
  <1>3. sums \in Seq({Cardinality(full(k)) : k \in 1..(Len(claim) + 1)}) /\ Len(sums) = Len(claim) + 1
    <2>. DEFINE m == Len(claim) + 1  T == {Cardinality(full(k)) : k \in 1..m}
    <2>1. sums = [k \in 1..m |-> Cardinality(full(k))]
      BY DEF PrefixSums
    <2>2. m \in Nat
      OBVIOUS
    <2>. HIDE DEF full, m
    <2>4. \A k \in 1..m : Cardinality(full(k)) \in T
      OBVIOUS
    <2>. HIDE DEF sums, full, m, T
    <2>3. sums \in Seq(T) /\ Len(sums) = m
      BY <2>1, <2>2, <2>4
    <2>. QED
      BY <2>3 DEF m, T
  <1>4. \A k \in 1..(Len(claim) + 1) : sums[k] = Cardinality(full(k))
    BY DEF PrefixSums
  <1>5. full(from + 1) = full(end + 1)
    <2>1. ASSUME NEW i \in 1..(end + 1 - 1), claim[i] \notin CircuitBlank PROVE i <= from
      <3>1. CASE from = end
        BY <2>1, <3>1
      <3>2. CASE from = start + 1 /\ from < i
        <4>1. i - 1 \in (start + 1)..(end - 1) /\ i - 1 + 1 = i
          BY <3>2, <1>2
        <4>. QED
          BY <4>1, <2>1
      <3>. QED
        BY <3>1, <3>2, <1>2
    <2>2. \A i \in 1..(from + 1 - 1) : i \in 1..(end + 1 - 1)
      BY <1>2
    <2>3. \A i \in 1..(end + 1 - 1) : i <= from => i \in 1..(from + 1 - 1)
      BY <1>2
    <2>6. ASSUME NEW k, NEW i
          PROVE i \in full(k) <=> i \in 1..(k - 1) /\ claim[i] \notin CircuitBlank
      OBVIOUS
    <2>. HIDE DEF full
    <2>4. full(end + 1) \subseteq full(from + 1)
      BY <1>2, <2>1, <2>3, <2>6
    <2>5. full(from + 1) \subseteq full(end + 1)
      BY <1>2, <2>2, <2>6
    <2>. QED
      BY <2>4, <2>5
  <1>. HIDE DEF full, sums
  <1>6. sums[from + 1] = sums[end + 1]
    <2>1. from + 1 \in 1..(Len(claim) + 1) /\ end + 1 \in 1..(Len(claim) + 1)
      BY <1>2
    <2>. QED
      BY <2>1, <1>4, <1>5
  <1>7. MultiplexerOk(sums, from) /\ MultiplexerOk(sums, end)
    BY <1>2, <1>3 DEF MultiplexerOk
  <1>8. Multiplexer(sums, from) = Multiplexer(sums, end)
    BY <1>6 DEF Multiplexer
  <1>. QED
    BY <1>7, <1>8 DEF RangeIsWhitespace, from, sums

\* The places of a claim, counted from its key.
LEMMA RelativePlaces ==
    ASSUME Placed
    PROVE  /\ ClaimIndices.offset = keyPos /\ ClaimIndices.claim_len = p + 1 - keyPos
           /\ ClaimIndices.colon_idx = colon - keyPos /\ ClaimIndices.value_idx = value - keyPos
           /\ ClaimIndices.value_len = valueEnd - value
           /\ Len(Needle) \in Nat /\ 2 <= Len(Needle)
           /\ Len(Needle) <= colon - keyPos /\ colon - keyPos < value - keyPos
           /\ value - keyPos <= valueEnd - keyPos /\ valueEnd - keyPos <= p - keyPos
           /\ p + 1 - keyPos \in Nat /\ p + 1 - keyPos < Word
           /\ valueEnd - value < Word /\ keyPos + (p + 1 - keyPos) <= BufferLen
           /\ p + 1 < Word
  <1>1. /\ ClaimIndices.offset = keyPos /\ ClaimIndices.claim_len = p + 1 - keyPos
        /\ ClaimIndices.colon_idx = colon - keyPos /\ ClaimIndices.value_idx = value - keyPos
        /\ ClaimIndices.value_len = valueEnd - value
    BY DEF ClaimIndices
  <1>2. Len(Needle) \in Nat /\ 2 <= Len(Needle)
    BY KeyAssumption DEF Needle
  <1>3. /\ keyPos \in Nat /\ colon \in Nat /\ value \in Nat /\ valueEnd \in Nat /\ p \in Nat
        /\ keyPos + Len(Needle) <= colon /\ colon < value /\ value <= valueEnd /\ valueEnd <= p
        /\ p + 1 <= BufferLen
    BY BufferLenType DEF Placed, AfterKey
  <1>. QED
    BY <1>1, <1>2, <1>3, BufferLenType

\* A claim with the circuit's white space passes the circuit's format.
LEMMA FormatAccepted ==
    ASSUME Placed, maxLen \in Nat, p + 1 - keyPos <= maxLen, GapsIn(CircuitBlank)
    PROVE  ClaimOk(Needle, TheClaim, ClaimIndices)
  <1>. DEFINE claim == TheClaim  pos == ClaimIndices  n == Len(Needle)
              c == colon - keyPos  v == value - keyPos  e == valueEnd - keyPos  last == p - keyPos
  <1>1. /\ pos.claim_len - 1 = last /\ pos.colon_idx = c /\ pos.value_idx = v
        /\ pos.value_idx + pos.value_len = e
        /\ n \in Nat /\ 2 <= n /\ n <= c /\ c < v /\ v <= e /\ e <= last /\ last + 1 <= maxLen
        /\ c \in Nat /\ v \in Nat /\ e \in Nat /\ last \in Nat /\ last + 1 < Word
    BY RelativePlaces DEF Placed
  <1>2. claim \in Seq(Chars \cup {Nul}) /\ Len(claim) = maxLen
    BY ClaimSliced
  <1>3. \A i \in 1..(last + 1) : claim[i] = payload[keyPos + i]
    BY ClaimSliced DEF Placed
  <1>4. keyPos \in Nat /\ colon \in Nat /\ value \in Nat /\ valueEnd \in Nat /\ p \in Nat
        /\ colon = keyPos + c /\ value = keyPos + v /\ valueEnd = keyPos + e /\ p = keyPos + last
    BY DEF Placed
  <1>5. /\ \A k \in (keyPos + n)..(colon - 1) : payload[k + 1] \in CircuitBlank
        /\ \A k \in (colon + 1)..(value - 1) : payload[k + 1] \in CircuitBlank
        /\ \A k \in valueEnd..(p - 1) : payload[k + 1] \in CircuitBlank
    BY DEF GapsIn, Within, At
  <1>6. payload[colon + 1] = ":" /\ payload[p + 1] \in {",", "}"}
    BY DEF Placed, At, Terminator
  <1>7. \A j \in 1..n : payload[keyPos + j] = Needle[j]
    BY DEF Placed, OccursAt
  <1>. HIDE DEF claim, pos, n, c, v, e, last
  <1>8. RangeIsWhitespace(claim, n - 1, c)
    <2>1. ASSUME NEW k \in (n - 1 + 1)..(c - 1) PROVE claim[k + 1] \in CircuitBlank
      <3>1. k + 1 \in 1..(last + 1) /\ keyPos + k \in (keyPos + n)..(colon - 1)
            /\ keyPos + (k + 1) = keyPos + k + 1
        BY <1>1, <1>4
      <3>. QED
        BY <3>1, <1>3, <1>5
    <2>2. n - 1 \in Int /\ n - 1 + 1 \in Nat /\ n - 1 + 1 < Word /\ c < Word /\ c <= Len(claim)
      BY <1>1, <1>2, BufferLenType
    <2>. QED
      BY <1>1, <1>2, <2>1, <2>2, BlankRange
  <1>9. RangeIsWhitespace(claim, c, v)
    <2>1. ASSUME NEW k \in (c + 1)..(v - 1) PROVE claim[k + 1] \in CircuitBlank
      <3>1. k + 1 \in 1..(last + 1) /\ keyPos + k \in (colon + 1)..(value - 1)
            /\ keyPos + (k + 1) = keyPos + k + 1
        BY <1>1, <1>4
      <3>. QED
        BY <3>1, <1>3, <1>5
    <2>2. c \in Int /\ c + 1 \in Nat /\ c + 1 < Word /\ v < Word /\ v <= Len(claim)
      BY <1>1, <1>2, BufferLenType
    <2>. QED
      BY <1>1, <1>2, <2>1, <2>2, BlankRange
  <1>10. RangeIsWhitespace(claim, e, last)
    <2>1. ASSUME NEW k \in (e + 1)..(last - 1) PROVE claim[k + 1] \in CircuitBlank
      <3>1. k + 1 \in 1..(last + 1) /\ keyPos + k \in valueEnd..(p - 1)
            /\ keyPos + (k + 1) = keyPos + k + 1
        BY <1>1, <1>4
      <3>. QED
        BY <3>1, <1>3, <1>5
    <2>2. e \in Int /\ e + 1 \in Nat /\ e + 1 < Word /\ last < Word /\ last <= Len(claim)
      BY <1>1, <1>2, BufferLenType
    <2>. QED
      BY <1>1, <1>2, <2>1, <2>2, BlankRange
  <1>11. MultiplexerOk(claim, c) /\ Multiplexer(claim, c) = ":"
    <2>1. c + 1 \in 1..(last + 1) /\ keyPos + (c + 1) = colon + 1
      BY <1>1, <1>4
    <2>2. claim[c + 1] = ":"
      BY <2>1, <1>3, <1>6
    <2>3. c \in 0..(Len(claim) - 1)
      BY <1>1, <1>2
    <2>. QED
      BY <2>2, <2>3 DEF MultiplexerOk, Multiplexer
  <1>12. MultiplexerOk(claim, last) /\ Multiplexer(claim, last) \in {",", "}"}
    <2>1. last + 1 \in 1..(last + 1) /\ keyPos + (last + 1) = p + 1
      BY <1>1, <1>4
    <2>2. claim[last + 1] \in {",", "}"}
      BY <2>1, <1>3, <1>6
    <2>3. last \in 0..(Len(claim) - 1)
      BY <1>1, <1>2
    <2>. QED
      BY <2>2, <2>3 DEF MultiplexerOk, Multiplexer
  <1>13. ClaimFormatOk(claim, n, pos)
    BY <1>1, <1>8, <1>9, <1>10, <1>11, <1>12 DEF ClaimFormatOk
  <1>14. SliceFromStartOk(claim, n, n)
    BY <1>1, <1>2 DEF SliceFromStartOk, LtBitVectorOk
  <1>15. SliceFromStart(claim, n, n, "0") = Needle
    <2>1. \A i \in 1..n : claim[i] = Needle[i]
      BY <1>1, <1>3, <1>7
    <2>2. SliceFromStart(claim, n, n, "0") = [i \in 1..n |-> Needle[i]]
      BY <1>1, <2>1 DEF SliceFromStart
    <2>3. Needle = [i \in 1..n |-> Needle[i]]
      BY NeedleType DEF n
    <2>. QED
      BY <2>2, <2>3
  <1>. QED
    BY <1>13, <1>14, <1>15 DEF ClaimOk, n, claim, pos

\* A claim that fits its slice can be sliced.
LEMMA SlicesFit ==
    ASSUME Placed, maxLen \in Nat, p + 1 - keyPos <= maxLen, 1 <= valueEnd - value
    PROVE  Sliceable
  <1>. DEFINE pos == ClaimIndices  length == p + 1 - keyPos  n == valueEnd - value
  <1>1. keyPos \in Nat /\ value \in Nat /\ length \in Nat /\ n \in Nat /\ 1 <= length /\ 1 <= n
        /\ length <= maxLen /\ n <= maxLen /\ keyPos + length <= BufferLen /\ value + n <= BufferLen
        /\ value < Word /\ keyPos < Word /\ length < Word /\ n < Word
    BY RelativePlaces, BufferLenType DEF Placed
  <1>2. AllocatesOk(pos)
    BY RelativePlaces, BufferLenType DEF AllocatesOk, ClaimIndices, Placed
  <1>3. ValueOffset(pos) = value
    <2>1. pos.offset + pos.value_idx = value
      BY RelativePlaces DEF Placed
    <2>. QED
      BY <2>1, <1>1, BufferLenType, Unwrapped DEF ValueOffset
  <1>4. Len(Buffer) = BufferLen
    BY BufferType DEF Placed
  <1>5. pos.offset = keyPos /\ pos.claim_len = length /\ pos.value_len = n
    BY RelativePlaces
  <1>. HIDE DEF pos, length, n
  <1>6. ASSUME NEW i \in Nat, NEW m \in Nat, 1 <= m, m <= maxLen, i + m <= BufferLen
        PROVE SliceOk(Buffer, i, m, maxLen)
    <2>1. m < Word /\ i + m \in Nat /\ i + m < Word /\ i <= BufferLen - 1
      BY <1>6, BufferLenType
    <2>2. Decrement(m) = m - 1 /\ (i + m) % Word = i + m
      <3>1. Decrement(m) = m - 1
        BY <1>6, <2>1, DecrementBy
      <3>2. (i + m) % Word = i + m
        BY <2>1, BufferLenType, Unwrapped
      <3>. QED
        BY <3>1, <3>2
    <2>3. LtBitVectorOk(m, maxLen)
      BY <1>6 DEF LtBitVectorOk
    <2>. QED
      BY <1>4, <1>6, <2>1, <2>2, <2>3 DEF SliceOk
  <1>7. SliceOk(Buffer, keyPos, length, maxLen) /\ SliceOk(Buffer, value, n, maxLen)
    BY <1>1, <1>6
  <1>. QED
    BY <1>2, <1>3, <1>5, <1>7 DEF Sliceable, SlicesOk, pos

\* What can be sliced has a value, which fits.
LEMMA SliceableFits ==
    ASSUME Placed, maxLen \in Nat, Sliceable
    PROVE  1 <= valueEnd - value /\ valueEnd - value <= maxLen
  <1>1. LtBitVectorOk(valueEnd - value, maxLen)
    BY RelativePlaces DEF Sliceable, SlicesOk, SliceOk
  <1>. QED
    BY <1>1 DEF LtBitVectorOk, Placed

-----------------------------------------------------------------------------

\* At the end, the two sides agree on what was read.
LEMMA StagesAgree == TypeOK /\ LocInv /\ ReadInv => SidesAgree
  <1>. SUFFICES ASSUME TypeOK, LocInv, ReadInv, pc = "constrained", circuit.ok
               PROVE circuit.bytes = ValueBytesPadded(maxLen) /\ circuit.read = host.read
    BY DEF SidesAgree
  <1>1. kind \in Kinds /\ maxLen \in MaxLens /\ host = HostReads(kind, maxLen) /\ host.ok
    BY DEF ReadInv, HostRead, Answer, AfterRead
  <1>2. maxLen \in Nat \ {0}
    BY <1>1, ClaimsAssumption
  <1>3. Placed
    BY <1>1, HostAccepted, AcceptedIsPlaced DEF LocatedPcs
  <1>4. Sliceable /\ circuit = Constrained(TheClaim, TheValue)
    BY DEF ReadInv, Answer, Refused
  <1>5. circuit.bytes = TheValue /\ circuit.read = Reader(kind, TheValue)
    BY <1>4 DEF Constrained, Refused
  <1>6. 1 <= valueEnd - value /\ valueEnd - value <= maxLen
    BY <1>2, <1>3, <1>4, SliceableFits
  <1>7. TheValue = ValueBytesPadded(maxLen)
    BY <1>2, <1>3, <1>6, ValueSliced
  <1>8. Reader(kind, ValueBytesPadded(maxLen)) = HostReads(kind, maxLen).read
    BY <1>1, <1>2, <1>3, <1>6, ReadersAgree
  <1>. QED
    BY <1>1, <1>5, <1>7, <1>8

\* At the end, what the host accepted of a claim that fits has passed.
LEMMA StagesAccept == TypeOK /\ LocInv /\ ReadInv => CircuitAccepts
  <1>. SUFFICES ASSUME TypeOK, LocInv, ReadInv, pc = "constrained", GapsIn(CircuitBlank),
                       ClaimIndices.claim_len <= maxLen
               PROVE circuit.ok
    BY DEF CircuitAccepts
  <1>1. kind \in Kinds /\ maxLen \in MaxLens /\ host = HostReads(kind, maxLen) /\ host.ok
    BY DEF ReadInv, HostRead, Answer, AfterRead
  <1>2. maxLen \in Nat \ {0}
    BY <1>1, ClaimsAssumption
  <1>3. Placed
    BY <1>1, HostAccepted, AcceptedIsPlaced DEF LocatedPcs
  <1>4. p + 1 - keyPos <= maxLen
    BY DEF ClaimIndices
  <1>5. 1 <= valueEnd - value
    BY <1>1, <1>2, <1>3, AcceptedHasValue
  <1>6. valueEnd - value <= maxLen
    BY <1>2, <1>3, <1>4, RelativePlaces DEF Placed
  <1>7. Sliceable
    BY <1>2, <1>3, <1>4, <1>5, SlicesFit
  <1>8. circuit = Constrained(TheClaim, TheValue)
    BY <1>7 DEF ReadInv, Answer
  <1>9. ClaimOk(Needle, TheClaim, ClaimIndices)
    BY <1>2, <1>3, <1>4, FormatAccepted
  <1>10. ReaderOk(kind, TheValue)
    BY <1>1, <1>2, <1>3, <1>5, <1>6, ValueSliced, ReadersAgree
  <1>. QED
    BY <1>8, <1>9, <1>10 DEF Constrained

(* For every payload, key and buffer: what the circuit accepts of a claim  *)
(* it reads as the host does, byte for byte and with the same value.       *)
THEOREM SidesRead == Spec => []SidesAgree
  BY StagesAgree, ReadInit, ReadInvNext, LocInvInit, LocInvNext, TypeCorrect, PTL DEF Spec

(* And it accepts what the host accepts, when the gaps hold JSON's white   *)
(* space and the claim with its key and terminator fits the slice.         *)
THEOREM HonestClaimsPass == Spec => []CircuitAccepts
  BY StagesAccept, ReadInit, ReadInvNext, LocInvInit, LocInvNext, TypeCorrect, PTL DEF Spec

-----------------------------------------------------------------------------
(* The members of a document in its text. *)

\* A member stands in the text at s, and behind it a comma or the text's last brace.
StandsAt(text, s, m) ==
    /\ s + StopAt(m) < Len(text) /\ Pieces(text, s, m)
    /\ text[s + StopAt(m) + 1] \in Terminator
    /\ s + StopAt(m) + 1 = Len(text) \/ text[s + StopAt(m) + 1] = ","

\* The members stand one behind the other.
Laid(text, d, at) ==
    /\ at \in [1..Len(d) -> Nat]
    /\ \A n \in 1..Len(d) : StandsAt(text, at[n], d[n])
    /\ at[1] = 1 /\ text[1] = "{"
    /\ \A n \in 2..Len(d) : at[n] = at[n - 1] + StopAt(d[n - 1]) + 1
    /\ Len(text) = at[Len(d)] + StopAt(d[Len(d)]) + 1

\* What stands in a part of the text stands in the text.
LEMMA SpansOn ==
    ASSUME NEW text, NEW part, NEW at \in Nat, NEW s,
           Len(s) \in Nat, Len(part) \in Nat, Len(text) \in Nat,
           Spans(part, at, s), Len(part) <= Len(text),
           \A k \in 1..Len(part) : text[k] = part[k]
    PROVE  Spans(text, at, s)
  <1>n. PICK n \in Nat, l \in Nat : n = Len(s) /\ l = Len(part)
    OBVIOUS
  <1>1. at + n <= l /\ \A k \in 1..n : part[at + k] = s[k]
    BY <1>n DEF Spans
  <1>2. ASSUME NEW k \in 1..n PROVE text[at + k] = s[k]
    <2>1. at + k \in 1..l
      BY <1>1
    <2>. QED
      BY <1>n, <1>1, <2>1
  <1>3. at + n <= Len(text)
    BY <1>1, <1>n
  <1>. QED
    BY <1>n, <1>2, <1>3 DEF Spans

\* A document's text has its members one behind the other.
LEMMA TextLaid ==
    ASSUME NEW d \in Documents, Len(d) >= 1
    PROVE  \E at : Laid(TextOf(d), d, at)
  <1>n. PICK n \in Nat : n = Len(d) /\ n >= 1
    BY MembersAre
  <1>m. \A j \in 1..n : IsMember(d[j])
    BY <1>n, MembersAre
  <1>x. PICK text : text = TextOf(d)
    OBVIOUS
  <1>1. PICK f : AreTexts(f, d, n) /\ Closes(text, f[n])
    BY <1>n, <1>x, TextEnds
  <1>e. /\ text \in Seq(Chars) /\ f[n] \in Seq(Chars) /\ Len(text) = Len(f[n]) + 1
        /\ Continues(text, f[n])
    BY <1>1 DEF Closes
  <1>2. /\ \A j \in 0..n : f[j] \in Seq(Chars)
        /\ \A i, j \in 0..n : i <= j => Continues(f[j], f[i])
    BY <1>1, <1>m, TextGrows
  <1>3. ASSUME NEW i \in 0..n
        PROVE  /\ Len(f[i]) \in Nat /\ Len(f[i]) < Len(text)
               /\ \A k \in 1..Len(f[i]) : text[k] = f[i][k]
    <2>1. n \in 0..n /\ i <= n
      OBVIOUS
    <2>2. Continues(f[n], f[i])
      BY <1>2, <2>1
    <2>3. PICK a \in Nat, b \in Nat : a = Len(f[i]) /\ b = Len(f[n])
      BY <1>2, <2>1
    <2>4. a <= b /\ \A k \in 1..a : f[n][k] = f[i][k]
      BY <2>2, <2>3 DEF Continues
    <2>5. \A k \in 1..b : text[k] = f[n][k]
      BY <1>e, <2>3 DEF Continues
    <2>6. Len(text) = b + 1
      BY <1>e, <2>3
    <2>7. ASSUME NEW k \in 1..a PROVE text[k] = f[i][k]
      BY <2>4, <2>5
    <2>. QED
      BY <2>3, <2>4, <2>6, <2>7
  <1>4. ASSUME NEW i \in 1..n PROVE OneMore(f, d, i)
    <2>1. f[i - 1] \in Seq(Chars) /\ IsMember(d[i])
      BY <1>2, <1>m
    <2>. QED
      BY <1>1, <2>1, TextStep
  <1>a. PICK at : at = [i \in 1..n |-> Len(f[i - 1]) + 1]
    OBVIOUS
  <1>5. ASSUME NEW i \in 1..n
        PROVE  /\ at[i] \in Nat /\ at[i] = Len(f[i - 1]) + 1
               /\ at[i] + StopAt(d[i]) = Len(f[i]) /\ Len(f[i]) \in Nat
               /\ StopAt(d[i]) \in Nat
    <2>1. i - 1 \in 0..n /\ i \in 0..n
      OBVIOUS
    <2>2. Len(f[i - 1]) \in Nat /\ Len(f[i]) \in Nat
      BY <1>3, <2>1
    <2>3. Len(f[i]) = Len(f[i - 1]) + 1 + StopAt(d[i])
      BY <1>4 DEF OneMore
    <2>4. StopAt(d[i]) \in Nat
      BY <1>m, PlacesType
    <2>. QED
      BY <1>a, <2>2, <2>3, <2>4
  <1>6. ASSUME NEW i \in 1..n
        PROVE  StandsAt(text, at[i], d[i])
    <2>1. i \in 0..n /\ IsMember(d[i])
      BY <1>m
    <2>2. Spans(f[i], at[i], MemberText(d[i]))
      <3>1. OneMore(f, d, i) /\ at[i] = Len(f[i - 1]) + 1
        BY <1>4, <1>5
      <3>. QED
        BY <3>1 DEF OneMore
    <2>3. Spans(text, at[i], MemberText(d[i]))
      <3>1. Len(MemberText(d[i])) \in Nat
        <4>1. Len(MemberText(d[i])) = StopAt(d[i])
          BY <2>1, MemberPieces
        <4>. QED
          BY <1>5, <4>1
      <3>2. Len(f[i]) \in Nat /\ Len(f[i]) <= Len(text) /\ Len(text) \in Nat /\ at[i] \in Nat
        <4>1. Len(f[i]) \in Nat /\ Len(f[i]) < Len(text)
          BY <1>3, <2>1
        <4>2. Len(text) \in Nat
          BY <1>e
        <4>. QED
          BY <1>5, <4>1, <4>2
      <3>3. \A k \in 1..Len(f[i]) : text[k] = f[i][k]
        BY <1>3, <2>1
      <3>. QED
        BY <2>2, <3>1, <3>2, <3>3, SpansOn
    <2>4. Pieces(text, at[i], d[i])
      BY <1>e, <1>5, <2>1, <2>3, MemberPieces
    <2>5. at[i] + StopAt(d[i]) < Len(text)
      BY <1>3, <1>5, <2>1
    <2>6. CASE i = n
      <3>1. text[Len(f[i]) + 1] = "}" /\ Len(f[i]) + 1 = Len(text)
        BY <1>1, <2>6 DEF Closes
      <3>2. text[at[i] + StopAt(d[i]) + 1] = "}" /\ at[i] + StopAt(d[i]) + 1 = Len(text)
        BY <1>5, <3>1
      <3>. QED
        BY <2>4, <2>5, <3>2 DEF StandsAt, Terminator
    <2>7. CASE i # n
      <3>1. i + 1 \in 1..n /\ (i + 1) - 1 = i /\ i + 1 # 1 /\ i + 1 \in 0..n
        BY <2>7
      <3>a. OneMore(f, d, i + 1)
        BY <1>4, <3>1
      <3>2. f[i + 1][Len(f[i]) + 1] = ","
        BY <3>1, <3>a DEF OneMore
      <3>3. Len(f[i]) + 1 \in 1..Len(f[i + 1])
        <4>1. StopAt(d[i + 1]) \in Nat /\ Len(f[i]) \in Nat
          BY <1>5, <3>1
        <4>2. Len(f[i + 1]) = Len(f[i]) + 1 + StopAt(d[i + 1])
          BY <3>1, <3>a DEF OneMore
        <4>. QED
          BY <4>1, <4>2
      <3>4. text[Len(f[i]) + 1] = ","
        BY <1>3, <3>1, <3>2, <3>3
      <3>5. text[at[i] + StopAt(d[i]) + 1] = ","
        BY <1>5, <3>4
      <3>. QED
        BY <2>4, <2>5, <3>5 DEF StandsAt, Terminator
    <2>. QED
      BY <2>6, <2>7
  <1>7. at \in [1..n -> Nat]
    BY <1>5, <1>a
  <1>8. at[1] = 1 /\ text[1] = "{"
    <2>1. 1 \in 1..n /\ 1 - 1 = 0 /\ 0 \in 0..n /\ 1 \in 0..n
      BY <1>n
    <2>2. f[0] = <<>>
      BY <1>1, <2>1 DEF AreTexts
    <2>3. Len(f[0]) = 0
      BY <2>2
    <2>4. OneMore(f, d, 1)
      BY <1>4, <2>1
    <2>5. f[1][1] = "{"
      <3>1. f[1][Len(f[0]) + 1] = "{"
        BY <2>1, <2>4 DEF OneMore
      <3>2. Len(f[0]) + 1 = 1
        BY <2>3
      <3>. QED
        BY <3>1, <3>2
    <2>6. 1 \in 1..Len(f[1])
      <3>1. StopAt(d[1]) \in Nat
        BY <1>5, <2>1
      <3>2. Len(f[1]) = Len(f[0]) + 1 + StopAt(d[1])
        BY <2>1, <2>4 DEF OneMore
      <3>. QED
        BY <2>3, <3>1, <3>2
    <2>7. text[1] = "{"
      <3>1. text[1] = f[1][1]
        BY <1>3, <2>1, <2>6
      <3>. QED
        BY <2>5, <3>1
    <2>8. at[1] = 1
      <3>1. at[1] = Len(f[0]) + 1
        BY <1>5, <2>1
      <3>. QED
        BY <2>3, <3>1
    <2>. QED
      BY <2>7, <2>8
  <1>9. ASSUME NEW i \in 2..n PROVE at[i] = at[i - 1] + StopAt(d[i - 1]) + 1
    <2>1. i \in 1..n /\ i - 1 \in 1..n
      OBVIOUS
    <2>. QED
      BY <1>5, <2>1
  <1>10. Len(text) = at[n] + StopAt(d[n]) + 1
    <2>1. n \in 1..n
      BY <1>n
    <2>. QED
      BY <1>e, <1>5, <2>1
  <1>11. Laid(text, d, at)
    BY <1>n, <1>6, <1>7, <1>8, <1>9, <1>10 DEF Laid
  <1>. QED
    BY <1>x, <1>11

-----------------------------------------------------------------------------
\* Members come in their order, and every place of the text but the first is in one,
\* or just behind it.
StopOf(d, at, n) == at[n] + StopAt(d[n])

\* An earlier member stands at an earlier place.
LEMMA InOrder ==
    ASSUME NEW d \in Documents, NEW text, NEW at, Laid(text, d, at),
           NEW j \in 1..Len(d), NEW n \in 1..Len(d), j < n
    PROVE  at[j] < at[n]
  <1>l. PICK l \in Nat : l = Len(d)
    BY MembersAre
  <1>0. ASSUME NEW i \in 1..l PROVE at[i] \in Nat /\ StopAt(d[i]) \in Nat
    BY <1>l, MembersAre, PlacesType DEF Laid
  <1>. DEFINE T == {e \in Nat : j + 1 + e <= l => at[j] < at[j + 1 + e]}
  <1>1. ASSUME NEW e \in Nat, j + 1 + e <= l
        PROVE  at[j + 1 + e] = at[j + e] + StopAt(d[j + e]) + 1 /\ at[j + e] < at[j + 1 + e]
    <2>1. PICK i \in 2..l : i = j + 1 + e /\ i - 1 = j + e /\ i - 1 \in 1..l /\ i \in 1..l
      BY <1>1, <1>l
    <2>2. at[i] = at[i - 1] + StopAt(d[i - 1]) + 1
      BY <1>l DEF Laid
    <2>3. at[i - 1] \in Nat /\ StopAt(d[i - 1]) \in Nat
      BY <1>0, <2>1
    <2>. QED
      BY <2>1, <2>2, <2>3
  <1>2. 0 \in T
    <2>1. 0 \in Nat /\ j + 0 = j /\ j + 1 + 0 = j + 1
      OBVIOUS
    <2>. QED
      BY <1>1, <2>1
  <1>3. ASSUME NEW e \in Nat, e \in T PROVE e + 1 \in T
    <2>. SUFFICES ASSUME j + 1 + (e + 1) <= l PROVE at[j] < at[j + 1 + (e + 1)]
      OBVIOUS
    <2>1. at[j] < at[j + 1 + e]
      BY <1>3, <1>l
    <2>x. PICK x \in Nat : x = e + 1
      OBVIOUS
    <2>y. at[j + x] < at[j + 1 + x]
      BY <1>1, <2>x
    <2>2. at[j + 1 + e] < at[j + 1 + (e + 1)]
      <3>1. j + x = j + 1 + e /\ j + 1 + x = j + 1 + (e + 1)
        BY <2>x
      <3>. QED
        BY <2>y, <3>1
    <2>3. /\ j \in 1..l /\ j + 1 + e \in 1..l /\ j + 1 + (e + 1) \in 1..l
      BY <1>l
    <2>4. at[j] \in Nat /\ at[j + 1 + e] \in Nat /\ at[j + 1 + (e + 1)] \in Nat
      BY <1>0, <2>3
    <2>. QED
      BY <2>1, <2>2, <2>4
  <1>4. Nat \subseteq T
    <2>. HIDE DEF T
    <2>. QED
      BY <1>2, <1>3, Induct
  <1>5. n - j - 1 \in Nat /\ j + 1 + (n - j - 1) = n /\ n <= l
    BY <1>l
  <1>. QED
    BY <1>4, <1>5

\* Every place of the text between its braces is in a member, or just behind one.
LEMMA InMember ==
    ASSUME NEW d \in Documents, NEW text, NEW at, Laid(text, d, at),
           Len(d) >= 1, NEW i \in Nat, 1 <= i, i < Len(text)
    PROVE  \E n \in 1..Len(d) : at[n] <= i /\ i <= at[n] + StopAt(d[n])
  <1>l. PICK l \in Nat : l = Len(d)
    BY MembersAre
  <1>0. ASSUME NEW n \in 1..l PROVE at[n] \in Nat /\ StopAt(d[n]) \in Nat
    BY <1>l, MembersAre, PlacesType DEF Laid
  <1>1. l >= 1
    BY <1>l
  <1>. DEFINE T == {n \in 1..l : i <= at[n] + StopAt(d[n])}
  <1>2. l \in T
    <2>a. Len(text) = at[l] + StopAt(d[l]) + 1
      BY <1>l DEF Laid
    <2>1. Len(text) = at[l] + StopAt(d[l]) + 1 /\ l \in 1..l
      BY <2>a, <1>1
    <2>2. at[l] \in Nat /\ StopAt(d[l]) \in Nat
      BY <1>0, <2>1
    <2>. QED
      BY <2>1, <2>2
  <1>3. PICK n \in T : \A k \in T : n <= k
    <2>1. T \in SUBSET Nat /\ T # {}
      BY <1>2
    <2>. HIDE DEF T
    <2>. QED
      BY <2>1, Least
  <1>4. CASE n = 1
    <2>1. at[n] = 1
      BY <1>4 DEF Laid
    <2>. QED
      BY <1>3, <1>l, <2>1
  <1>5. CASE n # 1
    <2>1. n \in 2..l /\ n - 1 \in 1..l /\ n - 1 \notin T
      BY <1>3, <1>5
    <2>2. at[n] = at[n - 1] + StopAt(d[n - 1]) + 1
      BY <1>l, <2>1 DEF Laid
    <2>3. at[n - 1] \in Nat /\ StopAt(d[n - 1]) \in Nat
      BY <1>0, <2>1
    <2>4. ~(i <= at[n - 1] + StopAt(d[n - 1]))
      BY <2>1
    <2>5. at[n] <= i
      BY <2>2, <2>3, <2>4
    <2>. QED
      BY <1>3, <1>l, <2>5
  <1>. QED
    BY <1>4, <1>5

\* The needle is the key between two quotes.
LEMMA NeedleShape ==
    /\ Len(Key) \in Nat /\ Len(Needle) = Len(Key) + 2
    /\ Needle[1] = Quote /\ Needle[Len(Key) + 2] = Quote
    /\ \A j \in 1..Len(Key) : Needle[j + 1] = Key[j]
  <1>1. PICK q, k : q = <<Quote>> /\ k = Key
    OBVIOUS
  <1>2. q \in Seq(Chars) /\ k \in Seq(Chars) /\ Len(q) = 1 /\ q[1] = Quote
    BY <1>1, KeyAssumption
  <1>x. PICK x : x = q \o k
    OBVIOUS
  <1>3. /\ x \in Seq(Chars) /\ Len(x) = Len(q) + Len(k)
        /\ \A j \in 1..Len(q) : x[j] = q[j]
        /\ \A j \in 1..Len(k) : x[Len(q) + j] = k[j]
    BY <1>2, <1>x, Joined
  <1>y. PICK y : y = x \o q
    OBVIOUS
  <1>4. /\ y \in Seq(Chars) /\ Len(y) = Len(x) + Len(q)
        /\ \A j \in 1..Len(x) : y[j] = x[j]
        /\ \A j \in 1..Len(q) : y[Len(x) + j] = q[j]
    BY <1>2, <1>3, <1>y, Joined
  <1>5. Needle = y
    BY <1>1, <1>x, <1>y DEF Needle
  <1>n. PICK n \in Nat : n = Len(k)
    BY <1>2
  <1>6. Len(x) = n + 1 /\ Len(y) = n + 2
    BY <1>2, <1>3, <1>4, <1>n
  <1>7. x[1] = Quote
    BY <1>2, <1>3
  <1>8. y[1] = Quote
    BY <1>4, <1>6, <1>7
  <1>9. y[n + 2] = Quote
    <2>1. y[Len(x) + 1] = q[1]
      BY <1>2, <1>4
    <2>2. Len(x) + 1 = n + 2
      BY <1>6
    <2>. QED
      BY <1>2, <2>1, <2>2
  <1>10. ASSUME NEW j \in 1..n PROVE y[j + 1] = k[j]
    <2>1. x[1 + j] = k[j]
      BY <1>2, <1>3, <1>n
    <2>2. 1 + j = j + 1 /\ j + 1 \in 1..Len(x)
      BY <1>6
    <2>. QED
      BY <1>4, <2>1, <2>2
  <1>. QED
    BY <1>1, <1>5, <1>n, <1>6, <1>8, <1>9, <1>10

\* Where the needle occurs there are quotes around characters of the key.
Says(text, i) ==
    /\ i + Len(Key) + 2 <= Len(text)
    /\ text[i + 1] = Quote /\ text[i + Len(Key) + 2] = Quote
    /\ \A j \in 1..Len(Key) : text[i + 1 + j] = Key[j]

\* An occurrence of the needle is the key between quotes.
LEMMA NeedleSays == ASSUME NEW text, NEW i \in Nat PROVE OccursAt(text, i) <=> Says(text, i)
  <1>n. PICK n \in Nat : n = Len(Key)
    BY NeedleShape
  <1>1. Len(Needle) = n + 2 /\ Needle[1] = Quote /\ Needle[n + 2] = Quote
        /\ \A j \in 1..n : Needle[j + 1] = Key[j]
    BY <1>n, NeedleShape
  <1>2. ASSUME OccursAt(text, i) PROVE Says(text, i)
    <2>1. i + (n + 2) <= Len(text) /\ \A j \in 1..(n + 2) : text[i + j] = Needle[j]
      BY <1>1, <1>2 DEF OccursAt
    <2>2. text[i + 1] = Quote
      BY <1>1, <2>1
    <2>3. text[i + (n + 2)] = Quote
      BY <1>1, <2>1
    <2>4. ASSUME NEW j \in 1..n PROVE text[i + 1 + j] = Key[j]
      <3>1. j + 1 \in 1..(n + 2) /\ i + (j + 1) = i + 1 + j
        OBVIOUS
      <3>. QED
        BY <1>1, <2>1, <3>1
    <2>5. i + (n + 2) = i + n + 2
      OBVIOUS
    <2>. QED
      BY <1>n, <2>1, <2>2, <2>3, <2>4, <2>5 DEF Says
  <1>3. ASSUME Says(text, i) PROVE OccursAt(text, i)
    <2>1. /\ i + n + 2 <= Len(text) /\ text[i + 1] = Quote /\ text[i + n + 2] = Quote
          /\ \A j \in 1..n : text[i + 1 + j] = Key[j]
      BY <1>3, <1>n DEF Says
    <2>2. ASSUME NEW j \in 1..(n + 2) PROVE text[i + j] = Needle[j]
      <3>1. CASE j = 1
        BY <1>1, <2>1, <3>1
      <3>2. CASE j = n + 2
        <4>1. i + j = i + n + 2
          BY <3>2
        <4>. QED
          BY <1>1, <2>1, <3>2, <4>1
      <3>3. CASE j # 1 /\ j # n + 2
        <4>1. PICK k \in 1..n : k = j - 1 /\ j = k + 1
          BY <3>3
        <4>2. i + 1 + k = i + j
          BY <4>1
        <4>. QED
          BY <1>1, <2>1, <4>1, <4>2
      <3>. QED
        BY <3>1, <3>2, <3>3
    <2>3. i + (n + 2) <= Len(text)
      BY <2>1
    <2>. QED
      BY <1>1, <2>2, <2>3 DEF OccursAt
  <1>. QED
    BY <1>2, <1>3

\* What stands between the value and the quotes of a member's key.
Lettered(text, s, m) ==
    /\ text[s + 1] = Quote /\ text[s + KeyEnd(m)] = Quote /\ text[s + ColonAt(m) + 1] = ":"
    /\ text[s + StopAt(m) + 1] \in Terminator
    /\ \A k \in (s + 2)..(s + KeyEnd(m) - 1) : text[k] # Quote
    /\ \A k \in (s + KeyEnd(m) + 1)..(s + ColonAt(m)) : text[k] \in Blank
    /\ \A k \in (s + ColonAt(m) + 2)..(s + ValueAt(m)) : text[k] \in Blank
    /\ \A k \in (s + EndAt(m) + 1)..(s + StopAt(m)) : text[k] \in Blank

\* These bytes stand at a member's places.
LEMMA MemberLettered ==
    ASSUME NEW text, NEW s \in Nat, NEW m, IsMember(m), StandsAt(text, s, m)
    PROVE  Lettered(text, s, m)
  <1>1. Pieces(text, s, m) /\ text[s + StopAt(m) + 1] \in Terminator
    BY DEF StandsAt
  <1>2. PICK k \in Nat, b \in Nat, a \in Nat, v \in Nat, e \in Nat :
           /\ k = Len(m.key) /\ b = Len(m.beforeColon) /\ a = Len(m.afterColon)
           /\ v = Len(m.value) /\ e = Len(m.afterValue)
    <2>1. /\ Len(m.key) \in Nat /\ Len(m.beforeColon) \in Nat /\ Len(m.afterColon) \in Nat
          /\ Len(m.value) \in Nat /\ Len(m.afterValue) \in Nat
      BY MemberTyped
    <2>. QED
      BY <2>1
  <1>3. PICK ke \in Nat, co \in Nat, va \in Nat, en \in Nat, st \in Nat :
           /\ ke = KeyEnd(m) /\ co = ColonAt(m) /\ va = ValueAt(m) /\ en = EndAt(m) /\ st = StopAt(m)
    BY PlacesType
  <1>4. ke = k + 2 /\ co = ke + b /\ va = co + 1 + a /\ en = va + v /\ st = en + e
    BY <1>2, <1>3 DEF KeyEnd, ColonAt, ValueAt, EndAt, StopAt
  <1>5. ASSUME NEW q \in (s + 2)..(s + ke - 1) PROVE text[q] # Quote
    <2>1. \A j \in 1..k : text[s + 1 + j] = m.key[j]
      BY <1>1, <1>2 DEF Pieces, Spans
    <2>2. \A j \in 1..k : m.key[j] # Quote
      BY <1>2 DEF IsMember
    <2>3. PICK j \in 1..k : q = s + 1 + j
      <3>1. q - s - 1 \in 1..k /\ q = s + 1 + (q - s - 1)
        BY <1>4
      <3>. QED
        BY <3>1
    <2>. QED
      BY <2>1, <2>2, <2>3
  <1>6. ASSUME NEW q \in (s + ke + 1)..(s + co) PROVE text[q] \in Blank
    <2>1. \A j \in 1..b : text[s + ke + j] = m.beforeColon[j]
      BY <1>1, <1>2, <1>3 DEF Pieces, Spans
    <2>2. \A j \in 1..b : m.beforeColon[j] \in Blank
      BY <1>2, MemberTyped
    <2>3. PICK j \in 1..b : q = s + ke + j
      <3>1. q - s - ke \in 1..b /\ q = s + ke + (q - s - ke)
        BY <1>4
      <3>. QED
        BY <3>1
    <2>. QED
      BY <2>1, <2>2, <2>3
  <1>7. ASSUME NEW q \in (s + co + 2)..(s + va) PROVE text[q] \in Blank
    <2>1. \A j \in 1..a : text[s + co + 1 + j] = m.afterColon[j]
      BY <1>1, <1>2, <1>3 DEF Pieces, Spans
    <2>2. \A j \in 1..a : m.afterColon[j] \in Blank
      BY <1>2, MemberTyped
    <2>3. PICK j \in 1..a : q = s + co + 1 + j
      <3>1. q - s - co - 1 \in 1..a /\ q = s + co + 1 + (q - s - co - 1)
        BY <1>4
      <3>. QED
        BY <3>1
    <2>. QED
      BY <2>1, <2>2, <2>3
  <1>8. ASSUME NEW q \in (s + en + 1)..(s + st) PROVE text[q] \in Blank
    <2>1. \A j \in 1..e : text[s + en + j] = m.afterValue[j]
      BY <1>1, <1>2, <1>3 DEF Pieces, Spans
    <2>2. \A j \in 1..e : m.afterValue[j] \in Blank
      BY <1>2, MemberTyped
    <2>3. PICK j \in 1..e : q = s + en + j
      <3>1. q - s - en \in 1..e /\ q = s + en + (q - s - en)
        BY <1>4
      <3>. QED
        BY <3>1
    <2>. QED
      BY <2>1, <2>2, <2>3
  <1>. QED
    BY <1>1, <1>3, <1>5, <1>6, <1>7, <1>8 DEF Lettered, Pieces

\* A member of the key's name is an occurrence, at its first quote.
LEMMA KeyOccurs ==
    ASSUME NEW text, NEW s \in Nat, NEW m, IsMember(m), StandsAt(text, s, m), m.key = Key,
           Len(text) \in Nat
    PROVE  OccursAt(text, s)
  <1>1. Pieces(text, s, m)
    BY DEF StandsAt
  <1>n. PICK n \in Nat : n = Len(Key) /\ KeyEnd(m) = n + 2
    BY NeedleShape DEF KeyEnd
  <1>2. text[s + 1] = Quote /\ text[s + (n + 2)] = Quote
    BY <1>1, <1>n DEF Pieces
  <1>3. \A j \in 1..n : text[s + 1 + j] = Key[j]
    BY <1>1, <1>n DEF Pieces, Spans
  <1>4. s + n + 2 <= Len(text) /\ s + (n + 2) = s + n + 2
    <2>1. s + StopAt(m) < Len(text)
      BY DEF StandsAt
    <2>2. KeyEnd(m) <= StopAt(m) /\ StopAt(m) \in Nat
      BY PlacesType
    <2>. QED
      BY <1>n, <2>1, <2>2
  <1>5. Says(text, s)
    BY <1>n, <1>2, <1>3, <1>4 DEF Says
  <1>. QED
    BY <1>5, NeedleSays

\* An occurrence at a member's first quote is its key.
LEMMA KeyIs ==
    ASSUME NEW text, NEW s \in Nat, NEW m, IsMember(m), StandsAt(text, s, m), Says(text, s)
    PROVE  m.key = Key
  <1>n. PICK n \in Nat, k \in Nat : n = Len(Key) /\ k = Len(m.key) /\ KeyEnd(m) = k + 2
    BY NeedleShape, MemberTyped DEF KeyEnd
  <1>1. /\ text[s + (k + 2)] = Quote
        /\ \A q \in (s + 2)..(s + (k + 2) - 1) : text[q] # Quote
    BY <1>n, MemberLettered DEF Lettered
  <1>2. /\ text[s + n + 2] = Quote
        /\ \A j \in 1..n : text[s + 1 + j] = Key[j]
    BY <1>n DEF Says
  <1>3. \A j \in 1..n : Key[j] # Quote
    BY <1>n, ClaimsAssumption
  <1>4. ~(n < k)
    <2>1. ASSUME n < k PROVE s + n + 2 \in (s + 2)..(s + (k + 2) - 1)
      BY <2>1
    <2>. QED
      BY <1>1, <1>2, <2>1
  <1>5. ~(k < n)
    <2>1. ASSUME k < n PROVE k + 1 \in 1..n /\ s + 1 + (k + 1) = s + (k + 2)
      BY <2>1
    <2>2. ASSUME k < n PROVE text[s + (k + 2)] = Key[k + 1] /\ Key[k + 1] # Quote
      BY <1>2, <1>3, <2>1, <2>2
    <2>. QED
      BY <1>1, <2>2
  <1>6. k = n
    BY <1>4, <1>5
  <1>7. \A j \in 1..k : text[s + 1 + j] = m.key[j]
    <2>1. Pieces(text, s, m)
      BY DEF StandsAt
    <2>. QED
      BY <1>n, <2>1 DEF Pieces, Spans
  <1>8. \A j \in 1..k : m.key[j] = Key[j]
    BY <1>2, <1>6, <1>7
  <1>9. PICK x \in Seq(Chars), y \in Seq(Chars) : x = m.key /\ y = Key
    BY MemberTyped, KeyAssumption
  <1>10. Len(x) = Len(y) /\ \A j \in 1..Len(x) : x[j] = y[j]
    BY <1>n, <1>6, <1>8, <1>9
  <1>11. x = y
    BY <1>10
  <1>. QED
    BY <1>9, <1>11

\* An occurrence within a member is its key or stands in its value.
LEMMA OccurrenceIs ==
    ASSUME NEW text, Len(text) \in Nat, NEW s \in Nat, NEW m, IsMember(m), StandsAt(text, s, m),
           NEW i \in Nat, s <= i, i <= s + StopAt(m), OccursAt(text, i)
    PROVE  \/ i = s /\ m.key = Key
           \/ \E o \in Occurrences(m.value) : i = s + ValueAt(m) + o
  <1>1. Says(text, i)
    BY NeedleSays
  <1>n. PICK n \in Nat : n = Len(Key)
    BY NeedleShape
  <1>2. /\ i + n + 2 <= Len(text) /\ text[i + 1] = Quote /\ text[i + n + 2] = Quote
        /\ \A j \in 1..n : text[i + 1 + j] = Key[j]
    BY <1>1, <1>n DEF Says
  <1>3. \A j \in 1..n : Key[j] # Quote /\ Key[j] # ":" /\ Key[j] # ","
    BY <1>n, ClaimsAssumption
  <1>4. ASSUME NEW q \in (i + 2)..(i + n + 1) PROVE text[q] # Quote /\ text[q] # ":" /\ text[q] # ","
    <2>1. PICK j \in 1..n : q = i + 1 + j
      <3>1. q - i - 1 \in 1..n /\ q = i + 1 + (q - i - 1)
        OBVIOUS
      <3>. QED
        BY <3>1
    <2>. QED
      BY <1>2, <1>3, <2>1
  <1>5. PICK ke \in Nat, co \in Nat, va \in Nat, en \in Nat, st \in Nat, v \in Nat :
           /\ ke = KeyEnd(m) /\ co = ColonAt(m) /\ va = ValueAt(m) /\ en = EndAt(m) /\ st = StopAt(m)
           /\ v = Len(m.value)
    BY PlacesType
  <1>6. 2 <= ke /\ ke <= co /\ co < va /\ va < en /\ en <= st /\ en = va + v
    BY <1>5, PlacesType
  <1>7. /\ text[s + ke] = Quote /\ text[s + co + 1] = ":" /\ text[s + st + 1] \in Terminator
        /\ \A k \in (s + 2)..(s + ke - 1) : text[k] # Quote
        /\ \A k \in (s + ke + 1)..(s + co) : text[k] \in Blank
        /\ \A k \in (s + co + 2)..(s + va) : text[k] \in Blank
        /\ \A k \in (s + en + 1)..(s + st) : text[k] \in Blank
    <2>1. Lettered(text, s, m)
      BY MemberLettered
    <2>. QED
      BY <1>5, <2>1 DEF Lettered
  <1>8. ASSUME NEW q, text[q] = Quote
        PROVE text[q] \notin Blank /\ text[q] \notin Terminator /\ text[q] # ":" /\ text[q] # ","
    BY <1>8, Marks DEF Terminator
  <1>9. CASE i = s
    BY <1>1, <1>9, KeyIs
  <1>10. CASE s < i /\ i < s + ke - 1
    <2>1. i + 1 \in (s + 2)..(s + ke - 1)
      BY <1>10
    <2>. QED
      BY <1>2, <1>7, <2>1
  <1>11. CASE i = s + ke - 1
    <2>1. CASE i + n + 2 <= s + co
      <3>1. i + n + 2 \in (s + ke + 1)..(s + co)
        BY <1>11, <2>1
      <3>. QED
        BY <1>2, <1>7, <1>8, <3>1
    <2>2. CASE i + n + 2 = s + co + 1
      BY <1>2, <1>7, <1>8, <2>2
    <2>3. CASE s + co + 1 < i + n + 2
      <3>1. s + co + 1 \in (i + 2)..(i + n + 1)
        BY <1>6, <1>11, <2>3
      <3>. QED
        BY <1>4, <1>7, <3>1
    <2>4. i + n + 2 <= s + co \/ i + n + 2 = s + co + 1 \/ s + co + 1 < i + n + 2
      OBVIOUS
    <2>. QED
      BY <2>1, <2>2, <2>3, <2>4
  <1>12. CASE s + ke <= i /\ i < s + va
    <2>1. i + 1 \in (s + ke + 1)..(s + co) \/ i + 1 = s + co + 1 \/ i + 1 \in (s + co + 2)..(s + va)
      BY <1>6, <1>12
    <2>2. text[i + 1] \notin Blank /\ text[i + 1] # ":"
      BY <1>2, <1>8
    <2>. QED
      BY <1>7, <2>1, <2>2
  <1>13. CASE s + va <= i /\ i < s + en
    <2>o. PICK o \in Nat : i = s + va + o
      <3>1. i - s - va \in Nat /\ i = s + va + (i - s - va)
        BY <1>13
      <3>. QED
        BY <3>1
    <2>1. CASE o + n + 2 <= v
      <3>1. \A j \in 1..v : text[s + va + j] = m.value[j]
        <4>1. Pieces(text, s, m)
          BY DEF StandsAt
        <4>. QED
          BY <1>5, <4>1 DEF Pieces, Spans
      <3>2. m.value[o + 1] = Quote
        <4>1. o + 1 \in 1..v /\ s + va + (o + 1) = i + 1
          BY <2>o, <2>1
        <4>. QED
          BY <1>2, <3>1, <4>1
      <3>3. m.value[o + n + 2] = Quote
        <4>1. o + n + 2 \in 1..v /\ s + va + (o + n + 2) = i + n + 2
          BY <2>o, <2>1
        <4>. QED
          BY <1>2, <3>1, <4>1
      <3>4. ASSUME NEW j \in 1..n PROVE m.value[o + 1 + j] = Key[j]
        <4>1. o + 1 + j \in 1..v /\ s + va + (o + 1 + j) = i + 1 + j
          BY <2>o, <2>1
        <4>. QED
          BY <1>2, <3>1, <4>1
      <3>5. Says(m.value, o)
        BY <1>n, <1>5, <2>1, <3>2, <3>3, <3>4 DEF Says
      <3>6. OccursAt(m.value, o) /\ o \in 0..v
        BY <2>1, <3>5, NeedleSays
      <3>7. o \in Occurrences(m.value)
        BY <1>5, <3>6 DEF Occurrences
      <3>. QED
        BY <1>5, <2>o, <3>7
    <2>2. CASE o + n + 2 > v
      <3>1. s + en < i + n + 2
        BY <1>6, <2>o, <2>2
      <3>2. CASE i + n + 2 <= s + st
        <4>1. i + n + 2 \in (s + en + 1)..(s + st)
          BY <3>1, <3>2
        <4>. QED
          BY <1>2, <1>7, <1>8, <4>1
      <3>3. CASE i + n + 2 = s + st + 1
        BY <1>2, <1>7, <1>8, <3>3
      <3>4. CASE s + st + 1 < i + n + 2
        <4>1. s + st + 1 # Len(text)
          BY <1>2, <3>4
        <4>2. text[s + st + 1] = ","
          BY <1>5, <4>1 DEF StandsAt
        <4>3. s + st + 1 \in (i + 2)..(i + n + 1)
          BY <1>6, <1>13, <3>4
        <4>. QED
          BY <1>4, <4>2, <4>3
      <3>5. i + n + 2 <= s + st \/ i + n + 2 = s + st + 1 \/ s + st + 1 < i + n + 2
        OBVIOUS
      <3>. QED
        BY <3>2, <3>3, <3>4, <3>5
    <2>. QED
      BY <2>1, <2>2
  <1>14. CASE s + en <= i
    <2>1. i + 1 \in (s + en + 1)..(s + st) \/ i + 1 = s + st + 1
      <3>1. i <= s + st
        BY <1>5
      <3>. QED
        BY <1>14, <3>1
    <2>2. text[i + 1] \notin Blank /\ text[i + 1] \notin Terminator
      BY <1>2, <1>8
    <2>. QED
      BY <1>7, <2>1, <2>2
  <1>15. \/ i = s \/ (s < i /\ i < s + ke - 1) \/ i = s + ke - 1
         \/ (s + ke <= i /\ i < s + va) \/ (s + va <= i /\ i < s + en) \/ s + en <= i
    BY <1>6
  <1>. QED
    BY <1>9, <1>10, <1>11, <1>12, <1>13, <1>14, <1>15

\* n backslashes, and no more, end before the i-th place.
Backslashes(s, i, n) ==
    /\ n \in 0..(i - 1) /\ \A j \in (i - n)..(i - 1) : s[j] = Backslash
    /\ n < i - 1 => s[i - n - 1] # Backslash

\* A byte is escaped by an odd number of backslashes.
LEMMA EscapedIs ==
    ASSUME NEW s, NEW i
    PROVE  Escaped(s, i) <=> \E n \in 0..(i - 1) : n % 2 = 1 /\ Backslashes(s, i, n)
  BY DEF Escaped, Backslashes

\* There is one such number.
LEMMA BackslashesCounted ==
    ASSUME NEW s, NEW i \in Nat, 1 <= i
    PROVE  \E n \in 0..(i - 1) : Backslashes(s, i, n)
  <1>. DEFINE T == {n \in 0..(i - 1) : n < i - 1 => s[i - n - 1] # Backslash}
  <1>1. i - 1 \in T
    OBVIOUS
  <1>2. PICK n \in T : \A k \in T : n <= k
    <2>1. T \in SUBSET Nat /\ T # {}
      BY <1>1
    <2>. HIDE DEF T
    <2>. QED
      BY <2>1, Least
  <1>3. ASSUME NEW j \in (i - n)..(i - 1) PROVE s[j] = Backslash
    <2>1. PICK k \in 0..(i - 1) : j = i - k - 1 /\ k < n
      <3>1. i - j - 1 \in 0..(i - 1) /\ j = i - (i - j - 1) - 1 /\ i - j - 1 < n
        OBVIOUS
      <3>. QED
        BY <3>1
    <2>2. k \notin T
      BY <1>2, <2>1
    <2>3. n \in 0..(i - 1)
      OBVIOUS
    <2>. QED
      BY <2>1, <2>2, <2>3
  <1>. QED
    BY <1>3 DEF Backslashes

\* Not two different numbers of backslashes end at a place.
LEMMA BackslashesOnce ==
    ASSUME NEW s, NEW i \in Nat, NEW n, NEW k, Backslashes(s, i, n), Backslashes(s, i, k), n < k
    PROVE  FALSE
  <1>1. n \in 0..(i - 1) /\ k \in 0..(i - 1)
    BY DEF Backslashes
  <1>2. i - n - 1 \in (i - k)..(i - 1) /\ n < i - 1
    BY <1>1
  <1>. QED
    BY <1>2 DEF Backslashes

\* A byte is escaped by a backslash that is not escaped itself.
EscapedBy(s, i) == Escaped(s, i + 1) <=> s[i] = Backslash /\ ~Escaped(s, i)
\* Whether the next byte is escaped is known from this one.
LEMMA EscapedNext == ASSUME NEW s, NEW i \in Nat, 1 <= i PROVE EscapedBy(s, i)
  <1>1. ASSUME Escaped(s, i + 1) PROVE s[i] = Backslash /\ ~Escaped(s, i)
    <2>1. PICK n \in 0..i : n % 2 = 1 /\ Backslashes(s, i + 1, n)
      BY <1>1, EscapedIs
    <2>2. PICK h \in Nat : h = n - 1 /\ h \in 0..(i - 1) /\ h % 2 = 0 /\ n = h + 1
      BY <2>1
    <2>3. s[i] = Backslash
      BY <2>1, <2>2 DEF Backslashes
    <2>4. Backslashes(s, i, h)
      <3>1. \A j \in (i - h)..i : s[j] = Backslash
        BY <2>1, <2>2 DEF Backslashes
      <3>2. h < i - 1 => s[i - h - 1] # Backslash
        BY <2>1, <2>2 DEF Backslashes
      <3>. QED
        BY <2>2, <3>1, <3>2 DEF Backslashes
    <2>5. ASSUME Escaped(s, i) PROVE FALSE
      <3>1. PICK k \in 0..(i - 1) : k % 2 = 1 /\ Backslashes(s, i, k)
        BY <2>5, EscapedIs
      <3>2. h # k
        BY <2>2, <3>1
      <3>3. h < k \/ k < h
        BY <3>2
      <3>. QED
        BY <2>4, <3>1, <3>3, BackslashesOnce
    <2>. QED
      BY <2>3, <2>5
  <1>2. ASSUME s[i] = Backslash, ~Escaped(s, i) PROVE Escaped(s, i + 1)
    <2>1. PICK n \in 0..(i - 1) : Backslashes(s, i, n)
      BY BackslashesCounted
    <2>2. n % 2 # 1
      BY <1>2, <2>1, EscapedIs
    <2>3. (n + 1) % 2 = 1 /\ n + 1 \in 0..((i + 1) - 1)
      BY <2>2
    <2>4. Backslashes(s, i + 1, n + 1)
      <3>1. ASSUME NEW j \in ((i + 1) - (n + 1))..((i + 1) - 1) PROVE s[j] = Backslash
        <4>1. j = i \/ j \in (i - n)..(i - 1)
          OBVIOUS
        <4>. QED
          BY <1>2, <2>1, <4>1 DEF Backslashes
      <3>2. n + 1 < (i + 1) - 1 => s[(i + 1) - (n + 1) - 1] # Backslash
        BY <2>1 DEF Backslashes
      <3>. QED
        BY <2>3, <3>1, <3>2 DEF Backslashes
    <2>. QED
      BY <2>3, <2>4, EscapedIs
  <1>. QED
    BY <1>1, <1>2 DEF EscapedBy

\* Nothing escapes a first byte.
LEMMA EscapedFirst == ASSUME NEW s PROVE ~Escaped(s, 1)
  BY DEF Escaped

-----------------------------------------------------------------------------
\* The places before the i-th are finitely many, and one more before the next.
LEMMA OneMoreCounted ==
    ASSUME NEW T, NEW U, NEW i \in Nat, T \subseteq 1..(i - 1),
           U = T \/ U = T \cup {i}
    PROVE  /\ Cardinality(T) \in Nat
           /\ Cardinality(U) = IF i \in U THEN Cardinality(T) + 1 ELSE Cardinality(T)
  <1>1. IsFiniteSet(T)
    <2>1. IsFiniteSet(1..(i - 1))
      BY FS_Interval
    <2>. QED
      BY <2>1, FS_Subset
  <1>2. Cardinality(T) \in Nat
    BY <1>1, FS_CardinalityType
  <1>3. i \notin T
    OBVIOUS
  <1>4. Cardinality(T \cup {i}) = Cardinality(T) + 1
    BY <1>1, <1>3, FS_AddElement
  <1>. QED
    BY <1>2, <1>3, <1>4

\* A quote that is not escaped turns the inside of strings into the outside, and back.
Turns(s, i) == WithinString(s, i + 1) <=> (WithinString(s, i) <=> ~(s[i] = Quote /\ ~Escaped(s, i)))
\* Whether the next byte is within a string is known from this one.
LEMMA WithinNext == ASSUME NEW s, NEW i \in Nat, 1 <= i PROVE Turns(s, i)
  <1>. DEFINE T == QuotesBefore(s, i)
              U == QuotesBefore(s, i + 1)
  <1>1. T \subseteq 1..(i - 1)
    BY DEF QuotesBefore
  <1>2. CASE s[i] = Quote /\ ~Escaped(s, i)
    <2>1. U = T \cup {i}
      BY <1>2 DEF QuotesBefore
    <2>. HIDE DEF T, U
    <2>2. Cardinality(T) \in Nat /\ Cardinality(U) = Cardinality(T) + 1
      BY <1>1, <2>1, OneMoreCounted
    <2>3. Cardinality(U) % 2 = 1 <=> ~(Cardinality(T) % 2 = 1)
      BY <2>2
    <2>. QED
      BY <1>2, <2>3 DEF Turns, WithinString, T, U
  <1>3. CASE ~(s[i] = Quote /\ ~Escaped(s, i))
    <2>1. U = T
      BY <1>3 DEF QuotesBefore
    <2>. QED
      BY <1>3, <2>1 DEF Turns, WithinString
  <1>. QED
    BY <1>2, <1>3

\* A first byte is in no string.
LEMMA WithinFirst == ASSUME NEW s PROVE ~WithinString(s, 1)
  <1>1. QuotesBefore(s, 1) = {}
    BY DEF QuotesBefore
  <1>2. Cardinality({}) = 0
    BY FS_EmptySet
  <1>. QED
    BY <1>1, <1>2 DEF WithinString

\* A bracket outside strings opens or closes.
LEMMA OutsideNext ==
    ASSUME NEW s, NEW c, NEW i \in Nat, 1 <= i
    PROVE  /\ Cardinality(Outside(s, c, i)) \in Nat
           /\ Cardinality(Outside(s, c, i + 1)) =
                IF s[i] = c /\ ~WithinString(s, i) THEN Cardinality(Outside(s, c, i)) + 1
                ELSE Cardinality(Outside(s, c, i))
  <1>. DEFINE T == Outside(s, c, i)
              U == Outside(s, c, i + 1)
  <1>1. T \subseteq 1..(i - 1)
    BY DEF Outside
  <1>2. CASE s[i] = c /\ ~WithinString(s, i)
    <2>1. U = T \cup {i}
      BY <1>2 DEF Outside
    <2>2. Cardinality(T) \in Nat /\ Cardinality(U) = Cardinality(T) + 1
      <3>. HIDE DEF T, U
      <3>. QED
        BY <1>1, <2>1, OneMoreCounted
    <2>. QED
      BY <1>2, <2>2
  <1>3. CASE ~(s[i] = c /\ ~WithinString(s, i))
    <2>1. U = T
      BY <1>3 DEF Outside
    <2>2. Cardinality(T) \in Nat
      <3>. HIDE DEF T, U
      <3>. QED
        BY <1>1, <2>1, OneMoreCounted
    <2>. QED
      BY <1>3, <2>1, <2>2
  <1>. QED
    BY <1>2, <1>3

Nests(s, open, close, i) ==
    /\ Open(s, open, close, i) \in Int
    /\ Open(s, open, close, i + 1) =
         IF WithinString(s, i) THEN Open(s, open, close, i)
         ELSE IF s[i] = open THEN Open(s, open, close, i) + 1
         ELSE IF s[i] = close THEN Open(s, open, close, i) - 1
         ELSE Open(s, open, close, i)
\* The depth at the next byte is known from this one.
LEMMA OpenNext ==
    ASSUME NEW s, NEW open, NEW close, open # close, NEW i \in Nat, 1 <= i
    PROVE  Nests(s, open, close, i)
  <1>1. PICK o \in Nat, c \in Nat :
           o = Cardinality(Outside(s, open, i)) /\ c = Cardinality(Outside(s, close, i))
    BY OutsideNext
  <1>2. Cardinality(Outside(s, open, i + 1)) =
           IF s[i] = open /\ ~WithinString(s, i) THEN o + 1 ELSE o
    BY <1>1, OutsideNext
  <1>3. Cardinality(Outside(s, close, i + 1)) =
           IF s[i] = close /\ ~WithinString(s, i) THEN c + 1 ELSE c
    BY <1>1, OutsideNext
  <1>4. Open(s, open, close, i) = o - c
    BY <1>1 DEF Open
  <1>5. CASE WithinString(s, i)
    <2>1. Open(s, open, close, i + 1) = o - c
      BY <1>2, <1>3, <1>5 DEF Open
    <2>. QED
      BY <1>4, <1>5, <2>1 DEF Nests
  <1>6. CASE ~WithinString(s, i) /\ s[i] = open
    <2>1. Open(s, open, close, i + 1) = (o + 1) - c
      BY <1>2, <1>3, <1>6 DEF Open
    <2>. QED
      BY <1>4, <1>6, <2>1 DEF Nests
  <1>7. CASE ~WithinString(s, i) /\ s[i] # open /\ s[i] = close
    <2>1. Open(s, open, close, i + 1) = o - (c + 1)
      BY <1>2, <1>3, <1>7 DEF Open
    <2>. QED
      BY <1>4, <1>7, <2>1 DEF Nests
  <1>8. CASE ~WithinString(s, i) /\ s[i] # open /\ s[i] # close
    <2>1. Open(s, open, close, i + 1) = o - c
      BY <1>2, <1>3, <1>8 DEF Open
    <2>. QED
      BY <1>4, <1>8, <2>1 DEF Nests
  <1>. QED
    BY <1>5, <1>6, <1>7, <1>8

\* Before the first byte nothing is open.
LEMMA OpenFirst == ASSUME NEW s, NEW open, NEW close PROVE Open(s, open, close, 1) = 0
  <1>1. Outside(s, open, 1) = {} /\ Outside(s, close, 1) = {}
    BY DEF Outside
  <1>2. Cardinality({}) = 0
    BY FS_EmptySet
  <1>. QED
    BY <1>1, <1>2 DEF Open

\* Quotes, backslashes, brackets and blanks are different bytes.
LEMMA Signs ==
    /\ Quote # Backslash /\ \A c \in Blank : c \notin {Quote, Backslash, ":", "[", "]", "{", "}"}
    /\ Backslash \notin {"[", "]", "{", "}"} /\ Quote \notin {"[", "]", "{", "}"}
  BY DEF Quote, Backslash, Blank, Space, FormFeed

\* Within a string value the scan stops at no escaped quote.
StringGoes(v, i) ==
    IF v[i] = Backslash THEN i + 2 <= Len(v) /\ ~Escaped(v, i + 2)
    ELSE i + 1 <= Len(v) /\ ~Escaped(v, i + 1)
\* A round of the scan of a string does not pass its closing quote.
LEMMA StringStep ==
    ASSUME NEW v \in Seq(Chars), IsString(v), NEW i \in 2..Len(v), ~Escaped(v, i), v[i] # Quote
    PROVE  StringGoes(v, i)
  <1>n. PICK n \in Nat : n = Len(v)
    OBVIOUS
  <1>1. \A k \in 2..n : v[k] = Quote /\ ~Escaped(v, k) <=> k = n
    BY <1>n DEF IsString
  <1>2. i \in 2..n /\ n \in 2..n
    BY <1>n
  <1>3. i # n
    BY <1>1, <1>2
  <1>4. v[n] = Quote /\ ~Escaped(v, n)
    BY <1>1, <1>2
  <1>5. i + 1 \in 2..n
    BY <1>2, <1>3
  <1>6. EscapedBy(v, i)
    BY <1>2, EscapedNext
  <1>7. CASE v[i] = Backslash
    <2>1. Escaped(v, i + 1)
      BY <1>6, <1>7 DEF EscapedBy
    <2>2. i + 1 # n
      BY <1>4, <2>1
    <2>3. i + 2 <= n
      BY <1>5, <2>2
    <2>4. EscapedBy(v, i + 1)
      BY <1>2, EscapedNext
    <2>5. ~Escaped(v, (i + 1) + 1)
      BY <2>1, <2>4 DEF EscapedBy
    <2>6. (i + 1) + 1 = i + 2
      BY <1>2
    <2>. QED
      BY <1>7, <1>n, <2>3, <2>5, <2>6 DEF StringGoes
  <1>8. CASE v[i] # Backslash
    <2>1. ~Escaped(v, i + 1)
      BY <1>6, <1>8 DEF EscapedBy
    <2>. QED
      BY <1>5, <1>8, <1>n, <2>1 DEF StringGoes
  <1>. QED
    BY <1>7, <1>8

\* The opening quote escapes nothing.
LEMMA StringBegins ==
    ASSUME NEW v, IsString(v)
    PROVE  ~Escaped(v, 2)
  <1>1. EscapedBy(v, 1)
    BY EscapedNext
  <1>2. v[1] # Backslash
    BY Signs DEF IsString
  <1>3. ~Escaped(v, 1 + 1)
    BY <1>1, <1>2 DEF EscapedBy
  <1>4. 1 + 1 = 2
    OBVIOUS
  <1>. QED
    BY <1>3, <1>4

\* The scan of a bare value is at its i-th byte, in this nesting.
Reads(v, i, str, open, braced) ==
    /\ ~Escaped(v, i) /\ (str <=> WithinString(v, i))
    /\ open = Open(v, "[", "]", i) /\ braced = Open(v, "{", "}", i)
Nest(str, n, c, open, close) ==
    IF str THEN n ELSE IF c = open THEN n + 1 ELSE IF c = close THEN Less(n) ELSE n

\* The scan of a bare value begins outside strings, arrays and objects.
LEMMA ReadsFirst == ASSUME NEW v PROVE Reads(v, 1, FALSE, 0, 0)
  BY EscapedFirst, WithinFirst, OpenFirst DEF Reads

\* In a bare value no bracket closes that is not open.
LEMMA NotBelow ==
    ASSUME NEW v, Len(v) \in Nat, IsBare(v), NEW i \in 1..(Len(v) + 1)
    PROVE  Open(v, "[", "]", i) >= 0 /\ Open(v, "{", "}", i) >= 0
  <1>1. CASE i \in 1..Len(v)
    BY <1>1, Zenon DEF IsBare
  <1>2. CASE i = Len(v) + 1
    <2>1. Open(v, "[", "]", i) = 0 /\ Open(v, "{", "}", i) = 0
      BY <1>2, Zenon DEF IsBare, AtTop
    <2>2. \A z : z = 0 => z >= 0
      OBVIOUS
    <2>. QED
      BY <2>1, <2>2, Zenon
  <1>3. i \in 1..Len(v) \/ i = Len(v) + 1
    OBVIOUS
  <1>. QED
    BY <1>1, <1>2, <1>3, Zenon

\* The scan's counters count the depth, where none goes below zero.
LEMMA NestIs ==
    ASSUME NEW v, NEW open, NEW close, open # close, NEW i \in Nat, 1 <= i,
           NEW str, str <=> WithinString(v, i), Open(v, open, close, i) >= 0,
           Open(v, open, close, i + 1) >= 0
    PROVE  Nest(str, Open(v, open, close, i), v[i], open, close) = Open(v, open, close, i + 1)
  <1>1. PICK o, q : o = Open(v, open, close, i) /\ q = Open(v, open, close, i + 1)
    OBVIOUS
  <1>2. /\ o \in Int
        /\ q = IF WithinString(v, i) THEN o ELSE IF v[i] = open THEN o + 1
               ELSE IF v[i] = close THEN o - 1 ELSE o
    BY <1>1, OpenNext DEF Nests
  <1>3. o \in Nat
    BY <1>1, <1>2
  <1>4. CASE str
    BY <1>1, <1>2, <1>4 DEF Nest
  <1>5. CASE ~str /\ v[i] = open
    BY <1>1, <1>2, <1>5 DEF Nest
  <1>6. CASE ~str /\ v[i] # open /\ v[i] = close
    <2>1. q = o - 1 /\ q >= 0
      BY <1>1, <1>2, <1>6
    <2>2. Less(o) = o - 1
      BY <1>3, <2>1 DEF Less
    <2>. QED
      BY <1>1, <1>6, <2>1, <2>2 DEF Nest
  <1>7. CASE ~str /\ v[i] # open /\ v[i] # close
    BY <1>1, <1>2, <1>7 DEF Nest
  <1>. QED
    BY <1>4, <1>5, <1>6, <1>7

\* One round of the scan of a bare value, an escape taking two bytes.
BareGoes(v, i, str, open, braced) ==
    LET turned == IF v[i] = Quote THEN ~str ELSE str
        nested == Nest(str, open, v[i], "[", "]")
        inBraces == Nest(str, braced, v[i], "{", "}")
    IN IF str /\ v[i] = Backslash
       THEN i + 2 <= Len(v) + 1 /\ Reads(v, i + 2, turned, nested, inBraces)
       ELSE Reads(v, i + 1, turned, nested, inBraces)
\* A round of the scan of a bare value keeps the nesting that RFC 8259 gives it.
LEMMA BareStep ==
    ASSUME NEW v \in Seq(Chars), IsBare(v), NEW i \in 1..Len(v),
           NEW str \in BOOLEAN, NEW open, NEW braced, Reads(v, i, str, open, braced)
    PROVE  BareGoes(v, i, str, open, braced)
  <1>n. PICK n \in Nat : n = Len(v)
    OBVIOUS
  <1>i. i \in 1..n /\ i \in Nat /\ 1 <= i /\ i + 1 \in Nat /\ 1 <= i + 1 /\ i + 1 \in 1..(n + 1)
    BY <1>n
  <1>0. /\ ~Escaped(v, i) /\ (str <=> WithinString(v, i))
        /\ open = Open(v, "[", "]", i) /\ braced = Open(v, "{", "}", i)
    BY DEF Reads
  <1>1. EscapedBy(v, i) /\ Turns(v, i)
    BY <1>i, EscapedNext, WithinNext
  <1>t. PICK turned \in BOOLEAN : turned = IF v[i] = Quote THEN ~str ELSE str
    OBVIOUS
  <1>2. turned <=> WithinString(v, i + 1)
    <2>1. CASE v[i] = Quote
      BY <1>0, <1>1, <1>t, <2>1, Zenon DEF Turns
    <2>2. CASE v[i] # Quote
      BY <1>0, <1>1, <1>t, <2>2, Zenon DEF Turns
    <2>. QED
      BY <2>1, <2>2
  <1>3. /\ Nest(str, open, v[i], "[", "]") = Open(v, "[", "]", i + 1)
        /\ Nest(str, braced, v[i], "{", "}") = Open(v, "{", "}", i + 1)
    <2>1. /\ Open(v, "[", "]", i) >= 0 /\ Open(v, "{", "}", i) >= 0
          /\ Open(v, "[", "]", i + 1) >= 0 /\ Open(v, "{", "}", i + 1) >= 0
      <3>1. i \in 1..(Len(v) + 1) /\ i + 1 \in 1..(Len(v) + 1) /\ Len(v) \in Nat
        OBVIOUS
      <3>. QED
        BY <3>1, NotBelow
    <2>2. "[" # "]" /\ "{" # "}"
      OBVIOUS
    <2>3. Nest(str, Open(v, "[", "]", i), v[i], "[", "]") = Open(v, "[", "]", i + 1)
      BY <1>0, <1>i, <2>1, <2>2, NestIs
    <2>4. Nest(str, Open(v, "{", "}", i), v[i], "{", "}") = Open(v, "{", "}", i + 1)
      BY <1>0, <1>i, <2>1, <2>2, NestIs
    <2>. QED
      BY <1>0, <2>3, <2>4
  <1>g. PICK g, h : g = Nest(str, open, v[i], "[", "]") /\ h = Nest(str, braced, v[i], "{", "}")
    OBVIOUS
  <1>4. CASE str /\ v[i] = Backslash
    <2>1. Escaped(v, i + 1)
      BY <1>0, <1>1, <1>4 DEF EscapedBy
    <2>2. WithinString(v, i + 1) /\ turned
      <3>1. v[i] # Quote
        BY <1>4, Signs
      <3>. QED
        BY <1>2, <1>4, <1>t, <3>1
    <2>3. i # n
      <3>1. AtTop(v, n + 1)
        BY <1>n DEF IsBare
      <3>. QED
        BY <2>2, <3>1 DEF AtTop
    <2>4. i + 1 \in 1..n
      BY <1>i, <2>3
    <2>5. EscapedBy(v, i + 1) /\ Turns(v, i + 1)
      BY <1>i, EscapedNext, WithinNext
    <2>6. ~Escaped(v, (i + 1) + 1)
      BY <2>1, <2>5 DEF EscapedBy
    <2>7. WithinString(v, (i + 1) + 1)
      BY <2>1, <2>2, <2>5 DEF Turns
    <2>8. /\ Open(v, "[", "]", (i + 1) + 1) = Open(v, "[", "]", i + 1)
          /\ Open(v, "{", "}", (i + 1) + 1) = Open(v, "{", "}", i + 1)
      <3>1. "[" # "]" /\ "{" # "}"
        OBVIOUS
      <3>2. Nests(v, "[", "]", i + 1) /\ Nests(v, "{", "}", i + 1)
        BY <1>i, <3>1, OpenNext
      <3>. QED
        BY <2>2, <3>2 DEF Nests
    <2>9. (i + 1) + 1 = i + 2 /\ i + 2 <= n + 1
      BY <1>i, <2>4
    <2>10. Reads(v, i + 2, turned, g, h)
      BY <1>3, <1>g, <2>2, <2>6, <2>7, <2>8, <2>9 DEF Reads
    <2>. QED
      BY <1>4, <1>g, <1>n, <1>t, <2>9, <2>10 DEF BareGoes
  <1>5. CASE ~(str /\ v[i] = Backslash)
    <2>1. v[i] # Backslash
      <3>1. v[i] = Backslash => WithinString(v, i)
        BY DEF IsBare
      <3>. QED
        BY <1>0, <1>5, <3>1
    <2>2. ~Escaped(v, i + 1)
      BY <1>1, <2>1 DEF EscapedBy
    <2>3. Reads(v, i + 1, turned, g, h)
      BY <1>2, <1>3, <1>g, <2>2 DEF Reads
    <2>. QED
      BY <1>5, <1>g, <1>t, <2>3 DEF BareGoes
  <1>. QED
    BY <1>4, <1>5

\* At the end of a bare value everything is closed.
LEMMA BareEnds ==
    ASSUME NEW v, IsBare(v), NEW str, NEW open, NEW braced,
           Reads(v, Len(v) + 1, str, open, braced)
    PROVE  ~str /\ open = 0 /\ braced = 0
  BY DEF IsBare, AtTop, Reads

\* The places of a member in the payload, as the search counts them.
Site(s, m, ke, co, va, en, st) ==
    /\ s \in Nat /\ ke \in Nat /\ co \in Nat /\ va \in Nat /\ en \in Nat /\ st \in Nat
    /\ 2 <= ke /\ ke <= co /\ co < va /\ va < en /\ en <= st /\ en = va + Len(m.value)
    /\ s + st < Len(payload) /\ At(s + co) = ":" /\ At(s + st) \in Terminator
    /\ \A q \in (s + ke)..(s + co - 1) : At(q) \in Blank
    /\ \A q \in (s + co + 1)..(s + va - 1) : At(q) \in Blank
    /\ \A q \in (s + en)..(s + st - 1) : At(q) \in Blank
    /\ \A j \in 1..Len(m.value) : At(s + va + j - 1) = m.value[j]
SiteOf(s, m) == Site(s, m, KeyEnd(m), ColonAt(m), ValueAt(m), EndAt(m), StopAt(m))

\* These bytes stand at a member's places in the payload.
LEMMA MemberSite ==
    ASSUME NEW s \in Nat, NEW m, IsMember(m), StandsAt(payload, s, m)
    PROVE  SiteOf(s, m)
  <1>1. PICK ke \in Nat, co \in Nat, va \in Nat, en \in Nat, st \in Nat, v \in Nat :
           /\ ke = KeyEnd(m) /\ co = ColonAt(m) /\ va = ValueAt(m) /\ en = EndAt(m) /\ st = StopAt(m)
           /\ v = Len(m.value)
    BY PlacesType
  <1>2. 2 <= ke /\ ke <= co /\ co < va /\ va < en /\ en <= st /\ en = va + v
    BY <1>1, PlacesType
  <1>3. s + st < Len(payload)
    BY <1>1 DEF StandsAt
  <1>4. /\ payload[s + co + 1] = ":" /\ payload[s + st + 1] \in Terminator
        /\ \A k \in (s + ke + 1)..(s + co) : payload[k] \in Blank
        /\ \A k \in (s + co + 2)..(s + va) : payload[k] \in Blank
        /\ \A k \in (s + en + 1)..(s + st) : payload[k] \in Blank
    <2>1. Lettered(payload, s, m)
      BY MemberLettered
    <2>. QED
      BY <1>1, <2>1 DEF Lettered
  <1>5. \A j \in 1..v : payload[s + va + j] = m.value[j]
    <2>1. Pieces(payload, s, m)
      BY DEF StandsAt
    <2>. QED
      BY <1>1, <2>1 DEF Pieces, Spans
  <1>6. At(s + co) = ":" /\ At(s + st) \in Terminator
    BY <1>4 DEF At
  <1>7. ASSUME NEW q \in (s + ke)..(s + co - 1) PROVE At(q) \in Blank
    <2>1. q + 1 \in (s + ke + 1)..(s + co)
      OBVIOUS
    <2>. QED
      BY <1>4, <2>1 DEF At
  <1>8. ASSUME NEW q \in (s + co + 1)..(s + va - 1) PROVE At(q) \in Blank
    <2>1. q + 1 \in (s + co + 2)..(s + va)
      OBVIOUS
    <2>. QED
      BY <1>4, <2>1 DEF At
  <1>9. ASSUME NEW q \in (s + en)..(s + st - 1) PROVE At(q) \in Blank
    <2>1. q + 1 \in (s + en + 1)..(s + st)
      OBVIOUS
    <2>. QED
      BY <1>4, <2>1 DEF At
  <1>10. ASSUME NEW j \in 1..v PROVE At(s + va + j - 1) = m.value[j]
    <2>1. s + va + j - 1 + 1 = s + va + j
      OBVIOUS
    <2>. QED
      BY <1>5, <2>1 DEF At
  <1>11. Site(s, m, ke, co, va, en, st)
    BY <1>1, <1>2, <1>3, <1>6, <1>7, <1>8, <1>9, <1>10 DEF Site
  <1>. QED
    BY <1>1, <1>11 DEF SiteOf

-----------------------------------------------------------------------------
(* The search at a member of the key's name.                               *)

Quoting(s, m) ==
    /\ IsString(m.value)
    /\ \E i \in 2..Len(m.value) : p = s + ValueAt(m) + i - 1 /\ ~Escaped(m.value, i)

InValue(s, m) ==
    \E i \in 1..Len(m.value) :
        p = s + ValueAt(m) + i - 1 /\ Reads(m.value, i, inString, brackets, braces)
BehindValue(s, m) == TopLevel /\ s + EndAt(m) <= p /\ p <= s + StopAt(m)

Reading(s, m) ==
    /\ pc \notin {"find"} \cup Failed
    /\ pc = "toColon" => p <= s + ColonAt(m)
    /\ pc = "toValue" => p <= s + ValueAt(m)
    /\ pc \in {"toValue"} \cup PastColon => colon = s + ColonAt(m)
    /\ pc \in PastColon => value = s + ValueAt(m)
    /\ pc = "quoted" => Quoting(s, m)
    /\ pc = "bare" => IsBare(m.value) /\ (InValue(s, m) \/ BehindValue(s, m))
    /\ pc \in PastValue =>
          valueEnd = s + ValueAt(m) + Len(ValueTaken(m)) /\ p <= s + StopAt(m)

OnMember(s, m) ==
    /\ s = keyPos /\ IsMember(m) /\ m.key = Key /\ StandsAt(payload, s, m) /\ Reading(s, m)

\* A member of the key's name has its places in the payload.
LEMMA KeySite ==
    ASSUME TypeOK, NEW s, NEW m, OnMember(s, m)
    PROVE  s \in Nat /\ SiteOf(s, m) /\ Len(Needle) = KeyEnd(m)
  <1>1. s \in Nat
    BY DEF OnMember, TypeOK
  <1>2. SiteOf(s, m)
    BY <1>1, MemberSite DEF OnMember
  <1>3. Len(Needle) = KeyEnd(m)
    BY NeedleShape DEF OnMember, KeyEnd
  <1>. QED
    BY <1>1, <1>2, <1>3

\* Between key and colon the cursor meets blanks, then the colon.
LEMMA MemberAtColon ==
    ASSUME TypeOK, LocInv, NEW s, NEW m, OnMember(s, m), pc = "toColon"
    PROVE  /\ p < Len(payload) /\ At(p) \in Blank \cup {":"}
           /\ At(p) \in Blank => p + 1 <= s + ColonAt(m)
           /\ At(p) = ":" => p = s + ColonAt(m)
  <1>1. PICK ke \in Nat, co \in Nat, va \in Nat, en \in Nat, st \in Nat :
           /\ ke = KeyEnd(m) /\ co = ColonAt(m) /\ va = ValueAt(m) /\ en = EndAt(m) /\ st = StopAt(m)
    BY PlacesType DEF OnMember
  <1>2. Site(s, m, ke, co, va, en, st) /\ Len(Needle) = ke
    BY <1>1, KeySite DEF SiteOf
  <1>3. p <= s + co
    BY <1>1 DEF OnMember, Reading
  <1>4. s + ke <= p
    BY <1>2 DEF LocInv, ColonSought, AfterKey, OnMember
  <1>p. p \in Nat /\ s \in Nat
    BY <1>2 DEF TypeOK, Site
  <1>5. s + st < Len(payload) /\ co < st
    BY <1>2 DEF Site
  <1>6. At(s + co) = ":" /\ \A q \in (s + ke)..(s + co - 1) : At(q) \in Blank
    BY <1>2 DEF Site
  <1>7. CASE p = s + co
    <2>1. p < Len(payload)
      <3>1. Len(payload) \in Nat
        BY DEF TypeOK
      <3>. QED
        BY <1>5, <1>7, <1>p, <3>1
    <2>2. At(p) = ":" /\ At(p) \notin Blank
      BY <1>6, <1>7, Marks
    <2>. QED
      BY <1>1, <1>7, <2>1, <2>2
  <1>8. CASE p < s + co
    <2>1. p \in (s + ke)..(s + co - 1)
      BY <1>4, <1>8, <1>p
    <2>2. At(p) \in Blank
      BY <1>6, <2>1
    <2>3. p < Len(payload) /\ p + 1 <= s + co
      BY <1>2, <1>5, <1>8, <1>p DEF Site
    <2>. QED
      BY <1>1, <2>2, <2>3, Marks
  <1>. QED
    BY <1>3, <1>7, <1>8, <1>p

\* Between colon and value the cursor meets blanks, then the value.
LEMMA MemberAtValue ==
    ASSUME TypeOK, LocInv, NEW s, NEW m, OnMember(s, m), pc = "toValue"
    PROVE  /\ p < Len(payload)
           /\ At(p) \in Blank => p + 1 <= s + ValueAt(m)
           /\ At(p) \notin Blank => p = s + ValueAt(m) /\ At(p) = m.value[1]
  <1>1. PICK ke \in Nat, co \in Nat, va \in Nat, en \in Nat, st \in Nat :
           /\ ke = KeyEnd(m) /\ co = ColonAt(m) /\ va = ValueAt(m) /\ en = EndAt(m) /\ st = StopAt(m)
    BY PlacesType DEF OnMember
  <1>2. Site(s, m, ke, co, va, en, st)
    BY <1>1, KeySite DEF SiteOf
  <1>3. p <= s + va /\ colon = s + co
    BY <1>1 DEF OnMember, Reading
  <1>4. s + co < p
    BY <1>3 DEF LocInv, ValueSought
  <1>p. p \in Nat /\ s \in Nat
    BY <1>2 DEF TypeOK, Site
  <1>5. s + st < Len(payload) /\ va < st /\ 1 \in 1..Len(m.value)
    <2>1. Len(m.value) \in Nat
      BY PlacesType DEF OnMember
    <2>. QED
      BY <1>2, <2>1 DEF Site
  <1>6. At(s + va) = m.value[1] /\ \A q \in (s + co + 1)..(s + va - 1) : At(q) \in Blank
    <2>1. At(s + va + 1 - 1) = m.value[1] /\ s + va + 1 - 1 = s + va
      BY <1>2, <1>5 DEF Site
    <2>. QED
      BY <1>2, <2>1 DEF Site
  <1>7. CASE p = s + va
    <2>1. m.value[1] \notin Blank
      BY Marks DEF OnMember, IsMember, IsString, IsBare
    <2>. QED
      BY <1>1, <1>5, <1>6, <1>7, <1>p, <2>1
  <1>8. CASE p < s + va
    <2>1. p \in (s + co + 1)..(s + va - 1)
      BY <1>4, <1>8, <1>p, <1>2 DEF Site
    <2>2. At(p) \in Blank
      BY <1>6, <2>1
    <2>3. p < Len(payload) /\ p + 1 <= s + va
      BY <1>5, <1>8, <1>p
    <2>. QED
      BY <1>1, <2>2, <2>3
  <1>. QED
    BY <1>3, <1>7, <1>8, <1>p

\* Behind the value there are blanks, then the terminator.
LEMMA MemberAtStop ==
    ASSUME TypeOK, NEW s, NEW m, OnMember(s, m), s + EndAt(m) <= p, p <= s + StopAt(m)
    PROVE  /\ p < Len(payload) /\ At(p) \in Blank \cup Terminator
           /\ At(p) \in Blank => p + 1 <= s + StopAt(m)
           /\ At(p) \in Terminator => p = s + StopAt(m)
  <1>1. PICK ke \in Nat, co \in Nat, va \in Nat, en \in Nat, st \in Nat :
           /\ ke = KeyEnd(m) /\ co = ColonAt(m) /\ va = ValueAt(m) /\ en = EndAt(m) /\ st = StopAt(m)
    BY PlacesType DEF OnMember
  <1>2. Site(s, m, ke, co, va, en, st)
    BY <1>1, KeySite DEF SiteOf
  <1>p. p \in Nat /\ s \in Nat /\ s + en <= p /\ p <= s + st
    BY <1>1, <1>2 DEF TypeOK, Site
  <1>5. s + st < Len(payload)
    BY <1>2 DEF Site
  <1>6. At(s + st) \in Terminator /\ \A q \in (s + en)..(s + st - 1) : At(q) \in Blank
    BY <1>2 DEF Site
  <1>7. CASE p = s + st
    BY <1>1, <1>5, <1>6, <1>7, <1>p, Marks
  <1>8. CASE p < s + st
    <2>1. p \in (s + en)..(s + st - 1)
      BY <1>8, <1>p
    <2>2. At(p) \in Blank
      BY <1>6, <2>1
    <2>3. p < Len(payload) /\ p + 1 <= s + st
      BY <1>2, <1>5, <1>8, <1>p DEF Site
    <2>. QED
      BY <1>1, <2>2, <2>3, Marks
  <1>. QED
    BY <1>7, <1>8, <1>p

\* Within the value the cursor is at a byte of it.
LEMMA MemberInValue ==
    ASSUME TypeOK, NEW s, NEW m, OnMember(s, m), NEW i \in 1..Len(m.value), p = s + ValueAt(m) + i - 1
    PROVE  /\ p < Len(payload) /\ At(p) = m.value[i] /\ m.value \in Seq(Chars)
           /\ s + ValueAt(m) + Len(m.value) = s + EndAt(m) /\ s + EndAt(m) <= s + StopAt(m)
  <1>1. PICK ke \in Nat, co \in Nat, va \in Nat, en \in Nat, st \in Nat, v \in Nat :
           /\ ke = KeyEnd(m) /\ co = ColonAt(m) /\ va = ValueAt(m) /\ en = EndAt(m) /\ st = StopAt(m)
           /\ v = Len(m.value)
    BY PlacesType DEF OnMember
  <1>2. Site(s, m, ke, co, va, en, st)
    BY <1>1, KeySite DEF SiteOf
  <1>3. /\ s \in Nat /\ en = va + v /\ en <= st /\ s + st < Len(payload)
        /\ \A j \in 1..v : At(s + va + j - 1) = m.value[j]
    BY <1>1, <1>2 DEF Site
  <1>4. i \in 1..v /\ p = s + va + i - 1
    BY <1>1
  <1>5. At(p) = m.value[i]
    BY <1>3, <1>4
  <1>6. p < Len(payload) /\ s + va + v = s + en /\ s + en <= s + st
    <2>1. Len(payload) \in Nat
      BY DEF TypeOK
    <2>. QED
      BY <1>3, <1>4, <2>1
  <1>7. m.value \in Seq(Chars)
    BY MemberTyped DEF OnMember
  <1>. QED
    BY <1>1, <1>5, <1>6, <1>7

\* The loops behind the colon and behind the value, by name.
LEMMA Loops ==
    /\ PastColon = {"quoted", "bare", "toEnd", "found", "read", "sliced", "constrained"}
    /\ PastValue = {"toEnd", "found", "read", "sliced", "constrained"}
    /\ LocatedPcs = {"found", "read", "sliced", "constrained"}
    /\ Failed = {"notFound", "badFormat"}
  BY DEF PastColon, PastValue, LocatedPcs, Failed

\* The first byte of a value tells its kind.
LEMMA QuoteBegins ==
    ASSUME NEW m, IsMember(m)
    PROVE  /\ m.value[1] = Quote => IsString(m.value)
           /\ m.value[1] # Quote => IsBare(m.value)
           /\ IsString(m.value) => Len(m.value) >= 2 /\ ValueTaken(m) = m.value
           /\ IsBare(m.value) => ValueTaken(m) = m.value \o m.afterValue
  BY DEF IsMember, IsString, IsBare, ValueTaken

\* What the host takes is no shorter than the value; of a bare one, all to the terminator.
LEMMA TakenLength ==
    ASSUME NEW m, IsMember(m)
    PROVE  /\ Len(ValueTaken(m)) \in Nat /\ Len(m.value) <= Len(ValueTaken(m))
           /\ m.value[1] # Quote => ValueAt(m) + Len(ValueTaken(m)) = StopAt(m)
  <1>1. PICK v \in Seq(Chars), e \in Seq(Chars) : v = m.value /\ e = m.afterValue
    BY MemberTyped
  <1>2. Len(v \o e) = Len(v) + Len(e) /\ Len(v) \in Nat /\ Len(e) \in Nat
    OBVIOUS
  <1>3. CASE v[1] = Quote
    BY <1>1, <1>2, <1>3 DEF ValueTaken
  <1>4. CASE v[1] # Quote
    <2>1. ValueTaken(m) = v \o e
      BY <1>1, <1>4 DEF ValueTaken
    <2>2. StopAt(m) = ValueAt(m) + Len(v) + Len(e) /\ ValueAt(m) \in Nat
      BY <1>1, PlacesType DEF StopAt, EndAt
    <2>. QED
      <3>1. Len(ValueTaken(m)) = Len(v) + Len(e)
        BY <1>2, <2>1
      <3>2. ValueAt(m) + Len(ValueTaken(m)) = StopAt(m)
        BY <1>2, <2>2, <3>1
      <3>a. PICK a \in Nat, b \in Nat : a = Len(v) /\ b = Len(e)
        BY <1>2
      <3>3. Len(ValueTaken(m)) = a + b /\ Len(m.value) = a
        BY <1>1, <3>1, <3>a
      <3>4. a + b \in Nat /\ a <= a + b
        OBVIOUS
      <3>. QED
        BY <1>4, <1>1, <3>2, <3>3, <3>4
  <1>. QED
    BY <1>3, <1>4

\* BeginQuoted begins at a member's string value.
LEMMA BeginQuotedStays ==
    ASSUME TypeOK, LocInv, NEW s, NEW m, OnMember(s, m), BeginQuoted
    PROVE  Reading(s, m)'
  <1>1. /\ pc = "toValue" /\ p < Len(payload) /\ At(p) = Quote
        /\ pc' = "quoted" /\ p' = p + 1 /\ value' = p /\ colon' = colon
    BY DEF BeginQuoted, Here, Move
  <1>2. p = s + ValueAt(m) /\ m.value[1] = Quote
    BY <1>1, MemberAtValue, Marks
  <1>3. IsString(m.value) /\ Len(m.value) >= 2
    BY <1>2, QuoteBegins DEF OnMember
  <1>4. ~Escaped(m.value, 2)
    BY <1>3, StringBegins
  <1>5. 2 \in 2..Len(m.value) /\ p' = s + ValueAt(m) + 2 - 1
    <2>1. Len(m.value) \in Nat /\ ValueAt(m) \in Nat /\ s \in Nat
      BY PlacesType, KeySite DEF OnMember
    <2>. QED
      BY <1>1, <1>2, <1>3, <2>1
  <1>6. Quoting(s, m)'
    BY <1>3, <1>4, <1>5 DEF Quoting
  <1>7. colon = s + ColonAt(m)
    BY <1>1 DEF OnMember, Reading
  <1>. QED
    BY <1>1, <1>2, <1>6, <1>7, Loops DEF Reading

\* BeginBare begins at a member's bare value.
LEMMA BeginBareStays ==
    ASSUME TypeOK, LocInv, NEW s, NEW m, OnMember(s, m), BeginBare
    PROVE  Reading(s, m)'
  <1>1. /\ pc = "toValue" /\ p < Len(payload) /\ At(p) \notin Blank \cup {Quote}
        /\ pc' = "bare" /\ p' = p /\ value' = p /\ colon' = colon
        /\ inString' = FALSE /\ brackets' = 0 /\ braces' = 0
    BY DEF BeginBare, Move, TypeOK
  <1>2. p = s + ValueAt(m) /\ m.value[1] # Quote
    BY <1>1, MemberAtValue
  <1>3. IsBare(m.value)
    BY <1>2, QuoteBegins DEF OnMember
  <1>4. Reads(m.value, 1, inString', brackets', braces')
    BY <1>1, ReadsFirst
  <1>5. 1 \in 1..Len(m.value) /\ p' = s + ValueAt(m) + 1 - 1
    <2>1. Len(m.value) \in Nat /\ Len(m.value) >= 1 /\ ValueAt(m) \in Nat /\ s \in Nat
      BY PlacesType, KeySite DEF OnMember
    <2>. QED
      BY <1>1, <1>2, <2>1
  <1>6. InValue(s, m)'
    BY <1>4, <1>5 DEF InValue
  <1>7. colon = s + ColonAt(m)
    BY <1>1 DEF OnMember, Reading
  <1>. QED
    BY <1>1, <1>2, <1>3, <1>6, <1>7, Loops DEF Reading

\* After the value's end the cursor is behind the value.
LEMMA EndIsBehind ==
    ASSUME TypeOK, LocInv, NEW s, NEW m, OnMember(s, m), pc = "toEnd"
    PROVE  s + EndAt(m) <= p /\ p <= s + StopAt(m)
  <1>1. valueEnd = s + ValueAt(m) + Len(ValueTaken(m)) /\ p <= s + StopAt(m)
    BY Loops DEF OnMember, Reading
  <1>2. valueEnd <= p
    BY Loops DEF LocInv, EndSought
  <1>3. PICK v \in Nat, t \in Nat, va \in Nat :
            /\ v = Len(m.value) /\ t = Len(ValueTaken(m)) /\ va = ValueAt(m) /\ v <= t
            /\ EndAt(m) = va + v
    BY TakenLength, PlacesType DEF OnMember
  <1>4. p \in Nat /\ s \in Nat
    BY KeySite DEF TypeOK
  <1>5. valueEnd = s + va + t /\ s + EndAt(m) = s + (va + v)
    BY <1>1, <1>3
  <1>6. s + (va + v) <= p
    BY <1>2, <1>3, <1>4, <1>5
  <1>. QED
    BY <1>1, <1>5, <1>6

\* SkipBlank does not leave the member.
LEMMA SkipBlankStays ==
    ASSUME TypeOK, LocInv, NEW s, NEW m, OnMember(s, m), SkipBlank
    PROVE  Reading(s, m)'
  <1>1. /\ pc \in {"toColon", "toValue", "toEnd"} /\ At(p) \in Blank
        /\ pc' = pc /\ p' = p + 1 /\ UNCHANGED <<colon, value, valueEnd>>
    BY DEF SkipBlank, HereIn, Move
  <1>2. CASE pc = "toColon"
    <2>1. p' <= s + ColonAt(m)
      BY <1>1, <1>2, MemberAtColon
    <2>. QED
      BY <1>1, <1>2, <2>1, Loops DEF Reading
  <1>3. CASE pc = "toValue"
    <2>1. p' <= s + ValueAt(m)
      BY <1>1, <1>3, MemberAtValue
    <2>2. colon' = s + ColonAt(m)
      BY <1>1, <1>3 DEF OnMember, Reading
    <2>. QED
      BY <1>1, <1>3, <2>1, <2>2, Loops DEF Reading
  <1>4. CASE pc = "toEnd"
    <2>1. /\ colon = s + ColonAt(m) /\ value = s + ValueAt(m)
          /\ valueEnd = s + ValueAt(m) + Len(ValueTaken(m)) /\ p <= s + StopAt(m)
      BY <1>4, Loops DEF OnMember, Reading
    <2>2. s + EndAt(m) <= p
      BY <1>4, EndIsBehind
    <2>3. p' <= s + StopAt(m)
      BY <1>1, <2>1, <2>2, MemberAtStop
    <2>. QED
      BY <1>1, <1>4, <2>1, <2>3, Loops DEF Reading
  <1>. QED
    BY <1>1, <1>2, <1>3, <1>4

\* ReadColon reads the member's colon.
LEMMA ReadColonStays ==
    ASSUME TypeOK, LocInv, NEW s, NEW m, OnMember(s, m), ReadColon
    PROVE  Reading(s, m)'
  <1>1. /\ pc = "toColon" /\ At(p) = ":" /\ pc' = "toValue" /\ p' = p + 1 /\ colon' = p
    BY DEF ReadColon, Here, Move
  <1>2. p = s + ColonAt(m)
    BY <1>1, MemberAtColon
  <1>3. p' <= s + ValueAt(m)
    <2>1. ColonAt(m) \in Nat /\ ValueAt(m) \in Nat /\ s \in Nat /\ ColonAt(m) < ValueAt(m)
      BY PlacesType, KeySite DEF OnMember
    <2>. QED
      BY <1>1, <1>2, <2>1
  <1>. QED
    BY <1>1, <1>2, <1>3, Loops DEF Reading

\* ScanQuoted does not leave the string.
LEMMA ScanQuotedStays ==
    ASSUME TypeOK, LocInv, NEW s, NEW m, OnMember(s, m), ScanQuoted
    PROVE  Reading(s, m)'
  <1>1. /\ pc = "quoted" /\ p < Len(payload) /\ At(p) # Quote
        /\ pc' = "quoted" /\ p' = p + (IF At(p) = Backslash THEN 2 ELSE 1)
        /\ UNCHANGED <<colon, value, valueEnd>>
    BY DEF ScanQuoted, Here, Move
  <1>2. /\ colon = s + ColonAt(m) /\ value = s + ValueAt(m) /\ IsString(m.value)
    BY <1>1, Loops DEF OnMember, Reading, Quoting
  <1>i. PICK i \in 2..Len(m.value) : p = s + ValueAt(m) + i - 1 /\ ~Escaped(m.value, i)
    BY <1>1, Loops DEF OnMember, Reading, Quoting
  <1>3. i \in 1..Len(m.value)
    BY <1>i
  <1>4. At(p) = m.value[i] /\ m.value \in Seq(Chars)
    BY <1>i, <1>3, MemberInValue
  <1>5. StringGoes(m.value, i)
    BY <1>1, <1>2, <1>i, <1>4, StringStep
  <1>6. PICK va \in Nat, v \in Nat : va = ValueAt(m) /\ v = Len(m.value)
    BY PlacesType DEF OnMember
  <1>s. s \in Nat /\ i \in 2..v /\ p = s + va + i - 1
    BY <1>6, <1>i, KeySite
  <1>7. CASE At(p) = Backslash
    <2>1. i + 2 <= v /\ ~Escaped(m.value, i + 2)
      BY <1>4, <1>5, <1>6, <1>7 DEF StringGoes
    <2>2. i + 2 \in 2..v /\ p' = s + va + (i + 2) - 1
      BY <1>1, <1>7, <1>s, <2>1
    <2>3. Quoting(s, m)'
      BY <1>2, <1>6, <2>1, <2>2 DEF Quoting
    <2>. QED
      BY <1>1, <1>2, <2>3, Loops DEF Reading
  <1>8. CASE At(p) # Backslash
    <2>1. i + 1 <= v /\ ~Escaped(m.value, i + 1)
      BY <1>4, <1>5, <1>6, <1>8 DEF StringGoes
    <2>2. i + 1 \in 2..v /\ p' = s + va + (i + 1) - 1
      BY <1>1, <1>8, <1>s, <2>1
    <2>3. Quoting(s, m)'
      BY <1>2, <1>6, <2>1, <2>2 DEF Quoting
    <2>. QED
      BY <1>1, <1>2, <2>3, Loops DEF Reading
  <1>. QED
    BY <1>7, <1>8

\* EndQuoted ends at the string's closing quote.
LEMMA EndQuotedStays ==
    ASSUME TypeOK, LocInv, NEW s, NEW m, OnMember(s, m), EndQuoted
    PROVE  Reading(s, m)'
  <1>1. /\ pc = "quoted" /\ At(p) = Quote /\ pc' = "toEnd" /\ p' = p + 1 /\ valueEnd' = p + 1
        /\ UNCHANGED <<colon, value>>
    BY DEF EndQuoted, Here, Move
  <1>2. colon = s + ColonAt(m) /\ value = s + ValueAt(m) /\ IsString(m.value)
    BY <1>1, Loops DEF OnMember, Reading, Quoting
  <1>i. PICK i \in 2..Len(m.value) : p = s + ValueAt(m) + i - 1 /\ ~Escaped(m.value, i)
    BY <1>1, Loops DEF OnMember, Reading, Quoting
  <1>3. i \in 1..Len(m.value)
    BY <1>i
  <1>4. At(p) = m.value[i]
    BY <1>i, <1>3, MemberInValue
  <1>5. i = Len(m.value)
    BY <1>1, <1>2, <1>i, <1>4 DEF IsString
  <1>6. PICK va \in Nat, v \in Nat, en \in Nat, st \in Nat :
           /\ va = ValueAt(m) /\ v = Len(m.value) /\ en = EndAt(m) /\ st = StopAt(m)
           /\ en = va + v /\ en <= st
    BY PlacesType DEF OnMember
  <1>s. s \in Nat /\ p = s + va + v - 1
    BY <1>5, <1>6, <1>i, KeySite
  <1>7. ValueTaken(m) = m.value
    BY <1>2, QuoteBegins DEF OnMember
  <1>8. valueEnd' = s + ValueAt(m) + Len(ValueTaken(m)) /\ p' <= s + StopAt(m)
    <2>1. p' = p + 1 /\ valueEnd' = p + 1
      BY <1>1
    <2>2. p + 1 = s + va + v /\ p + 1 <= s + st
      <3>1. en = va + v /\ en <= st
        BY <1>6
      <3>2. p + 1 = s + va + v
        BY <1>s
      <3>. QED
        BY <1>s, <3>1, <3>2
    <2>3. s + ValueAt(m) + Len(ValueTaken(m)) = s + va + v /\ s + StopAt(m) = s + st
      BY <1>6, <1>7
    <2>. QED
      BY <2>1, <2>2, <2>3
  <1>. QED
    BY <1>1, <1>2, <1>8, Loops DEF Reading

\* ScanBare, in terms of the byte at the cursor.
LEMMA ScanBareIs ==
    ASSUME TypeOK, ScanBare, p < Len(payload)
    PROVE  /\ pc = "bare" /\ pc' = "bare" /\ ~(TopLevel /\ At(p) \in Terminator)
           /\ p' = p + (IF inString /\ At(p) = Backslash THEN 2 ELSE 1)
           /\ inString' = (IF At(p) = Quote THEN ~inString ELSE inString)
           /\ brackets' = Nest(inString, brackets, At(p), "[", "]")
           /\ braces' = Nest(inString, braces, At(p), "{", "}")
           /\ UNCHANGED <<colon, value, valueEnd>>
  <1>1. \A c : Here(c) <=> At(p) = c
    BY DEF Here
  <1>2. /\ pc = "bare" /\ pc' = "bare" /\ ~AtBareEnd
        /\ p' = p + (IF inString /\ Here(Backslash) THEN 2 ELSE 1)
        /\ inString' = (IF Here(Quote) THEN ~inString ELSE inString)
        /\ brackets' = Depth(brackets, "[", "]") /\ braces' = Depth(braces, "{", "}")
        /\ UNCHANGED <<colon, value, valueEnd>>
    BY DEF ScanBare, Move
  <1>3. ~(TopLevel /\ At(p) \in Terminator)
    BY <1>2 DEF AtBareEnd
  <1>4. \A n, open, close : Depth(n, open, close) = Nest(inString, n, At(p), open, close)
    BY <1>1, Zenon DEF Depth, Nest
  <1>5. p' = p + (IF inString /\ At(p) = Backslash THEN 2 ELSE 1)
    BY <1>1, <1>2, Zenon
  <1>6. inString' = (IF At(p) = Quote THEN ~inString ELSE inString)
    BY <1>1, <1>2, Zenon
  <1>7. /\ brackets' = Nest(inString, brackets, At(p), "[", "]")
        /\ braces' = Nest(inString, braces, At(p), "{", "}")
    BY <1>2, <1>4, Zenon
  <1>. QED
    BY <1>2, <1>3, <1>5, <1>6, <1>7, Zenon

\* A scan that goes on is still in the value, or has left it at its top level.
LEMMA ScanOn ==
    ASSUME NEW s \in Nat, NEW m, IsMember(m), IsBare(m.value), NEW k \in 1..(Len(m.value) + 1),
           p' = s + ValueAt(m) + k - 1, Reads(m.value, k, inString', brackets', braces')
    PROVE  InValue(s, m)' \/ BehindValue(s, m)'
  <1>6. PICK va \in Nat, v \in Nat, en \in Nat, st \in Nat :
           /\ va = ValueAt(m) /\ v = Len(m.value) /\ en = EndAt(m) /\ st = StopAt(m)
           /\ en = va + v /\ en <= st
    BY PlacesType
  <1>1. CASE k \in 1..v
    <2>1. InValue(s, m)'
      BY <1>1, <1>6 DEF InValue
    <2>. QED
      BY <2>1
  <1>2. CASE k = v + 1
    <2>1. ~inString' /\ brackets' = 0 /\ braces' = 0
      <3>1. Reads(m.value, Len(m.value) + 1, inString', brackets', braces')
        BY <1>2, <1>6
      <3>. QED
        BY <3>1, Zenon DEF Reads, IsBare, AtTop
    <2>2. TopLevel'
      BY <2>1 DEF TopLevel
    <2>3. p' = s + va + (v + 1) - 1
      BY <1>2, <1>6
    <2>4. s + en <= p' /\ p' <= s + st
      <3>1. en = va + v /\ en <= st
        BY <1>6
      <3>2. s + va + (v + 1) - 1 = s + en /\ s + en <= s + st
        BY <3>1
      <3>3. p' = s + en
        BY <2>3, <3>2
      <3>. QED
        BY <3>2, <3>3
    <2>5. BehindValue(s, m)'
      BY <1>6, <2>2, <2>4 DEF BehindValue
    <2>. QED
      BY <2>5
  <1>3. k \in 1..v \/ k = v + 1
    BY <1>6
  <1>. QED
    BY <1>1, <1>2, <1>3

\* ScanBare does not leave the value but for the blanks behind it.
LEMMA ScanBareStays ==
    ASSUME TypeOK, LocInv, NEW s, NEW m, OnMember(s, m), ScanBare
    PROVE  Reading(s, m)'
  <1>0. pc = "bare"
    BY DEF ScanBare
  <1>2. /\ colon = s + ColonAt(m) /\ value = s + ValueAt(m) /\ IsBare(m.value)
        /\ InValue(s, m) \/ BehindValue(s, m)
    BY <1>0, Loops DEF OnMember, Reading
  <1>3. p < Len(payload)
    <2>1. CASE InValue(s, m)
      BY <2>1, MemberInValue DEF InValue
    <2>2. CASE BehindValue(s, m)
      BY <2>2, MemberAtStop DEF BehindValue
    <2>. QED
      BY <1>2, <2>1, <2>2
  <1>4. /\ pc' = "bare" /\ ~(TopLevel /\ At(p) \in Terminator)
        /\ p' = p + (IF inString /\ At(p) = Backslash THEN 2 ELSE 1)
        /\ inString' = (IF At(p) = Quote THEN ~inString ELSE inString)
        /\ brackets' = Nest(inString, brackets, At(p), "[", "]")
        /\ braces' = Nest(inString, braces, At(p), "{", "}")
        /\ UNCHANGED <<colon, value, valueEnd>>
    BY <1>3, ScanBareIs
  <1>5. ASSUME InValue(s, m) PROVE InValue(s, m)' \/ BehindValue(s, m)'
    <2>1. PICK i \in 1..Len(m.value) :
            p = s + ValueAt(m) + i - 1 /\ Reads(m.value, i, inString, brackets, braces)
      BY <1>5 DEF InValue
    <2>2. At(p) = m.value[i] /\ m.value \in Seq(Chars)
      BY <2>1, MemberInValue
    <2>3. inString \in BOOLEAN
      BY DEF TypeOK
    <2>4. BareGoes(m.value, i, inString, brackets, braces)
      BY <1>2, <2>1, <2>2, <2>3, BareStep
    <2>5. PICK va \in Nat, v \in Nat : va = ValueAt(m) /\ v = Len(m.value)
      BY PlacesType DEF OnMember
    <2>6. s \in Nat /\ i \in 1..v /\ p = s + va + i - 1
      BY <2>1, <2>5, KeySite
    <2>7. CASE inString /\ At(p) = Backslash
      <3>1. i + 2 <= v + 1 /\ Reads(m.value, i + 2, inString', brackets', braces')
        BY <1>4, <2>2, <2>4, <2>5, <2>7 DEF BareGoes
      <3>a. p' = p + 2
        BY <1>4, <2>7
      <3>2. i + 2 \in 1..(v + 1) /\ p' = s + va + (i + 2) - 1
        BY <2>6, <3>1, <3>a
      <3>. QED
        BY <1>2, <2>5, <2>6, <3>1, <3>2, ScanOn DEF OnMember
    <2>8. CASE ~(inString /\ At(p) = Backslash)
      <3>1. Reads(m.value, i + 1, inString', brackets', braces')
        BY <1>4, <2>2, <2>4, <2>8 DEF BareGoes
      <3>a. p' = p + 1
        BY <1>4, <2>8
      <3>2. i + 1 \in 1..(v + 1) /\ p' = s + va + (i + 1) - 1
        BY <2>6, <3>a
      <3>. QED
        BY <1>2, <2>5, <2>6, <3>1, <3>2, ScanOn DEF OnMember
    <2>. QED
      BY <2>7, <2>8
  <1>6. ASSUME BehindValue(s, m) PROVE InValue(s, m)' \/ BehindValue(s, m)'
    <2>1. TopLevel /\ s + EndAt(m) <= p /\ p <= s + StopAt(m)
      BY <1>6 DEF BehindValue
    <2>2. At(p) \in Blank /\ p + 1 <= s + StopAt(m)
      BY <1>4, <2>1, MemberAtStop
    <2>3. ~inString /\ At(p) \notin {Quote, "[", "]", "{", "}"}
      BY <2>1, <2>2, Signs DEF TopLevel
    <2>4. p' = p + 1 /\ inString' = inString
      BY <1>4, <2>3
    <2>5. brackets' = brackets /\ braces' = braces
      BY <1>4, <2>3 DEF Nest
    <2>6. TopLevel'
      BY <2>1, <2>4, <2>5 DEF TopLevel
    <2>7. s + EndAt(m) <= p'
      <3>1. p \in Nat /\ s + EndAt(m) \in Nat
        BY PlacesType, KeySite DEF TypeOK, OnMember
      <3>. QED
        BY <2>1, <2>4, <3>1
    <2>8. BehindValue(s, m)'
      BY <2>2, <2>4, <2>6, <2>7 DEF BehindValue
    <2>. QED
      BY <2>8
  <1>7. InValue(s, m)' \/ BehindValue(s, m)'
    BY <1>2, <1>5, <1>6
  <1>. QED
    BY <1>2, <1>4, <1>7, Loops DEF Reading

\* EndBare ends at the member's terminator, behind the value's white space.
LEMMA EndBareStays ==
    ASSUME TypeOK, LocInv, NEW s, NEW m, OnMember(s, m), EndBare
    PROVE  Reading(s, m)'
  <1>0. /\ pc = "bare" /\ AtBareEnd /\ pc' = "toEnd" /\ p' = p /\ valueEnd' = p
        /\ UNCHANGED <<colon, value>>
    BY DEF EndBare, Move, TypeOK
  <1>2. /\ colon = s + ColonAt(m) /\ value = s + ValueAt(m) /\ IsBare(m.value)
        /\ InValue(s, m) \/ BehindValue(s, m)
    BY <1>0, Loops DEF OnMember, Reading
  <1>5. ~InValue(s, m)
    <2>. SUFFICES ASSUME InValue(s, m) PROVE FALSE
      OBVIOUS
    <2>1. PICK i \in 1..Len(m.value) :
            p = s + ValueAt(m) + i - 1 /\ Reads(m.value, i, inString, brackets, braces)
      BY DEF InValue
    <2>2. At(p) = m.value[i] /\ p < Len(payload)
      BY <2>1, MemberInValue
    <2>3. TopLevel /\ m.value[i] \in Terminator
      BY <1>0, <2>2 DEF AtBareEnd
    <2>4. AtTop(m.value, i)
      BY <2>1, <2>3 DEF AtTop, Reads, TopLevel
    <2>. QED
      BY <1>2, <2>3, <2>4 DEF IsBare
  <1>6. TopLevel /\ s + EndAt(m) <= p /\ p <= s + StopAt(m)
    BY <1>2, <1>5 DEF BehindValue
  <1>7. p = s + StopAt(m)
    <2>1. p < Len(payload) /\ (At(p) \in Terminator => p = s + StopAt(m))
      BY <1>6, MemberAtStop
    <2>. QED
      BY <1>0, <2>1 DEF AtBareEnd
  <1>8. valueEnd' = s + ValueAt(m) + Len(ValueTaken(m)) /\ p' <= s + StopAt(m)
    <2>1. m.value[1] # Quote
      BY <1>2 DEF IsBare
    <2>2. PICK va \in Nat, t \in Nat, st \in Nat :
              va = ValueAt(m) /\ t = Len(ValueTaken(m)) /\ st = StopAt(m) /\ va + t = st
      BY <2>1, TakenLength, PlacesType DEF OnMember
    <2>3. s \in Nat
      BY KeySite
    <2>4. s + st = s + va + t /\ s + st <= s + st
      BY <2>2, <2>3
    <2>. QED
      BY <1>0, <1>7, <2>2, <2>4
  <1>. QED
    BY <1>0, <1>2, <1>8, Loops DEF Reading

\* At a member of the key's name the search does not give up.
LEMMA RefuseNot == ASSUME TypeOK, LocInv, NEW s, NEW m, OnMember(s, m) PROVE ~Refuse
  <1>1. ASSUME pc = "toColon", ~HereIn(Blank \cup {":"}) PROVE FALSE
    BY <1>1, MemberAtColon DEF HereIn
  <1>2. ASSUME pc = "toValue", p >= Len(payload) PROVE FALSE
    <2>1. p < Len(payload) /\ p \in Nat /\ Len(payload) \in Nat
      BY <1>2, MemberAtValue DEF TypeOK
    <2>. QED
      BY <1>2, <2>1
  <1>3. ASSUME pc = "quoted", p >= Len(payload) PROVE FALSE
    <2>1. PICK i \in 2..Len(m.value) : p = s + ValueAt(m) + i - 1
      BY <1>3 DEF OnMember, Reading, Quoting
    <2>2. i \in 1..Len(m.value)
      OBVIOUS
    <2>3. p < Len(payload) /\ p \in Nat /\ Len(payload) \in Nat
      BY <2>1, <2>2, MemberInValue DEF TypeOK
    <2>. QED
      BY <1>3, <2>3
  <1>4. ASSUME pc = "toEnd", ~HereIn(Blank \cup Terminator) PROVE FALSE
    <2>1. s + EndAt(m) <= p /\ p <= s + StopAt(m)
      BY <1>4, EndIsBehind
    <2>. QED
      BY <1>4, <2>1, MemberAtStop DEF HereIn
  <1>. QED
    BY <1>1, <1>2, <1>3, <1>4 DEF Refuse

\* Every step but FindKey leaves the payload, its source and the key's place.
LEMMA PlacesStay ==
    ASSUME [Next]_vars
    PROVE  payload' = payload /\ source' = source /\ (pc # "find" => keyPos' = keyPos)
  <1>1. ASSUME Search
        PROVE  payload' = payload /\ source' = source /\ (pc # "find" => keyPos' = keyPos)
    BY <1>1 DEF Search, Locate, FindKey, MissKey, SkipBlank, ReadColon, BeginQuoted, ScanQuoted,
       EndQuoted, BeginBare, ScanBare, EndBare, Refuse, Finish, Move
  <1>2. ASSUME Read \/ SliceClaim \/ SliceFails \/ Constrain
        PROVE payload' = payload /\ source' = source /\ keyPos' = keyPos
    BY <1>2 DEF Read, SliceClaim, SliceFails, Constrain
  <1>3. ASSUME UNCHANGED vars PROVE payload' = payload /\ source' = source /\ keyPos' = keyPos
    BY <1>3 DEF vars, locator
  <1>. QED
    BY <1>1, <1>2, <1>3 DEF Next

\* Behind the search nothing moves.
LEMMA LocatedStays ==
    ASSUME NEW s, NEW m, Reading(s, m), pc \in PastValue, pc' \in LocatedPcs,
           UNCHANGED <<p, colon, value, valueEnd>>
    PROVE  Reading(s, m)'
  <1>1. /\ colon = s + ColonAt(m) /\ value = s + ValueAt(m)
        /\ valueEnd = s + ValueAt(m) + Len(ValueTaken(m)) /\ p <= s + StopAt(m)
    BY Loops DEF Reading
  <1>. QED
    BY <1>1, Loops DEF Reading

\* The search stays at the member, and goes through its parts.
LEMMA MemberNext ==
    ASSUME TypeOK, LocInv, [Next]_vars, NEW s, NEW m, OnMember(s, m)
    PROVE  OnMember(s, m)'
  <1>0. pc \notin {"find"} \cup Failed
    BY DEF OnMember, Reading
  <1>1. payload' = payload /\ keyPos' = keyPos
    BY <1>0, PlacesStay
  <1>2. ASSUME SkipBlank \/ ReadColon \/ BeginQuoted \/ ScanQuoted \/ EndQuoted \/ BeginBare
               \/ ScanBare \/ EndBare
        PROVE  Reading(s, m)'
    BY <1>2, SkipBlankStays, ReadColonStays, BeginQuotedStays, ScanQuotedStays, EndQuotedStays,
       BeginBareStays, ScanBareStays, EndBareStays
  <1>3. ~FindKey /\ ~MissKey /\ ~Refuse
    BY <1>0, RefuseNot DEF FindKey, MissKey
  <1>4. ASSUME Finish PROVE Reading(s, m)'
    <2>1. pc = "toEnd" /\ pc' = "found" /\ p' = p + 0 /\ UNCHANGED <<colon, value, valueEnd>>
      BY <1>4 DEF Finish, Move
    <2>2. p' = p
      BY <2>1 DEF TypeOK
    <2>. QED
      BY <2>1, <2>2, Loops, LocatedStays DEF OnMember
  <1>5. ASSUME Read \/ SliceClaim \/ SliceFails \/ Constrain PROVE Reading(s, m)'
    <2>1. /\ pc \in PastValue /\ pc' \in LocatedPcs
          /\ UNCHANGED <<p, colon, value, valueEnd>>
      BY <1>5, Loops DEF Read, SliceClaim, SliceFails, Constrain
    <2>. QED
      BY <2>1, LocatedStays DEF OnMember
  <1>6. ASSUME UNCHANGED vars PROVE Reading(s, m)'
    <2>1. UNCHANGED <<pc, p, colon, value, valueEnd, inString, brackets, braces>>
      BY <1>6 DEF vars, locator
    <2>2. Quoting(s, m)' = Quoting(s, m)
      BY <2>1 DEF Quoting
    <2>3. InValue(s, m)' = InValue(s, m) /\ BehindValue(s, m)' = BehindValue(s, m)
      BY <2>1 DEF InValue, BehindValue, TopLevel
    <2>4. (pc \in PastColon)' = (pc \in PastColon) /\ (pc \in PastValue)' = (pc \in PastValue)
      BY <2>1 DEF PastColon, PastValue, LocatedPcs
    <2>5. Reading(s, m)
      BY DEF OnMember
    <2>. QED
      BY <2>1, <2>2, <2>3, <2>5, Loops DEF Reading
  <1>7. Reading(s, m)'
    BY <1>2, <1>3, <1>4, <1>5, <1>6 DEF Next, Search, Locate
  <1>. QED
    BY <1>1, <1>7 DEF OnMember

-----------------------------------------------------------------------------
(* The search at a value that reads like the key.                          *)

OnLookalike(s, m, o) ==
    /\ s \in Nat /\ IsMember(m) /\ StandsAt(payload, s, m)
    /\ o \in Occurrences(m.value) /\ keyPos = s + ValueAt(m) + o
    /\ pc \in {"toColon", "badFormat"} /\ p <= s + StopAt(m)

\* No colon follows a lookalike, and blanks only up to the member's terminator.
LEMMA NoColon ==
    ASSUME TypeOK, LocInv, NEW s, NEW m, NEW o, OnLookalike(s, m, o), pc = "toColon"
    PROVE  ~Here(":") /\ (At(p) \in Blank => p + 1 <= s + StopAt(m))
  <1>1. PICK va \in Nat, en \in Nat, st \in Nat, v \in Nat :
           /\ va = ValueAt(m) /\ en = EndAt(m) /\ st = StopAt(m) /\ v = Len(m.value)
    BY PlacesType DEF OnLookalike
  <1>2. SiteOf(s, m)
    BY MemberSite DEF OnLookalike
  <1>3. /\ s \in Nat /\ en = va + v /\ en <= st
        /\ At(s + st) \in Terminator
        /\ \A q \in (s + en)..(s + st - 1) : At(q) \in Blank
        /\ \A j \in 1..v : At(s + va + j - 1) = m.value[j]
    BY <1>1, <1>2 DEF SiteOf, Site
  <1>n. PICK n \in Nat : n = Len(Needle)
    BY NeedleType
  <1>4. o \in Nat /\ o + n <= v /\ o \in Occurrences(m.value)
    BY <1>1, <1>n DEF OnLookalike, Occurrences, OccursAt
  <1>5. keyPos = s + va + o /\ p <= s + st
    BY <1>1 DEF OnLookalike
  <1>6. AfterKey = s + va + o + n
    BY <1>5, <1>n DEF AfterKey
  <1>7. s + va + o + n <= p /\ \A k \in (s + va + o + n)..(p - 1) : At(k) \in Blank
    BY <1>6 DEF LocInv, ColonSought, Within
  <1>p. p \in Nat
    BY DEF TypeOK
  <1>8. ASSUME At(p) = ":" PROVE FALSE
    <2>1. CASE p = s + st
      BY <1>3, <1>8, <2>1, Marks
    <2>2. CASE s + en <= p /\ p < s + st
      <3>1. p \in (s + en)..(s + st - 1)
        BY <1>p, <2>2, <1>3
      <3>. QED
        BY <1>3, <1>8, <3>1, Marks
    <2>3. CASE p < s + en
      <3>1. PICK c \in 1..v : p = s + va + c - 1
        <4>1. p - s - va + 1 \in 1..v /\ p = s + va + (p - s - va + 1) - 1
          BY <1>3, <1>4, <1>7, <1>p, <2>3
        <4>. QED
          BY <4>1
      <3>2. m.value[c] = ":"
        BY <1>3, <1>8, <3>1
      <3>3. c \in (o + n + 1)..v
        BY <1>3, <1>4, <1>7, <3>1
      <3>4. PICK b \in (o + n + 1)..(c - 1) : m.value[b] \notin Blank
        <4>1. NamesNothing(m.value)
          BY DEF OnLookalike, IsMember
        <4>. QED
          BY <1>1, <1>4, <1>n, <3>2, <3>3, <4>1 DEF NamesNothing
      <3>5. b \in 1..v /\ s + va + b - 1 \in (s + va + o + n)..(p - 1)
        BY <1>3, <1>4, <3>1, <3>3, <3>4
      <3>6. At(s + va + b - 1) = m.value[b]
        BY <1>3, <3>5
      <3>. QED
        BY <1>7, <3>4, <3>5, <3>6
    <2>4. p = s + st \/ (s + en <= p /\ p < s + st) \/ p < s + en
      <3>1. s \in Nat /\ p <= s + st
        BY <1>3, <1>5
      <3>. QED
        BY <1>p, <3>1
    <2>. QED
      BY <2>1, <2>2, <2>3, <2>4
  <1>9. ASSUME At(p) \in Blank PROVE p + 1 <= s + st
    <2>1. p # s + st
      BY <1>3, <1>9, Marks
    <2>. QED
      BY <1>3, <1>5, <1>p, <2>1
  <1>. QED
    BY <1>1, <1>8, <1>9 DEF Here

\* At a lookalike the search goes no further than the blanks behind it.
LEMMA LookalikeNext ==
    ASSUME TypeOK, LocInv, [Next]_vars, NEW s, NEW m, NEW o, OnLookalike(s, m, o)
    PROVE  OnLookalike(s, m, o)'
  <1>0. pc \in {"toColon", "badFormat"} /\ p <= s + StopAt(m)
    BY DEF OnLookalike
  <1>1. payload' = payload /\ keyPos' = keyPos
    BY <1>0, PlacesStay
  <1>2. ASSUME SkipBlank PROVE pc' \in {"toColon", "badFormat"} /\ p' <= s + StopAt(m)
    <2>1. pc = "toColon" /\ pc' = pc /\ p' = p + 1 /\ At(p) \in Blank
      BY <1>0, <1>2 DEF SkipBlank, Move, HereIn
    <2>. QED
      BY <2>1, NoColon
  <1>3. ASSUME Refuse PROVE pc' \in {"toColon", "badFormat"} /\ p' <= s + StopAt(m)
    <2>1. pc' = "badFormat" /\ p' = p + 0
      BY <1>3 DEF Refuse, Move
    <2>2. p' = p
      BY <2>1 DEF TypeOK
    <2>. QED
      BY <1>0, <2>1, <2>2
  <1>4. ~ReadColon
    BY NoColon DEF ReadColon
  <1>5. /\ ~FindKey /\ ~MissKey /\ ~BeginQuoted /\ ~ScanQuoted /\ ~EndQuoted /\ ~BeginBare
        /\ ~ScanBare /\ ~EndBare /\ ~Finish /\ ~Read /\ ~SliceClaim /\ ~SliceFails /\ ~Constrain
    BY <1>0 DEF FindKey, MissKey, BeginQuoted, ScanQuoted, EndQuoted, BeginBare, ScanBare, EndBare,
       Finish, Read, SliceClaim, SliceFails, Constrain
  <1>6. ASSUME UNCHANGED vars PROVE pc' \in {"toColon", "badFormat"} /\ p' <= s + StopAt(m)
    BY <1>0, <1>6 DEF vars, locator
  <1>7. pc' \in {"toColon", "badFormat"} /\ p' <= s + StopAt(m)
    BY <1>2, <1>3, <1>4, <1>5, <1>6 DEF Next, Search, Locate
  <1>. QED
    BY <1>1, <1>7 DEF OnLookalike

AtMember == \E n \in 1..Len(source) : FirstMember(source, n) /\ OnMember(keyPos, source[n])
AtLookalike ==
    \E n \in 1..Len(source), s \in Nat, o \in Nat :
        /\ \A k \in 1..Len(source) : FirstMember(source, k) => n < k
        /\ OnLookalike(s, source[n], o)

\* In a document the search is at the first member of the key's name, or at a
\* lookalike in the value of an earlier one.
DocInv ==
    source # <<>> =>
        /\ source \in Documents /\ payload = TextOf(source)
        /\ pc = "notFound" => \A n \in 1..Len(source) : ~FirstMember(source, n)
        /\ pc \notin {"find", "notFound"} => AtMember \/ AtLookalike

\* Nothing is found before the search.
LEMMA DocInit == Init => DocInv
  BY DEF Init, LocatorInit, DocInv

\* The document whose text is searched.
LEMMA SourceLaid ==
    ASSUME DocInv, source # <<>>, NEW d, d = source
    PROVE  /\ d \in Documents /\ Len(d) \in Nat /\ Len(d) >= 1 /\ payload \in Seq(Chars)
           /\ \A n \in 1..Len(d) : IsMember(d[n])
           /\ \E at : Laid(payload, d, at)
  <1>1. d \in Documents /\ payload = TextOf(d)
    BY DEF DocInv
  <1>2. d \in Seq(Members)
    BY <1>1, ClaimsAssumption
  <1>3. Len(d) \in Nat /\ Len(d) >= 1
    BY <1>2
  <1>4. \E at : Laid(payload, d, at)
    BY <1>1, <1>3, TextLaid
  <1>. QED
    BY <1>1, <1>3, <1>4, TextType, MembersAre

\* The members of the key's name are among the occurrences.
LEMMA KeysOccur ==
    ASSUME NEW d \in Documents, NEW text \in Seq(Chars), NEW at, Laid(text, d, at),
           NEW k \in 1..Len(d), d[k].key = Key
    PROVE  at[k] \in Nat /\ at[k] \in Occurrences(text)
  <1>1. at[k] \in Nat /\ StandsAt(text, at[k], d[k]) /\ IsMember(d[k])
    BY MembersAre DEF Laid
  <1>2. OccursAt(text, at[k])
    BY <1>1, KeyOccurs
  <1>3. at[k] \in 0..Len(text)
    <2>1. at[k] + StopAt(d[k]) < Len(text)
      BY <1>1 DEF StandsAt
    <2>2. StopAt(d[k]) \in Nat /\ Len(text) \in Nat
      BY <1>1, PlacesType
    <2>. QED
      BY <1>1, <2>1, <2>2
  <1>. QED
    BY <1>1, <1>2, <1>3 DEF Occurrences

\* Without an occurrence there is no member of the key's name.
LEMMA MissedIsMissing ==
    ASSUME TypeOK, DocInv, source # <<>>, Occurrences(payload) = {},
           NEW n \in 1..Len(source)
    PROVE  ~FirstMember(source, n)
  <1>1. PICK d : d = source
    OBVIOUS
  <1>2. PICK at : Laid(payload, d, at)
    BY <1>1, SourceLaid
  <1>3. d \in Documents /\ payload \in Seq(Chars) /\ n \in 1..Len(d)
    BY <1>1, SourceLaid
  <1>4. ASSUME d[n].key = Key PROVE FALSE
    BY <1>2, <1>3, <1>4, KeysOccur
  <1>. QED
    BY <1>1, <1>4 DEF FirstMember

\* The first occurrence in a document.
Finds(d, text, i) ==
    \/ \E n \in 1..Len(d) :
          FirstMember(d, n) /\ IsMember(d[n]) /\ StandsAt(text, i, d[n])
    \/ \E n \in 1..Len(d), s \in Nat, o \in Nat :
          /\ \A k \in 1..Len(d) : FirstMember(d, k) => n < k
          /\ IsMember(d[n]) /\ StandsAt(text, s, d[n]) /\ o \in Occurrences(d[n].value)
          /\ i = s + ValueAt(d[n]) + o

\* It is the first member of the key's name, or in a value of a member before it.
LEMMA FirstOccurrence ==
    ASSUME NEW d \in Documents, Len(d) >= 1, NEW text \in Seq(Chars), NEW at, Laid(text, d, at),
           NEW i \in Occurrences(text), \A j \in Occurrences(text) : i <= j
    PROVE  Finds(d, text, i)
  <1>0. i \in Nat /\ OccursAt(text, i) /\ Says(text, i) /\ Len(text) \in Nat
    BY NeedleSays DEF Occurrences
  <1>1. 1 <= i
    <2>1. text[1] # Quote
      BY Marks DEF Laid
    <2>2. text[i + 1] = Quote
      BY <1>0 DEF Says
    <2>3. i # 0
      <3>1. i = 0 => i + 1 = 1
        OBVIOUS
      <3>. QED
        BY <2>1, <2>2, <3>1
    <2>. QED
      BY <1>0, <2>3
  <1>2. i < Len(text)
    <2>1. i + Len(Key) + 2 <= Len(text) /\ Len(Key) \in Nat
      BY <1>0, NeedleShape DEF Says
    <2>. QED
      BY <1>0, <2>1
  <1>3. PICK n \in 1..Len(d) : at[n] <= i /\ i <= at[n] + StopAt(d[n])
    BY <1>0, <1>1, <1>2, InMember
  <1>m. IsMember(d[n]) /\ at[n] \in Nat /\ StandsAt(text, at[n], d[n])
    BY MembersAre DEF Laid
  <1>4. \/ i = at[n] /\ d[n].key = Key
        \/ \E o \in Occurrences(d[n].value) : i = at[n] + ValueAt(d[n]) + o
    BY <1>0, <1>3, <1>m, OccurrenceIs
  <1>5. ASSUME NEW k \in 1..Len(d), d[k].key = Key PROVE at[k] \in Nat /\ i <= at[k]
    BY <1>5, KeysOccur
  <1>6. CASE i = at[n] /\ d[n].key = Key
    <2>1. ASSUME NEW j \in 1..(n - 1), d[j].key = Key PROVE FALSE
      <3>1. j \in 1..Len(d) /\ j < n
        BY <1>3, MembersAre
      <3>2. at[j] < at[n]
        BY <3>1, InOrder
      <3>3. at[j] \in Nat /\ i <= at[j]
        BY <1>5, <2>1, <3>1
      <3>. QED
        BY <1>6, <1>m, <3>2, <3>3
    <2>2. FirstMember(d, n)
      BY <1>6, <2>1 DEF FirstMember
    <2>. QED
      BY <1>6, <1>m, <2>2 DEF Finds
  <1>7. CASE \E o \in Occurrences(d[n].value) : i = at[n] + ValueAt(d[n]) + o
    <2>1. PICK o \in Occurrences(d[n].value) : i = at[n] + ValueAt(d[n]) + o
      BY <1>7
    <2>2. o \in Nat /\ ValueAt(d[n]) \in Nat /\ ValueAt(d[n]) > 0
      BY <1>m, PlacesType DEF Occurrences
    <2>3. at[n] < i
      BY <1>m, <2>1, <2>2
    <2>4. ASSUME NEW k \in 1..Len(d), FirstMember(d, k) PROVE n < k
      <3>1. at[k] \in Nat /\ i <= at[k]
        BY <1>5, <2>4 DEF FirstMember
      <3>2. ~(at[k] < at[n]) /\ at[k] # at[n]
        BY <1>0, <1>m, <2>3, <3>1
      <3>3. k # n
        BY <3>2
      <3>4. ~(k < n)
        BY <3>2, InOrder
      <3>5. k \in Nat /\ n \in Nat
        BY MembersAre
      <3>. QED
        BY <3>3, <3>4, <3>5
    <2>. QED
      BY <1>m, <2>1, <2>2, <2>4 DEF Finds
  <1>. QED
    BY <1>4, <1>6, <1>7

\* FindKey finds the member or a lookalike before it.
LEMMA FindKeyFinds ==
    ASSUME TypeOK, DocInv, source # <<>>, FindKey, UNCHANGED source
    PROVE  (AtMember \/ AtLookalike)'
  <1>1. /\ keyPos' \in Occurrences(payload) /\ \A j \in Occurrences(payload) : keyPos' <= j
        /\ p' = keyPos' + Len(Needle) /\ pc' = "toColon" /\ payload' = payload
    BY DEF FindKey
  <1>d. PICK d : d = source
    OBVIOUS
  <1>2. PICK at : Laid(payload, d, at)
    BY <1>d, SourceLaid
  <1>3. /\ d \in Documents /\ Len(d) \in Nat /\ Len(d) >= 1 /\ payload \in Seq(Chars)
        /\ \A n \in 1..Len(d) : IsMember(d[n])
    BY <1>d, SourceLaid
  <1>i. PICK i : i = keyPos'
    OBVIOUS
  <1>4. Finds(d, payload, i)
    BY <1>1, <1>2, <1>3, <1>i, FirstOccurrence
  <1>5. i \in Nat
    BY <1>1, <1>i DEF Occurrences
  <1>6. CASE \E n \in 1..Len(d) :
                 FirstMember(d, n) /\ IsMember(d[n]) /\ StandsAt(payload, i, d[n])
    <2>1. PICK n \in 1..Len(d) :
              FirstMember(d, n) /\ IsMember(d[n]) /\ StandsAt(payload, i, d[n])
      BY <1>6
    <2>2. d[n].key = Key
      BY <2>1 DEF FirstMember
    <2>3. p' <= i + ColonAt(d[n])
      <3>1. Len(Needle) = KeyEnd(d[n])
        BY <2>2, NeedleShape DEF KeyEnd
      <3>2. KeyEnd(d[n]) \in Nat /\ ColonAt(d[n]) \in Nat /\ KeyEnd(d[n]) <= ColonAt(d[n])
        BY <2>1, PlacesType
      <3>3. p' = i + KeyEnd(d[n])
        BY <1>1, <1>i, <3>1
      <3>. QED
        BY <1>5, <3>2, <3>3
    <2>4. Reading(i, d[n])'
      BY <1>1, <2>3, Loops DEF Reading
    <2>5. OnMember(i, d[n])'
      BY <1>1, <1>i, <2>1, <2>2, <2>4 DEF OnMember
    <2>6. AtMember'
      BY <1>d, <1>i, <2>1, <2>5 DEF AtMember
    <2>. QED
      BY <2>6
  <1>7. CASE \E n \in 1..Len(d), s \in Nat, o \in Nat :
                 /\ \A k \in 1..Len(d) : FirstMember(d, k) => n < k
                 /\ IsMember(d[n]) /\ StandsAt(payload, s, d[n]) /\ o \in Occurrences(d[n].value)
                 /\ i = s + ValueAt(d[n]) + o
    <2>1. PICK n \in 1..Len(d), s \in Nat, o \in Nat :
                 /\ \A k \in 1..Len(d) : FirstMember(d, k) => n < k
                 /\ IsMember(d[n]) /\ StandsAt(payload, s, d[n]) /\ o \in Occurrences(d[n].value)
                 /\ i = s + ValueAt(d[n]) + o
      BY <1>7
    <2>2. p' <= s + StopAt(d[n])
      <3>1. PICK va \in Nat, v \in Nat, en \in Nat, st \in Nat, l \in Nat :
                /\ va = ValueAt(d[n]) /\ v = Len(d[n].value) /\ en = EndAt(d[n]) /\ st = StopAt(d[n])
                /\ l = Len(Needle) /\ en = va + v /\ en <= st
        BY <2>1, PlacesType, NeedleType
      <3>2. o + l <= v
        BY <2>1, <3>1 DEF Occurrences, OccursAt
      <3>3. p' = s + va + o + l
        BY <1>1, <1>i, <2>1, <3>1
      <3>4. s + va + o + l <= s + st
        <4>1. en = va + v /\ en <= st
          BY <3>1
        <4>. QED
          BY <3>2, <4>1
      <3>. QED
        BY <3>1, <3>3, <3>4
    <2>3. OnLookalike(s, d[n], o)'
      BY <1>1, <1>i, <2>1, <2>2 DEF OnLookalike
    <2>4. AtLookalike'
      BY <1>d, <2>1, <2>3 DEF AtLookalike
    <2>. QED
      BY <2>4
  <1>. QED
    BY <1>4, <1>6, <1>7 DEF Finds

\* Every step of the search, the host and the circuit keeps DocInv.
LEMMA DocNext == TypeOK /\ LocInv /\ DocInv /\ [Next]_vars => DocInv'
  <1>. SUFFICES ASSUME TypeOK, LocInv, DocInv, [Next]_vars, source' # <<>> PROVE DocInv'
    BY DEF DocInv
  <1>1. payload' = payload /\ source' = source /\ source # <<>>
    BY PlacesStay
  <1>2. source' \in Documents /\ payload' = TextOf(source')
    BY <1>1 DEF DocInv
  <1>3. CASE pc = "find"
    <2>1. CASE FindKey
      <3>1. pc' = "toColon"
        BY <2>1 DEF FindKey
      <3>. QED
        BY <1>1, <1>2, <2>1, <3>1, FindKeyFinds DEF DocInv
    <2>2. CASE MissKey
      <3>1. pc' = "notFound" /\ Occurrences(payload) = {}
        BY <2>2 DEF MissKey, Move
      <3>2. \A n \in 1..Len(source) : ~FirstMember(source, n)
        BY <1>1, <3>1, MissedIsMissing
      <3>. QED
        BY <1>1, <1>2, <3>1, <3>2 DEF DocInv
    <2>3. CASE UNCHANGED vars
      <3>1. pc' = "find"
        BY <1>3, <2>3 DEF vars, locator
      <3>. QED
        BY <1>2, <3>1 DEF DocInv
    <2>4. FindKey \/ MissKey \/ UNCHANGED vars
      BY <1>3 DEF Next, Search, Locate, SkipBlank, ReadColon, BeginQuoted, ScanQuoted, EndQuoted,
         BeginBare, ScanBare, EndBare, Refuse, Finish, Read, SliceClaim, SliceFails, Constrain
    <2>. QED
      BY <2>1, <2>2, <2>3, <2>4
  <1>4. CASE pc = "notFound"
    <2>1. pc' = "notFound"
      BY <1>4 DEF Next, Search, Locate, FindKey, MissKey, SkipBlank, ReadColon, BeginQuoted,
         ScanQuoted, EndQuoted, BeginBare, ScanBare, EndBare, Refuse, Finish, Read, SliceClaim,
         SliceFails, Constrain, vars, locator
    <2>. QED
      BY <1>1, <1>2, <1>4, <2>1 DEF DocInv
  <1>5. CASE pc \notin {"find", "notFound"}
    <2>1. keyPos' = keyPos
      BY <1>5, PlacesStay
    <2>2. ASSUME AtMember PROVE AtMember'
      <3>1. PICK n \in 1..Len(source) : FirstMember(source, n) /\ OnMember(keyPos, source[n])
        BY <2>2 DEF AtMember
      <3>2. PICK s, m : s = keyPos /\ m = source[n]
        OBVIOUS
      <3>3. OnMember(s, m)'
        BY <3>1, <3>2, MemberNext
      <3>4. s = keyPos' /\ m = source'[n] /\ FirstMember(source', n) /\ n \in 1..Len(source')
        BY <1>1, <2>1, <3>1, <3>2
      <3>. QED
        BY <3>3, <3>4 DEF AtMember
    <2>3. ASSUME AtLookalike PROVE AtLookalike'
      <3>1. PICK n \in 1..Len(source), s \in Nat, o \in Nat :
              /\ \A k \in 1..Len(source) : FirstMember(source, k) => n < k
              /\ OnLookalike(s, source[n], o)
        BY <2>3 DEF AtLookalike
      <3>2. PICK m : m = source[n]
        OBVIOUS
      <3>3. OnLookalike(s, m, o)'
        BY <3>1, <3>2, LookalikeNext
      <3>4. /\ m = source'[n] /\ n \in 1..Len(source')
            /\ \A k \in 1..Len(source') : FirstMember(source', k) => n < k
        BY <1>1, <3>1, <3>2
      <3>. QED
        BY <3>3, <3>4 DEF AtLookalike
    <2>4. (AtMember \/ AtLookalike)'
      BY <1>1, <1>5, <2>2, <2>3 DEF DocInv
    <2>5. pc' # "notFound"
      BY <2>4 DEF AtMember, AtLookalike, OnMember, OnLookalike, Reading, Failed
    <2>. QED
      BY <1>2, <2>4, <2>5 DEF DocInv
  <1>. QED
    BY <1>3, <1>4, <1>5

-----------------------------------------------------------------------------
\* What is cut out of a text where a word stands is the word.
LEMMA CutOut ==
    ASSUME NEW text \in Seq(Chars), NEW a \in Nat, NEW w \in Seq(Chars), Spans(text, a, w)
    PROVE  SubSeq(text, a + 1, a + Len(w)) = w
  <1>n. PICK n \in Nat : n = Len(w)
    OBVIOUS
  <1>1. a + n <= Len(text) /\ \A k \in 1..n : text[a + k] = w[k]
    BY <1>n DEF Spans
  <1>x. PICK x : x = SubSeq(text, a + 1, a + n)
    OBVIOUS
  <1>2. x \in Seq(Chars) /\ Len(x) = n
    BY <1>1, <1>x
  <1>3. ASSUME NEW k \in 1..n PROVE x[k] = w[k]
    <2>1. x[k] = text[a + k]
      BY <1>1, <1>x
    <2>. QED
      BY <1>1, <2>1
  <1>4. x = w
    BY <1>2, <1>3, <1>n
  <1>. QED
    BY <1>4, <1>n, <1>x

\* The value as the host takes it stands at the value's place.
LEMMA TakenSpans ==
    ASSUME NEW text \in Seq(Chars), NEW s \in Nat, NEW m, IsMember(m), StandsAt(text, s, m)
    PROVE  ValueTaken(m) \in Seq(Chars) /\ Spans(text, s + ValueAt(m), ValueTaken(m))
  <1>1. PICK v \in Seq(Chars), e \in Seq(Chars) : v = m.value /\ e = m.afterValue
    BY MemberTyped
  <1>2. PICK va \in Nat, a \in Nat, b \in Nat :
            va = ValueAt(m) /\ a = Len(v) /\ b = Len(e) /\ s + EndAt(m) = s + va + a
    <2>1. ValueAt(m) \in Nat /\ Len(v) \in Nat /\ Len(e) \in Nat
      BY PlacesType
    <2>2. s + EndAt(m) = s + ValueAt(m) + Len(v)
      BY <1>1, <2>1 DEF EndAt
    <2>. QED
      BY <2>1, <2>2
  <1>3. Spans(text, s + va, v) /\ Spans(text, s + va + a, e)
    BY <1>1, <1>2 DEF StandsAt, Pieces
  <1>4. CASE v[1] = Quote
    BY <1>1, <1>2, <1>3, <1>4 DEF ValueTaken
  <1>5. CASE v[1] # Quote
    <2>x. PICK x : x = v \o e
      OBVIOUS
    <2>1. /\ x \in Seq(Chars) /\ Len(x) = a + b
          /\ \A k \in 1..a : x[k] = v[k]
          /\ \A k \in 1..b : x[a + k] = e[k]
      BY <1>2, <2>x, Joined
    <2>2. /\ \A k \in 1..a : text[s + va + k] = v[k]
          /\ \A k \in 1..b : text[s + va + a + k] = e[k]
          /\ s + va + a + b <= Len(text)
      BY <1>2, <1>3 DEF Spans
    <2>3. ASSUME NEW k \in 1..(a + b) PROVE text[s + va + k] = x[k]
      <3>1. CASE k \in 1..a
        BY <2>1, <2>2, <3>1
      <3>2. CASE k \notin 1..a
        <4>1. PICK j \in 1..b : j = k - a /\ k = a + j
          BY <3>2
        <4>2. s + va + a + j = s + va + k
          BY <4>1
        <4>. QED
          BY <2>1, <2>2, <4>1, <4>2
      <3>. QED
        BY <3>1, <3>2
    <2>4. Spans(text, s + va, x)
      <3>1. s + va + (a + b) <= Len(text)
        BY <2>2
      <3>. QED
        BY <2>1, <2>3, <3>1 DEF Spans
    <2>5. ValueTaken(m) = x
      BY <1>1, <1>5, <2>x DEF ValueTaken
    <2>. QED
      BY <1>2, <2>1, <2>4, <2>5
  <1>. QED
    BY <1>4, <1>5

\* In every flat document the claim found is the first member of the key's name.
LEMMA FoundIsFirst == TypeOK /\ DocInv => FoundIsMember
  <1>. SUFFICES ASSUME TypeOK, DocInv, Located, source # <<>>
       PROVE \E n \in 1..Len(source) : FirstMember(source, n) /\ ValueBytes = ValueTaken(source[n])
    BY DEF FoundIsMember
  <1>1. pc \in PastColon /\ pc \in PastValue /\ pc \notin {"find", "notFound", "toColon", "badFormat"}
    BY Loops DEF Located
  <1>2. AtMember
    BY <1>1 DEF DocInv, AtLookalike, OnLookalike
  <1>3. PICK n \in 1..Len(source) : FirstMember(source, n) /\ OnMember(keyPos, source[n])
    BY <1>2 DEF AtMember
  <1>4. PICK s, m : s = keyPos /\ m = source[n]
    OBVIOUS
  <1>5. value = s + ValueAt(m) /\ valueEnd = s + ValueAt(m) + Len(ValueTaken(m))
    BY <1>1, <1>3, <1>4 DEF OnMember, Reading
  <1>6. s \in Nat /\ IsMember(m) /\ StandsAt(payload, s, m) /\ payload \in Seq(Chars)
    BY <1>3, <1>4 DEF OnMember, TypeOK
  <1>7. ValueTaken(m) \in Seq(Chars) /\ Spans(payload, s + ValueAt(m), ValueTaken(m))
    BY <1>6, TakenSpans
  <1>8. s + ValueAt(m) \in Nat
    BY <1>6, PlacesType
  <1>9. SubSeq(payload, s + ValueAt(m) + 1, s + ValueAt(m) + Len(ValueTaken(m))) = ValueTaken(m)
    BY <1>6, <1>7, <1>8, CutOut
  <1>10. ValueBytes = ValueTaken(m)
    BY <1>5, <1>9 DEF ValueBytes
  <1>. QED
    BY <1>3, <1>4, <1>10

\* The search fails on no document, but for a lookalike before the member.
LEMMA FirstIsFound == DocInv => MemberIsFound
  <1>. SUFFICES ASSUME DocInv, NEW n \in 1..Len(source), FirstMember(source, n),
                       \A j \in 1..(n - 1) : Occurrences(source[j].value) = {}, pc \in Failed
       PROVE FALSE
    BY DEF MemberIsFound
  <1>1. source # <<>>
    OBVIOUS
  <1>2. pc # "notFound"
    BY <1>1 DEF DocInv
  <1>3. pc = "badFormat"
    BY <1>2 DEF Failed
  <1>4. AtLookalike
    BY <1>1, <1>3 DEF DocInv, AtMember, OnMember, Reading, Failed
  <1>5. PICK k \in 1..Len(source), s \in Nat, o \in Nat :
            /\ \A e \in 1..Len(source) : FirstMember(source, e) => k < e
            /\ OnLookalike(s, source[k], o)
    BY <1>4 DEF AtLookalike
  <1>6. k < n /\ o \in Occurrences(source[k].value)
    BY <1>5 DEF OnLookalike
  <1>7. k \in 1..(n - 1)
    BY <1>6
  <1>. QED
    BY <1>6, <1>7

(* On every flat document and for every key, the claim that locate_claim      *)
(* returns is the first member of that name, and its value is the member's.   *)
THEOREM MembersFound == Spec => []FoundIsMember
  BY TypeCorrect, LocInvInit, LocInvNext, DocInit, DocNext, FoundIsFirst, PTL DEF Spec

(* A document's member of the key's name is found, unless a value before it   *)
(* holds the key as a string.                                                 *)
THEOREM MembersAreFound == Spec => []MemberIsFound
  BY TypeCorrect, LocInvInit, LocInvNext, DocInit, DocNext, FirstIsFound, PTL DEF Spec
=============================================================================
