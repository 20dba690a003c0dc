----------------------------- MODULE StringProofs -----------------------------
(***************************************************************************)
(* The buffer of a String holds the text that the calls on it should have  *)
(* made, for every set of characters, every text and every word that is    *)
(* replaced, whichever call finds no memory.  One thing is assumed: when a *)
(* replacement is longer than its word, no end of the word is the start of *)
(* the word or of the replacement; finding 4 of the README is what happens *)
(* otherwise.  From that follows what the searches and comparisons answer. *)
(* A number that is printed, in every width and every base, reads back.    *)
(***************************************************************************)
EXTENDS WString, TextPrint, ProofLemmas, SequenceTheorems

(***************************************************************************)
(* Texts and buffers: parts of a text, a text that stands in a buffer, and *)
(* what is there after a write.                                            *)
(***************************************************************************)

\* The texts, none of which has a terminator in it.
Text == Seq(Char)

LEMMA TextIs ==
  ASSUME NEW t \in Text
  PROVE  /\ Len(t) \in Nat /\ DOMAIN t = 1 .. Len(t)
         /\ t = [k \in 1 .. Len(t) |-> t[k]]
         /\ \A k \in 1 .. Len(t) : t[k] \in Char /\ t[k] # NUL
         /\ t # None
<1>1. Len(t) \in Nat /\ DOMAIN t = 1 .. Len(t) /\ t \in [1 .. Len(t) -> Char]
  BY DEF Text
<1>2. \A k \in 1 .. Len(t) : t[k] \in Char /\ t[k] # NUL
  BY <1>1, TextAssumption DEF NUL
<1>3. t # None
  <2> SUFFICES ASSUME t = None PROVE FALSE
    OBVIOUS
  <2>1. Len(t) = 1 /\ t[1] = NUL
    BY DEF None
  <2> QED BY <2>1, <1>2
<1> QED BY <1>1, <1>2, <1>3

\* A text built cell by cell, and what a text is cut into.
LEMMA TextOf ==
  ASSUME NEW n \in Nat, NEW w, w = [k \in 1 .. n |-> w[k]], \A k \in 1 .. n : w[k] \in Char
  PROVE  w \in Text /\ Len(w) = n
<1>1. w \in [1 .. n -> Char]
  OBVIOUS
<1> QED BY <1>1 DEF Text

LEMMA PartOf ==
  ASSUME NEW t \in Text, NEW i \in 1 .. Len(t) + 1, NEW j \in 0 .. Len(t)
  PROVE  /\ SubSeq(t, i, j) \in Text
         /\ Len(SubSeq(t, i, j)) = IF i <= j THEN j - i + 1 ELSE 0
         /\ \A k \in 1 .. j - i + 1 : SubSeq(t, i, j)[k] = t[i + k - 1]
<1>1. \A k \in i .. j : t[k] \in Char
  BY TextIs
<1> QED BY <1>1, TextIs, SubSeqProperties DEF Text

\* Three texts, and four.
LEMMA TextsRegroup ==
  ASSUME NEW x \in Seq(Char), NEW y \in Seq(Char), NEW z \in Seq(Char)
  PROVE  (x \o y) \o z = x \o (y \o z)
BY ConcatAssociative

Join(x, y) == x \o y

LEMMA JoinIs ==
  ASSUME NEW x \in Text, NEW y \in Text
  PROVE  Join(x, y) \in Text
BY ConcatProperties DEF Join, Text

LEMMA JoinRegroups ==
  ASSUME NEW x \in Text, NEW y \in Text, NEW z \in Text
  PROVE  Join(Join(x, y), z) = Join(x, Join(y, z))
BY ConcatAssociative DEF Join, Text

LEMMA FourTexts ==
  ASSUME NEW w \in Text, NEW x \in Text, NEW y \in Text, NEW z \in Text
  PROVE  Join(w, Join(x, Join(y, z))) = Join(Join(Join(w, x), y), z)
<1> DEFINE wx == Join(w, x)
           yz == Join(y, z)
<1>1. wx \in Text /\ yz \in Text
  BY JoinIs
<1>2. Join(wx, yz) = Join(w, Join(x, yz))
  BY <1>1, JoinRegroups
<1> HIDE DEF wx
<1>3. Join(Join(wx, y), z) = Join(wx, yz)
  BY <1>1, JoinRegroups
<1> QED BY <1>2, <1>3 DEF wx

LEMMA MinOfTwo ==
  ASSUME NEW a \in Int, NEW b \in Int
  PROVE  Min({a, b}) = IF a <= b THEN a ELSE b
<1> DEFINE m == IF a <= b THEN a ELSE b
           T == {a, b}
<1>1. m \in T /\ \A y \in T : m <= y
  OBVIOUS
<1>2. \A x \in T : (\A y \in T : x <= y) => x = m
  OBVIOUS
<1> HIDE DEF m, T
<1>3. Min(T) \in T /\ \A y \in T : Min(T) <= y
  BY <1>1, Zenon DEF Min
<1> QED BY <1>2, <1>3 DEF m, T

LEMMA MaxOfTwo ==
  ASSUME NEW a \in Int, NEW b \in Int
  PROVE  Max({a, b}) = IF a >= b THEN a ELSE b
<1> DEFINE m == IF a >= b THEN a ELSE b
           T == {a, b}
<1>1. m \in T /\ \A y \in T : m >= y
  OBVIOUS
<1>2. \A x \in T : (\A y \in T : x >= y) => x = m
  OBVIOUS
<1> HIDE DEF m, T
<1>3. Max(T) \in T /\ \A y \in T : Max(T) >= y
  BY <1>1, Zenon DEF Max
<1> QED BY <1>2, <1>3 DEF m, T

\* The cells of a buffer, what they start with at a place, and a text that ends there.
Cell == Char \cup {NUL, Junk}
Buffer(b, c) == c \in Nat /\ b \in [0 .. c -> Cell]
Starts(b, i, u) == \A k \in 1 .. Len(u) : b[i + k - 1] = u[k]
Has(b, i, t) == Starts(b, i, t) /\ b[i + Len(t)] = NUL

\* strlen() finds the end of the text, and the text is what it spans.
LEMMA TextAt ==
  ASSUME NEW b, NEW c, Buffer(b, c), NEW t \in Text, NEW i \in Nat, i + Len(t) <= c, Has(b, i, t)
  PROVE  Strlen(b, i) = Len(t) /\ CStr(b, i) = t
<1> DEFINE T == {k \in DOMAIN b : k >= i /\ b[k] = NUL}
           m == i + Len(t)
<1>1. DOMAIN b = 0 .. c /\ c \in Nat
  BY DEF Buffer
<1>2. m \in T /\ T \in SUBSET Nat
  BY <1>1, TextIs DEF Has
<1>3. ASSUME NEW y \in T PROVE m <= y
  <2> SUFFICES ASSUME y < m PROVE FALSE
    BY <1>1, TextIs
  <2> DEFINE k == y - i + 1
  <2>1. k \in 1 .. Len(t) /\ i + k - 1 = y /\ b[y] = NUL
    BY <1>1, TextIs
  <2>2. b[i + k - 1] = t[k]
    BY <2>1 DEF Has, Starts
  <2> QED BY <2>1, <2>2, TextIs
<1> HIDE DEF T
<1>4. Min(T) \in T /\ Min(T) <= m
  BY <1>2, MinFinds
<1>5. m \in Nat /\ Min(T) \in Nat /\ m <= Min(T)
  BY <1>2, <1>3, <1>4
<1>6. Min(T) = m
  BY <1>4, <1>5
<1>7. Strlen(b, i) = Len(t)
  BY <1>6, TextIs DEF Strlen, T
<1>8. CStr(b, i) = [k \in 1 .. Len(t) |-> b[i + k - 1]]
  BY <1>7 DEF CStr
<1>9. CStr(b, i) = [k \in 1 .. Len(t) |-> t[k]]
  BY <1>8 DEF Has, Starts
<1> QED BY <1>7, <1>9, TextIs

\* What is behind a place in the text.
LEMMA RestAt ==
  ASSUME NEW b, NEW t \in Text, NEW i \in Nat, Has(b, i, t), NEW j \in 0 .. Len(t)
  PROVE  Has(b, i + j, SubSeq(t, j + 1, Len(t)))
<1> DEFINE u == SubSeq(t, j + 1, Len(t))
           n == Len(t)
<1>1. n \in Nat
  BY TextIs
<1>2. Len(u) = n - j /\ \A k \in 1 .. n - j : u[k] = t[j + k]
  <2>1. j + 1 \in 1 .. Len(t) + 1 /\ Len(t) \in 0 .. Len(t)
    BY <1>1
  <2>2. /\ Len(u) = IF j + 1 <= n THEN n - (j + 1) + 1 ELSE 0
        /\ \A k \in 1 .. n - (j + 1) + 1 : u[k] = t[j + 1 + k - 1]
    BY <2>1, PartOf
  <2> HIDE DEF u
  <2>3. n - (j + 1) + 1 = n - j /\ \A k \in 1 .. n - j : j + 1 + k - 1 = j + k
    BY <1>1
  <2>4. Len(u) = n - j
    BY <2>2, <1>1
  <2> QED BY <2>2, <2>3, <2>4
<1> HIDE DEF u
<1>3. ASSUME NEW k \in 1 .. Len(u) PROVE b[i + j + k - 1] = u[k]
  <2>1. j + k \in 1 .. Len(t) /\ i + (j + k) - 1 = i + j + k - 1
    BY <1>1, <1>2
  <2>2. b[i + (j + k) - 1] = t[j + k]
    BY <2>1 DEF Has, Starts
  <2> QED BY <2>1, <2>2, <1>2
<1>4. b[i + j + Len(u)] = NUL
  <2>1. i + j + Len(u) = i + Len(t)
    BY <1>1, <1>2
  <2> QED BY <2>1 DEF Has
<1>5. Has(b, i + j, u)
  BY <1>3, <1>4 DEF Has, Starts
<1> QED BY <1>5 DEF u

\* memcpy() and strcpy() change what they write and keep the rest.
LEMMA MemcpyIs ==
  ASSUME NEW b, NEW c, Buffer(b, c), NEW i \in Nat, NEW w, Len(w) \in Nat, i + Len(w) <= c + 1,
         \A k \in 1 .. Len(w) : w[k] \in Cell
  PROVE  /\ Buffer(Memcpy(b, i, w), c)
         /\ \A k \in 0 .. c : Memcpy(b, i, w)[k] =
              IF k \in i .. i + Len(w) - 1 THEN w[k - i + 1] ELSE b[k]
<1>1. DOMAIN b = 0 .. c /\ c \in Nat
  BY DEF Buffer
<1>2. DOMAIN b \cup i .. i + Len(w) - 1 = 0 .. c
  BY <1>1
<1>3. Memcpy(b, i, w) = [k \in 0 .. c |-> IF k \in i .. i + Len(w) - 1 THEN w[k - i + 1] ELSE b[k]]
  BY <1>2 DEF Memcpy
<1>4. \A k \in i .. i + Len(w) - 1 : w[k - i + 1] \in Cell
  <2> SUFFICES ASSUME NEW k \in i .. i + Len(w) - 1 PROVE w[k - i + 1] \in Cell
    OBVIOUS
  <2>1. k - i + 1 \in 1 .. Len(w)
    OBVIOUS
  <2> QED BY <2>1
<1> QED BY <1>1, <1>3, <1>4 DEF Buffer

LEMMA MemcpyKeeps ==
  ASSUME NEW b, NEW c, Buffer(b, c), NEW i \in Nat, NEW w, Len(w) \in Nat, i + Len(w) <= c + 1,
         \A k \in 1 .. Len(w) : w[k] \in Cell
  PROVE  /\ Starts(Memcpy(b, i, w), i, w)
         /\ \A k \in 0 .. i - 1 : Memcpy(b, i, w)[k] = b[k]
         /\ \A k \in i + Len(w) .. c : Memcpy(b, i, w)[k] = b[k]
<1> DEFINE d == Memcpy(b, i, w)
<1>1. c \in Nat /\ \A k \in 0 .. c : d[k] = IF k \in i .. i + Len(w) - 1 THEN w[k - i + 1] ELSE b[k]
  BY MemcpyIs, ZenonT(60) DEF Buffer
<1> HIDE DEF d
<1>2. ASSUME NEW k \in 1 .. Len(w) PROVE d[i + k - 1] = w[k]
  <2> DEFINE j == i + k - 1
  <2>1. j \in 0 .. c /\ j \in i .. i + Len(w) - 1 /\ j - i + 1 = k
    BY <1>1
  <2> HIDE DEF j
  <2>2. d[j] = w[k]
    BY <2>1, <1>1
  <2> QED BY <2>2 DEF j
<1>3. \A k \in 0 .. i - 1 : d[k] = b[k]
  BY <1>1
<1>4. \A k \in i + Len(w) .. c : d[k] = b[k]
  BY <1>1
<1> QED BY <1>2, <1>3, <1>4 DEF d, Starts

LEMMA StrcpyIs ==
  ASSUME NEW b, NEW c, Buffer(b, c), NEW i \in Nat, NEW t \in Text, i + Len(t) <= c
  PROVE  /\ Buffer(Strcpy(b, i, t), c) /\ Has(Strcpy(b, i, t), i, t)
         /\ \A k \in 0 .. i - 1 : Strcpy(b, i, t)[k] = b[k]
<1> DEFINE w == Append(t, NUL)
<1>1. Len(t) \in Nat /\ Len(w) = Len(t) + 1 /\ w[Len(t) + 1] = NUL /\ \A k \in 1 .. Len(t) : w[k] = t[k]
  BY TextIs DEF Text
<1>2. c \in Nat
  BY DEF Buffer
<1> HIDE DEF w
<1>3. /\ Buffer(Memcpy(b, i, w), c) /\ Starts(Memcpy(b, i, w), i, w)
      /\ \A k \in 0 .. i - 1 : Memcpy(b, i, w)[k] = b[k]
  <2>1. Len(w) \in Nat /\ i + Len(w) <= c + 1
    BY <1>1, <1>2
  <2>2. \A k \in 1 .. Len(w) : w[k] \in Cell
    BY <1>1, TextIs DEF Cell
  <2>3. Buffer(b, c) /\ i \in Nat
    OBVIOUS
  <2>4. Buffer(Memcpy(b, i, w), c)
    BY ONLY <2>1, <2>2, <2>3, MemcpyIs
  <2>5. Starts(Memcpy(b, i, w), i, w) /\ \A k \in 0 .. i - 1 : Memcpy(b, i, w)[k] = b[k]
    BY ONLY <2>1, <2>2, <2>3, MemcpyKeeps
  <2> QED BY ONLY <2>4, <2>5
<1>4. Has(Memcpy(b, i, w), i, t)
  <2> DEFINE d == Memcpy(b, i, w)
  <2>1. \A k \in 1 .. Len(t) + 1 : d[i + k - 1] = w[k]
    BY <1>1, <1>3 DEF Starts
  <2> HIDE DEF d
  <2>2. Len(t) + 1 \in 1 .. Len(t) + 1 /\ i + (Len(t) + 1) - 1 = i + Len(t)
    BY <1>1
  <2>3. d[i + Len(t)] = NUL
    BY <2>1, <2>2, <1>1
  <2>4. \A k \in 1 .. Len(t) : d[i + k - 1] = t[k]
    BY <2>1, <1>1
  <2> QED BY <2>3, <2>4 DEF Has, Starts, d
<1> QED BY <1>3, <1>4 DEF Strcpy, w

\* A text in front of one that ends.
LEMMA TextsJoin ==
  ASSUME NEW b, NEW u \in Text, NEW t \in Text, NEW i \in Nat,
         Starts(b, i, u), Has(b, i + Len(u), t)
  PROVE  u \o t \in Text /\ Len(u \o t) = Len(u) + Len(t) /\ Has(b, i, u \o t)
<1> DEFINE w == u \o t
<1>1. Len(u) \in Nat /\ Len(t) \in Nat
  BY TextIs
<1>2. /\ w \in Text /\ Len(w) = Len(u) + Len(t)
      /\ \A k \in 1 .. Len(u) + Len(t) : w[k] = IF k <= Len(u) THEN u[k] ELSE t[k - Len(u)]
  BY ConcatProperties DEF Text
<1> HIDE DEF w
<1>3. ASSUME NEW k \in 1 .. Len(w) PROVE b[i + k - 1] = w[k]
  <2>1. CASE k <= Len(u)
    <3>1. k \in 1 .. Len(u)
      BY <2>1, <1>1, <1>2
    <3> QED BY <3>1, <2>1, <1>2 DEF Starts
  <2>2. CASE k > Len(u)
    <3> DEFINE j == k - Len(u)
    <3>1. j \in 1 .. Len(t) /\ i + Len(u) + j - 1 = i + k - 1 /\ w[k] = t[j]
      BY <2>2, <1>1, <1>2
    <3> HIDE DEF j
    <3>2. b[i + Len(u) + j - 1] = t[j]
      BY <3>1 DEF Has, Starts
    <3> QED BY <3>1, <3>2
  <2> QED BY <2>1, <2>2, <1>1, <1>2
<1>4. b[i + Len(w)] = NUL
  <2>1. i + Len(w) = i + Len(u) + Len(t)
    BY <1>1, <1>2
  <2> QED BY <2>1 DEF Has
<1> QED BY <1>2, <1>3, <1>4 DEF Has, Starts, w

(***************************************************************************)
(* Objects: what memory, assignment, concat() and operator + leave in them.*)
(***************************************************************************)

\* An object that has a buffer, whatever is in it, or none, and one that holds a text.
Valid(s) ==
  /\ s = [buf |-> s.buf, cap |-> s.cap, len |-> s.len]
  /\ Buffer(s.buf, s.cap) /\ s.len \in Nat
Room(s) == s = Invalid \/ Valid(s)
Full(s, t) == Valid(s) /\ Len(t) <= s.cap /\ Has(s.buf, 0, t) /\ s.len = Len(t)
Holds(s, t) == t \in Text /\ ((s = Invalid /\ t = <<>>) \/ Full(s, t))

LEMMA ValidIs ==
  ASSUME NEW s
  PROVE  /\ Valid(s) => ~IsInvalid(s) /\ s # Invalid /\ s.cap \in Nat /\ s.len \in Nat /\ DOMAIN s.buf = 0 .. s.cap
         /\ IsInvalid(Invalid) /\ Invalid.len = 0 /\ Invalid.cap = 0 /\ Invalid.buf = <<>>
<1>1. IsInvalid(Invalid) /\ Invalid.len = 0 /\ Invalid.cap = 0 /\ Invalid.buf = <<>>
  BY DEF Invalid, IsInvalid
<1>2. ASSUME Valid(s) PROVE ~IsInvalid(s) /\ s.cap \in Nat /\ s.len \in Nat /\ DOMAIN s.buf = 0 .. s.cap
  <2>1. s.cap \in Nat /\ s.len \in Nat /\ DOMAIN s.buf = 0 .. s.cap
    BY <1>2 DEF Valid, Buffer
  <2>2. s.buf # <<>>
    <3> SUFFICES ASSUME s.buf = <<>> PROVE FALSE
      OBVIOUS
    <3>1. DOMAIN s.buf = {}
      OBVIOUS
    <3> QED BY <3>1, <2>1
  <2> QED BY <2>1, <2>2 DEF IsInvalid
<1> QED BY <1>1, <1>2

LEMMA EmptyText == <<>> \in Text /\ Len(<<>>) = 0
BY DEF Text

\* What a readable object says of its text.
LEMMA HeldIs ==
  ASSUME NEW s, NEW t, Holds(s, t)
  PROVE  /\ t \in Text /\ Len(t) \in Nat /\ s.len = Len(t) /\ Len(t) <= s.cap /\ Room(s)
         /\ s.cap \in Nat
         /\ IsInvalid(s) <=> s = Invalid
         /\ ~IsInvalid(s) => Full(s, t) /\ CStr(s.buf, 0) = t
         /\ IsInvalid(s) => t = <<>>
<1>1. t \in Text /\ Len(t) \in Nat
  BY TextIs DEF Holds
<1>2. CASE s = Invalid /\ t = <<>>
  BY <1>1, <1>2, ValidIs DEF Room
<1>3. CASE Full(s, t)
  <2>1. Valid(s) /\ Len(t) <= s.cap /\ Has(s.buf, 0, t) /\ s.len = Len(t)
    BY <1>3 DEF Full
  <2>2. 0 \in Nat /\ 0 + Len(t) <= s.cap /\ Buffer(s.buf, s.cap)
    BY <2>1, <1>1 DEF Valid
  <2>3. CStr(s.buf, 0) = t
    BY <2>1, <2>2, <1>1, TextAt
  <2> QED BY <2>1, <2>3, <1>1, <1>3, ValidIs DEF Room
<1> QED BY <1>2, <1>3 DEF Holds

\* realloc() keeps the cells there are.
LEMMA ChangeBufferIs ==
  ASSUME NEW s, Room(s), NEW n \in Nat
  PROVE  LET g == ChangeBuffer(s, n) IN
         /\ Valid(g) /\ g.cap = n /\ g.len = s.len
         /\ \A k \in 0 .. n : k \in DOMAIN s.buf => g.buf[k] = s.buf[k]
<1> DEFINE d == [k \in 0 .. n |-> IF k \in DOMAIN s.buf THEN s.buf[k] ELSE Junk]
           g == ChangeBuffer(s, n)
<1>1. s = [buf |-> s.buf, cap |-> s.cap, len |-> s.len] /\ s.len \in Nat
  BY DEF Room, Valid, Invalid
<1>5. \A k \in DOMAIN s.buf : s.buf[k] \in Cell
  BY DEF Room, Valid, Invalid, Buffer
<1>2. /\ d \in [0 .. n -> Cell] /\ \A k \in 0 .. n : k \in DOMAIN s.buf => d[k] = s.buf[k]
  BY <1>5 DEF Cell
<1>3. g = [s EXCEPT !.buf = d, !.cap = n]
  BY DEF ChangeBuffer
<1> HIDE DEF d, g
<1>4. g = [buf |-> d, cap |-> n, len |-> s.len]
  BY <1>1, <1>3
<1> QED BY <1>1, <1>2, <1>4 DEF g, Valid, Buffer

\* reserve() makes room and keeps the text.
LEMMA ReserveIs ==
  ASSUME NEW s, Room(s), NEW n \in Nat
  PROVE  /\ Valid(Reserve(s, n)) /\ Reserve(s, n).cap >= n /\ Reserve(s, n).len = s.len
         /\ \A t : Holds(s, t) => Full(Reserve(s, n), t)
<1> DEFINE g == ChangeBuffer(s, n)
<1>1. CASE Enough(s, n)
  <2>1. Reserve(s, n) = s /\ ~IsInvalid(s) /\ s.cap >= n
    BY <1>1 DEF Reserve, Enough
  <2>2. Valid(s)
    BY <2>1, ValidIs DEF Room
  <2>3. \A t : Holds(s, t) => Full(s, t)
    BY <2>1, HeldIs
  <2> QED BY <2>1, <2>2, <2>3
<1>2. CASE ~Enough(s, n)
  <2>1. /\ Valid(g) /\ g.cap = n /\ g.len = s.len
        /\ \A k \in 0 .. n : k \in DOMAIN s.buf => g.buf[k] = s.buf[k]
    BY ChangeBufferIs
  <2>2. CASE s.len = 0
    <3> DEFINE e == [g.buf EXCEPT ![0] = NUL]
               h == [g EXCEPT !.buf[0] = NUL]
    <3>1. Reserve(s, n) = h
      BY <1>2, <2>2 DEF Reserve
    <3>2. g = [buf |-> g.buf, cap |-> g.cap, len |-> g.len] /\ g.buf \in [0 .. n -> Cell]
      BY <2>1 DEF Valid, Buffer
    <3>3. h = [g EXCEPT !.buf = e]
      OBVIOUS
    <3>4. e \in [0 .. n -> Cell] /\ e[0] = NUL
      <4> DEFINE b == g.buf
      <4>1. b \in [0 .. n -> Cell] /\ 0 \in 0 .. n /\ NUL \in Cell
        BY <3>2 DEF Cell
      <4> HIDE DEF b
      <4>2. [b EXCEPT ![0] = NUL] = [k \in 0 .. n |-> IF k = 0 THEN NUL ELSE b[k]]
        BY <4>1
      <4> QED BY <4>1, <4>2 DEF b
    <3> HIDE DEF g, e
    <3>5. h = [buf |-> e, cap |-> n, len |-> 0]
      BY <3>2, <3>3, <2>1, <2>2
    <3> HIDE DEF h
    <3>6. Valid(h) /\ h.cap = n /\ h.len = 0
      BY <3>4, <3>5 DEF Valid, Buffer
    <3>7. ASSUME NEW t, Holds(s, t) PROVE Full(h, t)
      <4>1. Len(t) = 0
        BY <3>7, <2>2, HeldIs
      <4>2. Has(e, 0, t)
        BY <4>1, <3>4 DEF Has, Starts
      <4>3. h.buf = e /\ Len(t) <= h.cap /\ h.len = Len(t)
        BY <4>1, <3>5
      <4> QED BY <4>2, <4>3, <3>6 DEF Full
    <3> QED BY <3>1, <3>6, <3>7, <2>2
  <2>3. CASE s.len # 0
    <3>1. Reserve(s, n) = g
      BY <1>2, <2>3 DEF Reserve
    <3>2. Valid(s) /\ s.cap < n
      <4>1. Valid(s)
        BY <2>3, ValidIs DEF Room
      <4> QED BY <4>1, <1>2, ValidIs DEF Enough
    <3>3. DOMAIN s.buf = 0 .. s.cap /\ s.cap \in Nat
      BY <3>2, ValidIs
    <3>4. ASSUME NEW t, Holds(s, t) PROVE Full(g, t)
      <4>1. Len(t) \in Nat /\ Len(t) <= s.cap /\ s.len = Len(t) /\ Has(s.buf, 0, t)
        BY <3>2, <3>4, HeldIs, ValidIs DEF Full
      <4>2. \A k \in 0 .. s.cap : g.buf[k] = s.buf[k]
        BY <2>1, <3>2, <3>3
      <4> HIDE DEF g
      <4>3. \A k \in 1 .. Len(t) : 0 + k - 1 \in 0 .. s.cap
        BY <4>1, <3>3
      <4>4. Has(g.buf, 0, t)
        BY <4>1, <4>2, <4>3, <3>3 DEF Has, Starts
      <4> QED BY <4>1, <4>4, <2>1, <3>2, <3>3 DEF Full
    <3> QED BY <3>1, <3>4, <2>1
  <2> QED BY <2>2, <2>3
<1> QED BY <1>1, <1>2

\* A text that is written into an object behind the first i characters.
LEMMA WriteIs ==
  ASSUME NEW s, Valid(s), NEW u \in Text, NEW t \in Text, Starts(s.buf, 0, u),
         Len(u) + Len(t) <= s.cap
  PROVE  Full([s EXCEPT !.buf = Strcpy(@, Len(u), t), !.len = Len(u) + Len(t)], u \o t)
<1> DEFINE d == Strcpy(s.buf, Len(u), t)
           g == [s EXCEPT !.buf = Strcpy(@, Len(u), t), !.len = Len(u) + Len(t)]
<1>1. Len(u) \in Nat /\ Len(t) \in Nat
  BY TextIs
<1>2. s = [buf |-> s.buf, cap |-> s.cap, len |-> s.len] /\ Buffer(s.buf, s.cap)
  BY DEF Valid
<1>3. Buffer(d, s.cap) /\ Has(d, Len(u), t) /\ \A k \in 0 .. Len(u) - 1 : d[k] = s.buf[k]
  BY <1>1, <1>2, StrcpyIs
<1>4. g = [s EXCEPT !.buf = d, !.len = Len(u) + Len(t)]
  OBVIOUS
<1> HIDE DEF d, g
<1>5. g = [buf |-> d, cap |-> s.cap, len |-> Len(u) + Len(t)]
  BY <1>2, <1>4
<1>6. Starts(d, 0, u)
  <2>1. \A k \in 1 .. Len(u) : 0 + k - 1 \in 0 .. Len(u) - 1
    BY <1>1
  <2> QED BY <2>1, <1>3 DEF Starts
<1>7. u \o t \in Text /\ Len(u \o t) = Len(u) + Len(t) /\ Has(d, 0, u \o t)
  <2>1. 0 \in Nat /\ 0 + Len(u) = Len(u)
    BY <1>1
  <2> QED BY <2>1, <1>3, <1>6, TextsJoin
<1>8. Valid(g)
  <2>1. g.buf = d /\ g.cap = s.cap /\ g.len = Len(u) + Len(t)
    BY <1>5
  <2> QED BY <2>1, <1>1, <1>3, <1>5 DEF Valid
<1>9. Full(g, u \o t)
  BY <1>5, <1>7, <1>8 DEF Full
<1> QED BY <1>9 DEF g

LEMMA WriteAll ==
  ASSUME NEW s, Valid(s), NEW t \in Text, Len(t) <= s.cap
  PROVE  Full([s EXCEPT !.buf = Strcpy(@, 0, t), !.len = Len(t)], t)
<1> DEFINE u == <<>>
<1>1. u \in Text /\ Len(u) = 0 /\ Starts(s.buf, 0, u) /\ u \o t = t /\ Len(t) \in Nat
  BY EmptyText, TextIs, ConcatProperties DEF Starts, Text
<1>2. Len(u) + Len(t) = Len(t)
  BY <1>1
<1> HIDE DEF u
<1>3. Full([s EXCEPT !.buf = Strcpy(@, Len(u), t), !.len = Len(u) + Len(t)], u \o t)
  BY <1>1, <1>2, WriteIs
<1> QED BY <1>1, <1>2, <1>3

\* copy() and the assignments.
LEMMA CopyIs ==
  ASSUME NEW s, Room(s), NEW t \in Text, NEW room
  PROVE  Copy(s, t, Len(t), room) = Invalid \/ Full(Copy(s, t, Len(t), room), t)
<1>1. CASE ~Enough(s, Len(t)) /\ ~room
  BY <1>1 DEF Copy
<1>2. CASE ~(~Enough(s, Len(t)) /\ ~room)
  <2> DEFINE g == Reserve(s, Len(t))
  <2>1. Valid(g) /\ g.cap >= Len(t) /\ Len(t) \in Nat /\ g.cap \in Nat
    <3>1. Len(t) \in Nat
      BY TextIs
    <3> QED BY <3>1, ReserveIs, ValidIs
  <2>2. Copy(s, t, Len(t), room) = [g EXCEPT !.buf = Strcpy(@, 0, t), !.len = Len(t)]
    BY <1>2 DEF Copy
  <2> HIDE DEF g
  <2>3. Len(t) <= g.cap
    BY <2>1
  <2> QED BY <2>1, <2>2, <2>3, WriteAll
<1> QED BY <1>1, <1>2

LEMMA AssignIs ==
  ASSUME NEW s, Room(s), NEW t \in Text \cup {None}, NEW room
  PROVE  Holds(Assign(s, t, room), IF IsInvalid(Assign(s, t, room)) THEN <<>> ELSE t)
<1>1. CASE t = None
  <2>1. Assign(s, t, room) = Invalid
    BY <1>1 DEF Assign
  <2> QED BY <2>1, ValidIs, EmptyText DEF Holds
<1>2. CASE t # None
  <2>1. t \in Text /\ Assign(s, t, room) = Copy(s, t, Len(t), room)
    BY <1>2 DEF Assign
  <2>2. Copy(s, t, Len(t), room) = Invalid \/ Full(Copy(s, t, Len(t), room), t)
    BY <2>1, CopyIs
  <2> QED BY <2>1, <2>2, ValidIs, EmptyText DEF Holds, Full
<1> QED BY <1>1, <1>2

\* move(): the text goes over; the other object keeps a buffer, or nothing.
LEMMA MovedIs ==
  ASSUME NEW s, Room(s), NEW r, NEW t, Holds(r, t)
  PROVE  Holds(Moved(s, r).to, t) /\ Room(Moved(s, r).from)
<1>1. t \in Text /\ r.len = Len(t) /\ Room(r) /\ Len(t) \in Nat
  BY HeldIs
<1>2. CASE ~IsInvalid(s) /\ ~IsInvalid(r) /\ s.cap >= r.len
  <2>1. Valid(s) /\ Valid(r) /\ CStr(r.buf, 0) = t /\ s.cap \in Nat
    BY <1>1, <1>2, ValidIs, HeldIs DEF Room
  <2>2. Moved(s, r) = [to |-> [s EXCEPT !.buf = Strcpy(@, 0, t), !.len = Len(t)],
                       from |-> [r EXCEPT !.len = 0]]
    BY <1>1, <1>2, <2>1 DEF Moved
  <2>3. Full([s EXCEPT !.buf = Strcpy(@, 0, t), !.len = Len(t)], t)
    BY <1>1, <1>2, <2>1, WriteAll
  <2>4. Valid([r EXCEPT !.len = 0])
    BY <2>1 DEF Valid
  <2> QED BY <1>1, <2>2, <2>3, <2>4 DEF Holds, Room
<1>3. CASE ~(~IsInvalid(s) /\ ~IsInvalid(r) /\ s.cap >= r.len)
  <2>1. Moved(s, r) = [to |-> r, from |-> Invalid]
    BY <1>3 DEF Moved
  <2> QED BY <2>1 DEF Room
<1> QED BY <1>2, <1>3

\* concat() and the operator +.
LEMMA ConcatIs ==
  ASSUME NEW s, NEW t, Holds(s, t), NEW u \in Text \cup {None}, NEW room
  PROVE  Holds(Concat(s, u, room), IF Succeeds(s, u, room) THEN t \o u ELSE t)
<1>1. t \in Text /\ s.len = Len(t) /\ Len(t) \in Nat /\ Room(s)
  BY HeldIs
<1>2. CASE u = None
  BY <1>2 DEF Concat, Succeeds
<1>3. CASE u # None /\ Len(u) = 0
  <2>1. u = <<>> /\ t \o <<>> = t
    <3>1. u \in Seq(Char)
      BY <1>3 DEF Text
    <3> QED BY <3>1, <1>1, <1>3, EmptySeq, ConcatEmptySeq DEF Text
  <2> QED BY <2>1, <1>3 DEF Concat, Succeeds
<1>4. CASE u # None /\ Len(u) # 0 /\ ~Succeeds(s, u, room)
  BY <1>4 DEF Concat
<1>5. CASE u # None /\ Len(u) # 0 /\ Succeeds(s, u, room)
  <2> DEFINE g == Reserve(s, s.len + Len(u))
  <2>1. u \in Text /\ Len(u) \in Nat
    BY <1>5, TextIs
  <2>2. Valid(g) /\ g.cap >= Len(t) + Len(u) /\ Full(g, t) /\ g.len = Len(t)
    <3>1. s.len + Len(u) \in Nat
      BY <1>1, <2>1
    <3> QED BY <3>1, <1>1, ReserveIs
  <2>3. Concat(s, u, room) = [g EXCEPT !.buf = Strcpy(@, s.len, u), !.len = @ + Len(u)]
    BY <1>5 DEF Concat
  <2> HIDE DEF g
  <2>4. Concat(s, u, room) = [g EXCEPT !.buf = Strcpy(@, Len(t), u), !.len = Len(t) + Len(u)]
    BY <1>1, <2>2, <2>3
  <2>5. Starts(g.buf, 0, t) /\ Len(t) + Len(u) <= g.cap
    <3>1. g.cap \in Nat
      BY <2>2, ValidIs
    <3> QED BY <3>1, <1>1, <2>1, <2>2 DEF Full, Has
  <2>6. Full([g EXCEPT !.buf = Strcpy(@, Len(t), u), !.len = Len(t) + Len(u)], t \o u)
    BY <1>1, <2>1, <2>2, <2>5, WriteIs
  <2>7. t \o u \in Text
    BY <1>1, <2>1, ConcatProperties DEF Text
  <2> QED BY <1>5, <2>4, <2>6, <2>7 DEF Holds
<1> QED BY <1>2, <1>3, <1>4, <1>5

LEMMA SumIs ==
  ASSUME NEW s, NEW t, Holds(s, t), NEW u \in Text, NEW room
  PROVE  Holds(Sum(s, u, room), IF IsInvalid(Sum(s, u, room)) THEN <<>> ELSE t \o u)
<1>1. CASE Succeeds(s, u, room)
  <2>1. Holds(Concat(s, u, room), t \o u) /\ Sum(s, u, room) = Concat(s, u, room)
    BY <1>1, ConcatIs DEF Sum
  <2>2. IsInvalid(Concat(s, u, room)) => t \o u = <<>>
    BY <2>1, HeldIs
  <2> QED BY <2>1, <2>2
<1>2. CASE ~Succeeds(s, u, room)
  <2>1. Sum(s, u, room) = Invalid
    BY <1>2 DEF Sum
  <2> QED BY <2>1, ValidIs, EmptyText DEF Holds
<1> QED BY <1>1, <1>2

(***************************************************************************)
(* Parts of a text, and changes of single characters.                      *)
(***************************************************************************)

\* The cells of a part of the text.
LEMMA CellsAre ==
  ASSUME NEW b, NEW t \in Text, Has(b, 0, t), NEW i \in 0 .. Len(t), NEW n \in 0 .. Len(t) - i
  PROVE  Cells(b, i, n) = SubSeq(t, i + 1, i + n) /\ SubSeq(t, i + 1, i + n) \in Text
         /\ Len(SubSeq(t, i + 1, i + n)) = n
<1> DEFINE u == SubSeq(t, i + 1, i + n)
<1>1. Len(t) \in Nat
  BY TextIs
<1>2. u \in Text /\ Len(u) = n /\ \A k \in 1 .. n : u[k] = t[i + k]
  <2> DEFINE p == i + 1
             q == i + n
  <2>1. p \in 1 .. Len(t) + 1 /\ q \in 0 .. Len(t)
    BY <1>1
  <2>3. q - p + 1 = n /\ (\A k \in 1 .. n : p + k - 1 = i + k) /\ (p <= q <=> n # 0)
    BY <1>1
  <2> HIDE DEF p, q
  <2>2. /\ SubSeq(t, p, q) \in Text /\ Len(SubSeq(t, p, q)) = IF p <= q THEN q - p + 1 ELSE 0
        /\ \A k \in 1 .. q - p + 1 : SubSeq(t, p, q)[k] = t[p + k - 1]
    BY <2>1, PartOf
  <2>4. u = SubSeq(t, p, q)
    BY DEF p, q
  <2> HIDE DEF u
  <2>5. Len(u) = n
    BY <2>2, <2>3, <2>4
  <2> QED BY <2>2, <2>3, <2>4, <2>5
<1> HIDE DEF u
<1>3. ASSUME NEW k \in 1 .. n PROVE b[i + k - 1] = u[k]
  <2>1. i + k \in 1 .. Len(t) /\ 0 + (i + k) - 1 = i + k - 1
    BY <1>1
  <2> QED BY <2>1, <1>2 DEF Has, Starts
<1>4. u = [k \in 1 .. n |-> u[k]]
  BY <1>2, TextIs
<1>5. Cells(b, i, n) = u
  BY <1>3, <1>4 DEF Cells
<1> QED BY <1>2, <1>5 DEF u

\* substring() cuts the text off behind the part for a moment.
LEMMA SubstringIs ==
  ASSUME NEW s, NEW t, Holds(s, t), NEW l \in Nat, NEW r \in Nat, NEW room
  PROVE  LET part == Substring(s, l, r, room) IN
         Holds(part, IF IsInvalid(part) THEN <<>>
                     ELSE SubSeq(t, Min({l, r}) + 1, Min({Max({l, r}), Len(t)})))
<1> DEFINE left == Min({l, r})
           right == Min({Max({l, r}), Len(t)})
           part == Substring(s, l, r, room)
           e == [s.buf EXCEPT ![right] = NUL]
           u == SubSeq(t, left + 1, right)
<1>1. t \in Text /\ Len(t) \in Nat /\ s.len = Len(t)
  BY HeldIs
<1>2. /\ left \in Nat /\ right \in Nat /\ right <= Len(t) /\ (left <= Len(t) => left <= right)
  BY <1>1, MinOfTwo, MaxOfTwo
<1>3. part = IF left >= s.len THEN Invalid ELSE Assign(Invalid, CStr(e, left), room)
  BY <1>1 DEF Substring
<1> HIDE DEF left, right, part
<1>4. CASE left >= Len(t)
  <2>1. part = Invalid
    BY <1>1, <1>3, <1>4
  <2>2. IsInvalid(part) /\ Holds(part, <<>>)
    BY <2>1, ValidIs, EmptyText DEF Holds
  <2> QED BY <2>2 DEF part
<1>5. CASE left < Len(t)
  <2>1. Full(s, t)
    BY <1>1, <1>5, <1>2, HeldIs, EmptyText
  <2>2. Valid(s) /\ Buffer(s.buf, s.cap) /\ s.cap \in Nat /\ Len(t) <= s.cap /\ Has(s.buf, 0, t)
    BY <2>1, ValidIs DEF Full, Valid
  <2>3. /\ e = [k \in 0 .. s.cap |-> IF k = right THEN NUL ELSE s.buf[k]]
    <3> DEFINE b == s.buf
    <3>1. DOMAIN b = 0 .. s.cap
      BY <2>2, ValidIs
    <3> HIDE DEF b
    <3>2. [b EXCEPT ![right] = NUL] = [k \in 0 .. s.cap |-> IF k = right THEN NUL ELSE b[k]]
      BY <3>1
    <3> QED BY <3>2 DEF b
  <2>4. /\ u \in Text /\ Len(u) = right - left /\ \A k \in 1 .. right - left : u[k] = s.buf[left + k - 1]
    <3> DEFINE n == right - left
    <3>1. left \in 0 .. Len(t) /\ n \in 0 .. Len(t) - left /\ left + n = right
      BY <1>1, <1>2, <1>5
    <3> HIDE DEF n
    <3>2. Cells(s.buf, left, n) = SubSeq(t, left + 1, left + n) /\ SubSeq(t, left + 1, left + n) \in Text
          /\ Len(SubSeq(t, left + 1, left + n)) = n
      BY <3>1, <2>2, <1>1, CellsAre
    <3>3. Cells(s.buf, left, n) = u /\ u \in Text /\ Len(u) = n
      BY <3>1, <3>2
    <3> QED BY <3>3 DEF Cells, n
  <2> HIDE DEF e, u
  <2>5. Buffer(e, s.cap)
    <3>1. NUL \in Cell
      BY DEF Cell
    <3> QED BY <3>1, <2>2, <2>3 DEF Buffer
  <2>6. Has(e, left, u)
    <3>1. left + Len(u) = right /\ right \in 0 .. s.cap /\ e[right] = NUL
      BY <1>1, <1>2, <1>5, <2>2, <2>3, <2>4
    <3>2. ASSUME NEW k \in 1 .. Len(u) PROVE e[left + k - 1] = u[k]
      <4> DEFINE j == left + k - 1
      <4>1. j \in 0 .. s.cap /\ j # right /\ u[k] = s.buf[j]
        BY <1>1, <1>2, <1>5, <2>2, <2>4
      <4> HIDE DEF j
      <4>2. e[j] = u[k]
        BY <4>1, <2>3
      <4> QED BY <4>2 DEF j
    <3> QED BY <3>1, <3>2 DEF Has, Starts
  <2>7. CStr(e, left) = u
    <3>1. left + Len(u) <= s.cap
      BY <1>1, <1>2, <1>5, <2>2, <2>4
    <3> QED BY <3>1, <2>4, <2>5, <2>6, <1>2, TextAt
  <2>8. part = Assign(Invalid, u, room)
    BY <1>1, <1>2, <1>3, <1>5, <2>7
  <2>9. Room(Invalid) /\ u \in Text \cup {None}
    BY <2>4 DEF Room
  <2> QED BY <2>8, <2>9, AssignIs DEF part, left, right, u
<1> QED BY <1>1, <1>2, <1>4, <1>5 DEF left, right, part

\* replace() of a character, toLowerCase() and toUpperCase().
LEMMA MapCharsIs ==
  ASSUME NEW s, NEW t, Holds(s, t), NEW f \in [Char -> Char]
  PROVE  Holds(MapChars(s, f), [i \in DOMAIN t |-> f[t[i]]])
<1> DEFINE v == [i \in DOMAIN t |-> f[t[i]]]
<1>1. t \in Text /\ Len(t) \in Nat /\ s.len = Len(t) /\ DOMAIN t = 1 .. Len(t)
  BY HeldIs, TextIs
<1>2. v \in Text /\ Len(v) = Len(t)
  <2>1. v = [i \in 1 .. Len(t) |-> v[i]] /\ \A i \in 1 .. Len(t) : v[i] \in Char
    BY <1>1, TextIs
  <2> HIDE DEF v
  <2> QED BY <1>1, <2>1, TextOf
<1>3. CASE s = Invalid
  <2>1. t = <<>> /\ MapChars(s, f) = s
    BY <1>3, HeldIs DEF MapChars
  <2>2. Len(v) = 0 /\ v = <<>>
    <3>1. Len(v) = 0
      BY <2>1, <1>2, EmptyText
    <3> HIDE DEF v
    <3> QED BY <3>1, <1>2, EmptySeq DEF Text
  <2> QED BY <2>1, <2>2, <1>2, <1>3 DEF Holds
<1>4. CASE s # Invalid
  <2> DEFINE b == s.buf
             w == [k \in 1 .. Strlen(b, 0) |-> f[b[k - 1]]]
             d == Memcpy(b, 0, w)
  <2>1. Full(s, t) /\ Valid(s) /\ Buffer(b, s.cap) /\ Has(b, 0, t) /\ ~IsInvalid(s)
    BY <1>4, HeldIs DEF Full, Valid
  <2>2. Strlen(b, 0) = Len(t)
    <3>1. 0 \in Nat /\ 0 + Len(t) <= s.cap
      BY <1>1, HeldIs
    <3> QED BY <3>1, <2>1, <1>1, TextAt
  <2>3. w = v
    <3>1. \A k \in 1 .. Len(t) : b[k - 1] = t[k]
      <4>1. \A k \in 1 .. Len(t) : 0 + k - 1 = k - 1
        BY <1>1
      <4> QED BY <4>1, <2>1 DEF Has, Starts
    <3> HIDE DEF b
    <3> QED BY <3>1, <2>2, <1>1
  <2>4. MapChars(s, f) = [s EXCEPT !.buf = d]
    BY <2>1 DEF MapChars
  <2> HIDE DEF w, v, b
  <2>5. s.cap \in Nat /\ Len(t) <= s.cap
    BY HeldIs
  <2>6. Buffer(d, s.cap) /\ Starts(d, 0, w) /\ \A k \in 0 + Len(w) .. s.cap : d[k] = b[k]
    <3>1. Len(w) \in Nat /\ 0 + Len(w) <= s.cap + 1 /\ 0 \in Nat
      BY <1>1, <1>2, <2>3, <2>5
    <3>2. \A k \in 1 .. Len(w) : w[k] \in Cell
      BY <1>2, <2>3, TextIs DEF Cell
    <3> QED BY <3>1, <3>2, <2>1, MemcpyIs, MemcpyKeeps
  <2> HIDE DEF d
  <2>7. Has(d, 0, v)
    <3>1. Len(v) \in 0 + Len(w) .. s.cap /\ 0 + Len(v) = Len(v) /\ 0 + Len(t) = Len(v)
      BY <1>1, <1>2, <2>3, <2>5
    <3>2. d[0 + Len(v)] = b[0 + Len(t)]
      BY <3>1, <2>6
    <3> QED BY <3>2, <2>1, <2>3, <2>6 DEF Has
  <2>8. Full([s EXCEPT !.buf = d], v)
    <3>1. s = [buf |-> s.buf, cap |-> s.cap, len |-> s.len]
      BY <2>1 DEF Valid
    <3>2. [s EXCEPT !.buf = d] = [buf |-> d, cap |-> s.cap, len |-> s.len]
      BY <3>1
    <3> QED BY <3>2, <2>5, <2>6, <2>7, <1>1, <1>2 DEF Full, Valid
  <2> QED BY <2>4, <2>8, <1>2 DEF Holds, v
<1> QED BY <1>3, <1>4

\* setCharAt()
LEMMA SetCharIs ==
  ASSUME NEW s, NEW t, Holds(s, t), NEW i \in Nat, NEW c \in Char
  PROVE  Holds(SetCharAt(s, i, c), IF i < Len(t) THEN [t EXCEPT ![i + 1] = c] ELSE t)
<1>1. t \in Text /\ Len(t) \in Nat /\ s.len = Len(t) /\ DOMAIN t = 1 .. Len(t)
  BY HeldIs, TextIs
<1>2. CASE i < Len(t)
  <2> DEFINE v == [t EXCEPT ![i + 1] = c]
             b == s.buf
             d == [b EXCEPT ![i] = c]
  <2>1. Full(s, t) /\ Valid(s) /\ Buffer(b, s.cap) /\ Has(b, 0, t) /\ s.cap \in Nat /\ Len(t) <= s.cap
    BY <1>1, <1>2, HeldIs, EmptyText DEF Full, Valid
  <2>2. SetCharAt(s, i, c) = [s EXCEPT !.buf[i] = c]
    BY <1>1, <1>2 DEF SetCharAt
  <2>3. [s EXCEPT !.buf[i] = c] = [s EXCEPT !.buf = d]
    BY <2>1 DEF Valid
  <2>4. v \in Text /\ Len(v) = Len(t) /\ \A k \in 1 .. Len(t) : v[k] = IF k = i + 1 THEN c ELSE t[k]
    BY <1>1, <1>2, ExceptSeq DEF Text
  <2> HIDE DEF v
  <2>5. d = [k \in 0 .. s.cap |-> IF k = i THEN c ELSE b[k]]
    <3>1. DOMAIN b = 0 .. s.cap
      BY <2>1 DEF Buffer
    <3> HIDE DEF b
    <3> QED BY <3>1
  <2> HIDE DEF d, b
  <2>6. Buffer(d, s.cap)
    <3>1. b \in [0 .. s.cap -> Cell] /\ c \in Cell
      BY <2>1 DEF Buffer, Cell
    <3> QED BY <3>1, <2>1, <2>5 DEF Buffer
  <2>7. Has(d, 0, v)
    <3>1. ASSUME NEW k \in 1 .. Len(v) PROVE d[0 + k - 1] = v[k]
      <4> DEFINE j == 0 + k - 1
      <4>1. j \in 0 .. s.cap /\ (j = i <=> k = i + 1) /\ b[j] = t[k] /\ k \in 1 .. Len(t)
        BY <1>1, <1>2, <2>1, <2>4 DEF Has, Starts
      <4> HIDE DEF j
      <4>2. d[j] = v[k]
        BY <4>1, <2>4, <2>5
      <4> QED BY <4>2 DEF j
    <3>2. d[0 + Len(v)] = NUL
      <4>0. Len(v) = Len(t) /\ Len(t) \in Nat /\ i < Len(t) /\ Len(t) <= s.cap /\ s.cap \in Nat
        BY <1>1, <1>2, <2>1, <2>4
      <4>1. 0 + Len(v) \in 0 .. s.cap /\ 0 + Len(v) # i /\ 0 + Len(v) = 0 + Len(t)
        BY ONLY <4>0, i \in Nat
      <4>2. b[0 + Len(t)] = NUL
        BY <2>1 DEF Has
      <4> QED BY <4>1, <4>2, <2>5
    <3> QED BY <3>1, <3>2 DEF Has, Starts
  <2>8. Full([s EXCEPT !.buf = d], v)
    <3>1. s = [buf |-> s.buf, cap |-> s.cap, len |-> s.len]
      BY <2>1 DEF Valid
    <3>2. [s EXCEPT !.buf = d] = [buf |-> d, cap |-> s.cap, len |-> s.len]
      BY <3>1
    <3> QED BY <3>2, <2>1, <2>4, <2>6, <2>7, <1>1 DEF Full, Valid
  <2> QED BY <2>2, <2>3, <2>4, <2>8, <1>2 DEF Holds, v
<1>3. CASE ~(i < Len(t))
  BY <1>1, <1>3 DEF SetCharAt
<1> QED BY <1>2, <1>3

(***************************************************************************)
(* remove() and trim().                                                    *)
(***************************************************************************)

\* remove() cuts the part out.
LEMMA RemoveIs ==
  ASSUME NEW s, NEW t, Holds(s, t), NEW i \in Nat, NEW n \in Nat \ {0}
  PROVE  Holds(RemoveFrom(s, i, n),
               SubSeq(t, 1, Min({i, Len(t)})) \o SubSeq(t, i + n + 1, Len(t)))
<1> DEFINE u == SubSeq(t, 1, Min({i, Len(t)}))
           v == SubSeq(t, i + n + 1, Len(t))
<1>1. t \in Text /\ Len(t) \in Nat /\ s.len = Len(t)
  BY HeldIs
<1>2. CASE i >= Len(t)
  <2>1. Min({i, Len(t)}) = Len(t)
    BY <1>1, <1>2, MinOfTwo
  <2>2. u = t
    BY <1>1, <2>1, SubSeqFull DEF Text
  <2>3. v = <<>>
    <3> DEFINE p == i + n + 1
    <3>1. p \in Int /\ Len(t) < p /\ Len(t) \in Int
      BY <1>1, <1>2
    <3> HIDE DEF p
    <3>2. SubSeq(t, p, Len(t)) = <<>>
      BY <3>1, SubSeqEmpty
    <3> QED BY <3>2 DEF p
  <2>4. u \o v = t
    BY <1>1, <2>2, <2>3, ConcatEmptySeq DEF Text
  <2>5. RemoveFrom(s, i, n) = s
    BY <1>1, <1>2 DEF RemoveFrom
  <2> QED BY <2>4, <2>5
<1>3. CASE i < Len(t)
  <2> DEFINE taken == Min({n, s.len - i})
             w == Cells(s.buf, i + taken, s.len - taken - i)
  <2>1. taken = IF n <= Len(t) - i THEN n ELSE Len(t) - i
    <3>1. n \in Int /\ s.len - i \in Int
      BY <1>1
    <3> QED BY <3>1, <1>1, MinOfTwo
  <2>2. RemoveFrom(s, i, n) = [s EXCEPT !.len = @ - taken, !.buf = Strcpy(@, i, w)]
    BY <1>1, <1>3 DEF RemoveFrom
  <2>3. Full(s, t) /\ Valid(s) /\ Has(s.buf, 0, t) /\ s.cap \in Nat /\ Len(t) <= s.cap
    BY <1>1, <1>3, HeldIs, EmptyText DEF Full
  <2> DEFINE j == i + taken
             m == Len(t) - taken - i
  <2>12. taken \in Nat /\ taken <= Len(t) - i
    BY <1>1, <1>3, <2>1
  <2> HIDE DEF taken
  <2>4. /\ j \in 0 .. Len(t) /\ m \in 0 .. Len(t) - j /\ j + m = Len(t) /\ s.len - taken - i = m
        /\ i + m = s.len - taken /\ i + m <= Len(t) /\ m \in Nat
    BY ONLY <1>1, <1>3, <2>12, i \in Nat
  <2>5. w = SubSeq(t, j + 1, Len(t)) /\ w \in Text /\ Len(w) = m
    <3>1. w = Cells(s.buf, j, m)
      BY <2>4
    <3> HIDE DEF w, m, j
    <3>2. Cells(s.buf, j, m) = SubSeq(t, j + 1, j + m) /\ SubSeq(t, j + 1, j + m) \in Text
          /\ Len(SubSeq(t, j + 1, j + m)) = m
      BY <1>1, <2>3, <2>4, CellsAre
    <3> QED BY <3>1, <3>2, <2>4
  <2>6. w = v
    <3>1. CASE n <= Len(t) - i
      BY <3>1, <2>1, <2>5
    <3>2. CASE ~(n <= Len(t) - i)
      <4> DEFINE p == i + n + 1
                 q == j + 1
      <4>1. p \in Int /\ Len(t) < p /\ Len(t) \in Int /\ q \in Int /\ Len(t) < q
        BY <1>1, <1>3, <3>2, <2>1
      <4> HIDE DEF p, q
      <4>2. SubSeq(t, p, Len(t)) = <<>> /\ SubSeq(t, q, Len(t)) = <<>>
        BY <4>1, SubSeqEmpty
      <4> QED BY <4>2, <2>5 DEF p, q
    <3> QED BY <3>1, <3>2
  <2>7. u \in Text /\ Len(u) = i /\ \A k \in 1 .. i : u[k] = t[k]
    <3>1. Min({i, Len(t)}) = i
      BY <1>1, <1>3, MinOfTwo
    <3>4. u = SubSeq(t, 1, i)
      BY <3>1
    <3> HIDE DEF u
    <3>2. u = SubSeq(t, 1, i) /\ 1 \in 1 .. Len(t) + 1 /\ i \in 0 .. Len(t)
      BY <1>1, <1>3, <3>4
    <3>3. /\ u \in Text /\ Len(u) = IF 1 <= i THEN i - 1 + 1 ELSE 0
          /\ \A k \in 1 .. i - 1 + 1 : u[k] = t[1 + k - 1]
      BY <1>1, <3>2, PartOf
    <3> QED BY <3>3
  <2> HIDE DEF u, v, w, m, j
  <2>8. Starts(s.buf, 0, u)
    <3>1. \A k \in 1 .. Len(u) : k \in 1 .. Len(t) /\ u[k] = t[k]
      BY <1>1, <1>3, <2>7
    <3> QED BY <3>1, <2>3 DEF Has, Starts
  <2>9. Full([s EXCEPT !.buf = Strcpy(@, Len(u), w), !.len = Len(u) + Len(w)], u \o w)
    <3>1. Len(u) + Len(w) <= s.cap
      BY <2>3, <2>4, <2>5, <2>7
    <3> QED BY <3>1, <2>3, <2>5, <2>7, <2>8, WriteIs
  <2>10. RemoveFrom(s, i, n) = [s EXCEPT !.buf = Strcpy(@, Len(u), w), !.len = Len(u) + Len(w)]
    <3> DEFINE d == Strcpy(s.buf, i, w)
    <3>1. s.len - taken = i + m /\ Len(u) + Len(w) = i + m /\ Len(u) = i
      BY <2>4, <2>5, <2>7
    <3>2. s = [buf |-> s.buf, cap |-> s.cap, len |-> s.len]
      BY <2>3 DEF Valid
    <3>3. RemoveFrom(s, i, n) = [s EXCEPT !.len = s.len - taken, !.buf = d]
      BY <2>2
    <3>4. [s EXCEPT !.buf = Strcpy(@, Len(u), w), !.len = Len(u) + Len(w)]
          = [s EXCEPT !.buf = d, !.len = i + m]
      BY <3>1
    <3> HIDE DEF d, m
    <3> QED BY <3>1, <3>2, <3>3, <3>4
  <2>11. u \o w \in Text
    BY <2>5, <2>7, ConcatProperties DEF Text
  <2> QED BY <2>6, <2>9, <2>10, <2>11 DEF Holds, u, v
<1> QED BY <1>1, <1>2, <1>3

\* trim() shortens the text at both ends.
LEMMA TrimIs ==
  ASSUME NEW s, NEW t, Holds(s, t)
  PROVE  Holds(Trim(s), Trimmed(t))
<1> DEFINE kept == {i \in DOMAIN t : t[i] \notin Space}
<1>1. t \in Text /\ Len(t) \in Nat /\ s.len = Len(t) /\ DOMAIN t = 1 .. Len(t)
  BY HeldIs, TextIs
<1>2. CASE t = <<>>
  <2>1. kept = {} /\ s.len = 0
    BY <1>1, <1>2, EmptyText
  <2>2. Trimmed(t) = <<>>
    BY <2>1 DEF Trimmed
  <2>3. Trim(s) = s
    BY <2>1 DEF Trim
  <2> QED BY <2>2, <2>3, <1>2
<1>3. CASE t # <<>>
  <2> DEFINE b == s.buf
             B == {k \in DOMAIN b : b[k] \notin Space}
             begin == Min(B)
             E == {begin - 1} \cup {k \in begin .. s.len - 1 : b[k] \notin Space}
             end == Max(E)
             n == end + 1 - begin
             w == Cells(b, begin, n)
  <2>1. /\ Full(s, t) /\ Valid(s) /\ Has(b, 0, t) /\ s.cap \in Nat /\ Len(t) <= s.cap
        /\ ~IsInvalid(s) /\ DOMAIN b = 0 .. s.cap /\ Len(t) # 0
    <3>1. Len(t) # 0
      BY <1>1, <1>3, EmptySeq DEF Text
    <3> QED BY <3>1, <1>3, HeldIs, ValidIs DEF Full
  <2>2. Trim(s) = [s EXCEPT !.len = n, !.buf = Strcpy(@, 0, w)]
    BY <1>1, <2>1 DEF Trim
  <2>3. /\ \A k \in 0 .. Len(t) - 1 : b[k] = t[k + 1]
        /\ b[Len(t)] = NUL
    <3>1. \A k \in 0 .. Len(t) - 1 : k + 1 \in 1 .. Len(t) /\ 0 + (k + 1) - 1 = k
      BY <1>1
    <3>2. \A k \in 1 .. Len(t) : b[0 + k - 1] = t[k]
      BY <2>1 DEF Has, Starts
    <3>3. b[0 + Len(t)] = NUL /\ 0 + Len(t) = Len(t)
      BY <2>1, <1>1 DEF Has
    <3> HIDE DEF b
    <3>4. ASSUME NEW k \in 0 .. Len(t) - 1 PROVE b[k] = t[k + 1]
      <4> DEFINE j == k + 1
      <4>1. j \in 1 .. Len(t) /\ 0 + j - 1 = k
        BY <3>1
      <4> HIDE DEF j
      <4>2. b[0 + j - 1] = t[j]
        BY <4>1, <3>2
      <4> QED BY <4>1, <4>2 DEF j
    <3> QED BY <3>3, <3>4
  <2> HIDE DEF b
  <2>9. 0 <= s.cap
    BY <2>1
  <2>4. B \in SUBSET Nat /\ Len(t) \in B
    BY <1>1, <2>1, <2>3, TextAssumption DEF NUL
  <2>5. begin \in B /\ begin \in 0 .. Len(t) /\ \A k \in B : begin <= k
    <3> HIDE DEF B
    <3>1. Min(B) \in B /\ \A y \in B : Min(B) <= y
      BY <2>4, MinFinds
    <3>2. Min(B) \in 0 .. Len(t)
      <4>1. Min(B) \in Nat /\ Min(B) <= Len(t)
        BY <3>1, <2>4
      <4> QED BY <4>1, <1>1
    <3> QED BY <3>1, <3>2
  <2>6. \A i \in 1 .. Len(t) : i \in kept <=> i - 1 \in B
    <3>1. ASSUME NEW i \in 1 .. Len(t) PROVE b[i - 1] = t[i] /\ i - 1 \in 0 .. s.cap
      <4> DEFINE k == i - 1
      <4>1. k \in 0 .. Len(t) - 1 /\ k + 1 = i /\ k \in 0 .. s.cap
        BY <1>1, <2>1
      <4> HIDE DEF k
      <4> QED BY <4>1, <2>3 DEF k
    <3> QED BY <3>1, <1>1, <2>1
  <2>7. CASE kept = {}
    <3>1. begin = Len(t)
      <4> SUFFICES ASSUME begin < Len(t) PROVE FALSE
        BY <2>5, <1>1
      <4> DEFINE i == begin + 1
      <4>1. i \in 1 .. Len(t) /\ i - 1 = begin
        BY <2>5, <1>1
      <4> HIDE DEF i
      <4>2. i \in kept
        BY <4>1, <2>5, <2>6
      <4> QED BY <4>2, <2>7
    <3> HIDE DEF begin
    <3>2. E = {begin - 1}
      <4>1. begin .. s.len - 1 = {}
        BY <3>1, <1>1
      <4> QED BY <4>1
    <3>3. end = begin - 1
      <4> DEFINE x == begin - 1
      <4>1. x \in Int
        BY <3>1, <1>1
      <4> HIDE DEF x
      <4>2. Max({x, x}) = x
        BY <4>1, MaxOfTwo
      <4>3. {x, x} = {x}
        OBVIOUS
      <4> QED BY <4>2, <4>3, <3>2 DEF x
    <3> DEFINE e == <<>>
    <3> HIDE DEF end
    <3>4. n = 0
      BY <3>1, <3>3, <1>1
    <3> HIDE DEF n
    <3>5. w = e
      <4>1. begin \in 0 .. Len(t) /\ n \in 0 .. Len(t) - begin
        BY <3>1, <3>4, <1>1
      <4>2. w \in Text /\ Len(w) = 0
        <5>1. w = SubSeq(t, begin + 1, begin + n) /\ SubSeq(t, begin + 1, begin + n) \in Text
              /\ Len(SubSeq(t, begin + 1, begin + n)) = n
          BY <4>1, <1>1, <2>1, CellsAre
        <5> QED BY <5>1, <3>4
      <4> QED BY <4>2, EmptySeq DEF Text
    <3>10. e \in Text /\ Len(e) = 0 /\ e = <<>>
      BY EmptyText
    <3> HIDE DEF e, w
    <3>6. Trimmed(t) = e
      BY <2>7, <3>10 DEF Trimmed
    <3>7. Trim(s) = [s EXCEPT !.len = 0, !.buf = Strcpy(@, 0, e)]
      BY <3>4, <3>5, <2>2
    <3>8. Full([s EXCEPT !.buf = Strcpy(@, 0, e), !.len = Len(e)], e)
      BY <2>1, <2>9, <3>10, WriteAll
    <3>9. [s EXCEPT !.buf = Strcpy(@, 0, e), !.len = Len(e)]
          = [s EXCEPT !.len = 0, !.buf = Strcpy(@, 0, e)]
      <4>1. s = [buf |-> s.buf, cap |-> s.cap, len |-> s.len]
        BY <2>1 DEF Valid
      <4> DEFINE d == Strcpy(s.buf, 0, e)
      <4>2. [s EXCEPT !.buf = Strcpy(@, 0, e), !.len = Len(e)] = [s EXCEPT !.buf = d, !.len = 0]
        BY <3>10
      <4>3. [s EXCEPT !.len = 0, !.buf = Strcpy(@, 0, e)] = [s EXCEPT !.len = 0, !.buf = d]
        OBVIOUS
      <4> HIDE DEF d
      <4>4. [s EXCEPT !.buf = d, !.len = 0] = [s EXCEPT !.len = 0, !.buf = d]
        BY <4>1
      <4> QED BY <4>2, <4>3, <4>4
    <3> QED BY <3>6, <3>7, <3>8, <3>9, <3>10 DEF Holds
  <2>8. CASE kept # {}
    <3> DEFINE l == Min(kept)
               h == Max(kept)
    <3>1. /\ l \in kept /\ h \in kept /\ l \in 1 .. Len(t) /\ h \in l .. Len(t)
          /\ \A y \in kept : l <= y /\ y <= h
      <4>1. kept \in SUBSET Nat /\ \A y \in kept : y <= Len(t)
        BY <1>1
      <4>2. kept \subseteq 1 .. Len(t)
        BY <1>1
      <4> HIDE DEF kept
      <4>3. l \in kept /\ \A y \in kept : l <= y
        BY <4>1, <2>8, MinFinds
      <4>4. h \in kept /\ \A y \in kept : y <= h
        BY <4>1, <2>8, <1>1, MaxFinds
      <4> HIDE DEF l, h
      <4> QED BY <4>2, <4>3, <4>4, <1>1
    <3> HIDE DEF l, h
    <3>2. begin = l - 1
      <4>1. l - 1 \in B
        BY <3>1, <2>6
      <4>2. begin <= l - 1
        BY <4>1, <2>5
      <4>3. begin + 1 \in kept
        <5> DEFINE i == begin + 1
        <5>1. i \in 1 .. Len(t) /\ i - 1 = begin
          BY <2>5, <1>1, <4>2, <3>1
        <5> HIDE DEF i
        <5>2. i \in kept
          BY <5>1, <2>5, <2>6
        <5> QED BY <5>2 DEF i
      <4>4. l <= begin + 1
        BY <4>3, <3>1
      <4> QED BY <4>2, <4>4, <2>5, <3>1
    <3> HIDE DEF begin
    <3>3. end = h - 1
      <4> DEFINE x == h - 1
      <4>1. x \in E /\ x \in Int
        <5>1. x \in B /\ x \in begin .. Len(t) - 1
          BY <3>1, <3>2, <2>6, <1>1
        <5> QED BY <5>1, <1>1
      <4>2. ASSUME NEW y \in E PROVE y \in Int /\ x >= y
        <5>1. CASE y = begin - 1
          BY <5>1, <3>1, <3>2, <1>1
        <5>2. CASE y \in begin .. Len(t) - 1 /\ b[y] \notin Space
          <6>1. y \in Int /\ y \in B /\ y + 1 \in 1 .. Len(t) /\ y + 1 - 1 = y
            BY <5>2, <1>1, <2>1, <3>1, <3>2
          <6>2. y + 1 \in kept
            <7> DEFINE i == y + 1
            <7>3. i \in 1 .. Len(t) /\ i - 1 = y
              BY ONLY <6>1
            <7> HIDE DEF i, B, kept
            <7>1. i \in 1 .. Len(t) /\ i - 1 \in B
              BY <6>1, <7>3
            <7>2. i \in kept
              BY <7>1, <2>6
            <7> QED BY <7>2 DEF i
          <6>3. y + 1 <= h
            BY <6>2, <3>1
          <6> QED BY <6>1, <6>3, <5>2, <3>1, <3>2, <1>1
        <5> QED BY <5>1, <5>2, <1>1
      <4> HIDE DEF x, E
      <4>3. Max(E) \in E /\ \A y \in E : Max(E) >= y
        <5>1. \E z \in E : \A y \in E : z >= y
          BY <4>1, <4>2
        <5> QED BY <5>1, Zenon DEF Max
      <4>4. Max(E) \in Int /\ x >= Max(E) /\ Max(E) >= x
        BY <4>1, <4>2, <4>3
      <4>5. Max(E) = x
        BY <4>1, <4>4
      <4> QED BY <4>5 DEF x
    <3> HIDE DEF end
    <3>4. n = h - l + 1 /\ begin + 1 = l /\ begin + n = h /\ begin \in 0 .. Len(t) /\ n \in 0 .. Len(t) - begin
      <4>1. n = end + 1 - begin /\ l \in Int /\ h \in Int /\ 1 <= l /\ l <= h /\ h <= Len(t)
        BY <3>1, <1>1
      <4> HIDE DEF n
      <4>2. n = h - l + 1 /\ begin + 1 = l /\ begin + n = h
        BY <4>1, <3>2, <3>3
      <4>3. begin \in Int /\ n \in Int /\ 0 <= begin /\ begin <= Len(t) /\ 0 <= n /\ n <= Len(t) - begin
        BY <4>1, <4>2, <3>2, <1>1
      <4> QED BY <4>2, <4>3, <1>1
    <3> HIDE DEF n
    <3>5. w = SubSeq(t, l, h) /\ w \in Text /\ Len(w) = n
      <4>1. Cells(b, begin, n) = SubSeq(t, begin + 1, begin + n) /\ SubSeq(t, begin + 1, begin + n) \in Text
            /\ Len(SubSeq(t, begin + 1, begin + n)) = n
        BY <1>1, <2>1, <3>4, CellsAre
      <4> QED BY <4>1, <3>4
    <3>6. Trimmed(t) = w
      BY <2>8, <3>5 DEF Trimmed, l, h
    <3> HIDE DEF w
    <3>7. Full([s EXCEPT !.buf = Strcpy(@, 0, w), !.len = Len(w)], w)
      <4>1. Len(w) <= s.cap
        BY <3>4, <3>5, <2>1, <1>1, SMTT(30)
      <4> QED BY <4>1, <3>5, <2>1, WriteAll
    <3>8. [s EXCEPT !.buf = Strcpy(@, 0, w), !.len = Len(w)] = [s EXCEPT !.len = n, !.buf = Strcpy(@, 0, w)]
      <4>1. s = [buf |-> s.buf, cap |-> s.cap, len |-> s.len]
        BY <2>1 DEF Valid
      <4> QED BY <4>1, <3>5
    <3> QED BY <3>5, <3>6, <3>7, <3>8, <2>2 DEF Holds
  <2> QED BY <2>7, <2>8
<1> QED BY <1>2, <1>3

(***************************************************************************)
(* Words in a text, and what is to become of the text behind a place when  *)
(* a word is replaced in it: of the part that strstr() skips, and of the   *)
(* word found.                                                             *)
(***************************************************************************)

\* Where a word stands, character by character.
LEMMA IsAtIs ==
  ASSUME NEW w \in Text, NEW t \in Text, NEW i \in Nat
  PROVE  IsAt(w, t, i) <=> i + Len(w) <= Len(t) /\ \A k \in 1 .. Len(w) : t[i + k] = w[k]
<1>1. Len(w) \in Nat /\ Len(t) \in Nat
  BY TextIs
<1>2. CASE ~(i + Len(w) <= Len(t))
  BY <1>2 DEF IsAt
<1>3. CASE i + Len(w) <= Len(t)
  <2> DEFINE p == i + 1
             q == i + Len(w)
             u == SubSeq(t, p, q)
  <2>1. /\ p \in 1 .. Len(t) + 1 /\ q \in 0 .. Len(t) /\ q - p + 1 = Len(w) /\ (p <= q <=> Len(w) # 0)
        /\ \A k \in 1 .. Len(w) : p + k - 1 = i + k
    BY <1>1, <1>3
  <2> HIDE DEF p, q
  <2>2. /\ u \in Text /\ Len(u) = IF p <= q THEN q - p + 1 ELSE 0
        /\ \A k \in 1 .. q - p + 1 : u[k] = t[p + k - 1]
    BY <2>1, PartOf
  <2> HIDE DEF u
  <2>3. Len(u) = Len(w) /\ \A k \in 1 .. Len(w) : u[k] = t[i + k]
    BY <2>1, <2>2
  <2>4. u = w <=> \A k \in 1 .. Len(w) : u[k] = w[k]
    BY <2>2, <2>3, SeqEqual DEF Text
  <2>5. IsAt(w, t, i) <=> u = w
    BY <1>3 DEF IsAt, u, p, q
  <2>6. (\A k \in 1 .. Len(w) : u[k] = w[k]) <=> \A k \in 1 .. Len(w) : t[i + k] = w[k]
    BY <2>3
  <2>7. IsAt(w, t, i) <=> \A k \in 1 .. Len(w) : t[i + k] = w[k]
    BY <2>4, <2>5, <2>6, PTL
  <2> QED BY <2>7, <1>3
<1> QED BY <1>2, <1>3

\* The rest of a text, by its characters.
LEMMA RestIs ==
  ASSUME NEW t \in Text, NEW i \in 0 .. Len(t), NEW j \in i .. Len(t)
  PROVE  LET u == SubSeq(t, i + 1, j) IN
         u \in Text /\ Len(u) = j - i /\ \A k \in 1 .. j - i : u[k] = t[i + k]
<1> DEFINE p == i + 1
           u == SubSeq(t, p, j)
<1>1. /\ p \in 1 .. Len(t) + 1 /\ j \in 0 .. Len(t) /\ j - p + 1 = j - i /\ (p <= j <=> j - i # 0)
      /\ \A k \in 1 .. j - i : p + k - 1 = i + k
  BY TextIs
<1> HIDE DEF p
<1>2. /\ u \in Text /\ Len(u) = IF p <= j THEN j - p + 1 ELSE 0
      /\ \A k \in 1 .. j - p + 1 : u[k] = t[p + k - 1]
  BY <1>1, PartOf
<1>3. u = SubSeq(t, i + 1, j)
  BY DEF p
<1> HIDE DEF u
<1>4. Len(u) = j - i
  BY <1>1, <1>2
<1>5. \A k \in 1 .. j - i : u[k] = t[i + k]
  BY <1>1, <1>2
<1> QED BY <1>2, <1>3, <1>4, <1>5

LEMMA IsAtRest ==
  ASSUME NEW w \in Text, NEW t \in Text, NEW i \in 0 .. Len(t), NEW k \in 0 .. Len(t) - i
  PROVE  IsAt(w, SubSeq(t, i + 1, Len(t)), k) <=> IsAt(w, t, i + k)
<1> DEFINE u == SubSeq(t, i + 1, Len(t))
           n == Len(t)
<1>1. n \in Nat /\ Len(w) \in Nat
  BY TextIs
<1>2. u \in Text /\ Len(u) = n - i /\ \A j \in 1 .. n - i : u[j] = t[i + j]
  <2>1. Len(t) \in i .. Len(t)
    BY <1>1
  <2> QED BY <2>1, RestIs
<1> HIDE DEF u
<1>3. IsAt(w, u, k) <=> k + Len(w) <= Len(u) /\ \A j \in 1 .. Len(w) : u[k + j] = w[j]
  BY <1>2, IsAtIs
<1>4. IsAt(w, t, i + k) <=> i + k + Len(w) <= Len(t) /\ \A j \in 1 .. Len(w) : t[i + k + j] = w[j]
  BY IsAtIs
<1>5. k + Len(w) <= Len(u) <=> i + k + Len(w) <= Len(t)
  BY <1>1, <1>2
<1>6. ASSUME k + Len(w) <= Len(u), NEW j \in 1 .. Len(w) PROVE u[k + j] = t[i + k + j]
  <2> DEFINE x == k + j
  <2>1. x \in 1 .. n - i /\ i + x = i + k + j
    BY <1>1, <1>2, <1>6
  <2> HIDE DEF x
  <2>2. u[x] = t[i + x]
    BY <2>1, <1>2
  <2> QED BY <2>1, <2>2 DEF x
<1>7. CASE ~(k + Len(w) <= Len(u))
  BY <1>3, <1>4, <1>5, <1>7 DEF u
<1>8. CASE k + Len(w) <= Len(u)
  <2>1. (\A j \in 1 .. Len(w) : u[k + j] = w[j]) <=> \A j \in 1 .. Len(w) : t[i + k + j] = w[j]
    BY <1>6, <1>8
  <2> QED BY <1>3, <1>4, <1>5, <1>8, <2>1 DEF u
<1> QED BY <1>7, <1>8

\* strstr() from a place of the text on finds the first place of the word, or none.
LEMMA StrstrIs ==
  ASSUME NEW b, NEW c, Buffer(b, c), NEW t \in Text, NEW i \in 0 .. Len(t), Len(t) <= c,
         Has(b, i, SubSeq(t, i + 1, Len(t))), NEW w \in Text
  PROVE  LET at == Strstr(b, i, w) IN
         \/ at = -1 /\ \A k \in i .. Len(t) : ~IsAt(w, t, k)
         \/ /\ at \in i .. Len(t) /\ IsAt(w, t, at)
            /\ \A k \in i .. at - 1 : ~IsAt(w, t, k)
<1> DEFINE n == Len(t)
           u == SubSeq(t, i + 1, n)
           found == {k \in 0 .. Len(u) : IsAt(w, u, k)}
           at == Strstr(b, i, w)
<1>1. n \in Nat /\ c \in Nat /\ i \in Nat
  BY TextIs DEF Buffer
<1>2. u \in Text /\ Len(u) = n - i
  <2>1. Len(t) \in i .. Len(t)
    BY <1>1
  <2> QED BY <2>1, RestIs
<1>3. CStr(b, i) = u
  <2>1. i + Len(u) <= c
    BY <1>1, <1>2
  <2> QED BY <2>1, <1>1, <1>2, TextAt
<1>4. at = IF found = {} THEN -1 ELSE i + Min(found)
  BY <1>3 DEF Strstr
<1>5. \A k \in 0 .. n - i : k \in found <=> IsAt(w, t, i + k)
  BY <1>2, IsAtRest
<1>6. found \in SUBSET Nat /\ \A k \in found : k \in 0 .. n - i
  BY <1>2
<1> HIDE DEF found, u
<1>7. ASSUME NEW k \in i .. n PROVE k - i \in 0 .. n - i /\ i + (k - i) = k
  BY <1>1
<1>8. ASSUME NEW k \in i .. n PROVE IsAt(w, t, k) <=> k - i \in found
  <2> DEFINE j == k - i
  <2>1. j \in 0 .. n - i /\ i + j = k
    BY <1>7
  <2> HIDE DEF j
  <2>2. j \in found <=> IsAt(w, t, i + j)
    BY <2>1, <1>5
  <2>3. j \in found <=> IsAt(w, t, k)
    BY <2>1, <2>2
  <2> QED BY <2>3 DEF j
<1> HIDE DEF at
<1>9. CASE found = {}
  <2>1. at = -1
    BY <1>4, <1>9
  <2>2. \A k \in i .. n : ~IsAt(w, t, k)
    BY <1>8, <1>9
  <2> QED BY <2>1, <2>2 DEF at
<1>10. CASE found # {}
  <2>1. Min(found) \in found /\ \A y \in found : Min(found) <= y
    BY <1>6, <1>10, MinFinds
  <2>2. at = i + Min(found) /\ Min(found) \in 0 .. n - i
    BY <2>1, <1>4, <1>6, <1>10
  <2>3. at \in i .. n /\ at - i = Min(found)
    BY <2>2, <1>1
  <2>4. IsAt(w, t, at)
    BY <2>1, <2>3, <1>8
  <2>5. ASSUME NEW k \in i .. at - 1 PROVE ~IsAt(w, t, k)
    <3>1. k \in i .. n /\ k - i < Min(found) /\ k - i \in Int
      BY <2>2, <2>3, <1>1
    <3>2. k - i \notin found
      BY <3>1, <2>1, <2>2
    <3> QED BY <3>1, <3>2, <1>8
  <2> QED BY <2>3, <2>4, <2>5 DEF at
<1> QED BY <1>9, <1>10

-------------------------------------------------------------------------------
\* The recursion of Replaced, what it becomes, and the same from a place on.
Piece(g, t, f, r, n) ==
  IF n = 0 THEN <<>>
  ELSE IF f # <<>> /\ IsAt(f, t, Len(t) - n) THEN r \o g[n - Len(f)]
  ELSE <<t[Len(t) - n + 1]>> \o g[n - 1]
Pieces(g, t, f, r) == [n \in 0 .. Len(t) |-> Piece(g, t, f, r, n)]
Whole(t, f, r) == CHOOSE g : g = Pieces(g, t, f, r)
Ahead(t, f, r, i) == Whole(t, f, r)[Len(t) - i]

LEMMA ReplacedIs ==
  ASSUME NEW t, NEW f, NEW r
  PROVE  Replaced(t, f, r) = Whole(t, f, r)[Len(t)]
BY DEF Replaced, Whole, Pieces, Piece

\* A word that is found in the last n characters is no longer than they are.
LEMMA PieceIs ==
  ASSUME NEW t \in Text, NEW f \in Text, NEW r \in Text, NEW n \in 0 .. Len(t),
         NEW g, \A k \in 0 .. n - 1 : g[k] \in Text
  PROVE  Piece(g, t, f, r, n) \in Text
<1>1. Len(t) \in Nat /\ Len(f) \in Nat
  BY TextIs
<1>2. CASE n = 0
  BY <1>2, EmptyText DEF Piece
<1>3. CASE n # 0 /\ f # <<>> /\ IsAt(f, t, Len(t) - n)
  <2>1. Len(f) # 0
    BY <1>3, EmptySeq DEF Text
  <2>2. n - Len(f) \in 0 .. n - 1
    <3>1. Len(t) - n + Len(f) <= Len(t)
      BY <1>3 DEF IsAt
    <3> QED BY <3>1, <2>1, <1>1
  <2> DEFINE k == n - Len(f)
  <2>3. Piece(g, t, f, r, n) = r \o g[k]
    BY <1>3 DEF Piece
  <2> HIDE DEF k
  <2>4. g[k] \in Text
    BY <2>2 DEF k
  <2>5. r \o g[k] \in Text
    BY <2>4, ConcatProperties DEF Text
  <2> QED BY <2>2, <2>3, <2>5 DEF k
<1>4. CASE n # 0 /\ ~(f # <<>> /\ IsAt(f, t, Len(t) - n))
  <2> DEFINE k == n - 1
             c == t[Len(t) - n + 1]
  <2>1. Piece(g, t, f, r, n) = <<c>> \o g[k]
    BY <1>4 DEF Piece
  <2>2. k \in 0 .. n - 1 /\ Len(t) - n + 1 \in 1 .. Len(t)
    BY <1>1, <1>4
  <2>3. c \in Char
    BY <2>2, TextIs
  <2> HIDE DEF k, c
  <2>4. <<c>> \in Text /\ g[k] \in Text
    BY <2>2, <2>3 DEF Text
  <2>5. <<c>> \o g[k] \in Text
    BY <2>4, ConcatProperties DEF Text
  <2> QED BY <2>1, <2>2, <2>5
<1> QED BY <1>2, <1>3, <1>4

LEMMA PieceAgrees ==
  ASSUME NEW t \in Text, NEW f \in Text, NEW r, NEW n \in 0 .. Len(t),
         NEW g, NEW h, \A k \in 0 .. n - 1 : h[k] = g[k]
  PROVE  Piece(h, t, f, r, n) = Piece(g, t, f, r, n)
<1>1. Len(t) \in Nat /\ Len(f) \in Nat
  BY TextIs
<1>2. CASE n = 0
  BY <1>2 DEF Piece
<1>3. CASE n # 0 /\ f # <<>> /\ IsAt(f, t, Len(t) - n)
  <2>1. Len(f) # 0
    BY <1>3, EmptySeq DEF Text
  <2>2. n - Len(f) \in 0 .. n - 1
    <3>1. Len(t) - n + Len(f) <= Len(t)
      BY <1>3 DEF IsAt
    <3> QED BY <3>1, <2>1, <1>1
  <2> QED BY <1>3, <2>2 DEF Piece
<1>4. CASE n # 0 /\ ~(f # <<>> /\ IsAt(f, t, Len(t) - n))
  <2>1. n - 1 \in 0 .. n - 1
    BY <1>1, <1>4
  <2> QED BY <1>4, <2>1 DEF Piece
<1> QED BY <1>2, <1>3, <1>4

LEMMA PiecesExist ==
  ASSUME NEW t \in Text, NEW f \in Text, NEW r \in Text
  PROVE  \E g \in [0 .. Len(t) -> Text] : g = Pieces(g, t, f, r)
<1> DEFINE N == Len(t)
           Good(g, n) == \A k \in 0 .. n : g[k] = Piece(g, t, f, r, k)
           G == {n \in 0 .. N : \E g \in [0 .. n -> Text] : Good(g, n)}
<1>1. N \in Nat
  BY TextIs
<1>2. 0 \in G
  <2> DEFINE g == [k \in 0 .. 0 |-> <<>>]
  <2>1. g \in [0 .. 0 -> Text]
    BY EmptyText
  <2>2. Good(g, 0)
    <3>1. \A k \in 0 .. 0 : k = 0 /\ g[k] = <<>>
      OBVIOUS
    <3> QED BY <3>1 DEF Piece
  <2> HIDE DEF g, Good
  <2> QED BY <2>1, <2>2, <1>1
<1>3. ASSUME NEW n \in 0 .. N, n < N, n \in G PROVE n + 1 \in G
  <2>1. PICK g \in [0 .. n -> Text] : Good(g, n)
    BY <1>3
  <2> DEFINE m == n + 1
             h == [k \in 0 .. m |-> IF k <= n THEN g[k] ELSE Piece(g, t, f, r, m)]
  <2>2. m \in 0 .. N /\ n = m - 1 /\ m \in Nat
    BY <1>1, <1>3
  <2> HIDE DEF m
  <2>3. \A k \in 0 .. m : k \in 0 .. n \/ k = m
    BY <2>2
  <2>9. \A k \in 0 .. n : k \in 0 .. m /\ k <= n
    BY <2>2
  <2>4. \A k \in 0 .. n : h[k] = g[k]
    BY <2>9
  <2>5. h[m] = Piece(g, t, f, r, m)
    <3>1. m \in 0 .. m /\ ~(m <= n)
      BY <2>2
    <3> QED BY <3>1
  <2>6. \A k \in 0 .. m : Piece(h, t, f, r, k) = Piece(g, t, f, r, k) /\ Piece(g, t, f, r, k) \in Text
    <3> SUFFICES ASSUME NEW k \in 0 .. m
                 PROVE  Piece(h, t, f, r, k) = Piece(g, t, f, r, k) /\ Piece(g, t, f, r, k) \in Text
      OBVIOUS
    <3>1. \A j \in 0 .. k - 1 : j \in 0 .. n
      BY <2>2
    <3>2. \A j \in 0 .. k - 1 : g[j] \in Text /\ h[j] = g[j]
      BY <3>1, <2>4
    <3>3. k \in 0 .. Len(t)
      BY <2>2
    <3> HIDE DEF h
    <3>4. \A j \in 0 .. k - 1 : g[j] \in Text
      BY <3>2
    <3>5. Piece(g, t, f, r, k) \in Text
      BY <3>3, <3>4, PieceIs
    <3>6. \A j \in 0 .. k - 1 : h[j] = g[j]
      BY <3>2
    <3>7. Piece(h, t, f, r, k) = Piece(g, t, f, r, k)
      BY <3>3, <3>4, <3>6, PieceAgrees
    <3> QED BY <3>5, <3>7
  <2>7. h \in [0 .. m -> Text]
    BY <2>3, <2>6, SMTT(30)
  <2> HIDE DEF h
  <2>8. Good(h, m)
    <3>1. \A k \in 0 .. n : g[k] = Piece(g, t, f, r, k)
      BY <2>1
    <3>2. ASSUME NEW k \in 0 .. m PROVE h[k] = Piece(h, t, f, r, k)
      <4>1. CASE k \in 0 .. n
        BY <4>1, <3>1, <2>4, <2>6
      <4>2. CASE k = m
        BY <4>2, <2>5, <2>6
      <4> QED BY <4>1, <4>2, <2>3
    <3> QED BY <3>2
  <2> HIDE DEF Good
  <2>10. m \in G
    BY <2>2, <2>7, <2>8
  <2> QED BY <2>10 DEF m
<1> HIDE DEF G
<1>4. \A k \in 0 .. N : k \in G
  BY ONLY <1>1, <1>2, <1>3, CountUp
<1>5. N \in G
  BY <1>1, <1>4
<1>6. PICK g \in [0 .. N -> Text] : Good(g, N)
  BY <1>5 DEF G
<1>7. g = [k \in 0 .. N |-> g[k]]
  OBVIOUS
<1>8. g = Pieces(g, t, f, r)
  BY <1>6, <1>7 DEF Pieces
<1> QED BY <1>6, <1>8

LEMMA WholeIs ==
  ASSUME NEW t \in Text, NEW f \in Text, NEW r \in Text
  PROVE  /\ \A n \in 0 .. Len(t) : Whole(t, f, r)[n] = Piece(Whole(t, f, r), t, f, r, n)
         /\ \A n \in 0 .. Len(t) : Whole(t, f, r)[n] \in Text
<1> DEFINE g == Whole(t, f, r)
<1>1. \E h : h = Pieces(h, t, f, r)
  BY PiecesExist
<1>2. g = Pieces(g, t, f, r)
  BY <1>1, Zenon DEF Whole
<1> HIDE DEF g
<1>3. ASSUME NEW n \in 0 .. Len(t) PROVE g[n] = Piece(g, t, f, r, n)
  <2>1. Pieces(g, t, f, r)[n] = Piece(g, t, f, r, n)
    BY DEF Pieces
  <2> QED BY <2>1, <1>2
<1>4. \A n \in 0 .. Len(t) : g[n] \in Text
  <2> DEFINE N == Len(t)
             G == {n \in 0 .. N : \A k \in 0 .. n : g[k] \in Text}
  <2>1. N \in Nat
    BY TextIs
  <2>2. 0 \in G
    <3>1. g[0] \in Text
      <4>1. 0 \in 0 .. Len(t)
        BY <2>1
      <4>2. g[0] = Piece(g, t, f, r, 0)
        BY <4>1, <1>3
      <4> QED BY <4>2, EmptyText DEF Piece
    <3>2. \A k \in 0 .. 0 : k = 0
      OBVIOUS
    <3> QED BY <3>1, <3>2, <2>1
  <2>3. ASSUME NEW n \in 0 .. N, n < N, n \in G PROVE n + 1 \in G
    <3> DEFINE m == n + 1
    <3>1. m \in 0 .. Len(t) /\ m - 1 = n /\ \A k \in 0 .. m : k \in 0 .. n \/ k = m
      BY <2>1, <2>3
    <3> HIDE DEF m
    <3>2. \A k \in 0 .. m - 1 : g[k] \in Text
      BY <2>3, <3>1
    <3>3. Piece(g, t, f, r, m) \in Text
      BY <3>1, <3>2, PieceIs
    <3>4. g[m] \in Text
      BY <3>1, <3>3, <1>3
    <3>5. m \in G
      BY <3>1, <3>4, <2>3
    <3> QED BY <3>5 DEF m
  <2> HIDE DEF G
  <2>4. \A k \in 0 .. N : k \in G
    BY ONLY <2>1, <2>2, <2>3, CountUp
  <2>5. N \in G
    BY <2>1, <2>4
  <2> QED BY <2>5 DEF G
<1> QED BY <1>3, <1>4 DEF g

\* The replacement from a place on, one word or one character further.
LEMMA AheadIs ==
  ASSUME NEW t \in Text, NEW f \in Text, NEW r \in Text, NEW i \in 0 .. Len(t)
  PROVE  /\ Ahead(t, f, r, i) \in Text
         /\ i = Len(t) => Ahead(t, f, r, i) = <<>>
         /\ i < Len(t) /\ f # <<>> /\ IsAt(f, t, i) =>
              i + Len(f) \in 0 .. Len(t) /\ Ahead(t, f, r, i) = r \o Ahead(t, f, r, i + Len(f))
         /\ i < Len(t) /\ ~(f # <<>> /\ IsAt(f, t, i)) =>
              Ahead(t, f, r, i) = <<t[i + 1]>> \o Ahead(t, f, r, i + 1)
<1> DEFINE g == Whole(t, f, r)
           n == Len(t) - i
<1>1. n \in 0 .. Len(t) /\ Len(t) - n = i /\ Len(t) \in Nat /\ Len(f) \in Nat /\ (n = 0 <=> i = Len(t))
  BY TextIs
<1>2. Ahead(t, f, r, i) = g[n]
  BY DEF Ahead
<1> HIDE DEF n
<1>3. g[n] \in Text /\ g[n] = Piece(g, t, f, r, n)
  BY <1>1, WholeIs
<1>4. i = Len(t) => g[n] = <<>>
  BY <1>1, <1>3 DEF Piece
<1>5. ASSUME i < Len(t), f # <<>>, IsAt(f, t, i)
      PROVE  i + Len(f) \in 0 .. Len(t) /\ g[n] = r \o Ahead(t, f, r, i + Len(f))
  <2>1. i + Len(f) <= Len(t)
    BY <1>5 DEF IsAt
  <2>2. i + Len(f) \in 0 .. Len(t) /\ Len(t) - (i + Len(f)) = n - Len(f) /\ n # 0
    BY <1>1, <1>5, <2>1
  <2>3. Ahead(t, f, r, i + Len(f)) = g[n - Len(f)]
    BY <2>2 DEF Ahead
  <2>4. g[n] = r \o g[n - Len(f)]
    BY <1>1, <1>3, <1>5, <2>2 DEF Piece
  <2> QED BY <2>2, <2>3, <2>4
<1>6. ASSUME i < Len(t), ~(f # <<>> /\ IsAt(f, t, i))
      PROVE  g[n] = <<t[i + 1]>> \o Ahead(t, f, r, i + 1)
  <2>1. Len(t) - (i + 1) = n - 1 /\ n # 0
    BY <1>1, <1>6
  <2>2. Ahead(t, f, r, i + 1) = g[n - 1]
    BY <2>1 DEF Ahead
  <2>3. g[n] = <<t[i + 1]>> \o g[n - 1]
    BY <1>1, <1>3, <1>6, <2>1 DEF Piece
  <2> QED BY <2>2, <2>3
<1> QED BY <1>2, <1>3, <1>4, <1>5, <1>6

LEMMA AheadFinds ==
  ASSUME NEW t \in Text, NEW f \in Text, NEW r \in Text, NEW i \in 0 .. Len(t), i < Len(t),
         f # <<>>, IsAt(f, t, i)
  PROVE  Ahead(t, f, r, i) = Join(r, Ahead(t, f, r, i + Len(f)))
BY AheadIs, ZenonT(60) DEF Join

LEMMA AheadStart ==
  ASSUME NEW t \in Text, NEW f, NEW r
  PROVE  Replaced(t, f, r) = Ahead(t, f, r, 0)
<1>1. Len(t) - 0 = Len(t)
  BY TextIs
<1> QED BY <1>1, ReplacedIs DEF Ahead

\* Where the word does not stand, the text stays as it is.
LEMMA AheadSkips ==
  ASSUME NEW t \in Text, NEW f \in Text, NEW r \in Text, NEW i \in 0 .. Len(t), NEW j \in i .. Len(t),
         \A k \in i .. j - 1 : ~(f # <<>> /\ IsAt(f, t, k))
  PROVE  Ahead(t, f, r, i) = SubSeq(t, i + 1, j) \o Ahead(t, f, r, j)
<1> DEFINE A(k) == Ahead(t, f, r, k)
           N == j - i
           G == {m \in 0 .. N : A(j - m) = SubSeq(t, j - m + 1, j) \o A(j)}
<1>1. N \in Nat /\ Len(t) \in Nat
  BY TextIs
<1>2. \A k \in 0 .. Len(t) : A(k) \in Text
  BY AheadIs
<1>3. 0 \in G
  <2> DEFINE p == j + 1
  <2>1. j - 0 = j /\ j - 0 + 1 = p /\ p \in Int /\ j \in Int /\ j < p /\ j \in 0 .. Len(t)
    BY <1>1
  <2> HIDE DEF p
  <2>2. SubSeq(t, p, j) = <<>>
    BY <2>1, SubSeqEmpty
  <2> HIDE DEF A
  <2>3. <<>> \o A(j) = A(j)
    BY <2>1, <1>2, ConcatEmptySeq DEF Text
  <2>4. A(j - 0) = SubSeq(t, j - 0 + 1, j) \o A(j)
    BY <2>1, <2>2, <2>3
  <2>5. 0 \in 0 .. N
    BY <1>1
  <2> QED BY <2>4, <2>5
<1>4. ASSUME NEW m \in 0 .. N, m < N, m \in G PROVE m + 1 \in G
  <2> DEFINE q == j - m
             k == j - (m + 1)
  <2>1. /\ k \in i .. j - 1 /\ k + 1 = q /\ k \in 0 .. Len(t) /\ k < Len(t) /\ q \in 0 .. Len(t)
        /\ q \in i .. j /\ m + 1 \in 0 .. N
    BY <1>1, <1>4
  <2>2. A(q) = SubSeq(t, q + 1, j) \o A(j)
    BY <1>4
  <2> HIDE DEF q, k
  <2>3. A(k) = <<t[k + 1]>> \o A(k + 1)
    BY <2>1, AheadIs, ZenonT(60)
  <2> HIDE DEF A
  <2>4. A(k) = <<t[q]>> \o (SubSeq(t, q + 1, j) \o A(j))
    BY <2>1, <2>2, <2>3
  <2>5. <<t[q]>> \in Text /\ SubSeq(t, q + 1, j) \in Text /\ A(j) \in Text
    <3>1. q \in 1 .. Len(t)
      BY <2>1, <1>1
    <3>2. j \in q .. Len(t) /\ j \in 0 .. Len(t)
      BY <2>1, <1>1
    <3>3. t[q] \in Char
      BY <3>1, TextIs
    <3> QED BY <3>1, <3>2, <3>3, <2>1, <1>2, RestIs DEF Text
  <2>6. <<t[q]>> \o (SubSeq(t, q + 1, j) \o A(j)) = (<<t[q]>> \o SubSeq(t, q + 1, j)) \o A(j)
    <3> DEFINE u == <<t[q]>>
               v == SubSeq(t, q + 1, j)
               w == A(j)
    <3>1. u \in Seq(Char) /\ v \in Seq(Char) /\ w \in Seq(Char)
      BY <2>5 DEF Text
    <3> HIDE DEF u, v, w
    <3>2. (u \o v) \o w = u \o (v \o w)
      BY <3>1, ConcatAssociative
    <3> QED BY <3>2 DEF u, v, w
  <2>7. SubSeq(t, q, j) = <<t[q]>> \o SubSeq(t, q + 1, j)
    <3>1. q \in 1 .. Len(t) /\ j \in q .. Len(t)
      BY <2>1, <1>1
    <3> QED BY <3>1, SubSeqRecursiveFirst DEF Text
  <2>8. A(k) = SubSeq(t, k + 1, j) \o A(j)
    BY <2>1, <2>4, <2>6, <2>7
  <2> QED BY <2>1, <2>8 DEF k
<1> HIDE DEF G
<1>5. \A m \in 0 .. N : m \in G
  BY ONLY <1>1, <1>3, <1>4, CountUp
<1>6. N \in G /\ j - N = i /\ j - N + 1 = i + 1
  BY <1>1, <1>5
<1> QED BY <1>6 DEF G

LEMMA AheadStays ==
  ASSUME NEW t \in Text, NEW f \in Text, NEW r \in Text, NEW i \in 0 .. Len(t),
         \A k \in i .. Len(t) : ~(f # <<>> /\ IsAt(f, t, k))
  PROVE  Ahead(t, f, r, i) = SubSeq(t, i + 1, Len(t))
<1>1. Len(t) \in Nat /\ Len(t) \in i .. Len(t) /\ Len(t) \in 0 .. Len(t)
  BY TextIs
<1>2. Ahead(t, f, r, i) = SubSeq(t, i + 1, Len(t)) \o Ahead(t, f, r, Len(t))
  <2>1. \A k \in i .. Len(t) - 1 : ~(f # <<>> /\ IsAt(f, t, k))
    BY <1>1
  <2> QED BY <2>1, <1>1, AheadSkips
<1>3. Ahead(t, f, r, Len(t)) = <<>>
  BY <1>1, AheadIs
<1>4. SubSeq(t, i + 1, Len(t)) \in Text
  BY <1>1, RestIs
<1> QED BY <1>2, <1>3, <1>4, ConcatEmptySeq DEF Text

(***************************************************************************)
(* replace() from the left, for replacements that are not longer: what was *)
(* written so far, and what is not read yet.                               *)
(***************************************************************************)

\* Two texts one behind the other in a buffer.
LEMMA StartsJoin ==
  ASSUME NEW b, NEW u \in Text, NEW v \in Text, NEW i \in Nat,
         Starts(b, i, u), Starts(b, i + Len(u), v)
  PROVE  u \o v \in Text /\ Len(u \o v) = Len(u) + Len(v) /\ Starts(b, i, u \o v)
<1> DEFINE w == u \o v
<1>1. Len(u) \in Nat /\ Len(v) \in Nat
  BY TextIs
<1>2. /\ w \in Text /\ Len(w) = Len(u) + Len(v)
      /\ \A k \in 1 .. Len(u) + Len(v) : w[k] = IF k <= Len(u) THEN u[k] ELSE v[k - Len(u)]
  BY ConcatProperties DEF Text
<1> HIDE DEF w
<1>3. ASSUME NEW k \in 1 .. Len(w) PROVE b[i + k - 1] = w[k]
  <2>1. CASE k <= Len(u)
    <3>1. k \in 1 .. Len(u)
      BY <2>1, <1>1, <1>2
    <3> QED BY <3>1, <2>1, <1>2 DEF Starts
  <2>2. CASE k > Len(u)
    <3> DEFINE j == k - Len(u)
    <3>1. j \in 1 .. Len(v) /\ i + Len(u) + j - 1 = i + k - 1 /\ w[k] = v[j]
      BY <2>2, <1>1, <1>2
    <3> HIDE DEF j
    <3>2. b[i + Len(u) + j - 1] = v[j]
      BY <3>1 DEF Starts
    <3> QED BY <3>1, <3>2
  <2> QED BY <2>1, <2>2, <1>1, <1>2
<1> QED BY <1>2, <1>3 DEF Starts, w

\* Cells that stay keep the text in them.
LEMMA StartsStays ==
  ASSUME NEW b, NEW d, NEW i \in Nat, NEW u \in Text, Starts(b, i, u),
         \A k \in i .. i + Len(u) - 1 : d[k] = b[k]
  PROVE  Starts(d, i, u)
<1>1. Len(u) \in Nat
  BY TextIs
<1>2. \A k \in 1 .. Len(u) : i + k - 1 \in i .. i + Len(u) - 1
  BY <1>1
<1> QED BY <1>2 DEF Starts

LEMMA HasStays ==
  ASSUME NEW b, NEW d, NEW i \in Nat, NEW u \in Text, Has(b, i, u),
         \A k \in i .. i + Len(u) : d[k] = b[k]
  PROVE  Has(d, i, u)
<1>1. Len(u) \in Nat
  BY TextIs
<1>2. \A k \in i .. i + Len(u) - 1 : d[k] = b[k]
  BY <1>1
<1>3. Starts(d, i, u)
  BY <1>2, StartsStays DEF Has
<1>4. i + Len(u) \in i .. i + Len(u)
  BY <1>1
<1> QED BY <1>3, <1>4 DEF Has

\* Part of a text that is in the buffer, taken out as cells.
LEMMA CellsOf ==
  ASSUME NEW b, NEW i \in Nat, NEW u \in Text, Starts(b, i, u), NEW n \in 0 .. Len(u)
  PROVE  Cells(b, i, n) = SubSeq(u, 1, n) /\ SubSeq(u, 1, n) \in Text /\ Len(SubSeq(u, 1, n)) = n
<1> DEFINE v == SubSeq(u, 1, n)
<1>1. Len(u) \in Nat /\ 0 + 1 = 1 /\ 0 \in 0 .. Len(u) /\ n - 0 = n /\ n \in Nat
  BY TextIs
<1>2. v \in Text /\ Len(v) = n /\ \A k \in 1 .. n : v[k] = u[k]
  <2>1. n \in 0 .. Len(u)
    OBVIOUS
  <2>2. /\ SubSeq(u, 0 + 1, n) \in Text /\ Len(SubSeq(u, 0 + 1, n)) = n - 0
        /\ \A k \in 1 .. n - 0 : SubSeq(u, 0 + 1, n)[k] = u[0 + k]
    BY <2>1, <1>1, RestIs
  <2>3. \A k \in 1 .. n : 0 + k = k
    OBVIOUS
  <2> QED BY <2>2, <2>3, <1>1
<1> HIDE DEF v
<1>3. v = [k \in 1 .. n |-> v[k]]
  BY <1>2, TextIs
<1>4. \A k \in 1 .. n : b[i + k - 1] = v[k]
  BY <1>1, <1>2 DEF Starts
<1> QED BY <1>2, <1>3, <1>4 DEF Cells, v

\* What stands between two places of a text that ends in the buffer, and what is behind.
LEMMA CellsBetween ==
  ASSUME NEW b, NEW t \in Text, NEW i \in 0 .. Len(t), NEW j \in i .. Len(t),
         Has(b, i, SubSeq(t, i + 1, Len(t)))
  PROVE  Cells(b, i, j - i) = SubSeq(t, i + 1, j)
<1> DEFINE N == Len(t)
           n == j - i
           u == SubSeq(t, i + 1, N)
           w == SubSeq(t, i + 1, j)
           m == Cells(b, i, n)
<1>0. N \in Nat
  BY TextIs
<1>1. /\ u \in Text /\ Len(u) = N - i /\ \A k \in 1 .. N - i : u[k] = t[i + k]
  <2>1. N \in i .. N
    BY <1>0
  <2> QED BY <2>1, RestIs
<1>2. /\ w \in Text /\ Len(w) = n /\ \A k \in 1 .. n : w[k] = t[i + k]
  BY RestIs
<1>3. n \in Nat /\ n <= N - i
  BY <1>0
<1>4. \A k \in 1 .. Len(u) : b[i + k - 1] = u[k]
  BY DEF Has, Starts
<1>5. m = [k \in 1 .. n |-> b[i + k - 1]]
  BY DEF Cells
<1> HIDE DEF u, w, m, n, N
<1>6. \A k \in 1 .. n : k \in 1 .. N - i
  BY <1>0, <1>3
<1>7. \A k \in 1 .. n : b[i + k - 1] = w[k]
  BY <1>1, <1>2, <1>4, <1>6
<1>8. w = [k \in 1 .. n |-> w[k]]
  BY <1>2, TextIs
<1>9. m = w
  BY <1>5, <1>7, <1>8
<1> QED BY <1>9 DEF m, w, n

LEMMA HasFurther ==
  ASSUME NEW b, NEW t \in Text, NEW i \in 0 .. Len(t), NEW j \in i .. Len(t),
         Has(b, i, SubSeq(t, i + 1, Len(t)))
  PROVE  Has(b, j, SubSeq(t, j + 1, Len(t)))
<1> DEFINE N == Len(t)
           u == SubSeq(t, i + 1, N)
           v == SubSeq(t, j + 1, N)
           q == j - i
           w == SubSeq(u, q + 1, Len(u))
<1>0. N \in Nat /\ N \in i .. N /\ N \in j .. N /\ j \in 0 .. N
  BY TextIs
<1>1. /\ u \in Text /\ Len(u) = N - i /\ \A k \in 1 .. N - i : u[k] = t[i + k]
  BY <1>0, RestIs
<1>2. v \in Text /\ Len(v) = N - j /\ \A k \in 1 .. N - j : v[k] = t[j + k]
  BY <1>0, RestIs
<1> HIDE DEF u
<1>3. q \in 0 .. Len(u) /\ i + q = j /\ Len(u) - q = N - j /\ q \in Nat /\ Len(u) \in q .. Len(u)
  BY <1>0, <1>1
<1> HIDE DEF q
<1>4. w \in Text /\ Len(w) = Len(u) - q /\ \A k \in 1 .. Len(u) - q : w[k] = u[q + k]
  BY <1>1, <1>3, RestIs
<1>5. Has(b, i, u) /\ i \in Nat
  BY DEF u
<1>6. Has(b, i + q, w)
  BY <1>1, <1>3, <1>5, RestAt
<1> HIDE DEF v, w, N
<1>7. ASSUME NEW k \in 1 .. N - j PROVE w[k] = v[k]
  <2>1. q + k \in 1 .. N - i /\ i + (q + k) = j + k /\ k \in 1 .. Len(u) - q
    BY <1>0, <1>1, <1>3
  <2>2. w[k] = u[q + k] /\ v[k] = t[j + k] /\ u[q + k] = t[i + (q + k)]
    BY <2>1, <1>1, <1>2, <1>4
  <2> QED BY <2>1, <2>2
<1>8. Len(w) = Len(v) /\ Len(w) = N - j
  BY <1>2, <1>3, <1>4
<1>9. w = v
  BY <1>2, <1>4, <1>7, <1>8, SeqEqual DEF Text
<1>10. Has(b, j, v)
  BY <1>3, <1>6, <1>9
<1> QED BY <1>10 DEF v, N

\* Two texts that are copied behind one that is there.
LEMMA CopiedBehind ==
  ASSUME NEW c \in Nat, NEW b, Buffer(b, c), NEW d \in Text, NEW m \in Text, NEW r \in Text,
         Starts(b, 0, d), NEW to, to = Len(d), NEW p, p = to + Len(m), NEW q, q = p + Len(r), q <= c + 1,
         NEW x, x = Memcpy(b, to, m), NEW y, y = Memcpy(x, p, r)
  PROVE  /\ Buffer(y, c)
         /\ (d \o m) \o r \in Text /\ Len((d \o m) \o r) = q /\ Starts(y, 0, (d \o m) \o r)
         /\ \A k \in q .. c : y[k] = b[k]
<1> DEFINE e == d \o m
<1>1. to \in Nat /\ p \in Nat /\ q \in Nat /\ to <= p /\ p <= q /\ p <= c + 1 /\ Len(m) \in Nat /\ Len(r) \in Nat
  <2>1. Len(d) \in Nat /\ Len(m) \in Nat /\ Len(r) \in Nat
    BY TextIs
  <2> QED BY <2>1
<1>2. (\A k \in 1 .. Len(m) : m[k] \in Cell) /\ \A k \in 1 .. Len(r) : r[k] \in Cell
  BY TextIs DEF Cell
<1>3. Buffer(x, c) /\ Starts(x, to, m) /\ (\A k \in 0 .. to - 1 : x[k] = b[k]) /\ \A k \in p .. c : x[k] = b[k]
  <2>1. Buffer(x, c)
    BY <1>1, <1>2, MemcpyIs
  <2>2. to \in Nat /\ Len(m) \in Nat /\ to + Len(m) <= c + 1 /\ Buffer(b, c) /\ \A k \in 1 .. Len(m) : m[k] \in Cell
    BY <1>1, <1>2
  <2> DEFINE v == Memcpy(b, to, m)
  <2>3. Starts(v, to, m) /\ (\A k \in 0 .. to - 1 : v[k] = b[k]) /\ \A k \in to + Len(m) .. c : v[k] = b[k]
    BY ONLY <2>2, MemcpyKeeps
  <2>4. x = v
    OBVIOUS
  <2> HIDE DEF v
  <2> QED BY <2>1, <2>3, <2>4
<1>4. Buffer(y, c) /\ Starts(y, p, r) /\ (\A k \in 0 .. p - 1 : y[k] = x[k]) /\ \A k \in q .. c : y[k] = x[k]
  <2>1. Buffer(y, c)
    BY <1>1, <1>2, <1>3, MemcpyIs
  <2>2. p \in Nat /\ Len(r) \in Nat /\ p + Len(r) <= c + 1 /\ Buffer(x, c) /\ \A k \in 1 .. Len(r) : r[k] \in Cell
    BY <1>1, <1>2, <1>3
  <2> DEFINE v == Memcpy(x, p, r)
  <2>3. Starts(v, p, r) /\ (\A k \in 0 .. p - 1 : v[k] = x[k]) /\ \A k \in p + Len(r) .. c : v[k] = x[k]
    BY ONLY <2>2, MemcpyKeeps
  <2>4. y = v
    OBVIOUS
  <2> HIDE DEF v
  <2> QED BY <2>1, <2>3, <2>4
<1>5. Starts(y, 0, d)
  <2>1. \A k \in 0 .. 0 + Len(d) - 1 : y[k] = b[k]
    BY <1>1, <1>3, <1>4
  <2> QED BY <2>1, StartsStays
<1>6. Starts(y, to, m)
  <2>1. \A k \in to .. to + Len(m) - 1 : y[k] = x[k]
    BY <1>1, <1>4
  <2> QED BY <2>1, <1>1, <1>3, StartsStays
<1>7. 0 + Len(d) = to /\ 0 \in Nat
  BY <1>1
<1>8. e \in Text /\ Len(e) = Len(d) + Len(m) /\ Starts(y, 0, e)
  BY <1>5, <1>6, <1>7, StartsJoin
<1> HIDE DEF e
<1>9. 0 + Len(e) = p /\ Starts(y, 0 + Len(e), r)
  <2>1. 0 + Len(e) = p
    BY <1>1, <1>8
  <2> QED BY <2>1, <1>4
<1>10. e \o r \in Text /\ Len(e \o r) = Len(e) + Len(r) /\ Starts(y, 0, e \o r)
  BY <1>4, <1>7, <1>8, <1>9, StartsJoin, ZenonT(60)
<1>11. \A k \in q .. c : y[k] = b[k]
  BY <1>1, <1>3, <1>4
<1> QED BY <1>4, <1>8, <1>9, <1>10, <1>11 DEF e

-------------------------------------------------------------------------------
\* The loops for a replacement that is not longer, after some turns: what is done stands in
\* front, what is left behind the place to read from.
Objects(c) == [buf : [0 .. c -> Cell], cap : {c}, len : Nat]
Downs(s, t, f, r) ==
  {z \in [obj : Objects(s.cap), from : 0 .. Len(t), to : 0 .. Len(t)] :
     /\ z.to <= z.from /\ (Len(r) = Len(f) => z.to = z.from)
     /\ z.obj.len = Len(t) - z.from + z.to
     /\ Has(z.obj.buf, z.from, SubSeq(t, z.from + 1, Len(t)))
     /\ \E d \in Text : /\ Len(d) = z.to /\ Starts(z.obj.buf, 0, d)
                        /\ Replaced(t, f, r) = d \o Ahead(t, f, r, z.from)}
NoneFrom(t, f, i) == \A k \in i .. Len(t) : ~IsAt(f, t, k)

LEMMA ObjectIs ==
  ASSUME NEW c \in Nat, NEW s
  PROVE  s \in Objects(c) <=> Valid(s) /\ s.cap = c
BY DEF Objects, Valid, Buffer

\* The object after a turn: the text in front of the word and the replacement copied down.
LEMMA ObjectMade ==
  ASSUME NEW o, o = [buf |-> o.buf, cap |-> o.cap, len |-> o.len], NEW y, NEW n,
         NEW g, g = [o EXCEPT !.buf = y, !.len = n]
  PROVE  g = [buf |-> y, cap |-> o.cap, len |-> n]
OBVIOUS

LEMMA DownTurnIs ==
  ASSUME NEW z, NEW c, NEW b, NEW l, NEW f, NEW r, NEW at, NEW from, NEW to,
         z.obj = [buf |-> b, cap |-> c, len |-> l], z.from = from, z.to = to,
         at = Strstr(b, from, f)
  PROVE  DownTurn(z, f, r) =
           IF at < 0 THEN z
           ELSE [obj |-> [buf |-> Memcpy(Memcpy(b, to, Cells(b, from, at - from)), to + (at - from), r),
                          cap |-> c, len |-> l + Len(r) - Len(f)],
                 from |-> at + Len(f), to |-> to + (at - from) + Len(r)]
<1> DEFINE o == z.obj
<1>1. o.buf = b /\ o.len = l /\ o = [buf |-> b, cap |-> c, len |-> l]
  OBVIOUS
<1>2. z.obj = o
  OBVIOUS
<1> HIDE DEF o
<1>3. ASSUME NEW y PROVE [o EXCEPT !.buf = y, !.len = @ + Len(r) - Len(f)] = [buf |-> y, cap |-> c, len |-> l + Len(r) - Len(f)]
  <2> DEFINE n == l + Len(r) - Len(f)
             g == [o EXCEPT !.buf = y, !.len = @ + Len(r) - Len(f)]
  <2>1. g = [o EXCEPT !.buf = y, !.len = n]
    BY <1>1
  <2>2. o = [buf |-> o.buf, cap |-> o.cap, len |-> o.len] /\ o.cap = c
    BY <1>1
  <2> HIDE DEF n, g
  <2>3. g = [buf |-> y, cap |-> c, len |-> n]
    BY <2>1, <2>2, ObjectMade
  <2> QED BY <2>3 DEF g, n
<1> QED BY <1>1, <1>2, <1>3 DEF DownTurn

LEMMA DownStep ==
  ASSUME NEW s, NEW t \in Text, NEW f \in Text, NEW r \in Text, s.cap \in Nat, Len(t) <= s.cap,
         f # <<>>, Len(r) <= Len(f), NEW z \in Downs(s, t, f, r)
  PROVE  /\ DownTurn(z, f, r) \in Downs(s, t, f, r)
         /\ \/ NoneFrom(t, f, z.from) /\ DownTurn(z, f, r) = z
            \/ ~NoneFrom(t, f, z.from) /\ DownTurn(z, f, r).from > z.from
<1> DEFINE c == s.cap
           N == Len(t)
           b == z.obj.buf
           from == z.from
           to == z.to
           l == z.obj.len
           at == Strstr(b, from, f)
           lr == Len(r)
           lf == Len(f)
           R == Replaced(t, f, r)
           A(k) == Ahead(t, f, r, k)
<1>1. /\ N \in Nat /\ c \in Nat /\ lr \in Nat /\ lf \in Nat /\ lf # 0 /\ N <= c /\ lr <= lf
  <2>1. lf # 0
    BY EmptySeq DEF Text
  <2> QED BY <2>1, TextIs
<1>2. /\ z \in [obj : Objects(c), from : 0 .. N, to : 0 .. N]
      /\ to <= from /\ (lr = lf => to = from) /\ l = N - from + to
      /\ Has(b, from, SubSeq(t, from + 1, N))
  BY DEF Downs
<1>3. PICK d \in Text : Len(d) = to /\ Starts(b, 0, d) /\ R = d \o A(from)
  BY DEF Downs
<1>4. from \in 0 .. N /\ to \in 0 .. N /\ Buffer(b, c) /\ z.obj = [buf |-> b, cap |-> c, len |-> l] /\ l \in Nat
  BY <1>1, <1>2 DEF Objects, Buffer
<1>5. \/ at = -1 /\ \A k \in from .. N : ~IsAt(f, t, k)
      \/ /\ at \in from .. N /\ IsAt(f, t, at)
         /\ \A k \in from .. at - 1 : ~IsAt(f, t, k)
  BY <1>1, <1>2, <1>4, StrstrIs
<1>6. DownTurn(z, f, r) =
        IF at < 0 THEN z
        ELSE [obj |-> [buf |-> Memcpy(Memcpy(b, to, Cells(b, from, at - from)), to + (at - from), r),
                       cap |-> c, len |-> l + lr - lf],
              from |-> at + lf, to |-> to + (at - from) + lr]
  <2> DEFINE F == from
             T == to
             B == b
             L == l
  <2>1. z.obj = [buf |-> B, cap |-> c, len |-> L] /\ z.from = F /\ z.to = T /\ at = Strstr(B, F, f)
    BY <1>4
  <2> HIDE DEF B, L, F, T, at, c
  <2>2. DownTurn(z, f, r) =
           IF at < 0 THEN z
           ELSE [obj |-> [buf |-> Memcpy(Memcpy(B, T, Cells(B, F, at - F)), T + (at - F), r),
                          cap |-> c, len |-> L + Len(r) - Len(f)],
                 from |-> at + Len(f), to |-> T + (at - F) + Len(r)]
    BY ONLY <2>1, DownTurnIs
  <2> QED BY <2>2 DEF B, L, F, T, c
<1> DEFINE n == at - from
           m == Cells(b, from, n)
           p == to + n
           x == Memcpy(b, to, m)
           y == Memcpy(x, p, r)
           i == at + lf
           q == p + lr
           next == [obj |-> [buf |-> y, cap |-> c, len |-> l + lr - lf], from |-> i, to |-> q]
<1>7. at >= 0 => DownTurn(z, f, r) = next
  BY <1>5, <1>6
<1>8. at = -1 => DownTurn(z, f, r) = z
  BY <1>6
<1>9. z.from = from
  OBVIOUS
<1>10. f \in Text /\ f # <<>> /\ lf = Len(f) /\ lr = Len(r) /\ N = Len(t) /\ R = Replaced(t, f, r) /\ c = s.cap
       /\ x = Memcpy(b, to, m) /\ y = Memcpy(x, p, r) /\ m = Cells(b, from, n)
  OBVIOUS
<1>11. i = at + lf /\ q = p + lr /\ p = to + n /\ n = at - from
  OBVIOUS
<1>12. /\ next.obj = [buf |-> y, cap |-> c, len |-> l + lr - lf] /\ next.from = i /\ next.to = q
       /\ next = [obj |-> [buf |-> y, cap |-> c, len |-> l + lr - lf], from |-> i, to |-> q]
  OBVIOUS
<1> HIDE DEF next, q, i, y, x, p, m, n, R, lf, lr, at, l, to, from, b, N, c
<1>13. CASE at = -1 /\ \A k \in from .. N : ~IsAt(f, t, k)
  <2>1. DownTurn(z, f, r) = z
    BY <1>8, <1>13
  <2>2. NoneFrom(t, f, z.from)
    BY <1>9, <1>10, <1>13 DEF NoneFrom
  <2> QED BY <2>1, <2>2
<1>14. CASE /\ at \in from .. N /\ IsAt(f, t, at)
            /\ \A k \in from .. at - 1 : ~IsAt(f, t, k)
  <2>1. i <= N /\ at \in Nat /\ at < N /\ at \in 0 .. N
    <3>1. at + lf <= N
      BY <1>10, <1>14 DEF IsAt
    <3> QED BY <3>1, <1>1, <1>4, <1>11, <1>14
  <2>2. n \in Nat /\ p \in Nat /\ p <= at /\ q \in Nat /\ q <= i /\ i \in 0 .. N /\ q <= c + 1 /\ q \in 0 .. N
    BY <2>1, <1>1, <1>2, <1>4, <1>11, <1>14
  <2>3. lr = lf => q = i
    BY <2>1, <1>1, <1>2, <1>4, <1>11
  <2>4. l + lr - lf = N - i + q /\ l + lr - lf \in Nat
    BY <2>1, <2>2, <1>1, <1>2, <1>4, <1>11
  <2>5. m = SubSeq(t, from + 1, at) /\ m \in Text /\ Len(m) = n
    <3>1. Cells(b, from, at - from) = SubSeq(t, from + 1, at)
      <4>1. at \in from .. Len(t) /\ from \in 0 .. Len(t) /\ Has(b, from, SubSeq(t, from + 1, Len(t)))
        BY <1>2, <1>4, <1>10, <1>14
      <4> QED BY <4>1, CellsBetween
    <3>2. SubSeq(t, from + 1, at) \in Text /\ Len(SubSeq(t, from + 1, at)) = at - from
      <4>1. at \in from .. Len(t) /\ from \in 0 .. Len(t)
        BY <1>4, <1>10, <1>14
      <4> QED BY <4>1, RestIs
    <3> QED BY <3>1, <3>2, <1>10, <1>11
  <2> DEFINE dn == (d \o m) \o r
  <2>6. /\ Buffer(y, c) /\ dn \in Text /\ Len(dn) = q /\ Starts(y, 0, dn)
        /\ \A k \in q .. c : y[k] = b[k]
    <3>1. to = Len(d) /\ p = to + Len(m) /\ q = p + Len(r)
      BY <2>5, <1>3, <1>10, <1>11
    <3>2. /\ c \in Nat /\ Buffer(b, c) /\ d \in Text /\ m \in Text /\ r \in Text
          /\ Starts(b, 0, d) /\ q <= c + 1 /\ x = Memcpy(b, to, m) /\ y = Memcpy(x, p, r)
      BY <2>2, <2>5, <1>1, <1>3, <1>4, <1>10
    <3> QED BY ONLY <3>1, <3>2, CopiedBehind
  <2>7. A(from) = m \o (r \o A(i)) /\ A(i) \in Text
    <3>1. A(from) = SubSeq(t, from + 1, at) \o A(at)
      <4>1. from \in 0 .. Len(t) /\ at \in from .. Len(t)
        BY <1>4, <1>10, <1>14
      <4>2. \A k \in from .. at - 1 : ~(f # <<>> /\ IsAt(f, t, k))
        BY <1>14
      <4> QED BY <4>1, <4>2, AheadSkips
    <3>2. A(at) = r \o A(i)
      <4>1. at \in 0 .. Len(t) /\ at < Len(t) /\ IsAt(f, t, at)
        BY <2>1, <1>10, <1>14
      <4>2. A(at) = Join(r, A(at + Len(f)))
        BY ONLY <4>1, <1>10, r \in Text, t \in Text, AheadFinds DEF A
      <4> QED BY <4>2, <1>10, <1>11 DEF Join
    <3>3. A(i) \in Text
      <4>1. i \in 0 .. Len(t)
        BY <2>2, <1>10
      <4> QED BY <4>1, AheadIs
    <3> QED BY <3>1, <3>2, <3>3, <2>5
  <2>8. R = dn \o A(i)
    <3> DEFINE a == A(i)
    <3>1. a \in Text /\ m \in Text
      BY <2>5, <2>7
    <3>2. R = Join(d, Join(m, Join(r, a)))
      BY <1>3, <2>7 DEF Join
    <3> HIDE DEF a
    <3>3. R = Join(Join(Join(d, m), r), a)
      BY <3>1, <3>2, FourTexts
    <3> QED BY <3>3 DEF a, dn, Join
  <2> HIDE DEF dn
  <2>9. Has(y, i, SubSeq(t, i + 1, N))
    <3> DEFINE v == SubSeq(t, i + 1, N)
    <3>1. i \in 0 .. Len(t) /\ i \in from .. Len(t) /\ from \in 0 .. Len(t) /\ Has(b, from, SubSeq(t, from + 1, Len(t)))
      BY <2>2, <1>1, <1>2, <1>4, <1>10, <1>11, <1>14, SMTT(30)
    <3>2. Has(b, i, SubSeq(t, i + 1, Len(t)))
      BY <3>1, HasFurther
    <3>3. Has(b, i, v)
      BY <3>2, <1>10
    <3>4. v \in Text /\ Len(v) = N - i
      <4>1. Len(t) \in i .. Len(t)
        BY <3>1, <1>1, <1>10
      <4> QED BY <4>1, <3>1, <1>10, RestIs
    <3> HIDE DEF v
    <3>5. \A k \in i .. i + Len(v) : y[k] = b[k]
      <4>1. \A k \in i .. i + Len(v) : k \in q .. c
        BY <3>4, <2>2, <1>1
      <4> QED BY <4>1, <2>6
    <3>6. i \in Nat
      BY <2>2
    <3>7. Has(y, i, v)
      BY <3>3, <3>4, <3>5, <3>6, HasStays
    <3> QED BY <3>7 DEF v
  <2>10. next \in Downs(s, t, f, r)
    <3>1. next.obj \in Objects(c)
      BY <2>4, <2>6, <1>12 DEF Objects, Buffer
    <3>2. next \in [obj : Objects(c), from : 0 .. N, to : 0 .. N]
      <4>1. next = [obj |-> next.obj, from |-> next.from, to |-> next.to]
        BY <1>12
      <4> QED BY <4>1, <3>1, <2>2, <1>12
    <3>3. next.to <= next.from /\ (lr = lf => next.to = next.from) /\ next.obj.len = N - next.from + next.to
      BY <2>2, <2>3, <2>4, <1>12
    <3>4. next.obj.buf = y /\ next.from = i /\ next.to = q
      BY <1>12
    <3>5. Has(next.obj.buf, next.from, SubSeq(t, next.from + 1, N))
      BY <2>9, <3>4
    <3>6. Len(dn) = next.to /\ Starts(next.obj.buf, 0, dn) /\ R = dn \o A(next.from)
      BY <2>6, <2>8, <3>4
    <3> QED BY <3>2, <3>3, <3>5, <3>6, <2>6, <1>10 DEF Downs
  <2>11. next.from > z.from
    BY <2>1, <1>1, <1>4, <1>9, <1>11, <1>12, <1>14
  <2>12. DownTurn(z, f, r) = next
    BY <2>1, <1>7
  <2>13. ~NoneFrom(t, f, z.from)
    BY <1>9, <1>10, <1>14 DEF NoneFrom
  <2> QED BY <2>10, <2>11, <2>12, <2>13
<1> QED BY <1>5, <1>13, <1>14

\* A loop that stays within some states, and in each turn has finished or comes further.
LEMMA TurnsEnd ==
  ASSUME NEW it, NEW V, NEW D, NEW P, it[0] \in V, P[it[0]] >= 0,
         \A v \in V : P[v] \in Int,
         \A n \in Nat : it[n] \in V =>
           /\ it[n + 1] \in V
           /\ (it[n] \in D /\ it[n + 1] = it[n]) \/ (it[n] \notin D /\ P[it[n + 1]] > P[it[n]])
  PROVE  \A n \in Nat : it[n] \in V /\ (it[n] \in D \/ P[it[n]] >= n)
<1> DEFINE Good(n) == it[n] \in V /\ (it[n] \in D \/ P[it[n]] >= n)
<1>1. Good(0)
  OBVIOUS
<1>2. ASSUME NEW n \in Nat, Good(n) PROVE Good(n + 1)
  <2>1. /\ it[n + 1] \in V
        /\ (it[n] \in D /\ it[n + 1] = it[n]) \/ (it[n] \notin D /\ P[it[n + 1]] > P[it[n]])
    BY <1>2
  <2>2. P[it[n + 1]] \in Int /\ P[it[n]] \in Int
    BY <2>1, <1>2
  <2>3. CASE it[n] \in D /\ it[n + 1] = it[n]
    BY <2>1, <2>3
  <2>4. CASE it[n] \notin D /\ P[it[n + 1]] > P[it[n]]
    <3>1. P[it[n]] >= n
      BY <2>4, <1>2
    <3>2. P[it[n + 1]] >= n + 1
      BY <3>1, <2>2, <2>4
    <3> QED BY <3>2, <2>1, Zenon
  <2> QED BY <2>1, <2>3, <2>4
<1> HIDE DEF Good
<1>3. ASSUME NEW n \in Nat PROVE Good(n)
  <2> DEFINE G == {k \in 0 .. n : Good(k)}
  <2>1. 0 \in G
    BY <1>1
  <2>2. \A k \in 0 .. n : k < n /\ k \in G => k + 1 \in G
    BY <1>2
  <2> HIDE DEF G
  <2>3. n \in 0 .. n
    OBVIOUS
  <2>4. n \in G
    BY ONLY <2>1, <2>2, <2>3, n \in Nat, CountUp
  <2> QED BY <2>4 DEF G
<1> QED BY <1>3 DEF Good

LEMMA TurnsExist ==
  ASSUME NEW V, NEW b \in V, NEW F \in [V -> V]
  PROVE  \E g \in [Nat -> V] : g[0] = b /\ \A n \in Nat : g[n + 1] = F[g[n]]
<1>1. b \in V /\ \A v \in V : F[v] \in V
  OBVIOUS
<1> QED BY ONLY <1>1, NatRecursion, SMTT(30)

\* The turns of the loops, from the object as it is.
DownStart(s) == [obj |-> s, from |-> 0, to |-> 0]
Downwards(g, s, f, r) == [n \in Nat |-> IF n = 0 THEN DownStart(s) ELSE DownTurn(g[n - 1], f, r)]
DownTurns(s, f, r) == CHOOSE g : g = Downwards(g, s, f, r)

LEMMA ReplaceDownIs ==
  ASSUME NEW s, NEW f, NEW r
  PROVE  LET z == DownTurns(s, f, r)[s.len] IN
         ReplaceDown(s, f, r) =
           IF Len(r) = Len(f) THEN z.obj
           ELSE [z.obj EXCEPT !.buf = Strcpy(@, z.to, CStr(@, z.from))]
BY DEF ReplaceDown, DownTurns, Downwards, DownStart

LEMMA DownTurnsAre ==
  ASSUME NEW s, NEW t \in Text, NEW f \in Text, NEW r \in Text, Full(s, t),
         f # <<>>, Len(r) <= Len(f)
  PROVE  /\ DownTurns(s, f, r)[0] = DownStart(s)
         /\ \A n \in Nat : DownTurns(s, f, r)[n + 1] = DownTurn(DownTurns(s, f, r)[n], f, r)
         /\ DownStart(s) \in Downs(s, t, f, r)
<1> DEFINE V == Downs(s, t, f, r)
           b == DownStart(s)
           F == [v \in V |-> DownTurn(v, f, r)]
           it == DownTurns(s, f, r)
<1>0. s.cap \in Nat /\ Len(t) <= s.cap /\ Valid(s) /\ s.len = Len(t) /\ Len(t) \in Nat /\ Has(s.buf, 0, t)
  BY ValidIs, TextIs DEF Full
<1>1. b \in V
  <2>1. b.obj = s /\ b.from = 0 /\ b.to = 0 /\ b = [obj |-> b.obj, from |-> b.from, to |-> b.to]
    BY DEF DownStart
  <2>2. s \in Objects(s.cap)
    BY <1>0, ObjectIs
  <2>3. b \in [obj : Objects(s.cap), from : 0 .. Len(t), to : 0 .. Len(t)]
    BY <2>1, <2>2, <1>0
  <2>4. SubSeq(t, b.from + 1, Len(t)) = t
    <3>1. SubSeq(t, 1, Len(t)) = t
      BY SubSeqFull DEF Text
    <3>2. b.from + 1 = 1
      BY <2>1
    <3> QED BY <3>1, <3>2
  <2>5. <<>> \in Text /\ Len(<<>>) = 0 /\ Starts(b.obj.buf, 0, <<>>)
    BY EmptyText DEF Starts
  <2>6. Replaced(t, f, r) = <<>> \o Ahead(t, f, r, b.from)
    <3>1. Replaced(t, f, r) = Ahead(t, f, r, 0) /\ Ahead(t, f, r, 0) \in Text
      <4>1. 0 \in 0 .. Len(t)
        BY <1>0
      <4> QED BY <4>1, AheadStart, AheadIs
    <3> DEFINE a == Ahead(t, f, r, 0)
    <3> HIDE DEF a
    <3>2. <<>> \o a = a
      BY <3>1, ConcatEmptySeq DEF Text, a
    <3> QED BY <2>1, <3>1, <3>2 DEF a
  <2>7. b.to <= b.from /\ (Len(r) = Len(f) => b.to = b.from) /\ b.obj.len = Len(t) - b.from + b.to
    BY <2>1, <1>0
  <2>8. Has(b.obj.buf, b.from, SubSeq(t, b.from + 1, Len(t)))
    BY <2>1, <2>4, <1>0
  <2> HIDE DEF b
  <2>9. \E d \in Text : /\ Len(d) = b.to /\ Starts(b.obj.buf, 0, d)
                        /\ Replaced(t, f, r) = d \o Ahead(t, f, r, b.from)
    BY <2>1, <2>5, <2>6
  <2> QED BY <2>3, <2>7, <2>8, <2>9 DEF Downs
<1>2. PICK h \in [Nat -> V] : h[0] = b /\ \A n \in Nat : h[n + 1] = F[h[n]]
  <2>1. b \in V /\ F \in [V -> V]
    BY <1>0, <1>1, DownStep
  <2> HIDE DEF F, V, b
  <2>2. \E g \in [Nat -> V] : g[0] = b /\ \A n \in Nat : g[n + 1] = F[g[n]]
    BY ONLY <2>1, TurnsExist, SMTT(30)
  <2> QED BY <2>2
<1>3. h = Downwards(h, s, f, r)
  <2>1. ASSUME NEW n \in Nat PROVE h[n] = IF n = 0 THEN b ELSE DownTurn(h[n - 1], f, r)
    <3>1. CASE n = 0
      BY <1>2, <3>1
    <3>2. CASE n # 0
      <4>1. n - 1 \in Nat /\ n - 1 + 1 = n
        BY <3>2
      <4> HIDE DEF V, b
      <4>2. h[n] = F[h[n - 1]] /\ h[n - 1] \in V
        BY <4>1, <1>2
      <4>3. h[n] = DownTurn(h[n - 1], f, r)
        BY <4>2
      <4> QED BY <4>3, <3>2
    <3> QED BY <3>1, <3>2
  <2>2. h = [n \in Nat |-> h[n]]
    OBVIOUS
  <2> HIDE DEF b
  <2> QED BY <2>1, <2>2 DEF Downwards, b
<1>4. it = Downwards(it, s, f, r)
  BY <1>3, Zenon DEF DownTurns
<1> HIDE DEF it
<1>5. \A n \in Nat : it[n] = IF n = 0 THEN b ELSE DownTurn(it[n - 1], f, r)
  <2> HIDE DEF b
  <2> QED BY <1>4 DEF Downwards, b
<1> HIDE DEF b, V
<1>6. it[0] = b
  BY <1>5
<1>7. ASSUME NEW n \in Nat PROVE it[n + 1] = DownTurn(it[n], f, r)
  <2> DEFINE k == n + 1
  <2>1. k \in Nat /\ k # 0 /\ k - 1 = n
    OBVIOUS
  <2> HIDE DEF k
  <2>2. it[k] = DownTurn(it[n], f, r)
    BY ONLY <2>1, <1>5
  <2> QED BY <2>2 DEF k
<1> QED BY <1>1, <1>6, <1>7 DEF it, V, b

\* After as many turns as the text has characters the word is not found any more.
LEMMA DownTurnsEnd ==
  ASSUME NEW s, NEW t \in Text, NEW f \in Text, NEW r \in Text, Full(s, t),
         f # <<>>, Len(r) <= Len(f)
  PROVE  LET z == DownTurns(s, f, r)[s.len] IN z \in Downs(s, t, f, r) /\ NoneFrom(t, f, z.from)
<1> DEFINE V == Downs(s, t, f, r)
           it == DownTurns(s, f, r)
           D == {v \in V : NoneFrom(t, f, v.from)}
           P == [v \in V |-> v.from]
           z == it[s.len]
<1>0. s.cap \in Nat /\ Len(t) <= s.cap /\ s.len = Len(t) /\ Len(t) \in Nat
  BY ValidIs, TextIs DEF Full
<1>1. it[0] = DownStart(s) /\ it[0] \in V /\ \A n \in Nat : it[n + 1] = DownTurn(it[n], f, r)
  <2>1. it[0] = DownStart(s) /\ DownStart(s) \in V
    BY DownTurnsAre
  <2>2. \A n \in Nat : it[n + 1] = DownTurn(it[n], f, r)
    BY DownTurnsAre
  <2> HIDE DEF it, V
  <2> QED BY <2>1, <2>2
<1>2. \A v \in V : v.from \in 0 .. Len(t) /\ P[v] = v.from
  BY DEF Downs
<1>3. \A v \in V : P[v] \in Int
  <2> SUFFICES ASSUME NEW v \in V PROVE P[v] \in Int
    OBVIOUS
  <2>1. P[v] = v.from /\ v.from \in 0 .. Len(t)
    BY <1>2
  <2> HIDE DEF P
  <2> QED BY ONLY <2>1, <1>0
<1>4. P[it[0]] >= 0
  <2>1. P[it[0]] \in 0 .. Len(t)
    <3> HIDE DEF it, P, V
    <3> QED BY <1>1, <1>2
  <2> QED BY <2>1, <1>0
<1>5. ASSUME NEW n \in Nat, it[n] \in V
      PROVE  /\ it[n + 1] \in V
             /\ (it[n] \in D /\ it[n + 1] = it[n]) \/ (it[n] \notin D /\ P[it[n + 1]] > P[it[n]])
  <2> DEFINE v == it[n]
             w == it[n + 1]
  <2>1. w = DownTurn(v, f, r) /\ v \in V
    BY <1>1, <1>5
  <2> HIDE DEF v, w
  <2>2. w \in V
    BY <2>1, <1>0, DownStep
  <2>3. (NoneFrom(t, f, v.from) /\ w = v) \/ (~NoneFrom(t, f, v.from) /\ w.from > v.from)
    BY <2>1, <1>0, DownStep
  <2>4. v \in D <=> NoneFrom(t, f, v.from)
    BY <2>1
  <2>5. P[v] = v.from /\ P[w] = w.from
    BY <2>1, <2>2, <1>2
  <2> HIDE DEF V, D, P
  <2> QED BY <2>2, <2>3, <2>4, <2>5 DEF v, w
<1> HIDE DEF it, V, D, P
<1>9. it[0] \in V
  BY <1>1
<1>10. \A n \in Nat : it[n] \in V =>
         /\ it[n + 1] \in V
         /\ (it[n] \in D /\ it[n + 1] = it[n]) \/ (it[n] \notin D /\ P[it[n + 1]] > P[it[n]])
  BY <1>5
<1>6. \A n \in Nat : it[n] \in V /\ (it[n] \in D \/ P[it[n]] >= n)
  BY ONLY <1>9, <1>3, <1>4, <1>10, TurnsEnd
<1> HIDE DEF z
<1>7. z \in V /\ (z \in D \/ P[z] >= Len(t))
  BY <1>0, <1>6 DEF z
<1>8. NoneFrom(t, f, z.from)
  <2>1. CASE z \in D
    BY <2>1 DEF D
  <2>2. CASE P[z] >= Len(t)
    <3>1. z.from = Len(t)
      BY <2>2, <1>0, <1>2, <1>7
    <3>2. ~IsAt(f, t, Len(t))
      <4>1. Len(f) \in Nat /\ Len(f) # 0
        BY EmptySeq, TextIs DEF Text
      <4> QED BY <4>1, <1>0 DEF IsAt
    <3> QED BY <3>1, <3>2, <1>0 DEF NoneFrom
  <2> QED BY <2>1, <2>2, <1>7
<1> QED BY <1>7, <1>8 DEF z, it, V

\* replace() by a text that is not longer gives what it should.
LEMMA ReplaceDownHolds ==
  ASSUME NEW s, NEW t \in Text, NEW f \in Text, NEW r \in Text, Full(s, t),
         f # <<>>, Len(r) <= Len(f)
  PROVE  /\ Full(ReplaceDown(s, f, r), Replaced(t, f, r)) /\ Len(Replaced(t, f, r)) <= s.cap
         /\ Replaced(t, f, r) \in Text
<1> DEFINE z == DownTurns(s, f, r)[s.len]
           c == s.cap
           N == Len(t)
           o == z.obj
           b == z.obj.buf
           from == z.from
           to == z.to
           R == Replaced(t, f, r)
           rest == SubSeq(t, from + 1, N)
           S == ReplaceDown(s, f, r)
           g == [o EXCEPT !.buf = Strcpy(@, to, CStr(@, from))]
<1>0. c \in Nat /\ N <= c /\ N \in Nat
  BY ValidIs, TextIs DEF Full
<1>1. z \in Downs(s, t, f, r) /\ NoneFrom(t, f, from)
  BY DownTurnsEnd
<1>2. S = IF Len(r) = Len(f) THEN o ELSE g
  BY ReplaceDownIs
<1> HIDE DEF z, S
<1>3. /\ z \in [obj : Objects(c), from : 0 .. N, to : 0 .. N]
      /\ to <= from /\ (Len(r) = Len(f) => to = from) /\ o.len = N - from + to
      /\ Has(b, from, rest)
  BY <1>1 DEF Downs
<1>4. PICK d \in Text : Len(d) = to /\ Starts(b, 0, d) /\ R = d \o Ahead(t, f, r, from)
  BY <1>1 DEF Downs
<1>5. from \in 0 .. N /\ to \in 0 .. N /\ Buffer(b, c) /\ o = [buf |-> b, cap |-> c, len |-> o.len] /\ o.len \in Nat
      /\ Valid(o) /\ o.cap = c
  <2>1. from \in 0 .. N /\ to \in 0 .. N /\ o \in Objects(c)
    BY <1>3
  <2> HIDE DEF o, from, to
  <2>2. Valid(o) /\ o.cap = c
    BY <2>1, <1>0, ObjectIs
  <2> QED BY <2>1, <2>2 DEF Valid, o
<1>6. rest \in Text /\ Len(rest) = N - from
  <2>1. N \in from .. N
    BY <1>0, <1>5
  <2> QED BY <2>1, <1>5, RestIs
<1>7. R = d \o rest
  <2>1. \A k \in from .. Len(t) : ~(f # <<>> /\ IsAt(f, t, k))
    BY <1>1 DEF NoneFrom
  <2>2. from \in 0 .. Len(t)
    BY <1>5
  <2>3. Ahead(t, f, r, from) = rest
    BY <2>1, <2>2, AheadStays
  <2> QED BY <2>3, <1>4
<1>8. o.buf = b
  OBVIOUS
<1>9. g = [o EXCEPT !.buf = Strcpy(b, to, CStr(b, from))]
  OBVIOUS
<1>a. R = Replaced(t, f, r) /\ S = ReplaceDown(s, f, r) /\ c = s.cap
  BY DEF S
<1> HIDE DEF b, o, from, to, rest, R, g, c, N
<1>10. d \o rest \in Text /\ Len(d \o rest) = to + (N - from) /\ Len(d \o rest) <= c
  <2>1. d \o rest \in Text /\ Len(d \o rest) = Len(d) + Len(rest)
    BY <1>4, <1>6, ConcatProperties DEF Text
  <2> DEFINE x == Len(d \o rest)
             a == Len(d)
             e == Len(rest)
  <2>2. /\ x = a + e /\ a = to /\ e = N - from /\ to <= from /\ from \in 0 .. N /\ to \in 0 .. N
        /\ c \in Nat /\ N <= c /\ N \in Nat
    BY <2>1, <1>0, <1>3, <1>4, <1>5, <1>6
  <2> HIDE DEF x, a, e
  <2>3. x = to + (N - from) /\ x <= c
    BY ONLY <2>2
  <2> QED BY <2>1, <2>3 DEF x
<1>11. CASE Len(r) = Len(f)
  <2>1. Has(b, 0, d \o rest)
    <3>1. 0 \in Nat /\ 0 + Len(d) = from
      BY <1>3, <1>4, <1>5, <1>11
    <3>2. Has(b, 0 + Len(d), rest)
      BY <3>1, <1>3
    <3> QED BY <3>1, <3>2, <1>4, <1>6, TextsJoin
  <2>2. Full(o, d \o rest)
    <3>1. o.len = Len(d \o rest)
      BY <1>3, <1>5, <1>10, <1>0
    <3> QED BY <3>1, <2>1, <1>5, <1>8, <1>10 DEF Full
  <2> QED BY <2>2, <1>2, <1>7, <1>10, <1>11, <1>a
<1>12. CASE Len(r) # Len(f)
  <2>1. CStr(b, from) = rest
    <3>1. from \in Nat /\ from + Len(rest) <= c
      BY <1>0, <1>5, <1>6
    <3> QED BY <3>1, <1>3, <1>5, <1>6, TextAt
  <2> DEFINE e == Strcpy(b, to, rest)
  <2>2. Buffer(e, c) /\ Has(e, to, rest) /\ \A k \in 0 .. to - 1 : e[k] = b[k]
    <3>1. to \in Nat /\ to + Len(rest) <= c
      BY <1>0, <1>3, <1>5, <1>6
    <3> QED BY <3>1, <1>5, <1>6, StrcpyIs
  <2>3. g = [o EXCEPT !.buf = e]
    BY <1>9, <2>1
  <2> HIDE DEF e
  <2>4. g = [buf |-> e, cap |-> c, len |-> o.len]
    BY <2>3, <1>5
  <2>5. Has(e, 0, d \o rest)
    <3>1. 0 \in Nat /\ 0 + Len(d) = to
      BY <1>4, <1>5
    <3>2. Starts(e, 0, d)
      <4>1. \A k \in 0 .. 0 + Len(d) - 1 : e[k] = b[k]
        BY <3>1, <2>2
      <4> QED BY <4>1, <1>4, StartsStays
    <3>3. Has(e, 0 + Len(d), rest)
      BY <3>1, <2>2
    <3> QED BY <3>1, <3>2, <3>3, <1>6, TextsJoin
  <2>6. Full(g, d \o rest)
    <3>1. g.buf = e /\ g.cap = c /\ g.len = Len(d \o rest) /\ g = [buf |-> g.buf, cap |-> g.cap, len |-> g.len]
      BY <2>4, <1>0, <1>3, <1>5, <1>10
    <3>2. Valid(g)
      BY <3>1, <2>2, <2>4, <1>5 DEF Valid
    <3> QED BY <3>1, <3>2, <2>5, <1>10 DEF Full
  <2> QED BY <2>6, <1>2, <1>7, <1>10, <1>12, <1>a
<1> QED BY <1>11, <1>12

(***************************************************************************)
(* replace() for longer ones: the size that the first loop counts ...      *)
(***************************************************************************)

\* The loop that counts how long the result will be, after some turns.
Sizes(t, f, r) ==
  {z \in [from : 0 .. Len(t), size : Int] :
     /\ z.size + Len(Ahead(t, f, r, z.from)) - (Len(t) - z.from) = Len(Replaced(t, f, r))
     /\ z.size >= Len(t) /\ (z.size = Len(t) => z.from = 0)}

LEMMA AheadLen ==
  ASSUME NEW t \in Text, NEW f \in Text, NEW r \in Text, NEW i \in 0 .. Len(t), NEW at \in i .. Len(t),
         f # <<>>, IsAt(f, t, at), \A k \in i .. at - 1 : ~IsAt(f, t, k)
  PROVE  /\ at + Len(f) \in 0 .. Len(t) /\ at < Len(t)
         /\ Len(Ahead(t, f, r, at + Len(f))) \in Nat
         /\ Len(Ahead(t, f, r, i)) = (at - i) + Len(r) + Len(Ahead(t, f, r, at + Len(f)))
<1> DEFINE j == at + Len(f)
           a == Ahead(t, f, r, j)
           u == SubSeq(t, i + 1, at)
           ra == r \o a
<1>1. Len(f) \in Nat /\ Len(f) # 0 /\ Len(r) \in Nat /\ Len(t) \in Nat /\ at \in 0 .. Len(t)
  <2>1. Len(f) # 0
    BY EmptySeq DEF Text
  <2> QED BY <2>1, TextIs
<1>2. j \in 0 .. Len(t) /\ at < Len(t)
  BY <1>1 DEF IsAt
<1>3. a \in Text
  <2> HIDE DEF j
  <2> QED BY <1>2, AheadIs
<1>4. Ahead(t, f, r, at) = Join(r, a)
  BY <1>1, <1>2, AheadFinds
<1>5. ra \in Text /\ Len(ra) = Len(r) + Len(a) /\ Len(a) \in Nat
  <2> HIDE DEF a
  <2> QED BY <1>3, TextIs, ConcatProperties DEF Text
<1>6. u \in Text /\ Len(u) = at - i
  BY RestIs
<1>7. Ahead(t, f, r, i) = u \o ra
  <2>1. \A k \in i .. at - 1 : ~(f # <<>> /\ IsAt(f, t, k))
    OBVIOUS
  <2>2. Ahead(t, f, r, i) = Join(u, Ahead(t, f, r, at))
    <3>1. Ahead(t, f, r, i) = u \o Ahead(t, f, r, at)
      BY <2>1, AheadSkips
    <3> QED BY <3>1 DEF Join
  <2>3. Ahead(t, f, r, at) = ra
    BY <1>4 DEF Join
  <2> HIDE DEF ra, u
  <2> QED BY <2>2, <2>3 DEF Join
<1> HIDE DEF u, ra, a, j
<1>8. Len(u \o ra) = Len(u) + Len(ra)
  BY <1>5, <1>6, ConcatProperties DEF Text
<1>9. Len(Ahead(t, f, r, i)) = (at - i) + Len(r) + Len(a)
  BY <1>1, <1>5, <1>6, <1>7, <1>8
<1> QED BY <1>2, <1>5, <1>9 DEF a, j

LEMMA SizeStep ==
  ASSUME NEW s, NEW t \in Text, NEW f \in Text, NEW r \in Text, Full(s, t),
         f # <<>>, Len(f) < Len(r), NEW z \in Sizes(t, f, r)
  PROVE  /\ SizeTurn(z, s, f, Len(r) - Len(f)) \in Sizes(t, f, r)
         /\ \/ NoneFrom(t, f, z.from) /\ SizeTurn(z, s, f, Len(r) - Len(f)) = z
            \/ ~NoneFrom(t, f, z.from) /\ SizeTurn(z, s, f, Len(r) - Len(f)).from > z.from
<1> DEFINE N == Len(t)
           from == z.from
           size == z.size
           at == Strstr(s.buf, from, f)
           lf == Len(f)
           lr == Len(r)
           i == at + lf
           next == [from |-> i, size |-> size + (lr - lf)]
           A(k) == Ahead(t, f, r, k)
           R == Replaced(t, f, r)
<1>1. N \in Nat /\ lf \in Nat /\ lr \in Nat /\ lf # 0 /\ s.cap \in Nat /\ N <= s.cap /\ Buffer(s.buf, s.cap) /\ Has(s.buf, 0, t)
  <2>1. lf # 0
    BY EmptySeq DEF Text
  <2> QED BY <2>1, TextIs DEF Full, Valid, Buffer
<1>2. /\ z = [from |-> from, size |-> size] /\ from \in 0 .. N /\ size \in Int
      /\ size + Len(A(from)) - (N - from) = Len(R) /\ size >= N /\ (size = N => from = 0)
  BY DEF Sizes
<1>3. SizeTurn(z, s, f, lr - lf) = IF at < 0 THEN z ELSE next
  BY DEF SizeTurn
<1>4. \/ at = -1 /\ \A k \in from .. N : ~IsAt(f, t, k)
      \/ /\ at \in from .. N /\ IsAt(f, t, at)
         /\ \A k \in from .. at - 1 : ~IsAt(f, t, k)
  <2>1. 0 \in 0 .. Len(t) /\ from \in 0 .. Len(t) /\ SubSeq(t, 0 + 1, Len(t)) = t
    <3>1. SubSeq(t, 1, Len(t)) = t
      BY SubSeqFull DEF Text
    <3> QED BY <3>1, <1>1, <1>2
  <2>2. Has(s.buf, 0, SubSeq(t, 0 + 1, Len(t)))
    BY <2>1, <1>1
  <2>3. Has(s.buf, from, SubSeq(t, from + 1, Len(t)))
    BY <2>1, <2>2, HasFurther
  <2> QED BY <2>1, <2>3, <1>1, StrstrIs
<1>5. N = Len(t) /\ lf = Len(f) /\ lr = Len(r) /\ i = at + lf /\ from = z.from /\ lf < lr /\ R = Replaced(t, f, r)
      /\ next = [from |-> i, size |-> size + (lr - lf)]
  OBVIOUS
<1>6. next.from = i /\ next.size = size + (lr - lf)
  OBVIOUS
<1> HIDE DEF next, i, N, from, size, at, lf, lr, R
<1>7. CASE at = -1 /\ \A k \in from .. N : ~IsAt(f, t, k)
  <2>1. SizeTurn(z, s, f, lr - lf) = z
    BY <1>3, <1>7
  <2>2. NoneFrom(t, f, z.from)
    BY <1>5, <1>7 DEF NoneFrom
  <2> QED BY <2>1, <2>2, <1>5
<1>8. CASE /\ at \in from .. N /\ IsAt(f, t, at)
           /\ \A k \in from .. at - 1 : ~IsAt(f, t, k)
  <2>1. SizeTurn(z, s, f, lr - lf) = next
    BY <1>2, <1>3, <1>8
  <2>2. i \in 0 .. N /\ at < N /\ Len(A(i)) \in Nat /\ Len(A(from)) = (at - from) + lr + Len(A(i))
    <3>1. from \in 0 .. Len(t) /\ at \in from .. Len(t)
      BY <1>2, <1>5, <1>8
    <3>2. f # <<>> /\ IsAt(f, t, at) /\ (\A k \in from .. at - 1 : ~IsAt(f, t, k)) /\ t \in Text /\ f \in Text /\ r \in Text
      BY <1>8
    <3>3. /\ at + Len(f) \in 0 .. Len(t) /\ at < Len(t)
          /\ Len(A(at + Len(f))) \in Nat
          /\ Len(A(from)) = (at - from) + Len(r) + Len(A(at + Len(f)))
      BY ONLY <3>1, <3>2, AheadLen
    <3> QED BY <3>3, <1>5
  <2>3. i = at + lf /\ i > from /\ size + (lr - lf) > N
    BY <2>2, <1>1, <1>2, <1>5, <1>8
  <2>4. size + (lr - lf) + Len(A(i)) - (N - i) = Len(R)
    <3> DEFINE a == Len(A(i))
               e == Len(A(from))
               L == Len(R)
    <3>1. a \in Nat /\ e = (at - from) + lr + a /\ size + e - (N - from) = L
      BY <2>2, <1>2
    <3> HIDE DEF a, e, L
    <3>2. e \in Int /\ at \in Int /\ from \in Int
      BY <3>1, <1>1, <1>2, <1>8
    <3>3. size + (lr - lf) + a - (N - i) = L
      BY <3>1, <3>2, <2>3, <1>1, <1>2
    <3> QED BY <3>3 DEF a, L
  <2>5. next \in [from : 0 .. N, size : Int]
    BY <2>2, <1>1, <1>2, <1>5
  <2>6. next \in Sizes(t, f, r)
    <3>1. next.size + Len(A(next.from)) - (N - next.from) = Len(R)
      BY <2>4, <1>6
    <3>2. next.size >= N /\ (next.size = N => next.from = 0)
      BY <2>3, <1>1, <1>2, <1>6
    <3> QED BY <3>1, <3>2, <2>5, <1>5 DEF Sizes
  <2>7. ~NoneFrom(t, f, z.from)
    BY <1>5, <1>8 DEF NoneFrom
  <2> QED BY <2>1, <2>3, <2>6, <2>7, <1>5, <1>6
<1> QED BY <1>4, <1>7, <1>8

\* The turns of that loop.
SizeStart(s) == [from |-> 0, size |-> s.len]
Sizing(g, s, f, diff) == [n \in Nat |-> IF n = 0 THEN SizeStart(s) ELSE SizeTurn(g[n - 1], s, f, diff)]
SizeTurns(s, f, diff) == CHOOSE g : g = Sizing(g, s, f, diff)

LEMMA GrownSizeIs ==
  ASSUME NEW s, NEW f, NEW diff
  PROVE  GrownSize(s, f, diff) = SizeTurns(s, f, diff)[s.len].size
BY DEF GrownSize, SizeTurns, Sizing, SizeStart

LEMMA SizeTurnsAre ==
  ASSUME NEW s, NEW t \in Text, NEW f \in Text, NEW r \in Text, Full(s, t),
         f # <<>>, Len(f) < Len(r), NEW diff, diff = Len(r) - Len(f)
  PROVE  /\ SizeTurns(s, f, diff)[0] = SizeStart(s)
         /\ \A n \in Nat : SizeTurns(s, f, diff)[n + 1] = SizeTurn(SizeTurns(s, f, diff)[n], s, f, diff)
         /\ SizeStart(s) \in Sizes(t, f, r)
<1> DEFINE V == Sizes(t, f, r)
           b == SizeStart(s)
           F == [v \in V |-> SizeTurn(v, s, f, diff)]
           it == SizeTurns(s, f, diff)
<1>0. s.len = Len(t) /\ Len(t) \in Nat
  BY TextIs DEF Full
<1>1. b \in V
  <2>1. b.from = 0 /\ b.size = Len(t) /\ b \in [from : 0 .. Len(t), size : Int]
    BY <1>0 DEF SizeStart
  <2>2. Replaced(t, f, r) = Ahead(t, f, r, 0) /\ Len(Ahead(t, f, r, 0)) \in Nat
    <3>1. 0 \in 0 .. Len(t)
      BY <1>0
    <3>2. Ahead(t, f, r, 0) \in Text
      BY <3>1, AheadIs
    <3> QED BY <3>2, AheadStart, TextIs
  <2> HIDE DEF b
  <2>3. b.size + Len(Ahead(t, f, r, b.from)) - (Len(t) - b.from) = Len(Replaced(t, f, r))
    <3> DEFINE L == Len(Ahead(t, f, r, 0))
    <3>1. Len(Ahead(t, f, r, b.from)) = L /\ Len(Replaced(t, f, r)) = L /\ L \in Nat
      BY <2>1, <2>2
    <3> HIDE DEF L
    <3> QED BY <3>1, <2>1, <1>0
  <2> QED BY <2>1, <2>3, <1>0 DEF Sizes
<1>2. PICK h \in [Nat -> V] : h[0] = b /\ \A n \in Nat : h[n + 1] = F[h[n]]
  <2>1. b \in V /\ F \in [V -> V]
    BY <1>0, <1>1, SizeStep
  <2> HIDE DEF F, V, b
  <2>2. \E g \in [Nat -> V] : g[0] = b /\ \A n \in Nat : g[n + 1] = F[g[n]]
    BY ONLY <2>1, TurnsExist, SMTT(30)
  <2> QED BY <2>2
<1>3. h = Sizing(h, s, f, diff)
  <2>1. ASSUME NEW n \in Nat PROVE h[n] = IF n = 0 THEN b ELSE SizeTurn(h[n - 1], s, f, diff)
    <3>1. CASE n = 0
      BY <1>2, <3>1
    <3>2. CASE n # 0
      <4>1. n - 1 \in Nat /\ n - 1 + 1 = n
        BY <3>2
      <4> HIDE DEF V, b
      <4>2. h[n] = F[h[n - 1]] /\ h[n - 1] \in V
        BY <4>1, <1>2
      <4>3. h[n] = SizeTurn(h[n - 1], s, f, diff)
        BY <4>2
      <4> QED BY <4>3, <3>2
    <3> QED BY <3>1, <3>2
  <2>2. h = [n \in Nat |-> h[n]]
    OBVIOUS
  <2> HIDE DEF b
  <2> QED BY <2>1, <2>2 DEF Sizing, b
<1>4. it = Sizing(it, s, f, diff)
  BY <1>3, Zenon DEF SizeTurns
<1> HIDE DEF it
<1>5. \A n \in Nat : it[n] = IF n = 0 THEN b ELSE SizeTurn(it[n - 1], s, f, diff)
  <2> HIDE DEF b
  <2> QED BY <1>4 DEF Sizing, b
<1> HIDE DEF b, V
<1>6. it[0] = b
  BY <1>5
<1>7. ASSUME NEW n \in Nat PROVE it[n + 1] = SizeTurn(it[n], s, f, diff)
  <2> DEFINE k == n + 1
  <2>1. k \in Nat /\ k # 0 /\ k - 1 = n
    OBVIOUS
  <2> HIDE DEF k
  <2>2. it[k] = SizeTurn(it[n], s, f, diff)
    BY ONLY <2>1, <1>5
  <2> QED BY <2>2 DEF k
<1> QED BY <1>1, <1>6, <1>7 DEF it, V, b

\* The size that is counted is the length of the result; when it is that of the text,
\* there is nothing to replace.
LEMMA GrownSizeHolds ==
  ASSUME NEW s, NEW t \in Text, NEW f \in Text, NEW r \in Text, Full(s, t),
         f # <<>>, Len(f) < Len(r)
  PROVE  /\ GrownSize(s, f, Len(r) - Len(f)) = Len(Replaced(t, f, r))
         /\ Replaced(t, f, r) \in Text /\ Len(Replaced(t, f, r)) >= Len(t)
         /\ Len(Replaced(t, f, r)) = Len(t) => Replaced(t, f, r) = t
<1> DEFINE diff == Len(r) - Len(f)
           V == Sizes(t, f, r)
           it == SizeTurns(s, f, diff)
           D == {v \in V : NoneFrom(t, f, v.from)}
           P == [v \in V |-> v.from]
           z == it[s.len]
           R == Replaced(t, f, r)
<1>0. s.len = Len(t) /\ Len(t) \in Nat
  BY TextIs DEF Full
<1>1. it[0] = SizeStart(s) /\ it[0] \in V /\ \A n \in Nat : it[n + 1] = SizeTurn(it[n], s, f, diff)
  <2>1. diff = Len(r) - Len(f)
    OBVIOUS
  <2> HIDE DEF diff, V, it
  <2>2. SizeTurns(s, f, diff)[0] = SizeStart(s)
    BY <2>1, SizeTurnsAre
  <2>3. SizeStart(s) \in Sizes(t, f, r)
    BY <2>1, SizeTurnsAre
  <2>4. \A n \in Nat : SizeTurns(s, f, diff)[n + 1] = SizeTurn(SizeTurns(s, f, diff)[n], s, f, diff)
    BY <2>1, SizeTurnsAre
  <2> QED BY <2>2, <2>3, <2>4 DEF V, it
<1>2. \A v \in V : v.from \in 0 .. Len(t) /\ P[v] = v.from
  BY DEF Sizes
<1>3. \A v \in V : P[v] \in Int
  BY <1>0, <1>2
<1>4. P[it[0]] >= 0
  <2>1. P[it[0]] \in 0 .. Len(t)
    <3> HIDE DEF it, P, V
    <3> QED BY <1>1, <1>2
  <2> QED BY <2>1, <1>0
<1>5. ASSUME NEW n \in Nat, it[n] \in V
      PROVE  /\ it[n + 1] \in V
             /\ (it[n] \in D /\ it[n + 1] = it[n]) \/ (it[n] \notin D /\ P[it[n + 1]] > P[it[n]])
  <2> DEFINE v == it[n]
             w == it[n + 1]
  <2>1. w = SizeTurn(v, s, f, diff) /\ v \in V
    BY <1>1, <1>5
  <2> HIDE DEF v, w
  <2>2. w \in V
    BY <2>1, SizeStep
  <2>3. (NoneFrom(t, f, v.from) /\ w = v) \/ (~NoneFrom(t, f, v.from) /\ w.from > v.from)
    BY <2>1, SizeStep
  <2>4. v \in D <=> NoneFrom(t, f, v.from)
    BY <2>1
  <2>5. P[v] = v.from /\ P[w] = w.from
    BY <2>1, <2>2, <1>2
  <2> HIDE DEF V, D, P
  <2> QED BY <2>2, <2>3, <2>4, <2>5 DEF v, w
<1> HIDE DEF it, V, D, P
<1>9. it[0] \in V
  BY <1>1
<1>10. \A n \in Nat : it[n] \in V =>
         /\ it[n + 1] \in V
         /\ (it[n] \in D /\ it[n + 1] = it[n]) \/ (it[n] \notin D /\ P[it[n + 1]] > P[it[n]])
  BY <1>5
<1>6. \A n \in Nat : it[n] \in V /\ (it[n] \in D \/ P[it[n]] >= n)
  BY ONLY <1>9, <1>3, <1>4, <1>10, TurnsEnd
<1>11. GrownSize(s, f, diff) = z.size
  BY GrownSizeIs DEF it
<1> HIDE DEF z
<1>7. z \in V /\ (z \in D \/ P[z] >= Len(t))
  BY <1>0, <1>6 DEF z
<1>12. /\ z.from \in 0 .. Len(t) /\ z.size \in Int
       /\ z.size + Len(Ahead(t, f, r, z.from)) - (Len(t) - z.from) = Len(R)
       /\ z.size >= Len(t) /\ (z.size = Len(t) => z.from = 0)
  BY <1>7 DEF V, Sizes
<1>8. NoneFrom(t, f, z.from)
  <2>1. CASE z \in D
    BY <2>1 DEF D
  <2>2. CASE P[z] >= Len(t)
    <3>1. z.from = Len(t)
      BY <2>2, <1>0, <1>2, <1>7
    <3>2. ~IsAt(f, t, Len(t))
      <4>1. Len(f) \in Nat /\ Len(f) # 0
        BY EmptySeq, TextIs DEF Text
      <4> QED BY <4>1, <1>0 DEF IsAt
    <3> QED BY <3>1, <3>2, <1>0 DEF NoneFrom
  <2> QED BY <2>1, <2>2, <1>7
<1>13. \A i \in 0 .. Len(t) : NoneFrom(t, f, i) => Ahead(t, f, r, i) = SubSeq(t, i + 1, Len(t))
  BY AheadStays DEF NoneFrom
<1>14. R = Ahead(t, f, r, 0) /\ R \in Text
  <2>1. 0 \in 0 .. Len(t)
    BY <1>0
  <2>2. Ahead(t, f, r, 0) \in Text
    BY <2>1, AheadIs
  <2>3. R = Ahead(t, f, r, 0)
    BY AheadStart
  <2> QED BY <2>2, <2>3
<1>15. Len(R) = z.size
  <2> DEFINE a == Ahead(t, f, r, z.from)
  <2>1. a = SubSeq(t, z.from + 1, Len(t))
    BY <1>8, <1>12, <1>13
  <2>2. Len(SubSeq(t, z.from + 1, Len(t))) = Len(t) - z.from
    <3>1. Len(t) \in z.from .. Len(t)
      BY <1>0, <1>12
    <3> QED BY <3>1, <1>12, RestIs
  <2>3. z.size + Len(a) - (Len(t) - z.from) = Len(R) /\ Len(a) = Len(t) - z.from
    BY <2>1, <2>2, <1>12
  <2> DEFINE L == Len(R)
             e == Len(a)
             from == z.from
             size == z.size
  <2>4. size + e - (Len(t) - from) = L /\ e = Len(t) - from /\ size \in Int /\ from \in Int
    BY <2>3, <1>12
  <2> HIDE DEF L, e, from, size
  <2>5. L = size
    BY <2>4, <1>0
  <2> QED BY <2>5 DEF L, size
<1>16. Len(R) = Len(t) => R = t
  <2>1. SUFFICES ASSUME Len(R) = Len(t) PROVE R = t
    OBVIOUS
  <2>2. z.from = 0
    BY <2>1, <1>12, <1>15
  <2>3. Ahead(t, f, r, 0) = SubSeq(t, 0 + 1, Len(t))
    BY <2>2, <1>8, <1>12, <1>13
  <2>4. SubSeq(t, 1, Len(t)) = t
    BY SubSeqFull DEF Text
  <2> QED BY <2>3, <2>4, <1>14
<1> QED BY <1>11, <1>12, <1>14, <1>15, <1>16

(***************************************************************************)
(* ... and the loop that works from the right: the text to a place, as it  *)
(* was, and behind it the text as it should be.                            *)
(***************************************************************************)

\* No end of the word is the start of the word or of its replacement, so that two places of
\* it do not overlap, and what is put in makes no new one.

LEMMA NoOverlap ==
  ASSUME NEW w \in Text, NEW f \in Text, NEW x \in Text, ~EndStarts(f, x), Len(f) <= Len(x),
         NEW i \in Nat, NEW j \in Nat, IsAt(f, w, i), IsAt(x, w, j), i < j
  PROVE  i + Len(f) <= j
<1> SUFFICES ASSUME i + Len(f) > j PROVE FALSE
  <2>1. Len(f) \in Nat
    BY TextIs
  <2> QED BY <2>1
<1> DEFINE n == Len(f)
           k == j - i
           u == SubSeq(f, k + 1, n)
<1>1. n \in Nat /\ Len(x) \in Nat /\ k \in 1 .. n - 1 /\ i + k = j /\ k \in 0 .. n
  <2>1. n \in Nat /\ Len(x) \in Nat
    BY TextIs
  <2> HIDE DEF n
  <2>2. i + n > j
    BY DEF n
  <2> QED BY <2>1, <2>2
<1>2. u \in Text /\ Len(u) = n - k /\ \A q \in 1 .. n - k : u[q] = f[k + q]
  <2> HIDE DEF k
  <2>1. Len(f) \in k .. Len(f)
    BY <1>1
  <2> QED BY <2>1, <1>1, RestIs
<1>3. \A q \in 1 .. n : w[i + q] = f[q]
  BY IsAtIs
<1>4. \A q \in 1 .. Len(x) : w[j + q] = x[q]
  BY IsAtIs
<1> HIDE DEF k, u, n
<1>5. \A q \in 1 .. Len(u) : x[0 + q] = u[q]
  <2>1. ASSUME NEW q \in 1 .. n - k PROVE x[q] = u[q]
    <3>1. q \in 1 .. Len(x) /\ k + q \in 1 .. n /\ i + (k + q) = j + q
      BY <1>1 DEF n
    <3>2. w[i + (k + q)] = f[k + q]
      BY <3>1, <1>3
    <3>3. w[j + q] = x[q]
      BY <3>1, <1>4
    <3> QED BY <3>1, <3>2, <3>3, <1>2
  <2>2. \A q \in 1 .. n - k : 0 + q = q
    BY <1>1
  <2> QED BY <2>1, <2>2, <1>2
<1>6. 0 + Len(u) <= Len(x) /\ 0 \in Nat
  BY <1>1, <1>2 DEF n
<1>7. IsAt(u, x, 0)
  BY <1>2, <1>5, <1>6, IsAtIs
<1> QED BY <1>1, <1>7 DEF u, n, EndStarts

\* The replacement has been done from a place on that is the end of the text or the start of
\* a word found in it.
Stop(t, f, c) == c = Len(t) \/ IsAt(f, t, c)
Mixed(t, f, r, c) == SubSeq(t, 1, c) \o Ahead(t, f, r, c)

\* In front of that place the text is as it was, and so are the places of the word.
LEMMA MixedIs ==
  ASSUME NEW t \in Text, NEW f \in Text, NEW r \in Text, f # <<>>, Len(f) < Len(r), Apart(f, r),
         NEW c \in 0 .. Len(t), Stop(t, f, c)
  PROVE  /\ Mixed(t, f, r, c) \in Text /\ SubSeq(t, 1, c) \in Text /\ Len(SubSeq(t, 1, c)) = c
         /\ Ahead(t, f, r, c) \in Text /\ Len(Ahead(t, f, r, c)) \in Nat
         /\ Len(Mixed(t, f, r, c)) = c + Len(Ahead(t, f, r, c))
         /\ \A k \in 0 .. c - 1 : IsAt(f, Mixed(t, f, r, c), k) <=> IsAt(f, t, k)
         /\ \A k \in 0 .. c - 1 : IsAt(f, t, k) => k + Len(f) <= c
<1> DEFINE a == Ahead(t, f, r, c)
           u == SubSeq(t, 1, c)
           w == Mixed(t, f, r, c)
           N == Len(t)
           lf == Len(f)
<1>1. N \in Nat /\ lf \in Nat /\ lf # 0 /\ Len(r) \in Nat /\ lf <= Len(r) /\ lf <= Len(f)
  <2>1. Len(f) # 0
    BY EmptySeq DEF Text
  <2> QED BY <2>1, TextIs
<1>2. a \in Text /\ Len(a) \in Nat /\ (c = N => a = <<>>)
  BY AheadIs, TextIs
<1>3. u \in Text /\ Len(u) = c /\ \A k \in 1 .. c : u[k] = t[k]
  <2>1. 0 \in 0 .. Len(t) /\ c \in 0 .. Len(t) /\ 0 + 1 = 1
    BY <1>1
  <2>2. LET v == SubSeq(t, 0 + 1, c) IN v \in Text /\ Len(v) = c - 0 /\ \A k \in 1 .. c - 0 : v[k] = t[0 + k]
    BY <2>1, RestIs
  <2>3. c - 0 = c /\ \A k \in 1 .. c : 0 + k = k
    OBVIOUS
  <2> QED BY <2>1, <2>2, <2>3
<1>4. w = u \o a
  BY DEF Mixed
<1>5. c < N => a = r \o Ahead(t, f, r, c + lf) /\ Ahead(t, f, r, c + lf) \in Text
  <2>1. SUFFICES ASSUME c < N PROVE a = r \o Ahead(t, f, r, c + lf) /\ Ahead(t, f, r, c + lf) \in Text
    OBVIOUS
  <2>2. IsAt(f, t, c)
    BY <2>1 DEF Stop
  <2>3. a = Join(r, Ahead(t, f, r, c + lf))
    BY <2>1, <2>2, AheadFinds
  <2>4. c + lf \in 0 .. Len(t)
    BY <2>2, <1>1 DEF IsAt
  <2>5. Ahead(t, f, r, c + lf) \in Text
    <3> DEFINE j == c + lf
    <3> HIDE DEF j
    <3>1. j \in 0 .. Len(t)
      BY <2>4 DEF j
    <3>2. Ahead(t, f, r, j) \in Text
      BY <3>1, AheadIs
    <3> QED BY <3>2 DEF j
  <2> QED BY <2>3, <2>5 DEF Join
<1> DEFINE a2 == Ahead(t, f, r, c + lf)
<1> HIDE DEF a, a2, u, w, N, lf
<1>6. w \in Text /\ Len(w) = c + Len(a) /\ (\A k \in 1 .. c : w[k] = t[k]) /\ \A k \in 1 .. Len(a) : w[c + k] = a[k]
  <2>1. /\ u \o a \in Text /\ Len(u \o a) = Len(u) + Len(a)
        /\ \A k \in 1 .. Len(u) + Len(a) : (u \o a)[k] = IF k <= Len(u) THEN u[k] ELSE a[k - Len(u)]
    BY <1>2, <1>3, ConcatProperties DEF Text
  <2>2. /\ w \in Text /\ Len(w) = c + Len(a)
        /\ \A k \in 1 .. c + Len(a) : w[k] = IF k <= c THEN u[k] ELSE a[k - c]
    BY <2>1, <1>3, <1>4
  <2>3. \A k \in 1 .. c : w[k] = t[k]
    <3>1. \A k \in 1 .. c : k \in 1 .. c + Len(a) /\ k <= c
      BY <1>2
    <3> QED BY <3>1, <2>2, <1>3
  <2>4. \A k \in 1 .. Len(a) : w[c + k] = a[k]
    <3>1. \A k \in 1 .. Len(a) : c + k \in 1 .. c + Len(a) /\ ~(c + k <= c) /\ c + k - c = k
      BY <1>2
    <3> QED BY <3>1, <2>2
  <2> QED BY <2>2, <2>3, <2>4
<1>7. c < N => IsAt(r, w, c) /\ IsAt(f, t, c)
  <2>1. SUFFICES ASSUME c < N PROVE IsAt(r, w, c) /\ IsAt(f, t, c)
    OBVIOUS
  <2>2. IsAt(f, t, c)
    BY <2>1 DEF Stop, N
  <2>3. a = r \o a2 /\ a2 \in Text
    BY <2>1, <1>5 DEF a2
  <2>4. Len(a) = Len(r) + Len(a2) /\ Len(a2) \in Nat /\ \A k \in 1 .. Len(r) : a[k] = r[k]
    <3>1. /\ Len(r \o a2) = Len(r) + Len(a2)
          /\ \A k \in 1 .. Len(r) + Len(a2) : (r \o a2)[k] = IF k <= Len(r) THEN r[k] ELSE a2[k - Len(r)]
      BY <2>3, ConcatProperties DEF Text
    <3>2. Len(a2) \in Nat
      BY <2>3, TextIs
    <3>3. \A k \in 1 .. Len(r) : k \in 1 .. Len(r) + Len(a2) /\ k <= Len(r)
      BY <3>2, <1>1
    <3> QED BY <3>1, <3>2, <3>3, <2>3
  <2>5. c + Len(r) <= Len(w) /\ \A k \in 1 .. Len(r) : w[c + k] = r[k]
    <3>1. c + Len(r) <= Len(w)
      BY <2>4, <1>1, <1>6
    <3>2. \A k \in 1 .. Len(r) : k \in 1 .. Len(a)
      BY <2>4, <1>1
    <3> QED BY <3>1, <3>2, <2>4, <1>6
  <2>6. c \in Nat
    BY <1>1
  <2>7. IsAt(r, w, c)
    BY <2>5, <2>6, <1>6, IsAtIs
  <2> QED BY <2>2, <2>7
<1>8. ~EndStarts(f, f) /\ ~EndStarts(f, r)
  BY DEF Apart
<1>9. ASSUME NEW k \in 0 .. c - 1, IsAt(f, t, k) PROVE k + lf <= c
  <2>0. k \in Nat /\ k < c /\ c \in Nat
    BY <1>1
  <2>1. CASE c < N
    <3>1. k + Len(f) <= c
      BY <2>0, <2>1, <1>1, <1>7, <1>8, <1>9, NoOverlap
    <3> QED BY <3>1 DEF lf
  <2>2. CASE c = N
    BY <2>2, <1>9 DEF IsAt, N, lf
  <2> QED BY <2>1, <2>2, <1>1 DEF N
<1>10. ASSUME NEW k \in 0 .. c - 1, IsAt(f, w, k) PROVE k + lf <= c
  <2>0. k \in Nat /\ k < c /\ c \in Nat
    BY <1>1
  <2>1. CASE c < N
    <3>1. k + Len(f) <= c
      BY <2>0, <2>1, <1>1, <1>6, <1>7, <1>8, <1>10, NoOverlap, SMTT(30)
    <3> QED BY <3>1 DEF lf
  <2>2. CASE c = N
    <3>1. Len(w) = c
      <4>1. Len(a) = 0
        BY <2>2, <1>2, EmptyText
      <4> QED BY <4>1, <2>0, <1>6
    <3> QED BY <3>1, <1>10 DEF IsAt, lf
  <2> QED BY <2>1, <2>2, <1>1 DEF N
<1>11. ASSUME NEW k \in 0 .. c - 1 PROVE IsAt(f, w, k) <=> IsAt(f, t, k)
  <2>0. k \in Nat
    OBVIOUS
  <2>1. CASE k + lf <= c
    <3>1. k + Len(f) <= Len(w) /\ k + Len(f) <= Len(t)
      BY <2>1, <1>1, <1>2, <1>6 DEF lf, N
    <3>2. \A q \in 1 .. Len(f) : w[k + q] = t[k + q]
      <4>1. \A q \in 1 .. Len(f) : k + q \in 1 .. c
        BY <2>0, <2>1, <1>1 DEF lf
      <4> QED BY <4>1, <1>6
    <3>3. IsAt(f, w, k) <=> \A q \in 1 .. Len(f) : w[k + q] = f[q]
      BY <2>0, <3>1, <1>6, IsAtIs
    <3>4. IsAt(f, t, k) <=> \A q \in 1 .. Len(f) : t[k + q] = f[q]
      BY <2>0, <3>1, IsAtIs
    <3> QED BY <3>2, <3>3, <3>4
  <2>2. CASE ~(k + lf <= c)
    BY <2>2, <1>9, <1>10
  <2> QED BY <2>1, <2>2
<1> QED BY <1>2, <1>3, <1>6, <1>9, <1>11 DEF a, u, w, lf

LEMMA GreatestIs ==
  ASSUME NEW T \in SUBSET Int, NEW m \in T, \A y \in T : y <= m
  PROVE  Max(T) = m
<1>1. \E z \in T : \A y \in T : z >= y
  OBVIOUS
<1>2. Max(T) \in T /\ \A y \in T : Max(T) >= y
  BY <1>1, Zenon DEF Max
<1> DEFINE x == Max(T)
<1>3. x \in T /\ x >= m
  BY <1>2
<1> HIDE DEF x
<1>4. x = m
  BY <1>3
<1> QED BY <1>4 DEF x

\* lastIndexOf() finds the last place of the word in front of a place, or none.
LEMMA LastIs ==
  ASSUME NEW o, NEW w, Full(o, w), w \in Text, NEW f \in Text, f # <<>>, NEW c \in 1 .. Len(w),
         NEW from, from = c - 1
  PROVE  LET at == LastIndexOf(o, f, from) IN
         \/ at = -1 /\ \A k \in 0 .. c - 1 : ~IsAt(f, w, k)
         \/ /\ at \in 0 .. c - 1 /\ IsAt(f, w, at)
            /\ \A k \in at + 1 .. c - 1 : ~IsAt(f, w, k)
<1> DEFINE at == LastIndexOf(o, f, from)
           S == {p \in 0 .. from : IsAt(f, w, p)}
           T == {-1} \cup S
<1>1. Len(w) \in Nat /\ Len(f) \in Nat /\ Len(f) # 0 /\ o.len = Len(w) /\ c \in Nat /\ c >= 1 /\ c <= Len(w)
  <2>1. Len(f) # 0
    BY EmptySeq DEF Text
  <2> QED BY <2>1, TextIs DEF Full
<1>2. CStr(o.buf, 0) = w
  <2>1. Buffer(o.buf, o.cap) /\ 0 \in Nat /\ 0 + Len(w) <= o.cap /\ Has(o.buf, 0, w)
    BY <1>1 DEF Full, Valid
  <2> QED BY <2>1, TextAt
<1>3. Min({from, o.len - 1}) = from
  <2>1. from \in Int /\ o.len - 1 \in Int /\ from <= o.len - 1
    BY <1>1
  <2> DEFINE m == o.len - 1
  <2> HIDE DEF m
  <2>2. Min({from, m}) = from
    BY <2>1, MinOfTwo DEF m
  <2> QED BY <2>2 DEF m
<1>4. at = IF Len(f) > Len(w) THEN -1 ELSE Max(T)
  <2> DEFINE M == Min({from, o.len - 1})
             u == CStr(o.buf, 0)
             L == {-1} \cup {p \in 0 .. M : IsAt(f, u, p)}
  <2>1. at = IF Len(f) = 0 \/ o.len = 0 \/ Len(f) > o.len THEN -1
             ELSE Max(L)
    BY DEF LastIndexOf
  <2>2. M = from /\ u = w
    BY <1>2, <1>3
  <2> HIDE DEF M, u, at
  <2>3. L = T
    BY <2>2
  <2> HIDE DEF T, L
  <2>4. at = IF Len(f) = 0 \/ o.len = 0 \/ Len(f) > o.len THEN -1 ELSE Max(T)
    BY ONLY <2>1, <2>3
  <2>5. ~(Len(f) = 0 \/ o.len = 0) /\ o.len = Len(w)
    BY <1>1
  <2> QED BY ONLY <2>4, <2>5
<1>5. CASE Len(f) > Len(w)
  <2>1. \A k \in 0 .. c - 1 : ~IsAt(f, w, k)
    BY <1>1, <1>5 DEF IsAt
  <2> QED BY <2>1, <1>4, <1>5
<1>6. CASE ~(Len(f) > Len(w))
  <2>1. at = Max(T)
    BY <1>4, <1>6
  <2>2. T # {} /\ T \subseteq Int /\ \A k \in T : k <= from
    BY <1>1
  <2>3. Max(T) \in T /\ \A k \in T : k <= Max(T)
    <3>1. T \in SUBSET Int /\ S \in SUBSET Nat /\ -1 \in T /\ \A k \in T : k = -1 \/ k \in S
      BY <2>2
    <3>2. PICK m \in T : \A k \in T : k <= m
      <4>1. CASE S = {}
        BY <3>1, <4>1
      <4>2. CASE S # {}
        <5>1. from \in Nat /\ \A k \in S : k <= from
          BY <1>1
        <5> DEFINE m == Max(S)
        <5>2. m \in S /\ \A k \in S : k <= m
          <6> HIDE DEF S
          <6> QED BY <3>1, <4>2, <5>1, MaxFinds
        <5>4. S \subseteq T
          OBVIOUS
        <5> HIDE DEF m, S, T
        <5>3. m \in T /\ \A k \in T : k <= m
          BY <3>1, <5>2, <5>4
        <5> QED BY <5>3
      <4> QED BY <4>1, <4>2
    <3> HIDE DEF T
    <3>3. Max(T) = m
      BY <3>1, <3>2, GreatestIs
    <3> QED BY <3>2, <3>3
  <2> HIDE DEF at
  <2>4. at \in T /\ \A k \in T : k <= at
    BY <2>1, <2>3
  <2>5. CASE at = -1
    <3>1. \A k \in 0 .. c - 1 : k \notin T
      BY <2>4, <2>5
    <3>2. \A k \in 0 .. c - 1 : ~IsAt(f, w, k)
      BY <3>1, <1>1
    <3> QED BY <3>2, <2>5 DEF at
  <2>6. CASE at # -1
    <3>1. at \in 0 .. c - 1 /\ IsAt(f, w, at)
      BY <2>4, <2>6, <1>1
    <3>2. \A k \in at + 1 .. c - 1 : k \in 0 .. from /\ k \notin T
      BY <3>1, <2>4, <1>1
    <3>3. \A k \in at + 1 .. c - 1 : ~IsAt(f, w, k)
      BY <3>2
    <3> QED BY <3>1, <3>3 DEF at
  <2> QED BY <2>5, <2>6
<1> QED BY <1>5, <1>6

\* The result is no shorter for what has been done from a stop on.
LEMMA AheadLonger ==
  ASSUME NEW t \in Text, NEW f \in Text, NEW r \in Text, f # <<>>, Len(f) < Len(r), Apart(f, r),
         NEW c \in 0 .. Len(t), Stop(t, f, c)
  PROVE  c + Len(Ahead(t, f, r, c)) <= Len(Replaced(t, f, r))
<1> DEFINE A(k) == Ahead(t, f, r, k)
           Good(k) == Len(A(k)) >= (c - k) + Len(A(c))
           G == {m \in 0 .. c : \A k \in c - m .. c : Good(k)}
<1>1. Len(t) \in Nat /\ Len(f) \in Nat /\ Len(f) # 0 /\ Len(r) \in Nat /\ c \in Nat
  <2>1. Len(f) # 0
    BY EmptySeq DEF Text
  <2> QED BY <2>1, TextIs
<1>2. \A k \in 0 .. Len(t) : A(k) \in Text /\ Len(A(k)) \in Nat
  <2>1. ASSUME NEW k \in 0 .. Len(t) PROVE A(k) \in Text /\ Len(A(k)) \in Nat
    <3>1. A(k) \in Text
      BY AheadIs
    <3> QED BY <3>1, TextIs
  <2> QED BY <2>1
<1>3. ASSUME NEW k \in 0 .. c - 1, \A j \in k + 1 .. c : Good(j) PROVE Good(k)
  <2>0. k \in 0 .. Len(t) /\ k < Len(t) /\ k + 1 \in 0 .. Len(t) /\ k + 1 \in k + 1 .. c
    BY <1>1
  <2>1. CASE IsAt(f, t, k)
    <3> DEFINE j == k + Len(f)
    <3>1. k + Len(f) <= c
      BY <2>1, MixedIs
    <3>2. j \in k + 1 .. c /\ j \in 0 .. Len(t) /\ j = k + Len(f)
      BY <3>1, <1>1
    <3>3. A(k) = Join(r, A(j))
      <4>1. A(k) = Join(r, A(k + Len(f)))
        BY <2>0, <2>1, AheadFinds
      <4> QED BY <4>1
    <3> HIDE DEF j, A
    <3>4. Len(A(k)) = Len(r) + Len(A(j)) /\ Len(A(j)) \in Nat
      <4>1. A(j) \in Text /\ Len(A(j)) \in Nat
        BY <3>2, <1>2
      <4> DEFINE a == A(j)
      <4> HIDE DEF a
      <4>2. Len(r \o a) = Len(r) + Len(a)
        BY <4>1, ConcatProperties DEF Text, a
      <4> QED BY <4>1, <4>2, <3>3 DEF Join, a
    <3>5. Good(j)
      BY <3>2, <1>3
    <3> QED BY <3>2, <3>4, <3>5, <1>1, <1>2
  <2>2. CASE ~IsAt(f, t, k)
    <3> DEFINE x == <<t[k + 1]>>
    <3>1. A(k) = Join(x, A(k + 1))
      BY <2>0, <2>2, AheadIs, ZenonT(60) DEF Join
    <3>2. A(k + 1) \in Text /\ Len(A(k + 1)) \in Nat
      BY <2>0, <1>2
    <3>3. x \in Text /\ Len(x) = 1
      <4>1. k + 1 \in 1 .. Len(t)
        BY <2>0, <1>1
      <4>2. t[k + 1] \in Char
        BY <4>1, TextIs
      <4> QED BY <4>2 DEF Text
    <3> HIDE DEF A, x
    <3>4. Len(A(k)) = 1 + Len(A(k + 1))
      <4> DEFINE a == A(k + 1)
      <4> HIDE DEF a
      <4>2. Len(x \o a) = Len(x) + Len(a)
        BY <3>2, <3>3, ConcatProperties DEF Text, a
      <4> QED BY <4>2, <3>1, <3>3 DEF Join, a
    <3>5. Good(k + 1)
      BY <2>0, <1>3
    <3> QED BY <3>2, <3>4, <3>5, <1>1, <1>2
  <2> QED BY <2>1, <2>2
<1> HIDE DEF A
<1>4. Good(c)
  BY <1>1, <1>2
<1> HIDE DEF Good
<1>5. 0 \in G
  <2>1. \A k \in c - 0 .. c : k = c
    BY <1>1
  <2> QED BY <2>1, <1>1, <1>4
<1>6. ASSUME NEW m \in 0 .. c, m < c, m \in G PROVE m + 1 \in G
  <2> DEFINE k == c - (m + 1)
  <2>1. k \in 0 .. c - 1 /\ m + 1 \in 0 .. c /\ k + 1 = c - m /\ \A j \in k .. c : j = k \/ j \in k + 1 .. c
    BY <1>1, <1>6
  <2>2. \A j \in c - m .. c : Good(j)
    BY <1>6
  <2> HIDE DEF k
  <2>3. Good(k)
    BY <2>1, <2>2, <1>3
  <2>4. \A j \in k .. c : Good(j)
    BY <2>1, <2>2, <2>3
  <2> QED BY <2>1, <2>4 DEF k
<1> HIDE DEF G
<1>7. c \in G
  <2>1. \A m \in 0 .. c : m < c /\ m \in G => m + 1 \in G
    BY <1>6
  <2>2. \A m \in 0 .. c : m \in G
    BY ONLY <1>1, <1>5, <2>1, CountUp
  <2> QED BY <2>2, <1>1
<1>8. Good(0)
  <2>1. 0 \in c - c .. c
    BY <1>1
  <2> QED BY <2>1, <1>7 DEF G
<1>9. Replaced(t, f, r) = A(0)
  BY AheadStart DEF A
<1> QED BY <1>8, <1>9, <1>1, <1>2 DEF Good, A

\* The first characters of a text, and the parts of two texts joined.
LEMMA FirstIs ==
  ASSUME NEW t \in Text, NEW c \in 0 .. Len(t)
  PROVE  SubSeq(t, 1, c) \in Text /\ Len(SubSeq(t, 1, c)) = c /\ \A k \in 1 .. c : SubSeq(t, 1, c)[k] = t[k]
<1>1. 0 \in 0 .. Len(t) /\ c \in 0 .. Len(t) /\ 0 + 1 = 1 /\ c - 0 = c
  BY TextIs
<1>2. LET v == SubSeq(t, 0 + 1, c) IN v \in Text /\ Len(v) = c - 0 /\ \A k \in 1 .. c - 0 : v[k] = t[0 + k]
  BY <1>1, RestIs
<1>3. \A k \in 1 .. c : 0 + k = k
  OBVIOUS
<1> QED BY <1>1, <1>2, <1>3

LEMMA PartsOfJoin ==
  ASSUME NEW t \in Text, NEW a \in Text, NEW c \in 0 .. Len(t), NEW i \in 0 .. c,
         NEW w, w = Join(SubSeq(t, 1, c), a)
  PROVE  SubSeq(w, 1, i) = SubSeq(t, 1, i) /\ SubSeq(w, i + 1, Len(w)) = Join(SubSeq(t, i + 1, c), a)
<1> DEFINE u == SubSeq(t, 1, c)
           v == SubSeq(t, i + 1, c)
           j == Join(v, a)
           n == Len(a)
           N == Len(w)
<1>1. u \in Text /\ Len(u) = c /\ \A k \in 1 .. c : u[k] = t[k]
  BY FirstIs
<1>2. n \in Nat /\ c \in Nat /\ i \in Nat /\ c \in i .. Len(t) /\ i \in 0 .. Len(t) /\ c - i \in Nat
  BY TextIs
<1>3. v \in Text /\ Len(v) = c - i /\ \A k \in 1 .. c - i : v[k] = t[i + k]
  BY <1>2, RestIs
<1>4. w = u \o a
  BY DEF Join
<1> HIDE DEF u, v, n, N
<1>5. w \in Text /\ N = c + n /\ \A k \in 1 .. c + n : w[k] = IF k <= c THEN t[k] ELSE a[k - c]
  <2>1. /\ u \o a \in Text /\ Len(u \o a) = Len(u) + Len(a)
        /\ \A k \in 1 .. Len(u) + Len(a) : (u \o a)[k] = IF k <= Len(u) THEN u[k] ELSE a[k - Len(u)]
    BY <1>1, ConcatProperties DEF Text
  <2>2. w \in Text /\ N = c + n /\ \A k \in 1 .. c + n : w[k] = IF k <= c THEN u[k] ELSE a[k - c]
    BY <2>1, <1>1, <1>4 DEF n, N
  <2>3. \A k \in 1 .. c + n : k <= c => k \in 1 .. c
    BY <1>2
  <2> QED BY <2>2, <2>3, <1>1
<1>6. j \in Text /\ Len(j) = (c - i) + n /\ \A k \in 1 .. (c - i) + n : j[k] = IF k <= c - i THEN t[i + k] ELSE a[k - (c - i)]
  <2>1. /\ v \o a \in Text /\ Len(v \o a) = Len(v) + Len(a)
        /\ \A k \in 1 .. Len(v) + Len(a) : (v \o a)[k] = IF k <= Len(v) THEN v[k] ELSE a[k - Len(v)]
    BY <1>3, ConcatProperties DEF Text
  <2>2. j = v \o a
    BY DEF Join
  <2> HIDE DEF j
  <2>3. j \in Text /\ Len(j) = (c - i) + n /\ \A k \in 1 .. (c - i) + n : j[k] = IF k <= c - i THEN v[k] ELSE a[k - (c - i)]
    BY <2>1, <2>2, <1>3 DEF n
  <2>4. \A k \in 1 .. (c - i) + n : k <= c - i => k \in 1 .. c - i
    BY <1>2
  <2> QED BY <2>3, <2>4, <1>3
<1> HIDE DEF j
<1>7. SubSeq(w, 1, i) = SubSeq(t, 1, i)
  <2> DEFINE x == SubSeq(w, 1, i)
             y == SubSeq(t, 1, i)
  <2>1. i \in 0 .. Len(w) /\ i \in 0 .. Len(t)
    BY <1>2, <1>5 DEF N
  <2>2. x \in Text /\ Len(x) = i /\ \A k \in 1 .. i : x[k] = w[k]
    BY <2>1, <1>5, FirstIs
  <2>3. y \in Text /\ Len(y) = i /\ \A k \in 1 .. i : y[k] = t[k]
    BY <2>1, FirstIs
  <2>4. \A k \in 1 .. i : w[k] = t[k]
    <3>1. \A k \in 1 .. i : k \in 1 .. c + n /\ k <= c
      BY <1>2
    <3> QED BY <3>1, <1>5
  <2> HIDE DEF x, y
  <2>5. x = y
    BY <2>2, <2>3, <2>4, SeqEqual DEF Text
  <2> QED BY <2>5 DEF x, y
<1>8. SubSeq(w, i + 1, N) = j
  <2> DEFINE x == SubSeq(w, i + 1, N)
  <2>1. i \in 0 .. Len(w) /\ N \in i .. Len(w)
    BY <1>2, <1>5 DEF N
  <2>2. x \in Text /\ Len(x) = N - i /\ \A k \in 1 .. N - i : x[k] = w[i + k]
    BY <2>1, <1>5, RestIs
  <2> HIDE DEF x
  <2>3. N - i = (c - i) + n
    BY <1>2, <1>5
  <2>4. ASSUME NEW k \in 1 .. (c - i) + n PROVE w[i + k] = j[k]
    <3> DEFINE q == i + k
    <3>1. q \in 1 .. c + n /\ (q <= c <=> k <= c - i) /\ q - c = k - (c - i) /\ q = i + k
      BY <1>2
    <3> HIDE DEF q
    <3>2. w[q] = IF q <= c THEN t[q] ELSE a[q - c]
      BY <3>1, <1>5
    <3>3. j[k] = IF k <= c - i THEN t[i + k] ELSE a[k - (c - i)]
      BY <1>6
    <3> QED BY <3>1, <3>2, <3>3
  <2>5. x = j
    BY <2>2, <2>3, <2>4, <1>6, SeqEqual DEF Text
  <2> QED BY <2>5 DEF x
<1> QED BY <1>7, <1>8 DEF j, v, N

\* One more word replaced: the text that comes out is the one replaced from there on.
LEMMA MixedFurther ==
  ASSUME NEW t \in Text, NEW f \in Text, NEW r \in Text, f # <<>>, Len(f) < Len(r), Apart(f, r),
         NEW c \in 0 .. Len(t), Stop(t, f, c),
         NEW p \in 0 .. c - 1, IsAt(f, t, p), \A k \in p + 1 .. c - 1 : ~IsAt(f, t, k),
         NEW w, w = Mixed(t, f, r, c)
  PROVE  /\ p + Len(f) <= c
         /\ Mixed(t, f, r, p) = Join(Join(SubSeq(w, 1, p), r), SubSeq(w, p + Len(f) + 1, Len(w)))
<1> DEFINE i == p + Len(f)
           a == Ahead(t, f, r, c)
           u == SubSeq(t, 1, p)
           v == SubSeq(t, i + 1, c)
           y == Join(v, a)
<1>1. Len(t) \in Nat /\ Len(f) \in Nat /\ Len(f) # 0 /\ Len(r) \in Nat /\ c \in Nat
  <2>1. Len(f) # 0
    BY EmptySeq DEF Text
  <2> QED BY <2>1, TextIs
<1>2. i <= c
  BY MixedIs
<1>3. p \in 0 .. c /\ p \in 0 .. Len(t) /\ p < Len(t) /\ i \in 0 .. c /\ i \in 0 .. Len(t) /\ c \in i .. Len(t)
  BY <1>1, <1>2
<1>4. a \in Text
  BY AheadIs
<1>5. w = Join(SubSeq(t, 1, c), a)
  BY DEF Mixed, Join
<1>6. i = p + Len(f) /\ a = Ahead(t, f, r, c)
  OBVIOUS
<1>7. Ahead(t, f, r, p) = Join(r, Ahead(t, f, r, i))
  BY <1>3, AheadFinds
<1> HIDE DEF i, a
<1>8. SubSeq(w, 1, p) = u
  BY <1>3, <1>4, <1>5, PartsOfJoin, SMTT(30)
<1>9. SubSeq(w, i + 1, Len(w)) = y
  <2>1. c \in 0 .. Len(t) /\ i \in 0 .. c /\ a \in Text /\ w = Join(SubSeq(t, 1, c), a) /\ t \in Text
    BY <1>3, <1>4, <1>5
  <2>2. SubSeq(w, i + 1, Len(w)) = Join(SubSeq(t, i + 1, c), a)
    BY ONLY <2>1, PartsOfJoin
  <2> QED BY <2>2
<1>10. Ahead(t, f, r, i) = y
  <2>1. \A k \in i .. c - 1 : ~(f # <<>> /\ IsAt(f, t, k))
    <3>1. \A k \in i .. c - 1 : k \in p + 1 .. c - 1
      BY <1>1, <1>3, <1>6
    <3> QED BY <3>1
  <2>2. Ahead(t, f, r, i) = v \o Ahead(t, f, r, c)
    BY <2>1, <1>3, AheadSkips
  <2> QED BY <2>2, <1>6 DEF Join
<1>11. u \in Text /\ v \in Text
  BY <1>3, FirstIs, RestIs
<1>12. y \in Text
  BY <1>4, <1>11, JoinIs
<1>13. Mixed(t, f, r, p) = Join(u, Join(r, y))
  BY <1>7, <1>10 DEF Mixed, Join
<1> HIDE DEF u, v, y
<1>14. Join(u, Join(r, y)) = Join(Join(u, r), y)
  BY <1>11, <1>12, JoinRegroups
<1> QED BY <1>2, <1>8, <1>9, <1>13, <1>14 DEF i, u, y

\* The text behind a place moved up and another one put in front of it.
LEMMA WrittenUp ==
  ASSUME NEW c \in Nat, NEW b, Buffer(b, c), NEW w \in Text, Has(b, 0, w), Len(w) <= c,
         NEW p \in Nat, NEW q \in p .. Len(w), NEW r \in Text, p + Len(r) + (Len(w) - q) <= c,
         NEW x, x = Memcpy(b, p + Len(r), Append(Cells(b, q, Len(w) - q), NUL)),
         NEW y, y = Memcpy(x, p, r),
         NEW v, v = Join(Join(SubSeq(w, 1, p), r), SubSeq(w, q + 1, Len(w)))
  PROVE  /\ Buffer(y, c) /\ Has(y, 0, v) /\ v \in Text
         /\ Len(v) = p + Len(r) + (Len(w) - q)
<1> DEFINE N == Len(w)
           n == p + Len(r)
           rest == SubSeq(w, q + 1, N)
           u == SubSeq(w, 1, p)
           e == u \o r
<1>1. N \in Nat /\ Len(r) \in Nat /\ n \in Nat /\ p <= n /\ q \in Nat /\ q <= N /\ p <= N /\ 0 \in 0 .. N /\ q \in 0 .. N /\ N \in q .. N
      /\ p \in 0 .. N
  BY TextIs
<1>2. Cells(b, q, N - q) = rest
  <2>1. SubSeq(w, 0 + 1, N) = w
    BY SubSeqFull DEF Text
  <2>2. Has(b, 0, SubSeq(w, 0 + 1, Len(w)))
    BY <2>1
  <2>3. Has(b, q, SubSeq(w, q + 1, Len(w)))
    <3>1. 0 \in 0 .. Len(w) /\ q \in 0 .. Len(w)
      BY <1>1
    <3> QED BY <3>1, <2>2, HasFurther
  <2> QED BY <2>3, <1>1, CellsBetween
<1>3. rest \in Text /\ Len(rest) = N - q
  BY <1>1, RestIs
<1>4. u \in Text /\ Len(u) = p /\ \A k \in 1 .. p : u[k] = w[k]
  BY <1>1, FirstIs
<1>5. x = Strcpy(b, n, rest)
  BY <1>2 DEF Strcpy
<1>6. n + Len(rest) <= c
  BY <1>1, <1>3
<1>7. v = Join(e, rest) /\ n = p + Len(r) /\ N = Len(w)
  BY DEF Join
<1>7a. e = u \o r
  OBVIOUS
<1> HIDE DEF rest, u, n, N, e
<1>8. Buffer(x, c) /\ Has(x, n, rest) /\ \A k \in 0 .. n - 1 : x[k] = b[k]
  BY <1>1, <1>3, <1>5, <1>6, StrcpyIs, SMTT(30)
<1>9. Buffer(y, c) /\ Starts(y, p, r) /\ (\A k \in 0 .. p - 1 : y[k] = x[k]) /\ \A k \in n .. c : y[k] = x[k]
  <2>1. Len(r) \in Nat /\ p + Len(r) <= c + 1 /\ \A k \in 1 .. Len(r) : r[k] \in Cell
    <3>1. \A k \in 1 .. Len(r) : r[k] \in Cell
      BY TextIs DEF Cell
    <3>2. p + Len(r) <= c + 1
      BY <1>1, <1>3, <1>6, <1>7
    <3> QED BY <3>1, <3>2, <1>1
  <2> DEFINE z == Memcpy(x, p, r)
  <2>2. Buffer(z, c)
    BY <2>1, <1>8, MemcpyIs
  <2>3. Starts(z, p, r) /\ (\A k \in 0 .. p - 1 : z[k] = x[k]) /\ \A k \in p + Len(r) .. c : z[k] = x[k]
    <3>1. p \in Nat /\ Len(r) \in Nat /\ p + Len(r) <= c + 1 /\ Buffer(x, c) /\ \A k \in 1 .. Len(r) : r[k] \in Cell
      BY <1>8, <2>1
    <3> QED BY ONLY <3>1, MemcpyKeeps
  <2>4. y = z
    OBVIOUS
  <2> HIDE DEF z
  <2> QED BY <2>2, <2>3, <2>4, <1>7
<1>10. Starts(y, 0, u)
  <2>1. \A k \in 1 .. p : b[0 + k - 1] = w[k]
    <3>1. \A k \in 1 .. p : k \in 1 .. Len(w)
      BY <1>1, <1>7
    <3> QED BY <3>1 DEF Has, Starts
  <2>2. \A k \in 1 .. p : y[0 + k - 1] = b[0 + k - 1]
    <3>1. \A k \in 1 .. p : 0 + k - 1 \in 0 .. p - 1 /\ 0 + k - 1 \in 0 .. n - 1
      BY <1>1
    <3> QED BY <3>1, <1>8, <1>9
  <2> QED BY <2>1, <2>2, <1>4 DEF Starts
<1>11. 0 \in Nat /\ 0 + Len(u) = p
  BY <1>4
<1>12. e \in Text /\ Len(e) = Len(u) + Len(r) /\ Starts(y, 0, e)
  <2>1. Starts(y, 0 + Len(u), r)
    BY <1>9, <1>11
  <2>2. u \o r \in Text /\ Len(u \o r) = Len(u) + Len(r) /\ Starts(y, 0, u \o r)
    BY <2>1, <1>4, <1>10, <1>11, StartsJoin
  <2> QED BY <2>2, <1>7a
<1>13. 0 + Len(e) = n
  BY <1>1, <1>4, <1>7, <1>12
<1>14. Has(y, n, rest)
  <2>1. \A k \in n .. n + Len(rest) : y[k] = x[k]
    <3>1. \A k \in n .. n + Len(rest) : k \in n .. c
      BY <1>1, <1>3, <1>6
    <3> QED BY <3>1, <1>9
  <2> QED BY <2>1, <1>1, <1>3, <1>8, HasStays
<1>15. e \o rest \in Text /\ Len(e \o rest) = Len(e) + Len(rest) /\ Has(y, 0, e \o rest)
  <2>1. Has(y, 0 + Len(e), rest)
    BY <1>13, <1>14
  <2> QED BY <2>1, <1>3, <1>11, <1>12, TextsJoin
<1>16. v = e \o rest
  BY <1>7 DEF Join
<1>17. Len(v) = p + Len(r) + (Len(w) - q)
  <2> HIDE DEF Join
  <2>1. Len(v) = Len(e) + Len(rest)
    BY <1>15, <1>16
  <2> QED BY <2>1, <1>1, <1>3, <1>7, <1>13
<1> QED BY <1>9, <1>15, <1>16, <1>17

\* The loop that replaces from the right, after some turns.
Ups(n, t, f, r) ==
  {z \in [obj : Objects(n), index : -1 .. Len(t) - 1] :
     Stop(t, f, z.index + 1) /\ Full(z.obj, Mixed(t, f, r, z.index + 1))}
NoneBefore(t, f, c) == \A k \in 0 .. c - 1 : ~IsAt(f, t, k)

LEMMA UpTurnIs ==
  ASSUME NEW z, NEW c, NEW b, NEW l, NEW f, NEW r, NEW at, NEW index,
         z.obj = [buf |-> b, cap |-> c, len |-> l], z.index = index,
         at = LastIndexOf(z.obj, f, index)
  PROVE  UpTurn(z, f, r) =
           IF index < 0 \/ at < 0 THEN z
           ELSE [obj |-> [buf |-> Memcpy(Memcpy(b, at + Len(r), Append(Cells(b, at + Len(f), l - at - Len(f)), NUL)), at, r),
                          cap |-> c, len |-> l + Len(r) - Len(f)],
                 index |-> at - 1]
<1> DEFINE o == z.obj
<1>1. o.buf = b /\ o.len = l /\ o = [buf |-> b, cap |-> c, len |-> l]
  OBVIOUS
<1>2. z.obj = o
  OBVIOUS
<1> HIDE DEF o
<1>3. ASSUME NEW y PROVE [o EXCEPT !.buf = y, !.len = @ + Len(r) - Len(f)] = [buf |-> y, cap |-> c, len |-> l + Len(r) - Len(f)]
  <2> DEFINE n == l + Len(r) - Len(f)
             g == [o EXCEPT !.buf = y, !.len = @ + Len(r) - Len(f)]
  <2>1. g = [o EXCEPT !.buf = y, !.len = n]
    BY <1>1
  <2>2. o = [buf |-> o.buf, cap |-> o.cap, len |-> o.len] /\ o.cap = c
    BY <1>1
  <2> HIDE DEF n, g
  <2>3. g = [buf |-> y, cap |-> c, len |-> n]
    BY <2>1, <2>2, ObjectMade
  <2> QED BY <2>3 DEF g, n
<1> QED BY <1>1, <1>2, <1>3 DEF UpTurn

LEMMA UpStep ==
  ASSUME NEW n \in Nat, NEW t \in Text, NEW f \in Text, NEW r \in Text, f # <<>>, Len(f) < Len(r), Apart(f, r),
         Len(Replaced(t, f, r)) <= n, NEW z \in Ups(n, t, f, r)
  PROVE  /\ UpTurn(z, f, r) \in Ups(n, t, f, r)
         /\ \/ NoneBefore(t, f, z.index + 1) /\ UpTurn(z, f, r) = z
            \/ ~NoneBefore(t, f, z.index + 1) /\ UpTurn(z, f, r).index < z.index
<1> DEFINE N == Len(t)
           index == z.index
           c == index + 1
           o == z.obj
           b == z.obj.buf
           l == z.obj.len
           w == Mixed(t, f, r, c)
           at == LastIndexOf(o, f, index)
           lf == Len(f)
           lr == Len(r)
           R == Replaced(t, f, r)
           A(k) == Ahead(t, f, r, k)
           M(k) == Mixed(t, f, r, k)
<1>1. N \in Nat /\ lf \in Nat /\ lf # 0 /\ lr \in Nat /\ lf < lr
  <2>1. lf # 0
    BY EmptySeq DEF Text
  <2> QED BY <2>1, TextIs
<1>2. z = [obj |-> o, index |-> index] /\ o \in Objects(n) /\ index \in -1 .. N - 1 /\ Stop(t, f, c) /\ Full(o, w)
  BY DEF Ups
<1>3. Buffer(b, n) /\ o = [buf |-> b, cap |-> n, len |-> l] /\ Has(b, 0, w) /\ l = Len(w) /\ Len(w) <= n
  BY <1>2 DEF Objects, Full, Valid
<1>4. c \in 0 .. N /\ index = c - 1 /\ c \in 0 .. Len(t)
  BY <1>1, <1>2
<1>5. /\ w \in Text /\ Len(A(c)) \in Nat /\ Len(w) = c + Len(A(c))
      /\ \A k \in 0 .. c - 1 : IsAt(f, w, k) <=> IsAt(f, t, k)
  <2>0. Stop(t, f, c)
    BY <1>2
  <2> HIDE DEF c
  <2> QED BY <2>0, <1>4, MixedIs
<1> DEFINE x == Memcpy(b, at + lr, Append(Cells(b, at + lf, l - at - lf), NUL))
           y == Memcpy(x, at, r)
           next == [obj |-> [buf |-> y, cap |-> n, len |-> l + lr - lf], index |-> at - 1]
<1>6. UpTurn(z, f, r) = IF index < 0 \/ at < 0 THEN z ELSE next
  <2> DEFINE B == b
             L == l
             I == index
             a == at
  <2>1. z.obj = [buf |-> B, cap |-> n, len |-> L] /\ z.index = I /\ a = LastIndexOf(z.obj, f, I)
    BY <1>3
  <2> HIDE DEF B, L, I, a
  <2>2. UpTurn(z, f, r) =
           IF I < 0 \/ a < 0 THEN z
           ELSE [obj |-> [buf |-> Memcpy(Memcpy(B, a + Len(r), Append(Cells(B, a + Len(f), L - a - Len(f)), NUL)), a, r),
                          cap |-> n, len |-> L + Len(r) - Len(f)],
                 index |-> a - 1]
    BY ONLY <2>1, UpTurnIs
  <2> QED BY <2>2 DEF B, L, I, a
<1>7. N = Len(t) /\ lf = Len(f) /\ lr = Len(r) /\ R = Replaced(t, f, r) /\ w = M(c) /\ index = z.index
      /\ x = Memcpy(b, at + Len(r), Append(Cells(b, at + lf, l - at - lf), NUL)) /\ y = Memcpy(x, at, r)
  OBVIOUS
<1>8. at = LastIndexOf(o, f, index)
  OBVIOUS
<1>9. next.obj = [buf |-> y, cap |-> n, len |-> l + lr - lf] /\ next.index = at - 1
      /\ next = [obj |-> next.obj, index |-> next.index]
  OBVIOUS
<1> HIDE DEF next, y, x, R, lr, lf, at, w, l, b, o, c, index, N
<1>10. CASE c = 0
  <2>1. UpTurn(z, f, r) = z
    BY <1>4, <1>6, <1>10
  <2>2. NoneBefore(t, f, c)
    BY <1>10 DEF NoneBefore
  <2> QED BY <2>1, <2>2 DEF c, index
<1>11. CASE c # 0
  <2>1. c \in 1 .. Len(w) /\ c \in Nat
    BY <1>1, <1>4, <1>5, <1>11
  <2>2. \/ at = -1 /\ \A k \in 0 .. c - 1 : ~IsAt(f, w, k)
        \/ /\ at \in 0 .. c - 1 /\ IsAt(f, w, at)
           /\ \A k \in at + 1 .. c - 1 : ~IsAt(f, w, k)
    <3>1. Full(o, w) /\ w \in Text /\ f # <<>> /\ f \in Text /\ index = c - 1
      BY <1>2, <1>4, <1>5
    <3> DEFINE p == LastIndexOf(o, f, index)
    <3>2. \/ p = -1 /\ \A k \in 0 .. c - 1 : ~IsAt(f, w, k)
          \/ /\ p \in 0 .. c - 1 /\ IsAt(f, w, p)
             /\ \A k \in p + 1 .. c - 1 : ~IsAt(f, w, k)
      BY <2>1, <3>1, LastIs
    <3> HIDE DEF p
    <3>3. at = p
      BY <1>8 DEF p
    <3> QED BY <3>2, <3>3
  <2>3. CASE at = -1 /\ \A k \in 0 .. c - 1 : ~IsAt(f, w, k)
    <3>1. UpTurn(z, f, r) = z
      BY <2>3, <1>6
    <3>2. NoneBefore(t, f, c)
      BY <2>3, <1>5 DEF NoneBefore
    <3> QED BY <3>1, <3>2 DEF c, index
  <2>4. CASE /\ at \in 0 .. c - 1 /\ IsAt(f, w, at)
             /\ \A k \in at + 1 .. c - 1 : ~IsAt(f, w, k)
    <3>1. at \in Nat /\ IsAt(f, t, at) /\ \A k \in at + 1 .. c - 1 : ~IsAt(f, t, k)
      <4>1. \A k \in at + 1 .. c - 1 : k \in 0 .. c - 1
        BY <2>4
      <4> QED BY <4>1, <2>4, <1>5
    <3>2. UpTurn(z, f, r) = next
      <4>1. ~(index < 0 \/ at < 0)
        BY <2>1, <2>4, <1>4
      <4> QED BY <4>1, <1>6
    <3>3. Stop(t, f, at) /\ at \in 0 .. Len(t) /\ at \in -1 + 1 .. N /\ at < N
      <4>1. at < N
        BY <2>4, <1>1, <1>4
      <4> QED BY <4>1, <3>1, <1>7, <1>1 DEF Stop
    <3> DEFINE q == at + lf
               v == Join(Join(SubSeq(w, 1, at), r), SubSeq(w, q + 1, Len(w)))
    <3>4. q <= c /\ M(at) = v
      <4>1. /\ c \in 0 .. Len(t) /\ Stop(t, f, c) /\ at \in 0 .. c - 1 /\ IsAt(f, t, at)
            /\ (\A k \in at + 1 .. c - 1 : ~IsAt(f, t, k)) /\ w = Mixed(t, f, r, c)
        BY <2>4, <3>1, <1>2, <1>4, <1>7
      <4>2. at + Len(f) <= c /\ M(at) = Join(Join(SubSeq(w, 1, at), r), SubSeq(w, at + Len(f) + 1, Len(w)))
        BY <4>1, MixedFurther
      <4> QED BY <4>2, <1>7
    <3>5. M(at) \in Text /\ Len(M(at)) = at + Len(A(at)) /\ at + Len(A(at)) <= Len(R)
      BY <3>3, <1>7, MixedIs, AheadLonger
    <3>6. q \in at .. Len(w) /\ q \in Nat /\ l - at - lf = Len(w) - q /\ Len(w) \in Nat
      BY <3>1, <3>4, <1>1, <1>3, <1>4, <1>5
    <3>7. Len(M(at)) = at + lr + (Len(w) - q)
      <4> DEFINE h == SubSeq(w, 1, at)
                 g == SubSeq(w, q + 1, Len(w))
                 hr == Join(h, r)
      <4>1. h \in Text /\ Len(h) = at
        <5>1. at \in 0 .. Len(w)
          BY <3>1, <3>6
        <5> QED BY <5>1, <1>5, FirstIs
      <4>2. g \in Text /\ Len(g) = Len(w) - q
        <5> HIDE DEF q
        <5>1. q \in 0 .. Len(w) /\ Len(w) \in q .. Len(w)
          BY <3>1, <3>6
        <5> QED BY <5>1, <1>5, RestIs
      <4> HIDE DEF h, g
      <4>3. hr \in Text /\ Len(hr) = Len(h) + Len(r)
        BY <4>1, ConcatProperties DEF Text, Join
      <4> HIDE DEF hr
      <4>4. Len(Join(hr, g)) = Len(hr) + Len(g)
        BY <4>2, <4>3, ConcatProperties DEF Text, Join
      <4>5. M(at) = Join(hr, g)
        BY <3>4 DEF hr, h, g
      <4> HIDE DEF q, v
      <4> QED BY <4>1, <4>2, <4>3, <4>4, <4>5, <1>1, <1>7, <3>1, <3>6
    <3>8. Buffer(y, n) /\ Has(y, 0, v)
      <4>1. at + Len(r) + (Len(w) - q) <= n
        <5> DEFINE L == Len(M(at))
                   K == Len(R)
                   a == Len(A(at))
        <5>1. L = at + lr + (Len(w) - q) /\ L = at + a /\ at + a <= K /\ K <= n
          BY <3>5, <3>7, <1>7
        <5> HIDE DEF L, K, a
        <5>2. L \in Int
          BY <5>1, <3>1, <3>6, <1>1
        <5>3. K \in Int
          <6>1. R \in Text
            <7>1. 0 \in 0 .. Len(t)
              BY <1>1, <1>7
            <7>2. Ahead(t, f, r, 0) \in Text
              BY <7>1, AheadIs
            <7> QED BY <7>2, <1>7, AheadStart
          <6> QED BY <6>1, TextIs DEF K
        <5>4. L <= n
          BY <5>1, <5>2, <5>3
        <5> QED BY <5>1, <5>4, <1>7
      <4>2. /\ n \in Nat /\ Buffer(b, n) /\ w \in Text /\ Has(b, 0, w) /\ Len(w) <= n /\ at \in Nat
            /\ q \in at .. Len(w) /\ r \in Text
            /\ x = Memcpy(b, at + Len(r), Append(Cells(b, q, Len(w) - q), NUL)) /\ y = Memcpy(x, at, r)
        BY <3>1, <3>6, <1>3, <1>5, <1>7
      <4>3. v = Join(Join(SubSeq(w, 1, at), r), SubSeq(w, q + 1, Len(w)))
        OBVIOUS
      <4> HIDE DEF v, q
      <4> QED BY ONLY <4>1, <4>2, <4>3, WrittenUp
    <3> HIDE DEF v
    <3>9. l + lr - lf = Len(M(at)) /\ Len(M(at)) \in Nat
      <4> DEFINE L == Len(M(at))
      <4>1. L = at + lr + (Len(w) - q) /\ L \in Nat
        BY <3>5, <3>7, TextIs
      <4> HIDE DEF L
      <4>2. l + lr - lf = L
        BY <4>1, <3>1, <3>6, <1>1, <1>3
      <4> QED BY <4>1, <4>2 DEF L
    <3>10. next.obj \in Objects(n) /\ Valid(next.obj) /\ next.obj.cap = n
      <4>1. next.obj \in Objects(n)
        BY <3>8, <3>9, <1>9 DEF Objects, Buffer
      <4> HIDE DEF next
      <4> QED BY <4>1, ObjectIs
    <3>11. Len(M(at)) <= n
      <4> DEFINE L == Len(M(at))
                 K == Len(R)
                 a == Len(A(at))
      <4>1. L = at + a /\ at + a <= K /\ K <= n
        BY <3>5, <1>7
      <4> HIDE DEF L, K, a
      <4>2. L <= K /\ K <= n
        BY <4>1
      <4>3. L \in Int /\ K \in Int
        <5>1. L \in Int
          BY <3>9 DEF L
        <5>2. R \in Text
          <7>1. 0 \in 0 .. Len(t)
            BY <1>1, <1>7
          <7>2. Ahead(t, f, r, 0) \in Text
            BY <7>1, AheadIs
          <7> QED BY <7>2, <1>7, AheadStart
        <5> QED BY <5>1, <5>2, TextIs DEF K
      <4> QED BY <4>2, <4>3 DEF L
    <3>12. Full(next.obj, M(at))
      <4>1. next.obj.buf = y /\ next.obj.len = Len(M(at))
        BY <3>9, <1>9
      <4> HIDE DEF next
      <4>2. /\ Valid(next.obj) /\ next.obj.cap = n /\ Len(M(at)) <= n
            /\ Has(next.obj.buf, 0, M(at))
        BY <4>1, <3>4, <3>8, <3>10, <3>11
      <4> HIDE DEF M
      <4> QED BY ONLY <4>1, <4>2 DEF Full
    <3>13. next.index + 1 = at /\ next.index \in -1 .. N - 1 /\ next.index < index
      <4>1. /\ next.index = at - 1 /\ index = c - 1 /\ c \in 0 .. N
            /\ at \in Nat /\ at < N /\ N \in Nat /\ at \in 0 .. c - 1
        BY <2>4, <3>1, <3>3, <1>1, <1>4, <1>9
      <4> HIDE DEF next
      <4> QED BY ONLY <4>1
    <3>14. next \in Ups(n, t, f, r)
      <4>1. next \in [obj : Objects(n), index : -1 .. N - 1]
        BY <3>10, <3>13, <1>9
      <4>2. Stop(t, f, next.index + 1) /\ Full(next.obj, Mixed(t, f, r, next.index + 1))
        BY <3>3, <3>12, <3>13
      <4> QED BY <4>1, <4>2, <1>7 DEF Ups
    <3>15. ~NoneBefore(t, f, c)
      BY <2>4, <3>1 DEF NoneBefore
    <3> QED BY <3>2, <3>13, <3>14, <3>15 DEF c, index
  <2> QED BY <2>2, <2>3, <2>4
<1> QED BY <1>10, <1>11

\* The turns of that loop.
UpStart(s, from) == [obj |-> s, index |-> from]
Upwards(g, s, from, f, r) == [n \in Nat |-> IF n = 0 THEN UpStart(s, from) ELSE UpTurn(g[n - 1], f, r)]
UpTurns(s, from, f, r) == CHOOSE g : g = Upwards(g, s, from, f, r)

LEMMA ReplaceUpIs ==
  ASSUME NEW s, NEW from, NEW f, NEW r
  PROVE  ReplaceUp(s, from, f, r) = UpTurns(s, from, f, r)[from + 1].obj
BY DEF ReplaceUp, UpTurns, Upwards, UpStart

LEMMA UpTurnsAre ==
  ASSUME NEW s, NEW t \in Text, NEW f \in Text, NEW r \in Text, Full(s, t),
         f # <<>>, Len(f) < Len(r), Apart(f, r), Len(Replaced(t, f, r)) <= s.cap,
         NEW from, from = Len(t) - 1
  PROVE  /\ UpTurns(s, from, f, r)[0] \in Ups(s.cap, t, f, r)
         /\ \A n \in Nat : UpTurns(s, from, f, r)[n + 1] = UpTurn(UpTurns(s, from, f, r)[n], f, r)
<1> DEFINE c == s.cap
           V == Ups(c, t, f, r)
           b == UpStart(s, from)
           F == [v \in V |-> UpTurn(v, f, r)]
           it == UpTurns(s, from, f, r)
<1>0. c \in Nat /\ Valid(s) /\ Len(t) \in Nat
  BY ValidIs, TextIs DEF Full
<1>1. b \in V
  <2>1. b.obj = s /\ b.index = from /\ b = [obj |-> b.obj, index |-> b.index]
    BY DEF UpStart
  <2>2. s \in Objects(c)
    BY <1>0, ObjectIs
  <2>3. from \in -1 .. Len(t) - 1 /\ from + 1 = Len(t)
    BY <1>0
  <2>4. b \in [obj : Objects(c), index : -1 .. Len(t) - 1]
    BY <2>1, <2>2, <2>3
  <2>5. Mixed(t, f, r, Len(t)) = t
    <3>1. Ahead(t, f, r, Len(t)) = <<>>
      <4>1. Len(t) \in 0 .. Len(t)
        BY <1>0
      <4> QED BY <4>1, AheadIs
    <3>2. SubSeq(t, 1, Len(t)) = t
      BY SubSeqFull DEF Text
    <3>3. t \o <<>> = t
      BY ConcatEmptySeq DEF Text
    <3> QED BY <3>1, <3>2, <3>3 DEF Mixed
  <2> HIDE DEF b
  <2>6. Stop(t, f, b.index + 1) /\ Full(b.obj, Mixed(t, f, r, b.index + 1))
    BY <2>1, <2>3, <2>5 DEF Stop
  <2> QED BY <2>4, <2>6 DEF Ups
<1>2. PICK h \in [Nat -> V] : h[0] = b /\ \A n \in Nat : h[n + 1] = F[h[n]]
  <2>1. b \in V /\ F \in [V -> V]
    BY <1>0, <1>1, UpStep
  <2> HIDE DEF F, V, b
  <2>2. \E g \in [Nat -> V] : g[0] = b /\ \A n \in Nat : g[n + 1] = F[g[n]]
    BY ONLY <2>1, TurnsExist, SMTT(30)
  <2> QED BY <2>2
<1>3. h = Upwards(h, s, from, f, r)
  <2>1. ASSUME NEW n \in Nat PROVE h[n] = IF n = 0 THEN b ELSE UpTurn(h[n - 1], f, r)
    <3>1. CASE n = 0
      BY <1>2, <3>1
    <3>2. CASE n # 0
      <4>1. n - 1 \in Nat /\ n - 1 + 1 = n
        BY <3>2
      <4> HIDE DEF V, b
      <4>2. h[n] = F[h[n - 1]] /\ h[n - 1] \in V
        BY <4>1, <1>2
      <4>3. h[n] = UpTurn(h[n - 1], f, r)
        BY <4>2
      <4> QED BY <4>3, <3>2
    <3> QED BY <3>1, <3>2
  <2>2. h = [n \in Nat |-> h[n]]
    OBVIOUS
  <2> HIDE DEF b
  <2> QED BY <2>1, <2>2 DEF Upwards, b
<1>4. it = Upwards(it, s, from, f, r)
  BY <1>3, Zenon DEF UpTurns
<1> HIDE DEF it
<1>5. \A n \in Nat : it[n] = IF n = 0 THEN b ELSE UpTurn(it[n - 1], f, r)
  <2> HIDE DEF b
  <2> QED BY <1>4 DEF Upwards, b
<1> HIDE DEF b, V
<1>6. it[0] = b
  BY <1>5
<1>7. ASSUME NEW n \in Nat PROVE it[n + 1] = UpTurn(it[n], f, r)
  <2> DEFINE k == n + 1
  <2>1. k \in Nat /\ k # 0 /\ k - 1 = n
    OBVIOUS
  <2> HIDE DEF k
  <2>2. it[k] = UpTurn(it[n], f, r)
    BY ONLY <2>1, <1>5
  <2> QED BY <2>2 DEF k
<1> QED BY <1>1, <1>6, <1>7 DEF it, V, b

\* replace() by a longer text gives what it should, when there is room for it.
LEMMA ReplaceUpHolds ==
  ASSUME NEW s, NEW t \in Text, NEW f \in Text, NEW r \in Text, Full(s, t),
         f # <<>>, Len(f) < Len(r), Apart(f, r), Len(Replaced(t, f, r)) <= s.cap
  PROVE  Full(ReplaceUp(s, s.len - 1, f, r), Replaced(t, f, r))
<1> DEFINE N == Len(t)
           from == N - 1
           V == Ups(s.cap, t, f, r)
           it == UpTurns(s, from, f, r)
           D == {v \in V : NoneBefore(t, f, v.index + 1)}
           P == [v \in V |-> from - v.index]
           z == it[N]
           c == z.index + 1
<1>0. s.len = N /\ N \in Nat /\ s.cap \in Nat /\ from = Len(t) - 1 /\ from + 1 = N
  BY ValidIs, TextIs DEF Full
<1>1. it[0] \in V /\ \A n \in Nat : it[n + 1] = UpTurn(it[n], f, r)
  <2>1. from = Len(t) - 1
    BY <1>0
  <2> HIDE DEF from, V, it
  <2>2. UpTurns(s, from, f, r)[0] \in Ups(s.cap, t, f, r)
    BY <2>1, UpTurnsAre
  <2>3. \A n \in Nat : UpTurns(s, from, f, r)[n + 1] = UpTurn(UpTurns(s, from, f, r)[n], f, r)
    BY <2>1, UpTurnsAre
  <2> QED BY <2>2, <2>3 DEF V, it
<1>2. \A v \in V : v.index \in -1 .. N - 1 /\ P[v] = from - v.index
  BY DEF Ups
<1>3. \A v \in V : P[v] \in Int
  BY <1>0, <1>2
<1>4. P[it[0]] >= 0
  <2>1. P[it[0]] = from - it[0].index /\ it[0].index \in -1 .. N - 1
    <3> HIDE DEF it, P, V
    <3> QED BY <1>1, <1>2
  <2> QED BY <2>1, <1>0
<1>5. ASSUME NEW n \in Nat, it[n] \in V
      PROVE  /\ it[n + 1] \in V
             /\ (it[n] \in D /\ it[n + 1] = it[n]) \/ (it[n] \notin D /\ P[it[n + 1]] > P[it[n]])
  <2> DEFINE v == it[n]
             w == it[n + 1]
  <2>1. w = UpTurn(v, f, r) /\ v \in V
    BY <1>1, <1>5
  <2> HIDE DEF v, w
  <2>2. w \in V
    BY <2>1, <1>0, UpStep
  <2>3. (NoneBefore(t, f, v.index + 1) /\ w = v) \/ (~NoneBefore(t, f, v.index + 1) /\ w.index < v.index)
    BY <2>1, <1>0, UpStep
  <2>4. v \in D <=> NoneBefore(t, f, v.index + 1)
    BY <2>1
  <2>5. P[v] = from - v.index /\ P[w] = from - w.index /\ v.index \in Int /\ w.index \in Int
    BY <2>1, <2>2, <1>0, <1>2
  <2> HIDE DEF V, D, P, from
  <2>6. w.index < v.index => P[w] > P[v]
    BY <2>5, <1>0
  <2> QED BY <2>2, <2>3, <2>4, <2>6 DEF v, w
<1>11. ReplaceUp(s, s.len - 1, f, r) = z.obj
  <2> HIDE DEF from, it
  <2>1. ReplaceUp(s, from, f, r) = it[from + 1].obj
    BY ReplaceUpIs DEF it
  <2> QED BY <2>1, <1>0 DEF from
<1> HIDE DEF it, V, D, P, from
<1>9. it[0] \in V
  BY <1>1
<1>10. \A n \in Nat : it[n] \in V =>
         /\ it[n + 1] \in V
         /\ (it[n] \in D /\ it[n + 1] = it[n]) \/ (it[n] \notin D /\ P[it[n + 1]] > P[it[n]])
  BY <1>5
<1>6. \A n \in Nat : it[n] \in V /\ (it[n] \in D \/ P[it[n]] >= n)
  BY ONLY <1>9, <1>3, <1>4, <1>10, TurnsEnd
<1> HIDE DEF z
<1>7. z \in V /\ (z \in D \/ P[z] >= N)
  BY <1>0, <1>6 DEF z
<1>12. z.index \in -1 .. N - 1 /\ Full(z.obj, Mixed(t, f, r, c)) /\ c \in 0 .. Len(t)
  BY <1>0, <1>7 DEF V, Ups
<1>8. NoneBefore(t, f, c)
  <2>1. CASE z \in D
    BY <2>1 DEF D
  <2>2. CASE P[z] >= N
    <3>1. z.index = -1
      BY <2>2, <1>0, <1>2, <1>7
    <3>2. 0 .. c - 1 = {}
      BY <3>1
    <3> QED BY <3>2 DEF NoneBefore
  <2> QED BY <2>1, <2>2, <1>7
<1> HIDE DEF c
<1>13. Mixed(t, f, r, c) = Replaced(t, f, r)
  <2>1. 0 \in 0 .. Len(t) /\ c \in 0 .. Len(t) /\ 0 + 1 = 1
    BY <1>0, <1>12
  <2>2. \A k \in 0 .. c - 1 : ~(f # <<>> /\ IsAt(f, t, k))
    BY <1>8 DEF NoneBefore
  <2>3. Ahead(t, f, r, 0) = Join(SubSeq(t, 0 + 1, c), Ahead(t, f, r, c))
    <3>1. Ahead(t, f, r, 0) = SubSeq(t, 0 + 1, c) \o Ahead(t, f, r, c)
      BY <2>1, <2>2, AheadSkips
    <3> QED BY <3>1 DEF Join
  <2>4. Mixed(t, f, r, c) = Join(SubSeq(t, 1, c), Ahead(t, f, r, c))
    BY DEF Mixed, Join
  <2> QED BY <2>1, <2>3, <2>4, AheadStart
<1> QED BY <1>11, <1>12, <1>13

\* replace(): a text of the object that a pair may be used on becomes the one with every
\* word replaced, unless that is too long for the buffer and there is no memory for it.
LEMMA ReplaceIs ==
  ASSUME NEW s, NEW t, Holds(s, t), NEW f \in Text, NEW r \in Text,
         Len(f) < Len(r) => Apart(f, r), NEW room \in BOOLEAN
  PROVE  Holds(Replace(s, f, r, room),
               IF Len(Replaced(t, f, r)) > s.cap /\ ~room THEN t ELSE Replaced(t, f, r))
<1> DEFINE R == Replaced(t, f, r)
           G == GrownSize(s, f, Len(r) - Len(f))
           big == ChangeBuffer(s, G)
<1>1. t \in Text /\ Len(t) \in Nat /\ s.len = Len(t) /\ Len(t) <= s.cap /\ Room(s) /\ s.cap \in Nat
      /\ Len(f) \in Nat /\ Len(r) \in Nat
  BY HeldIs, TextIs
<1>2. Replace(s, f, r, room) =
        IF s.len = 0 \/ Len(f) = 0 THEN s
        ELSE IF Len(r) <= Len(f) THEN ReplaceDown(s, f, r)
        ELSE IF G = s.len \/ (G > s.cap /\ ~room) THEN s
        ELSE ReplaceUp(IF G > s.cap THEN big ELSE s, s.len - 1, f, r)
  BY DEF Replace
<1>3. CASE s.len = 0 \/ Len(f) = 0
  <2>1. R = t
    <3>1. \A k \in 0 .. Len(t) : ~(f # <<>> /\ IsAt(f, t, k))
      <4>1. ASSUME NEW k \in 0 .. Len(t), f # <<>> PROVE ~IsAt(f, t, k)
        <5>1. Len(f) # 0
          BY <4>1, EmptySeq DEF Text
        <5>2. Len(t) = 0
          BY <5>1, <1>1, <1>3
        <5> QED BY <5>1, <5>2, <1>1 DEF IsAt
      <4> QED BY <4>1
    <3>2. 0 \in 0 .. Len(t) /\ 0 + 1 = 1
      BY <1>1
    <3>3. Ahead(t, f, r, 0) = SubSeq(t, 0 + 1, Len(t))
      BY <1>1, <3>1, <3>2, AheadStays
    <3>4. SubSeq(t, 1, Len(t)) = t
      BY <1>1, SubSeqFull DEF Text
    <3> QED BY <1>1, <3>2, <3>3, <3>4, AheadStart
  <2>2. Replace(s, f, r, room) = s
    BY <1>2, <1>3
  <2> HIDE DEF R
  <2>3. (IF Len(R) > s.cap /\ ~room THEN t ELSE R) = t
    BY <2>1
  <2> QED BY <2>2, <2>3 DEF R
<1>4. CASE ~(s.len = 0 \/ Len(f) = 0)
  <2>1. s # Invalid /\ Full(s, t) /\ f # <<>>
    <3>1. f # <<>>
      BY <1>4, EmptyText
    <3>2. s # Invalid
      BY <1>4 DEF Invalid
    <3> QED BY <3>1, <3>2, HeldIs
  <2>2. CASE Len(r) <= Len(f)
    <3>1. Full(ReplaceDown(s, f, r), R) /\ Len(R) <= s.cap /\ R \in Text
      BY <1>1, <2>1, <2>2, ReplaceDownHolds
    <3>2. Replace(s, f, r, room) = ReplaceDown(s, f, r)
      BY <1>2, <1>4, <2>2
    <3> HIDE DEF R
    <3>3. ~(Len(R) > s.cap)
      <4>1. Len(R) \in Nat
        BY <3>1, TextIs
      <4> QED BY <4>1, <3>1, <1>1
    <3>4. (IF Len(R) > s.cap /\ ~room THEN t ELSE R) = R
      BY <3>3
    <3>5. Holds(ReplaceDown(s, f, r), R)
      BY <3>1 DEF Holds
    <3> QED BY <3>2, <3>4, <3>5 DEF R
  <2>3. CASE ~(Len(r) <= Len(f))
    <3>1. Len(f) < Len(r) /\ Apart(f, r)
      BY <1>1, <2>3
    <3>2. G = Len(R) /\ R \in Text /\ Len(R) >= Len(t) /\ (Len(R) = Len(t) => R = t)
      BY <1>1, <2>1, <3>1, GrownSizeHolds
    <3>3. Replace(s, f, r, room) =
            IF G = s.len \/ (G > s.cap /\ ~room) THEN s
            ELSE ReplaceUp(IF G > s.cap THEN big ELSE s, s.len - 1, f, r)
      BY <1>2, <1>4, <2>3
    <3>4. Len(R) \in Nat
      BY <3>2, TextIs
    <3>5. big = ChangeBuffer(s, G)
      OBVIOUS
    <3>6. \A o : Full(o, t) /\ Len(R) <= o.cap => Full(ReplaceUp(o, o.len - 1, f, r), R)
      BY <1>1, <2>1, <3>1, ReplaceUpHolds
    <3>7. R = Replaced(t, f, r)
      OBVIOUS
    <3> HIDE DEF G, R, big
    <3>8. CASE G = s.len
      <4>1. R = t
        BY <3>2, <3>8, <1>1
      <4>2. Replace(s, f, r, room) = s
        BY <3>3, <3>8
      <4>3. (IF Len(R) > s.cap /\ ~room THEN t ELSE R) = t
        BY <4>1
      <4> QED BY <4>2, <4>3, <3>7
    <3>9. CASE G # s.len /\ G > s.cap /\ ~room
      <4>1. Replace(s, f, r, room) = s
        BY <3>3, <3>9
      <4>2. (IF Len(R) > s.cap /\ ~room THEN t ELSE R) = t
        BY <3>2, <3>9
      <4> QED BY <4>1, <4>2, <3>7
    <3>10. CASE G # s.len /\ G > s.cap /\ room
      <4>1. Full(big, t) /\ big.cap = G /\ big.len = s.len
        <5>1. /\ Valid(big) /\ big.cap = G /\ big.len = s.len
              /\ \A k \in 0 .. G : k \in DOMAIN s.buf => big.buf[k] = s.buf[k]
          BY <3>2, <3>4, <3>5, <1>1, ChangeBufferIs
        <5>2. DOMAIN s.buf = 0 .. s.cap /\ Has(s.buf, 0, t)
          BY <2>1, ValidIs DEF Full
        <5>3. \A k \in 0 .. 0 + Len(t) : big.buf[k] = s.buf[k]
          <6>1. \A k \in 0 .. 0 + Len(t) : k \in 0 .. s.cap /\ k \in 0 .. G
            BY <3>2, <3>4, <3>10, <1>1
          <6> QED BY <6>1, <5>1, <5>2
        <5>4. Has(big.buf, 0, t)
          <6>1. 0 \in Nat
            OBVIOUS
          <6> QED BY <6>1, <5>2, <5>3, <1>1, HasStays
        <5>5. Len(t) <= big.cap
          BY <5>1, <3>2, <3>4, <1>1
        <5> QED BY <5>1, <5>4, <5>5, <1>1 DEF Full
      <4>2. Replace(s, f, r, room) = ReplaceUp(big, s.len - 1, f, r)
        BY <3>3, <3>10
      <4>3. Full(ReplaceUp(big, s.len - 1, f, r), R)
        <5>1. Len(R) <= big.cap
          BY <4>1, <3>2, <3>4
        <5>2. Full(ReplaceUp(big, big.len - 1, f, r), R)
          BY <5>1, <4>1, <3>6
        <5> QED BY <5>2, <4>1
      <4>4. (IF Len(R) > s.cap /\ ~room THEN t ELSE R) = R
        BY <3>10
      <4> QED BY <4>2, <4>3, <4>4, <3>2, <3>7 DEF Holds
    <3>11. CASE G # s.len /\ ~(G > s.cap)
      <4>1. Replace(s, f, r, room) = ReplaceUp(s, s.len - 1, f, r)
        BY <3>3, <3>11
      <4>2. Full(ReplaceUp(s, s.len - 1, f, r), R)
        <5>1. Len(R) <= s.cap
          BY <3>2, <3>4, <3>11, <1>1
        <5> QED BY <5>1, <2>1, <3>6
      <4>3. (IF Len(R) > s.cap /\ ~room THEN t ELSE R) = R
        BY <3>2, <3>11
      <4> QED BY <4>1, <4>2, <4>3, <3>2, <3>7 DEF Holds
    <3> QED BY <3>8, <3>9, <3>10, <3>11
  <2> QED BY <2>2, <2>3
<1> QED BY <1>3, <1>4

(***************************************************************************)
(* The calls, and the theorems.                                            *)
(***************************************************************************)

\* Every object has a buffer or none, and one that was not moved away holds its text.
Kept(o) == Room(str[o]) /\ (o \notin movedFrom => Holds(str[o], text[o]))
StrInv ==
  /\ str = [o \in Object |-> str[o]] /\ text = [o \in Object |-> text[o]]
  /\ \A o \in Object : Kept(o)

\* What Becomes() is given has to fit together.
LEMMA BecomesKeeps ==
  ASSUME StrInv, NEW o \in Object, NEW s, NEW t, Holds(s, t), Becomes(o, s, t)
  PROVE  StrInv'
<1>1. /\ str' = [str EXCEPT ![o] = s] /\ text' = [text EXCEPT ![o] = t]
      /\ movedFrom' = movedFrom \ {o}
  BY DEF Becomes
<1>2. str = [p \in Object |-> str[p]] /\ text = [p \in Object |-> text[p]]
  BY DEF StrInv
<1>3. /\ str' = [p \in Object |-> str'[p]] /\ text' = [p \in Object |-> text'[p]]
      /\ str'[o] = s /\ text'[o] = t
      /\ \A p \in Object : p # o => str'[p] = str[p] /\ text'[p] = text[p]
  BY <1>1, <1>2
<1>4. Room(s)
  BY HeldIs
<1>5. ASSUME NEW p \in Object PROVE Room(str'[p]) /\ (p \notin movedFrom' => Holds(str'[p], text'[p]))
  <2>1. CASE p = o
    BY <2>1, <1>3, <1>4
  <2>2. CASE p # o
    <3>1. Room(str[p]) /\ (p \notin movedFrom => Holds(str[p], text[p]))
      BY DEF StrInv, Kept
    <3> QED
      BY <3>1, <2>2, <1>1, <1>3
  <2> QED
    BY <2>1, <2>2
<1> QED
  BY <1>3, <1>5 DEF StrInv, Kept

\* What the invariant says of an object.
LEMMA KeptIs ==
  ASSUME StrInv, NEW o \in Object
  PROVE  Room(str[o]) /\ (Readable(o) => Holds(str[o], text[o]))
BY DEF StrInv, Kept, Readable

\* The text that an object gives out: a NULL pointer for a missing buffer.
LEMMA GivenIs ==
  ASSUME NEW s, NEW t, Holds(s, t)
  PROVE  LET u == IF IsInvalid(s) THEN None ELSE CStr(s.buf, 0) IN
         /\ u \in Text \cup {None}
         /\ u = None <=> IsInvalid(s)
         /\ ~IsInvalid(s) => u = t
<1>1. /\ t \in Text
      /\ ~IsInvalid(s) => CStr(s.buf, 0) = t
  BY HeldIs
<1>2. t # None
  BY <1>1, TextIs
<1> QED
  BY <1>1, <1>2

LEMMA AssignTextKeeps ==
  ASSUME StrInv, NEW o \in Object, NEW t \in Literal \cup {None}, NEW room \in BOOLEAN,
         AssignText(o, t, room)
  PROVE  StrInv'
<1>1. t \in Text \cup {None}
  BY TextAssumption DEF Text
<1>2. Room(str[o])
  BY KeptIs
<1>3. Holds(Assign(str[o], t, room), IF IsInvalid(Assign(str[o], t, room)) THEN <<>> ELSE t)
  BY <1>1, <1>2, AssignIs
<1> QED
  BY <1>3, BecomesKeeps DEF AssignText

LEMMA AssignObjectKeeps ==
  ASSUME StrInv, NEW o \in Object, NEW p \in Object, NEW room \in BOOLEAN,
         AssignObject(o, p, room)
  PROVE  StrInv'
<1> DEFINE t == IF IsInvalid(str[p]) THEN None ELSE CStr(str[p].buf, 0)
           s == IF t = None THEN Invalid ELSE Copy(str[o], t, str[p].len, room)
<1>1. Room(str[o]) /\ Holds(str[p], text[p])
  BY KeptIs DEF AssignObject
<1>2. /\ t \in Text \cup {None}
      /\ t = None <=> IsInvalid(str[p])
      /\ ~IsInvalid(str[p]) => t = text[p]
  BY <1>1, GivenIs
<1>3. Becomes(o, s, IF IsInvalid(s) THEN <<>> ELSE text[p])
  BY DEF AssignObject
<1>4. text[p] \in Text /\ str[p].len = Len(text[p])
  BY <1>1, HeldIs
<1>5. IsInvalid(Invalid)
  BY DEF IsInvalid, Invalid
<1>6. Holds(Invalid, <<>>)
  BY EmptyText DEF Holds
<1>7. CASE t = None
  <2>1. s = Invalid
    BY <1>7
  <2> QED
    BY <2>1, <1>3, <1>5, <1>6, BecomesKeeps
<1>8. CASE t # None
  <2>1. s = Copy(str[o], text[p], Len(text[p]), room)
    BY <1>2, <1>4, <1>8
  <2>2. s = Invalid \/ Full(s, text[p])
    BY <2>1, <1>1, <1>4, CopyIs
  <2>3. Full(s, text[p]) => Holds(s, text[p]) /\ ~IsInvalid(s)
    BY <1>4, ValidIs DEF Holds, Full
  <2> HIDE DEF s
  <2> QED
    BY <2>2, <2>3, <1>3, <1>5, <1>6, BecomesKeeps
<1> QED
  BY <1>7, <1>8

LEMMA MoveObjectKeeps ==
  ASSUME StrInv, NEW o \in Object, NEW p \in Object, MoveObject(o, p)
  PROVE  StrInv'
<1> DEFINE m == Moved(str[o], str[p])
<1>1. /\ o # p /\ Readable(p)
      /\ str' = [str EXCEPT ![o] = m.to, ![p] = m.from]
      /\ text' = [text EXCEPT ![o] = text[p], ![p] = <<>>]
      /\ movedFrom' = (movedFrom \ {o}) \cup {p}
  BY DEF MoveObject
<1>2. Room(str[o]) /\ Holds(str[p], text[p])
  BY <1>1, KeptIs
<1>3. Holds(m.to, text[p]) /\ Room(m.from)
  BY <1>2, MovedIs
<1>4. Room(m.to)
  BY <1>3, HeldIs
<1> HIDE DEF m
<1>5. str = [q \in Object |-> str[q]] /\ text = [q \in Object |-> text[q]]
  BY DEF StrInv
<1>6. /\ str' = [q \in Object |-> str'[q]] /\ text' = [q \in Object |-> text'[q]]
      /\ str'[o] = m.to /\ text'[o] = text[p] /\ str'[p] = m.from
      /\ \A q \in Object : q # o /\ q # p => str'[q] = str[q] /\ text'[q] = text[q]
  BY <1>1, <1>5
<1>7. ASSUME NEW q \in Object PROVE Room(str'[q]) /\ (q \notin movedFrom' => Holds(str'[q], text'[q]))
  <2>1. CASE q = o
    BY <2>1, <1>6, <1>3, <1>4
  <2>2. CASE q = p
    BY <2>2, <1>6, <1>3, <1>1
  <2>3. CASE q # o /\ q # p
    <3>1. Room(str[q]) /\ (q \notin movedFrom => Holds(str[q], text[q]))
      BY DEF StrInv, Kept
    <3> QED
      BY <3>1, <2>3, <1>1, <1>6
  <2> QED
    BY <2>1, <2>2, <2>3
<1> QED
  BY <1>6, <1>7 DEF StrInv, Kept

LEMMA ConcatTextKeeps ==
  ASSUME StrInv, NEW o \in Object, NEW t \in Text \cup {None}, NEW room \in BOOLEAN,
         ConcatText(o, t, room)
  PROVE  StrInv'
<1>1. Holds(str[o], text[o])
  BY KeptIs DEF ConcatText
<1>2. Holds(Concat(str[o], t, room), IF Succeeds(str[o], t, room) THEN text[o] \o t ELSE text[o])
  BY <1>1, ConcatIs
<1> QED
  BY <1>2, BecomesKeeps DEF ConcatText

LEMMA ConcatObjectKeeps ==
  ASSUME StrInv, NEW o \in Object, NEW p \in Object, NEW room \in BOOLEAN,
         ConcatObject(o, p, room)
  PROVE  StrInv'
<1> DEFINE t == IF IsInvalid(str[p]) THEN None ELSE CStr(str[p].buf, 0)
<1>1. Holds(str[p], text[p])
  BY KeptIs DEF ConcatObject
<1>2. t \in Text \cup {None}
  BY <1>1, GivenIs
<1>3. ConcatText(o, t, room)
  BY DEF ConcatObject
<1> HIDE DEF t
<1> QED
  BY <1>2, <1>3, ConcatTextKeeps

LEMMA AssignSumKeeps ==
  ASSUME StrInv, NEW o \in Object, NEW p \in Object, NEW t \in Literal,
         NEW room, AssignSum(o, p, t, room)
  PROVE  StrInv'
<1> DEFINE u == IF IsInvalid(str[p]) THEN None ELSE CStr(str[p].buf, 0)
           l == Assign(Invalid, u, room[1])
           sum == Sum(l, t, room[2])
<1>1. Room(str[o]) /\ Holds(str[p], text[p])
  BY KeptIs DEF AssignSum
<1>2. /\ u \in Text \cup {None}
      /\ ~IsInvalid(str[p]) => u = text[p]
      /\ u = None <=> IsInvalid(str[p])
  BY <1>1, GivenIs
<1>3. Becomes(o, Moved(str[o], sum).to,
              IF IsInvalid(sum) THEN <<>> ELSE (IF IsInvalid(l) THEN <<>> ELSE text[p]) \o t)
  BY DEF AssignSum
<1>4. t \in Text
  BY TextAssumption DEF Text
<1>5. Holds(l, IF IsInvalid(l) THEN <<>> ELSE u)
  BY <1>2, AssignIs DEF Room
<1>6. u = None => IsInvalid(l)
  BY DEF Assign, IsInvalid, Invalid
<1>7. Holds(l, IF IsInvalid(l) THEN <<>> ELSE text[p])
  BY <1>2, <1>5, <1>6
<1> HIDE DEF u, l
<1>8. Holds(sum, IF IsInvalid(sum) THEN <<>>
                 ELSE (IF IsInvalid(l) THEN <<>> ELSE text[p]) \o t)
  BY <1>4, <1>7, SumIs
<1> HIDE DEF sum
<1> QED
  BY <1>1, <1>3, <1>8, MovedIs, BecomesKeeps

LEMMA AssignSubstringKeeps ==
  ASSUME StrInv, NEW o \in Object, NEW p \in Object, NEW l \in Nat, NEW r \in Nat,
         NEW room \in BOOLEAN, AssignSubstring(o, p, l, r, room)
  PROVE  StrInv'
<1> DEFINE part == Substring(str[p], l, r, room)
           t == IF IsInvalid(part) THEN <<>>
                ELSE SubSeq(text[p], Min({l, r}) + 1, Min({Max({l, r}), Len(text[p])}))
<1>1. Room(str[o]) /\ Holds(str[p], text[p])
  BY KeptIs DEF AssignSubstring
<1>2. Becomes(o, Moved(str[o], part).to, t)
  BY DEF AssignSubstring
<1>3. Holds(part, t)
  BY <1>1, SubstringIs
<1> HIDE DEF part, t
<1>4. Holds(Moved(str[o], part).to, t)
  BY <1>1, <1>3, MovedIs
<1> QED
  BY <1>2, <1>4, BecomesKeeps

LEMMA ReplaceTextKeeps ==
  ASSUME StrInv, PairsApart, NEW o \in Object, NEW q \in Pair, NEW room \in BOOLEAN,
         ReplaceText(o, q[1], q[2], room)
  PROVE  StrInv'
<1>1. q[1] \in Text /\ q[2] \in Text
  BY TextAssumption DEF Text
<1>2. Len(q[1]) < Len(q[2]) => Apart(q[1], q[2])
  BY DEF PairsApart, LongerApart
<1>3. Holds(str[o], text[o])
  BY KeptIs DEF ReplaceText, Small
<1> DEFINE s == Replace(str[o], q[1], q[2], room)
           t == IF Len(Replaced(text[o], q[1], q[2])) > str[o].cap /\ ~room THEN text[o]
                ELSE Replaced(text[o], q[1], q[2])
<1>4. Holds(s, t)
  BY <1>1, <1>2, <1>3, ReplaceIs
<1>5. Becomes(o, s, t)
  BY DEF ReplaceText
<1> HIDE DEF s, t
<1> QED
  BY <1>4, <1>5, BecomesKeeps

\* The calls that change one object in place.
LEMMA EditsKeep ==
  ASSUME StrInv, NEW o \in Object
  PROVE  /\ \A f \in [Char -> Char] : MapText(o, f) => StrInv'
         /\ \A i \in Nat, n \in Nat \ {0} : RemoveText(o, i, n) => StrInv'
         /\ TrimText(o) => StrInv'
         /\ \A i \in Nat, c \in Char : SetChar(o, i, c) => StrInv'
         /\ \A n \in Nat, room \in BOOLEAN : ReserveText(o, n, room) => StrInv'
<1>1. Readable(o) => Holds(str[o], text[o])
  BY KeptIs
<1>2. ASSUME NEW f \in [Char -> Char], MapText(o, f) PROVE StrInv'
  <2>1. Holds(str[o], text[o])
    BY <1>1, <1>2 DEF MapText, Small
  <2>2. Holds(MapChars(str[o], f), [i \in DOMAIN text[o] |-> f[text[o][i]]])
    BY <2>1, MapCharsIs
  <2> QED
    BY <2>2, <1>2, BecomesKeeps DEF MapText
<1>3. ASSUME NEW i \in Nat, NEW n \in Nat \ {0}, RemoveText(o, i, n) PROVE StrInv'
  <2>1. Holds(str[o], text[o])
    BY <1>1, <1>3 DEF RemoveText
  <2>2. Holds(RemoveFrom(str[o], i, n),
              SubSeq(text[o], 1, Min({i, Len(text[o])})) \o SubSeq(text[o], i + n + 1, Len(text[o])))
    BY <2>1, RemoveIs
  <2> QED
    BY <2>2, <1>3, BecomesKeeps DEF RemoveText
<1>4. ASSUME TrimText(o) PROVE StrInv'
  <2>1. Holds(Trim(str[o]), Trimmed(text[o]))
    BY <1>1, <1>4, TrimIs DEF TrimText
  <2> QED
    BY <2>1, <1>4, BecomesKeeps DEF TrimText
<1>5. ASSUME NEW i \in Nat, NEW c \in Char, SetChar(o, i, c) PROVE StrInv'
  <2>1. Holds(str[o], text[o])
    BY <1>1, <1>5 DEF SetChar, Small
  <2>2. Holds(SetCharAt(str[o], i, c), IF i < Len(text[o]) THEN [text[o] EXCEPT ![i + 1] = c] ELSE text[o])
    BY <2>1, SetCharIs
  <2> QED
    BY <2>2, <1>5, BecomesKeeps DEF SetChar
<1>6. ASSUME NEW n \in Nat, NEW room \in BOOLEAN, ReserveText(o, n, room) PROVE StrInv'
  <2>1. Holds(str[o], text[o])
    BY <1>1, <1>6 DEF ReserveText
  <2>2. Room(str[o]) /\ text[o] \in Text
    BY <2>1, HeldIs
  <2>3. Full(Reserve(str[o], n), text[o])
    BY <2>1, <2>2, ReserveIs
  <2>4. Holds(Reserve(str[o], n), text[o])
    BY <2>2, <2>3 DEF Holds
  <2> QED
    BY <2>4, <1>6, BecomesKeeps DEF ReserveText
<1> QED
  BY <1>2, <1>3, <1>4, <1>5, <1>6

LEMMA StrInvStep ==
  ASSUME StrInv, PairsApart, StrNext
  PROVE  StrInv'
<1>1. PICK o \in Object :
    \/ \E room \in BOOLEAN :
         \/ \E t \in Literal \cup {None} : AssignText(o, t, room)
         \/ \E t \in Literal : ConcatText(o, t, room)
         \/ \E p \in Object : AssignObject(o, p, room) \/ ConcatObject(o, p, room)
         \/ \E p \in Object, t \in Literal, again \in BOOLEAN : AssignSum(o, p, t, <<room, again>>)
         \/ \E p \in Object, l, r \in 0 .. MaxText : l # r /\ AssignSubstring(o, p, l, r, room)
         \/ \E q \in Pair : ReplaceText(o, q[1], q[2], room)
         \/ \E n \in 0 .. MaxText : ReserveText(o, n, room)
    \/ \E p \in Object : MoveObject(o, p)
    \/ \E f \in [Char -> Char] : MapText(o, f)
    \/ \E i \in 0 .. MaxText, n \in 1 .. MaxText : RemoveText(o, i, n)
    \/ TrimText(o)
    \/ \E i \in 0 .. MaxText, c \in Char : SetChar(o, i, c)
  BY Zenon DEF StrNext
<1>2. 0 .. MaxText \subseteq Nat /\ 1 .. MaxText \subseteq Nat \ {0}
  OBVIOUS
<1>3. Literal \subseteq Text \cup {None}
  BY TextAssumption DEF Text
<1>4. ASSUME NEW room \in BOOLEAN,
         \/ \E t \in Literal \cup {None} : AssignText(o, t, room)
         \/ \E t \in Literal : ConcatText(o, t, room)
         \/ \E p \in Object : AssignObject(o, p, room) \/ ConcatObject(o, p, room)
         \/ \E p \in Object, t \in Literal, again \in BOOLEAN : AssignSum(o, p, t, <<room, again>>)
         \/ \E p \in Object, l, r \in 0 .. MaxText : l # r /\ AssignSubstring(o, p, l, r, room)
         \/ \E q \in Pair : ReplaceText(o, q[1], q[2], room)
         \/ \E n \in 0 .. MaxText : ReserveText(o, n, room)
      PROVE StrInv'
  <2>1. CASE \E t \in Literal \cup {None} : AssignText(o, t, room)
    BY <2>1, AssignTextKeeps, Zenon
  <2>2. CASE \E t \in Literal : ConcatText(o, t, room)
    BY <2>2, <1>3, ConcatTextKeeps
  <2>3. CASE \E p \in Object : AssignObject(o, p, room) \/ ConcatObject(o, p, room)
    BY <2>3, AssignObjectKeeps, ConcatObjectKeeps
  <2>4. CASE \E p \in Object, t \in Literal, again \in BOOLEAN : AssignSum(o, p, t, <<room, again>>)
    BY <2>4, AssignSumKeeps
  <2>5. CASE \E p \in Object, l, r \in 0 .. MaxText : l # r /\ AssignSubstring(o, p, l, r, room)
    BY <2>5, <1>2, AssignSubstringKeeps
  <2>6. CASE \E q \in Pair : ReplaceText(o, q[1], q[2], room)
    BY <2>6, ReplaceTextKeeps
  <2>7. CASE \E n \in 0 .. MaxText : ReserveText(o, n, room)
    BY <2>7, <1>2, EditsKeep
  <2> QED
    BY <1>4, <2>1, <2>2, <2>3, <2>4, <2>5, <2>6, <2>7
<1>5. CASE \E p \in Object : MoveObject(o, p)
  BY <1>5, MoveObjectKeeps
<1>6. CASE \E f \in [Char -> Char] : MapText(o, f)
  BY <1>6, EditsKeep
<1>7. CASE \E i \in 0 .. MaxText, n \in 1 .. MaxText : RemoveText(o, i, n)
  BY <1>7, <1>2, EditsKeep
<1>8. CASE TrimText(o)
  BY <1>8, EditsKeep
<1>9. CASE \E i \in 0 .. MaxText, c \in Char : SetChar(o, i, c)
  BY <1>9, <1>2, EditsKeep
<1> QED
  BY <1>1, <1>4, <1>5, <1>6, <1>7, <1>8, <1>9

\* What the invariant says of the buffers.
LEMMA StrInvSays ==
  ASSUME StrInv
  PROVE  BufferHoldsText /\ ReplaceFits
<1>1. ASSUME NEW o \in Object \ movedFrom
      PROVE  LET s == str[o] IN
             IF IsInvalid(s) THEN s = Invalid /\ text[o] = <<>>
             ELSE /\ DOMAIN s.buf = 0 .. s.cap
                  /\ \E k \in 0 .. s.cap : s.buf[k] = NUL
                  /\ CStr(s.buf, 0) = text[o]
                  /\ s.len = Len(text[o])
  <2>1. Holds(str[o], text[o])
    BY DEF StrInv, Kept
  <2>2. CASE IsInvalid(str[o])
    BY <2>1, <2>2, HeldIs
  <2>3. CASE ~IsInvalid(str[o])
    <3>1. Full(str[o], text[o]) /\ CStr(str[o].buf, 0) = text[o] /\ Len(text[o]) \in Nat
      BY <2>1, <2>3, HeldIs
    <3>2. /\ Valid(str[o]) /\ Len(text[o]) <= str[o].cap /\ str[o].buf[0 + Len(text[o])] = NUL
          /\ str[o].len = Len(text[o])
      BY <3>1 DEF Full, Has
    <3>3. str[o].cap \in Nat /\ DOMAIN str[o].buf = 0 .. str[o].cap
      BY <3>2, ValidIs
    <3>4. Len(text[o]) \in 0 .. str[o].cap /\ str[o].buf[Len(text[o])] = NUL
      BY <3>1, <3>2, <3>3
    <3> QED
      BY <2>3, <3>1, <3>2, <3>3, <3>4
  <2> QED
    BY <2>2, <2>3
<1>2. ASSUME NEW o \in Object PROVE DOMAIN str[o].buf \subseteq 0 .. str[o].cap
  <2>1. Room(str[o])
    BY DEF StrInv, Kept
  <2>2. CASE Valid(str[o])
    BY <2>2, ValidIs
  <2>3. CASE str[o] = Invalid
    <3>1. str[o].buf = <<>>
      BY <2>3, ValidIs
    <3>2. DOMAIN <<>> = {}
      OBVIOUS
    <3> QED
      BY <3>1, <3>2
  <2> QED
    BY <2>1, <2>2, <2>3 DEF Room
<1> QED
  BY <1>1, <1>2 DEF BufferHoldsText, ReplaceFits

LEMMA StrInvStart == StrInit => StrInv
<1> SUFFICES ASSUME StrInit PROVE StrInv
  OBVIOUS
<1>1. Holds(Invalid, <<>>) /\ Room(Invalid)
  BY EmptyText DEF Holds, Room
<1> QED
  BY <1>1 DEF StrInit, StrInv, Kept

\* Where no longer replacement begins as its word ends, nor the word as it ends itself,
\* every object holds the text that its calls should have made (WString.h:205-207) ...
THEOREM StringHoldsText == ASSUME PairsApart PROVE StrSpec => []BufferHoldsText
<1>1. StrInv /\ [StrNext]_strVars => StrInv'
  <2> SUFFICES ASSUME StrInv, [StrNext]_strVars PROVE StrInv'
    OBVIOUS
  <2>1. CASE StrNext
    BY <2>1, StrInvStep
  <2>2. CASE UNCHANGED strVars
    BY <2>2 DEF strVars, StrInv, Kept
  <2> QED
    BY <2>1, <2>2
<1>2. StrInv => BufferHoldsText
  BY StrInvSays
<1> QED
  BY <1>1, <1>2, StrInvStart, PTL DEF StrSpec

\* ... and what replace() writes stays in the buffer (WString.cpp:667).
THEOREM ReplaceStaysInside == ASSUME PairsApart PROVE StrSpec => []ReplaceFits
<1>1. StrInv /\ [StrNext]_strVars => StrInv'
  <2> SUFFICES ASSUME StrInv, [StrNext]_strVars PROVE StrInv'
    OBVIOUS
  <2>1. CASE StrNext
    BY <2>1, StrInvStep
  <2>2. CASE UNCHANGED strVars
    BY <2>2 DEF strVars, StrInv, Kept
  <2> QED
    BY <2>1, <2>2
<1>2. StrInv => ReplaceFits
  BY StrInvSays
<1> QED
  BY <1>1, <1>2, StrInvStart, PTL DEF StrSpec

(***************************************************************************)
(* The searches: the first and the last place of a word or a character,    *)
(* and the parts of a text that are read.                                  *)
(***************************************************************************)

\* The first and the last place of a set, and none.
LEMMA FirstOfIs ==
  ASSUME NEW S \in SUBSET Nat, NEW at,
         \/ at = -1 /\ S = {}
         \/ at \in S /\ \A k \in S : at <= k
  PROVE  at = IF S = {} THEN -1 ELSE Min(S)
<1>1. CASE S = {}
  BY <1>1
<1>2. CASE S # {}
  <2>1. Min(S) \in S /\ \A k \in S : Min(S) <= k
    BY <1>2, MinFinds
  <2>2. at \in S /\ \A k \in S : at <= k
    BY <1>2
  <2> DEFINE m == Min(S)
  <2>3. m \in Nat /\ at \in Nat /\ m <= at /\ at <= m
    BY <2>1, <2>2
  <2> HIDE DEF m
  <2>4. at = m
    BY <2>3
  <2> QED BY <2>4, <1>2 DEF m
<1> QED BY <1>1, <1>2

LEMMA LastOfIs ==
  ASSUME NEW S \in SUBSET Nat, NEW at,
         \/ at = -1 /\ S = {}
         \/ at \in S /\ \A k \in S : k <= at
  PROVE  at = IF S = {} THEN -1 ELSE Max(S)
<1>1. CASE S = {}
  BY <1>1
<1>2. CASE S # {}
  <2>1. at \in S /\ \A k \in S : k <= at
    BY <1>2
  <2>2. S \in SUBSET Int
    OBVIOUS
  <2>3. Max(S) = at
    BY <2>1, <2>2, GreatestIs
  <2> QED BY <2>3, <1>2
<1> QED BY <1>1, <1>2

\* The text from a place on, as strcmp(), strncmp() and strncpy() find it.
LEMMA RestText ==
  ASSUME NEW s, NEW t, Full(s, t), t \in Text, NEW i \in 0 .. Len(t)
  PROVE  /\ CStr(s.buf, i) = SubSeq(t, i + 1, Len(t)) /\ Strlen(s.buf, i) = Len(t) - i
         /\ SubSeq(t, i + 1, Len(t)) \in Text /\ Len(SubSeq(t, i + 1, Len(t))) = Len(t) - i
         /\ Has(s.buf, i, SubSeq(t, i + 1, Len(t)))
<1> DEFINE u == SubSeq(t, i + 1, Len(t))
<1>1. Buffer(s.buf, s.cap) /\ Len(t) <= s.cap /\ Has(s.buf, 0, t) /\ s.cap \in Nat
  BY ValidIs DEF Full, Valid
<1>2. Len(t) \in Nat /\ i \in Nat /\ i <= Len(t) /\ 0 + i = i /\ Len(t) \in i .. Len(t)
  BY TextIs
<1>3. u \in Text /\ Len(u) = Len(t) - i
  BY <1>2, RestIs
<1>4. Has(s.buf, 0 + i, u)
  BY <1>1, RestAt
<1>5. Has(s.buf, i, u)
  BY <1>2, <1>4
<1> HIDE DEF u
<1>6. i + Len(u) <= s.cap
  BY <1>1, <1>2, <1>3
<1>7. Strlen(s.buf, i) = Len(u) /\ CStr(s.buf, i) = u
  BY <1>1, <1>2, <1>3, <1>5, <1>6, TextAt
<1> QED BY <1>3, <1>5, <1>7 DEF u

\* The places of a word, from one place on and up to one.
Places(t, w) == {k \in 0 .. Len(t) - Len(w) : IsAt(w, t, k)}

LEMMA PlacesAre ==
  ASSUME NEW t \in Text, NEW w \in Text, NEW k
  PROVE  /\ k \in Places(t, w) <=> k \in 0 .. Len(t) /\ IsAt(w, t, k)
         /\ Places(t, w) \subseteq Nat
<1>1. Len(t) \in Nat /\ Len(w) \in Nat
  BY TextIs
<1>2. \A j \in Int : IsAt(w, t, j) => j + Len(w) <= Len(t)
  BY DEF IsAt
<1> QED BY <1>1, <1>2 DEF Places

LEMMA IndexOfIs ==
  ASSUME NEW s, NEW t, Holds(s, t), NEW w \in Text, w # <<>>, NEW i \in 0 .. Len(t)
  PROVE  LET S == {k \in Places(t, w) : k >= i} IN
         IndexOf(s, w, i) = IF S = {} THEN -1 ELSE Min(S)
<1> DEFINE S == {k \in Places(t, w) : k >= i}
           at == IndexOf(s, w, i)
<1>1. t \in Text /\ Len(t) \in Nat /\ s.len = Len(t) /\ i \in Nat /\ i <= Len(t)
  BY HeldIs
<1>2. S \in SUBSET Nat /\ \A k : k \in S <=> k \in i .. Len(t) /\ IsAt(w, t, k)
  BY <1>1, PlacesAre
<1>3. Len(w) \in Nat /\ Len(w) # 0
  BY EmptySeq, TextIs DEF Text
<1>4. CASE i >= Len(t)
  <2>1. at = -1
    BY <1>1, <1>4 DEF IndexOf
  <2>2. \A k \in i .. Len(t) : ~IsAt(w, t, k)
    BY <1>1, <1>3, <1>4 DEF IsAt
  <2>3. S = {}
    BY <2>2, <1>2
  <2> QED BY <2>1, <2>3
<1>5. CASE ~(i >= Len(t))
  <2>1. at = Strstr(s.buf, i, w)
    BY <1>1, <1>5 DEF IndexOf
  <2>2. Full(s, t)
    <3>1. t # <<>>
      BY <1>1, <1>5, EmptyText
    <3> QED BY <3>1 DEF Holds
  <2>3. Buffer(s.buf, s.cap) /\ Len(t) <= s.cap
    BY <2>2 DEF Full, Valid
  <2>4. Has(s.buf, i, SubSeq(t, i + 1, Len(t)))
    BY <2>2, <1>1, RestText
  <2> HIDE DEF at, S
  <2>5. \/ at = -1 /\ \A k \in i .. Len(t) : ~IsAt(w, t, k)
        \/ /\ at \in i .. Len(t) /\ IsAt(w, t, at)
           /\ \A k \in i .. at - 1 : ~IsAt(w, t, k)
    BY <2>1, <2>3, <2>4, <1>1, StrstrIs
  <2>6. CASE at = -1 /\ \A k \in i .. Len(t) : ~IsAt(w, t, k)
    <3>1. S = {}
      BY <2>6, <1>2
    <3> QED BY <2>6, <3>1, <1>2, FirstOfIs DEF at, S
  <2>7. CASE /\ at \in i .. Len(t) /\ IsAt(w, t, at)
             /\ \A k \in i .. at - 1 : ~IsAt(w, t, k)
    <3>1. at \in S
      BY <2>7, <1>2
    <3>2. ASSUME NEW k \in S PROVE at <= k
      <4>1. k \in i .. Len(t) /\ IsAt(w, t, k)
        BY <1>2
      <4>2. k \notin i .. at - 1
        BY <4>1, <2>7
      <4> QED BY <4>1, <4>2, <2>7, <1>1
    <3> QED BY <3>1, <3>2, <1>2, FirstOfIs DEF at, S
  <2> QED BY <2>5, <2>6, <2>7
<1> QED BY <1>4, <1>5

LEMMA LastIndexOfIs ==
  ASSUME NEW s, NEW t, Holds(s, t), NEW w \in Text, w # <<>>, NEW i \in 0 .. Len(t)
  PROVE  LET S == {k \in Places(t, w) : k <= i} IN
         LastIndexOf(s, w, i) = IF S = {} THEN -1 ELSE Max(S)
<1> DEFINE S == {k \in Places(t, w) : k <= i}
           at == LastIndexOf(s, w, i)
<1>1. t \in Text /\ Len(t) \in Nat /\ s.len = Len(t) /\ i \in Nat /\ i <= Len(t)
  BY HeldIs
<1>2. S \in SUBSET Nat /\ \A k : k \in S <=> k \in 0 .. i /\ IsAt(w, t, k)
  BY <1>1, PlacesAre
<1>3. Len(w) \in Nat /\ Len(w) # 0
  BY EmptySeq, TextIs DEF Text
<1>4. CASE Len(t) = 0
  <2>1. at = -1
    BY <1>1, <1>4 DEF LastIndexOf
  <2>2. \A k \in 0 .. i : ~IsAt(w, t, k)
    BY <1>1, <1>3, <1>4 DEF IsAt
  <2>3. S = {}
    BY <2>2, <1>2
  <2> QED BY <2>1, <2>3
<1>5. CASE Len(t) # 0
  <2> DEFINE c == IF i < Len(t) THEN i + 1 ELSE Len(t)
             j == c - 1
  <2>1. Full(s, t)
    <3>1. t # <<>>
      BY <1>1, <1>5, EmptyText
    <3> QED BY <3>1 DEF Holds
  <2>2. c \in 1 .. Len(t) /\ j = c - 1 /\ j \in Int
    BY <1>1, <1>5
  <2>3. at = LastIndexOf(s, w, j)
    <3> DEFINE l == Len(t) - 1
    <3>1. l = s.len - 1 /\ l \in Int /\ j \in Int /\ j <= l /\ j = (IF i <= l THEN i ELSE l)
      BY <1>1, <1>5
    <3>2. Min({i, s.len - 1}) = Min({j, s.len - 1})
      <4> HIDE DEF l, j, c
      <4>1. Min({i, l}) = j /\ Min({j, l}) = j
        BY <3>1, <1>1, MinOfTwo
      <4> QED BY <4>1, <3>1
    <3> HIDE DEF j, c, l
    <3> QED BY <3>2 DEF LastIndexOf
  <2>4. \/ LastIndexOf(s, w, j) = -1 /\ \A k \in 0 .. c - 1 : ~IsAt(w, t, k)
        \/ /\ LastIndexOf(s, w, j) \in 0 .. c - 1 /\ IsAt(w, t, LastIndexOf(s, w, j))
           /\ \A k \in LastIndexOf(s, w, j) + 1 .. c - 1 : ~IsAt(w, t, k)
    <3> HIDE DEF c, j
    <3> QED BY <2>1, <2>2, <1>1, LastIs
  <2>5. \A k \in 0 .. i : IsAt(w, t, k) => k \in 0 .. c - 1
    BY <1>1, <1>3, <1>5 DEF IsAt
  <2>6. \A k \in 0 .. c - 1 : k \in 0 .. i
    BY <1>1
  <2> HIDE DEF at, S, c, j
  <2>7. \/ at = -1 /\ \A k \in 0 .. c - 1 : ~IsAt(w, t, k)
        \/ /\ at \in 0 .. c - 1 /\ IsAt(w, t, at)
           /\ \A k \in at + 1 .. c - 1 : ~IsAt(w, t, k)
    BY <2>3, <2>4
  <2>8. CASE at = -1 /\ \A k \in 0 .. c - 1 : ~IsAt(w, t, k)
    <3>1. S = {}
      BY <2>8, <2>5, <1>2
    <3> QED BY <2>8, <3>1, <1>2, LastOfIs DEF at, S
  <2>9. CASE /\ at \in 0 .. c - 1 /\ IsAt(w, t, at)
             /\ \A k \in at + 1 .. c - 1 : ~IsAt(w, t, k)
    <3>1. at \in S
      BY <2>9, <2>6, <1>2
    <3>2. ASSUME NEW k \in S PROVE k <= at
      <4>1. k \in 0 .. c - 1 /\ IsAt(w, t, k)
        BY <1>2, <2>5
      <4>2. k \notin at + 1 .. c - 1
        BY <4>1, <2>9
      <4> QED BY <4>1, <4>2, <2>9, <2>2
    <3> QED BY <3>1, <3>2, <1>2, LastOfIs DEF at, S
  <2> QED BY <2>7, <2>8, <2>9
<1> QED BY <1>4, <1>5

\* A character is a word of its own.
LEMMA LetterIs ==
  ASSUME NEW t \in Text, NEW c \in Char
  PROVE  /\ <<c>> \in Text /\ Len(<<c>>) = 1 /\ <<c>> # <<>>
         /\ \A k \in Nat : IsAt(<<c>>, t, k) <=> k + 1 <= Len(t) /\ t[k + 1] = c
<1> DEFINE w == <<c>>
<1>1. w \in Text /\ Len(w) = 1 /\ w[1] = c /\ w # <<>>
  BY DEF Text
<1> HIDE DEF w
<1>2. ASSUME NEW k \in Nat PROVE IsAt(w, t, k) <=> k + 1 <= Len(t) /\ t[k + 1] = c
  <2>1. IsAt(w, t, k) <=> k + Len(w) <= Len(t) /\ \A j \in 1 .. Len(w) : t[k + j] = w[j]
    BY <1>1, IsAtIs
  <2>2. \A j \in 1 .. Len(w) : j = 1
    BY <1>1
  <2>3. (\A j \in 1 .. Len(w) : t[k + j] = w[j]) <=> t[k + 1] = c
    BY <1>1, <2>2
  <2> QED BY <2>1, <2>3, <1>1
<1> QED BY <1>1, <1>2 DEF w

LEMMA IndexOfCharIs ==
  ASSUME NEW s, NEW t, Holds(s, t), NEW c \in Char, NEW i \in 0 .. Len(t)
  PROVE  LET S == {k \in Places(t, <<c>>) : k >= i} IN
         IndexOfChar(s, c, i) = IF S = {} THEN -1 ELSE Min(S)
<1>1. t \in Text
  BY HeldIs
<1>2. <<c>> \in Text /\ <<c>> # <<>>
  BY <1>1, LetterIs
<1> DEFINE w == <<c>>
<1>3. w \in Text /\ w # <<>> /\ IndexOfChar(s, c, i) = IndexOf(s, w, i)
  BY <1>2 DEF IndexOfChar
<1> HIDE DEF w
<1>4. LET S == {k \in Places(t, w) : k >= i} IN
      IndexOf(s, w, i) = IF S = {} THEN -1 ELSE Min(S)
  BY <1>3, IndexOfIs
<1> QED BY <1>3, <1>4 DEF w

LEMMA LastIndexOfCharIs ==
  ASSUME NEW s, NEW t, Holds(s, t), NEW c \in Char, NEW i \in 0 .. Len(t) - 1
  PROVE  LET S == {k \in Places(t, <<c>>) : k <= i} IN
         LastIndexOfChar(s, c, i) = IF S = {} THEN -1 ELSE Max(S)
<1> DEFINE S == {k \in Places(t, <<c>>) : k <= i}
           at == LastIndexOfChar(s, c, i)
           cut == [s.buf EXCEPT ![i + 1] = NUL]
           found == {p \in 0 .. i : t[p + 1] = c}
           u == SubSeq(t, 1, i + 1)
<1>1. t \in Text /\ Len(t) \in Nat /\ s.len = Len(t) /\ i \in Nat /\ i + 1 <= Len(t)
  BY HeldIs
<1>2. Full(s, t)
  <2>1. t # <<>>
    BY <1>1, EmptyText
  <2> QED BY <2>1 DEF Holds
<1>3. Buffer(s.buf, s.cap) /\ s.cap \in Nat /\ Len(t) <= s.cap /\ DOMAIN s.buf = 0 .. s.cap /\ Has(s.buf, 0, t)
  BY <1>2, ValidIs DEF Full, Valid
<1>4. u \in Text /\ Len(u) = i + 1 /\ \A k \in 1 .. i + 1 : u[k] = t[k]
  <2>1. 0 \in 0 .. Len(t) /\ i + 1 \in 0 .. Len(t)
    BY <1>1
  <2> DEFINE n == i + 1
  <2> HIDE DEF n
  <2>2. SubSeq(t, 0 + 1, n) \in Text /\ Len(SubSeq(t, 0 + 1, n)) = n - 0
        /\ \A k \in 1 .. n - 0 : SubSeq(t, 0 + 1, n)[k] = t[0 + k]
    BY <2>1, <1>1, RestIs DEF n
  <2>3. 0 + 1 = 1 /\ n - 0 = n /\ n \in Nat
    BY <1>1 DEF n
  <2>4. \A k \in 1 .. n : 0 + k = k
    OBVIOUS
  <2> QED BY <2>2, <2>3, <2>4 DEF n
<1>5. /\ \A k \in 0 .. s.cap : cut[k] = IF k = i + 1 THEN NUL ELSE s.buf[k]
      /\ cut = [k \in 0 .. s.cap |-> IF k = i + 1 THEN NUL ELSE s.buf[k]]
  <2> DEFINE b == s.buf
             n == i + 1
  <2>1. DOMAIN b = 0 .. s.cap
    BY <1>3
  <2> HIDE DEF b, n
  <2>2. [b EXCEPT ![n] = NUL] = [k \in 0 .. s.cap |-> IF k = n THEN NUL ELSE b[k]]
    BY <2>1
  <2> QED BY <2>2 DEF b, n
<1>6. Buffer(cut, s.cap)
  <2>1. NUL \in Cell
    BY DEF Cell
  <2> QED BY <2>1, <1>3, <1>5 DEF Buffer
<1>7. \A k \in 0 .. i : cut[k] = t[k + 1]
  <2> SUFFICES ASSUME NEW k \in 0 .. i PROVE cut[k] = t[k + 1]
    OBVIOUS
  <2> DEFINE j == k + 1
  <2>1. k # i + 1 /\ k \in 0 .. s.cap /\ j \in 1 .. Len(t) /\ 0 + j - 1 = k
    BY <1>1, <1>3
  <2>2. s.buf[0 + j - 1] = t[j]
    <3> HIDE DEF j
    <3> QED BY <2>1, <1>3 DEF Has, Starts
  <2> HIDE DEF cut
  <2> QED BY <2>1, <2>2, <1>5
<1> HIDE DEF u, cut
<1>8. Has(cut, 0, u)
  <2>1. cut[0 + Len(u)] = NUL
    BY <1>1, <1>3, <1>4, <1>5
  <2>2. ASSUME NEW k \in 1 .. Len(u) PROVE cut[0 + k - 1] = u[k]
    <3> DEFINE j == k - 1
    <3>1. j \in 0 .. i /\ 0 + k - 1 = j /\ j + 1 = k /\ k \in 1 .. i + 1
      BY <1>1, <1>4
    <3> HIDE DEF j
    <3>2. cut[j] = t[j + 1] /\ u[k] = t[k]
      BY <3>1, <1>7, <1>4
    <3> QED BY <3>1, <3>2
  <2> QED BY <2>1, <2>2 DEF Has, Starts
<1>9. Strlen(cut, 0) = i + 1
  <2>1. 0 + Len(u) <= s.cap /\ 0 \in Nat
    BY <1>1, <1>3, <1>4
  <2>2. Strlen(cut, 0) = Len(u)
    BY <2>1, <1>4, <1>6, <1>8, TextAt
  <2> QED BY <2>2, <1>4
<1>10. at = Max({-1} \cup found)
  <2>1. at = Max({-1} \cup {p \in 0 .. Strlen(cut, 0) - 1 : cut[p] = c})
    BY <1>1 DEF LastIndexOfChar, cut
  <2>2. Strlen(cut, 0) - 1 = i
    BY <1>1, <1>9
  <2>3. {p \in 0 .. Strlen(cut, 0) - 1 : cut[p] = c} = found
    BY <2>2, <1>7
  <2> QED BY <2>1, <2>3
<1>11. S = found /\ S \in SUBSET Nat
  <2>1. \A k : k \in S <=> k \in 0 .. Len(t) /\ IsAt(<<c>>, t, k) /\ k <= i
    BY <1>1, PlacesAre, LetterIs
  <2>2. \A k \in Nat : IsAt(<<c>>, t, k) <=> k + 1 <= Len(t) /\ t[k + 1] = c
    BY <1>1, LetterIs
  <2>3. \A k : k \in S <=> k \in 0 .. i /\ t[k + 1] = c
    <3> HIDE DEF S
    <3> QED BY <2>1, <2>2, <1>1
  <2> HIDE DEF S
  <2>4. \A k : k \in S <=> k \in found
    BY <2>3
  <2> HIDE DEF found
  <2>5. S = found
    BY <2>4
  <2> QED BY <2>5 DEF found
<1> HIDE DEF at, S
<1>12. CASE found = {}
  <2> DEFINE T == {-1}
  <2>1. T \in SUBSET Int /\ -1 \in T /\ \A y \in T : y <= -1
    OBVIOUS
  <2>2. {-1} \cup found = T
    BY <1>12
  <2> HIDE DEF T
  <2>3. Max(T) = -1
    BY <2>1, GreatestIs
  <2> QED BY <2>2, <2>3, <1>10, <1>11, <1>12 DEF at, S
<1>13. CASE found # {}
  <2> DEFINE T == {-1} \cup found
             m == Max(found)
  <2>1. m \in found /\ \A y \in found : y <= m
    <3>1. found \in SUBSET Nat /\ \A k \in found : k <= i
      BY <1>1
    <3> HIDE DEF found
    <3> QED BY <3>1, <1>1, <1>13, MaxFinds
  <2>2. T \in SUBSET Int /\ found \in SUBSET Nat
    BY <1>1
  <2> HIDE DEF m, found
  <2>3. m \in T /\ \A y \in T : y <= m
    BY <2>1, <2>2
  <2> HIDE DEF T
  <2>4. Max(T) = m
    BY <2>2, <2>3, GreatestIs
  <2> QED BY <2>4, <1>10, <1>11, <1>13 DEF T, m, at, S
<1> QED BY <1>12, <1>13

LEMMA CharAtIs ==
  ASSUME NEW s, NEW t, Holds(s, t), NEW i \in Nat
  PROVE  CharAt(s, i) = IF i < Len(t) THEN t[i + 1] ELSE NUL
<1>1. t \in Text /\ Len(t) \in Nat /\ s.len = Len(t)
  BY HeldIs
<1>2. CASE i < Len(t)
  <2>1. Full(s, t) /\ ~IsInvalid(s)
    <3>1. t # <<>>
      BY <1>1, <1>2, EmptyText
    <3> QED BY <3>1, ValidIs DEF Holds, Full
  <2> DEFINE j == i + 1
  <2>2. j \in 1 .. Len(t) /\ 0 + j - 1 = i
    BY <1>1, <1>2
  <2>3. s.buf[0 + j - 1] = t[j]
    <3> HIDE DEF j
    <3> QED BY <2>1, <2>2 DEF Full, Has, Starts
  <2>4. s.buf[i] = t[i + 1]
    BY <2>2, <2>3
  <2> QED BY <2>1, <2>4, <1>1, <1>2 DEF CharAt
<1>3. CASE ~(i < Len(t))
  BY <1>1, <1>3 DEF CharAt
<1> QED BY <1>2, <1>3

LEMMA GetBytesIs ==
  ASSUME NEW s, NEW t, Holds(s, t), NEW i \in Nat, NEW size \in Nat \ {0}
  PROVE  GetBytes(s, size, i) = Append(SubSeq(t, i + 1, Min({i + size - 1, Len(t)})), NUL)
<1>1. t \in Text /\ Len(t) \in Nat /\ s.len = Len(t)
  BY HeldIs
<1> DEFINE l == Len(t)
           g == i + size - 1
<1>2. g \in Int /\ l \in Int /\ Min({i + size - 1, Len(t)}) = Min({g, l})
  BY <1>1
<1>3. CASE i >= Len(t)
  <2>1. Min({g, l}) = l
    <3>1. g >= l
      BY <1>1, <1>3
    <3> HIDE DEF g, l
    <3>2. Min({g, l}) = IF g <= l THEN g ELSE l
      BY <1>2, MinOfTwo
    <3> QED BY <3>1, <3>2, <1>2
  <2>2. SubSeq(t, i + 1, l) = <<>>
    <3> DEFINE f == i + 1
    <3>1. f \in Int /\ l \in Int /\ f > l
      BY <1>1, <1>3
    <3> HIDE DEF f, l
    <3> QED BY <3>1, <1>1, SubSeqEmpty DEF f
  <2>3. Append(<<>>, NUL) = <<NUL>>
    OBVIOUS
  <2>4. GetBytes(s, size, i) = <<NUL>>
    BY <1>1, <1>3 DEF GetBytes
  <2> QED BY <2>1, <2>2, <2>3, <2>4
<1>4. CASE ~(i >= Len(t))
  <2> DEFINE z == size - 1
             d == Len(t) - i
             n == IF z <= d THEN z ELSE d
  <2>1. Full(s, t)
    <3>1. t # <<>>
      BY <1>1, <1>4, EmptyText
    <3> QED BY <3>1 DEF Holds
  <2>2. z \in Int /\ d \in Int /\ i \in 0 .. Len(t) /\ n \in 0 .. Len(t) - i /\ n \in Nat /\ n <= d
    BY <1>1, <1>4
  <2>3. Min({size - 1, s.len - i}) = n
    <3>1. s.len - i = d
      BY <1>1
    <3> HIDE DEF d, z
    <3>2. Min({z, d}) = n
      BY <2>2, MinOfTwo
    <3> QED BY <3>1, <3>2 DEF z
  <2>4. Min({g, l}) = i + n
    <3>1. (IF g <= l THEN g ELSE l) = i + n
      BY <1>1, <1>4
    <3> HIDE DEF g, l, n
    <3> QED BY <3>1, <1>2, MinOfTwo
  <2>5. GetBytes(s, size, i) = Append(Strncpy(s.buf, i, n), NUL)
    <3> HIDE DEF n
    <3> QED BY <2>3, <1>1, <1>4 DEF GetBytes
  <2>6. Strncpy(s.buf, i, n) = Cells(s.buf, i, n)
    <3>1. Strlen(s.buf, i) = d
      BY <2>1, <2>2, <1>1, RestText
    <3>2. \A k \in 1 .. n : k <= d
      BY <2>2
    <3> HIDE DEF n, d
    <3> QED BY <3>1, <3>2 DEF Strncpy, Cells
  <2>7. Cells(s.buf, i, n) = SubSeq(t, i + 1, i + n)
    <3>1. Has(s.buf, 0, t)
      BY <2>1 DEF Full
    <3> HIDE DEF n
    <3> QED BY <3>1, <2>2, <1>1, CellsAre
  <2> QED BY <2>4, <2>5, <2>6, <2>7
<1> QED BY <1>3, <1>4

(***************************************************************************)
(* The comparisons: strcmp() finds the first place where two texts differ, *)
(* and orders them by it.                                                  *)
(***************************************************************************)

\* What strcmp() compares: the code of a character, 0 for the terminator.
Code(u, k) == IF k <= Len(u) THEN Rank[u[k]] ELSE 0
Differ(t, w) == {k \in 1 .. Max({Len(t), Len(w)}) : Code(t, k) # Code(w, k)}

LEMMA CodesAre ==
  ASSUME NEW t \in Text, NEW k \in Nat \ {0}
  PROVE  /\ Code(t, k) \in 0 .. 255
         /\ Code(t, k) = 0 <=> k > Len(t)
         /\ \A w \in Text : k <= Len(t) /\ k <= Len(w) => (Code(t, k) = Code(w, k) <=> t[k] = w[k])
<1>1. Len(t) \in Nat /\ \A j \in 1 .. Len(t) : t[j] \in Char
  BY TextIs
<1>2. \A c \in Char : Rank[c] \in 1 .. 255
  BY RankAssumption
<1>3. CASE k > Len(t)
  BY <1>1, <1>3 DEF Code
<1>4. CASE ~(k > Len(t))
  <2>1. k \in 1 .. Len(t)
    BY <1>1, <1>4
  <2>2. t[k] \in Char /\ Code(t, k) = Rank[t[k]]
    BY <2>1, <1>1, <1>4 DEF Code
  <2>3. Rank[t[k]] \in 1 .. 255
    BY <2>2, <1>2
  <2>4. ASSUME NEW w \in Text, k <= Len(w) PROVE Code(t, k) = Code(w, k) <=> t[k] = w[k]
    <3>1. k \in 1 .. Len(w)
      BY <2>4, TextIs
    <3>2. w[k] \in Char /\ Code(w, k) = Rank[w[k]]
      BY <3>1, <2>4, TextIs DEF Code
    <3> QED BY <3>2, <2>2, RankAssumption
  <2> DEFINE x == Code(t, k)
  <2>5. x \in 1 .. 255
    BY <2>2, <2>3
  <2> HIDE DEF x
  <2>6. x \in 0 .. 255 /\ x # 0
    BY <2>5
  <2> QED BY <2>4, <2>6, <1>4 DEF x
<1> QED BY <1>3, <1>4

LEMMA StrcmpIs ==
  ASSUME NEW t \in Text, NEW w \in Text
  PROVE  Strcmp(t, w) =
           LET S == Differ(t, w) IN IF S = {} THEN 0 ELSE Code(t, Min(S)) - Code(w, Min(S))
BY DEF Strcmp, Differ, Code

\* Where the first difference is, and what it says of the order.
LEMMA DifferIs ==
  ASSUME NEW t \in Text, NEW w \in Text
  PROVE  /\ Differ(t, w) \in SUBSET (Nat \ {0})
         /\ \A k \in Nat \ {0} : k \notin Differ(t, w) => Code(t, k) = Code(w, k)
<1> DEFINE a == Len(t)
           b == Len(w)
           m == IF a >= b THEN a ELSE b
<1>1. a \in Nat /\ b \in Nat
  BY TextIs
<1>2. Max({a, b}) = m
  <2> HIDE DEF a, b
  <2> QED BY <1>1, MaxOfTwo
<1>3. Differ(t, w) = {k \in 1 .. m : Code(t, k) # Code(w, k)}
  BY <1>2 DEF Differ
<1>4. \A k \in Nat \ {0} : k \notin 1 .. m => Code(t, k) = 0 /\ Code(w, k) = 0
  <2> SUFFICES ASSUME NEW k \in Nat \ {0}, k \notin 1 .. m PROVE Code(t, k) = 0 /\ Code(w, k) = 0
    OBVIOUS
  <2>1. k > a /\ k > b
    BY <1>1
  <2> QED BY <2>1, CodesAre
<1> HIDE DEF m
<1> QED BY <1>3, <1>4

LEMMA SameText ==
  ASSUME NEW t \in Text, NEW w \in Text, \A k \in Nat \ {0} : Code(t, k) = Code(w, k)
  PROVE  t = w
<1>1. /\ Len(t) \in Nat /\ t = [k \in 1 .. Len(t) |-> t[k]]
      /\ Len(w) \in Nat /\ w = [k \in 1 .. Len(w) |-> w[k]]
  BY TextIs
<1>2. Len(t) = Len(w)
  <2> DEFINE a == Len(t) + 1
             b == Len(w) + 1
  <2>1. a \in Nat \ {0} /\ b \in Nat \ {0}
    BY <1>1
  <2>2. /\ Code(t, a) = Code(w, a) /\ Code(t, b) = Code(w, b)
        /\ Code(t, a) = 0 <=> a > Len(t)
        /\ Code(w, a) = 0 <=> a > Len(w)
        /\ Code(t, b) = 0 <=> b > Len(t)
        /\ Code(w, b) = 0 <=> b > Len(w)
    <3> HIDE DEF a, b
    <3> QED BY <2>1, CodesAre
  <2>3. a > Len(t) /\ b > Len(w)
    BY <1>1
  <2>4. a > Len(w) /\ b > Len(t)
    <3> HIDE DEF a, b
    <3> QED BY <2>2, <2>3
  <2> DEFINE m == Len(t)
             n == Len(w)
  <2>5. m \in Nat /\ n \in Nat /\ m + 1 > n /\ n + 1 > m
    BY <2>4, <1>1
  <2> HIDE DEF m, n
  <2>6. m = n
    BY ONLY <2>5
  <2> QED BY <2>6 DEF m, n
<1>3. ASSUME NEW k \in 1 .. Len(t) PROVE t[k] = w[k]
  <2>1. k \in Nat \ {0} /\ k <= Len(t) /\ k <= Len(w)
    BY <1>1, <1>2
  <2> QED BY <2>1, CodesAre
<1> QED BY <1>1, <1>2, <1>3

\* The part of a text in front of a place, character by character.
LEMMA FrontsEqual ==
  ASSUME NEW t \in Text, NEW w \in Text, NEW n \in Nat, n <= Len(t), n <= Len(w)
  PROVE  SubSeq(t, 1, n) = SubSeq(w, 1, n) <=> \A k \in 1 .. n : t[k] = w[k]
<1>1. ASSUME NEW u \in Text, n <= Len(u)
      PROVE  SubSeq(u, 1, n) \in Text /\ Len(SubSeq(u, 1, n)) = n /\ \A k \in 1 .. n : SubSeq(u, 1, n)[k] = u[k]
  <2>1. Len(u) \in Nat /\ 0 \in 0 .. Len(u) /\ n \in 0 .. Len(u) /\ 0 + 1 = 1 /\ n - 0 = n
        /\ \A k \in 1 .. n : 0 + k = k
    BY <1>1, TextIs
  <2>2. SubSeq(u, 0 + 1, n) \in Text /\ Len(SubSeq(u, 0 + 1, n)) = n - 0
        /\ \A k \in 1 .. n - 0 : SubSeq(u, 0 + 1, n)[k] = u[0 + k]
    BY <1>1, <2>1, RestIs
  <2> QED BY <2>1, <2>2
<1> DEFINE x == SubSeq(t, 1, n)
           y == SubSeq(w, 1, n)
<1>2. /\ x \in Text /\ Len(x) = n /\ \A k \in 1 .. n : x[k] = t[k]
      /\ y \in Text /\ Len(y) = n /\ \A k \in 1 .. n : y[k] = w[k]
  BY <1>1
<1> HIDE DEF x, y
<1>3. x = [k \in 1 .. n |-> x[k]] /\ y = [k \in 1 .. n |-> y[k]]
  BY <1>2, TextIs
<1>4. x = y <=> \A k \in 1 .. n : t[k] = w[k]
  BY <1>2, <1>3
<1> QED BY <1>4 DEF x, y

LEMMA PrefixIs ==
  ASSUME NEW u \in Text, NEW t \in Text
  PROVE  /\ IsPrefix(u, t) <=> Len(u) <= Len(t) /\ \A k \in 1 .. Len(u) : u[k] = t[k]
         /\ IsPrefix(u, t) <=> IsAt(u, t, 0)
<1>1. Len(u) \in Nat /\ Len(t) \in Nat
  BY TextIs
<1>2. IsPrefix(u, t) <=> Len(u) <= Len(t) /\ \A k \in 1 .. Len(u) : u[k] = t[k]
  <2>1. CASE Len(u) <= Len(t)
    <3>1. SubSeq(u, 1, Len(u)) = SubSeq(t, 1, Len(u)) <=> \A k \in 1 .. Len(u) : u[k] = t[k]
      BY <1>1, <2>1, FrontsEqual
    <3> QED BY <3>1, <2>1 DEF IsPrefix
  <2>2. CASE ~(Len(u) <= Len(t))
    BY <2>2 DEF IsPrefix
  <2> QED BY <2>1, <2>2
<1>3. IsAt(u, t, 0) <=> 0 + Len(u) <= Len(t) /\ \A k \in 1 .. Len(u) : t[0 + k] = u[k]
  BY IsAtIs
<1>4. 0 + Len(u) = Len(u) /\ \A k \in 1 .. Len(u) : 0 + k = k
  BY <1>1
<1>5. IsAt(u, t, 0) <=> Len(u) <= Len(t) /\ \A k \in 1 .. Len(u) : t[k] = u[k]
  BY <1>3, <1>4
<1> QED BY <1>2, <1>5

LEMMA FirstDiffers ==
  ASSUME NEW t \in Text, NEW w \in Text, NEW d \in Nat \ {0}, Code(t, d) < Code(w, d),
         \A k \in 1 .. d - 1 : Code(t, k) = Code(w, k)
  PROVE  Before(t, w) /\ ~Before(w, t) /\ t # w
<1>1. Len(t) \in Nat /\ Len(w) \in Nat /\ DOMAIN t = 1 .. Len(t) /\ DOMAIN w = 1 .. Len(w)
  BY TextIs
<1>2. Code(t, d) \in 0 .. 255 /\ Code(w, d) \in 0 .. 255 /\ Code(w, d) # 0
  <2>1. Code(t, d) \in 0 .. 255 /\ Code(w, d) \in 0 .. 255
    BY CodesAre
  <2> QED BY <2>1
<1>3. d <= Len(w)
  <2>1. Code(w, d) = 0 <=> d > Len(w)
    BY CodesAre
  <2> QED BY <2>1, <1>1, <1>2
<1>4. \A k \in 1 .. d - 1 : k <= Len(t) /\ k <= Len(w) /\ t[k] = w[k]
  <2> SUFFICES ASSUME NEW k \in 1 .. d - 1 PROVE k <= Len(t) /\ k <= Len(w) /\ t[k] = w[k]
    OBVIOUS
  <2>1. k \in Nat \ {0} /\ k <= Len(w)
    BY <1>1, <1>3
  <2>2. /\ Code(t, k) = 0 <=> k > Len(t)
        /\ Code(w, k) = 0 <=> k > Len(w)
        /\ Code(t, k) = Code(w, k)
    BY <2>1, CodesAre
  <2>3. k <= Len(t)
    BY <2>1, <2>2, <1>1
  <2>4. t[k] = w[k]
    BY <2>1, <2>2, <2>3, CodesAre
  <2> QED BY <2>1, <2>3, <2>4
<1>5. t # w
  <2> DEFINE x == Code(t, d)
             y == Code(w, d)
  <2>1. x \in Int /\ y \in Int /\ x < y
    BY <1>2
  <2> HIDE DEF x, y
  <2>2. x # y
    BY <2>1
  <2> QED BY <2>2 DEF x, y
<1>6. Before(t, w)
  <2>1. CASE d <= Len(t)
    <3>1. d \in DOMAIN t \cap DOMAIN w
      BY <1>1, <1>3, <2>1
    <3>2. Rank[t[d]] < Rank[w[d]]
      BY <1>3, <2>1 DEF Code
    <3> DEFINE n == d - 1
    <3>3. n \in Nat /\ n <= Len(t) /\ n <= Len(w) /\ \A k \in 1 .. n : t[k] = w[k]
      BY <1>1, <1>3, <1>4, <2>1
    <3> HIDE DEF n
    <3>4. SubSeq(t, 1, n) = SubSeq(w, 1, n)
      BY <3>3, FrontsEqual
    <3> QED BY <3>1, <3>2, <3>4 DEF n, Before
  <2>2. CASE ~(d <= Len(t))
    <3>1. d - 1 <= Len(t) /\ Len(t) <= d - 1
      <4>1. CASE d = 1
        BY <4>1, <1>1, <2>2
      <4>2. CASE d # 1
        <5>1. d - 1 \in 1 .. d - 1
          BY <4>2
        <5> QED BY <5>1, <1>1, <1>4, <2>2
      <4> QED BY <4>1, <4>2
    <3>2. Len(t) <= Len(w) /\ \A k \in 1 .. Len(t) : t[k] = w[k]
      BY <3>1, <1>1, <1>3, <1>4
    <3>3. IsPrefix(t, w)
      BY <3>2, PrefixIs
    <3> QED BY <3>3, <1>5 DEF Before, IsStrictPrefix
  <2> QED BY <2>1, <2>2
<1>7. ~IsPrefix(w, t)
  <2> SUFFICES ASSUME IsPrefix(w, t) PROVE FALSE
    OBVIOUS
  <2>1. Len(w) <= Len(t) /\ \A k \in 1 .. Len(w) : w[k] = t[k]
    BY PrefixIs
  <2>2. d <= Len(t) /\ d \in 1 .. Len(w)
    BY <2>1, <1>1, <1>3
  <2>3. Code(t, d) = Code(w, d)
    BY <2>1, <2>2, <1>3 DEF Code
  <2> QED BY <2>3, <1>2
<1>8. ASSUME NEW k \in DOMAIN w \cap DOMAIN t, Rank[w[k]] < Rank[t[k]],
             SubSeq(w, 1, k - 1) = SubSeq(t, 1, k - 1)
      PROVE  FALSE
  <2>1. k \in Nat \ {0} /\ k <= Len(t) /\ k <= Len(w)
    BY <1>1
  <2>2. Code(w, k) < Code(t, k) /\ Code(w, k) \in 0 .. 255 /\ Code(t, k) \in 0 .. 255
    <3>1. Code(w, k) < Code(t, k)
      BY <1>8, <2>1 DEF Code
    <3> QED BY <3>1, <2>1, CodesAre
  <2>3. \A j \in 1 .. k - 1 : w[j] = t[j]
    <3> DEFINE n == k - 1
    <3>1. n \in Nat /\ n <= Len(t) /\ n <= Len(w) /\ SubSeq(w, 1, n) = SubSeq(t, 1, n)
      BY <2>1, <1>1, <1>8
    <3> HIDE DEF n
    <3>2. \A j \in 1 .. n : w[j] = t[j]
      BY <3>1, FrontsEqual
    <3> QED BY <3>2 DEF n
  <2> DEFINE x == Code(t, k)
             y == Code(w, k)
  <2>3a. x \in Int /\ y \in Int /\ y < x
    BY <2>2
  <2>4. CASE k < d
    <3>1. k \in 1 .. d - 1
      BY <2>1, <2>4
    <3>2. x = y
      BY <3>1
    <3> HIDE DEF x, y
    <3> QED BY <3>2, <2>3a
  <2>5. CASE k = d
    <3>1. x < y
      BY <2>5
    <3> HIDE DEF x, y
    <3> QED BY <3>1, <2>3a
  <2>6. CASE k > d
    <3>1. d \in 1 .. k - 1 /\ d <= Len(t)
      BY <2>1, <2>6, <1>1
    <3>2. Code(t, d) = Code(w, d)
      BY <3>1, <2>3, <1>3 DEF Code
    <3> QED BY <3>2, <1>2
  <2> QED BY <2>1, <2>4, <2>5, <2>6
<1>9. ~Before(w, t)
  BY <1>7, <1>8 DEF Before, IsStrictPrefix
<1> QED BY <1>5, <1>6, <1>9

LEMMA NotBeforeItself ==
  ASSUME NEW t \in Text
  PROVE  ~Before(t, t)
<1>1. DOMAIN t = 1 .. Len(t) /\ \A k \in DOMAIN t : t[k] \in Char
  BY TextIs
<1>2. \A k \in DOMAIN t : Rank[t[k]] \in 1 .. 255
  BY <1>1, RankAssumption
<1>3. \A k \in DOMAIN t : ~(Rank[t[k]] < Rank[t[k]])
  BY <1>2
<1> QED BY <1>3 DEF Before, IsStrictPrefix

\* strcmp() orders as a dictionary does.
LEMMA StrcmpOrders ==
  ASSUME NEW t \in Text, NEW w \in Text
  PROVE  /\ Strcmp(t, w) \in Int
         /\ Strcmp(t, w) = 0 <=> t = w
         /\ Strcmp(t, w) < 0 <=> Before(t, w)
         /\ Strcmp(t, w) > 0 <=> Before(w, t)
<1> DEFINE S == Differ(t, w)
           d == Min(S)
           c == Strcmp(t, w)
<1>1. S \in SUBSET (Nat \ {0}) /\ \A k \in Nat \ {0} : k \notin S => Code(t, k) = Code(w, k)
  BY DifferIs
<1>2. c = IF S = {} THEN 0 ELSE Code(t, d) - Code(w, d)
  BY StrcmpIs
<1> HIDE DEF c
<1>3. CASE S = {}
  <2>1. t = w
    BY <1>1, <1>3, SameText
  <2>2. c = 0
    BY <1>2, <1>3
  <2> QED BY <2>1, <2>2, NotBeforeItself DEF c
<1>4. CASE S # {}
  <2>1. d \in S /\ \A k \in S : d <= k
    <3>1. S \in SUBSET Nat
      BY <1>1
    <3> HIDE DEF S
    <3> QED BY <3>1, <1>4, MinFinds
  <2>2. Code(t, d) # Code(w, d)
    BY <2>1 DEF Differ
  <2> HIDE DEF S, d
  <2>3. d \in Nat \ {0}
    BY <1>1, <2>1
  <2>4. Code(t, d) \in 0 .. 255 /\ Code(w, d) \in 0 .. 255 /\ c = Code(t, d) - Code(w, d)
    BY <2>3, <1>2, <1>4, CodesAre
  <2>5. \A k \in 1 .. d - 1 : Code(t, k) = Code(w, k) /\ Code(w, k) = Code(t, k)
    <3> SUFFICES ASSUME NEW k \in 1 .. d - 1 PROVE Code(t, k) = Code(w, k)
      OBVIOUS
    <3>1. k \in Nat \ {0} /\ k < d
      BY <2>3
    <3>2. k \notin S
      BY <3>1, <2>1, <2>3
    <3> QED BY <3>1, <3>2, <1>1
  <2> DEFINE x == Code(t, d)
             y == Code(w, d)
  <2>5a. x \in Int /\ y \in Int /\ x # y /\ c = x - y
    BY <2>2, <2>4
  <2>6. CASE Code(t, d) < Code(w, d)
    <3>1. Before(t, w) /\ ~Before(w, t) /\ t # w
      BY <2>3, <2>5, <2>6, FirstDiffers
    <3>2. c \in Int /\ c < 0
      <4>1. x < y
        BY <2>6
      <4> HIDE DEF x, y
      <4> QED BY <4>1, <2>5a
    <3> QED BY <3>1, <3>2 DEF c
  <2>7. CASE ~(Code(t, d) < Code(w, d))
    <3>1. Code(w, d) < Code(t, d)
      <4>1. ~(x < y)
        BY <2>7
      <4> HIDE DEF x, y
      <4>2. y < x
        BY <4>1, <2>5a
      <4> QED BY <4>2 DEF x, y
    <3>2. Before(w, t) /\ ~Before(t, w) /\ w # t
      BY <3>1, <2>3, <2>5, FirstDiffers
    <3>3. c \in Int /\ c > 0
      <4>1. y < x
        BY <3>1
      <4> HIDE DEF x, y
      <4> QED BY <4>1, <2>5a
    <3> QED BY <3>2, <3>3 DEF c
  <2> QED BY <2>6, <2>7
<1> QED BY <1>3, <1>4

\* The empty text comes before every other one.
LEMMA EmptyBefore ==
  ASSUME NEW t \in Text, t # <<>>
  PROVE  Before(<<>>, t) /\ ~Before(t, <<>>)
<1> DEFINE e == <<>>
<1>1. e \in Text /\ Len(e) = 0 /\ DOMAIN e = {} /\ e # t
  BY EmptyText
<1> HIDE DEF e
<1>2. Len(t) \in Nat /\ Len(t) # 0
  BY EmptySeq, TextIs DEF Text
<1>3. IsPrefix(e, t)
  <2>1. Len(e) <= Len(t) /\ \A k \in 1 .. Len(e) : e[k] = t[k]
    BY <1>1, <1>2
  <2> QED BY <2>1, <1>1, PrefixIs
<1>4. ~IsPrefix(t, e)
  <2>1. ~(Len(t) <= Len(e))
    BY <1>1, <1>2
  <2> QED BY <2>1 DEF IsPrefix
<1>5. Before(e, t) /\ ~Before(t, e)
  BY <1>1, <1>3, <1>4 DEF Before, IsStrictPrefix
<1> QED BY <1>5 DEF e

\* compareTo(), also of an object without a buffer.
LEMMA CompareToIs ==
  ASSUME NEW s, NEW t, Holds(s, t), NEW r, NEW w, Holds(r, w)
  PROVE  /\ CompareTo(s, r) \in Int
         /\ CompareTo(s, r) = 0 <=> t = w
         /\ CompareTo(s, r) < 0 <=> Before(t, w)
         /\ CompareTo(s, r) > 0 <=> Before(w, t)
<1> DEFINE c == CompareTo(s, r)
<1>1. /\ t \in Text /\ Len(t) \in Nat /\ s.len = Len(t)
      /\ ~IsInvalid(s) => Full(s, t) /\ CStr(s.buf, 0) = t
      /\ IsInvalid(s) => t = <<>>
      /\ w \in Text /\ Len(w) \in Nat /\ r.len = Len(w)
      /\ ~IsInvalid(r) => Full(r, w) /\ CStr(r.buf, 0) = w
      /\ IsInvalid(r) => w = <<>>
  BY HeldIs
<1>2. ASSUME NEW o, NEW u \in Text, Full(o, u), u # <<>>
      PROVE  Len(u) > 0 /\ Rank[o.buf[0]] \in 1 .. 255
  <2>1. Len(u) \in Nat /\ Len(u) # 0
    BY <1>2, EmptySeq, TextIs DEF Text
  <2>2. 1 \in 1 .. Len(u) /\ 0 + 1 - 1 = 0
    BY <2>1
  <2>3. o.buf[0 + 1 - 1] = u[1] /\ u[1] \in Char
    BY <1>2, <2>2, TextIs DEF Full, Has, Starts
  <2>4. \A x \in Char : Rank[x] \in 1 .. 255
    BY RankAssumption
  <2>5. o.buf[0] = u[1]
    BY <2>2, <2>3
  <2>6. Rank[u[1]] \in 1 .. 255
    BY <2>3, <2>4
  <2> QED BY <2>1, <2>5, <2>6
<1>3. CASE ~IsInvalid(s) /\ ~IsInvalid(r)
  <2>1. c = Strcmp(t, w)
    BY <1>1, <1>3 DEF CompareTo
  <2> HIDE DEF c
  <2>2. c \in Int /\ (c = 0 <=> t = w) /\ (c < 0 <=> Before(t, w)) /\ (c > 0 <=> Before(w, t))
    BY <2>1, <1>1, StrcmpOrders
  <2> QED BY <2>2 DEF c
<1>4. CASE IsInvalid(s) \/ IsInvalid(r)
  <2>1. c = IF ~IsInvalid(r) /\ r.len > 0 THEN -Rank[r.buf[0]]
            ELSE IF ~IsInvalid(s) /\ s.len > 0 THEN Rank[s.buf[0]]
            ELSE 0
    BY <1>4 DEF CompareTo
  <2> HIDE DEF c
  <2>2. CASE t = <<>> /\ w = <<>>
    <3>1. Len(t) = 0 /\ Len(w) = 0
      BY <2>2, EmptyText
    <3>2. c = 0
      BY <2>1, <3>1, <1>1
    <3>3. ~Before(t, w) /\ ~Before(w, t) /\ t = w
      BY <2>2, EmptyText, NotBeforeItself
    <3> QED BY <3>2, <3>3 DEF c
  <2>3. CASE w # <<>>
    <3>1. ~IsInvalid(r) /\ t = <<>>
      BY <2>3, <1>1, <1>4
    <3>2. r.len > 0 /\ Rank[r.buf[0]] \in 1 .. 255
      BY <2>3, <3>1, <1>1, <1>2
    <3> DEFINE x == Rank[r.buf[0]]
    <3>3. c = -x /\ x \in 1 .. 255
      BY <2>1, <3>1, <3>2
    <3> HIDE DEF x
    <3>4. c \in Int /\ c < 0
      BY <3>3
    <3>5. Before(t, w) /\ ~Before(w, t) /\ t # w
      BY <2>3, <3>1, <1>1, EmptyBefore
    <3> QED BY <3>4, <3>5 DEF c
  <2>4. CASE w = <<>> /\ t # <<>>
    <3>1. ~IsInvalid(s)
      BY <2>4, <1>1
    <3>2. s.len > 0 /\ Rank[s.buf[0]] \in 1 .. 255
      BY <2>4, <3>1, <1>1, <1>2
    <3>3. ~(r.len > 0)
      BY <2>4, <1>1, EmptyText
    <3> DEFINE x == Rank[s.buf[0]]
    <3>4. c = x /\ x \in 1 .. 255
      BY <2>1, <3>1, <3>2, <3>3
    <3> HIDE DEF x
    <3>5. c \in Int /\ c > 0
      BY <3>4
    <3>6. Before(w, t) /\ ~Before(t, w) /\ t # w
      BY <2>4, <1>1, EmptyBefore
    <3> QED BY <3>5, <3>6 DEF c
  <2> QED BY <2>2, <2>3, <2>4
<1> QED BY <1>3, <1>4

\* The four operators that compare.
LEMMA OrdersAre ==
  ASSUME NEW s, NEW t, Holds(s, t), NEW r, NEW w, Holds(r, w)
  PROVE  LET less == Before(t, w)
             more == Before(w, t)
         IN Orders(s, r) = [lt |-> less, gt |-> more, le |-> ~more, ge |-> ~less]
<1> DEFINE c == CompareTo(s, r)
           less == Before(t, w)
           more == Before(w, t)
<1>1. c \in Int /\ (c < 0 <=> less) /\ (c > 0 <=> more)
  BY CompareToIs
<1>2. Orders(s, r) = [lt |-> c < 0, gt |-> c > 0, le |-> c <= 0, ge |-> c >= 0]
  BY DEF Orders
<1>3. less \in BOOLEAN /\ more \in BOOLEAN
  BY DEF Before
<1> HIDE DEF c, less, more
<1>4. (c <= 0 <=> ~more) /\ (c >= 0 <=> ~less)
  BY <1>1
<1>5. (c < 0) = less /\ (c > 0) = more /\ (c <= 0) = ~more /\ (c >= 0) = ~less
  BY <1>1, <1>3, <1>4
<1>6. Orders(s, r) = [lt |-> less, gt |-> more, le |-> ~more, ge |-> ~less]
  BY <1>2, <1>5
<1> QED BY <1>6 DEF less, more

\* equals() of another object, and of a text.
LEMMA EqualsIs ==
  ASSUME NEW s, NEW t, Holds(s, t), NEW r, NEW w, Holds(r, w)
  PROVE  Equals(s, r) <=> t = w
<1>1. s.len = Len(t) /\ r.len = Len(w)
  BY HeldIs
<1>2. CompareTo(s, r) = 0 <=> t = w
  BY CompareToIs
<1> QED BY <1>1, <1>2 DEF Equals

LEMMA EqualsTextIs ==
  ASSUME NEW s, NEW t, Holds(s, t), NEW w \in Text
  PROVE  EqualsText(s, w) <=> t = w
<1>1. /\ t \in Text /\ Len(t) \in Nat /\ s.len = Len(t)
      /\ ~IsInvalid(s) => CStr(s.buf, 0) = t
      /\ IsInvalid(s) => t = <<>>
  BY HeldIs
<1>2. w # None
  BY TextIs
<1>3. CASE Len(t) = 0
  <2>1. t = <<>>
    BY <1>1, <1>3, EmptySeq DEF Text
  <2> QED BY <2>1, <1>1, <1>2, <1>3 DEF EqualsText
<1>4. CASE Len(t) # 0
  <2>1. CStr(s.buf, 0) = t
    BY <1>1, <1>4, EmptyText
  <2>2. EqualsText(s, w) <=> Strcmp(t, w) = 0
    BY <2>1, <1>1, <1>2, <1>4 DEF EqualsText
  <2> QED BY <2>2, <1>1, StrcmpOrders
<1> QED BY <1>3, <1>4

LEMMA Word16Is == Word16 \in Nat /\ Word16 # 0
BY DEF Word16

\* startsWith(): the difference of the lengths, as an unsigned int, is right for texts that
\* fit into the memory.
LEMMA StartsWithAtIs ==
  ASSUME NEW s, NEW t, Holds(s, t), NEW r, NEW w, Holds(r, w), ~IsInvalid(s), ~IsInvalid(r),
         Len(t) < Word16, NEW i \in 0 .. Len(t)
  PROVE  StartsWithAt(s, r, i) <=> IsAt(w, t, i)
<1>1. /\ t \in Text /\ Len(t) \in Nat /\ s.len = Len(t) /\ Full(s, t)
      /\ w \in Text /\ Len(w) \in Nat /\ r.len = Len(w) /\ CStr(r.buf, 0) = w
  BY HeldIs
<1> DEFINE u == SubSeq(t, i + 1, Len(t))
           d == (s.len - r.len) % Word16
<1>2. CStr(s.buf, i) = u /\ u \in Text /\ Len(u) = Len(t) - i
  BY <1>1, RestText
<1>3. StartsWithAt(s, r, i) <=> ~(i > d) /\ IsAt(w, u, 0)
  BY <1>1, <1>2 DEF StartsWithAt
<1>4. IsAt(w, u, 0) <=> IsAt(w, t, i)
  <2>1. 0 \in 0 .. Len(t) - i /\ i + 0 = i
    BY <1>1
  <2> QED BY <2>1, <1>1, IsAtRest
<1>5. CASE IsAt(w, t, i)
  <2>1. i + Len(w) <= Len(t)
    BY <1>5 DEF IsAt
  <2> DEFINE m == Len(t)
             n == Len(w)
             v == Word16
             x == m - n
  <2>2. m \in Nat /\ n \in Nat /\ i \in Nat /\ i + n <= m /\ m < v
    BY <2>1, <1>1
  <2>3. v \in Nat \ {0}
    BY Word16Is
  <2>4. d = x % v
    BY <1>1
  <2> HIDE DEF m, n, v, d
  <2>5. x \in 0 .. v - 1 /\ i <= x
    BY ONLY <2>2, <2>3
  <2> HIDE DEF x
  <2>6. x % v = x
    BY ONLY <2>3, <2>5, ModSmall
  <2>7. ~(i > d)
    BY ONLY <2>2, <2>3, <2>4, <2>5, <2>6
  <2> QED BY <2>7, <1>3, <1>4, <1>5
<1>6. CASE ~IsAt(w, t, i)
  BY <1>3, <1>4, <1>6
<1> QED BY <1>5, <1>6

\* startsWith() at the start, and endsWith().
LEMMA StartsWithIs ==
  ASSUME NEW s, NEW t, Holds(s, t), NEW r, NEW w, Holds(r, w), ~IsInvalid(s), ~IsInvalid(r),
         Len(t) < Word16
  PROVE  StartsWith(s, r) <=> IsPrefix(w, t)
<1>1. /\ t \in Text /\ Len(t) \in Nat /\ s.len = Len(t)
      /\ w \in Text /\ Len(w) \in Nat /\ r.len = Len(w)
  BY HeldIs
<1>2. 0 \in 0 .. Len(t)
  BY <1>1
<1>3. StartsWithAt(s, r, 0) <=> IsAt(w, t, 0)
  BY <1>2, StartsWithAtIs
<1>4. IsPrefix(w, t) <=> IsAt(w, t, 0)
  BY <1>1, PrefixIs
<1>5. IsPrefix(w, t) => Len(w) <= Len(t)
  BY DEF IsPrefix
<1> QED BY <1>1, <1>3, <1>4, <1>5 DEF StartsWith

\* The end of a text, read backwards.
LEMMA SuffixIs ==
  ASSUME NEW u \in Text, NEW t \in Text
  PROVE  IsSuffix(u, t) <=>
           Len(u) <= Len(t) /\ \A k \in 1 .. Len(u) : u[k] = t[Len(t) - Len(u) + k]
<1>1. ASSUME NEW w \in Text
      PROVE  /\ Reverse(w) \in Text /\ Len(Reverse(w)) = Len(w) /\ Len(w) \in Nat
             /\ \A k \in 1 .. Len(w) : Reverse(w)[k] = w[Len(w) - k + 1]
  <2> DEFINE n == Len(w)
             x == [k \in 1 .. n |-> w[n - k + 1]]
  <2>1. n \in Nat /\ Reverse(w) = x /\ \A k \in 1 .. n : w[k] \in Char
    BY TextIs DEF Reverse
  <2>2. \A k \in 1 .. n : n - k + 1 \in 1 .. n
    BY <2>1
  <2>3. x = [k \in 1 .. n |-> x[k]] /\ \A k \in 1 .. n : x[k] \in Char
    BY <2>1, <2>2
  <2> HIDE DEF n
  <2>4. \A k \in 1 .. n : x[k] = w[n - k + 1]
    OBVIOUS
  <2> HIDE DEF x
  <2>5. x \in Text /\ Len(x) = n
    BY <2>1, <2>3, TextOf
  <2> QED BY <2>1, <2>4, <2>5 DEF n
<1> DEFINE a == Reverse(u)
           b == Reverse(t)
           m == Len(u)
           n == Len(t)
<1>2. /\ a \in Text /\ Len(a) = m /\ m \in Nat /\ \A k \in 1 .. m : a[k] = u[m - k + 1]
      /\ b \in Text /\ Len(b) = n /\ n \in Nat /\ \A k \in 1 .. n : b[k] = t[n - k + 1]
  BY <1>1
<1> HIDE DEF a, b, m, n
<1>3. IsSuffix(u, t) <=> m <= n /\ \A k \in 1 .. m : a[k] = b[k]
  <2>1. IsPrefix(a, b) <=> Len(a) <= Len(b) /\ \A k \in 1 .. Len(a) : a[k] = b[k]
    BY <1>2, PrefixIs
  <2>2. IsSuffix(u, t) <=> IsPrefix(a, b)
    BY DEF IsSuffix, a, b
  <2> QED BY <2>1, <2>2, <1>2
<1>4. CASE m <= n
  <2>1. ASSUME \A k \in 1 .. m : a[k] = b[k], NEW k \in 1 .. m PROVE u[k] = t[n - m + k]
    <3> DEFINE j == m - k + 1
    <3>1. j \in 1 .. m /\ j \in 1 .. n /\ m - j + 1 = k /\ n - j + 1 = n - m + k
      BY <1>2, <1>4
    <3> HIDE DEF j
    <3>2. a[j] = b[j] /\ a[j] = u[m - j + 1] /\ b[j] = t[n - j + 1]
      BY <3>1, <2>1, <1>2
    <3> QED BY <3>1, <3>2
  <2>2. ASSUME \A k \in 1 .. m : u[k] = t[n - m + k], NEW k \in 1 .. m PROVE a[k] = b[k]
    <3> DEFINE j == m - k + 1
    <3>1. j \in 1 .. m /\ k \in 1 .. n /\ m - k + 1 = j /\ n - m + j = n - k + 1
      BY <1>2, <1>4
    <3> HIDE DEF j
    <3>2. u[j] = t[n - m + j] /\ a[k] = u[m - k + 1] /\ b[k] = t[n - k + 1]
      BY <3>1, <2>2, <1>2
    <3> QED BY <3>1, <3>2
  <2>3. (\A k \in 1 .. m : a[k] = b[k]) <=> \A k \in 1 .. m : u[k] = t[n - m + k]
    BY <2>1, <2>2
  <2> QED BY <2>3, <1>3, <1>4 DEF m, n
<1>5. CASE ~(m <= n)
  BY <1>3, <1>5 DEF m, n
<1> QED BY <1>4, <1>5

LEMMA EndsWithIs ==
  ASSUME NEW s, NEW t, Holds(s, t), NEW r, NEW w, Holds(r, w), ~IsInvalid(s), ~IsInvalid(r)
  PROVE  EndsWith(s, r) <=> IsSuffix(w, t)
<1>1. /\ t \in Text /\ Len(t) \in Nat /\ s.len = Len(t) /\ Full(s, t)
      /\ w \in Text /\ Len(w) \in Nat /\ r.len = Len(w) /\ CStr(r.buf, 0) = w
  BY HeldIs
<1>2. IsSuffix(w, t) <=>
        Len(w) <= Len(t) /\ \A k \in 1 .. Len(w) : w[k] = t[Len(t) - Len(w) + k]
  BY <1>1, SuffixIs
<1>3. CASE ~(Len(w) <= Len(t))
  BY <1>1, <1>2, <1>3 DEF EndsWith
<1>4. CASE Len(w) <= Len(t)
  <2> DEFINE i == Len(t) - Len(w)
             u == SubSeq(t, i + 1, Len(t))
  <2>1. i \in 0 .. Len(t) /\ Len(t) - i = Len(w) /\ Len(t) \in i .. Len(t) /\ i = s.len - r.len
    BY <1>1, <1>4
  <2> HIDE DEF i
  <2>2. CStr(s.buf, i) = u
    BY <2>1, <1>1, RestText
  <2>3. u \in Text /\ Len(u) = Len(w) /\ \A k \in 1 .. Len(w) : u[k] = t[i + k]
    <3>1. u \in Text /\ Len(u) = Len(t) - i /\ \A k \in 1 .. Len(t) - i : u[k] = t[i + k]
      BY <2>1, <1>1, RestIs
    <3> QED BY <3>1, <2>1
  <2> HIDE DEF u
  <2>4. EndsWith(s, r) <=> u = w
    BY <2>1, <2>2, <1>1, <1>4 DEF EndsWith
  <2>5. u = [k \in 1 .. Len(w) |-> u[k]] /\ w = [k \in 1 .. Len(w) |-> w[k]]
    BY <2>3, <1>1, TextIs
  <2>6. u = w <=> \A k \in 1 .. Len(w) : w[k] = t[i + k]
    BY <2>3, <2>5
  <2> QED BY <2>4, <2>6, <1>2, <1>4 DEF i
<1> QED BY <1>3, <1>4

(***************************************************************************)
(* What every object answers when its calls have made texts that fit.      *)
(***************************************************************************)

\* No call makes a text that is longer than the bound.
TextsFit == \A o \in Object \ movedFrom : Len(text[o]) <= MaxGrown

LEMMA BecomesFits ==
  ASSUME StrInv, TextsFit, NEW o \in Object, NEW s, NEW t, Becomes(o, s, t)
  PROVE  TextsFit'
<1>1. /\ Len(t) <= MaxGrown /\ text' = [text EXCEPT ![o] = t] /\ movedFrom' = movedFrom \ {o}
      /\ text = [p \in Object |-> text[p]]
  BY DEF Becomes, StrInv
<1>2. text'[o] = t /\ \A p \in Object : p # o => text'[p] = text[p]
  BY <1>1
<1>3. ASSUME NEW p \in Object \ movedFrom' PROVE Len(text'[p]) <= MaxGrown
  <2>1. CASE p = o
    BY <2>1, <1>1, <1>2
  <2>2. CASE p # o
    <3>1. p \in Object \ movedFrom
      BY <2>2, <1>1, <1>3
    <3>2. Len(text[p]) <= MaxGrown
      BY <3>1 DEF TextsFit
    <3> QED
      BY <3>1, <3>2, <2>2, <1>2
  <2> QED
    BY <2>1, <2>2
<1> QED
  BY <1>3 DEF TextsFit

LEMMA MoveFits ==
  ASSUME StrInv, TextsFit, NEW o \in Object, NEW p \in Object, MoveObject(o, p)
  PROVE  TextsFit'
<1>1. /\ o # p /\ p \notin movedFrom
      /\ text' = [text EXCEPT ![o] = text[p], ![p] = <<>>]
      /\ movedFrom' = (movedFrom \ {o}) \cup {p}
      /\ text = [q \in Object |-> text[q]]
  BY DEF MoveObject, Readable, StrInv
<1>2. text'[o] = text[p] /\ \A q \in Object : q # o /\ q # p => text'[q] = text[q]
  BY <1>1
<1>3. ASSUME NEW q \in Object \ movedFrom' PROVE Len(text'[q]) <= MaxGrown
  <2>1. q # p
    BY <1>1, <1>3
  <2>2. CASE q = o
    <3>1. Len(text[p]) <= MaxGrown
      BY <1>1 DEF TextsFit
    <3> QED
      BY <3>1, <2>2, <1>2
  <2>3. CASE q # o
    <3>1. q \in Object \ movedFrom
      BY <2>1, <2>3, <1>1, <1>3
    <3>2. Len(text[q]) <= MaxGrown
      BY <3>1 DEF TextsFit
    <3> QED
      BY <3>1, <3>2, <2>1, <2>3, <1>2
  <2> QED
    BY <2>2, <2>3
<1> QED
  BY <1>3 DEF TextsFit

LEMMA TextsFitStep ==
  ASSUME StrInv, TextsFit, StrNext
  PROVE  TextsFit'
<1>1. PICK o \in Object : (\E s, t : Becomes(o, s, t)) \/ \E p \in Object : MoveObject(o, p)
  <2> DEFINE Some(o) == \E s, t : Becomes(o, s, t)
  <2>1. ASSUME NEW o, NEW t, NEW room
        PROVE  AssignText(o, t, room) \/ ConcatText(o, t, room) => Some(o)
    BY DEF AssignText, ConcatText
  <2>2. ASSUME NEW o, NEW p, NEW room
        PROVE  AssignObject(o, p, room) \/ ConcatObject(o, p, room) => Some(o)
    BY DEF AssignObject, ConcatObject, ConcatText
  <2>3. ASSUME NEW o, NEW p, NEW t, NEW room PROVE AssignSum(o, p, t, room) => Some(o)
    BY DEF AssignSum
  <2>4. ASSUME NEW o, NEW p, NEW l, NEW r, NEW room
        PROVE  AssignSubstring(o, p, l, r, room) => Some(o)
    BY DEF AssignSubstring
  <2>5. ASSUME NEW o, NEW f, NEW r, NEW room PROVE ReplaceText(o, f, r, room) => Some(o)
    BY DEF ReplaceText
  <2>6. ASSUME NEW o, NEW n, NEW room
        PROVE  ReserveText(o, n, room) \/ MapText(o, n) \/ RemoveText(o, n, room) \/ TrimText(o)
                 \/ SetChar(o, n, room) => Some(o)
    BY DEF ReserveText, MapText, RemoveText, TrimText, SetChar
  <2> HIDE DEF Some
  <2>7. \E o \in Object : Some(o) \/ \E p \in Object : MoveObject(o, p)
    BY <2>1, <2>2, <2>3, <2>4, <2>5, <2>6, ZenonT(60) DEF StrNext
  <2> QED
    BY <2>7 DEF Some
<1> QED
  BY <1>1, BecomesFits, MoveFits

LEMMA QueriesRight ==
  ASSUME StrInv, TextsFit, MaxGrown \in 0 .. Word16 - 1
  PROVE  QueriesAgree
<1>1. ASSUME NEW o \in Object \ movedFrom
      PROVE  Holds(str[o], text[o]) /\ text[o] \in Text /\ Len(text[o]) \in Nat /\ Len(text[o]) < Word16
  <2>1. Holds(str[o], text[o])
    BY DEF StrInv, Kept
  <2>2. text[o] \in Text /\ Len(text[o]) \in Nat
    BY <2>1, HeldIs
  <2>3. Len(text[o]) <= MaxGrown
    BY DEF TextsFit
  <2>4. Word16 \in Nat
    BY Word16Is
  <2>5. MaxGrown \in Nat /\ MaxGrown < Word16
    BY <2>4
  <2>6. Len(text[o]) < Word16
    BY <2>2, <2>3, <2>4, <2>5
  <2> QED
    BY <2>1, <2>2, <2>6
<1>2. ASSUME NEW s, NEW t, Holds(s, t) PROVE PlacesAgree(s, t) /\ PartsAgree(s, t)
  <2>0. t \in Text /\ Len(t) \in Nat
    BY <1>2, HeldIs
  <2> DEFINE Lowest(S) == IF S = {} THEN -1 ELSE Min(S)
             Highest(S) == IF S = {} THEN -1 ELSE Max(S)
  <2>1. ASSUME NEW i \in 0 .. Len(t), NEW w \in Literal \ {<<>>}
        PROVE  /\ IndexOf(s, w, i) = Lowest({k \in Places(t, w) : k >= i})
               /\ LastIndexOf(s, w, i) = Highest({k \in Places(t, w) : k <= i})
    <3>1. w \in Text /\ w # <<>>
      BY TextAssumption DEF Text
    <3> QED
      BY <3>1, <1>2, IndexOfIs, LastIndexOfIs
  <2>2. ASSUME NEW i \in 0 .. Len(t) - 1, NEW c \in Char
        PROVE  /\ IndexOfChar(s, c, i) = Lowest({k \in Places(t, <<c>>) : k >= i})
               /\ LastIndexOfChar(s, c, i) = Highest({k \in Places(t, <<c>>) : k <= i})
    <3>1. i \in 0 .. Len(t)
      BY <2>0
    <3>2. IndexOfChar(s, c, i) = Lowest({k \in Places(t, <<c>>) : k >= i})
      BY <3>1, <1>2, IndexOfCharIs
    <3>3. LastIndexOfChar(s, c, i) = Highest({k \in Places(t, <<c>>) : k <= i})
      BY <1>2, LastIndexOfCharIs
    <3> QED
      BY ONLY <3>2, <3>3
  <2>3. ASSUME NEW i \in 0 .. Len(t) + 1
        PROVE  /\ CharAt(s, i) = IF i < Len(t) THEN t[i + 1] ELSE NUL
               /\ \A size \in 1 .. Len(t) + 1 :
                    GetBytes(s, size, i) = Append(SubSeq(t, i + 1, Min({i + size - 1, Len(t)})), NUL)
    <3>1. i \in Nat /\ \A size \in 1 .. Len(t) + 1 : size \in Nat \ {0}
      BY <2>0
    <3> QED
      BY <3>1, <1>2, CharAtIs, GetBytesIs
  <2>4. PlacesAgree(s, t)
    BY <2>1, <2>2, Zenon DEF PlacesAgree, Places
  <2>5. PartsAgree(s, t)
    BY <2>3 DEF PartsAgree
  <2> QED
    BY <2>4, <2>5
<1>3. ASSUME NEW s, NEW t, Holds(s, t), NEW w \in Literal PROVE EqualsText(s, w) <=> t = w
  <2>1. w \in Text
    BY TextAssumption DEF Text
  <2> QED
    BY <2>1, <1>3, EqualsTextIs
<1>4. ASSUME NEW s, NEW t, Holds(s, t), Len(t) < Word16, NEW r, NEW w, Holds(r, w)
      PROVE  /\ Equals(s, r) <=> t = w
             /\ LET less == Before(t, w)
                    more == Before(w, t)
                IN Orders(s, r) = [lt |-> less, gt |-> more, le |-> ~more, ge |-> ~less]
             /\ ~IsInvalid(s) /\ ~IsInvalid(r) =>
                  /\ StartsWith(s, r) <=> IsPrefix(w, t)
                  /\ EndsWith(s, r) <=> IsSuffix(w, t)
                  /\ \A i \in 0 .. Len(t) : StartsWithAt(s, r, i) <=> IsAt(w, t, i)
  <2>1. Equals(s, r) <=> t = w
    BY <1>4, EqualsIs
  <2>2. LET less == Before(t, w)
            more == Before(w, t)
        IN Orders(s, r) = [lt |-> less, gt |-> more, le |-> ~more, ge |-> ~less]
    BY <1>4, OrdersAre
  <2>3. ASSUME ~IsInvalid(s), ~IsInvalid(r)
        PROVE  /\ StartsWith(s, r) <=> IsPrefix(w, t)
               /\ EndsWith(s, r) <=> IsSuffix(w, t)
               /\ \A i \in 0 .. Len(t) : StartsWithAt(s, r, i) <=> IsAt(w, t, i)
    <3>1. StartsWith(s, r) <=> IsPrefix(w, t)
      BY <1>4, <2>3, StartsWithIs
    <3>2. EndsWith(s, r) <=> IsSuffix(w, t)
      BY <1>4, <2>3, EndsWithIs
    <3>3. \A i \in 0 .. Len(t) : StartsWithAt(s, r, i) <=> IsAt(w, t, i)
      BY <1>4, <2>3, StartsWithAtIs
    <3> QED
      BY <3>1, <3>2, <3>3
  <2> QED
    BY <2>1, <2>2, <2>3
<1>5. ASSUME NEW o \in Object \ movedFrom
      PROVE  LET t == text[o]
                 s == str[o]
             IN /\ PlacesAgree(s, t) /\ PartsAgree(s, t)
                /\ \A w \in Literal : EqualsText(s, w) <=> t = w
                /\ \A p \in Object \ movedFrom :
                     /\ Equals(s, str[p]) <=> t = text[p]
                     /\ LET less == Before(t, text[p])
                            more == Before(text[p], t)
                        IN Orders(s, str[p]) = [lt |-> less, gt |-> more, le |-> ~more, ge |-> ~less]
                     /\ ~IsInvalid(s) /\ ~IsInvalid(str[p]) =>
                          /\ StartsWith(s, str[p]) <=> IsPrefix(text[p], t)
                          /\ EndsWith(s, str[p]) <=> IsSuffix(text[p], t)
                          /\ \A i \in 0 .. Len(t) :
                               StartsWithAt(s, str[p], i) <=> IsAt(text[p], t, i)
  <2>1. Holds(str[o], text[o]) /\ Len(text[o]) < Word16
    BY <1>1
  <2>2. PlacesAgree(str[o], text[o]) /\ PartsAgree(str[o], text[o])
    BY <2>1, <1>2
  <2>3. \A w \in Literal : EqualsText(str[o], w) <=> text[o] = w
    BY <2>1, <1>3
  <2>4. ASSUME NEW p \in Object \ movedFrom
        PROVE  /\ Equals(str[o], str[p]) <=> text[o] = text[p]
               /\ LET less == Before(text[o], text[p])
                      more == Before(text[p], text[o])
                  IN Orders(str[o], str[p]) = [lt |-> less, gt |-> more, le |-> ~more, ge |-> ~less]
               /\ ~IsInvalid(str[o]) /\ ~IsInvalid(str[p]) =>
                    /\ StartsWith(str[o], str[p]) <=> IsPrefix(text[p], text[o])
                    /\ EndsWith(str[o], str[p]) <=> IsSuffix(text[p], text[o])
                    /\ \A i \in 0 .. Len(text[o]) :
                         StartsWithAt(str[o], str[p], i) <=> IsAt(text[p], text[o], i)
    <3>1. Holds(str[p], text[p])
      BY <1>1
    <3> QED
      BY ONLY <2>1, <3>1, <1>4, ZenonT(60)
  <2> QED
    BY <2>2, <2>3, <2>4, ZenonT(60)
<1> QED
  BY <1>5, Zenon DEF QueriesAgree

\* For texts of fewer than 2^16 characters (their lengths are unsigned int) the searches and
\* comparisons of every object answer what the texts say (WString.cpp:418-635).
THEOREM QueriesAnswerRight ==
  ASSUME PairsApart, MaxGrown \in 0 .. Word16 - 1
  PROVE  StrSpec => []QueriesAgree
<1> DEFINE I == StrInv /\ TextsFit
<1>1. StrInit => I
  <2> SUFFICES ASSUME StrInit PROVE I
    OBVIOUS
  <2>1. \A o \in Object : text[o] = <<>>
    BY DEF StrInit
  <2>2. \A o \in Object : Len(text[o]) = 0
    BY <2>1, EmptyText
  <2>3. TextsFit
    BY <2>2 DEF TextsFit
  <2> QED
    BY <2>3, StrInvStart
<1>2. I /\ [StrNext]_strVars => I'
  <2> SUFFICES ASSUME I, [StrNext]_strVars PROVE I'
    OBVIOUS
  <2>1. CASE StrNext
    BY <2>1, StrInvStep, TextsFitStep
  <2>2. CASE UNCHANGED strVars
    BY <2>2 DEF strVars, StrInv, Kept, TextsFit
  <2> QED
    BY <2>1, <2>2
<1>3. I => QueriesAgree
  BY QueriesRight
<1> HIDE DEF I
<1> QED
  BY <1>1, <1>2, <1>3, PTL DEF StrSpec

(***************************************************************************)
(* What print() writes: powers, and the number that a text of digits stands *)
(* for, as one reads it from left to right.                                *)
(***************************************************************************)

\* A recursive function on the numbers, whose step may depend on the number.
StepsFrom(U, a, H) == {g \in [Nat -> U] : g[0] = a /\ \A n \in Nat : g[n + 1] = H[n][g[n]]}

LEMMA StepsExist ==
  ASSUME NEW U, NEW a, NEW H, a \in U /\ H \in [Nat -> [U -> U]]
  PROVE  StepsFrom(U, a, H) # {}
<1> DEFINE V == Nat \X U
           b == <<0, a>>
           F == [w \in V |-> <<w[1] + 1, H[w[1]][w[2]]>>]
<1>1. b \in V
  OBVIOUS
<1>2. F \in [V -> V]
  <2> SUFFICES ASSUME NEW w \in V PROVE <<w[1] + 1, H[w[1]][w[2]]>> \in V
    OBVIOUS
  <2>1. w[1] \in Nat /\ w[2] \in U /\ w[1] + 1 \in Nat
    OBVIOUS
  <2>2. H[w[1]][w[2]] \in U
    BY <2>1
  <2> QED BY <2>1, <2>2
<1>3. PICK h \in [Nat -> V] : h[0] = b /\ \A n \in Nat : h[n + 1] = F[h[n]]
  <2>1. b \in V /\ F \in [V -> V]
    BY <1>1, <1>2
  <2> HIDE DEF V, b, F
  <2>2. \E g \in [Nat -> V] : g[0] = b /\ \A n \in Nat : g[n + 1] = F[g[n]]
    BY ONLY <2>1, TurnsExist, SMTT(30)
  <2> QED BY <2>2
<1>4. ASSUME NEW n \in Nat
      PROVE  /\ h[n] \in V /\ h[n][1] \in Nat /\ h[n][2] \in U
             /\ h[n + 1][1] = h[n][1] + 1 /\ h[n + 1][2] = H[h[n][1]][h[n][2]]
  <2>1. h[n] \in V
    BY <1>3
  <2>2. h[n + 1] = <<h[n][1] + 1, H[h[n][1]][h[n][2]]>>
    BY <2>1, <1>3
  <2> QED BY <2>1, <2>2
<1>5. \A n \in Nat : h[n][1] = n
  <2> SUFFICES ASSUME NEW n \in Nat PROVE h[n][1] = n
    OBVIOUS
  <2> DEFINE A == {k \in 0 .. n : h[k][1] = k}
  <2>1. 0 \in A
    BY <1>3
  <2>2. \A k \in 0 .. n : k < n /\ k \in A => k + 1 \in A
    BY <1>4
  <2> HIDE DEF A
  <2>3. n \in A
    <3>1. n \in 0 .. n /\ n \in Nat
      OBVIOUS
    <3> QED BY ONLY <2>1, <2>2, <3>1, CountUp
  <2> QED BY <2>3 DEF A
<1> DEFINE g == [n \in Nat |-> h[n][2]]
<1>6. g \in [Nat -> U]
  BY <1>4
<1>7. ASSUME NEW n \in Nat PROVE g[n + 1] = H[n][g[n]]
  <2> DEFINE m == n + 1
  <2>1. m \in Nat
    OBVIOUS
  <2>2. h[m][2] = H[n][h[n][2]]
    BY <1>4, <1>5
  <2> HIDE DEF m
  <2>3. g[m] = H[n][g[n]]
    BY <2>1, <2>2
  <2> QED BY <2>3 DEF m
<1>8. g[0] = a
  BY <1>3
<1> HIDE DEF g
<1> QED BY <1>6, <1>7, <1>8 DEF StepsFrom

\* The powers.
PowersOf(g, b) == [i \in Nat |-> IF i = 0 THEN 1 ELSE b * g[i - 1]]
Powers(b) == CHOOSE g : g = PowersOf(g, b)

LEMMA PowerIs ==
  ASSUME NEW base \in Nat \ {0}
  PROVE  /\ Power(base, 0) = 1
         /\ \A k \in Nat : Power(base, k + 1) = base * Power(base, k)
         /\ \A k \in Nat : Power(base, k) \in Nat /\ Power(base, k) >= 1
<1> DEFINE V == Nat \ {0}
           F == [v \in V |-> base * v]
           p == Powers(base)
<1>1. F \in [V -> V] /\ \A v \in V : F[v] = base * v
  <2> SUFFICES ASSUME NEW v \in V PROVE base * v \in V
    OBVIOUS
  <2> QED OBVIOUS
<1>2. 1 \in V
  OBVIOUS
<1> HIDE DEF V, F
<1>3. PICK h \in [Nat -> V] : h[0] = 1 /\ \A n \in Nat : h[n + 1] = F[h[n]]
  <2> DEFINE b == 1
  <2>1. b \in V /\ F \in [V -> V]
    BY <1>1, <1>2
  <2> HIDE DEF b
  <2>2. \E g \in [Nat -> V] : g[0] = b /\ \A n \in Nat : g[n + 1] = F[g[n]]
    BY ONLY <2>1, TurnsExist, SMTT(30)
  <2> QED BY <2>2 DEF b
<1>4. ASSUME NEW n \in Nat PROVE h[n] = IF n = 0 THEN 1 ELSE base * h[n - 1]
  <2>1. CASE n = 0
    BY <1>3, <2>1
  <2>2. CASE n # 0
    <3>1. n - 1 \in Nat /\ n - 1 + 1 = n
      BY <2>2
    <3>2. h[n] = F[h[n - 1]] /\ h[n - 1] \in V
      BY <3>1, <1>3
    <3> QED BY <3>2, <2>2, <1>1
  <2> QED BY <2>1, <2>2
<1>5. h = [n \in Nat |-> h[n]]
  OBVIOUS
<1>6. h = PowersOf(h, base)
  BY ONLY <1>4, <1>5 DEF PowersOf
<1>7. p = PowersOf(p, base)
  BY <1>6, Zenon DEF Powers
<1>8. \A k : Power(base, k) = p[k]
  BY DEF Power, Powers, PowersOf
<1> HIDE DEF p
<1>9. \A n \in Nat : p[n] = IF n = 0 THEN 1 ELSE base * p[n - 1]
  BY ONLY <1>7 DEF PowersOf
<1>10. ASSUME NEW n \in Nat PROVE p[n + 1] = base * p[n]
  <2> DEFINE m == n + 1
  <2>1. m \in Nat /\ m # 0 /\ m - 1 = n
    OBVIOUS
  <2> HIDE DEF m
  <2>2. p[m] = base * p[n]
    BY ONLY <2>1, <1>9
  <2> QED BY <2>2 DEF m
<1>11. ASSUME NEW n \in Nat PROVE p[n] \in Nat /\ p[n] >= 1
  <2> DEFINE A == {k \in 0 .. n : p[k] \in Nat /\ p[k] >= 1}
  <2>1. 0 \in A
    BY <1>9
  <2>2. ASSUME NEW k \in 0 .. n, k < n, k \in A PROVE k + 1 \in A
    <3>1. p[k + 1] = base * p[k] /\ k + 1 \in 0 .. n
      BY <2>2, <1>10
    <3>2. p[k] \in Nat \ {0} /\ base \in Nat \ {0}
      BY <2>2
    <3> DEFINE x == p[k]
    <3> HIDE DEF x
    <3>3. x \in Nat \ {0} => base * x \in Nat \ {0}
      OBVIOUS
    <3> QED BY <3>1, <3>2, <3>3 DEF x
  <2> HIDE DEF A
  <2>3. n \in A
    <3>1. n \in 0 .. n /\ n \in Nat
      OBVIOUS
    <3> QED BY ONLY <2>1, <2>2, <3>1, CountUp
  <2> QED BY <2>3 DEF A
<1> QED BY <1>8, <1>9, <1>10, <1>11

\* A larger exponent makes a larger power.
LEMMA PowerGrows ==
  ASSUME NEW b \in Nat \ {0}, NEW k \in Nat, NEW n \in Nat, k <= n
  PROVE  Power(b, k) <= Power(b, n)
<1> DEFINE d == n - k
           A == {i \in 0 .. d : Power(b, k) <= Power(b, k + i)}
<1>1. d \in Nat /\ k + d = n
  OBVIOUS
<1>2. 0 \in A
  BY <1>1, PowerIs
<1>3. ASSUME NEW i \in 0 .. d, i < d, i \in A PROVE i + 1 \in A
  <2> DEFINE x == Power(b, k + i)
             y == Power(b, k + (i + 1))
             z == Power(b, k)
  <2>1. k + i \in Nat /\ k + (i + 1) = k + i + 1
    OBVIOUS
  <2>2. x \in Nat /\ y = b * x /\ z \in Nat /\ z <= x
    BY <2>1, <1>3, PowerIs
  <2> HIDE DEF x, y, z
  <2>3. x <= b * x /\ b * x \in Nat
    BY <2>2
  <2>4. z <= y
    BY <2>2, <2>3
  <2>5. i + 1 \in 0 .. d
    BY <1>1, <1>3
  <2> QED BY <2>4, <2>5 DEF y, z
<1> HIDE DEF A, d
<1>4. d \in A
  <2>1. d \in 0 .. d
    BY <1>1
  <2> QED BY ONLY <1>1, <1>2, <1>3, <2>1, CountUp
<1> QED BY <1>1, <1>4 DEF A

\* What has been read of a text, place by place.
Reads(g, t, base) == [i \in 0 .. Len(t) |-> IF i = 0 THEN 0 ELSE base * g[i - 1] + t[i]]
Reading(t, base) == CHOOSE g : g = Reads(g, t, base)

LEMMA TimesIs ==
  ASSUME NEW b \in Nat, NEW x \in Nat
  PROVE  b * x \in Nat
OBVIOUS

LEMMA ReadingIs ==
  ASSUME NEW base \in Nat, NEW t \in Seq(Nat)
  PROVE  /\ ReadBack(t, base) = Reading(t, base)[Len(t)]
         /\ Reading(t, base)[0] = 0
         /\ \A i \in 0 .. Len(t) - 1 : Reading(t, base)[i + 1] = base * Reading(t, base)[i] + t[i + 1]
         /\ \A i \in 0 .. Len(t) : Reading(t, base)[i] \in Nat
<1> DEFINE l == Len(t)
           H == [k \in Nat |-> [x \in Nat |-> IF k < l THEN base * x + t[k + 1] ELSE x]]
           p == Reading(t, base)
<1>1. l \in Nat /\ \A k \in 1 .. l : t[k] \in Nat
  OBVIOUS
<1>2. ReadBack(t, base) = p[l]
  BY DEF ReadBack, Reading, Reads
<1> HIDE DEF l
<1>3. H \in [Nat -> [Nat -> Nat]]
  <2> SUFFICES ASSUME NEW k \in Nat, NEW x \in Nat
               PROVE  (IF k < l THEN base * x + t[k + 1] ELSE x) \in Nat
    OBVIOUS
  <2>1. base * x \in Nat
    BY TimesIs
  <2>2. k < l => k + 1 \in 1 .. l
    BY <1>1
  <2> DEFINE y == base * x
  <2> HIDE DEF y
  <2> QED BY <1>1, <2>1, <2>2 DEF y
<1>4. \A k \in Nat, x \in Nat : k < l => H[k][x] = base * x + t[k + 1]
  OBVIOUS
<1> HIDE DEF H, p
<1>5. PICK h \in [Nat -> Nat] : h[0] = 0 /\ \A k \in Nat : h[k + 1] = H[k][h[k]]
  <2> DEFINE U == Nat
             a == 0
  <2>1. a \in U /\ H \in [Nat -> [U -> U]]
    BY <1>3
  <2> HIDE DEF U, a
  <2>2. StepsFrom(U, a, H) # {}
    BY ONLY <2>1, StepsExist
  <2> QED BY <2>2 DEF StepsFrom, U, a
<1> DEFINE g == [i \in 0 .. l |-> h[i]]
<1>6. ASSUME NEW i \in 0 .. l PROVE g[i] = IF i = 0 THEN 0 ELSE base * g[i - 1] + t[i]
  <2>1. CASE i = 0
    BY <2>1, <1>5, <1>1
  <2>2. CASE i # 0
    <3> DEFINE j == i - 1
    <3>1. j \in Nat /\ j < l /\ j + 1 = i /\ j \in 0 .. l /\ i \in Nat
      BY <2>2, <1>1
    <3> HIDE DEF j
    <3>2. h[i] = base * h[j] + t[i] /\ g[i] = h[i] /\ g[j] = h[j]
      BY <3>1, <1>4, <1>5
    <3> QED BY <3>2, <2>2 DEF j
  <2> QED BY <2>1, <2>2
<1> HIDE DEF g
<1>7. g = Reads(g, t, base)
  <2>1. g = [i \in 0 .. l |-> g[i]]
    BY DEF g
  <2> QED BY ONLY <1>6, <2>1 DEF Reads, l
<1>8. p = Reads(p, t, base)
  BY <1>7, Zenon DEF p, Reading
<1>9. \A i \in 0 .. l : p[i] = IF i = 0 THEN 0 ELSE base * p[i - 1] + t[i]
  BY ONLY <1>8 DEF Reads, l
<1>10. p[0] = 0
  BY <1>1, <1>9
<1>11. ASSUME NEW i \in 0 .. l - 1 PROVE p[i + 1] = base * p[i] + t[i + 1]
  <2> DEFINE j == i + 1
  <2>1. j \in 0 .. l /\ j # 0 /\ j - 1 = i
    BY <1>1
  <2> HIDE DEF j
  <2>2. p[j] = base * p[i] + t[j]
    BY ONLY <2>1, <1>9
  <2> QED BY <2>2 DEF j
<1>12. \A i \in 0 .. l : p[i] \in Nat
  <2> DEFINE A == {i \in 0 .. l : p[i] \in Nat}
  <2>1. 0 \in A
    BY <1>1, <1>10
  <2>2. ASSUME NEW k \in 0 .. l, k < l, k \in A PROVE k + 1 \in A
    <3>1. k \in 0 .. l - 1 /\ k + 1 \in 1 .. l /\ k + 1 \in 0 .. l /\ p[k] \in Nat
      BY <1>1, <2>2
    <3>2. p[k + 1] = base * p[k] + t[k + 1]
      BY <3>1, <1>11
    <3> DEFINE y == base * p[k]
    <3>3. y \in Nat
      BY <3>1, TimesIs
    <3> HIDE DEF y
    <3>4. y + t[k + 1] \in Nat
      <4> DEFINE z == t[k + 1]
      <4>1. z \in Nat
        BY <3>1, <1>1
      <4> HIDE DEF z
      <4>2. y + z \in Nat
        BY ONLY <3>3, <4>1
      <4> QED BY <4>2 DEF z
    <3> QED BY <3>1, <3>2, <3>4 DEF y
  <2> HIDE DEF A
  <2>3. \A i \in 0 .. l : i \in A
    BY ONLY <1>1, <2>1, <2>2, CountUp
  <2> QED BY <2>3 DEF A
<1> QED BY <1>2, <1>10, <1>11, <1>12 DEF l, p

\* A text of one digit is that digit.
LEMMA OneReads ==
  ASSUME NEW base \in Nat, NEW d \in Nat
  PROVE  ReadBack(<<d>>, base) = d
<1> DEFINE t == <<d>>
           p == Reading(t, base)
<1>1. t \in Seq(Nat) /\ Len(t) = 1 /\ t[1] = d
  OBVIOUS
<1> HIDE DEF t
<1>2. p[0] = 0 /\ p[0 + 1] = base * p[0] + t[0 + 1] /\ ReadBack(t, base) = p[1]
  <2>1. /\ ReadBack(t, base) = p[Len(t)] /\ p[0] = 0
        /\ \A i \in 0 .. Len(t) - 1 : p[i + 1] = base * p[i] + t[i + 1]
    BY <1>1, ReadingIs
  <2>2. 0 \in 0 .. Len(t) - 1
    BY <1>1
  <2> HIDE DEF p
  <2> QED BY ONLY <2>1, <2>2, <1>1
<1> HIDE DEF p
<1>3. base * 0 = 0
  OBVIOUS
<1> QED BY <1>1, <1>2, <1>3 DEF t

\* One more digit behind: a text that begins in the same way is read in the same way so far.
LEMMA AppendReads ==
  ASSUME NEW base \in Nat, NEW t \in Seq(Nat), NEW d \in Nat
  PROVE  ReadBack(Append(t, d), base) = base * ReadBack(t, base) + d
<1> DEFINE u == Append(t, d)
           n == Len(t)
           p == Reading(t, base)
           q == Reading(u, base)
<1>1. /\ n \in Nat /\ u \in Seq(Nat) /\ Len(u) = n + 1 /\ u[n + 1] = d
      /\ \A k \in 1 .. n : u[k] = t[k]
  OBVIOUS
<1> HIDE DEF u
<1>2. /\ ReadBack(t, base) = p[n] /\ p[0] = 0
      /\ \A i \in 0 .. n - 1 : p[i + 1] = base * p[i] + t[i + 1]
  BY ReadingIs
<1>3. /\ ReadBack(u, base) = q[n + 1] /\ q[0] = 0
      /\ \A i \in 0 .. n : q[i + 1] = base * q[i] + u[i + 1]
  <2>1. /\ ReadBack(u, base) = q[Len(u)] /\ q[0] = 0
        /\ \A i \in 0 .. Len(u) - 1 : q[i + 1] = base * q[i] + u[i + 1]
    BY <1>1, ReadingIs
  <2>2. Len(u) = n + 1 /\ Len(u) - 1 = n
    BY <1>1
  <2> HIDE DEF n, q
  <2> QED BY ONLY <2>1, <2>2
<1> HIDE DEF n, p, q
<1> DEFINE A == {i \in 0 .. n : q[i] = p[i]}
<1>4. 0 \in A
  BY <1>1, <1>2, <1>3
<1>5. ASSUME NEW k \in 0 .. n, k < n, k \in A PROVE k + 1 \in A
  <2>1. k \in 0 .. n - 1 /\ k + 1 \in 1 .. n /\ k + 1 \in 0 .. n /\ q[k] = p[k]
    BY <1>1, <1>5
  <2>2. u[k + 1] = t[k + 1] /\ p[k + 1] = base * p[k] + t[k + 1] /\ q[k + 1] = base * q[k] + u[k + 1]
    BY <1>1, <1>2, <1>3, <2>1
  <2>3. q[k + 1] = p[k + 1]
    BY ONLY <2>1, <2>2
  <2> QED BY <2>1, <2>3
<1> HIDE DEF A
<1>6. n \in A
  <2>1. n \in 0 .. n
    BY <1>1
  <2> QED BY ONLY <1>1, <1>4, <1>5, <2>1, CountUp
<1>7. q[n] = p[n] /\ n \in 0 .. n
  BY <1>6 DEF A
<1>8. q[n + 1] = base * q[n] + d
  BY <1>1, <1>3, <1>7
<1> QED BY ONLY <1>2, <1>3, <1>7, <1>8 DEF u, n

\* The products of the next proofs, in small steps.
LEMMA Distributes ==
  ASSUME NEW a \in Nat, NEW b \in Nat, NEW x \in Nat, NEW y \in Nat
  PROVE  /\ a * (x + y) = a * x + a * y /\ (a + b) * x = a * x + b * x
         /\ a * (b * x) = b * (a * x) /\ (a * b) * x = a * (b * x)
OBVIOUS

\* One more digit in front: it counts as many powers as there are digits behind it.
LEMMA PrependReads ==
  ASSUME NEW base \in Nat \ {0}, NEW t \in Seq(Nat), NEW d \in Nat
  PROVE  ReadBack(<<d>> \o t, base) = d * Power(base, Len(t)) + ReadBack(t, base)
<1> DEFINE u == <<d>> \o t
           n == Len(t)
           p == Reading(t, base)
           q == Reading(u, base)
<1>1. /\ n \in Nat /\ u \in Seq(Nat) /\ Len(u) = n + 1 /\ u[1] = d
      /\ \A k \in 1 .. n : u[k + 1] = t[k] /\ t[k] \in Nat
  OBVIOUS
<1> HIDE DEF u
<1>2. /\ ReadBack(t, base) = p[n] /\ p[0] = 0
      /\ \A i \in 0 .. n - 1 : p[i + 1] = base * p[i] + t[i + 1]
      /\ \A i \in 0 .. n : p[i] \in Nat
  BY ReadingIs
<1>3. /\ ReadBack(u, base) = q[n + 1] /\ q[0] = 0
      /\ \A i \in 0 .. n : q[i + 1] = base * q[i] + u[i + 1]
  <2>1. /\ ReadBack(u, base) = q[Len(u)] /\ q[0] = 0
        /\ \A i \in 0 .. Len(u) - 1 : q[i + 1] = base * q[i] + u[i + 1]
    BY <1>1, ReadingIs
  <2>2. Len(u) = n + 1 /\ Len(u) - 1 = n
    BY <1>1
  <2> HIDE DEF n, q
  <2> QED BY ONLY <2>1, <2>2
<1> HIDE DEF n, p, q
<1>4. /\ Power(base, 0) = 1
      /\ \A k \in Nat : Power(base, k + 1) = base * Power(base, k) /\ Power(base, k) \in Nat
  BY PowerIs
<1> DEFINE A == {i \in 0 .. n : q[i + 1] = d * Power(base, i) + p[i]}
<1>5. 0 \in A
  <2>1. 0 \in 0 .. n
    BY <1>1
  <2>2. q[0 + 1] = base * q[0] + u[0 + 1]
    BY <2>1, <1>3
  <2>3. q[1] = d
    BY ONLY <2>2, <1>1, <1>3
  <2>4. d * Power(base, 0) + p[0] = d
    BY ONLY <1>4, <1>2, d \in Nat
  <2> QED BY <2>1, <2>3, <2>4
<1>6. ASSUME NEW k \in 0 .. n, k < n, k \in A PROVE k + 1 \in A
  <2> DEFINE j == k + 1
             P == Power(base, k)
             x == p[k]
             y == t[j]
  <2>1. k \in 0 .. n - 1 /\ j \in 1 .. n /\ j \in 0 .. n /\ k \in Nat
    BY <1>1, <1>6
  <2>2. q[j] = d * P + x /\ P \in Nat /\ x \in Nat /\ y \in Nat
    BY <1>1, <1>2, <1>4, <1>6, <2>1
  <2>3. Power(base, j) = base * P /\ p[j] = base * x + y
    BY <1>2, <1>4, <2>1
  <2>4. q[j + 1] = base * q[j] + y
    <3>1. u[j + 1] = y
      BY <2>1, <1>1
    <3> HIDE DEF j
    <3> QED BY <3>1, <2>1, <1>3
  <2> HIDE DEF j, P, x, y
  <2>5. base * (d * P + x) = d * (base * P) + base * x
    <3> DEFINE w == d * P
    <3>1. w \in Nat /\ base \in Nat
      BY <2>2, TimesIs
    <3>2. base * w = d * (base * P)
      BY <2>2, <3>1, Distributes
    <3> HIDE DEF w
    <3>3. base * (w + x) = base * w + base * x
      BY <3>1, <2>2, Distributes
    <3> QED BY <3>2, <3>3 DEF w
  <2>6. base * x \in Nat /\ d * (base * P) \in Nat
    <3>1. base * x \in Nat /\ base * P \in Nat
      BY <2>2, TimesIs
    <3> QED BY <3>1, TimesIs
  <2>7. q[j + 1] = d * Power(base, j) + p[j]
    <3> DEFINE v == d * (base * P)
               w == base * x
    <3>1. base * (d * P + x) = v + w /\ v \in Nat /\ w \in Nat
      BY <2>5, <2>6
    <3>2. q[j + 1] = base * (d * P + x) + y
      BY ONLY <2>2, <2>4
    <3>3. d * Power(base, j) + p[j] = v + (w + y)
      BY ONLY <2>3
    <3> HIDE DEF v, w
    <3>4. q[j + 1] = (v + w) + y
      BY ONLY <3>1, <3>2
    <3> QED BY ONLY <3>1, <3>3, <3>4, <2>2
  <2> QED BY <2>1, <2>7 DEF j
<1> HIDE DEF A
<1>7. n \in A
  <2>1. n \in 0 .. n
    BY <1>1
  <2> QED BY ONLY <1>1, <1>5, <1>6, <2>1, CountUp
<1>8. q[n + 1] = d * Power(base, n) + p[n]
  BY <1>7 DEF A
<1> QED BY ONLY <1>2, <1>3, <1>8 DEF u, n

(***************************************************************************)
(* The digits of a number: what is left of it and what is written make it  *)
(* up after every turn, and they fit into the buffer.                      *)
(***************************************************************************)

\* The digits of a number, turn by turn.
DigitStart(n, base) == [left |-> n \div base, str |-> <<n % base>>]
Digiting(g, n, base) == [k \in Nat |-> IF k = 0 THEN DigitStart(n, base) ELSE NextDigit(g[k - 1], base)]
DigitTurns(n, base) == CHOOSE g : g = Digiting(g, n, base)

\* What is left and what is written make up the number.  Every turn halves what is left or
\* more, and what is in front is not a zero when nothing is left.
Made(left, t, n, base) ==
  /\ t # <<>>
  /\ left * Power(base, Len(t)) + ReadBack(t, base) = n
  /\ left * Power(2, Len(t)) <= n
  /\ Len(t) > 1 => /\ Power(2, Len(t) - 1) <= n
                   /\ left = 0 => t[1] # 0
DigitStates(n, base) ==
  {z \in [left : Nat, str : Seq(0 .. base - 1)] : Made(z.left, z.str, n, base)}

LEMMA DigitsAre ==
  ASSUME NEW n, NEW base
  PROVE  Digits(n, base) = DigitTurns(n, base)[Width].str
BY DEF Digits, DigitTurns, Digiting, DigitStart

LEMMA ProductGrows ==
  ASSUME NEW a \in Nat, NEW b \in Nat, NEW x \in Nat, a <= b
  PROVE  a * x <= b * x /\ x * a <= x * b /\ a * x \in Nat /\ b * x \in Nat
OBVIOUS

LEMMA DigitsStart ==
  ASSUME NEW n \in Nat, NEW base \in Nat, base >= 2
  PROVE  DigitStart(n, base) \in DigitStates(n, base)
<1> DEFINE q == n \div base
           d == n % base
           z == DigitStart(n, base)
<1>1. n = base * q + d /\ q \in Int /\ d \in 0 .. base - 1
  BY DivLaw
<1>2. z = [left |-> q, str |-> <<d>>]
  BY DEF DigitStart
<1> HIDE DEF q, d, z
<1>3. q \in Nat /\ d \in Nat
  <2>1. d \in Nat
    BY <1>1
  <2>2. CASE q < 0
    <3>1. base * q <= base * (-1)
      BY <1>1, <2>2
    <3> DEFINE m == base * q
    <3>2. m <= -base
      BY <3>1
    <3>3. m \in Int
      BY <1>1
    <3> HIDE DEF m
    <3>4. n = m + d
      BY <1>1 DEF m
    <3> QED BY <1>1, <3>2, <3>3, <3>4
  <2> QED BY <1>1, <2>1, <2>2
<1>4. <<d>> \in Seq(0 .. base - 1) /\ <<d>> # <<>> /\ Len(<<d>>) = 1
  BY <1>1
<1>5. Power(base, 1) = base /\ Power(2, 1) = 2
  <2>1. Power(base, 0 + 1) = base * Power(base, 0) /\ Power(base, 0) = 1
    BY PowerIs
  <2>2. Power(2, 0 + 1) = 2 * Power(2, 0) /\ Power(2, 0) = 1
    BY PowerIs
  <2> QED BY <2>1, <2>2
<1>6. ReadBack(<<d>>, base) = d
  BY <1>3, OneReads
<1>7. q * base = base * q
  BY <1>3
<1>8. q * 2 <= n
  <2>1. q * 2 <= q * base
    BY <1>3, ProductGrows
  <2> DEFINE m == q * base
             k == q * 2
  <2>2. m \in Nat /\ k \in Nat /\ k <= m
    BY <1>3, <2>1, ProductGrows
  <2>3. n = m + d
    BY <1>1, <1>7
  <2> HIDE DEF m, k
  <2>4. k <= n
    BY <1>3, <2>2, <2>3
  <2> QED BY <2>4 DEF k
<1>9. q * base + d = n
  BY ONLY <1>1, <1>7
<1>10. Made(q, <<d>>, n, base)
  <2> DEFINE t == <<d>>
  <2>1. t # <<>> /\ Len(t) = 1 /\ ReadBack(t, base) = d
    BY <1>4, <1>6
  <2> HIDE DEF t
  <2>2. Made(q, t, n, base)
    BY ONLY <2>1, <1>5, <1>8, <1>9 DEF Made
  <2> QED BY <2>2 DEF t
<1>11. z \in [left : Nat, str : Seq(0 .. base - 1)] /\ z.left = q /\ z.str = <<d>>
  BY <1>2, <1>3, <1>4
<1> QED BY ONLY <1>10, <1>11, Zenon DEF DigitStates, z

\* One more digit.
LEMMA DigitStep ==
  ASSUME NEW n \in Nat, NEW base \in Nat, base >= 2, NEW left \in Nat \ {0},
         NEW t \in Seq(0 .. base - 1), Made(left, t, n, base)
  PROVE  LET u == <<left % base>> \o t IN
         /\ left \div base \in Nat /\ u \in Seq(0 .. base - 1) /\ Len(u) = Len(t) + 1
         /\ Made(left \div base, u, n, base)
<1> DEFINE q == left \div base
           d == left % base
           u == <<d>> \o t
           L == Len(t)
           R == ReadBack(t, base)
           P == Power(base, L)
           T == Power(2, L)
<1>1. left = base * q + d /\ q \in Nat /\ d \in 0 .. base - 1 /\ d \in Nat
  <2>1. left = base * q + d /\ q \in Int /\ d \in 0 .. base - 1
    BY DivLaw
  <2> HIDE DEF q, d
  <2>2. d \in Nat
    BY <2>1
  <2>3. CASE q < 0
    <3> DEFINE m == base * q
    <3>1. m <= base * (-1)
      BY <2>1, <2>3
    <3>2. m <= -base
      BY <3>1
    <3>3. m \in Int /\ left = m + d
      BY <2>1
    <3> HIDE DEF m
    <3> QED BY <2>1, <3>2, <3>3
  <2> QED BY <2>1, <2>2, <2>3
<1>2. /\ L \in Nat /\ u \in Seq(0 .. base - 1) /\ Len(u) = L + 1 /\ u[1] = d /\ u # <<>> /\ L >= 1
  <2>1. t # <<>>
    BY DEF Made
  <2> HIDE DEF q, d
  <2> QED BY <1>1, <2>1
<1>3. t \in Seq(Nat)
  OBVIOUS
<1>4. /\ P \in Nat /\ T \in Nat /\ T >= 1 /\ Power(base, L + 1) = base * P /\ Power(2, L + 1) = 2 * T
  <2> HIDE DEF L
  <2>1. base \in Nat \ {0} /\ 2 \in Nat \ {0} /\ L \in Nat
    BY <1>2
  <2>2. P \in Nat /\ Power(base, L + 1) = base * P
    BY ONLY <2>1, PowerIs
  <2>3. T \in Nat /\ T >= 1 /\ Power(2, L + 1) = 2 * T
    BY ONLY <2>1, PowerIs
  <2> QED BY ONLY <2>2, <2>3
<1>5. R \in Nat
  <2>1. R = Reading(t, base)[L] /\ \A i \in 0 .. L : Reading(t, base)[i] \in Nat
    BY <1>3, ReadingIs
  <2>2. L \in 0 .. L
    BY <1>2
  <2> QED BY <2>1, <2>2
<1>6. ReadBack(u, base) = d * P + R
  BY <1>1, <1>3, PrependReads
<1>7. left * P + R = n /\ left * T <= n
  BY DEF Made
<1> HIDE DEF q, d, u, L, R, P, T
<1>8. q * (base * P) + (d * P + R) = n
  <2>1. q * base = base * q
    BY <1>1
  <2> DEFINE w == q * base
             x == w * P
             y == d * P
  <2>2. w \in Nat /\ left = w + d
    BY <1>1, <2>1, TimesIs
  <2>3. x = q * (base * P)
    BY <1>1, <1>4, Distributes
  <2>4. x \in Nat /\ y \in Nat
    BY <1>1, <1>4, <2>2, TimesIs
  <2> HIDE DEF w
  <2>5. left * P = x + y
    BY <1>1, <1>4, <2>2, Distributes
  <2> HIDE DEF x, y
  <2>6. x + (y + R) = n
    BY ONLY <1>5, <1>7, <2>4, <2>5
  <2> QED BY <2>3, <2>6 DEF y
<1>9. q * (2 * T) <= n /\ T <= n
  <2> DEFINE k == q * 2
             w == k * T
             v == left * T
  <2>1. k \in Nat /\ k <= left
    <3> DEFINE m == q * base
    <3>1. k <= m /\ m \in Nat /\ k \in Nat
      BY <1>1, ProductGrows
    <3>2. left = m + d
      BY <1>1
    <3> HIDE DEF m, k
    <3> QED BY <1>1, <3>1, <3>2
  <2>2. w = q * (2 * T)
    BY <1>1, <1>4, Distributes
  <2> HIDE DEF k
  <2>3. w <= v /\ w \in Nat /\ v \in Nat
    BY <1>4, <2>1, ProductGrows
  <2>4. 1 * T <= v
    BY <1>4, ProductGrows
  <2>5. v <= n
    BY <1>7
  <2>6. 1 * T = T
    BY <1>4
  <2> HIDE DEF w, v
  <2> QED BY ONLY <1>4, <2>2, <2>3, <2>4, <2>5, <2>6, n \in Nat
<1>10. q = 0 => d # 0
  BY <1>1
<1>11. Made(q, u, n, base)
  <2> DEFINE M == L + 1
  <2>1. Len(u) = M /\ M - 1 = L /\ M > 1
    BY <1>2
  <2>2. Power(base, M) = base * P /\ Power(2, M) = 2 * T
    BY <1>4
  <2>3. T = Power(2, M - 1)
    BY <2>1 DEF T
  <2> HIDE DEF M
  <2> QED BY ONLY <1>2, <1>6, <1>8, <1>9, <1>10, <2>1, <2>2, <2>3 DEF Made
<1> QED BY <1>1, <1>2, <1>11 DEF q, d, u, L

LEMMA DigitTurnsAre ==
  ASSUME NEW n \in Nat, NEW base \in Nat, base >= 2
  PROVE  LET it == DigitTurns(n, base) IN
         /\ it[0] = DigitStart(n, base)
         /\ \A k \in Nat : it[k] \in DigitStates(n, base) => it[k + 1] = NextDigit(it[k], base)
<1> DEFINE Z == DigitStates(n, base)
           G == [z \in Z |-> NextDigit(z, base)]
           start == DigitStart(n, base)
           it == DigitTurns(n, base)
<1>1. G \in [Z -> Z]
  <2> SUFFICES ASSUME NEW z \in Z PROVE NextDigit(z, base) \in Z
    OBVIOUS
  <2> DEFINE q == z.left \div base
             u == <<z.left % base>> \o z.str
  <2>1. z.left \in Nat /\ z.str \in Seq(0 .. base - 1) /\ Made(z.left, z.str, n, base)
    BY DEF DigitStates
  <2>2. CASE z.left = 0
    BY <2>2 DEF NextDigit
  <2>3. CASE z.left # 0
    <3>1. q \in Nat /\ u \in Seq(0 .. base - 1) /\ Made(q, u, n, base)
      BY <2>1, <2>3, DigitStep
    <3>2. NextDigit(z, base) = [left |-> q, str |-> u]
      BY <2>3 DEF NextDigit
    <3> HIDE DEF q, u
    <3>3. [left |-> q, str |-> u] \in [left : Nat, str : Seq(0 .. base - 1)]
      BY <3>1
    <3> DEFINE y == [left |-> q, str |-> u]
    <3>4. y.left = q /\ y.str = u
      OBVIOUS
    <3> HIDE DEF y
    <3>5. y \in Z
      BY <3>1, <3>3, <3>4, Zenon DEF DigitStates, y
    <3> QED BY <3>2, <3>5 DEF y
  <2> QED BY <2>2, <2>3
<1>2. start \in Z
  BY DigitsStart
<1>3. \A z \in Z : G[z] = NextDigit(z, base)
  OBVIOUS
<1> HIDE DEF Z, G, start
<1>4. PICK h \in [Nat -> Z] : h[0] = start /\ \A k \in Nat : h[k + 1] = G[h[k]]
  <2> DEFINE V == Z
             b == start
             F == G
  <2>1. b \in V /\ F \in [V -> V]
    BY <1>1, <1>2
  <2> HIDE DEF V, b, F
  <2>2. \E g \in [Nat -> V] : g[0] = b /\ \A n_1 \in Nat : g[n_1 + 1] = F[g[n_1]]
    BY ONLY <2>1, TurnsExist, SMTT(30)
  <2> QED BY <2>2 DEF V, b, F
<1>5. h = Digiting(h, n, base)
  <2>1. ASSUME NEW k \in Nat PROVE h[k] = IF k = 0 THEN start ELSE NextDigit(h[k - 1], base)
    <3>1. CASE k = 0
      BY <1>4, <3>1
    <3>2. CASE k # 0
      <4>1. k - 1 \in Nat /\ k - 1 + 1 = k
        BY <3>2
      <4>2. h[k] = G[h[k - 1]] /\ h[k - 1] \in Z
        BY <4>1, <1>4
      <4> QED BY <4>2, <3>2, <1>3
    <3> QED BY <3>1, <3>2
  <2>2. h = [k \in Nat |-> h[k]]
    OBVIOUS
  <2> QED BY ONLY <2>1, <2>2 DEF Digiting, start
<1>6. it = Digiting(it, n, base)
  BY <1>5, Zenon DEF DigitTurns
<1> HIDE DEF it
<1>7. \A k \in Nat : it[k] = IF k = 0 THEN DigitStart(n, base) ELSE NextDigit(it[k - 1], base)
  BY ONLY <1>6 DEF Digiting
<1>8. ASSUME NEW k \in Nat PROVE it[k + 1] = NextDigit(it[k], base)
  <2> DEFINE m == k + 1
  <2>1. m \in Nat /\ m # 0 /\ m - 1 = k
    OBVIOUS
  <2> HIDE DEF m
  <2>2. it[m] = NextDigit(it[k], base)
    BY ONLY <2>1, <1>7
  <2> QED BY <2>2 DEF m
<1>9. it[0] = DigitStart(n, base)
  BY <1>7
<1> QED BY <1>8, <1>9 DEF it

\* The text of an unsigned long: its digits, which fit into the buffer, without a zero in front.
IsTextOf(t, n, base) ==
  /\ t \in Seq(0 .. base - 1) /\ t # <<>> /\ Len(t) <= Width
  /\ ReadBack(t, base) = n
  /\ Len(t) > 1 => t[1] # 0

LEMMA DigitsReadBack ==
  ASSUME NEW n \in 0 .. Pow2 - 1, NEW base \in Nat, base >= 2
  PROVE  IsTextOf(Digits(n, base), n, base)
<1> DEFINE it == DigitTurns(n, base)
           V == DigitStates(n, base)
           D == {z \in V : z.left = 0}
           P == [z \in V |-> Len(z.str)]
<1>1. Pow2 \in Nat /\ Width \in Nat /\ n \in Nat /\ n < Pow2
  <2>1. Pow2 \in Nat
    BY PowerIs, PrintAssumption DEF Pow2
  <2> QED BY <2>1, PrintAssumption
<1>2. it[0] = DigitStart(n, base) /\ \A k \in Nat : it[k] \in V => it[k + 1] = NextDigit(it[k], base)
  BY <1>1, DigitTurnsAre
<1>3. it[0] \in V
  BY <1>1, <1>2, DigitsStart
<1>4. \A z \in V : /\ z.left \in Nat /\ z.str \in Seq(0 .. base - 1) /\ Made(z.left, z.str, n, base)
                  /\ P[z] = Len(z.str) /\ P[z] \in Nat
  BY DEF DigitStates
<1> HIDE DEF it, P
<1>5. ASSUME NEW k \in Nat, it[k] \in V
      PROVE  /\ it[k + 1] \in V
             /\ (it[k] \in D /\ it[k + 1] = it[k]) \/ (it[k] \notin D /\ P[it[k + 1]] > P[it[k]])
  <2> DEFINE z == it[k]
             q == z.left \div base
             u == <<z.left % base>> \o z.str
             y == [left |-> q, str |-> u]
  <2>1. z.left \in Nat /\ z.str \in Seq(0 .. base - 1) /\ Made(z.left, z.str, n, base) /\ P[z] = Len(z.str)
    BY <1>4, <1>5
  <2>2. it[k + 1] = NextDigit(z, base)
    BY <1>2, <1>5
  <2>3. CASE z.left = 0
    <3>1. it[k + 1] = z
      BY <2>2, <2>3 DEF NextDigit
    <3> QED BY <3>1, <2>3, <1>5
  <2>4. CASE z.left # 0
    <3>1. it[k + 1] = y
      BY <2>2, <2>4 DEF NextDigit
    <3>2. q \in Nat /\ u \in Seq(0 .. base - 1) /\ Made(q, u, n, base) /\ Len(u) = Len(z.str) + 1
      <4> DEFINE left == z.left
                 s == z.str
      <4>1. /\ n \in Nat /\ base \in Nat /\ base >= 2
            /\ left \in Nat \ {0} /\ s \in Seq(0 .. base - 1) /\ Made(left, s, n, base)
        BY <1>1, <2>1, <2>4
      <4> HIDE DEF left, s
      <4>2. LET w == <<left % base>> \o s IN
              /\ left \div base \in Nat /\ w \in Seq(0 .. base - 1) /\ Len(w) = Len(s) + 1
              /\ Made(left \div base, w, n, base)
        BY ONLY <4>1, DigitStep
      <4> QED BY ONLY <4>2 DEF left, s, q, u
    <3> HIDE DEF q, u
    <3>3. y \in [left : Nat, str : Seq(0 .. base - 1)] /\ y.left = q /\ y.str = u
      BY <3>2
    <3> HIDE DEF y
    <3>4. y \in V
      BY <3>2, <3>3, Zenon DEF DigitStates
    <3>5. P[y] = Len(z.str) + 1
      BY <1>4, <3>2, <3>3, <3>4
    <3>6. z \notin D /\ Len(z.str) \in Nat
      BY <2>1, <2>4
    <3> HIDE DEF z, V, D
    <3> QED BY <3>1, <3>4, <3>5, <3>6, <2>1 DEF z
  <2> QED BY <2>3, <2>4
<1>6. \A k \in Nat : it[k] \in V /\ (it[k] \in D \/ P[it[k]] >= k)
  <2>1. P[it[0]] >= 0
    BY <1>3, <1>4
  <2>2. \A v \in V : P[v] \in Int
    BY <1>4
  <2> HIDE DEF V, D
  <2> QED BY ONLY <1>3, <1>5, <2>1, <2>2, TurnsEnd
<1> DEFINE z == it[Width]
           t == z.str
<1>7. z \in V /\ (z.left = 0 \/ Len(t) >= Width)
  BY <1>1, <1>4, <1>6
<1>8. z.left \in Nat /\ t \in Seq(0 .. base - 1) /\ Made(z.left, t, n, base) /\ Len(t) \in Nat /\ t # <<>>
  BY <1>4, <1>7 DEF Made
<1>9. Digits(n, base) = t
  BY DigitsAre DEF it
<1> HIDE DEF z, t, V
<1>10. \A k \in Nat : Power(2, k) \in Nat
  <2>1. 2 \in Nat \ {0}
    OBVIOUS
  <2> QED BY ONLY <2>1, PowerIs
<1>11. \A k \in Nat : Width <= k => Pow2 <= Power(2, k)
  <2> SUFFICES ASSUME NEW k \in Nat, Width <= k PROVE Pow2 <= Power(2, k)
    OBVIOUS
  <2> QED BY <1>1, PowerGrows DEF Pow2
<1>12. z.left = 0
  <2> SUFFICES ASSUME z.left # 0 PROVE FALSE
    OBVIOUS
  <2> DEFINE T == Power(2, Len(t))
  <2>1. Len(t) >= Width
    BY <1>7
  <2>2. T \in Nat /\ Pow2 <= T
    BY <1>1, <1>8, <1>10, <1>11, <2>1
  <2>3. z.left * T <= n
    BY <1>8 DEF Made
  <2> HIDE DEF T
  <2>4. 1 * T <= z.left * T /\ 1 * T = T
    <3> DEFINE left == z.left
    <3>1. left \in Nat /\ 1 \in Nat /\ 1 <= left
      BY <1>8
    <3> HIDE DEF left
    <3>2. 1 * T <= left * T /\ 1 * T = T
      BY ONLY <3>1, <2>2, ProductGrows
    <3> QED BY ONLY <3>2 DEF left
  <2>5. z.left * T \in Nat
    BY <1>8, <2>2, TimesIs
  <2> DEFINE w == z.left * T
  <2> HIDE DEF w
  <2> QED BY <1>1, <2>2, <2>3, <2>4, <2>5 DEF w
<1>13. Len(t) <= Width
  <2> SUFFICES ASSUME ~(Len(t) <= Width) PROVE FALSE
    OBVIOUS
  <2> DEFINE k == Len(t) - 1
  <2>1. k \in Nat /\ Width <= k /\ Len(t) > 1
    BY <1>1, <1>8, PrintAssumption
  <2>2. Power(2, k) <= n
    BY <1>8, <2>1 DEF Made
  <2> HIDE DEF k
  <2>3. Power(2, k) \in Nat /\ Pow2 <= Power(2, k)
    BY <1>10, <1>11, <2>1
  <2> DEFINE w == Power(2, k)
  <2> HIDE DEF w
  <2> QED BY <1>1, <2>2, <2>3 DEF w
<1>14. ReadBack(t, base) = n
  <2> DEFINE M == Power(base, Len(t))
  <2>1. M \in Nat
    BY <1>8, PowerIs
  <2>2. 0 * M + ReadBack(t, base) = n
    BY <1>8, <1>12 DEF Made
  <2>3. 0 * M = 0
    BY <2>1
  <2> HIDE DEF M
  <2>4. ReadBack(t, base) \in Int
    <3>1. t \in Seq(Nat)
      BY <1>8
    <3>2. ReadBack(t, base) = Reading(t, base)[Len(t)] /\ \A i \in 0 .. Len(t) : Reading(t, base)[i] \in Nat
      BY <3>1, ReadingIs
    <3>3. Len(t) \in 0 .. Len(t)
      BY <1>8
    <3> QED BY <3>2, <3>3
  <2> QED BY <2>2, <2>3, <2>4
<1>15. Len(t) > 1 => t[1] # 0
  BY <1>8, <1>12 DEF Made
<1> QED BY <1>8, <1>9, <1>13, <1>14, <1>15 DEF IsTextOf

\* One digit is its own text.
LEMMA DigitReads ==
  ASSUME NEW d \in 0 .. 9
  PROVE  Digits(d, 10) = <<d>>
<1> DEFINE it == DigitTurns(d, 10)
           z == [left |-> 0, str |-> <<d>>]
<1>1. d \in Nat /\ d \div 10 = 0 /\ d % 10 = d
  OBVIOUS
<1>2. DigitStart(d, 10) = z
  BY <1>1 DEF DigitStart
<1>3. it[0] = z /\ \A k \in Nat : it[k] \in DigitStates(d, 10) => it[k + 1] = NextDigit(it[k], 10)
  BY <1>1, <1>2, DigitTurnsAre
<1>4. z \in DigitStates(d, 10)
  BY <1>1, <1>2, DigitsStart
<1>5. NextDigit(z, 10) = z
  BY DEF NextDigit
<1>6. z.str = <<d>>
  OBVIOUS
<1> HIDE DEF it, z
<1> DEFINE A == {k \in 0 .. Width : it[k] = z}
<1>7. Width \in Nat
  BY PrintAssumption
<1>8. 0 \in A
  BY <1>3, <1>7
<1>9. ASSUME NEW k \in 0 .. Width, k < Width, k \in A PROVE k + 1 \in A
  <2>1. k \in Nat /\ it[k] = z /\ k + 1 \in 0 .. Width
    BY <1>7, <1>9
  <2> QED BY <2>1, <1>3, <1>4, <1>5
<1> HIDE DEF A
<1>10. Width \in A
  <2>1. Width \in 0 .. Width
    BY <1>7
  <2> QED BY ONLY <1>7, <1>8, <1>9, <2>1, CountUp
<1>11. it[Width] = z
  BY <1>10 DEF A
<1> QED BY <1>6, <1>11, DigitsAre DEF it

(***************************************************************************)
(* A text in pieces, as the calls of write() make it.                      *)
(***************************************************************************)

\* The pieces of a text, one behind the other.
Chars == Seq(Int)
Flats(g, ps) == [i \in 1 .. Len(ps) |-> IF i = 1 THEN ps[i] ELSE Join(g[i - 1], ps[i])]
Flat(ps) == CHOOSE g : g = Flats(g, ps)

LEMMA CharsJoin ==
  ASSUME NEW x \in Chars, NEW y \in Chars
  PROVE  /\ Join(x, y) \in Chars /\ Len(Join(x, y)) = Len(x) + Len(y)
         /\ Len(x) \in Nat /\ Len(y) \in Nat
         /\ \A k \in 1 .. Len(x) : Join(x, y)[k] = x[k]
         /\ \A k \in 1 .. Len(y) : Join(x, y)[Len(x) + k] = y[k]
<1>1. x \in Seq(Int) /\ y \in Seq(Int) /\ Len(x) \in Nat /\ Len(y) \in Nat
  BY DEF Chars
<1>2. \A k \in 1 .. Len(y) : (x \o y)[Len(x) + k] = y[k]
  BY <1>1
<1> QED BY <1>1, <1>2 DEF Chars, Join

LEMMA CharsRegroup ==
  ASSUME NEW x \in Chars, NEW y \in Chars, NEW z \in Chars
  PROVE  Join(Join(x, y), z) = Join(x, Join(y, z))
BY ConcatAssociative DEF Chars, Join

LEMMA CharsNone ==
  ASSUME NEW x \in Chars
  PROVE  Join(x, <<>>) = x /\ Join(<<>>, x) = x /\ <<>> \in Chars
BY DEF Chars, Join

LEMMA FlatIs ==
  ASSUME NEW ps \in Seq(Chars), ps # <<>>
  PROVE  /\ FlattenSeq(ps) = Flat(ps)[Len(ps)]
         /\ Flat(ps)[1] = ps[1]
         /\ \A i \in 1 .. Len(ps) - 1 : Flat(ps)[i + 1] = Join(Flat(ps)[i], ps[i + 1])
         /\ \A i \in 1 .. Len(ps) : Flat(ps)[i] \in Chars
<1> DEFINE l == Len(ps)
           H == [k \in Nat |-> [x \in Chars |-> IF k + 1 < l THEN Join(x, ps[k + 2]) ELSE x]]
           p == Flat(ps)
<1>1. l \in Nat /\ l >= 1 /\ \A k \in 1 .. l : ps[k] \in Chars
  OBVIOUS
<1>2. FlattenSeq(ps) = p[l]
  BY <1>1 DEF FlattenSeq, Flat, Flats, Join
<1> HIDE DEF l
<1>3. H \in [Nat -> [Chars -> Chars]]
  <2> SUFFICES ASSUME NEW k \in Nat, NEW x \in Chars
               PROVE  (IF k + 1 < l THEN Join(x, ps[k + 2]) ELSE x) \in Chars
    OBVIOUS
  <2>1. k + 1 < l => k + 2 \in 1 .. l
    BY <1>1
  <2> QED BY <1>1, <2>1, CharsJoin
<1>4. \A k \in Nat, x \in Chars : k + 1 < l => H[k][x] = Join(x, ps[k + 2])
  OBVIOUS
<1> HIDE DEF H, p
<1>5. PICK h \in [Nat -> Chars] : h[0] = ps[1] /\ \A k \in Nat : h[k + 1] = H[k][h[k]]
  <2> DEFINE U == Chars
             a == ps[1]
  <2>1. a \in U /\ H \in [Nat -> [U -> U]]
    BY <1>1, <1>3
  <2> HIDE DEF U, a
  <2>2. StepsFrom(U, a, H) # {}
    BY ONLY <2>1, StepsExist
  <2> QED BY <2>2 DEF StepsFrom, U, a
<1> DEFINE g == [i \in 1 .. l |-> h[i - 1]]
<1>6. ASSUME NEW i \in 1 .. l PROVE g[i] = IF i = 1 THEN ps[i] ELSE Join(g[i - 1], ps[i])
  <2>1. CASE i = 1
    BY <2>1, <1>5, <1>1
  <2>2. CASE i # 1
    <3> DEFINE j == i - 1
               k == i - 2
    <3>1. k \in Nat /\ k + 1 < l /\ k + 2 = i /\ k + 1 = j /\ j \in 1 .. l /\ j - 1 = k /\ i \in 1 .. l
      BY <2>2, <1>1
    <3>2. g[i] = h[j] /\ g[j] = h[j - 1]
      BY <3>1
    <3> HIDE DEF j, k, g
    <3>3. h[k + 1] = Join(h[k], ps[k + 2])
      BY <3>1, <1>4, <1>5
    <3>4. g[i] = Join(g[j], ps[i])
      BY ONLY <3>1, <3>2, <3>3
    <3> QED BY <3>4, <2>2 DEF j
  <2> QED BY <2>1, <2>2
<1> HIDE DEF g
<1>7. g = Flats(g, ps)
  <2>1. g = [i \in 1 .. l |-> g[i]]
    BY DEF g
  <2> QED BY ONLY <1>6, <2>1 DEF Flats, l
<1>8. p = Flats(p, ps)
  BY <1>7, Zenon DEF p, Flat
<1>9. \A i \in 1 .. l : p[i] = IF i = 1 THEN ps[i] ELSE Join(p[i - 1], ps[i])
  BY ONLY <1>8 DEF Flats, l
<1>10. p[1] = ps[1]
  BY <1>1, <1>9
<1>11. ASSUME NEW i \in 1 .. l - 1 PROVE p[i + 1] = Join(p[i], ps[i + 1])
  <2> DEFINE j == i + 1
  <2>1. j \in 1 .. l /\ j # 1 /\ j - 1 = i
    BY <1>1
  <2> HIDE DEF j
  <2>2. p[j] = Join(p[i], ps[j])
    BY ONLY <2>1, <1>9
  <2> QED BY <2>2 DEF j
<1>12. \A i \in 1 .. l : p[i] \in Chars
  <2> DEFINE m == l - 1
             A == {i \in 0 .. m : p[i + 1] \in Chars}
  <2>1. m \in Nat
    BY <1>1
  <2>2. 0 \in A
    BY <1>1, <1>10, <2>1
  <2>3. ASSUME NEW k \in 0 .. m, k < m, k \in A PROVE k + 1 \in A
    <3> DEFINE i == k + 1
    <3>1. i \in 1 .. l - 1 /\ i + 1 \in 1 .. l /\ i \in 0 .. m /\ p[i] \in Chars
      BY <1>1, <2>3
    <3> HIDE DEF i
    <3>2. p[i + 1] = Join(p[i], ps[i + 1]) /\ ps[i + 1] \in Chars
      BY <3>1, <1>1, <1>11
    <3>3. p[i + 1] \in Chars
      BY <3>1, <3>2, CharsJoin
    <3> QED BY <3>1, <3>3 DEF i
  <2> HIDE DEF A
  <2>4. \A i \in 0 .. m : i \in A
    BY ONLY <2>1, <2>2, <2>3, CountUp
  <2> SUFFICES ASSUME NEW i \in 1 .. l PROVE p[i] \in Chars
    OBVIOUS
  <2> DEFINE j == i - 1
  <2>5. j \in 0 .. m /\ j + 1 = i
    BY <1>1
  <2> HIDE DEF j
  <2> QED BY <2>4, <2>5 DEF A
<1> QED BY <1>2, <1>10, <1>11, <1>12 DEF l, p

LEMMA FlatNone == FlattenSeq(<<>>) = <<>>
BY DEF FlattenSeq

LEMMA FlatChars ==
  ASSUME NEW ps \in Seq(Chars)
  PROVE  FlattenSeq(ps) \in Chars /\ Len(FlattenSeq(ps)) \in Nat
<1>1. CASE ps = <<>>
  <2>1. <<>> \in Seq(Int) /\ Len(<<>>) \in Nat
    OBVIOUS
  <2> QED BY <1>1, <2>1, FlatNone, Zenon DEF Chars
<1>2. CASE ps # <<>>
  <2>1. Len(ps) \in 1 .. Len(ps)
    BY <1>2
  <2>2. FlattenSeq(ps) \in Chars
    BY <1>2, <2>1, FlatIs
  <2> QED BY <2>2 DEF Chars
<1> QED BY <1>1, <1>2

\* One more piece behind.
LEMMA FlatAppend ==
  ASSUME NEW ps \in Seq(Chars), NEW x \in Chars
  PROVE  FlattenSeq(Append(ps, x)) = Join(FlattenSeq(ps), x)
<1> DEFINE qs == Append(ps, x)
           n == Len(ps)
           p == Flat(ps)
           q == Flat(qs)
<1>1. n \in Nat /\ qs \in Seq(Chars) /\ Len(qs) = n + 1 /\ qs # <<>> /\ qs[n + 1] = x /\ \A k \in 1 .. n : qs[k] = ps[k]
  OBVIOUS
<1> HIDE DEF qs
<1>2. /\ FlattenSeq(qs) = q[n + 1] /\ q[1] = qs[1]
      /\ \A i \in 1 .. n : q[i + 1] = Join(q[i], qs[i + 1])
  <2>1. /\ FlattenSeq(qs) = q[Len(qs)] /\ q[1] = qs[1]
        /\ \A i \in 1 .. Len(qs) - 1 : q[i + 1] = Join(q[i], qs[i + 1])
    BY <1>1, FlatIs
  <2>2. Len(qs) = n + 1 /\ Len(qs) - 1 = n
    BY <1>1
  <2> HIDE DEF n, q
  <2> QED BY ONLY <2>1, <2>2
<1>3. CASE ps = <<>>
  <2>1. n = 0 /\ FlattenSeq(ps) = <<>>
    BY <1>3, FlatNone
  <2>2. FlattenSeq(qs) = x
    BY <1>1, <1>2, <2>1
  <2> QED BY <2>1, <2>2, CharsNone DEF qs
<1>4. CASE ps # <<>>
  <2>1. /\ FlattenSeq(ps) = p[n] /\ p[1] = ps[1]
        /\ \A i \in 1 .. n - 1 : p[i + 1] = Join(p[i], ps[i + 1])
    BY <1>4, FlatIs
  <2>2. n >= 1
    BY <1>4
  <2> HIDE DEF n, p, q
  <2> DEFINE m == n - 1
             A == {i \in 0 .. m : q[i + 1] = p[i + 1]}
  <2>3. m \in Nat /\ m + 1 = n
    BY <1>1, <2>2
  <2>4. 0 \in A
    BY <1>1, <1>2, <2>1, <2>2
  <2>5. ASSUME NEW k \in 0 .. m, k < m, k \in A PROVE k + 1 \in A
    <3> DEFINE i == k + 1
    <3>1. i \in 1 .. n - 1 /\ i \in 1 .. n /\ i + 1 \in 1 .. n /\ i \in 0 .. m /\ q[i] = p[i]
      BY <1>1, <2>5
    <3> HIDE DEF i
    <3>2. q[i + 1] = p[i + 1]
      BY ONLY <3>1, <1>1, <1>2, <2>1
    <3> QED BY <3>1, <3>2 DEF i
  <2> HIDE DEF A
  <2>6. m \in A
    <3>1. m \in 0 .. m
      BY <2>3
    <3> QED BY ONLY <2>3, <2>4, <2>5, <3>1, CountUp
  <2>7. q[n] = p[n]
    <3>1. q[m + 1] = p[m + 1]
      BY <2>6 DEF A
    <3> QED BY ONLY <3>1, <2>3
  <2>8. n \in 1 .. n
    BY <1>1, <2>2
  <2>9. q[n + 1] = Join(q[n], x)
    BY ONLY <1>1, <1>2, <2>8
  <2> QED BY ONLY <1>2, <2>1, <2>7, <2>9 DEF qs
<1> QED BY <1>3, <1>4

\* One more piece in front.
LEMMA FlatPrepend ==
  ASSUME NEW ps \in Seq(Chars), NEW x \in Chars
  PROVE  FlattenSeq(<<x>> \o ps) = Join(x, FlattenSeq(ps))
<1> DEFINE qs == <<x>> \o ps
           n == Len(ps)
           p == Flat(ps)
           q == Flat(qs)
<1>1. n \in Nat /\ qs \in Seq(Chars) /\ Len(qs) = n + 1 /\ qs # <<>> /\ qs[1] = x /\ \A k \in 1 .. n : qs[k + 1] = ps[k]
  OBVIOUS
<1> HIDE DEF qs
<1>2. /\ FlattenSeq(qs) = q[n + 1] /\ q[1] = qs[1]
      /\ \A i \in 1 .. n : q[i + 1] = Join(q[i], qs[i + 1])
  <2>1. /\ FlattenSeq(qs) = q[Len(qs)] /\ q[1] = qs[1]
        /\ \A i \in 1 .. Len(qs) - 1 : q[i + 1] = Join(q[i], qs[i + 1])
    BY <1>1, FlatIs
  <2>2. Len(qs) = n + 1 /\ Len(qs) - 1 = n
    BY <1>1
  <2> HIDE DEF n, q
  <2> QED BY ONLY <2>1, <2>2
<1>3. CASE ps = <<>>
  <2>1. n = 0 /\ FlattenSeq(ps) = <<>>
    BY <1>3, FlatNone
  <2>2. FlattenSeq(qs) = x
    BY <1>1, <1>2, <2>1
  <2> QED BY <2>1, <2>2, CharsNone DEF qs
<1>4. CASE ps # <<>>
  <2>1. /\ FlattenSeq(ps) = p[n] /\ p[1] = ps[1]
        /\ \A i \in 1 .. n - 1 : p[i + 1] = Join(p[i], ps[i + 1])
        /\ \A i \in 1 .. n : p[i] \in Chars
    BY <1>4, FlatIs
  <2>2. n >= 1 /\ \A i \in 1 .. n : ps[i] \in Chars
    BY <1>4
  <2> HIDE DEF n, p, q
  <2> DEFINE m == n - 1
             A == {i \in 0 .. m : q[i + 2] = Join(x, p[i + 1])}
  <2>3. m \in Nat /\ m + 1 = n
    BY <1>1, <2>2
  <2>4. 0 \in A
    <3>1. 1 \in 1 .. n /\ 0 \in 0 .. m
      BY <1>1, <2>2
    <3>2. q[1 + 1] = Join(q[1], qs[1 + 1]) /\ qs[1 + 1] = ps[1]
      BY ONLY <3>1, <1>1, <1>2
    <3>3. q[2] = Join(x, p[1])
      BY ONLY <3>2, <1>1, <1>2, <2>1
    <3> QED BY <3>1, <3>3
  <2>5. ASSUME NEW k \in 0 .. m, k < m, k \in A PROVE k + 1 \in A
    <3> DEFINE i == k + 1
               j == k + 2
    <3>1. /\ i \in 1 .. n - 1 /\ i \in 1 .. n /\ j \in 1 .. n /\ i \in 0 .. m /\ j = i + 1 /\ j + 1 = i + 2
          /\ q[j] = Join(x, p[i])
      BY <1>1, <2>5
    <3> HIDE DEF i, j
    <3>2. q[j + 1] = Join(q[j], qs[j + 1]) /\ qs[j + 1] = ps[j] /\ p[j] = Join(p[i], ps[j])
      BY ONLY <3>1, <1>1, <1>2, <2>1
    <3>3. Join(Join(x, p[i]), ps[j]) = Join(x, Join(p[i], ps[j]))
      BY <3>1, <2>1, <2>2, CharsRegroup
    <3>4. q[j + 1] = Join(x, p[j])
      BY ONLY <3>1, <3>2, <3>3
    <3>5. i + 2 = j + 1 /\ i + 1 = j
      BY <3>1
    <3>6. q[i + 2] = Join(x, p[i + 1])
      BY ONLY <3>4, <3>5
    <3>7. i \in A
      BY <3>1, <3>6
    <3> QED BY <3>7 DEF i
  <2> HIDE DEF A
  <2>6. m \in A
    <3>1. m \in 0 .. m
      BY <2>3
    <3> QED BY ONLY <2>3, <2>4, <2>5, <3>1, CountUp
  <2>7. q[n + 1] = Join(x, p[n])
    <3>1. q[m + 2] = Join(x, p[m + 1])
      BY <2>6 DEF A
    <3>2. m + 2 = n + 1
      BY <2>3, <1>1
    <3> HIDE DEF m
    <3> QED BY ONLY <3>1, <3>2, <2>3
  <2> QED BY ONLY <1>2, <2>1, <2>7 DEF qs
<1> QED BY <1>3, <1>4

\* Pieces of one character each.
Ones(t) == [i \in 1 .. Len(t) |-> <<t[i]>>]

LEMMA FlatOnes ==
  ASSUME NEW t \in Chars
  PROVE  Ones(t) \in Seq(Chars) /\ FlattenSeq(Ones(t)) = t
<1> DEFINE ps == Ones(t)
           n == Len(t)
           p == Flat(ps)
<1>1. n \in Nat /\ t \in Seq(Int) /\ \A k \in 1 .. n : t[k] \in Int /\ <<t[k]>> \in Chars
  BY DEF Chars
<1>2. ps \in Seq(Chars) /\ Len(ps) = n /\ \A k \in 1 .. n : ps[k] = <<t[k]>>
  <2>1. ps = [i \in 1 .. n |-> <<t[i]>>]
    BY DEF Ones
  <2> HIDE DEF n
  <2> QED BY <1>1, <2>1
<1> HIDE DEF ps
<1>3. CASE n = 0
  <2>1. ps = <<>> /\ t = <<>>
    BY <1>1, <1>2, <1>3
  <2> QED BY <1>2, <2>1, FlatNone DEF ps
<1>4. CASE n # 0
  <2>1. ps # <<>>
    BY <1>2, <1>4
  <2>2. /\ FlattenSeq(ps) = p[Len(ps)] /\ p[1] = ps[1]
        /\ \A i \in 1 .. Len(ps) - 1 : p[i + 1] = Join(p[i], ps[i + 1])
    BY <1>2, <2>1, FlatIs
  <2> HIDE DEF n, p
  <2> DEFINE m == n - 1
             A == {i \in 0 .. m : p[i + 1] = SubSeq(t, 1, i + 1)}
  <2>3. m \in Nat /\ m + 1 = n
    BY <1>1, <1>4
  <2>4. 0 \in A
    <3>1. SubSeq(t, 1, 1) = <<t[1]>> /\ 1 \in 1 .. n
      <4>1. 1 \in 1 .. Len(t)
        BY <1>1, <1>4 DEF n
      <4>2. SubSeq(t, 1, 1) = SubSeq(t, 1, 1 - 1) \o <<t[1]>>
        BY <1>1, <4>1, SubSeqRecursiveSecond
      <4>3. SubSeq(t, 1, 1 - 1) = <<>>
        BY SubSeqEmpty
      <4>4. <<>> \o <<t[1]>> = <<t[1]>>
        <5>1. <<t[1]>> \in Chars
          BY <4>1, <1>1 DEF n
        <5> QED BY <5>1, CharsNone DEF Join
      <4>5. SubSeq(t, 1, 1) = <<t[1]>>
        BY ONLY <4>2, <4>3, <4>4, Zenon
      <4> QED BY <4>1, <4>5 DEF n
    <3>2. p[1] = <<t[1]>>
      BY <3>1, <1>2, <2>2
    <3> QED BY <3>1, <3>2, <2>3
  <2>5. ASSUME NEW k \in 0 .. m, k < m, k \in A PROVE k + 1 \in A
    <3> DEFINE i == k + 1
    <3>1. i \in 1 .. n - 1 /\ i + 1 \in 1 .. n /\ i \in 0 .. m /\ p[i] = SubSeq(t, 1, i)
      BY <1>1, <2>5
    <3> HIDE DEF i
    <3>2. p[i + 1] = Join(p[i], ps[i + 1]) /\ ps[i + 1] = <<t[i + 1]>>
      BY <3>1, <1>2, <2>2
    <3>3. SubSeq(t, 1, i + 1) = SubSeq(t, 1, i) \o <<t[i + 1]>>
      <4> DEFINE j == i + 1
      <4>1. 1 \in 1 .. Len(t) /\ j \in 1 .. Len(t) /\ j - 1 = i
        BY <3>1, <1>1 DEF n
      <4> HIDE DEF j
      <4>2. SubSeq(t, 1, j) = SubSeq(t, 1, j - 1) \o <<t[j]>>
        BY <1>1, <4>1, SubSeqRecursiveSecond
      <4> QED BY <4>1, <4>2 DEF j
    <3>4. p[i + 1] = SubSeq(t, 1, i + 1)
      BY ONLY <3>1, <3>2, <3>3 DEF Join
    <3> QED BY <3>1, <3>4 DEF i
  <2> HIDE DEF A
  <2>6. m \in A
    <3>1. m \in 0 .. m
      BY <2>3
    <3> QED BY ONLY <2>3, <2>4, <2>5, <3>1, CountUp
  <2>7. p[n] = SubSeq(t, 1, n)
    <3>1. p[m + 1] = SubSeq(t, 1, m + 1)
      BY <2>6 DEF A
    <3> HIDE DEF m
    <3> QED BY ONLY <3>1, <2>3
  <2>8. SubSeq(t, 1, n) = t
    BY <1>1 DEF n
  <2> QED BY <1>2, <2>2, <2>7, <2>8 DEF ps
<1> QED BY <1>3, <1>4

\* Pieces that can be written, and what is behind the sign of a text.
Piecewise == Seq(Chars \ {<<>>})
Behind(b) == IF b # <<>> /\ Head(b) = Minus THEN Tail(b) ELSE b

LEMMA PiecesAre ==
  ASSUME NEW ps \in Piecewise
  PROVE  ps \in Seq(Chars)
BY DEF Piecewise

LEMMA OnePiece ==
  ASSUME NEW x \in Chars
  PROVE  FlattenSeq(<<x>>) = x
<1> DEFINE e == <<>>
<1>1. e \in Seq(Chars) /\ FlattenSeq(e) = e /\ <<x>> = <<x>> \o e
  BY FlatNone
<1> HIDE DEF e
<1>2. FlattenSeq(<<x>> \o e) = Join(x, FlattenSeq(e))
  BY <1>1, FlatPrepend
<1> QED BY ONLY <1>1, <1>2, CharsNone, x \in Chars DEF e

LEMMA TwoPieces ==
  ASSUME NEW x \in Chars, NEW y \in Chars
  PROVE  FlattenSeq(<<x, y>>) = Join(x, y)
<1> DEFINE ps == <<x, y>>
           p == Flat(ps)
<1>1. ps \in Seq(Chars) /\ ps # <<>> /\ Len(ps) = 2 /\ ps[1] = x /\ ps[1 + 1] = y /\ 1 \in 1 .. Len(ps) - 1
  OBVIOUS
<1> HIDE DEF ps
<1>2. /\ FlattenSeq(ps) = p[Len(ps)] /\ p[1] = ps[1]
      /\ \A i \in 1 .. Len(ps) - 1 : p[i + 1] = Join(p[i], ps[i + 1])
  BY <1>1, FlatIs
<1> HIDE DEF p
<1>3. p[1 + 1] = Join(p[1], ps[1 + 1])
  BY ONLY <1>1, <1>2
<1>4. FlattenSeq(ps) = Join(x, y)
  BY ONLY <1>1, <1>2, <1>3
<1> QED BY <1>4 DEF ps

LEMMA SignIs ==
  ASSUME NEW t \in Chars
  PROVE  Join(<<Minus>>, t) \in Chars /\ Behind(Join(<<Minus>>, t)) = t /\ t # Join(<<Minus>>, t)
<1> DEFINE b == Join(<<Minus>>, t)
<1>1. <<Minus>> \in Chars /\ Len(<<Minus>>) = 1
  BY DEF Chars, Minus
<1>2. b \in Chars /\ Len(b) = 1 + Len(t) /\ Len(t) \in Nat
  BY <1>1, CharsJoin
<1>3. b # <<>> /\ Head(b) = Minus /\ Tail(b) = t
  BY DEF Chars, Join
<1> HIDE DEF b
<1> QED BY <1>2, <1>3 DEF Behind, b

\* The digits of a number: no sign.
LEMMA UnsignedText ==
  ASSUME NEW t, NEW n, NEW base \in Nat, base >= 2, IsTextOf(t, n, base)
  PROVE  /\ t \in Chars \ {<<>>} /\ Behind(t) = t /\ AreDigits(t, base) /\ ReadBack(t, base) = n
         /\ Len(t) < BufLen /\ (Len(t) > 1 => Head(t) # 0)
<1>1. /\ t \in Seq(0 .. base - 1) /\ t # <<>> /\ Len(t) <= Width /\ ReadBack(t, base) = n
      /\ Len(t) > 1 => t[1] # 0
  BY DEF IsTextOf
<1>2. Head(t) = t[1] /\ t[1] \in 0 .. base - 1 /\ \A i \in DOMAIN t : t[i] \in 0 .. base - 1
  BY <1>1
<1>3. t \in Seq(Int) /\ Len(t) \in Nat
  BY <1>1
<1>4. Head(t) # Minus
  BY <1>2 DEF Minus
<1>5. Len(t) < BufLen
  BY <1>1, <1>3, PrintAssumption DEF BufLen
<1> QED BY <1>1, <1>2, <1>3, <1>4, <1>5 DEF Behind, AreDigits, Chars

LEMMA Pow2Is == Pow2 \in Nat \ {0} /\ Pow2 >= 2
<1> DEFINE k == Width - 1
<1>1. k \in Nat /\ k + 1 = Width /\ 2 \in Nat \ {0}
  BY PrintAssumption
<1> HIDE DEF k
<1>2. Power(2, k) \in Nat /\ Power(2, k) >= 1 /\ Power(2, k + 1) = 2 * Power(2, k)
  BY ONLY <1>1, PowerIs
<1> QED BY <1>1, <1>2 DEF Pow2

\* What print() makes of a long.
LongIsRead(n, asked_base, ps) ==
  LET base == IF asked_base < 2 THEN 10 ELSE asked_base
      b == FlattenSeq(ps)
  IN /\ \A i \in DOMAIN ps : Len(ps[i]) < BufLen
     /\ AreDigits(Behind(b), base)
     /\ ReadBack(Behind(b), base) = IF asked_base = 10 /\ n < 0 THEN -n ELSE n % Pow2
     /\ Behind(b) # b <=> asked_base = 10 /\ n < 0
     /\ Len(Behind(b)) > 1 => Head(Behind(b)) # 0

LEMMA LongText ==
  ASSUME NEW n \in Long, NEW asked_base \in Nat
  PROVE  /\ LongPieces(n, asked_base) \in Piecewise
         /\ asked_base # 0 => LongIsRead(n, asked_base, LongPieces(n, asked_base))
<1> DEFINE base == IF asked_base < 2 THEN 10 ELSE asked_base
           ps == LongPieces(n, asked_base)
<1>1. base \in Nat /\ base >= 2
  OBVIOUS
<1>2. /\ Pow2 \in Nat \ {0} /\ Pow2 >= 2 /\ n \in Int /\ n % Pow2 \in 0 .. Pow2 - 1
      /\ n < 0 => -n \in 0 .. Pow2 - 1 /\ (-n) % Pow2 = -n
  <2>1. Pow2 \in Nat \ {0} /\ Pow2 >= 2
    BY Pow2Is
  <2> DEFINE p == Pow2
             h == p \div 2
  <2>2. n \in -h .. h - 1 /\ h \in Int
    BY <2>1 DEF Long
  <2>3. p = 2 * h + (p % 2) /\ p % 2 \in 0 .. 1
    BY <2>1, DivLaw
  <2> HIDE DEF p, h
  <2>4. n \in Int /\ (n < 0 => -n \in 0 .. p - 1)
    BY <2>1, <2>2, <2>3 DEF p
  <2>5. n % p \in 0 .. p - 1
    BY <2>1, <2>4, DivLaw DEF p
  <2>6. n < 0 => (-n) % p = -n
    BY <2>1, <2>4, ModSmall DEF p
  <2> QED BY <2>1, <2>4, <2>5, <2>6 DEF p
<1>3. CASE asked_base = 0
  <2>1. <<n % 256>> \in Chars \ {<<>>}
    <3>1. n % 256 \in Int
      BY <1>2
    <3> QED BY <3>1 DEF Chars
  <2> DEFINE x == <<n % 256>>
  <2> HIDE DEF x
  <2>2. ps = <<x>>
    BY <1>3 DEF LongPieces, x
  <2>3. <<x>> \in Piecewise
    BY <2>1 DEF x, Piecewise
  <2> QED BY <1>3, <2>2, <2>3
<1>4. CASE asked_base = 10 /\ n < 0
  <2> DEFINE t == Digits((-n) % Pow2, 10)
             b == Join(<<Minus>>, t)
  <2>1. ps = <<<<Minus>>, t>>
    BY <1>4 DEF LongPieces, PrintNumber
  <2>2. IsTextOf(t, -n, 10)
    BY <1>2, <1>4, DigitsReadBack
  <2> HIDE DEF t
  <2>3. /\ t \in Chars \ {<<>>} /\ Behind(t) = t /\ AreDigits(t, 10) /\ ReadBack(t, 10) = -n
        /\ Len(t) < BufLen /\ (Len(t) > 1 => Head(t) # 0)
    BY <2>2, UnsignedText
  <2>4. <<Minus>> \in Chars \ {<<>>} /\ Len(<<Minus>>) = 1
    BY DEF Chars, Minus
  <2>5. 1 < BufLen
    BY PrintAssumption DEF BufLen
  <2>6. Behind(b) = t /\ t # b
    BY <2>3, SignIs
  <2> DEFINE m == <<Minus>>
  <2> HIDE DEF m, b
  <2>7. ps = <<m, t>> /\ m \in Chars \ {<<>>} /\ Len(m) = 1
    BY <2>1, <2>4 DEF m
  <2>8. FlattenSeq(ps) = b
    BY <2>3, <2>7, TwoPieces DEF m, b
  <2>9. ps \in Piecewise /\ \A i \in DOMAIN ps : Len(ps[i]) < BufLen
    <3> HIDE DEF ps
    <3>1. <<m, t>> \in Piecewise
      BY <2>3, <2>7 DEF Piecewise
    <3>2. \A i \in DOMAIN <<m, t>> : <<m, t>>[i] = m \/ <<m, t>>[i] = t
      OBVIOUS
    <3> QED BY <3>1, <3>2, <2>3, <2>5, <2>7
  <2> HIDE DEF ps
  <2>10. LongIsRead(n, asked_base, ps)
    BY <1>4, <2>3, <2>6, <2>8, <2>9 DEF LongIsRead
  <2> QED BY <2>9, <2>10 DEF ps
<1>5. CASE asked_base # 0 /\ ~(asked_base = 10 /\ n < 0)
  <2> DEFINE m == n % Pow2
             t == Digits(m, base)
  <2>1. ps = <<t>>
    <3>1. PrintNumber(m, asked_base) = t
      BY DEF PrintNumber
    <3> QED BY <1>5, <3>1 DEF LongPieces
  <2>2. IsTextOf(t, m, base)
    BY <1>1, <1>2, DigitsReadBack
  <2> HIDE DEF m, t
  <2>3. /\ t \in Chars \ {<<>>} /\ Behind(t) = t /\ AreDigits(t, base) /\ ReadBack(t, base) = m
        /\ Len(t) < BufLen /\ (Len(t) > 1 => Head(t) # 0)
    BY <1>1, <2>2, UnsignedText
  <2>4. FlattenSeq(ps) = t
    BY <2>1, <2>3, OnePiece
  <2>5. ps \in Piecewise /\ \A i \in DOMAIN ps : Len(ps[i]) < BufLen
    <3>1. <<t>> \in Piecewise
      BY <2>3 DEF Piecewise
    <3>2. \A i \in DOMAIN <<t>> : <<t>>[i] = t
      OBVIOUS
    <3> QED BY <3>1, <3>2, <2>1, <2>3
  <2> HIDE DEF ps
  <2>6. LongIsRead(n, asked_base, ps)
    BY <1>5, <2>3, <2>4, <2>5 DEF LongIsRead, m
  <2> QED BY <2>5, <2>6 DEF ps
<1> QED BY <1>3, <1>4, <1>5

(***************************************************************************)
(* The places of a float: what is printed, and the rest that is cut off.   *)
(***************************************************************************)

\* What is left of a float after each of its places.
Remains(g, number, One, digits) == [i \in 0 .. digits |-> IF i = 0 THEN number % One ELSE (10 * g[i - 1]) % One]
Remaining(number, One, digits) == CHOOSE g : g = Remains(g, number, One, digits)

AreRemains(p, number, One, digits) ==
  /\ p[0] = number % One
  /\ \A i \in 0 .. digits - 1 : p[i + 1] = (10 * p[i]) % One
  /\ \A i \in 0 .. digits : p[i] \in 0 .. One - 1

LEMMA RemainsAre ==
  ASSUME NEW number \in Nat, NEW One \in Nat \ {0}, NEW digits \in Nat
  PROVE  AreRemains(Remaining(number, One, digits), number, One, digits)
<1> DEFINE V == 0 .. One - 1
           start == number % One
           G == [x \in V |-> (10 * x) % One]
           p == Remaining(number, One, digits)
<1>1. start \in V
  BY DivLaw
<1>2. G \in [V -> V] /\ \A x \in V : G[x] = (10 * x) % One
  <2> SUFFICES ASSUME NEW x \in V PROVE (10 * x) % One \in V
    OBVIOUS
  <2> DEFINE y == 10 * x
  <2>1. y \in Int
    OBVIOUS
  <2> HIDE DEF y
  <2> QED BY <2>1, DivLaw DEF y
<1> HIDE DEF V, G, start, p
<1>3. PICK h \in [Nat -> V] : h[0] = start /\ \A k \in Nat : h[k + 1] = G[h[k]]
  <2> DEFINE U == V
             b == start
             F == G
  <2>1. b \in U /\ F \in [U -> U]
    BY <1>1, <1>2
  <2> HIDE DEF U, b, F
  <2>2. \E g \in [Nat -> U] : g[0] = b /\ \A n \in Nat : g[n + 1] = F[g[n]]
    BY ONLY <2>1, TurnsExist, SMTT(30)
  <2> QED BY <2>2 DEF U, b, F
<1> DEFINE g == [i \in 0 .. digits |-> h[i]]
<1>4. ASSUME NEW i \in 0 .. digits PROVE g[i] = IF i = 0 THEN start ELSE (10 * g[i - 1]) % One
  <2>1. CASE i = 0
    BY <2>1, <1>3
  <2>2. CASE i # 0
    <3> DEFINE j == i - 1
    <3>1. j \in Nat /\ j + 1 = i /\ j \in 0 .. digits /\ i \in Nat
      BY <2>2
    <3> HIDE DEF j
    <3>2. h[i] = (10 * h[j]) % One /\ g[i] = h[i] /\ g[j] = h[j]
      BY <3>1, <1>2, <1>3
    <3> QED BY <3>2, <2>2 DEF j
  <2> QED BY <2>1, <2>2
<1> HIDE DEF g
<1>5. g = Remains(g, number, One, digits)
  <2>1. g = [i \in 0 .. digits |-> g[i]]
    BY DEF g
  <2> QED BY ONLY <1>4, <2>1 DEF Remains, start
<1>6. p = Remains(p, number, One, digits)
  BY <1>5, Zenon DEF p, Remaining
<1>7. \A i \in 0 .. digits : p[i] = IF i = 0 THEN start ELSE (10 * p[i - 1]) % One
  BY ONLY <1>6 DEF Remains, start
<1>8. p[0] = start
  BY <1>7
<1>9. ASSUME NEW i \in 0 .. digits - 1 PROVE p[i + 1] = (10 * p[i]) % One
  <2> DEFINE j == i + 1
  <2>1. j \in 0 .. digits /\ j # 0 /\ j - 1 = i
    OBVIOUS
  <2> HIDE DEF j
  <2>2. p[j] = (10 * p[i]) % One
    BY ONLY <2>1, <1>7
  <2> QED BY <2>2 DEF j
<1>10. \A i \in 0 .. digits : p[i] \in V
  <2> DEFINE A == {i \in 0 .. digits : p[i] \in V}
  <2>1. 0 \in A
    BY <1>1, <1>8
  <2>2. ASSUME NEW k \in 0 .. digits, k < digits, k \in A PROVE k + 1 \in A
    <3>1. k \in 0 .. digits - 1 /\ k + 1 \in 0 .. digits /\ p[k] \in V
      BY <2>2
    <3>2. p[k + 1] = (10 * p[k]) % One
      BY <3>1, <1>9
    <3>3. G[p[k]] \in V /\ G[p[k]] = (10 * p[k]) % One
      BY <3>1, <1>2
    <3> QED BY <3>1, <3>2, <3>3
  <2> HIDE DEF A
  <2>3. digits \in Nat
    OBVIOUS
  <2>4. \A i \in 0 .. digits : i \in A
    BY ONLY <2>1, <2>2, <2>3, CountUp
  <2> QED BY <2>4 DEF A
<1>11. AreRemains(p, number, One, digits)
  BY ONLY <1>8, <1>9, <1>10 DEF start, V, AreRemains
<1> QED BY <1>11 DEF p

\* The places of a float: single digits, and what they and the rest make up.
Fraction(number, One, digits) == [i \in 1 .. digits |-> (10 * Remaining(number, One, digits)[i - 1]) \div One]

IsFraction(ds, p, One, digits) ==
  /\ ds \in Seq(0 .. 9) /\ Len(ds) = digits /\ ds \in Chars
  /\ \A i \in 0 .. digits - 1 :
       /\ ds[i + 1] \in 0 .. 9 /\ p[i] \in Nat /\ p[i + 1] \in Nat
       /\ ds[i + 1] * One + p[i + 1] = 10 * p[i]

LEMMA FractionIs ==
  ASSUME NEW number \in Nat, NEW One \in Nat \ {0}, NEW digits \in Nat
  PROVE  IsFraction(Fraction(number, One, digits), Remaining(number, One, digits), One, digits)
<1> DEFINE p == Remaining(number, One, digits)
           ds == Fraction(number, One, digits)
<1>1. /\ \A i \in 0 .. digits - 1 : p[i + 1] = (10 * p[i]) % One
      /\ \A i \in 0 .. digits : p[i] \in 0 .. One - 1
  <2>1. AreRemains(p, number, One, digits)
    BY RemainsAre
  <2> HIDE DEF p
  <2> QED BY ONLY <2>1 DEF AreRemains
<1>2. ds = [i \in 1 .. digits |-> (10 * p[i - 1]) \div One]
  BY DEF Fraction
<1> HIDE DEF p, ds
<1>3. ASSUME NEW i \in 0 .. digits - 1
      PROVE  /\ ds[i + 1] \in 0 .. 9 /\ p[i] \in Nat /\ p[i + 1] \in Nat
             /\ ds[i + 1] * One + p[i + 1] = 10 * p[i]
  <2> DEFINE y == 10 * p[i]
             d == y \div One
             m == y % One
             j == i + 1
  <2>1. p[i] \in 0 .. One - 1 /\ y \in Nat /\ y < 10 * One /\ j \in 1 .. digits /\ j \in 0 .. digits /\ j - 1 = i
    <3>1. i \in 0 .. digits /\ i \in 0 .. digits - 1
      OBVIOUS
    <3>2. p[i] \in 0 .. One - 1
      BY <3>1, <1>1
    <3> DEFINE x == p[i]
    <3> HIDE DEF x
    <3>3. 10 * x \in Nat /\ 10 * x < 10 * One
      BY <3>2 DEF x
    <3> QED BY <3>2, <3>3 DEF x
  <2>2. p[j] = m
    BY <1>1
  <2>3. ds[j] = d
    <3> HIDE DEF j
    <3>1. ds[j] = (10 * p[j - 1]) \div One
      BY <2>1, <1>2
    <3> QED BY <3>1, <2>1
  <2> HIDE DEF y, j
  <2>4. y = One * d + m /\ d \in Int /\ m \in 0 .. One - 1
    BY <2>1, DivLaw
  <2> HIDE DEF d, m
  <2>5. d \in 0 .. 9
    <3> DEFINE w == One * d
    <3>1. w \in Int /\ y = w + m
      BY <2>4
    <3>2. d >= 10 => w >= One * 10
      BY <2>4
    <3>3. d < 0 => w <= One * (-1)
      BY <2>4
    <3> HIDE DEF w
    <3> QED BY <2>1, <2>4, <3>1, <3>2, <3>3
  <2>6. d * One = One * d
    BY <2>4
  <2>7. d * One + m = y
    BY ONLY <2>4, <2>6
  <2>8. m \in Nat /\ p[i] \in Nat
    BY <2>1, <2>4
  <2> QED BY ONLY <2>2, <2>3, <2>5, <2>7, <2>8 DEF j, y
<1>4. \A k \in 1 .. digits : ds[k] \in 0 .. 9
  <2> SUFFICES ASSUME NEW k \in 1 .. digits PROVE ds[k] \in 0 .. 9
    OBVIOUS
  <2> DEFINE i == k - 1
  <2>1. i \in 0 .. digits - 1 /\ i + 1 = k
    OBVIOUS
  <2> HIDE DEF i
  <2> QED BY <2>1, <1>3
<1>5. ds \in [1 .. digits -> 0 .. 9]
  <2>1. ds = [k \in 1 .. digits |-> ds[k]]
    BY <1>2
  <2> QED BY <1>4, <2>1
<1>6. ds \in Seq(0 .. 9) /\ Len(ds) = digits
  BY <1>5
<1>7. ds \in Chars
  BY <1>6 DEF Chars
<1>8. IsFraction(ds, p, One, digits)
  BY ONLY <1>3, <1>6, <1>7 DEF IsFraction
<1> QED BY <1>8 DEF p, ds

\* The digits before the point and the places behind it, read together.
LEMMA FractionReads ==
  ASSUME NEW number \in Nat, NEW One \in Nat \ {0}, NEW digits \in Nat,
         NEW t \in Seq(0 .. 9), ReadBack(t, 10) = number \div One
  PROVE  LET ds == Fraction(number, One, digits) IN
         /\ Join(t, ds) \in Seq(0 .. 9)
         /\ \E r \in 0 .. One - 1 :
              ReadBack(Join(t, ds), 10) * One + r = number * Power(10, digits)
         /\ ReadBack(Join(t, ds), 10) \in Nat
<1> DEFINE p == Remaining(number, One, digits)
           ds == Fraction(number, One, digits)
           so(i) == Join(t, SubSeq(ds, 1, i))
<1>1. /\ p[0] = number % One
      /\ \A i \in 0 .. digits : p[i] \in 0 .. One - 1
  <2>1. AreRemains(p, number, One, digits)
    BY RemainsAre
  <2> HIDE DEF p
  <2> QED BY ONLY <2>1 DEF AreRemains
<1>2. /\ ds \in Seq(0 .. 9) /\ Len(ds) = digits
      /\ \A i \in 0 .. digits - 1 :
           /\ ds[i + 1] \in 0 .. 9 /\ p[i] \in Nat /\ p[i + 1] \in Nat
           /\ ds[i + 1] * One + p[i + 1] = 10 * p[i]
  <2>1. IsFraction(ds, p, One, digits)
    BY FractionIs
  <2> HIDE DEF p, ds
  <2> QED BY ONLY <2>1 DEF IsFraction
<1> HIDE DEF p, ds
<1> DEFINE Good(i) == /\ so(i) \in Seq(0 .. 9) /\ ReadBack(so(i), 10) \in Nat
                      /\ ReadBack(so(i), 10) * One + p[i] = number * Power(10, i)
           A == {i \in 0 .. digits : Good(i)}
<1>3. /\ Power(10, 0) = 1
      /\ \A k \in Nat : Power(10, k + 1) = 10 * Power(10, k) /\ Power(10, k) \in Nat
  <2>1. 10 \in Nat \ {0}
    OBVIOUS
  <2> QED BY ONLY <2>1, PowerIs
<1>4. 0 \in A
  <2>1. SubSeq(ds, 1, 0) = <<>>
    BY SubSeqEmpty
  <2>2. so(0) = t
    BY <2>1 DEF Join
  <2> DEFINE q == number \div One
             m == number % One
  <2>3. number = One * q + m /\ q \in Int /\ m \in 0 .. One - 1
    <3>1. number \in Int
      OBVIOUS
    <3> HIDE DEF so
    <3> QED BY ONLY <3>1, DivLaw, One \in Nat \ {0}
  <2> HIDE DEF q, m, so
  <2>4. q \in Nat
    <3> DEFINE w == One * q
    <3>1. q < 0 => w <= One * (-1)
      BY <2>3
    <3>2. w \in Int /\ number = w + m
      BY <2>3
    <3> HIDE DEF w
    <3> QED BY <2>3, <3>1, <3>2
  <2>5. q * One = One * q
    BY <2>3
  <2>6. ReadBack(t, 10) = q /\ p[0] = m
    BY <1>1 DEF q, m
  <2>7. number * Power(10, 0) = number
    BY ONLY <1>3, number \in Nat
  <2>8. 0 \in 0 .. digits
    OBVIOUS
  <2> QED BY ONLY <2>2, <2>3, <2>4, <2>5, <2>6, <2>7, <2>8, t \in Seq(0 .. 9)
<1>5. ASSUME NEW i \in 0 .. digits, i < digits, i \in A PROVE i + 1 \in A
  <2> DEFINE j == i + 1
             d == ds[j]
             R == ReadBack(so(i), 10)
             E == Power(10, i)
             r == p[i]
             r2 == p[j]
  <2>1. i \in 0 .. digits - 1 /\ j \in 0 .. digits /\ j \in 1 .. digits /\ i \in Nat /\ Good(i)
    BY <1>5
  <2>2. d \in 0 .. 9 /\ d \in Nat /\ r \in Nat /\ r2 \in Nat /\ d * One + r2 = 10 * r
    <3> HIDE DEF so
    <3>1. ds[i + 1] \in 0 .. 9 /\ p[i] \in Nat /\ p[i + 1] \in Nat /\ ds[i + 1] * One + p[i + 1] = 10 * p[i]
      BY ONLY <2>1, <1>2
    <3> HIDE DEF r, r2, d, j
    <3>2. d \in 0 .. 9 /\ r \in Nat /\ r2 \in Nat /\ d * One + r2 = 10 * r
      BY ONLY <3>1 DEF r, r2, d, j
    <3> QED BY ONLY <3>2
  <2>3. Power(10, j) = 10 * E /\ E \in Nat
    BY <1>3, <2>1
  <2>4. so(j) = Append(so(i), d)
    <3>1. SubSeq(ds, 1, j) = SubSeq(ds, 1, j - 1) \o <<d>>
      <4>1. 1 \in 1 .. Len(ds) /\ j \in 1 .. Len(ds)
        BY <1>2, <2>1
      <4> HIDE DEF j
      <4> QED BY <1>2, <4>1, SubSeqRecursiveSecond
    <3>2. j - 1 = i
      BY <2>1
    <3> DEFINE x == SubSeq(ds, 1, i)
    <3>3. x \in Seq(0 .. 9)
      <4>1. \A k \in 1 .. i : ds[k] \in 0 .. 9
        <5>1. ds \in Seq(0 .. 9) /\ i \in 0 .. digits - 1 /\ Len(ds) = digits
          BY <1>2, <2>1
        <5> HIDE DEF ds
        <5> QED BY ONLY <5>1, digits \in Nat
      <4> QED BY <4>1, SubSeqProperties
    <3>4. SubSeq(ds, 1, j) = x \o <<d>>
      BY <3>1, <3>2
    <3> HIDE DEF x, d, j
    <3>5. t \o (x \o <<d>>) = Append(t \o x, d)
      <4>1. (t \o x) \o <<d>> = t \o (x \o <<d>>)
        <5>1. t \in Seq(0 .. 9) /\ x \in Seq(0 .. 9) /\ <<d>> \in Seq(0 .. 9)
          BY <2>2, <3>3
        <5> HIDE DEF so
        <5> QED BY ONLY <5>1, ConcatAssociative
      <4>2. t \o x \in Seq(0 .. 9)
        BY <3>3
      <4> DEFINE y == t \o x
      <4> HIDE DEF y
      <4>3. y \o <<d>> = Append(y, d)
        BY <2>2, <4>2 DEF y
      <4> QED BY <4>1, <4>3 DEF y
    <3>6. so(i) = t \o x
      BY DEF x, Join
    <3>7. so(j) = t \o (x \o <<d>>)
      BY <3>4 DEF Join
    <3> HIDE DEF so
    <3> QED BY ONLY <3>5, <3>6, <3>7
  <2>5. so(i) \in Seq(0 .. 9) /\ R \in Nat /\ R * One + r = number * E
    BY <2>1
  <2> HIDE DEF so, d, j
  <2>6. so(j) \in Seq(0 .. 9)
    BY <2>2, <2>4, <2>5
  <2>7. ReadBack(so(j), 10) = 10 * R + d
    <3> DEFINE u == so(i)
    <3>1. u \in Seq(Nat) /\ 10 \in Nat
      <4>1. u \in Seq(0 .. 9)
        BY ONLY <2>5 DEF u
      <4> HIDE DEF u
      <4> QED BY ONLY <4>1
    <3> HIDE DEF u
    <3>2. ReadBack(Append(u, d), 10) = 10 * ReadBack(u, 10) + d
      BY <2>2, <3>1, AppendReads
    <3> QED BY <2>4, <3>2 DEF u
  <2> HIDE DEF R, E, r, r2
  <2>8. (10 * R + d) * One + r2 = number * (10 * E)
    <3> DEFINE x == R * One
               y == d * One
               z == number * E
               T == 10 * R
    <3>1. x \in Nat /\ y \in Nat /\ z \in Nat /\ T \in Nat
      BY <2>2, <2>3, <2>5, TimesIs
    <3>2. T * One = 10 * x /\ number * (10 * E) = 10 * z
      BY <2>3, <2>5, Distributes
    <3>3. (T + d) * One = T * One + y
      BY <2>2, <3>1, Distributes
    <3>4. x + r = z /\ y + r2 = 10 * r
      BY <2>2, <2>5
    <3> HIDE DEF x, y, z
    <3>5. (T + d) * One = 10 * x + y
      BY ONLY <3>2, <3>3
    <3>6. 10 * x + y + r2 = 10 * z
      BY ONLY <3>1, <3>4, <2>2
    <3> HIDE DEF T
    <3>7. (T + d) * One + r2 = 10 * z
      BY ONLY <3>5, <3>6
    <3> QED BY ONLY <3>2, <3>7 DEF T
  <2>9. 10 * R + d \in Nat
    BY <2>2, <2>5
  <2>10. Good(j)
    BY ONLY <2>3, <2>6, <2>7, <2>8, <2>9 DEF r2
  <2>11. j \in A
    BY <2>1, <2>10
  <2> QED BY <2>11 DEF j
<1> HIDE DEF A
<1>6. digits \in A
  <2>1. digits \in 0 .. digits /\ digits \in Nat
    OBVIOUS
  <2> QED BY ONLY <1>4, <1>5, <2>1, CountUp
<1>7. Good(digits)
  BY <1>6 DEF A
<1>8. SubSeq(ds, 1, digits) = ds
  <2>1. SubSeq(ds, 1, Len(ds)) = ds
    BY <1>2, SubSeqFull
  <2> QED BY <1>2, <2>1
<1>9. so(digits) = Join(t, ds)
  BY <1>8
<1>10. p[digits] \in 0 .. One - 1
  BY <1>1
<1> HIDE DEF so
<1> QED BY ONLY <1>7, <1>9, <1>10 DEF ds

\* Half a unit of the last place is added before the rest is cut off.
LEMMA IsNearest ==
  ASSUME NEW P \in Nat \ {0}, NEW E \in Nat \ {0}, NEW a \in Nat, NEW R \in Nat,
         NEW r \in 0 .. P * (10 * E) - 1,
         R * (P * (10 * E)) + r = (a * (10 * E) + 5 * P) * E
  PROVE  2 * (R * P - a * E) \in -P .. P
<1> DEFINE F == 10 * E
           x == R * P
           y == a * E
           w == P * E
           Q == P * F
           d == x - y
<1>1. F \in Nat /\ F >= 1 /\ Q \in Nat /\ x \in Nat /\ y \in Nat /\ w \in Nat /\ d \in Int /\ d = x - y
  BY TimesIs
<1>2. Q = 10 * w
  BY Distributes
<1>3. R * Q = x * F
  BY <1>1, Distributes
<1>4. (a * F + 5 * P) * E = y * F + 5 * w
  <2> DEFINE u == a * F
             v == 5 * P
  <2>1. u \in Nat /\ v \in Nat
    BY <1>1, TimesIs
  <2>2. u * E = y * F
    <3>1. u * E = a * (F * E)
      BY <1>1, Distributes
    <3>2. y * F = a * (E * F)
      BY <1>1, Distributes
    <3>3. F * E = E * F
      BY <1>1
    <3> HIDE DEF F, u, y
    <3> QED BY ONLY <3>1, <3>2, <3>3
  <2>3. v * E = 5 * w
    BY Distributes
  <2> HIDE DEF u, v
  <2>4. (u + v) * E = u * E + v * E
    BY <2>1, Distributes
  <2> QED BY <2>2, <2>3, <2>4 DEF u, v
<1>5. r \in 0 .. Q - 1 /\ R * Q + r = (a * F + 5 * P) * E
  OBVIOUS
<1> HIDE DEF F, x, y, w, Q
<1>6. x * F \in Nat /\ y * F \in Nat /\ d * F \in Int /\ P * F \in Nat
  BY <1>1, TimesIs
<1>7. d * F = x * F - y * F
  BY <1>1
<1>8. x * F + r = y * F + 5 * w
  BY ONLY <1>3, <1>4, <1>5
<1> DEFINE p == x * F
           q == y * F
           s == d * F
<1>9. p \in Nat /\ q \in Nat /\ s \in Int /\ s = p - q /\ p + r = q + 5 * w
  BY <1>6, <1>7, <1>8
<1> HIDE DEF p, q, s, d
<1>10. 2 * s <= Q /\ -Q <= 2 * s
  BY ONLY <1>1, <1>2, <1>5, <1>9
<1>11. 2 * d <= P
  <2> SUFFICES ASSUME 2 * d > P PROVE FALSE
    BY <1>1
  <2>1. 2 * d - 1 >= P
    BY <1>1
  <2>2. (2 * d - 1) * F >= P * F
    BY <1>1, <2>1
  <2>3. (2 * d - 1) * F = 2 * (d * F) - F
    BY <1>1
  <2>4. 2 * s - F >= Q
    BY <2>2, <2>3 DEF s, Q
  <2> QED BY ONLY <1>1, <1>9, <1>10, <2>4
<1>12. -P <= 2 * d
  <2> SUFFICES ASSUME 2 * d < -P PROVE FALSE
    BY <1>1
  <2>1. 2 * d + 1 <= -P
    BY <1>1
  <2>2. (2 * d + 1) * F <= (-P) * F
    BY <1>1, <2>1
  <2>3. (2 * d + 1) * F = 2 * (d * F) + F /\ (-P) * F = -(P * F)
    BY <1>1
  <2>4. 2 * s + F <= -Q
    BY <2>2, <2>3 DEF s, Q
  <2> QED BY ONLY <1>1, <1>9, <1>10, <2>4
<1>13. 2 * d \in -P .. P
  BY <1>1, <1>11, <1>12
<1> QED BY <1>13 DEF d, x, y

\* A text is what its characters are.
LEMMA SameChars ==
  ASSUME NEW x \in Chars, NEW y \in Chars, Len(x) = Len(y), \A k \in 1 .. Len(x) : x[k] = y[k]
  PROVE  x = y
<1>1. x = [k \in 1 .. Len(x) |-> x[k]] /\ y = [k \in 1 .. Len(y) |-> y[k]]
  BY DEF Chars
<1> QED BY ONLY <1>1, Len(x) = Len(y), \A k \in 1 .. Len(x) : x[k] = y[k]

\* The point between the digits, and the digits without it.
LEMMA PointIs ==
  ASSUME NEW t \in Chars, NEW ds \in Chars
  PROVE  LET u == Join(t, Join(<<Dot>>, ds)) IN
         /\ u \in Chars /\ Len(u) = Len(t) + 1 + Len(ds) /\ Len(t) \in Nat /\ Len(ds) \in Nat
         /\ u[Len(t) + 1] = Dot
         /\ RemoveAt(u, Len(t) + 1) = Join(t, ds)
<1> DEFINE point == <<Dot>>
           v == Join(point, ds)
           u == Join(t, v)
           n == Len(t)
           m == Len(ds)
<1>1. point \in Chars /\ Len(point) = 1 /\ point[1] = Dot
  BY DEF Chars, Dot
<1> HIDE DEF point
<1>2. /\ v \in Chars /\ Len(v) = 1 + m /\ m \in Nat /\ v[1] = Dot
      /\ \A k \in 1 .. m : v[1 + k] = ds[k]
  <2>1. /\ v \in Chars /\ Len(v) = Len(point) + m /\ m \in Nat
        /\ \A k \in 1 .. Len(point) : v[k] = point[k]
        /\ \A k \in 1 .. m : v[Len(point) + k] = ds[k]
    BY <1>1, CharsJoin
  <2> HIDE DEF v, m
  <2> QED BY <1>1, <2>1
<1> HIDE DEF v
<1>3. /\ u \in Chars /\ Len(u) = n + Len(v) /\ n \in Nat
      /\ \A k \in 1 .. n : u[k] = t[k]
      /\ \A k \in 1 .. Len(v) : u[n + k] = v[k]
  BY <1>2, CharsJoin
<1> HIDE DEF u, n, m
<1>4. Len(u) = n + 1 + m /\ u[n + 1] = Dot
  BY <1>2, <1>3
<1>5. \A k \in 1 .. m : u[n + 1 + k] = ds[k]
  <2> SUFFICES ASSUME NEW k \in 1 .. m PROVE u[n + 1 + k] = ds[k]
    OBVIOUS
  <2> DEFINE j == 1 + k
  <2>1. j \in 1 .. Len(v) /\ n + j = n + 1 + k /\ v[j] = ds[k]
    BY <1>2, <1>3
  <2> HIDE DEF j
  <2> QED BY <1>3, <2>1
<1> DEFINE front == SubSeq(u, 1, n)
           back == SubSeq(u, n + 2, n + 1 + m)
<1>6. u \in Seq(Int) /\ t \in Seq(Int) /\ ds \in Seq(Int) /\ Len(t) = n /\ Len(ds) = m
  BY <1>3 DEF Chars, n, m
<1>7. front \in Chars /\ Len(front) = n /\ \A k \in 1 .. n : front[k] = u[k]
  <2>1. \A i \in 1 .. n : u[i] \in Int
    BY <1>4, <1>6, <1>2, <1>3
  <2>2. /\ front \in Seq(Int) /\ Len(front) = IF 1 <= n THEN n - 1 + 1 ELSE 0
        /\ \A i \in 1 .. n - 1 + 1 : front[i] = u[1 + i - 1]
    BY <1>3, <2>1, SubSeqProperties
  <2> HIDE DEF front
  <2>3. n - 1 + 1 = n /\ \A i \in 1 .. n : 1 + i - 1 = i
    BY <1>3
  <2> QED BY <1>3, <2>2, <2>3 DEF Chars
<1>8. front = t
  <2> HIDE DEF front
  <2> QED BY <1>3, <1>6, <1>7, SameChars
<1>9. back \in Chars /\ Len(back) = m /\ \A k \in 1 .. m : back[k] = ds[k]
  <2> DEFINE a == n + 2
             b == n + 1 + m
  <2>1. a \in Int /\ b \in Int /\ b - a + 1 = m /\ (IF a <= b THEN b - a + 1 ELSE 0) = m
    BY <1>2, <1>3
  <2>2. \A i \in a .. b : u[i] \in Int
    BY <1>4, <1>6, <1>2, <1>3
  <2>3. \A k \in 1 .. m : a + k - 1 = n + 1 + k
    BY <1>2, <1>3
  <2> HIDE DEF a, b
  <2> DEFINE z == SubSeq(u, a, b)
  <2>4. /\ z \in Seq(Int) /\ Len(z) = IF a <= b THEN b - a + 1 ELSE 0
        /\ \A k \in 1 .. b - a + 1 : z[k] = u[a + k - 1]
    BY <2>1, <2>2, SubSeqProperties
  <2> HIDE DEF z
  <2>5. z \in Seq(Int) /\ Len(z) = m /\ \A k \in 1 .. m : z[k] = ds[k]
    BY ONLY <1>5, <2>1, <2>3, <2>4
  <2> QED BY <2>5 DEF z, a, b, Chars
<1>10. back = ds
  <2> HIDE DEF back
  <2> QED BY <1>6, <1>9, SameChars
<1>11. RemoveAt(u, n + 1) = Join(t, ds)
  <2> DEFINE i == n + 1
  <2>1. i - 1 = n /\ i + 1 = n + 2 /\ Len(u) = n + 1 + m
    BY <1>2, <1>3, <1>4
  <2> HIDE DEF i
  <2>2. RemoveAt(u, i) = SubSeq(u, 1, i - 1) \o SubSeq(u, i + 1, Len(u))
    BY ONLY DEF RemoveAt
  <2>3. RemoveAt(u, i) = front \o back
    BY ONLY <2>1, <2>2
  <2> USE DEF i
  <2> HIDE DEF front, back
  <2> QED BY ONLY <2>3, <1>8, <1>10 DEF Join
<1> QED BY <1>2, <1>3, <1>4, <1>11 DEF u, v, point, n, m

\* What print() makes of a float.
FloatIsRead(v, digits, ps) ==
  LET u == Behind(FlattenSeq(ps))
      figures == IF digits > 0 THEN RemoveAt(u, Len(u) - digits) ELSE u
      printed == ReadBack(figures, 10) * Parts
      meant == (IF v < 0 THEN -v ELSE v) * Power(10, digits)
  IN /\ digits > 0 => u[Len(u) - digits] = Dot
     /\ AreDigits(figures, 10)
     /\ 2 * (printed - meant) \in -Parts .. Parts
     /\ u # FlattenSeq(ps) <=> v < 0

\* The number before the point fits into a long.
LEMMA WholeFits ==
  ASSUME NEW P \in Nat \ {0}, NEW F \in Nat, F >= 10, NEW top \in Nat \ {0},
         NEW a \in 0 .. (top - 1) * P
  PROVE  /\ P * F \in Nat \ {0} /\ a * F + 5 * P \in Nat
         /\ (a * F + 5 * P) \div (P * F) \in 0 .. top - 1
<1> DEFINE One == P * F
           x == a * F
           number == x + 5 * P
           q == number \div One
           m == number % One
           k == top - 1
           M == k * P
<1>1. k \in Nat /\ M \in Nat /\ a \in Nat /\ a <= M /\ x \in Nat
  BY TimesIs
<1>2. One \in Nat /\ One >= P * 10
  BY ProductGrows
<1>3. One \in Nat \ {0} /\ 5 * P < One
  <2> HIDE DEF One
  <2> QED BY <1>2
<1>4. number \in Nat
  <2> HIDE DEF x
  <2> QED BY <1>1
<1>5. M * F = k * One
  BY <1>1, Distributes
<1>6. x <= M * F
  <2> HIDE DEF k, M
  <2> QED BY <1>1, ProductGrows
<1> DEFINE y == k * One
<1>7. y \in Nat /\ x <= y
  <2>1. k * One \in Nat
    <3> HIDE DEF k, One
    <3> QED BY <1>1, <1>2, TimesIs
  <2> HIDE DEF x, k, M, One
  <2> QED BY <1>5, <1>6, <2>1
<1> HIDE DEF One, x, y
<1>8. number < y + One
  BY <1>1, <1>3, <1>7
<1>9. number = One * q + m /\ q \in Int /\ m \in 0 .. One - 1
  <2> HIDE DEF number
  <2> QED BY <1>3, <1>4, DivLaw
<1> HIDE DEF number, q, m
<1>10. y + One = One * top
  <2>1. top = k + 1
    OBVIOUS
  <2> HIDE DEF k
  <2>2. One * (k + 1) = One * k + One
    BY <1>1, <1>3
  <2>3. One * k = y
    BY <1>1, <1>3 DEF y
  <2> QED BY <2>1, <2>2, <2>3
<1>11. q \in 0 .. top - 1
  <2> DEFINE w == One * q
  <2>1. q < 0 => w <= One * (-1)
    BY <1>3, <1>9
  <2>2. q >= top => w >= One * top
    BY <1>3, <1>9
  <2>3. w \in Int /\ One * top \in Int /\ One * (-1) = -One
    BY <1>3, <1>9
  <2> DEFINE z == One * top
  <2> HIDE DEF w, z
  <2>4. number < z /\ number = w + m /\ number \in Nat
    BY <1>4, <1>8, <1>9, <1>10 DEF w, z
  <2>5. q < 0 => w <= -One
    BY <2>1, <2>3
  <2>6. q >= top => w >= z
    BY <2>2 DEF z
  <2> QED BY <1>3, <1>9, <2>3, <2>4, <2>5, <2>6 DEF z
<1> QED BY <1>3, <1>4, <1>11 DEF One, x, number, q

\* The pieces: a sign, the digits before the point, the point, and the places behind it.
LEMMA TwoJoins ==
  ASSUME NEW S, NEW x \in Seq(S), NEW y \in Seq(S), NEW z \in Seq(S)
  PROVE  Join(Join(x, y), z) = Join(x, Join(y, z))
BY ConcatAssociative DEF Join

LEMMA ListsRegroup ==
  ASSUME NEW S, NEW w \in Seq(S), NEW x \in Seq(S), NEW y \in Seq(S), NEW z \in Seq(S)
  PROVE  /\ Join(Join(Join(w, x), y), z) = Join(w, Join(x, Join(y, z)))
         /\ Join(w, Join(x, Join(y, z))) \in Seq(S) /\ Join(x, Join(y, z)) \in Seq(S)
         /\ Join(y, z) \in Seq(S)
<1> DEFINE yz == Join(y, z)
           wx == Join(w, x)
           all == Join(x, yz)
<1>1. yz \in Seq(S) /\ wx \in Seq(S)
  BY DEF Join
<1>2. Join(wx, yz) = Join(Join(wx, y), z)
  <2> HIDE DEF wx
  <2>1. Join(Join(wx, y), z) = Join(wx, Join(y, z))
    BY ONLY <1>1, TwoJoins, y \in Seq(S), z \in Seq(S)
  <2> QED BY ONLY <2>1 DEF yz
<1> HIDE DEF yz
<1>3. Join(wx, yz) = Join(w, all)
  <2>1. Join(Join(w, x), yz) = Join(w, Join(x, yz))
    BY ONLY <1>1, TwoJoins, w \in Seq(S), x \in Seq(S)
  <2> QED BY ONLY <2>1 DEF wx, all
<1>4. all \in Seq(S)
  BY <1>1 DEF Join
<1> HIDE DEF all
<1>5. Join(w, all) \in Seq(S)
  BY <1>4 DEF Join
<1> QED BY <1>1, <1>2, <1>3, <1>4, <1>5 DEF all, yz, wx

SignOf(v) == IF v < 0 THEN <<<<Minus>>>> ELSE <<>>
PointOf(digits) == IF digits > 0 THEN <<<<Dot>>>> ELSE <<>>

PiecesOf(v, digits, number, One) ==
  IF v > Overflow \/ v < -Overflow THEN <<Ovf>>
  ELSE SignOf(v) \o <<PrintNumber((number \div One) % Pow2, 10)>> \o PointOf(digits)
       \o [i \in 1 .. digits |-> PrintNumber((10 * Remaining(number, One, digits)[i - 1]) \div One, 10)]

LEMMA FloatShape ==
  ASSUME NEW v \in -Overflow .. Overflow, NEW digits \in Nat, NEW number \in Nat, NEW One \in Nat \ {0},
         Overflow \in Nat, NEW a, a = IF v < 0 THEN -v ELSE v,
         One = Parts * Power(10, digits + 1), number = a * Power(10, digits + 1) + 5 * Parts
  PROVE  FloatPieces(v, digits) =
           Join(Join(Join(SignOf(v), <<Digits((number \div One) % Pow2, 10)>>), PointOf(digits)),
                Ones(Fraction(number, One, digits)))
<1> DEFINE p == Remaining(number, One, digits)
           ds == Fraction(number, One, digits)
           fr == [i \in 1 .. digits |-> PrintNumber((10 * p[i - 1]) \div One, 10)]
<1>1. FloatPieces(v, digits) =
        Join(Join(Join(SignOf(v), <<PrintNumber((number \div One) % Pow2, 10)>>), PointOf(digits)), fr)
  <2>1. ~(v > Overflow \/ v < -Overflow)
    OBVIOUS
  <2>2. FloatPieces(v, digits) =
          PiecesOf(v, digits, (IF v < 0 THEN -v ELSE v) * Power(10, digits + 1) + 5 * Parts,
                   Parts * Power(10, digits + 1))
    BY DEF FloatPieces, PiecesOf, Remaining, Remains, SignOf, PointOf
  <2>3. FloatPieces(v, digits) = PiecesOf(v, digits, number, One)
    BY <2>2
  <2> QED BY <2>1, <2>3, Zenon DEF PiecesOf, Join
<1>2. \A n : PrintNumber(n, 10) = Digits(n, 10)
  BY DEF PrintNumber
<1>3. ds = [i \in 1 .. digits |-> (10 * p[i - 1]) \div One] /\ Len(ds) = digits /\ ds \in Seq(0 .. 9)
  <2>1. IsFraction(ds, p, One, digits)
    BY FractionIs
  <2>2. ds = [i \in 1 .. digits |-> (10 * p[i - 1]) \div One]
    BY DEF Fraction
  <2> HIDE DEF ds, p
  <2> QED BY ONLY <2>1, <2>2 DEF IsFraction
<1> HIDE DEF ds, p
<1>4. ASSUME NEW i \in 1 .. digits PROVE PrintNumber((10 * p[i - 1]) \div One, 10) = <<ds[i]>>
  <2> DEFINE d == (10 * p[i - 1]) \div One
  <2>1. ds[i] = d /\ ds[i] \in 0 .. 9
    BY <1>3
  <2> HIDE DEF d
  <2>2. Digits(d, 10) = <<d>>
    BY <2>1, DigitReads
  <2> QED BY <1>2, <2>1, <2>2 DEF d
<1>5. fr = Ones(ds)
  <2>1. Ones(ds) = [i \in 1 .. digits |-> <<ds[i]>>]
    BY <1>3 DEF Ones
  <2> QED BY <1>4, <2>1
<1> HIDE DEF fr
<1> QED BY <1>1, <1>2, <1>5 DEF ds

\* The text of the digits before the point, and of all of them.
HasDigits(ps, v, digits, w) ==
  LET u == Behind(FlattenSeq(ps)) IN
  /\ ps \in Piecewise
  /\ u # FlattenSeq(ps) <=> v < 0
  /\ digits > 0 => u[Len(u) - digits] = Dot
  /\ w = IF digits > 0 THEN RemoveAt(u, Len(u) - digits) ELSE u

LEMMA FloatFlat ==
  ASSUME NEW v \in Int, NEW digits \in Nat, NEW t \in Seq(0 .. 9), t # <<>>, NEW ds \in Seq(0 .. 9), Len(ds) = digits
  PROVE  HasDigits(Join(Join(Join(SignOf(v), <<t>>), PointOf(digits)), Ones(ds)), v, digits, Join(t, ds))
<1> DEFINE S == Chars \ {<<>>}
           sign == SignOf(v)
           whole == <<t>>
           point == PointOf(digits)
           fr == Ones(ds)
           mid == IF digits > 0 THEN Join(<<Dot>>, ds) ELSE <<>>
           all == Join(t, mid)
           ps == Join(Join(Join(sign, whole), point), fr)
           back == Join(point, fr)
           rest == Join(whole, back)
<1>1. t \in Chars /\ ds \in Chars /\ t \in S /\ digits = Len(ds)
  BY DEF Chars
<1>2. /\ <<Minus>> \in S /\ <<Dot>> \in S /\ Len(<<Dot>>) = 1
  BY DEF Chars, Minus, Dot
<1>3. whole \in Seq(S)
  BY <1>1
<1>4. sign \in Seq(S) /\ point \in Seq(S)
  <2> DEFINE a == <<Minus>>
             b == <<Dot>>
  <2>1. a \in S /\ b \in S
    BY <1>2
  <2> HIDE DEF a, b, S
  <2>2. <<a>> \in Seq(S) /\ <<b>> \in Seq(S) /\ <<>> \in Seq(S)
    BY <2>1
  <2> QED BY <2>2 DEF SignOf, PointOf, a, b
<1>5. fr \in Seq(S) /\ fr \in Seq(Chars) /\ FlattenSeq(fr) = ds
  <2>1. FlattenSeq(fr) = ds /\ fr \in Seq(Chars)
    BY <1>1, FlatOnes
  <2>2. fr = [i \in 1 .. digits |-> <<ds[i]>>]
    BY <1>1 DEF Ones
  <2>3. \A i \in 1 .. digits : <<ds[i]>> \in S
    BY DEF Chars
  <2> HIDE DEF S, fr
  <2>4. fr \in Seq(S)
    BY <2>2, <2>3
  <2> QED BY <2>1, <2>4
<1>6. /\ ps = Join(sign, rest) /\ ps \in Seq(S) /\ rest \in Seq(S) /\ back \in Seq(S)
  <2> HIDE DEF S, sign, whole, point, fr
  <2> QED BY <1>3, <1>4, <1>5, ListsRegroup
<1>7. ps \in Piecewise
  BY <1>6 DEF Piecewise
<1>8. S \subseteq Chars /\ \A w : w \in Seq(S) => w \in Seq(Chars)
  OBVIOUS
<1> HIDE DEF S, fr
<1>9. FlattenSeq(back) = mid
  <2>1. CASE digits > 0
    <3> DEFINE b == <<Dot>>
    <3>1. b \in Chars
      BY <1>2, <1>8
    <3> HIDE DEF b
    <3>2. back = <<b>> \o fr
      BY <2>1 DEF PointOf, Join, b
    <3>3. FlattenSeq(<<b>> \o fr) = Join(b, FlattenSeq(fr))
      BY <1>5, <3>1, FlatPrepend
    <3> QED BY ONLY <2>1, <3>2, <3>3, <1>5 DEF b
  <2>2. CASE ~(digits > 0)
    <3>1. back = fr
      <4>1. point = <<>>
        BY <2>2 DEF PointOf
      <4>2. <<>> \o fr = fr
        BY <1>5
      <4> HIDE DEF point
      <4> QED BY <4>1, <4>2 DEF Join
    <3>2. ds = <<>>
      BY <1>1, <2>2
    <3> HIDE DEF back
    <3> QED BY <3>1, <3>2, <2>2, <1>5
  <2> QED BY <2>1, <2>2
<1> HIDE DEF back
<1>10. FlattenSeq(rest) = all
  <2>1. rest = <<t>> \o back
    BY DEF Join
  <2>2. FlattenSeq(<<t>> \o back) = Join(t, FlattenSeq(back))
    BY <1>1, <1>6, <1>8, FlatPrepend
  <2> HIDE DEF mid, rest
  <2> QED BY ONLY <2>1, <2>2, <1>9
<1> HIDE DEF rest
<1>11. all \in Chars /\ all # <<>> /\ Head(all) # Minus
  <2>1. mid \in Chars
    <3>1. Join(<<Dot>>, ds) \in Chars
      BY <1>1, <1>2, <1>8, CharsJoin
    <3> QED BY <3>1 DEF Chars
  <2> HIDE DEF mid
  <2>2. /\ all \in Chars /\ Len(all) = Len(t) + Len(mid) /\ Len(t) \in Nat /\ Len(mid) \in Nat
        /\ \A k \in 1 .. Len(t) : all[k] = t[k]
    BY <1>1, <2>1, CharsJoin
  <2> HIDE DEF all
  <2>3. Len(t) >= 1 /\ t[1] \in 0 .. 9
    OBVIOUS
  <2>4. all[1] = t[1] /\ Len(all) >= 1
    BY <2>2, <2>3
  <2>5. Head(all) = all[1] /\ all # <<>>
    BY <2>2, <2>4 DEF Chars
  <2> QED BY <2>2, <2>3, <2>4, <2>5 DEF Minus
<1> HIDE DEF all
<1> DEFINE b == FlattenSeq(ps)
           u == Behind(b)
<1>12. u = all /\ (u # b <=> v < 0)
  <2>1. CASE v < 0
    <3> DEFINE m == <<Minus>>
    <3>1. m \in Chars
      BY <1>2, <1>8
    <3> HIDE DEF m
    <3>2. ps = <<m>> \o rest
      BY <1>6, <2>1 DEF SignOf, Join, m
    <3>3. FlattenSeq(<<m>> \o rest) = Join(m, FlattenSeq(rest))
      BY <1>6, <1>8, <3>1, FlatPrepend
    <3>4. b = Join(m, all)
      BY ONLY <3>2, <3>3, <1>10
    <3> HIDE DEF b
    <3> QED BY <1>11, <2>1, <3>4, SignIs DEF m
  <2>2. CASE ~(v < 0)
    <3>1. sign = <<>>
      BY <2>2 DEF SignOf
    <3>2. <<>> \o rest = rest
      BY <1>6
    <3>3. ps = rest
      BY <1>6, <3>1, <3>2 DEF Join
    <3>4. b = all
      BY <3>3, <1>10
    <3> HIDE DEF b
    <3> QED BY <1>11, <2>2, <3>4 DEF Behind
  <2> QED BY <2>1, <2>2
<1> HIDE DEF ps, u, b
<1>13. CASE digits > 0
  <2>1. all = Join(t, Join(<<Dot>>, ds))
    BY <1>13 DEF all
  <2>2. /\ Len(all) = Len(t) + 1 + Len(ds) /\ Len(t) \in Nat /\ Len(ds) \in Nat
        /\ all[Len(t) + 1] = Dot
        /\ RemoveAt(all, Len(t) + 1) = Join(t, ds)
    BY <1>1, <2>1, PointIs
  <2>3. Len(all) - digits = Len(t) + 1
    BY <1>1, <2>2
  <2>4. u[Len(u) - digits] = Dot /\ Join(t, ds) = RemoveAt(u, Len(u) - digits)
    BY ONLY <2>2, <2>3, <1>12
  <2>5. HasDigits(ps, v, digits, Join(t, ds))
    BY ONLY <1>7, <1>12, <1>13, <2>4 DEF u, b, HasDigits
  <2> QED BY <2>5 DEF ps, fr
<1>14. CASE ~(digits > 0)
  <2>1. ds = <<>>
    BY <1>1, <1>14
  <2>2. Join(t, ds) = u
    BY <1>12, <1>14, <2>1 DEF all
  <2>3. HasDigits(ps, v, digits, Join(t, ds))
    BY ONLY <1>7, <1>12, <1>14, <2>2 DEF u, b, HasDigits
  <2> QED BY <2>3 DEF ps, fr
<1> QED BY <1>13, <1>14

LEMMA FloatText ==
  ASSUME NEW v \in Int, NEW digits \in Nat
  PROVE  /\ FloatPieces(v, digits) \in Piecewise
         /\ v \in -Overflow .. Overflow => FloatIsRead(v, digits, FloatPieces(v, digits))
<1> DEFINE E == Power(10, digits)
           F == Power(10, digits + 1)
           One == Parts * F
           a == IF v < 0 THEN -v ELSE v
           number == a * F + 5 * Parts
           q == number \div One
           t == Digits(q, 10)
           ds == Fraction(number, One, digits)
           fp == FloatPieces(v, digits)
<1>1. Pow2 \in Nat \ {0} /\ Pow2 - 1 \in Nat /\ Parts \in Nat \ {0} /\ Overflow \in Nat
  <2>1. Pow2 \in Nat \ {0} /\ Pow2 - 1 \in Nat /\ Parts \in Nat \ {0}
    BY Pow2Is, PrintAssumption
  <2>2. (Pow2 - 1) * Parts \in Nat
    BY <2>1, TimesIs
  <2> QED BY <2>1, <2>2 DEF Overflow
<1>2. CASE v > Overflow \/ v < -Overflow
  <2>1. fp = <<Ovf>>
    BY <1>2, Zenon DEF FloatPieces
  <2>2. Ovf \in Chars \ {<<>>}
    BY DEF Ovf, Chars
  <2> DEFINE o == Ovf
  <2> HIDE DEF o
  <2>3. <<o>> \in Piecewise
    BY <2>2 DEF Piecewise, o
  <2>4. ~(v \in -Overflow .. Overflow)
    BY <1>1, <1>2
  <2> QED BY <2>1, <2>3, <2>4 DEF o
<1>3. CASE ~(v > Overflow \/ v < -Overflow)
  <2>1. E \in Nat \ {0} /\ F = 10 * E /\ F \in Nat /\ F >= 10
    <3>1. 10 \in Nat \ {0}
      OBVIOUS
    <3>2. E \in Nat /\ E >= 1 /\ F = 10 * E
      BY ONLY <3>1, PowerIs, digits \in Nat
    <3> HIDE DEF E, F
    <3> QED BY ONLY <3>2
  <2>2. v \in -Overflow .. Overflow /\ a \in 0 .. (Pow2 - 1) * Parts
    BY <1>1, <1>3 DEF Overflow
  <2> HIDE DEF E, F, a
  <2>3. One \in Nat \ {0} /\ number \in Nat /\ q \in 0 .. Pow2 - 1
    BY ONLY <1>1, <2>1, <2>2, WholeFits
  <2>4. q % Pow2 = q
    <3> HIDE DEF q
    <3> QED BY ONLY <1>1, <2>3, ModSmall
  <2>5. t \in Seq(0 .. 9) /\ t # <<>> /\ ReadBack(t, 10) = q
    <3> HIDE DEF q
    <3>1. IsTextOf(t, q, 10)
      BY <2>3, DigitsReadBack
    <3>2. t \in Seq(0 .. 10 - 1) /\ t # <<>> /\ ReadBack(t, 10) = q
      BY <3>1 DEF IsTextOf
    <3>3. 10 - 1 = 9
      OBVIOUS
    <3> HIDE DEF t
    <3> QED BY ONLY <3>2, <3>3
  <2>6. ds \in Seq(0 .. 9) /\ Len(ds) = digits
    <3> HIDE DEF number, One
    <3>1. IsFraction(ds, Remaining(number, One, digits), One, digits)
      BY <2>3, FractionIs
    <3> QED BY <3>1 DEF IsFraction
  <2>7. fp = Join(Join(Join(SignOf(v), <<t>>), PointOf(digits)), Ones(ds))
    <3>1. One = Parts * Power(10, digits + 1) /\ number = a * Power(10, digits + 1) + 5 * Parts
      BY DEF F
    <3>2. a = IF v < 0 THEN -v ELSE v
      BY DEF a
    <3> HIDE DEF number, One, ds, fp
    <3>3. FloatPieces(v, digits) =
            Join(Join(Join(SignOf(v), <<Digits((number \div One) % Pow2, 10)>>), PointOf(digits)),
                 Ones(Fraction(number, One, digits)))
      <4>1. /\ v \in -Overflow .. Overflow /\ digits \in Nat /\ number \in Nat /\ One \in Nat \ {0}
            /\ Overflow \in Nat
        BY <1>1, <2>2, <2>3
      <4> QED BY ONLY <3>1, <3>2, <4>1, FloatShape, SMTT(30)
    <3>4. fp = Join(Join(Join(SignOf(v), <<Digits((number \div One) % Pow2, 10)>>), PointOf(digits)), Ones(ds))
      BY ONLY <3>3 DEF fp, ds
    <3> QED BY <2>4, <3>4
  <2> DEFINE u == Behind(FlattenSeq(fp))
             figures == IF digits > 0 THEN RemoveAt(u, Len(u) - digits) ELSE u
             R == ReadBack(figures, 10)
  <2>8. /\ fp \in Piecewise /\ (u # FlattenSeq(fp) <=> v < 0)
        /\ digits > 0 => u[Len(u) - digits] = Dot
        /\ Join(t, ds) = figures
    <3> HIDE DEF t, ds, fp
    <3>1. HasDigits(fp, v, digits, Join(t, ds))
      BY ONLY <2>5, <2>6, <2>7, FloatFlat, v \in Int, digits \in Nat
    <3> QED BY ONLY <3>1 DEF HasDigits, u, figures
  <2>9. /\ figures \in Seq(0 .. 9) /\ R \in Nat
        /\ \E r \in 0 .. One - 1 : R * One + r = number * E
    <3> HIDE DEF t, number, One, figures
    <3>1. /\ Join(t, ds) \in Seq(0 .. 9) /\ ReadBack(Join(t, ds), 10) \in Nat
          /\ \E r \in 0 .. One - 1 : ReadBack(Join(t, ds), 10) * One + r = number * Power(10, digits)
      BY ONLY <2>3, <2>5, FractionReads, digits \in Nat DEF q
    <3> HIDE DEF ds
    <3> QED BY ONLY <2>8, <3>1 DEF E
  <2>10. AreDigits(figures, 10)
    <3> HIDE DEF figures
    <3> QED BY <2>9 DEF AreDigits
  <2>11. 2 * (R * Parts - a * E) \in -Parts .. Parts
    <3> HIDE DEF R
    <3>1. PICK r \in 0 .. One - 1 : R * One + r = number * E
      BY <2>9
    <3>2. One = Parts * (10 * E) /\ number = a * (10 * E) + 5 * Parts
      BY <2>1
    <3> HIDE DEF One, number
    <3>3. /\ r \in 0 .. Parts * (10 * E) - 1
          /\ R * (Parts * (10 * E)) + r = (a * (10 * E) + 5 * Parts) * E
      BY ONLY <3>1, <3>2
    <3>4. a \in Nat /\ R \in Nat /\ Parts \in Nat \ {0} /\ E \in Nat \ {0}
      BY <1>1, <2>1, <2>2, <2>9
    <3> QED BY ONLY <3>3, <3>4, IsNearest
  <2>12. FloatIsRead(v, digits, fp)
    <3> HIDE DEF fp
    <3> QED BY ONLY <2>8, <2>10, <2>11 DEF FloatIsRead, E, a, R, figures, u
  <2> QED BY <2>8, <2>12
<1> QED BY <1>2, <1>3

(***************************************************************************)
(* Calls of print(), character by character: what is out and what is still *)
(* to be written make up the text, unless a character was refused.         *)
(***************************************************************************)

\* The text of a call, and what has been written of it: if nothing was refused, what is
\* written and what is still to be written make it up; otherwise they are too short.
Wanted(call) == IF call[1] = "long" THEN LongPieces(call[2], call[3]) ELSE FloatPieces(call[2], call[3])
AllPieces(call) == IF call[4] THEN Append(Wanted(call), CrLf) ELSE Wanted(call)
Asked(call) ==
  \/ \E n \in Long, base \in Base, line \in BOOLEAN : call = <<"long", n, base, line>>
  \/ \E v \in Int, d \in Nat, line \in BOOLEAN : call = <<"float", v, d, line>>

Written(o, ps, c, w) ==
  /\ o \in Chars /\ ps \in Piecewise /\ c = Len(o)
  /\ Len(o) + Len(FlattenSeq(ps)) <= Len(w)
  /\ Len(o) + Len(FlattenSeq(ps)) = Len(w) => Join(o, FlattenSeq(ps)) = w

PrintInv ==
  \/ asked = <<"none">> /\ pieces = <<>> /\ out = <<>> /\ count = 0
  \/ Asked(asked) /\ Written(out, pieces, count, FlattenSeq(AllPieces(asked)))

LEMMA HeadPiece ==
  ASSUME NEW ps \in Piecewise, ps # <<>>
  PROVE  /\ Head(ps) \in Chars /\ Head(ps) # <<>> /\ Tail(ps) \in Piecewise
         /\ FlattenSeq(ps) = Join(Head(ps), FlattenSeq(Tail(ps)))
<1> DEFINE h == Head(ps)
           qs == Tail(ps)
<1>1. h \in Chars \ {<<>>} /\ qs \in Piecewise /\ ps = <<h>> \o qs
  BY DEF Piecewise
<1> HIDE DEF h, qs
<1>2. qs \in Seq(Chars)
  BY <1>1, PiecesAre
<1>3. FlattenSeq(<<h>> \o qs) = Join(h, FlattenSeq(qs))
  BY <1>1, <1>2, FlatPrepend
<1> QED BY <1>1, <1>3 DEF h, qs

LEMMA CharRefused ==
  ASSUME NEW o, NEW ps, NEW c, NEW w \in Chars, Written(o, ps, c, w), ps # <<>>
  PROVE  Written(o, <<>> \o Tail(ps), c, w)
<1> DEFINE h == Head(ps)
           qs == Tail(ps)
           x == FlattenSeq(qs)
<1>1. /\ o \in Chars /\ ps \in Piecewise /\ c = Len(o)
      /\ Len(o) + Len(FlattenSeq(ps)) <= Len(w)
  BY DEF Written
<1>2. h \in Chars /\ h # <<>> /\ qs \in Piecewise /\ FlattenSeq(ps) = Join(h, x)
  BY <1>1, HeadPiece
<1> HIDE DEF h, qs
<1>3. x \in Chars
  BY <1>2, PiecesAre, FlatChars
<1> HIDE DEF x
<1>4. Len(Join(h, x)) = Len(h) + Len(x) /\ Len(h) \in Nat /\ Len(x) \in Nat
  BY <1>2, <1>3, CharsJoin
<1>5. Len(h) >= 1
  BY <1>2 DEF Chars
<1>6. Len(o) \in Nat /\ Len(w) \in Nat
  BY <1>1 DEF Chars
<1>7. Len(o) + Len(x) < Len(w)
  BY ONLY <1>1, <1>2, <1>4, <1>5, <1>6
<1>8. <<>> \o qs = qs
  BY <1>2 DEF Piecewise
<1>9. Written(o, qs, c, w)
  BY ONLY <1>1, <1>2, <1>4, <1>6, <1>7 DEF Written, x
<1> QED BY <1>8, <1>9 DEF qs

LEMMA CharTaken ==
  ASSUME NEW o, NEW ps, NEW c, NEW w \in Chars, Written(o, ps, c, w), ps # <<>>,
         NEW rest, rest = Tail(Head(ps))
  PROVE  Written(Append(o, Head(Head(ps))), (IF rest = <<>> THEN <<>> ELSE <<rest>>) \o Tail(ps), c + 1, w)
<1> DEFINE h == Head(ps)
           qs == Tail(ps)
           x == FlattenSeq(qs)
           d == Head(h)
           y == <<d>>
           o2 == Append(o, d)
           ps2 == (IF rest = <<>> THEN <<>> ELSE <<rest>>) \o qs
<1>1. /\ o \in Chars /\ ps \in Piecewise /\ c = Len(o)
      /\ Len(o) + Len(FlattenSeq(ps)) <= Len(w)
      /\ Len(o) + Len(FlattenSeq(ps)) = Len(w) => Join(o, FlattenSeq(ps)) = w
  BY DEF Written
<1>2. h \in Chars /\ h # <<>> /\ qs \in Piecewise /\ FlattenSeq(ps) = Join(h, x)
  BY <1>1, HeadPiece
<1>3. rest = Tail(h)
  OBVIOUS
<1> HIDE DEF h, qs
<1>4. x \in Chars /\ qs \in Seq(Chars)
  BY <1>2, PiecesAre, FlatChars
<1>5. d \in Int /\ rest \in Chars /\ h = <<d>> \o rest
  <2>1. h \in Seq(Int) /\ h # <<>>
    BY <1>2 DEF Chars
  <2>2. Head(h) \in Int /\ Tail(h) \in Seq(Int) /\ h = <<Head(h)>> \o Tail(h)
    BY ONLY <2>1
  <2> QED BY ONLY <2>2, <1>3 DEF Chars, d
<1> HIDE DEF d
<1>6. y \in Chars /\ Len(y) = 1 /\ h = Join(y, rest)
  BY <1>5 DEF Chars, Join
<1>7. o2 = Join(o, y) /\ o2 \in Chars /\ Len(o2) = Len(o) + 1 /\ Len(o) \in Nat
  <2>1. o \in Seq(Int) /\ d \in Int
    BY <1>1, <1>5 DEF Chars
  <2>2. Append(o, d) = o \o <<d>> /\ Append(o, d) \in Seq(Int) /\ Len(Append(o, d)) = Len(o) + 1 /\ Len(o) \in Nat
    BY ONLY <2>1
  <2> QED BY ONLY <2>2 DEF Chars, Join, o2, y
<1> HIDE DEF y, o2, x
<1>8. ps2 \in Piecewise /\ FlattenSeq(ps2) = Join(rest, x)
  <2>1. CASE rest = <<>>
    <3>1. ps2 = qs
      BY <1>2, <2>1 DEF Piecewise
    <3>2. Join(rest, x) = x
      BY <1>4, <2>1, CharsNone
    <3> HIDE DEF ps2
    <3> QED BY <1>2, <3>1, <3>2 DEF x
  <2>2. CASE rest # <<>>
    <3>1. ps2 = <<rest>> \o qs
      BY <2>2
    <3>2. FlattenSeq(<<rest>> \o qs) = Join(rest, x)
      BY <1>4, <1>5, FlatPrepend DEF x
    <3>3. <<rest>> \o qs \in Piecewise
      <4> DEFINE S == Chars \ {<<>>}
      <4>1. rest \in S /\ qs \in Seq(S)
        BY <1>2, <1>5, <2>2 DEF Piecewise
      <4> HIDE DEF S
      <4>2. <<rest>> \o qs \in Seq(S)
        BY <4>1
      <4> QED BY <4>2 DEF S, Piecewise
    <3> HIDE DEF ps2
    <3> QED BY ONLY <3>1, <3>2, <3>3
  <2> QED BY <2>1, <2>2
<1> HIDE DEF ps2
<1>9. Join(o, FlattenSeq(ps)) = Join(o2, FlattenSeq(ps2)) /\ Len(FlattenSeq(ps)) = 1 + Len(FlattenSeq(ps2))
      /\ Len(FlattenSeq(ps2)) \in Nat
  <2> DEFINE z == Join(rest, x)
             k == Join(y, z)
  <2>1. Join(h, x) = k
    <3>1. Join(Join(y, rest), x) = Join(y, Join(rest, x))
      BY <1>4, <1>5, <1>6, CharsRegroup
    <3> QED BY <3>1, <1>6
  <2>2. z \in Chars
    BY <1>4, <1>5, CharsJoin
  <2> HIDE DEF z
  <2>3. k \in Chars /\ Len(k) = 1 + Len(z) /\ Len(z) \in Nat
    <3>1. k \in Chars /\ Len(k) = Len(y) + Len(z) /\ Len(z) \in Nat
      BY <1>6, <2>2, CharsJoin
    <3> HIDE DEF k
    <3> QED BY <3>1, <1>6
  <2>4. Join(o, k) = Join(o2, z)
    BY <1>1, <1>6, <1>7, <2>2, CharsRegroup
  <2> HIDE DEF k
  <2> QED BY ONLY <1>2, <1>8, <2>1, <2>3, <2>4 DEF z
<1>10. Written(o2, ps2, c + 1, w)
  <2> DEFINE s == Len(FlattenSeq(ps))
             s2 == Len(FlattenSeq(ps2))
             l == Len(o)
             n == Len(w)
  <2>1. s2 \in Nat /\ s = 1 + s2 /\ l \in Nat /\ n \in Nat /\ Len(o2) = l + 1 /\ c = l /\ l + s <= n
    BY <1>1, <1>7, <1>9 DEF Chars
  <2>2. l + s = n => Join(o2, FlattenSeq(ps2)) = w
    BY <1>1, <1>9
  <2> HIDE DEF s, l, n
  <2>3. c + 1 = Len(o2) /\ Len(o2) + s2 <= n /\ (Len(o2) + s2 = n => l + s = n)
    BY ONLY <2>1
  <2> QED BY ONLY <1>7, <1>8, <2>2, <2>3 DEF Written, s2, n
<1> QED BY <1>10 DEF o2, ps2, d, h, qs

LEMMA CallIs ==
  ASSUME NEW call, Asked(call)
  PROVE  /\ Wanted(call) \in Piecewise /\ AllPieces(call) \in Piecewise
         /\ call[4] \in BOOLEAN /\ call # <<"none">>
<1>1. Wanted(call) \in Piecewise /\ call[4] \in BOOLEAN /\ call # <<"none">>
  <2>1. CASE \E n \in Long, base \in Base, line \in BOOLEAN : call = <<"long", n, base, line>>
    <3>1. PICK n \in Long, base \in Base, line \in BOOLEAN : call = <<"long", n, base, line>>
      BY <2>1
    <3>2. base \in Nat
      BY PrintAssumption
    <3>3. LongPieces(n, base) \in Piecewise
      BY <3>2, LongText
    <3>4. call[1] = "long" /\ call[2] = n /\ call[3] = base /\ call[4] = line /\ Len(call) = 4
      BY <3>1
    <3>5. Wanted(call) = LongPieces(n, base)
      BY <3>4 DEF Wanted
    <3>6. call # <<"none">>
      BY <3>4
    <3> QED BY <3>3, <3>4, <3>5, <3>6
  <2>2. CASE \E v \in Int, d \in Nat, line \in BOOLEAN : call = <<"float", v, d, line>>
    <3>1. PICK v \in Int, d \in Nat, line \in BOOLEAN : call = <<"float", v, d, line>>
      BY <2>2
    <3>2. FloatPieces(v, d) \in Piecewise
      BY FloatText
    <3>3. call[1] = "float" /\ call[2] = v /\ call[3] = d /\ call[4] = line /\ Len(call) = 4
      BY <3>1
    <3>4. Wanted(call) = FloatPieces(v, d)
      BY <3>3 DEF Wanted
    <3>5. call # <<"none">>
      BY <3>3
    <3> QED BY <3>2, <3>3, <3>4, <3>5
  <2> QED BY <2>1, <2>2 DEF Asked
<1>2. CrLf \in Chars \ {<<>>}
  BY DEF CrLf, Chars
<1>3. Append(Wanted(call), CrLf) \in Piecewise
  <2> DEFINE S == Chars \ {<<>>}
             w == Wanted(call)
             e == CrLf
  <2>1. w \in Seq(S) /\ e \in S
    BY <1>1, <1>2 DEF Piecewise
  <2> HIDE DEF S, w, e
  <2>2. Append(w, e) \in Seq(S)
    BY <2>1
  <2> QED BY <2>2 DEF S, w, e, Piecewise
<1> QED BY <1>1, <1>3 DEF AllPieces

\* When a call is over and nothing was refused, its text is out.
LEMMA LineIs ==
  ASSUME NEW x \in Chars
  PROVE  LET y == Join(x, CrLf) IN
         Len(y) = Len(x) + 2 /\ SubSeq(y, 1, Len(y) - 2) = x
<1> DEFINE y == Join(x, CrLf)
           n == Len(x)
           front == SubSeq(y, 1, n)
<1>1. CrLf \in Chars /\ Len(CrLf) = 2
  BY DEF CrLf, Chars
<1>2. /\ y \in Chars /\ Len(y) = n + 2 /\ n \in Nat
      /\ \A k \in 1 .. n : y[k] = x[k]
  <2>1. /\ y \in Chars /\ Len(y) = n + Len(CrLf) /\ n \in Nat
        /\ \A k \in 1 .. n : y[k] = x[k]
    BY <1>1, CharsJoin
  <2> HIDE DEF y
  <2> QED BY <1>1, <2>1
<1> HIDE DEF y
<1>3. \A i \in 1 .. n : y[i] \in Int
  <2>1. x \in Seq(Int)
    BY DEF Chars
  <2> QED BY <1>2, <2>1
<1>4. /\ front \in Seq(Int) /\ Len(front) = IF 1 <= n THEN n - 1 + 1 ELSE 0
      /\ \A i \in 1 .. n - 1 + 1 : front[i] = y[1 + i - 1]
  BY <1>2, <1>3, SubSeqProperties
<1> HIDE DEF front
<1>5. n - 1 + 1 = n /\ \A i \in 1 .. n : 1 + i - 1 = i
  BY <1>2
<1>6. front \in Chars /\ Len(front) = n /\ \A k \in 1 .. n : front[k] = x[k]
  BY <1>2, <1>4, <1>5 DEF Chars
<1>7. front = x
  BY <1>6, SameChars
<1>8. Len(y) - 2 = n
  BY <1>2
<1> QED BY <1>2, <1>7, <1>8 DEF front, y

LEMMA BodyIs ==
  ASSUME Asked(asked), Written(out, pieces, count, FlattenSeq(AllPieces(asked))), AllOut(Wanted(asked))
  PROVE  Body = FlattenSeq(Wanted(asked))
<1> DEFINE x == FlattenSeq(Wanted(asked))
           w == FlattenSeq(AllPieces(asked))
<1>1. x \in Chars /\ Len(x) \in Nat /\ asked[4] \in BOOLEAN /\ Wanted(asked) \in Seq(Chars)
  BY CallIs, PiecesAre, FlatChars
<1>2. pieces = <<>> /\ count = Len(x) + (IF asked[4] THEN 2 ELSE 0)
  BY DEF AllOut, WithLine
<1>3. FlattenSeq(pieces) = <<>> /\ Len(FlattenSeq(pieces)) = 0
  BY <1>2, FlatNone
<1>4. out \in Chars /\ count = Len(out) /\ (Len(out) + 0 = Len(w) => Join(out, <<>>) = w)
  BY <1>3 DEF Written
<1>5. Join(out, <<>>) = out
  BY <1>4, CharsNone
<1>6. CASE asked[4]
  <2>1. CrLf \in Chars
    BY DEF CrLf, Chars
  <2>2. w = Join(x, CrLf)
    BY <1>1, <1>6, <2>1, FlatAppend DEF AllPieces
  <2>3. Len(w) = Len(x) + 2 /\ SubSeq(w, 1, Len(w) - 2) = x
    BY <1>1, <2>2, LineIs
  <2> HIDE DEF w, x
  <2>4. out = w
    BY <1>1, <1>2, <1>4, <1>5, <1>6, <2>3
  <2>5. Body = SubSeq(out, 1, Len(out) - 2)
    BY <1>6 DEF Body, WithLine
  <2> QED BY <2>3, <2>4, <2>5 DEF x
<1>7. CASE ~asked[4]
  <2>1. w = x
    BY <1>7 DEF AllPieces
  <2> HIDE DEF w, x
  <2>2. out = w
    BY <1>1, <1>2, <1>4, <1>5, <1>7, <2>1
  <2>3. Body = out
    BY <1>7 DEF Body, WithLine
  <2> QED BY <2>1, <2>2, <2>3 DEF x
<1> QED BY <1>1, <1>6, <1>7

(***************************************************************************)
(* Every step.                                                             *)
(***************************************************************************)

\* A call starts with all of its text to be written.
LEMMA PrintStarts ==
  ASSUME NEW call, Asked(call), PrintInv, asked = <<"none">>,
         asked' = call, pieces' = AllPieces(call), UNCHANGED <<out, count>>
  PROVE  PrintInv'
<1> DEFINE w == FlattenSeq(AllPieces(call))
<1>1. out = <<>> /\ count = 0
  <2>1. ~Asked(asked)
    BY CallIs
  <2> QED BY <2>1 DEF PrintInv
<1>2. AllPieces(call) \in Piecewise
  BY CallIs
<1>3. w \in Chars /\ Len(w) \in Nat
  BY <1>2, PiecesAre, FlatChars
<1>4. <<>> \in Chars /\ Len(<<>>) = 0
  BY DEF Chars
<1>5. Join(<<>>, w) = w
  BY <1>3, CharsNone
<1>6. Written(<<>>, AllPieces(call), 0, w)
  <2> HIDE DEF w
  <2>1. 0 + Len(w) = Len(w) /\ 0 + Len(w) <= Len(w)
    BY <1>3
  <2> QED BY ONLY <1>2, <1>4, <1>5, <2>1 DEF Written, w
<1>7. out' = <<>> /\ count' = 0
  BY <1>1
<1>8. Asked(asked)' /\ AllPieces(asked)' = AllPieces(call) /\ pieces' = AllPieces(call)
  <2>1. asked' = call
    OBVIOUS
  <2>2. Asked(asked') /\ AllPieces(asked') = AllPieces(call)
    BY <2>1
  <2> QED BY <2>2 DEF Asked, AllPieces, Wanted
<1> QED BY <1>6, <1>7, <1>8 DEF PrintInv, Written

LEMMA PrintInvStep ==
  ASSUME PrintInv, [PrintNext]_printVars
  PROVE  PrintInv'
<1>1. ASSUME NEW line \in BOOLEAN, NEW n \in Long, NEW base \in Base, PrintLong(n, base, line)
      PROVE  PrintInv'
  <2> DEFINE call == <<"long", n, base, line>>
  <2>1. Asked(call)
    BY DEF Asked
  <2>2. Wanted(call) = LongPieces(n, base) /\ call[4] = line
    BY DEF Wanted
  <2>3. /\ asked = <<"none">> /\ asked' = call /\ UNCHANGED <<out, count>>
        /\ pieces' = IF line THEN Append(LongPieces(n, base), CrLf) ELSE LongPieces(n, base)
    BY <1>1 DEF PrintLong, Start
  <2> HIDE DEF call
  <2>4. pieces' = AllPieces(call)
    BY <2>2, <2>3 DEF AllPieces
  <2> QED BY <2>1, <2>3, <2>4, PrintStarts
<1>2. ASSUME NEW line \in BOOLEAN, NEW v \in -(Overflow + 1) .. Overflow + 1, NEW d \in 0 .. MaxDigits,
             PrintFloat(v, d, line)
      PROVE  PrintInv'
  <2> DEFINE call == <<"float", v, d, line>>
  <2>1. Asked(call)
    <3>1. v \in Int /\ d \in Nat
      BY PrintAssumption
    <3> QED BY <3>1 DEF Asked
  <2>2. Wanted(call) = FloatPieces(v, d) /\ call[4] = line
    <3>1. call[1] # "long"
      OBVIOUS
    <3> QED BY <3>1 DEF Wanted
  <2>3. /\ asked = <<"none">> /\ asked' = call /\ UNCHANGED <<out, count>>
        /\ pieces' = IF line THEN Append(FloatPieces(v, d), CrLf) ELSE FloatPieces(v, d)
    BY <1>2 DEF PrintFloat, Start
  <2> HIDE DEF call
  <2>4. pieces' = AllPieces(call)
    BY <2>2, <2>3 DEF AllPieces
  <2> QED BY <2>1, <2>3, <2>4, PrintStarts
<1>3. ASSUME NEW taken \in BOOLEAN, WriteChar(taken) PROVE PrintInv'
  <2> DEFINE w == FlattenSeq(AllPieces(asked))
             rest == IF taken THEN Tail(Head(pieces)) ELSE <<>>
             ps2 == (IF rest = <<>> THEN <<>> ELSE <<rest>>) \o Tail(pieces)
  <2>1. /\ pieces # <<>> /\ pieces' = ps2 /\ asked' = asked
        /\ out' = IF taken THEN Append(out, Head(Head(pieces))) ELSE out
        /\ count' = IF taken THEN count + 1 ELSE count
    BY <1>3 DEF WriteChar
  <2>2. Asked(asked) /\ Written(out, pieces, count, w)
    BY <2>1 DEF PrintInv
  <2>3. w \in Chars
    BY <2>2, CallIs, PiecesAre, FlatChars
  <2> HIDE DEF w
  <2>4. Written(out', pieces', count', w)
    <3>1. CASE taken
      <4>1. rest = Tail(Head(pieces))
        BY <3>1
      <4> HIDE DEF rest
      <4>2. Written(Append(out, Head(Head(pieces))), ps2, count + 1, w)
        BY <2>1, <2>2, <2>3, <4>1, CharTaken
      <4> HIDE DEF ps2
      <4> QED BY ONLY <2>1, <3>1, <4>2
    <3>2. CASE ~taken
      <4>1. ps2 = <<>> \o Tail(pieces)
        BY <3>2
      <4> HIDE DEF ps2
      <4>2. Written(out, <<>> \o Tail(pieces), count, w)
        BY <2>1, <2>2, <2>3, CharRefused
      <4> QED BY ONLY <2>1, <3>2, <4>1, <4>2
    <3> QED BY <3>1, <3>2
  <2>5. Asked(asked') /\ FlattenSeq(AllPieces(asked')) = w
    BY <2>1, <2>2 DEF w
  <2>6. (Asked(asked) /\ Written(out, pieces, count, FlattenSeq(AllPieces(asked))))'
    BY <2>4, <2>5 DEF Asked, Written, AllPieces, Wanted
  <2> QED BY <2>6 DEF PrintInv
<1>4. CASE Return
  BY <1>4 DEF Return, PrintInv
<1>5. CASE UNCHANGED printVars
  <2>1. asked' = asked /\ pieces' = pieces /\ out' = out /\ count' = count
    BY <1>5 DEF printVars
  <2> QED BY <2>1 DEF PrintInv, Asked, Written, AllPieces, Wanted
<1> QED BY <1>1, <1>2, <1>3, <1>4, <1>5 DEF PrintNext

\* What the invariant says when all is out.
LEMMA PrintInvSays ==
  ASSUME PrintInv
  PROVE  NumbersReadBack
<1>1. CASE asked = <<"none">>
  <2>1. asked[1] = "none"
    BY <1>1
  <2> QED BY <2>1 DEF NumbersReadBack
<1>2. CASE Asked(asked) /\ Written(out, pieces, count, FlattenSeq(AllPieces(asked)))
  <2> DEFINE ps == Wanted(asked)
  <2>1. AllOut(ps) => Body = FlattenSeq(ps) /\ Unsigned = Behind(FlattenSeq(ps))
    <3>1. AllOut(ps) => Body = FlattenSeq(ps)
      BY <1>2, BodyIs
    <3> QED BY <3>1 DEF Unsigned, Behind
  <2>2. ASSUME NEW n \in Long, NEW base \in Base, NEW line \in BOOLEAN, asked = <<"long", n, base, line>>
        PROVE  NumbersReadBack
    <3>1. asked[1] = "long" /\ asked[2] = n /\ asked[3] = base
      BY <2>2
    <3>2. ps = LongPieces(n, base)
      BY <3>1 DEF Wanted
    <3>3. base # 0 => LongIsRead(n, base, ps)
      <4>1. base \in Nat
        BY PrintAssumption
      <4> QED BY <3>2, <4>1, LongText
    <3> HIDE DEF ps
    <3>4. base # 0 => LongReadsBack(n, base)
      BY <2>1, <3>2, <3>3, Zenon DEF LongIsRead, LongReadsBack
    <3> QED BY <3>1, <3>4 DEF NumbersReadBack
  <2>3. ASSUME NEW v \in Int, NEW d \in Nat, NEW line \in BOOLEAN, asked = <<"float", v, d, line>>
        PROVE  NumbersReadBack
    <3>1. asked[1] = "float" /\ asked[2] = v /\ asked[3] = d
      BY <2>3
    <3>2. ps = FloatPieces(v, d)
      BY <3>1 DEF Wanted
    <3>3. v \in -Overflow .. Overflow => FloatIsRead(v, d, ps)
      BY <3>2, FloatText
    <3> HIDE DEF ps
    <3>4. v \in -Overflow .. Overflow => FloatIsRounded(v, d)
      BY <2>1, <3>2, <3>3, Zenon DEF FloatIsRead, FloatIsRounded
    <3> QED BY <3>1, <3>4 DEF NumbersReadBack
  <2> QED BY <1>2, <2>2, <2>3 DEF Asked
<1> QED BY <1>1, <1>2 DEF PrintInv

\* A number whose characters were all taken reads back: a long with its sign or as its bits,
\* a float as the nearest number with so many places (Print.cpp:205-262).
THEOREM PrintedReadsBack == PrintSpec => []NumbersReadBack
<1>1. PrintInit => PrintInv
  BY DEF PrintInit, PrintInv
<1>2. PrintInv /\ [PrintNext]_printVars => PrintInv'
  BY PrintInvStep
<1>3. PrintInv => NumbersReadBack
  BY PrintInvSays
<1> QED BY <1>1, <1>2, <1>3, PTL DEF PrintSpec

===============================================================================
