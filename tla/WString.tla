------------------------------- MODULE WString --------------------------------
(***************************************************************************)
(* The class String: a buffer from malloc() that may be missing, the size  *)
(* it was asked for and the length of the text.  Next to every object      *)
(* stands the text that its caller thinks it holds.                        *)
(*                                                                         *)
(* A write behind the end of a buffer adds cells to it here, so that it    *)
(* shows.  Calls with a string as its own argument (s += s) are left out:  *)
(* strcpy() has no meaning for them.                                       *)
(***************************************************************************)
EXTENDS Integers, Sequences, SequencesExt, FiniteSetsExt

CONSTANTS
  Object,      \* the String objects of the program
  Char,        \* the characters, without the terminator
  Rank,        \* and their codes
  Space,       \* those isspace() is true for
  Literal,     \* the constant texts (and the texts of numbers) it uses
  Pair,        \* what it replaces: <<find, replace>>
  MaxText,     \* bound on the length of a text
  MaxGrown     \* and of one that replace() has made; only shortened then

ASSUME RankAssumption ==
  /\ Rank \in [Char -> 1 .. 255]
  /\ \A c, d \in Char : Rank[c] = Rank[d] => c = d
ASSUME TextAssumption ==
  /\ "nul" \notin Char /\ Space \subseteq Char
  /\ Literal \subseteq Seq(Char) /\ Pair \subseteq Seq(Char) \X Seq(Char)

VARIABLES
  str,         \* [buf, cap, len] of every object: buffer, capacity and len
  text,        \* what the object should hold
  movedFrom    \* the objects whose content was moved away

strVars == <<str, text, movedFrom>>

NUL == "nul"
Junk == "junk"       \* what malloc() leaves in a cell
None == <<NUL>>      \* a NULL pointer for a text

\* init() and invalidate(); the destructor frees the buffer as well.
Invalid == [buf |-> <<>>, cap |-> 0, len |-> 0]

IsInvalid(s) == s.buf = <<>>

-------------------------------------------------------------------------------
(* Functions of the C library on a buffer.                                 *)

Strlen(b, i) == Min({k \in DOMAIN b : k >= i /\ b[k] = NUL}) - i
CStr(b, i) == [k \in 1 .. Strlen(b, i) |-> b[i + k - 1]]

\* Puts the cells of w into b from cell i on.
Memcpy(b, i, w) ==
  [k \in DOMAIN b \cup i .. i + Len(w) - 1 |->
     IF k \in i .. i + Len(w) - 1 THEN w[k - i + 1] ELSE b[k]]
Strcpy(b, i, w) == Memcpy(b, i, Append(w, NUL))
Cells(b, i, n) == [k \in 1 .. n |-> b[i + k - 1]]
Strncpy(b, i, n) == [k \in 1 .. n |-> IF k <= Strlen(b, i) THEN b[i + k - 1] ELSE NUL]

\* The difference at the first place where the texts differ; the terminator is 0.
Strcmp(t, w) ==
  LET code(u, k) == IF k <= Len(u) THEN Rank[u[k]] ELSE 0
      differ == {k \in 1 .. Max({Len(t), Len(w)}) : code(t, k) # code(w, k)}
  IN IF differ = {} THEN 0 ELSE code(t, Min(differ)) - code(w, Min(differ))

IsAt(w, t, i) == i + Len(w) <= Len(t) /\ SubSeq(t, i + 1, i + Len(w)) = w

\* The first place not before i where w is found, or -1 for the NULL of strstr().
Strstr(b, i, w) ==
  LET t == CStr(b, i)
      found == {k \in 0 .. Len(t) : IsAt(w, t, k)}
  IN IF found = {} THEN -1 ELSE i + Min(found)

-------------------------------------------------------------------------------
(* Memory.  room says whether realloc() finds what it is asked for.        *)

\* A version without the cell for the terminator.
ChangeBufferShort(s, n) ==
  [s EXCEPT !.buf = [k \in 0 .. n - 1 |-> IF k \in DOMAIN s.buf THEN s.buf[k] ELSE Junk],
            !.cap = n]

ChangeBuffer(s, n) ==
  [s EXCEPT !.buf = [k \in 0 .. n |-> IF k \in DOMAIN s.buf THEN s.buf[k] ELSE Junk],
            !.cap = n]

Enough(s, n) == ~IsInvalid(s) /\ s.cap >= n

Reserve(s, n) ==
  IF Enough(s, n) THEN s
  ELSE LET g == ChangeBuffer(s, n) IN IF s.len = 0 THEN [g EXCEPT !.buf[0] = NUL] ELSE g

Copy(s, t, n, room) ==
  IF ~Enough(s, n) /\ ~room THEN Invalid
  ELSE [Reserve(s, n) EXCEPT !.buf = Strcpy(@, 0, t), !.len = n]

\* Assignment of a text, or of a NULL pointer.
Assign(s, t, room) == IF t = None THEN Invalid ELSE Copy(s, t, Len(t), room)

\* What the object moved to holds, and what the other one keeps.
Moved(s, r) ==
  IF ~IsInvalid(s) /\ ~IsInvalid(r) /\ s.cap >= r.len
  THEN [to |-> [s EXCEPT !.buf = Strcpy(@, 0, CStr(r.buf, 0)), !.len = r.len],
        from |-> [r EXCEPT !.len = 0]]
  ELSE [to |-> r, from |-> Invalid]

\* concat() of a text; of a number, its text.  Succeeds says what it returns.
Succeeds(s, t, room) == t # None /\ (Len(t) = 0 \/ Enough(s, s.len + Len(t)) \/ room)
Concat(s, t, room) ==
  IF t = None \/ Len(t) = 0 \/ ~Succeeds(s, t, room) THEN s
  ELSE [Reserve(s, s.len + Len(t)) EXCEPT !.buf = Strcpy(@, s.len, t), !.len = @ + Len(t)]

\* operator +: the helper object starts as a copy of the left side.
Sum(l, t, room) == IF Succeeds(l, t, room) THEN Concat(l, t, room) ELSE Invalid

-------------------------------------------------------------------------------
(* Search.                                                                 *)

IndexOf(s, w, from) == IF from >= s.len THEN -1 ELSE Strstr(s.buf, from, w)

\* A version that takes from for the place where the word must have ended.
LastIndexOfEnd(s, w, from) ==
  IF Len(w) = 0 \/ s.len = 0 \/ Len(w) > s.len THEN -1
  ELSE Max({-1} \cup {p \in 0 .. Min({from, s.len - 1}) :
                       p + Len(w) <= from + 1 /\ IsAt(w, CStr(s.buf, 0), p)})

LastIndexOf(s, w, from) ==
  IF Len(w) = 0 \/ s.len = 0 \/ Len(w) > s.len THEN -1
  ELSE Max({-1} \cup {p \in 0 .. Min({from, s.len - 1}) : IsAt(w, CStr(s.buf, 0), p)})

\* indexOf() and lastIndexOf() of a character; the latter cuts the text short.
IndexOfChar(s, c, from) == IndexOf(s, <<c>>, from)
LastIndexOfChar(s, c, from) ==
  IF from >= s.len THEN -1
  ELSE LET cut == [s.buf EXCEPT ![from + 1] = NUL]
       IN Max({-1} \cup {p \in 0 .. Strlen(cut, 0) - 1 : cut[p] = c})

\* 2^16: an unsigned int
Word16 == 65536
StartsWithAt(s, r, i) ==
  IF i > (s.len - r.len) % Word16 \/ IsInvalid(s) \/ IsInvalid(r) THEN FALSE
  ELSE IsAt(CStr(r.buf, 0), CStr(s.buf, i), 0)
StartsWith(s, r) == s.len >= r.len /\ StartsWithAt(s, r, 0)
EndsWith(s, r) ==
  /\ s.len >= r.len /\ ~IsInvalid(s) /\ ~IsInvalid(r)
  /\ CStr(s.buf, s.len - r.len) = CStr(r.buf, 0)

\* compareTo(); without a buffer, the code of the first character decides.
CompareTo(s, r) ==
  IF IsInvalid(s) \/ IsInvalid(r)
  THEN IF ~IsInvalid(r) /\ r.len > 0 THEN -Rank[r.buf[0]]
       ELSE IF ~IsInvalid(s) /\ s.len > 0 THEN Rank[s.buf[0]]
       ELSE 0
  ELSE Strcmp(CStr(s.buf, 0), CStr(r.buf, 0))

\* The operators <, >, <= and >=.
Orders(s, r) ==
  LET c == CompareTo(s, r) IN [lt |-> c < 0, gt |-> c > 0, le |-> c <= 0, ge |-> c >= 0]

Equals(s, r) == s.len = r.len /\ CompareTo(s, r) = 0
EqualsText(s, t) ==
  IF s.len = 0 THEN t \in {None, <<>>}
  ELSE IF t = None THEN s.buf[0] = NUL
  ELSE Strcmp(CStr(s.buf, 0), t) = 0

\* What charAt() and operator [] return; the latter gives out a character of its own,
\* which it clears, for a place behind the text.
CharAt(s, i) == IF i >= s.len \/ IsInvalid(s) THEN NUL ELSE s.buf[i]

\* What getBytes() and toCharArray() write into a buffer of that size.
GetBytes(s, size, i) ==
  IF size = 0 THEN <<>>
  ELSE IF i >= s.len THEN <<NUL>>
  ELSE Append(Strncpy(s.buf, i, Min({size - 1, s.len - i})), NUL)

\* substring(): the terminator is put behind the part and taken away again.
Substring(s, l, r, room) ==
  LET left == Min({l, r})
      right == Min({Max({l, r}), s.len})
  IN IF left >= s.len THEN Invalid
     ELSE Assign(Invalid, CStr([s.buf EXCEPT ![right] = NUL], left), room)

-------------------------------------------------------------------------------
(* Modification.                                                           *)

\* replace() of a character, toLowerCase() and toUpperCase(): f for every one.
MapChars(s, f) ==
  IF IsInvalid(s) THEN s
  ELSE [s EXCEPT !.buf = Memcpy(@, 0, [k \in 1 .. Strlen(@, 0) |-> f[@[k - 1]]])]

\* A turn of the loops of replace() for a replacement that is as long as the word found
\* or shorter: read from one place, write to another one not behind it.
DownTurn(z, f, r) ==
  LET at == Strstr(z.obj.buf, z.from, f)
      n == at - z.from
      b == Memcpy(z.obj.buf, z.to, Cells(z.obj.buf, z.from, n))
  IN IF at < 0 THEN z
     ELSE [obj |-> [z.obj EXCEPT !.buf = Memcpy(b, z.to + n, r), !.len = @ + Len(r) - Len(f)],
           from |-> at + Len(f), to |-> z.to + n + Len(r)]

\* No text has more words in it than characters.
ReplaceDown(s, f, r) ==
  LET turn[n \in Nat] == IF n = 0 THEN [obj |-> s, from |-> 0, to |-> 0] ELSE DownTurn(turn[n - 1], f, r)
      z == turn[s.len]
  IN IF Len(r) = Len(f) THEN z.obj
     ELSE [z.obj EXCEPT !.buf = Strcpy(@, z.to, CStr(@, z.from))]

\* The length of the result, counted from the left ...
SizeTurn(z, s, f, diff) ==
  LET at == Strstr(s.buf, z.from, f) IN
  IF at < 0 THEN z ELSE [from |-> at + Len(f), size |-> z.size + diff]
GrownSize(s, f, diff) ==
  LET turn[n \in Nat] == IF n = 0 THEN [from |-> 0, size |-> s.len] ELSE SizeTurn(turn[n - 1], s, f, diff)
  IN turn[s.len].size

\* ... and the replacement, done from the right.
UpTurn(z, f, r) ==
  LET at == LastIndexOf(z.obj, f, z.index)
      rest == Cells(z.obj.buf, at + Len(f), z.obj.len - at - Len(f))
      b == Memcpy(z.obj.buf, at + Len(r), Append(rest, NUL))
  IN IF z.index < 0 \/ at < 0 THEN z
     ELSE [obj |-> [z.obj EXCEPT !.buf = Memcpy(b, at, r), !.len = @ + Len(r) - Len(f)],
           index |-> at - 1]
ReplaceUp(s, from, f, r) ==
  LET turn[n \in Nat] == IF n = 0 THEN [obj |-> s, index |-> from] ELSE UpTurn(turn[n - 1], f, r)
  IN turn[from + 1].obj

Replace(s, f, r, room) ==
  IF s.len = 0 \/ Len(f) = 0 THEN s
  ELSE IF Len(r) <= Len(f) THEN ReplaceDown(s, f, r)
  ELSE LET size == GrownSize(s, f, Len(r) - Len(f)) IN
       IF size = s.len \/ (size > s.cap /\ ~room) THEN s
       ELSE ReplaceUp(IF size > s.cap THEN ChangeBuffer(s, size) ELSE s, s.len - 1, f, r)

RemoveFrom(s, i, n) ==
  LET count == Min({n, s.len - i}) IN
  IF i >= s.len \/ n = 0 THEN s
  ELSE [s EXCEPT !.len = @ - count,
                 !.buf = Strcpy(@, i, Cells(@, i + count, s.len - count - i))]

\* begin stops at the terminator, end at begin.
Trim(s) ==
  LET begin == Min({k \in DOMAIN s.buf : s.buf[k] \notin Space})
      end == Max({begin - 1} \cup {k \in begin .. s.len - 1 : s.buf[k] \notin Space})
      n == end + 1 - begin
  IN IF IsInvalid(s) \/ s.len = 0 THEN s
     ELSE [s EXCEPT !.len = n, !.buf = Strcpy(@, 0, Cells(@, begin, n))]

SetCharAt(s, i, c) == IF i < s.len THEN [s EXCEPT !.buf[i] = c] ELSE s

-------------------------------------------------------------------------------
(* What a call should make of a text.                                      *)

\* Replacement of f by r, from the left: what becomes of the last n characters.
Replaced(t, f, r) ==
  LET rest[n \in 0 .. Len(t)] ==
        IF n = 0 THEN <<>>
        ELSE IF f # <<>> /\ IsAt(f, t, Len(t) - n) THEN r \o rest[n - Len(f)]
        ELSE <<t[Len(t) - n + 1]>> \o rest[n - 1]
  IN rest[Len(t)]

\* A longer replacement is done from the right.  That comes to the same as one from the
\* left where no end of the word is the start of it or of its replacement.
EndStarts(f, x) == \E k \in 1 .. Len(f) - 1 : IsAt(SubSeq(f, k + 1, Len(f)), x, 0)
Apart(f, r) == ~EndStarts(f, f) /\ ~EndStarts(f, r)
LongerApart(q) == Len(q[1]) < Len(q[2]) => Apart(q[1], q[2])
PairsApart == \A q \in Pair : LongerApart(q)

Trimmed(t) ==
  LET kept == {i \in DOMAIN t : t[i] \notin Space} IN
  IF kept = {} THEN <<>> ELSE SubSeq(t, Min(kept), Max(kept))

TextOr(t) == IF t = None THEN <<>> ELSE t

-------------------------------------------------------------------------------
StrInit ==
  /\ str = [o \in Object |-> Invalid]
  /\ text = [o \in Object |-> <<>>]
  /\ movedFrom = {}

\* Object o becomes s and should hold t.
Becomes(o, s, t) ==
  /\ Len(t) <= MaxGrown
  /\ str' = [str EXCEPT ![o] = s]
  /\ text' = [text EXCEPT ![o] = t]
  /\ movedFrom' = movedFrom \ {o}

\* An object that was moved away may only be given a new value.
Readable(o) == o \notin movedFrom
Small(o) == Readable(o) /\ Len(text[o]) <= MaxText

AssignText(o, t, room) ==
  LET s == Assign(str[o], t, room) IN
  Becomes(o, s, IF IsInvalid(s) THEN <<>> ELSE t)

\* operator = does nothing for the object itself.
AssignObject(o, p, room) ==
  LET t == IF IsInvalid(str[p]) THEN None ELSE CStr(str[p].buf, 0)
      s == IF t = None THEN Invalid ELSE Copy(str[o], t, str[p].len, room)
  IN /\ o # p /\ Readable(p)
     /\ Becomes(o, s, IF IsInvalid(s) THEN <<>> ELSE text[p])

MoveObject(o, p) ==
  LET m == Moved(str[o], str[p]) IN
  /\ o # p /\ Readable(p)
  /\ str' = [str EXCEPT ![o] = m.to, ![p] = m.from]
  /\ text' = [text EXCEPT ![o] = text[p], ![p] = <<>>]
  /\ movedFrom' = (movedFrom \ {o}) \cup {p}

ConcatText(o, t, room) ==
  /\ Readable(o) /\ Len(text[o]) + Len(t) <= MaxText
  /\ Becomes(o, Concat(str[o], t, room),
             IF Succeeds(str[o], t, room) THEN text[o] \o t ELSE text[o])

ConcatObject(o, p, room) ==
  /\ o # p /\ Readable(p)
  /\ ConcatText(o, IF IsInvalid(str[p]) THEN None ELSE CStr(str[p].buf, 0), room)

\* o = p + t: the sum is a helper object that o takes over.  When there is no
\* memory for the copy of p, its text is missing in the sum.
AssignSum(o, p, t, room) ==
  LET l == Assign(Invalid, IF IsInvalid(str[p]) THEN None ELSE CStr(str[p].buf, 0), room[1])
      sum == Sum(l, t, room[2])
      s == Moved(str[o], sum).to
  IN /\ Readable(p) /\ Len(text[p]) + Len(t) <= MaxText
     /\ Becomes(o, s, IF IsInvalid(sum) THEN <<>>
                      ELSE (IF IsInvalid(l) THEN <<>> ELSE text[p]) \o t)

AssignSubstring(o, p, l, r, room) ==
  LET part == Substring(str[p], l, r, room) IN
  /\ Readable(p)
  /\ Becomes(o, Moved(str[o], part).to,
             IF IsInvalid(part) THEN <<>>
             ELSE SubSeq(text[p], Min({l, r}) + 1, Min({Max({l, r}), Len(text[p])})))

ReplaceText(o, f, r, room) ==
  LET s == Replace(str[o], f, r, room)
      t == Replaced(text[o], f, r)
  IN /\ Small(o)
     /\ Becomes(o, s, IF Len(t) > str[o].cap /\ ~room THEN text[o] ELSE t)

MapText(o, f) ==
  /\ Small(o)
  /\ Becomes(o, MapChars(str[o], f), [i \in DOMAIN text[o] |-> f[text[o][i]]])

RemoveText(o, i, n) ==
  /\ Readable(o)
  /\ Becomes(o, RemoveFrom(str[o], i, n),
             SubSeq(text[o], 1, Min({i, Len(text[o])})) \o SubSeq(text[o], i + n + 1, Len(text[o])))

TrimText(o) == Readable(o) /\ Becomes(o, Trim(str[o]), Trimmed(text[o]))

SetChar(o, i, c) ==
  /\ Small(o)
  /\ Becomes(o, SetCharAt(str[o], i, c),
             IF i < Len(text[o]) THEN [text[o] EXCEPT ![i + 1] = c] ELSE text[o])

ReserveText(o, n, room) ==
  /\ Readable(o) /\ (Enough(str[o], n) \/ room)
  /\ Becomes(o, Reserve(str[o], n), text[o])

StrNext ==
  \E o \in Object :
    \/ \E room \in BOOLEAN :
         \/ \E t \in Literal \cup {None} : AssignText(o, t, room)
         \/ \E t \in Literal : ConcatText(o, t, room)
         \/ \E p \in Object : AssignObject(o, p, room) \/ ConcatObject(o, p, room)
         \/ \E p \in Object, t \in Literal, again \in BOOLEAN : AssignSum(o, p, t, <<room, again>>)
         \/ \E p \in Object, l, r \in 0 .. MaxText : l # r /\ AssignSubstring(o, p, l, r, room)
         \/ \E q \in Pair : ReplaceText(o, q[1], q[2], room)
         \/ \E n \in 0 .. MaxText : ReserveText(o, n, room)
    \/ \E p \in Object : MoveObject(o, p)
    \/ \E f \in [Char -> Char] : MapText(o, f)
    \/ \E i \in 0 .. MaxText, n \in 1 .. MaxText : RemoveText(o, i, n)
    \/ TrimText(o)
    \/ \E i \in 0 .. MaxText, c \in Char : SetChar(o, i, c)

StrSpec == StrInit /\ [][StrNext]_strVars

-------------------------------------------------------------------------------
\* After any calls, and whichever of them found no memory, the buffer of every
\* object holds the text its calls should have made, ended within its capacity,
\* and len is the length of it (WString.h:205-207).
BufferHoldsText ==
  \A o \in Object \ movedFrom :
    LET s == str[o] IN
    IF IsInvalid(s) THEN s = Invalid /\ text[o] = <<>>
    ELSE /\ DOMAIN s.buf = 0 .. s.cap
         /\ \E k \in 0 .. s.cap : s.buf[k] = NUL
         /\ CStr(s.buf, 0) = text[o]
         /\ s.len = Len(text[o])

\* What replace() writes fits into the buffer, for which it has made room: "compute size
\* needed for result" (WString.cpp:667).
ReplaceFits == \A o \in Object : DOMAIN str[o].buf \subseteq 0 .. str[o].cap

\* The order of the character codes, as a dictionary has it.
Before(t, w) ==
  \/ IsStrictPrefix(t, w)
  \/ \E k \in DOMAIN t \cap DOMAIN w :
       Rank[t[k]] < Rank[w[k]] /\ SubSeq(t, 1, k - 1) = SubSeq(w, 1, k - 1)

\* The first and the last place of a word or character at or after, or before, a place.
PlacesAgree(s, t) ==
  LET Places(w) == {k \in 0 .. Len(t) - Len(w) : IsAt(w, t, k)}
      FirstOf(S) == IF S = {} THEN -1 ELSE Min(S)
      LastOf(S) == IF S = {} THEN -1 ELSE Max(S)
  IN /\ \A i \in 0 .. Len(t), w \in Literal \ {<<>>} :
          /\ IndexOf(s, w, i) = FirstOf({k \in Places(w) : k >= i})
          /\ LastIndexOf(s, w, i) = LastOf({k \in Places(w) : k <= i})
     /\ \A i \in 0 .. Len(t) - 1, c \in Char :
          /\ IndexOfChar(s, c, i) = FirstOf({k \in Places(<<c>>) : k >= i})
          /\ LastIndexOfChar(s, c, i) = LastOf({k \in Places(<<c>>) : k <= i})

\* A character, or as much of the text from a place on as a buffer can take.
PartsAgree(s, t) ==
  \A i \in 0 .. Len(t) + 1 :
    /\ CharAt(s, i) = IF i < Len(t) THEN t[i + 1] ELSE NUL
    /\ \A size \in 1 .. Len(t) + 1 :
         GetBytes(s, size, i) = Append(SubSeq(t, i + 1, Min({i + size - 1, Len(t)})), NUL)

\* The searches and comparisons agree with the texts: the first and the last place
\* of a word, a part at the start, at a place and at the end, equality and order.
QueriesAgree ==
  \A o \in Object \ movedFrom :
    LET t == text[o]
        s == str[o]
    IN /\ PlacesAgree(s, t) /\ PartsAgree(s, t)
       /\ \A w \in Literal : EqualsText(s, w) <=> t = w
       /\ \A p \in Object \ movedFrom :
            /\ Equals(s, str[p]) <=> t = text[p]
            /\ LET less == Before(t, text[p])
                   more == Before(text[p], t)
               IN Orders(s, str[p]) = [lt |-> less, gt |-> more, le |-> ~more, ge |-> ~less]
            /\ ~IsInvalid(s) /\ ~IsInvalid(str[p]) =>
                 /\ StartsWith(s, str[p]) <=> IsPrefix(text[p], t)
                 /\ EndsWith(s, str[p]) <=> IsSuffix(text[p], t)
                 /\ \A i \in 0 .. Len(t) :
                      StartsWithAt(s, str[p], i) <=> IsAt(text[p], t, i)
===============================================================================
