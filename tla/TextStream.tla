------------------------------ MODULE TextStream ------------------------------
(***************************************************************************)
(* The calls of Stream that take text from a stream: search for words,     *)
(* parse a number, read bytes.  A step takes one character, or finds that  *)
(* none came for the time-out; whether one comes is not in the hand of     *)
(* the caller.  Nobody else reads from the stream.                         *)
(***************************************************************************)
EXTENDS Integers, Sequences, SequencesExt, FiniteSetsExt

CONSTANTS
  Targets,     \* what findMulti() is asked for: sequences of words
  Letter,      \* the characters that come while it searches
  Digit,       \* the value of the characters that are digits
  Sign, Point, \* "-" and "."
  White,       \* white space
  Other,       \* characters that are no part of a number
  Ignore,      \* what the parameter ignore may be
  MaxTaken     \* bound on the characters a call takes

ASSUME TargetsAssumption == Targets \subseteq Seq(Seq(Letter))
ASSUME DigitAssumption ==
  /\ \A c \in DOMAIN Digit : Digit[c] \in 0 .. 9
  /\ Sign \notin DOMAIN Digit /\ Point \notin DOMAIN Digit /\ Sign # Point

VARIABLES
  call,        \* what the current call does, or what the last one has done
  taken,       \* the characters the call has read
  targets,     \* of findMulti(): the words
  index,       \* and how much of each is matched
  mode,        \* of parseInt() and parseFloat(): lookahead, ignore, float?
  num,         \* their local variables, and the place where the number starts
  limit,       \* of readBytes(): length and terminator
  buffer,      \* what it has put into the buffer
  found        \* what findMulti() has returned

streamVars == <<call, taken, targets, index, mode, num, limit, buffer, found>>

Over == call \in {"found", "parsed", "filled"}

Nothing == "nothing" \* no ignore character, no terminator

NumberChar == DOMAIN Digit \cup {Sign, Point} \cup White \cup Other \cup (Ignore \ {Nothing})

Zero == [neg |-> FALSE, frac |-> FALSE, value |-> 0, scale |-> 0, from |-> 0]

\* A call begins: its local variables are ts, m and l and nothing is taken.
Begin(ts, m, l) ==
  /\ call = "none" /\ UNCHANGED <<taken, buffer, num>>
  /\ targets' = ts /\ index' = [t \in DOMAIN ts |-> 0]
  /\ mode' = m /\ limit' = l

NoMode == [lookahead |-> "SKIP_ALL", ignore |-> Nothing, float |-> FALSE]
NoLimit == [length |-> 0, until |-> Nothing]

-------------------------------------------------------------------------------
(* Search.                                                                 *)

\* A version that starts anew with c.
AdvanceAnew(w, i, c) == IF c = w[i + 1] THEN i + 1 ELSE IF c = w[1] THEN 1 ELSE 0

\* How much of w is matched after c, when i characters were before it: one more, or
\* what is left of them when the loop walks back.
Advance(w, i, c) ==
  IF c = w[i + 1] THEN i + 1
  ELSE Max({0} \cup {j + 1 : j \in {j \in 0 .. i - 1 :
             c = w[j + 1] /\ \A k \in 1 .. j : w[k] = w[k + i - j]}})

\* findUntil() and find() are calls with two words and one word.
FindMulti(ts) ==
  LET empty == {t \in DOMAIN ts : ts[t] = <<>>} IN
  /\ Begin(ts, NoMode, NoLimit)
  /\ IF empty = {} THEN call' = "find" /\ UNCHANGED found
     ELSE call' = "found" /\ found' = Min(empty) - 1

\* The first word that is complete ends the search; those after it are not looked at.
FindChar(c) ==
  LET moved == [t \in DOMAIN targets |-> Advance(targets[t], index[t], c)]
      done == {t \in DOMAIN targets : moved[t] = Len(targets[t])}
      seen == IF done = {} THEN DOMAIN targets ELSE 1 .. Min(done)
  IN /\ call = "find"
     /\ taken' = Append(taken, c)
     /\ index' = [t \in DOMAIN targets |-> IF t \in seen THEN moved[t] ELSE index[t]]
     /\ IF done = {} THEN UNCHANGED <<call, found>>
        ELSE call' = "found" /\ found' = Min(done) - 1
     /\ UNCHANGED <<targets, mode, num, limit, buffer>>

FindSilent ==
  /\ call = "find" /\ call' = "found" /\ found' = -1
  /\ UNCHANGED <<taken, targets, index, mode, num, limit, buffer>>

-------------------------------------------------------------------------------
(* Numbers.                                                                *)

Number(m) ==
  /\ Begin(<<>>, m, NoLimit) /\ call' = "skip" /\ UNCHANGED found

ParseRest == UNCHANGED <<targets, index, found, mode, limit, buffer>>

Starts(c) == c \in DOMAIN Digit \cup {Sign} \/ (mode.float /\ c = Point)

\* The body of the loop for a character; the ignored one is looked for first.
Accept(n, c) ==
  IF c = mode.ignore THEN n
  ELSE IF c = Sign THEN [n EXCEPT !.neg = TRUE]
  ELSE IF mode.float /\ c = Point THEN [n EXCEPT !.frac = TRUE]
  ELSE IF c \notin DOMAIN Digit THEN n
  ELSE [n EXCEPT !.value = @ * 10 + Digit[c], !.scale = IF n.frac THEN @ + 1 ELSE @]

\* peekNextDigit() and the first turn of the loop.
SkipChar(c) ==
  /\ call = "skip"
  /\ \/ /\ Starts(c)
        /\ call' = "number"
        /\ num' = [Accept(num, c) EXCEPT !.from = Len(taken) + 1]
        /\ taken' = Append(taken, c)
     \/ /\ ~Starts(c)
        /\ mode.lookahead = "SKIP_ALL" \/ (mode.lookahead = "SKIP_WHITESPACE" /\ c \in White)
        /\ taken' = Append(taken, c)
        /\ UNCHANGED <<call, num>>
     \/ /\ ~Starts(c)
        /\ mode.lookahead = "SKIP_NONE" \/ (mode.lookahead = "SKIP_WHITESPACE" /\ c \notin White)
        /\ call' = "parsed"
        /\ UNCHANGED <<taken, num>>
  /\ ParseRest

\* A version that takes any number of points.
NumberNextPoints(c) ==
  /\ call = "number"
  /\ IF c \in DOMAIN Digit \cup {mode.ignore} \/ (mode.float /\ c = Point)
     THEN taken' = Append(taken, c) /\ num' = Accept(num, c) /\ UNCHANGED call
     ELSE call' = "parsed" /\ UNCHANGED <<taken, num>>
  /\ ParseRest

\* A character that is not part of the number is looked at and stays in the stream.
NumberNext(c) ==
  /\ call = "number"
  /\ IF \/ c \in DOMAIN Digit \cup {mode.ignore}
        \/ mode.float /\ c = Point /\ ~num.frac
     THEN taken' = Append(taken, c) /\ num' = Accept(num, c) /\ UNCHANGED call
     ELSE call' = "parsed" /\ UNCHANGED <<taken, num>>
  /\ ParseRest

NumberSilent ==
  /\ call \in {"skip", "number"} /\ call' = "parsed"
  /\ UNCHANGED <<taken, num>> /\ ParseRest

-------------------------------------------------------------------------------
(* Bytes: readBytes(), readBytesUntil(); readString() has no limit.        *)

Bytes(l) ==
  /\ Begin(<<>>, NoMode, l) /\ UNCHANGED found
  /\ call' = IF l.length = 0 THEN "filled" ELSE "bytes"

BytesChar(c) ==
  /\ call = "bytes"
  /\ taken' = Append(taken, c)
  /\ buffer' = IF c = limit.until THEN buffer ELSE Append(buffer, c)
  /\ call' = IF c = limit.until \/ Len(buffer') = limit.length THEN "filled" ELSE "bytes"
  /\ UNCHANGED <<targets, index, found, mode, num, limit>>

BytesSilent ==
  /\ call = "bytes" /\ call' = "filled"
  /\ UNCHANGED <<taken, targets, index, found, mode, num, limit, buffer>>

-------------------------------------------------------------------------------
Mode == [lookahead : {"SKIP_ALL", "SKIP_NONE", "SKIP_WHITESPACE"},
         ignore : Ignore, float : BOOLEAN]
Limit == [length : 0 .. MaxTaken, until : Letter \cup {Nothing}]

StreamInit ==
  /\ call = "none" /\ taken = <<>> /\ targets = <<>> /\ index = <<>> /\ found = 0
  /\ mode = NoMode /\ num = Zero /\ limit = NoLimit /\ buffer = <<>>

\* Nothing is kept for the next call.
Done ==
  /\ Over /\ call' = "none"
  /\ taken' = <<>> /\ targets' = <<>> /\ index' = <<>> /\ found' = 0
  /\ mode' = NoMode /\ num' = Zero /\ limit' = NoLimit /\ buffer' = <<>>

StreamNext ==
  \/ \E ts \in Targets : FindMulti(ts)
  \/ \E m \in Mode : Number(m)
  \/ \E l \in Limit : Bytes(l)
  \/ FindSilent \/ NumberSilent \/ BytesSilent \/ Done
  \/ /\ Len(taken) < MaxTaken
     /\ \/ \E c \in Letter : FindChar(c) \/ BytesChar(c)
        \/ \E c \in NumberChar : SkipChar(c) \/ NumberNext(c)

StreamSpec == StreamInit /\ [][StreamNext]_streamVars

-------------------------------------------------------------------------------
Ends(w, t) == IsSuffix(w, t)

\* A search stops at the end of the first of the words that is complete in what was
\* read, and at no word it has read over: after every character as much of each word
\* is matched as the text read so far ends with (Stream.cpp:256-319).
FoundFirst ==
  LET Upto(k) == SubSeq(taken, 1, k)
      Complete(k) == {t \in DOMAIN targets : Ends(targets[t], Upto(k))}
  IN /\ call = "find" =>
          \A t \in DOMAIN targets :
            /\ ~\E k \in 0 .. Len(taken) : t \in Complete(k)
            /\ index[t] = Max({n \in 0 .. Len(targets[t]) - 1 :
                                 n <= Len(taken) /\ Ends(SubSeq(targets[t], 1, n), taken)})
     /\ call = "found" =>
          /\ \A k \in 0 .. Len(taken) - 1 : Complete(k) = {}
          /\ found = IF Complete(Len(taken)) = {} THEN -1 ELSE Min(Complete(Len(taken))) - 1

PowerOfTen[n \in Nat] == IF n = 0 THEN 1 ELSE 10 * PowerOfTen[n - 1]

\* A parsed number is what the characters taken for it say: before it none that a
\* number could start with, the sign in front, one point at most, and no character
\* behind it taken.  With SKIP_NONE "the stream is not touched unless the first
\* waiting character is valid" (Stream.h:42).
ParsedNumber ==
  LET text == SubSeq(taken, num.from, Len(taken))
      At(S) == {i \in DOMAIN text : text[i] \in S \ {mode.ignore}}
      points == IF mode.float THEN At({Point}) ELSE {}
      weight == [i \in At(DOMAIN Digit) |->
                   Digit[text[i]] * PowerOfTen[Cardinality({j \in At(DOMAIN Digit) : j > i})]]
  IN call \in {"number", "parsed"} =>
       IF num.from = 0
       THEN num = Zero /\ (mode.lookahead = "SKIP_NONE" => taken = <<>>)
       ELSE /\ \A i \in 1 .. num.from - 1 : ~Starts(taken[i])
            /\ At({Sign}) \subseteq {1} /\ Cardinality(points) <= 1
            /\ num.neg <=> At({Sign}) # {}
            /\ num.value = MapThenSumSet(LAMBDA i : weight[i], At(DOMAIN Digit))
            /\ num.scale = Cardinality({i \in At(DOMAIN Digit) : \E j \in points : j < i})
            /\ mode.lookahead = "SKIP_NONE" => num.from = 1
===============================================================================
