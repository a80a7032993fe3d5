---------------------------- MODULE Shell_proofs ----------------------------
(***************************************************************************)
(* Proofs about Shell.tla.  Every command is a call of FileSystem.tla or   *)
(* none, so that what FileSystem_proofs.tla says of the calls holds here.  *)
(***************************************************************************)
EXTENDS Shell, FileSystem_proofs

-----------------------------------------------------------------------------
(* The loops of the shell.                                                 *)

Runs(S, first, n, step) ==
  \E h \in [0 .. n -> S] : h[0] = first /\ \A j \in 1 .. n : h[j] = step[j][h[j - 1]]

LEMMA Iterates ==
  ASSUME NEW S, NEW first \in S, NEW n \in Nat, NEW step \in [1 .. n -> [S -> S]]
  PROVE  Runs(S, first, n, step)
BY Iterate, SMTT(30) DEF Runs

-----------------------------------------------------------------------------
(* The words of a line.                                                    *)

Blank == " "

\* There is a space at position i.
Space(line, i) == line[i] = Blank

\* q is where FirstFrom stops.
Stops(line, p, isSpace, q) ==
  /\ q \in 1 .. Len(line) + 1
  /\ q <= Len(line) => p <= q /\ Space(line, q) = isSpace
  /\ \A i \in p .. Len(line) : i < q => Space(line, i) # isSpace

LEMMA FirstFromIs ==
  ASSUME NEW line, Len(line) \in Nat, NEW p \in Nat \ {0}, NEW isSpace \in BOOLEAN
  PROVE  Stops(line, p, isSpace, FirstFrom(line, p, isSpace))
<1> DEFINE Is(q) == Space(line, q) = isSpace
           S     == {Len(line) + 1} \cup {q \in p .. Len(line) : Is(q)}
<1>1. PICK n : n = Len(line)
  OBVIOUS
<1>2. n \in Nat
  BY <1>1
<1> HIDE DEF Is
<1>3. S = {n + 1} \cup {q \in p .. n : Is(q)}
  BY <1>1
<1>4. S \subseteq Nat /\ S # {}
  BY <1>2, <1>3
<1>5. FirstFrom(line, p, isSpace) = Min(S)
  BY Zenon DEF FirstFrom, Is, Space, Blank
<1>6. Min(S) \in S /\ \A y \in S : Min(S) <= y
  BY <1>4, MinOfNat
<1>7. PICK m : m = Min(S)
  OBVIOUS
<1>8. m \in S /\ \A y \in S : m <= y
  BY <1>6, <1>7
<1>9. m \in 1 .. n + 1 /\ (m <= n => p <= m /\ Is(m))
  BY <1>2, <1>3, <1>8, SMTT(30)
<1>10. ASSUME NEW i \in p .. n, i < m
       PROVE  ~Is(i)
  BY <1>2, <1>3, <1>8, <1>10
<1> HIDE DEF S
<1>11. Stops(line, p, isSpace, m)
  BY <1>1, <1>9, <1>10, ZenonT(60) DEF Stops, Is
<1> QED
  BY <1>5, <1>7, <1>11

\* Two such positions are the same.
LEMMA StopsOnce ==
  ASSUME NEW line, Len(line) \in Nat, NEW p \in Nat \ {0}, p <= Len(line) + 1, NEW isSpace,
         NEW q, Stops(line, p, isSpace, q), NEW r, Stops(line, p, isSpace, r)
  PROVE  q = r
<1> DEFINE Is(i) == Space(line, i) = isSpace
<1>1. PICK n : n = Len(line)
  OBVIOUS
<1> HIDE DEF Is
<1>2. /\ q \in 1 .. n + 1 /\ (q <= n => p <= q /\ Is(q))
      /\ \A i \in p .. n : i < q => ~Is(i)
  BY <1>1, Zenon DEF Stops, Is
<1>3. /\ r \in 1 .. n + 1 /\ (r <= n => p <= r /\ Is(r))
      /\ \A i \in p .. n : i < r => ~Is(i)
  BY <1>1, Zenon DEF Stops, Is
<1>4. n \in Nat /\ p <= n + 1
  BY <1>1
<1> QED
  BY <1>2, <1>3, <1>4

\* A round of parse_args: the next word, if there is one.
ParseRound(line, last) ==
  LET start == FirstFrom(line, last.p, FALSE)
      end   == FirstFrom(line, start, TRUE)
  IN  IF start > Len(line) THEN last
      ELSE [p |-> end + 1, argv |-> Append(last.argv, SubSeq(line, start, end - 1))]

\* loop is the loop of parse_args.
ParseLoop(line, loop) ==
  /\ loop[0] = [p |-> 1, argv |-> <<>>]
  /\ \A n \in 1 .. MAX_ARGS : loop[n] = ParseRound(line, loop[n - 1])
  /\ parse_args(line) = loop[MAX_ARGS].argv

\* The states of the loop.
Parsed(S) == [p : Nat \ {0}, argv : Seq(Seq(S))]

LEMMA RoundTyped ==
  ASSUME NEW S, NEW line \in Seq(S), NEW last \in Parsed(S)
  PROVE  ParseRound(line, last) \in Parsed(S)
<1> DEFINE start == FirstFrom(line, last.p, FALSE)
           end   == FirstFrom(line, start, TRUE)
<1>1. Len(line) \in Nat /\ last.p \in Nat \ {0} /\ last.argv \in Seq(Seq(S))
  BY DEF Parsed
<1>2. start \in 1 .. Len(line) + 1
  BY <1>1, FirstFromIs, Zenon DEF Stops
<1>3. end \in 1 .. Len(line) + 1
  <2> HIDE DEF start
  <2>1. start \in Nat \ {0}
    BY <1>1, <1>2
  <2> QED
    BY <1>1, <2>1, FirstFromIs, Zenon DEF Stops
<1> HIDE DEF start, end
<1>4. SubSeq(line, start, end - 1) \in Seq(S)
  BY <1>2, <1>3
<1>5. [p |-> end + 1, argv |-> Append(last.argv, SubSeq(line, start, end - 1))] \in Parsed(S)
  BY <1>1, <1>3, <1>4, SMTT(30) DEF Parsed
<1> QED
  BY <1>5 DEF ParseRound, start, end

LEMMA ParseLoopExists ==
  ASSUME NEW S, NEW line \in Seq(S)
  PROVE  \E loop : ParseLoop(line, loop) /\ \A n \in 0 .. MAX_ARGS : loop[n] \in Parsed(S)
<1> DEFINE T      == Parsed(S)
           first  == [p |-> 1, argv |-> <<>>]
           step   == [n \in 1 .. MAX_ARGS |-> [x \in T |-> ParseRound(line, x)]]
           is(h)  == h = [argc \in 0 .. MAX_ARGS |->
                            LET last  == h[argc - 1]
                                start == FirstFrom(line, last.p, FALSE)
                                end   == FirstFrom(line, start, TRUE)
                            IN  IF argc = 0 THEN [p |-> 1, argv |-> <<>>]
                                ELSE IF start > Len(line) THEN last
                                ELSE [p |-> end + 1,
                                      argv |-> Append(last.argv, SubSeq(line, start, end - 1))]]
           loop   == CHOOSE h : is(h)
<1>1. step \in [1 .. MAX_ARGS -> [T -> T]] /\ first \in T
  <2>1. \A x \in T : ParseRound(line, x) \in T
    BY RoundTyped
  <2>2. first \in T
    BY DEF Parsed
  <2> HIDE DEF T, first
  <2> QED
    BY <2>1, <2>2
<1>2. \A n \in 1 .. MAX_ARGS, x \in T : step[n][x] = ParseRound(line, x)
  OBVIOUS
<1>3. MAX_ARGS \in Nat
  BY ShellAssumption
<1> HIDE DEF step, T, first
<1>4. PICK g \in [0 .. MAX_ARGS -> T] :
        g[0] = first /\ \A n \in 1 .. MAX_ARGS : g[n] = step[n][g[n - 1]]
  BY <1>1, <1>3, Iterate, SMTT(30)
<1>5. \A n \in 1 .. MAX_ARGS : g[n] = ParseRound(line, g[n - 1])
  <2> SUFFICES ASSUME NEW n \in 1 .. MAX_ARGS PROVE g[n] = ParseRound(line, g[n - 1])
    OBVIOUS
  <2>1. n - 1 \in 0 .. MAX_ARGS
    BY <1>3
  <2>2. g[n - 1] \in T /\ g[n] = step[n][g[n - 1]]
    BY <1>4, <2>1
  <2> QED
    BY <1>2, <2>2
<1>6. is(g)
  <2>1. ASSUME NEW n \in 0 .. MAX_ARGS
        PROVE  g[n] = IF n = 0 THEN first ELSE ParseRound(line, g[n - 1])
    <3>1. CASE n = 0
      BY <1>4, <3>1
    <3>2. CASE n # 0
      <4>1. n \in 1 .. MAX_ARGS
        BY <1>3, <3>2, SMTT(30)
      <4> QED
        BY <1>5, <3>2, <4>1, SMTT(30)
    <3> QED
      BY <3>1, <3>2
  <2>2. g = [n \in 0 .. MAX_ARGS |-> IF n = 0 THEN first ELSE ParseRound(line, g[n - 1])]
    BY <1>4, <2>1
  <2> QED
    BY <2>2, Zenon DEF ParseRound, first
<1>7. is(loop)
  BY <1>6, ZenonT(60)
<1>8. parse_args(line) = loop[MAX_ARGS].argv
  BY Zenon DEF parse_args
<1> HIDE DEF loop
<1>9. loop = [n \in 0 .. MAX_ARGS |-> IF n = 0 THEN first ELSE ParseRound(line, loop[n - 1])]
  BY <1>7, Zenon DEF ParseRound, first
<1>10. loop[0] = first /\ \A n \in 1 .. MAX_ARGS : loop[n] = ParseRound(line, loop[n - 1])
  BY <1>3, <1>9
<1>11. ParseLoop(line, loop)
  BY <1>8, <1>10 DEF ParseLoop, first
<1> DEFINE Typed == {n \in Nat : n <= MAX_ARGS => loop[n] \in T}
<1>12. Nat \subseteq Typed
  <2>1. 0 \in Typed
    BY <1>1, <1>10
  <2>2. ASSUME NEW n \in Nat, n \in Typed
        PROVE  n + 1 \in Typed
    <3>1. CASE n + 1 <= MAX_ARGS
      <4>1. n + 1 \in 1 .. MAX_ARGS /\ (n + 1) - 1 = n /\ loop[n] \in Parsed(S)
        BY <1>3, <2>2, <3>1, SMTT(30) DEF T
      <4>2. loop[n + 1] = ParseRound(line, loop[n])
        BY <1>10, <4>1
      <4>3. loop[n + 1] \in T
        BY <4>1, <4>2, RoundTyped DEF T
      <4> QED
        BY <4>3
    <3>2. CASE ~(n + 1 <= MAX_ARGS)
      BY <3>2
    <3> QED
      BY <3>1, <3>2
  <2> HIDE DEF Typed
  <2> QED
    BY <2>1, <2>2, InductionOnNat
<1>13. \A n \in 0 .. MAX_ARGS : loop[n] \in T
  BY <1>3, <1>12
<1> QED
  BY <1>11, <1>13 DEF T
-----------------------------------------------------------------------------
(* What one round reads.                                                   *)

\* The words that start before p.
Before(line, p) == {r \in WordsOf(line) : r[1] < p}

\* Nothing of a word that starts before p is at p or after.
Boundary(line, p) == p \in Nat \ {0} /\ (p = 1 \/ p - 1 > Len(line) \/ Space(line, p - 1))

\* A word is a run of positions without a space, as long as possible.
IsWord(line, a, b) ==
  /\ a \in 1 .. Len(line) /\ b \in a .. Len(line)
  /\ \A i \in a .. b : ~Space(line, i)
  /\ a = 1 \/ Space(line, a - 1)
  /\ b = Len(line) \/ Space(line, b + 1)

LEMMA WordIs ==
  ASSUME NEW S, NEW line \in Seq(S)
  PROVE  /\ \A a, b : <<a, b>> \in WordsOf(line) <=> IsWord(line, a, b)
         /\ \A r \in WordsOf(line) : r = <<r[1], r[2]>> /\ IsWord(line, r[1], r[2])
<1> DEFINE D    == 1 .. Len(line)
           P(r) == /\ r[1] <= r[2]
                   /\ \A i \in r[1] .. r[2] : line[i] # " "
                   /\ r[1] = 1 \/ line[r[1] - 1] = " "
                   /\ r[2] = Len(line) \/ line[r[2] + 1] = " "
<1>1. DOMAIN line = D /\ Len(line) \in Nat
  OBVIOUS
<1>2. WordsOf(line) = {r \in D \X D : P(r)}
  BY <1>1, Zenon DEF WordsOf
<1>3. ASSUME NEW a, NEW b
      PROVE  <<a, b>> \in D \X D /\ P(<<a, b>>) <=> IsWord(line, a, b)
  <2>1. <<a, b>> \in D \X D /\ P(<<a, b>>) <=>
          /\ a \in D /\ b \in D /\ a <= b
          /\ \A i \in a .. b : line[i] # " "
          /\ a = 1 \/ line[a - 1] = " "
          /\ b = Len(line) \/ line[b + 1] = " "
    BY Zenon
  <2>2. a \in D /\ b \in D /\ a <= b <=> a \in 1 .. Len(line) /\ b \in a .. Len(line)
    BY <1>1
  <2> QED
    BY <2>1, <2>2, Zenon DEF IsWord, Space, Blank
<1>4. \A r \in D \X D : r = <<r[1], r[2]>>
  OBVIOUS
<1> HIDE DEF D, P
<1>5. \A a, b : <<a, b>> \in WordsOf(line) <=> IsWord(line, a, b)
  BY <1>2, <1>3, Zenon
<1>6. ASSUME NEW r \in WordsOf(line)
      PROVE  r = <<r[1], r[2]>> /\ IsWord(line, r[1], r[2])
  <2>1. r = <<r[1], r[2]>>
    BY <1>2, <1>4
  <2>2. <<r[1], r[2]>> \in WordsOf(line)
    BY <2>1, Zenon
  <2> QED
    BY <1>5, <2>1, <2>2, ZenonT(60)
<1> QED
  BY <1>5, <1>6

\* Two words are the same if they start at the same position.
LEMMA WordEndsOnce ==
  ASSUME NEW line, Len(line) \in Nat, NEW a, NEW b, IsWord(line, a, b), NEW c, IsWord(line, a, c)
  PROVE  b = c
<1>1. PICK n : n = Len(line)
  OBVIOUS
<1>2. /\ n \in Nat /\ a \in 1 .. n /\ b \in a .. n /\ c \in a .. n
      /\ \A i \in a .. b : ~Space(line, i)
      /\ \A i \in a .. c : ~Space(line, i)
      /\ b = n \/ Space(line, b + 1)
      /\ c = n \/ Space(line, c + 1)
  BY <1>1 DEF IsWord
<1>3. ~(b < c) /\ ~(c < b)
  BY <1>2
<1> QED
  BY <1>2, <1>3

\* There is no word left,
NoneLeft(line, last) == ParseRound(line, last) = last /\ \A c, d : IsWord(line, c, d) => c < last.p

\* or the next one is from a to b.
NextWord(line, last, a, b) ==
  /\ IsWord(line, a, b) /\ last.p <= a
  /\ ParseRound(line, last) = [p |-> b + 2, argv |-> Append(last.argv, SubSeq(line, a, b))]
  /\ Boundary(line, b + 2)
  /\ \A c, d : IsWord(line, c, d) =>
       /\ c < b + 2 <=> c < last.p \/ c = a
       /\ c <= a <=> c < last.p \/ c = a

\* A round finds the first word from p on, or there is none.
LEMMA RoundFinds ==
  ASSUME NEW S, NEW line \in Seq(S), NEW last \in Parsed(S), Boundary(line, last.p)
  PROVE  NoneLeft(line, last) \/ \E a, b : NextWord(line, last, a, b)
<1>1. PICK n : n = Len(line)
  OBVIOUS
<1>2. PICK p : p = last.p
  OBVIOUS
<1>3. n \in Nat /\ p \in Nat \ {0} /\ Len(line) \in Nat
  BY <1>1, <1>2 DEF Parsed
<1>4. PICK start : start = FirstFrom(line, p, FALSE)
  OBVIOUS
<1>5. Stops(line, p, FALSE, start)
  BY <1>3, <1>4, FirstFromIs, Zenon
<1>6. /\ start \in 1 .. n + 1 /\ (start <= n => p <= start /\ ~Space(line, start))
      /\ \A i \in p .. n : i < start => Space(line, i)
  <2>1. \A i : Space(line, i) \in BOOLEAN
    BY DEF Space
  <2> QED
    BY <1>1, <1>5, <2>1, ZenonT(60) DEF Stops
<1>7. PICK end : end = FirstFrom(line, start, TRUE)
  OBVIOUS
<1>8. start \in Nat \ {0}
  BY <1>3, <1>6
<1>9. Stops(line, start, TRUE, end)
  BY <1>3, <1>7, <1>8, FirstFromIs, Zenon
<1>10. /\ end \in 1 .. n + 1 /\ (end <= n => start <= end /\ Space(line, end))
       /\ \A i \in start .. n : i < end => ~Space(line, i)
  BY <1>1, <1>9 DEF Stops
<1>11. ParseRound(line, last) =
         IF start > n THEN last
         ELSE [p |-> end + 1, argv |-> Append(last.argv, SubSeq(line, start, end - 1))]
  BY <1>1, <1>2, <1>4, <1>7, Zenon DEF ParseRound
<1>12. p = 1 \/ p - 1 > n \/ Space(line, p - 1)
  BY <1>1, <1>2 DEF Boundary
<1>13. ASSUME NEW c, NEW d
       PROVE  IsWord(line, c, d) <=>
                /\ c \in 1 .. n /\ d \in c .. n
                /\ \A i \in c .. d : ~Space(line, i)
                /\ c = 1 \/ Space(line, c - 1)
                /\ d = n \/ Space(line, d + 1)
  BY <1>1, Zenon DEF IsWord
<1>14. CASE start > n
  <2>1. ASSUME NEW c, NEW d, IsWord(line, c, d), ~(c < p)
        PROVE  FALSE
    <3>1. c \in 1 .. n /\ d \in c .. n /\ ~Space(line, c)
      BY <1>3, <1>13, <2>1
    <3> QED
      BY <1>3, <1>6, <1>14, <2>1, <3>1, SMTT(30)
  <2> QED
    BY <1>2, <1>11, <1>14, <2>1, ZenonT(60) DEF NoneLeft
<1>15. CASE ~(start > n)
  <2>1. PICK b : b = end - 1
    OBVIOUS
  <2>2. start \in 1 .. n /\ b \in start .. n /\ end = b + 1 /\ p <= start
    BY <1>3, <1>6, <1>10, <1>15, <2>1
  <2>3. IsWord(line, start, b)
    <3>1. \A i \in start .. b : ~Space(line, i)
      BY <1>3, <1>10, <2>2
    <3>2. b = n \/ Space(line, b + 1)
      BY <1>3, <1>10, <2>2, SMTT(30)
    <3>3. start = 1 \/ Space(line, start - 1)
      <4>1. CASE start = p
        BY <1>3, <1>12, <2>2, <4>1
      <4>2. CASE start # p
        <5>1. start - 1 \in p .. n /\ start - 1 < start
          BY <1>3, <2>2, <4>2
        <5> QED
          BY <1>6, <5>1
      <4> QED
        BY <4>1, <4>2
    <3> QED
      BY <1>13, <2>2, <3>1, <3>2, <3>3, ZenonT(60)
  <2>4. Boundary(line, b + 2)
    <3>1. b + 2 \in Nat \ {0} /\ (b + 2) - 1 = b + 1 /\ (b = n => b + 1 > n)
      BY <1>3, <2>2, SMTT(30)
    <3>2. b = n \/ Space(line, b + 1)
      BY <1>3, <1>10, <2>2
    <3> QED
      BY <1>1, <3>1, <3>2, SMTT(30) DEF Boundary
  <2>5. ParseRound(line, last) = [p |-> b + 2, argv |-> Append(last.argv, SubSeq(line, start, b))]
    <3>1. end + 1 = b + 2 /\ end - 1 = b
      BY <1>3, <2>2
    <3> QED
      BY <1>11, <1>15, <3>1
  <2>6. ASSUME NEW c, NEW d, IsWord(line, c, d), ~(c < p)
        PROVE  c >= start /\ (c <= b + 1 => c = start)
    <3>1. c \in 1 .. n /\ d \in c .. n /\ ~Space(line, c) /\ (c = 1 \/ Space(line, c - 1))
      BY <1>3, <1>13, <2>6
    <3>2. c >= start
      BY <1>3, <1>6, <2>2, <2>6, <3>1
    <3>3. CASE c <= b + 1 /\ c # start
      <4>1. c <= b
        BY <1>3, <1>10, <2>2, <3>1, <3>3, SMTT(30)
      <4>2. c - 1 \in start .. n /\ c - 1 < end
        BY <1>3, <2>2, <3>1, <3>2, <3>3, <4>1
      <4>3. ~Space(line, c - 1) /\ c # 1
        BY <1>3, <1>10, <2>2, <3>2, <3>3, <4>2
      <4> QED
        BY <3>1, <4>3
    <3> QED
      BY <3>2, <3>3
  <2>7. ASSUME NEW c, NEW d, IsWord(line, c, d)
        PROVE  /\ c < b + 2 <=> c < p \/ c = start
               /\ c <= start <=> c < p \/ c = start
    <3>1. c \in 1 .. n
      BY <1>13, <2>7, Zenon
    <3>2. ~(c < p) => c >= start /\ (c <= b + 1 => c = start)
      BY <2>6, <2>7, Zenon
    <3> QED
      BY <1>3, <2>2, <3>1, <3>2
  <2> QED
    BY <1>2, <2>2, <2>3, <2>4, <2>5, <2>7, ZenonT(60) DEF NextWord
<1> QED
  BY <1>14, <1>15
-----------------------------------------------------------------------------
(* The words of a line are its maximal runs, in order.                     *)

\* The words that start at a or before.
UpTo(line, a) == {r \in WordsOf(line) : r[1] <= a}

\* What argv holds after n rounds.
ReadSoFar(line, s, n) ==
  /\ Boundary(line, s.p) /\ Len(s.argv) \in Nat
  /\ Cardinality(Before(line, s.p)) = Len(s.argv)
  /\ \A k \in 1 .. Len(s.argv) :
       \E a, b : IsWord(line, a, b) /\ s.argv[k] = SubSeq(line, a, b) /\ Cardinality(UpTo(line, a)) = k
  /\ Len(s.argv) = n \/ (Len(s.argv) < n /\ Before(line, s.p) = WordsOf(line))

LEMMA WordsFinite ==
  ASSUME NEW S, NEW line \in Seq(S)
  PROVE  IsFiniteSet(WordsOf(line))
<1>1. Len(line) \in Nat /\ DOMAIN line = 1 .. Len(line)
  OBVIOUS
<1>2. IsFiniteSet(1 .. Len(line))
  BY <1>1, FS_Interval
<1>3. IsFiniteSet((1 .. Len(line)) \X (1 .. Len(line)))
  BY <1>2, FS_Product
<1>4. WordsOf(line) \subseteq (1 .. Len(line)) \X (1 .. Len(line))
  BY <1>1, Zenon DEF WordsOf
<1> QED
  BY <1>3, <1>4, FS_Subset, SMTT(30)

LEMMA RoundReads ==
  ASSUME NEW S, NEW line \in Seq(S), NEW last \in Parsed(S), NEW n \in Nat, ReadSoFar(line, last, n)
  PROVE  ReadSoFar(line, ParseRound(line, last), n + 1)
<1> DEFINE W == WordsOf(line)
<1>1. PICK p, argv : p = last.p /\ argv = last.argv
  OBVIOUS
<1>2. /\ p \in Nat \ {0} /\ argv \in Seq(Seq(S)) /\ Len(argv) \in Nat
      /\ Boundary(line, last.p)
  BY <1>1 DEF Parsed, ReadSoFar
<1>3. /\ Cardinality(Before(line, p)) = Len(argv)
      /\ \A k \in 1 .. Len(argv) :
           \E a, b : IsWord(line, a, b) /\ argv[k] = SubSeq(line, a, b) /\ Cardinality(UpTo(line, a)) = k
      /\ Len(argv) = n \/ (Len(argv) < n /\ Before(line, p) = W)
  BY <1>1, Zenon DEF ReadSoFar
<1>4. CASE NoneLeft(line, last)
  <2>1. Before(line, p) = W
    BY <1>1, <1>4, WordIs, ZenonT(60) DEF Before, NoneLeft
  <2>2. Len(argv) < n + 1
    BY <1>2, <1>3
  <2> QED
    BY <1>1, <1>2, <1>3, <1>4, <2>1, <2>2, ZenonT(60) DEF ReadSoFar, NoneLeft
<1>5. CASE \E a, b : NextWord(line, last, a, b)
  <2>1. PICK a, b :
          /\ IsWord(line, a, b) /\ p <= a
          /\ ParseRound(line, last) = [p |-> b + 2, argv |-> Append(argv, SubSeq(line, a, b))]
          /\ Boundary(line, b + 2)
          /\ \A c, d : IsWord(line, c, d) =>
               /\ c < b + 2 <=> c < p \/ c = a
               /\ c <= a <=> c < p \/ c = a
    BY <1>1, <1>5, ZenonT(60) DEF NextWord
  <2>2. PICK word : word = SubSeq(line, a, b)
    OBVIOUS
  <2>3. word \in Seq(S)
    BY <2>1, <2>2, SMTT(30) DEF IsWord
  <2>4. PICK more : more = Append(argv, word)
    OBVIOUS
  <2>5. /\ Len(more) = Len(argv) + 1 /\ more[Len(argv) + 1] = word
        /\ \A k \in 1 .. Len(argv) : more[k] = argv[k]
    BY <1>2, <2>3, <2>4
  <2>6. <<a, b>> \in W /\ <<a, b>> \notin Before(line, p)
    <3>1. <<a, b>> \in W
      BY <2>1, WordIs, ZenonT(60)
    <3>2. a \in Nat /\ ~(a < p)
      BY <1>2, <2>1, SMTT(30) DEF IsWord
    <3>3. <<a, b>>[1] = a
      OBVIOUS
    <3> QED
      BY <3>1, <3>2, <3>3, Zenon DEF Before
  <2>7. ASSUME NEW r \in W
        PROVE  /\ r[1] < b + 2 <=> r \in Before(line, p) \/ r = <<a, b>>
               /\ r[1] <= a <=> r \in Before(line, p) \/ r = <<a, b>>
    <3>1. r = <<r[1], r[2]>> /\ IsWord(line, r[1], r[2])
      BY <2>7, WordIs, ZenonT(60)
    <3>2. r[1] = a <=> r = <<a, b>>
      <4>1. ASSUME r[1] = a PROVE r[2] = b
        BY <2>1, <3>1, <4>1, WordEndsOnce, SMTT(30)
      <4>2. <<a, b>>[1] = a
        OBVIOUS
      <4> QED
        BY <3>1, <4>1, <4>2, ZenonT(60)
    <3>3. r[1] < p <=> r \in Before(line, p)
      BY <2>7, Zenon DEF Before
    <3> QED
      BY <2>1, <3>1, <3>2, <3>3, ZenonT(60)
  <2>8. /\ Before(line, b + 2) = Before(line, p) \cup {<<a, b>>}
        /\ UpTo(line, a) = Before(line, p) \cup {<<a, b>>}
    BY <2>6, <2>7, ZenonT(60) DEF Before, UpTo
  <2>9. Cardinality(Before(line, p) \cup {<<a, b>>}) = Len(argv) + 1
    <3>1. IsFiniteSet(Before(line, p))
      BY WordsFinite, FS_Subset DEF Before
    <3>2. Cardinality(Before(line, p) \cup {<<a, b>>}) = Cardinality(Before(line, p)) + 1
      BY <2>6, <3>1, FS_AddElement, ZenonT(60)
    <3> QED
      BY <1>3, <3>2, ZenonT(60)
  <2>10. ASSUME Before(line, p) = W PROVE FALSE
    BY <2>6, <2>10
  <2>11. ASSUME NEW k \in 1 .. Len(argv) + 1
         PROVE  \E c, d : /\ IsWord(line, c, d) /\ more[k] = SubSeq(line, c, d)
                          /\ Cardinality(UpTo(line, c)) = k
    <3>1. CASE k = Len(argv) + 1
      BY <2>1, <2>2, <2>5, <2>8, <2>9, <3>1, ZenonT(60)
    <3>2. CASE k # Len(argv) + 1
      <4>1. k \in 1 .. Len(argv)
        BY <1>2, <3>2
      <4> QED
        BY <1>3, <2>5, <4>1, Zenon
    <3> QED
      BY <3>1, <3>2
  <2>12. PICK next : next = ParseRound(line, last)
    OBVIOUS
  <2>13. next.p = b + 2 /\ next.argv = more
    <3>1. next = [p |-> b + 2, argv |-> more]
      BY <2>1, <2>2, <2>4, <2>12, ZenonT(60)
    <3> QED
      BY <3>1
  <2>14. Len(more) \in Nat /\ Len(more) = n + 1
    BY <1>2, <1>3, <2>5, <2>10
  <2>15. /\ Cardinality(Before(line, b + 2)) = Len(more)
         /\ \A k \in 1 .. Len(more) :
              \E c, d : /\ IsWord(line, c, d) /\ more[k] = SubSeq(line, c, d)
                        /\ Cardinality(UpTo(line, c)) = k
    BY <2>5, <2>8, <2>9, <2>11, ZenonT(60)
  <2> QED
    BY <2>1, <2>12, <2>13, <2>14, <2>15, ZenonT(60) DEF ReadSoFar
<1> QED
  BY <1>2, <1>4, <1>5, RoundFinds, ZenonT(60)

LEMMA LoopReads ==
  ASSUME NEW S, NEW line \in Seq(S), NEW loop, ParseLoop(line, loop),
         \A n \in 0 .. MAX_ARGS : loop[n] \in Parsed(S)
  PROVE  \A n \in 0 .. MAX_ARGS : ReadSoFar(line, loop[n], n)
<1> DEFINE T == {n \in Nat : n <= MAX_ARGS => ReadSoFar(line, loop[n], n)}
<1>1. MAX_ARGS \in Nat
  BY ShellAssumption
<1>2. 0 \in T
  <2>1. loop[0].p = 1 /\ loop[0].argv = <<>>
    BY DEF ParseLoop
  <2>2. \A r \in WordsOf(line) : ~(r[1] < 1)
    BY WordIs DEF IsWord
  <2>3. Before(line, 1) = {}
    BY <2>2, Zenon DEF Before
  <2>4. Cardinality(Before(line, 1)) = 0 /\ Len(<<>>) = 0 /\ 1 .. 0 = {}
    <3>1. Cardinality(Before(line, 1)) = 0
      BY <2>3, FS_EmptySet, ZenonT(60)
    <3> QED
      BY <3>1
  <2>5. Boundary(line, 1)
    BY DEF Boundary
  <2>6. ReadSoFar(line, loop[0], 0)
    BY <2>1, <2>4, <2>5 DEF ReadSoFar
  <2> QED
    BY <2>6
<1>3. ASSUME NEW n \in Nat, n \in T
      PROVE  n + 1 \in T
  <2> SUFFICES ASSUME n + 1 <= MAX_ARGS PROVE ReadSoFar(line, loop[n + 1], n + 1)
    OBVIOUS
  <2>1. n \in 0 .. MAX_ARGS /\ n + 1 \in 1 .. MAX_ARGS /\ (n + 1) - 1 = n
    BY <1>1
  <2>2. loop[n + 1] = ParseRound(line, loop[n])
    BY <2>1 DEF ParseLoop
  <2>3. ReadSoFar(line, loop[n], n) /\ loop[n] \in Parsed(S)
    BY <1>3, <2>1
  <2> QED
    BY <2>2, <2>3, RoundReads
<1>4. Nat \subseteq T
  <2> HIDE DEF T
  <2> QED
    BY <1>2, <1>3, InductionOnNat
<1> QED
  BY <1>1, <1>4

\* The word that has k - 1 words before it.
NthWord(line, k) ==
  CHOOSE r \in WordsOf(line) : Cardinality({s \in WordsOf(line) : s[1] <= r[1]}) = k

\* There is only one.
LEMMA NthIs ==
  ASSUME NEW S, NEW line \in Seq(S), NEW a, NEW b, IsWord(line, a, b)
  PROVE  NthWord(line, Cardinality(UpTo(line, a))) = <<a, b>>
<1>1. PICK r : r = NthWord(line, Cardinality(UpTo(line, a)))
  OBVIOUS
<1>2. <<a, b>> \in WordsOf(line) /\ <<a, b>>[1] = a /\ <<a, b>>[2] = b
  <2>1. <<a, b>> \in WordsOf(line)
    BY WordIs, Zenon
  <2> QED
    BY <2>1
<1>3. r \in WordsOf(line) /\ Cardinality(UpTo(line, r[1])) = Cardinality(UpTo(line, a))
  <2>1. \E q \in WordsOf(line) :
          Cardinality({s \in WordsOf(line) : s[1] <= q[1]}) = Cardinality(UpTo(line, a))
    <3>1. Cardinality({s \in WordsOf(line) : s[1] <= <<a, b>>[1]}) = Cardinality(UpTo(line, a))
      BY <1>2, Zenon DEF UpTo
    <3> QED
      BY <1>2, <3>1, Zenon
  <2> QED
    BY <1>1, <2>1, Zenon DEF NthWord, UpTo
<1>4. r = <<r[1], r[2]>> /\ IsWord(line, r[1], r[2])
  BY <1>3, WordIs, Zenon
<1>5. a \in Nat /\ r[1] \in Nat
  BY <1>4 DEF IsWord
<1>6. IsFiniteSet(UpTo(line, a)) /\ IsFiniteSet(UpTo(line, r[1]))
  BY WordsFinite, FS_Subset DEF UpTo
<1>7. ASSUME a <= r[1] PROVE r[1] = a
  <2>1. UpTo(line, a) \in SUBSET UpTo(line, r[1])
    <3>1. \A s \in WordsOf(line) : s[1] \in Nat
      BY WordIs DEF IsWord
    <3>2. \A s \in WordsOf(line) : s[1] <= a => s[1] <= r[1]
      BY <1>5, <1>7, <3>1
    <3> QED
      BY <3>2, Zenon DEF UpTo
  <2>2. UpTo(line, a) = UpTo(line, r[1])
    BY <1>3, <1>6, <2>1, FS_Subset, ZenonT(60)
  <2>3. r \in UpTo(line, r[1])
    BY <1>3, <1>5 DEF UpTo
  <2>4. r[1] <= a
    BY <2>2, <2>3 DEF UpTo
  <2> QED
    BY <1>5, <1>7, <2>4
<1>8. ASSUME r[1] <= a PROVE r[1] = a
  <2>1. UpTo(line, r[1]) \in SUBSET UpTo(line, a)
    <3>1. \A s \in WordsOf(line) : s[1] \in Nat
      BY WordIs DEF IsWord
    <3>2. \A s \in WordsOf(line) : s[1] <= r[1] => s[1] <= a
      BY <1>5, <1>8, <3>1
    <3> QED
      BY <3>2, Zenon DEF UpTo
  <2>2. UpTo(line, a) = UpTo(line, r[1])
    BY <1>3, <1>6, <2>1, FS_Subset, ZenonT(60)
  <2>3. <<a, b>> \in UpTo(line, a)
    BY <1>2, <1>5 DEF UpTo
  <2>4. a <= r[1]
    <3>1. <<a, b>> \in UpTo(line, r[1])
      BY <2>2, <2>3, Zenon
    <3> QED
      BY <1>2, <3>1, Zenon DEF UpTo
  <2> QED
    BY <1>5, <1>8, <2>4
<1>9. r[1] = a
  BY <1>5, <1>7, <1>8
<1>10. r[2] = b
  BY <1>4, <1>9, WordEndsOnce
<1> QED
  BY <1>1, <1>4, <1>9, <1>10

\* parse_args returns the words of a line in order, as many as argv holds.
LEMMA ArgsAreWords ==
  ASSUME NEW S, NEW line \in Seq(S)
  PROVE  /\ parse_args(line) \in Seq(Seq(S))
         /\ Len(parse_args(line)) = Min({Cardinality(WordsOf(line)), MAX_ARGS})
         /\ \A k \in 1 .. Len(parse_args(line)) :
              \E a, b : /\ IsWord(line, a, b) /\ NthWord(line, k) = <<a, b>>
                        /\ parse_args(line)[k] = SubSeq(line, a, b)
<1>1. PICK loop : ParseLoop(line, loop) /\ \A n \in 0 .. MAX_ARGS : loop[n] \in Parsed(S)
  BY ParseLoopExists
<1>2. MAX_ARGS \in Nat /\ MAX_ARGS \in 0 .. MAX_ARGS
  BY ShellAssumption
<1>3. PICK s : s = loop[MAX_ARGS]
  OBVIOUS
<1>4. ReadSoFar(line, s, MAX_ARGS) /\ s \in Parsed(S)
  BY <1>1, <1>2, <1>3, LoopReads
<1>5. PICK argv : argv = s.argv
  OBVIOUS
<1>6. parse_args(line) = argv /\ argv \in Seq(Seq(S))
  BY <1>1, <1>3, <1>4, <1>5 DEF ParseLoop, Parsed
<1>7. /\ Len(argv) \in Nat
      /\ Cardinality(Before(line, s.p)) = Len(argv)
      /\ \A k \in 1 .. Len(argv) :
           \E a, b : IsWord(line, a, b) /\ argv[k] = SubSeq(line, a, b) /\ Cardinality(UpTo(line, a)) = k
      /\ Len(argv) = MAX_ARGS \/ (Len(argv) < MAX_ARGS /\ Before(line, s.p) = WordsOf(line))
  BY <1>4, <1>5, Zenon DEF ReadSoFar
<1>8. IsFiniteSet(WordsOf(line))
  BY WordsFinite
<1>9. PICK m : m = Cardinality(WordsOf(line))
  OBVIOUS
<1>10. m \in Nat
  BY <1>8, <1>9, FS_CardinalityType
<1>11. Len(argv) <= m
  <2>1. Before(line, s.p) \in SUBSET WordsOf(line)
    BY DEF Before
  <2> QED
    BY <1>7, <1>8, <1>9, <2>1, FS_Subset, ZenonT(60)
<1>12. Min({m, MAX_ARGS}) = IF m <= MAX_ARGS THEN m ELSE MAX_ARGS
  BY <1>2, <1>10, MinOfTwo
<1>13. Len(argv) = Min({m, MAX_ARGS})
  <2>1. CASE Len(argv) = MAX_ARGS
    BY <1>2, <1>10, <1>11, <1>12, <2>1
  <2>2. CASE Len(argv) < MAX_ARGS /\ Before(line, s.p) = WordsOf(line)
    <3>1. Len(argv) = m
      BY <1>7, <1>9, <2>2, Zenon
    <3> QED
      BY <1>2, <1>7, <1>10, <1>12, <2>2, <3>1, SMTT(30)
  <2> QED
    BY <1>7, <2>1, <2>2, Zenon
<1>14. ASSUME NEW k \in 1 .. Len(argv)
       PROVE  \E a, b : /\ IsWord(line, a, b) /\ NthWord(line, k) = <<a, b>>
                        /\ argv[k] = SubSeq(line, a, b)
  <2>1. PICK a, b : /\ IsWord(line, a, b) /\ argv[k] = SubSeq(line, a, b)
                    /\ Cardinality(UpTo(line, a)) = k
    BY <1>7, Zenon
  <2>2. NthWord(line, Cardinality(UpTo(line, a))) = <<a, b>>
    BY <2>1, NthIs
  <2> QED
    BY <2>1, <2>2, Zenon
<1> QED
  BY <1>6, <1>9, <1>13, <1>14, ZenonT(60)

\* A word: neither empty nor with a space in it.
Word(S, word) == word \in Seq(S) /\ Len(word) >= 1 /\ \A i \in 1 .. Len(word) : ~Space(word, i)

LEMMA ArgsAreNonempty ==
  ASSUME NEW S, NEW line \in Seq(S), NEW k \in 1 .. Len(parse_args(line))
  PROVE  Word(S, parse_args(line)[k])
<1>1. PICK a, b : IsWord(line, a, b) /\ parse_args(line)[k] = SubSeq(line, a, b)
  BY ArgsAreWords, ZenonT(60)
<1>2. PICK word : word = SubSeq(line, a, b)
  OBVIOUS
<1>3. /\ a \in 1 .. Len(line) /\ b \in a .. Len(line) /\ Len(line) \in Nat
      /\ \A i \in a .. b : ~Space(line, i)
  BY <1>1 DEF IsWord
<1>4. /\ word \in Seq(S) /\ Len(word) = b - a + 1
      /\ \A i \in 1 .. b - a + 1 : word[i] = line[a + i - 1]
  BY <1>2, <1>3, SMTT(60)
<1>5. ASSUME NEW i \in 1 .. Len(word)
      PROVE  ~Space(word, i)
  <2>1. a + i - 1 \in a .. b /\ word[i] = line[a + i - 1]
    BY <1>3, <1>4
  <2> QED
    BY <1>3, <2>1, Zenon DEF Space
<1>6. Len(word) >= 1
  BY <1>3, <1>4
<1> QED
  BY <1>1, <1>2, <1>4, <1>5, <1>6, ZenonT(60) DEF Word

-----------------------------------------------------------------------------
(* What join_args joins, parse_args takes apart.                           *)

\* text is the loop of join_args from the first argument on.
JoinLoop(argv, text) ==
  /\ text[1] = argv[1]
  /\ \A i \in 1 .. Len(argv) - 1 : text[i + 1] = text[i] \o <<Blank>> \o argv[i + 1]
  /\ join_args(argv, 1) = text[Len(argv)]

LEMMA JoinLoopExists ==
  ASSUME NEW S, Blank \in S, NEW argv, Len(argv) \in Nat \ {0}, \A i \in 1 .. Len(argv) : argv[i] \in Seq(S)
  PROVE  \E text : JoinLoop(argv, text) /\ \A i \in 1 .. Len(argv) : text[i] \in Seq(S)
<1> DEFINE T      == Seq(S)
           m      == Len(argv)
           step   == [j \in 1 .. m - 1 |-> [x \in T |-> x \o <<Blank>> \o argv[j + 1]]]
           is(h)  == h = [i \in 1 .. Len(argv) |->
                            IF i = 1 THEN argv[i] ELSE h[i - 1] \o <<" ">> \o argv[i]]
           text   == CHOOSE h : is(h)
<1>1. m \in Nat /\ m - 1 \in Nat /\ argv[1] \in T /\ \A i \in 1 .. m : argv[i] \in T
  OBVIOUS
<1>2. step \in [1 .. m - 1 -> [T -> T]]
  <2>1. ASSUME NEW x \in T, NEW j \in 1 .. m - 1
        PROVE  x \o <<Blank>> \o argv[j + 1] \in T
    <3>1. argv[j + 1] \in Seq(S) /\ <<Blank>> \in Seq(S)
      BY <1>1
    <3> QED
      BY <3>1
  <2> HIDE DEF T
  <2> QED
    BY <2>1
<1>3. \A j \in 1 .. m - 1, x \in T : step[j][x] = x \o <<Blank>> \o argv[j + 1]
  OBVIOUS
<1> HIDE DEF step, T, m
<1>4. PICK g \in [0 .. m - 1 -> T] :
        g[0] = argv[1] /\ \A j \in 1 .. m - 1 : g[j] = step[j][g[j - 1]]
  <2>1. Runs(T, argv[1], m - 1, step)
    BY <1>1, <1>2, Iterates, Zenon
  <2> QED
    BY <2>1, Zenon DEF Runs
<1> DEFINE f == [i \in 1 .. m |-> g[i - 1]]
<1>5. ASSUME NEW i \in 1 .. m
      PROVE  f[i] = IF i = 1 THEN argv[i] ELSE f[i - 1] \o <<Blank>> \o argv[i]
  <2>1. CASE i = 1
    BY <1>1, <1>4, <2>1
  <2>2. CASE i # 1
    <3>1. PICK j : j = i - 1
      OBVIOUS
    <3>2. j \in 1 .. m - 1 /\ j - 1 \in 0 .. m - 1 /\ j + 1 = i /\ j \in 1 .. m
      BY <1>1, <2>2, <3>1
    <3>3. f[i] = g[j] /\ f[j] = g[j - 1] /\ g[j - 1] \in T
      BY <1>4, <3>1, <3>2, SMTT(30)
    <3>4. g[j] = step[j][g[j - 1]]
      BY <1>4, <3>2, Zenon
    <3>5. g[j] = g[j - 1] \o <<Blank>> \o argv[i]
      BY <1>3, <3>2, <3>3, <3>4, Zenon
    <3> QED
      BY <2>2, <3>1, <3>3, <3>5, ZenonT(60)
  <2> QED
    BY <2>1, <2>2
<1>6. f = [i \in 1 .. m |-> IF i = 1 THEN argv[i] ELSE f[i - 1] \o <<Blank>> \o argv[i]]
  <2>1. f = [i \in 1 .. m |-> f[i]]
    OBVIOUS
  <2> HIDE DEF f
  <2> QED
    BY <1>5, <2>1, Zenon
<1> HIDE DEF f
<1>7. is(f)
  BY <1>6, Zenon DEF m, Blank
<1>8. is(text)
  BY <1>7, Zenon
<1>9. join_args(argv, 1) = text[m]
  BY Zenon DEF join_args, m
<1> HIDE DEF text
<1>10. ASSUME NEW i \in 1 .. m
       PROVE  text[i] = IF i = 1 THEN argv[i] ELSE text[i - 1] \o <<Blank>> \o argv[i]
  BY <1>8, Zenon DEF m, Blank
<1>11. text[1] = argv[1]
  BY <1>1, <1>10
<1>12. ASSUME NEW i \in 1 .. m - 1
       PROVE  text[i + 1] = text[i] \o <<Blank>> \o argv[i + 1]
  <2>1. PICK j : j = i + 1
    OBVIOUS
  <2>2. j \in 1 .. m /\ j # 1 /\ j - 1 = i
    BY <1>1, <2>1, SMTT(30)
  <2> QED
    BY <1>10, <2>1, <2>2, Zenon
<1> DEFINE Typed == {n \in Nat : n + 1 <= m => text[n + 1] \in T}
<1>13. 0 \in Typed
  BY <1>1, <1>11, SMTT(30)
<1>14. ASSUME NEW n \in Nat, n \in Typed
       PROVE  n + 1 \in Typed
  <2> SUFFICES ASSUME (n + 1) + 1 <= m PROVE text[(n + 1) + 1] \in T
    OBVIOUS
  <2>1. n + 1 \in 1 .. m - 1 /\ (n + 1) + 1 \in 1 .. m
    BY <1>1
  <2>2. text[n + 1] \in Seq(S) /\ argv[(n + 1) + 1] \in Seq(S) /\ <<Blank>> \in Seq(S)
    BY <1>1, <1>14, <2>1, SMTT(30) DEF T
  <2>3. text[(n + 1) + 1] = text[n + 1] \o <<Blank>> \o argv[(n + 1) + 1]
    BY <1>12, <2>1
  <2> QED
    BY <2>2, <2>3 DEF T
<1>15. Nat \subseteq Typed
  <2> HIDE DEF Typed
  <2> QED
    BY <1>13, <1>14, InductionOnNat
<1>16. ASSUME NEW i \in 1 .. m PROVE text[i] \in T
  <2>1. i - 1 \in Nat /\ (i - 1) + 1 = i /\ i <= m
    BY <1>1
  <2> QED
    BY <1>15, <2>1
<1> QED
  BY <1>9, <1>11, <1>12, <1>16, Zenon DEF JoinLoop, m, T

\* The words argv[1 .. i] are in the text, one space between two, and word n + 1
\* behind position e[n] + 1.
Spaced(text, argv, e, i) ==
  /\ e[i] = Len(text)
  /\ \A n \in 0 .. i - 1 :
       /\ e[n] \in Int /\ e[n] >= -1 /\ e[n + 1] = e[n] + 1 + Len(argv[n + 1])
       /\ e[n + 1] <= Len(text)
       /\ \A k \in 1 .. Len(argv[n + 1]) : text[e[n] + 1 + k] = argv[n + 1][k]
       /\ n + 1 < i => Space(text, e[n + 1] + 1)

LEMMA SpacedMore ==
  ASSUME NEW S, Blank \in S, NEW text \in Seq(S), NEW argv, NEW i \in Nat \ {0}, argv[i + 1] \in Seq(S),
         \A n \in 1 .. i : Len(argv[n]) \in Nat,
         NEW e, Spaced(text, argv, e, i), e[i + 1] = e[i] + 1 + Len(argv[i + 1])
  PROVE  Spaced(text \o <<Blank>> \o argv[i + 1], argv, e, i + 1)
<1>1. PICK word : word = argv[i + 1]
  OBVIOUS
<1>2. PICK more : more = text \o <<Blank>> \o word
  OBVIOUS
<1>3. word \in Seq(S) /\ Len(word) \in Nat /\ Len(text) \in Nat
  BY <1>1
<1>4. /\ more \in Seq(S) /\ Len(more) = Len(text) + 1 + Len(word)
      /\ \A k \in 1 .. Len(text) : more[k] = text[k]
      /\ more[Len(text) + 1] = Blank
      /\ \A k \in 1 .. Len(word) : more[Len(text) + 1 + k] = word[k]
  <2>1. <<Blank>> \in Seq(S) /\ Len(<<Blank>>) = 1
    OBVIOUS
  <2>2. PICK one : one = text \o <<Blank>>
    OBVIOUS
  <2>3. /\ one \in Seq(S) /\ Len(one) = Len(text) + 1
        /\ \A k \in 1 .. Len(text) : one[k] = text[k]
        /\ one[Len(text) + 1] = Blank
    BY <1>3, <2>1, <2>2
  <2>4. more = one \o word
    BY <1>2, <2>2
  <2>5. /\ more \in Seq(S) /\ Len(more) = Len(one) + Len(word)
        /\ \A k \in 1 .. Len(one) : more[k] = one[k]
        /\ \A k \in 1 .. Len(word) : more[Len(one) + k] = word[k]
    <3>1. one \in Seq(S) /\ word \in Seq(S)
      BY <1>3, <2>3
    <3>2. more \in Seq(S) /\ Len(more) = Len(one) + Len(word)
      BY <2>4, <3>1, SMTT(30)
    <3>3. \A k \in 1 .. Len(one) + Len(word) :
            more[k] = IF k <= Len(one) THEN one[k] ELSE word[k - Len(one)]
      BY <2>4, <3>1, ConcatProperties
    <3>4. Len(one) \in Nat /\ Len(word) \in Nat
      BY <3>1
    <3>5. \A k \in 1 .. Len(one) : more[k] = one[k]
      BY <3>3, <3>4, SMTT(30)
    <3>6. ASSUME NEW k \in 1 .. Len(word) PROVE more[Len(one) + k] = word[k]
      <4>1. /\ Len(one) + k \in 1 .. Len(one) + Len(word) /\ ~(Len(one) + k <= Len(one))
            /\ (Len(one) + k) - Len(one) = k
        BY <3>4
      <4> QED
        BY <3>3, <4>1, Zenon
    <3> QED
      BY <3>2, <3>5, <3>6
  <2> QED
    BY <1>3, <2>3, <2>5, SMTT(30)
<1>5. e[i] = Len(text)
  BY DEF Spaced
<1>6. ASSUME NEW n \in 0 .. i
      PROVE  /\ e[n] \in Int /\ e[n] >= -1 /\ e[n + 1] = e[n] + 1 + Len(argv[n + 1])
             /\ e[n + 1] <= Len(more)
             /\ \A k \in 1 .. Len(argv[n + 1]) : more[e[n] + 1 + k] = argv[n + 1][k]
             /\ n + 1 < i + 1 => Space(more, e[n + 1] + 1)
  <2>1. CASE n = i
    <3>1. e[n + 1] = Len(more) /\ e[n] = Len(text) /\ argv[n + 1] = word
      BY <1>1, <1>3, <1>4, <1>5, <2>1
    <3>2. e[n + 1] = e[n] + 1 + Len(argv[n + 1])
      BY <2>1
    <3> QED
      BY <1>3, <1>4, <2>1, <3>1, <3>2, SMTT(30)
  <2>2. CASE n # i
    <3>1. n \in 0 .. i - 1 /\ n + 1 \in 1 .. i
      BY <2>2
    <3>2. /\ e[n] \in Int /\ e[n] >= -1 /\ e[n + 1] = e[n] + 1 + Len(argv[n + 1])
          /\ e[n + 1] <= Len(text)
          /\ \A k \in 1 .. Len(argv[n + 1]) : text[e[n] + 1 + k] = argv[n + 1][k]
          /\ n + 1 < i => Space(text, e[n + 1] + 1)
      BY <3>1, Zenon DEF Spaced
    <3>3. Len(argv[n + 1]) \in Nat
      BY <3>1
    <3>4. ASSUME NEW k \in 1 .. Len(argv[n + 1])
          PROVE  more[e[n] + 1 + k] = argv[n + 1][k]
      <4>1. e[n] + 1 + k \in 1 .. Len(text)
        BY <1>3, <3>2, <3>3, SMTT(60)
      <4> QED
        BY <1>4, <3>2, <4>1, Zenon
    <3>5. Space(more, e[n + 1] + 1)
      <4>1. CASE n + 1 = i
        BY <1>4, <1>5, <4>1, Zenon DEF Space
      <4>2. CASE n + 1 # i
        <5>1. n + 1 \in 0 .. i - 1 /\ n + 1 < i /\ (n + 1) + 1 \in 1 .. i
          BY <3>1, <4>2
        <5>2. /\ e[(n + 1) + 1] = e[n + 1] + 1 + Len(argv[(n + 1) + 1])
              /\ e[(n + 1) + 1] <= Len(text) /\ e[n + 1] \in Int /\ e[n + 1] >= -1
          BY <5>1, Zenon DEF Spaced
        <5>3. Len(argv[(n + 1) + 1]) \in Nat
          BY <5>1
        <5>4. e[n + 1] >= 0
          BY <3>2, <3>3, SMTT(30)
        <5>5. e[n + 1] + 1 \in 1 .. Len(text)
          BY <1>3, <5>2, <5>3, <5>4, SMTT(60)
        <5> QED
          BY <1>4, <3>2, <5>1, <5>5, Zenon DEF Space
      <4> QED
        BY <4>1, <4>2
    <3>6. e[n + 1] <= Len(more)
      BY <1>3, <1>4, <3>2, <3>3, SMTT(60)
    <3> QED
      BY <3>2, <3>4, <3>5, <3>6, Zenon
  <2> QED
    BY <2>1, <2>2
<1>7. e[i + 1] = Len(more)
  BY <1>1, <1>3, <1>4, <1>5
<1>8. (i + 1) - 1 = i
  OBVIOUS
<1> QED
  BY <1>1, <1>2, <1>6, <1>7, <1>8, ZenonT(60) DEF Spaced

\* All the words are.
LEMMA JoinIsSpaced ==
  ASSUME NEW S, Blank \in S, NEW argv, Len(argv) \in Nat \ {0}, \A i \in 1 .. Len(argv) : argv[i] \in Seq(S)
  PROVE  join_args(argv, 1) \in Seq(S) /\ \E e : e[0] = -1 /\ Spaced(join_args(argv, 1), argv, e, Len(argv))
<1>1. PICK text : JoinLoop(argv, text) /\ \A i \in 1 .. Len(argv) : text[i] \in Seq(S)
  BY JoinLoopExists
<1>2. PICK m : m = Len(argv)
  OBVIOUS
<1>3. m \in Nat \ {0} /\ \A i \in 1 .. m : Len(argv[i]) \in Nat /\ Len(text[i]) \in Nat /\ argv[i] \in Seq(S)
  BY <1>1, <1>2
<1>4. /\ text[1] = argv[1]
      /\ \A i \in 1 .. m - 1 : text[i + 1] = text[i] \o <<Blank>> \o argv[i + 1]
      /\ join_args(argv, 1) = text[m]
  BY <1>1, <1>2 DEF JoinLoop
<1>5. PICK e : e = [i \in 0 .. m |-> IF i = 0 THEN -1 ELSE Len(text[i])]
  OBVIOUS
<1>6. e[0] = -1 /\ \A i \in 1 .. m : e[i] = Len(text[i])
  BY <1>3, <1>5
<1> DEFINE T == {n \in Nat : n + 1 <= m => Spaced(text[n + 1], argv, e, n + 1)}
<1>7. 0 \in T
  <2> SUFFICES ASSUME 0 + 1 <= m PROVE Spaced(text[0 + 1], argv, e, 0 + 1)
    OBVIOUS
  <2>1. e[1] = Len(argv[1]) /\ Len(argv[1]) \in Nat /\ text[1] = argv[1]
    BY <1>3, <1>4, <1>6
  <2>2. ASSUME NEW n \in 0 .. 1 - 1
        PROVE  /\ e[n] \in Int /\ e[n] >= -1 /\ e[n + 1] = e[n] + 1 + Len(argv[n + 1])
               /\ e[n + 1] <= Len(text[1])
               /\ \A k \in 1 .. Len(argv[n + 1]) : text[1][e[n] + 1 + k] = argv[n + 1][k]
               /\ n + 1 < 1 => Space(text[1], e[n + 1] + 1)
    <3>1. n = 0 /\ e[0] = -1
      BY <1>6, <2>2
    <3>2. \A k \in 1 .. Len(argv[1]) : -1 + 1 + k = k
      OBVIOUS
    <3> QED
      BY <2>1, <3>1, <3>2
  <2>3. e[1] = Len(text[1])
    BY <2>1
  <2>4. Spaced(text[1], argv, e, 1)
    BY <2>2, <2>3, ZenonT(60) DEF Spaced
  <2> QED
    BY <2>4
<1>8. ASSUME NEW n \in Nat, n \in T
      PROVE  n + 1 \in T
  <2> SUFFICES ASSUME (n + 1) + 1 <= m PROVE Spaced(text[(n + 1) + 1], argv, e, (n + 1) + 1)
    OBVIOUS
  <2>1. PICK i : i = n + 1
    OBVIOUS
  <2>2. i \in Nat \ {0} /\ i \in 1 .. m - 1 /\ i \in 1 .. m /\ i + 1 \in 1 .. m
    BY <1>3, <2>1
  <2>3. /\ text[i] \in Seq(S) /\ argv[i + 1] \in Seq(S)
        /\ \A k \in 1 .. i : Len(argv[k]) \in Nat
        /\ text[i + 1] = text[i] \o <<Blank>> \o argv[i + 1]
    <3>1. text[i] \in Seq(S) /\ argv[i + 1] \in Seq(S)
      BY <1>1, <1>2, <1>3, <2>2, ZenonT(60)
    <3>2. \A k \in 1 .. i : k \in 1 .. m
      BY <1>3, <2>2
    <3>3. text[i + 1] = text[i] \o <<Blank>> \o argv[i + 1]
      BY <1>4, <2>2, Zenon
    <3> QED
      BY <1>3, <3>1, <3>2, <3>3, Zenon
  <2>4. Spaced(text[i], argv, e, i)
    BY <1>3, <1>8, <2>1, <2>2, SMTT(30)
  <2>5. e[i + 1] = e[i] + 1 + Len(argv[i + 1])
    <3>1. e[i + 1] = Len(text[i + 1]) /\ e[i] = Len(text[i])
      BY <1>6, <2>2
    <3>2. Len(text[i] \o <<Blank>> \o argv[i + 1]) = Len(text[i]) + 1 + Len(argv[i + 1])
      BY <2>3, SMTT(30)
    <3> QED
      BY <2>3, <3>1, <3>2
  <2>6. Spaced(text[i] \o <<Blank>> \o argv[i + 1], argv, e, i + 1)
    BY <2>2, <2>3, <2>4, <2>5, SpacedMore
  <2> QED
    BY <2>1, <2>3, <2>6
<1>9. Spaced(text[m], argv, e, m)
  <2>1. Nat \subseteq T
    <3> HIDE DEF T
    <3> QED
      BY <1>7, <1>8, InductionOnNat
  <2>2. m - 1 \in Nat /\ (m - 1) + 1 = m
    BY <1>3
  <2>3. m - 1 \in T
    BY <2>1, <2>2
  <2> QED
    BY <1>3, <2>2, <2>3
<1>10. text[m] \in Seq(S)
  BY <1>1, <1>2, <1>3
<1> QED
  BY <1>2, <1>4, <1>6, <1>9, <1>10, Zenon

\* A round that starts behind word n reads word n + 1.
LEMMA RoundTakesApart ==
  ASSUME NEW S, NEW line \in Seq(S), NEW argv, NEW e, NEW m \in Nat \ {0}, Spaced(line, argv, e, m),
         \A i \in 1 .. m : Word(S, argv[i]), NEW n \in 0 .. m - 1,
         NEW last, last.p = e[n] + 2
  PROVE  ParseRound(line, last) = [p |-> e[n + 1] + 2, argv |-> Append(last.argv, argv[n + 1])]
<1>1. PICK len : len = Len(line)
  OBVIOUS
<1>2. PICK word : word = argv[n + 1]
  OBVIOUS
<1>3. PICK d, p, q, size : d = e[n] /\ p = e[n] + 2 /\ q = e[n + 1] /\ size = Len(word)
  OBVIOUS
<1>4. n + 1 \in 1 .. m /\ len \in Nat
  BY <1>1
<1>5. word \in Seq(S) /\ size \in Nat /\ size >= 1 /\ \A k \in 1 .. size : ~Space(word, k)
  BY <1>2, <1>3, <1>4, SMTT(30) DEF Word
<1>6. /\ d \in Int /\ d >= -1 /\ q = d + 1 + size /\ q <= len
      /\ \A k \in 1 .. size : line[d + 1 + k] = word[k]
      /\ n + 1 < m => Space(line, q + 1)
      /\ e[m] = len
  BY <1>1, <1>2, <1>3, ZenonT(60) DEF Spaced
<1>7. p \in 1 .. len /\ q \in p .. len /\ q = p + size - 1 /\ p = d + 2
  <2>1. d \in Int /\ d >= -1 /\ q = d + 1 + size /\ q <= len /\ p = d + 2
    BY <1>3, <1>6, Zenon
  <2> QED
    BY <1>4, <1>5, <2>1
<1>8. ASSUME NEW i \in p .. q
      PROVE  ~Space(line, i) /\ line[i] = word[i - p + 1]
  <2>1. i - p + 1 \in 1 .. size /\ d + 1 + (i - p + 1) = i
    <3>1. d \in Int
      BY <1>6
    <3> QED
      BY <1>4, <1>5, <1>7, <3>1, SMTT(30)
  <2>2. line[i] = word[i - p + 1]
    BY <1>6, <2>1, Zenon
  <2> QED
    BY <1>5, <2>1, <2>2, ZenonT(60) DEF Space
<1>9. q = len \/ Space(line, q + 1)
  <2>1. CASE n + 1 = m
    BY <1>3, <1>6, <2>1, Zenon
  <2>2. CASE n + 1 # m
    <3>1. n + 1 < m
      BY <2>2
    <3> QED
      BY <1>6, <3>1, Zenon
  <2> QED
    BY <2>1, <2>2
<1>10. \A i : Space(line, i) \in BOOLEAN
  BY DEF Space
<1>11. FirstFrom(line, p, FALSE) = p
  <2>1. Stops(line, p, FALSE, p)
    <3>1. p \in 1 .. len + 1 /\ p <= p /\ p \in p .. q /\ \A i \in p .. len : ~(i < p)
      BY <1>4, <1>7, SMTT(30)
    <3> QED
      BY <1>1, <1>8, <1>10, <3>1, Zenon DEF Stops
  <2>2. p \in Nat \ {0} /\ p <= len + 1
    BY <1>4, <1>7, SMTT(30)
  <2>3. Stops(line, p, FALSE, FirstFrom(line, p, FALSE))
    BY <1>1, <1>4, <2>2, FirstFromIs, Zenon
  <2> QED
    BY <1>1, <1>4, <2>1, <2>2, <2>3, StopsOnce, Zenon
<1>12. FirstFrom(line, p, TRUE) = q + 1
  <2>1. Stops(line, p, TRUE, q + 1)
    <3>1. /\ q + 1 \in 1 .. len + 1 /\ p <= q + 1 /\ (q + 1 <= len => q # len)
          /\ \A i \in p .. len : i < q + 1 => i \in p .. q
      BY <1>4, <1>7, SMTT(30)
    <3> QED
      BY <1>1, <1>8, <1>9, <1>10, <3>1, ZenonT(60) DEF Stops
  <2>2. p \in Nat \ {0} /\ p <= len + 1
    BY <1>4, <1>7
  <2>3. Stops(line, p, TRUE, FirstFrom(line, p, TRUE))
    BY <1>1, <1>4, <2>2, FirstFromIs, Zenon
  <2> QED
    BY <1>1, <1>4, <2>1, <2>2, <2>3, StopsOnce, Zenon
<1>13. SubSeq(line, p, (q + 1) - 1) = word
  <2>1. (q + 1) - 1 = q
    BY <1>7
  <2>2. PICK cut : cut = SubSeq(line, p, q)
    OBVIOUS
  <2>3. cut \in Seq(S) /\ Len(cut) = q - p + 1 /\ \A k \in 1 .. q - p + 1 : cut[k] = line[p + k - 1]
    BY <1>1, <1>4, <1>7, <2>2, SMTT(60)
  <2>4. ASSUME NEW k \in 1 .. size
        PROVE  cut[k] = word[k]
    <3>1. k \in 1 .. q - p + 1 /\ p + k - 1 \in p .. q /\ (p + k - 1) - p + 1 = k
      BY <1>4, <1>5, <1>7, SMTT(60)
    <3> QED
      BY <1>8, <2>3, <3>1, Zenon
  <2>5. Len(cut) = size
    BY <1>4, <1>5, <1>7, <2>3, SMTT(60)
  <2>6. cut = word
    BY <1>3, <1>5, <2>3, <2>4, <2>5, SeqEqual, Zenon
  <2> QED
    BY <2>1, <2>2, <2>6
<1>14. ~(p > len) /\ (q + 1) + 1 = q + 2
  BY <1>4, <1>7
<1> QED
  BY <1>1, <1>2, <1>3, <1>11, <1>12, <1>13, <1>14, Zenon DEF ParseRound

\* Every round takes one word off.
TakenApart(line, argv, e, m) ==
  \A n \in 0 .. m - 1 : \A last :
    last.p = e[n] + 2 =>
      ParseRound(line, last) = [p |-> e[n + 1] + 2, argv |-> Append(last.argv, argv[n + 1])]

LEMMA RoundsTakeApart ==
  ASSUME NEW S, NEW line \in Seq(S), NEW argv, NEW e, NEW m \in Nat \ {0}, Spaced(line, argv, e, m),
         \A i \in 1 .. m : Word(S, argv[i])
  PROVE  TakenApart(line, argv, e, m)
<1> SUFFICES ASSUME NEW n \in 0 .. m - 1, NEW last, last.p = e[n] + 2
             PROVE  ParseRound(line, last) =
                      [p |-> e[n + 1] + 2, argv |-> Append(last.argv, argv[n + 1])]
  BY Zenon DEF TakenApart
<1> QED
  BY RoundTakesApart

\* Words that fit argv are read back as they were joined.
LEMMA JoinedIsParsed ==
  ASSUME NEW S, Blank \in S, NEW argv \in Seq(Seq(S)), Len(argv) >= 1, Len(argv) <= MAX_ARGS,
         \A i \in 1 .. Len(argv) : Word(S, argv[i])
  PROVE  parse_args(join_args(argv, 1)) = argv
<1>1. PICK m : m = Len(argv)
  OBVIOUS
<1>2. m \in Nat \ {0} /\ m <= MAX_ARGS /\ MAX_ARGS \in Nat
  BY <1>1, ShellAssumption
<1>3. PICK line : line = join_args(argv, 1)
  OBVIOUS
<1>4. Len(argv) \in Nat \ {0} /\ \A i \in 1 .. Len(argv) : argv[i] \in Seq(S)
  BY <1>1, <1>2 DEF Word
<1>5. line \in Seq(S) /\ \E e : e[0] = -1 /\ Spaced(line, argv, e, Len(argv))
  BY <1>3, <1>4, JoinIsSpaced, Zenon
<1>6. PICK e : e[0] = -1 /\ Spaced(line, argv, e, m)
  BY <1>1, <1>5, Zenon
<1>7. PICK loop : ParseLoop(line, loop) /\ \A n \in 0 .. MAX_ARGS : loop[n] \in Parsed(S)
  BY <1>5, ParseLoopExists, Zenon
<1>8. /\ loop[0] = [p |-> 1, argv |-> <<>>]
      /\ \A n \in 1 .. MAX_ARGS : loop[n] = ParseRound(line, loop[n - 1])
      /\ parse_args(line) = loop[MAX_ARGS].argv
  BY <1>7, Zenon DEF ParseLoop
<1>9. \A i \in 1 .. m : Word(S, argv[i])
  BY <1>1
<1> DEFINE After(n) == [p |-> e[n] + 2, argv |-> SubSeq(argv, 1, n)]
           T == {n \in Nat : n <= m => loop[n] = After(n)}
           U == {n \in Nat : n <= MAX_ARGS /\ n >= m => loop[n] = After(m)}
<1>10. 0 \in T
  <2>1. SubSeq(argv, 1, 0) = <<>>
    BY <1>1
  <2>2. After(0) = [p |-> 1, argv |-> <<>>]
    <3>1. e[0] + 2 = 1
      BY <1>6
    <3> QED
      BY <2>1, <3>1, Zenon
  <2> QED
    BY <1>8, <2>2
<1>11. ASSUME NEW n \in Nat, n \in T
       PROVE  n + 1 \in T
  <2> SUFFICES ASSUME n + 1 <= m PROVE loop[n + 1] = After(n + 1)
    OBVIOUS
  <2>1. n + 1 \in 1 .. MAX_ARGS /\ (n + 1) - 1 = n /\ n \in 0 .. m - 1 /\ n <= m
    BY <1>2
  <2>2. loop[n] = After(n)
    BY <1>11, <2>1
  <2>3. loop[n + 1] = ParseRound(line, After(n))
    BY <1>8, <2>1, <2>2, Zenon
  <2>4. After(n).p = e[n] + 2 /\ After(n).argv = SubSeq(argv, 1, n)
    OBVIOUS
  <2>5. ParseRound(line, After(n)) = [p |-> e[n + 1] + 2, argv |-> Append(After(n).argv, argv[n + 1])]
    <3>1. PICK last : last = After(n)
      OBVIOUS
    <3>2. last.p = e[n] + 2
      BY <2>4, <3>1
    <3> HIDE DEF After
    <3>3. ParseRound(line, last) = [p |-> e[n + 1] + 2, argv |-> Append(last.argv, argv[n + 1])]
      <4>1. m \in Nat \ {0} /\ line \in Seq(S) /\ Spaced(line, argv, e, m)
        BY <1>2, <1>5, <1>6, Zenon
      <4>2. n \in 0 .. m - 1
        BY <2>1, Zenon
      <4>3. TakenApart(line, argv, e, m)
        BY <1>9, <4>1, RoundsTakeApart, Zenon
      <4> QED
        BY <3>2, <4>2, <4>3, Zenon DEF TakenApart
    <3> QED
      BY <3>1, <3>3, Zenon
  <2>6. Append(SubSeq(argv, 1, n), argv[n + 1]) = SubSeq(argv, 1, n + 1)
    BY <1>1, <2>1
  <2> QED
    BY <2>3, <2>4, <2>5, <2>6, Zenon
<1>12. loop[m] = After(m)
  <2>1. Nat \subseteq T
    <3> HIDE DEF T
    <3> QED
      BY <1>10, <1>11, InductionOnNat
  <2>2. m \in T
    BY <1>2, <2>1, SMTT(30)
  <2> QED
    BY <1>2, <2>2
<1>13. ParseRound(line, After(m)) = After(m)
  <2>1. PICK p, len : p = e[m] + 2 /\ len = Len(line)
    OBVIOUS
  <2>2. e[m] = len /\ len \in Nat
    <3>1. e[m] = len
      BY <1>6, <2>1, Zenon DEF Spaced
    <3>2. len \in Nat
      BY <1>5, <2>1
    <3> QED
      BY <3>1, <3>2, Zenon
  <2>3. p = len + 2 /\ p \in Nat \ {0}
    BY <2>1, <2>2
  <2>4. Stops(line, p, FALSE, FirstFrom(line, p, FALSE))
    BY <2>1, <2>2, <2>3, FirstFromIs, Zenon
  <2>5. PICK q : q = FirstFrom(line, p, FALSE)
    OBVIOUS
  <2>6. q \in 1 .. len + 1 /\ (q <= len => p <= q)
    BY <2>1, <2>4, <2>5, Zenon DEF Stops
  <2>7. q > len
    BY <2>2, <2>3, <2>6
  <2>8. After(m).p = p
    BY <2>1
  <2> HIDE DEF After
  <2> QED
    BY <2>1, <2>5, <2>7, <2>8, Zenon DEF ParseRound
<1>14. 0 \in U
  BY <1>2
<1>15. ASSUME NEW n \in Nat, n \in U
       PROVE  n + 1 \in U
  <2> SUFFICES ASSUME n + 1 <= MAX_ARGS, n + 1 >= m PROVE loop[n + 1] = After(m)
    OBVIOUS
  <2>1. CASE n + 1 = m
    BY <1>12, <2>1
  <2>2. CASE n + 1 # m
    <3>1. n + 1 \in 1 .. MAX_ARGS /\ (n + 1) - 1 = n /\ n <= MAX_ARGS /\ n >= m
      BY <1>2, <2>2
    <3>2. loop[n] = After(m)
      BY <1>15, <3>1
    <3> QED
      BY <1>8, <1>13, <3>1, <3>2, Zenon
  <2> QED
    BY <2>1, <2>2
<1>16. loop[MAX_ARGS] = After(m)
  <2>1. Nat \subseteq U
    <3> HIDE DEF U
    <3> QED
      BY <1>14, <1>15, InductionOnNat
  <2>2. MAX_ARGS \in U
    BY <1>2, <2>1
  <2> QED
    BY <1>2, <2>2
<1>17. SubSeq(argv, 1, m) = argv
  BY <1>1
<1>18. After(m).argv = SubSeq(argv, 1, m)
  OBVIOUS
<1> HIDE DEF After
<1> QED
  BY <1>3, <1>8, <1>16, <1>17, <1>18, Zenon

\* SplitsIntoWords holds for every line.
THEOREM EveryLineSplits ==
  ASSUME NEW S, NEW line \in Seq(S)
  PROVE  SplitsIntoWords(line)
<1>1. PICK argv : argv = parse_args(line)
  OBVIOUS
<1>2. PICK R : R = S \cup {Blank}
  OBVIOUS
<1>3. line \in Seq(R) /\ Blank \in R
  BY <1>2
<1>4. /\ argv \in Seq(Seq(R)) /\ Len(argv) = Min({Cardinality(WordsOf(line)), MAX_ARGS})
      /\ \A k \in 1 .. Len(argv) :
           \E a, b : /\ IsWord(line, a, b) /\ NthWord(line, k) = <<a, b>>
                     /\ argv[k] = SubSeq(line, a, b)
  BY <1>1, <1>3, ArgsAreWords, ZenonT(60)
<1>5. DOMAIN argv = 1 .. Len(argv) /\ Len(argv) \in Nat
  BY <1>4
<1>6. ASSUME NEW k \in DOMAIN argv
      PROVE  argv[k] = SubSeq(line, NthWord(line, k)[1], NthWord(line, k)[2])
  <2>1. PICK a, b : NthWord(line, k) = <<a, b>> /\ argv[k] = SubSeq(line, a, b)
    BY <1>4, <1>5, Zenon
  <2>2. <<a, b>>[1] = a /\ <<a, b>>[2] = b
    OBVIOUS
  <2> QED
    BY <2>1, <2>2, Zenon
<1>7. ASSUME argv # <<>>
      PROVE  parse_args(join_args(argv, 1)) = argv
  <2>1. Len(argv) >= 1
    BY <1>4, <1>7
  <2>2. Len(argv) <= MAX_ARGS
    <3>1. PICK c : c = Cardinality(WordsOf(line))
      OBVIOUS
    <3>2. c \in Nat
      BY <1>3, <3>1, WordsFinite, FS_CardinalityType, Zenon
    <3>3. MAX_ARGS \in Nat
      BY ShellAssumption
    <3>4. Min({c, MAX_ARGS}) = IF c <= MAX_ARGS THEN c ELSE MAX_ARGS
      BY <3>2, <3>3, MinOfTwo
    <3>5. Len(argv) = Min({c, MAX_ARGS})
      BY <1>4, <3>1, Zenon
    <3> QED
      BY <3>2, <3>3, <3>4, <3>5
  <2>3. \A i \in 1 .. Len(argv) : Word(R, argv[i])
    BY <1>1, <1>3, ArgsAreNonempty, Zenon
  <2> QED
    BY <1>3, <1>4, <2>1, <2>2, <2>3, JoinedIsParsed, ZenonT(60)
<1> QED
  BY <1>1, <1>4, <1>6, <1>7, Zenon DEF SplitsIntoWords, NthWord

\* Every line of words and spaces that the shell may be given is split right.
THEOREM LinesSplit == ShellSpec => []LineSplitsIntoWords
<1>1. ASSUME NEW line \in ShortLines
      PROVE  SplitsIntoWords(line)
  <2>1. PICK n \in 0 .. 2 * MAX_ARGS + 1 :
          line \in {[i \in 1 .. n |-> IF i \in gaps THEN " " ELSE ToString(i)] : gaps \in SUBSET (1 .. n)}
    BY Zenon DEF ShortLines
  <2>2. PICK gaps \in SUBSET (1 .. n) : line = [i \in 1 .. n |-> IF i \in gaps THEN " " ELSE ToString(i)]
    BY <2>1, Zenon
  <2>3. PICK S : S = {line[i] : i \in 1 .. n}
    OBVIOUS
  <2>4. DOMAIN line = 1 .. n
    BY <2>2, Zenon
  <2>5. line = [i \in 1 .. n |-> line[i]]
    BY <2>2, <2>4, Zenon
  <2>6. n \in Nat
    BY ShellAssumption
  <2>7. line \in [1 .. n -> S]
    BY <2>3, <2>5, Zenon
  <2>8. line \in Seq(S)
    BY <2>6, <2>7
  <2> QED
    BY <2>8, EveryLineSplits, Zenon
<1>2. LineSplitsIntoWords
  BY <1>1, Zenon DEF LineSplitsIntoWords, MissplitLines
<1> QED
  BY <1>2, PTL

-----------------------------------------------------------------------------
(* The calls that the commands make.                                       *)

\* An argument is a word, and what fs_create may be given as a name.
IsArgument(arg) == Word(Symbols, arg) /\ arg \in CallNames

LEMMA ArgumentsAre ==
  ASSUME NEW argv \in Commands
  PROVE  /\ Len(argv) \in Nat /\ DOMAIN argv = 1 .. Len(argv)
         /\ \A k \in 1 .. Len(argv) : IsArgument(argv[k]) /\ argv[k] \in Seq(Symbols)
         /\ Len(argv) >= 3 => join_args(argv, 3) \in Sources
<1>1. PICK line \in Lines : argv = parse_args(line)
  BY Zenon DEF Commands
<1>2. PICK S : S = Symbols
  OBVIOUS
<1>3. line \in Seq(S) /\ Blank \in S
  <2>1. Lines \subseteq Seq(S)
    BY <1>2, ShellAssumption, Zenon
  <2>2. Blank \in S
    BY <1>2, Zenon DEF Symbols, Blank
  <2> QED
    BY <2>1, <2>2, Zenon
<1>4. argv \in Seq(Seq(S))
  BY <1>1, <1>3, ArgsAreWords, Zenon
<1>5. Len(argv) \in Nat /\ DOMAIN argv = 1 .. Len(argv)
  BY <1>4
<1>6. ASSUME NEW k \in 1 .. Len(argv)
      PROVE  IsArgument(argv[k]) /\ argv[k] \in Seq(Symbols)
  <2>1. Word(Symbols, argv[k])
    BY <1>1, <1>2, <1>3, ArgsAreNonempty, Zenon
  <2>2. argv[k] \in Range(argv)
    BY <1>5, Zenon DEF Range
  <2>3. argv[k] \in EntryNames
    BY <2>2, Zenon DEF EntryNames
  <2>4. argv[k] \in Seq(Symbols)
    BY <2>1, Zenon DEF Word
  <2>5. Len(argv[k]) <= MAX_NAME \/ Len(argv[k]) > MAX_NAME
    <3>1. PICK len : len = Len(argv[k])
      OBVIOUS
    <3>2. len \in Nat
      BY <2>4, <3>1
    <3>3. MAX_NAME \in Nat
      BY ShellAssumption, Zenon
    <3> QED
      BY <3>1, <3>2, <3>3
  <2>6. argv[k] \in Names \/ argv[k] \in BadNames
    BY <2>3, <2>5, ShellAssumption, Zenon
  <2> QED
    BY <2>1, <2>4, <2>6, Zenon DEF IsArgument, CallNames
<1>7. ASSUME Len(argv) >= 3
      PROVE  join_args(argv, 3) \in Sources
  BY <1>7, ShellAssumption, Zenon DEF Texts
<1> QED
  BY <1>5, <1>6, <1>7, Zenon

\* Every name fs_create accepts is an argument.
LEMMA NamesAre ==
  ASSUME NEW name \in Names
  PROVE  Word(Symbols, name) /\ name \in Seq(Symbols)
<1>1. name \in EntryNames
  BY ShellAssumption, Zenon
<1>2. PICK argv \in Commands : name \in Range(argv)
  BY <1>1, Zenon DEF EntryNames
<1>3. PICK k \in DOMAIN argv : name = argv[k]
  BY <1>2, Zenon DEF Range
<1>4. PICK line \in Lines : argv = parse_args(line)
  BY Zenon DEF Commands
<1>5. PICK S : S = Symbols
  OBVIOUS
<1>6. line \in Seq(S) /\ Blank \in S
  <2>1. Lines \subseteq Seq(S)
    BY <1>5, ShellAssumption, Zenon
  <2>2. Blank \in S
    BY <1>5, Zenon DEF Symbols, Blank
  <2> QED
    BY <2>1, <2>2, Zenon
<1>7. argv \in Seq(Seq(S))
  BY <1>4, <1>6, ArgsAreWords, Zenon
<1>8. k \in 1 .. Len(argv)
  BY <1>7
<1>9. IsArgument(argv[k]) /\ argv[k] \in Seq(Symbols)
  BY <1>8, ArgumentsAre, Zenon
<1> QED
  BY <1>3, <1>9, Zenon DEF IsArgument

-----------------------------------------------------------------------------
(* The segments of a path.                                                 *)

Slash == "/"

\* What parse_path does at a character.
PathStep(segs, c) ==
  IF c = Slash THEN Append(segs, <<>>) ELSE Append(Front(segs), Append(Last(segs), c))

Segmented(S) == {segs \in Seq(Seq(S)) : Len(segs) >= 1}

\* upto is the loop of parse_path.
PathLoop(path, upto) ==
  /\ upto[1] = << <<>> >>
  /\ \A i \in 1 .. Len(path) - 1 : upto[i + 1] = PathStep(upto[i], path[i + 1])
  /\ parse_path(path) = IF path = <<Slash>> THEN <<>> ELSE upto[Len(path)]

LEMMA PathStepTyped ==
  ASSUME NEW S, NEW segs \in Segmented(S), NEW c \in S
  PROVE  PathStep(segs, c) \in Segmented(S)
<1>1. PICK T : T = Seq(S)
  OBVIOUS
<1>2. segs \in Seq(T) /\ Len(segs) >= 1 /\ Len(segs) \in Nat
  BY <1>1 DEF Segmented
<1>3. <<>> \in T
  BY <1>1
<1>4. Append(segs, <<>>) \in Seq(T) /\ Len(Append(segs, <<>>)) >= 1
  BY <1>2, <1>3
<1>5. Last(segs) \in T
  BY <1>2 DEF Last
<1>6. Append(Last(segs), c) \in T
  BY <1>1, <1>5
<1>7. Front(segs) \in Seq(T)
  BY <1>2 DEF Front
<1>8. /\ Append(Front(segs), Append(Last(segs), c)) \in Seq(T)
      /\ Len(Append(Front(segs), Append(Last(segs), c))) >= 1
  BY <1>6, <1>7, AppendProperties
<1>9. PathStep(segs, c) \in Seq(T) /\ Len(PathStep(segs, c)) >= 1
  BY <1>4, <1>8, Zenon DEF PathStep
<1> QED
  BY <1>1, <1>9, Zenon DEF Segmented

LEMMA PathLoopExists ==
  ASSUME NEW S, NEW path \in Seq(S), Len(path) >= 1
  PROVE  \E upto : PathLoop(path, upto) /\ \A i \in 1 .. Len(path) : upto[i] \in Segmented(S)
<1> DEFINE T      == Segmented(S)
           m      == Len(path)
           step   == [j \in 1 .. m - 1 |-> [x \in T |-> PathStep(x, path[j + 1])]]
           is(h)  == h = [i \in 1 .. Len(path) |->
                            IF i = 1 THEN << <<>> >>
                            ELSE IF path[i] = "/" THEN Append(h[i - 1], <<>>)
                            ELSE Append(Front(h[i - 1]), Append(Last(h[i - 1]), path[i]))]
           upto   == CHOOSE h : is(h)
<1>1. m \in Nat /\ m - 1 \in Nat /\ \A i \in 1 .. m : path[i] \in S
  OBVIOUS
<1>2. << <<>> >> \in T
  <2>1. << <<>> >> \in Seq(Seq(S)) /\ Len(<< <<>> >>) >= 1
    OBVIOUS
  <2> QED
    BY <2>1, Zenon DEF Segmented
<1>3. step \in [1 .. m - 1 -> [T -> T]]
  <2>1. ASSUME NEW x \in T, NEW j \in 1 .. m - 1
        PROVE  PathStep(x, path[j + 1]) \in T
    <3>1. path[j + 1] \in S
      BY <1>1
    <3> QED
      BY <3>1, PathStepTyped, Zenon
  <2> HIDE DEF T
  <2> QED
    BY <2>1
<1>4. \A j \in 1 .. m - 1, x \in T : step[j][x] = PathStep(x, path[j + 1])
  OBVIOUS
<1> HIDE DEF step, T, m
<1>5. PICK g \in [0 .. m - 1 -> T] :
        g[0] = << <<>> >> /\ \A j \in 1 .. m - 1 : g[j] = step[j][g[j - 1]]
  <2>1. Runs(T, << <<>> >>, m - 1, step)
    BY <1>1, <1>2, <1>3, Iterates, Zenon
  <2> QED
    BY <2>1, Zenon DEF Runs
<1> DEFINE f == [i \in 1 .. m |-> g[i - 1]]
<1>6. ASSUME NEW i \in 1 .. m
      PROVE  f[i] = IF i = 1 THEN << <<>> >> ELSE PathStep(f[i - 1], path[i])
  <2>1. CASE i = 1
    <3>1. f[i] = g[0]
      BY <1>1, <2>1
    <3> QED
      BY <1>5, <2>1, <3>1, Zenon
  <2>2. CASE i # 1
    <3>1. PICK j : j = i - 1
      OBVIOUS
    <3>2. j \in 1 .. m - 1 /\ j - 1 \in 0 .. m - 1 /\ j + 1 = i /\ j \in 1 .. m
      BY <1>1, <2>2, <3>1
    <3>3. f[i] = g[j] /\ f[j] = g[j - 1] /\ g[j - 1] \in T
      BY <1>5, <3>1, <3>2
    <3>4. g[j] = step[j][g[j - 1]]
      BY <1>5, <3>2, Zenon
    <3>5. g[j] = PathStep(g[j - 1], path[i])
      BY <1>4, <3>2, <3>3, <3>4, Zenon
    <3> QED
      BY <2>2, <3>1, <3>3, <3>5, Zenon
  <2> QED
    BY <2>1, <2>2, Zenon
<1>7. f = [i \in 1 .. m |-> IF i = 1 THEN << <<>> >> ELSE PathStep(f[i - 1], path[i])]
  <2>1. f = [i \in 1 .. m |-> f[i]]
    OBVIOUS
  <2> HIDE DEF f
  <2> QED
    BY <1>6, <2>1, Zenon
<1> HIDE DEF f
<1>8. is(f)
  BY <1>7, Zenon DEF m, PathStep, Slash
<1>9. is(upto)
  BY <1>8, Zenon
<1>10. parse_path(path) = IF path = <<Slash>> THEN <<>> ELSE upto[m]
  BY Zenon DEF parse_path, m, Slash
<1> HIDE DEF upto
<1>11. ASSUME NEW i \in 1 .. m
       PROVE  upto[i] = IF i = 1 THEN << <<>> >> ELSE PathStep(upto[i - 1], path[i])
  BY <1>9, Zenon DEF m, PathStep, Slash
<1>12. upto[1] = << <<>> >>
  <2>1. 1 \in 1 .. m
    BY <1>1
  <2> QED
    BY <1>11, <2>1, Zenon
<1>13. ASSUME NEW i \in 1 .. m - 1
       PROVE  upto[i + 1] = PathStep(upto[i], path[i + 1])
  <2>1. PICK j : j = i + 1
    OBVIOUS
  <2>2. j \in 1 .. m /\ j # 1 /\ j - 1 = i
    BY <1>1, <2>1
  <2> QED
    BY <1>11, <2>1, <2>2, Zenon
<1> DEFINE Typed == {n \in Nat : n + 1 <= m => upto[n + 1] \in T}
<1>14. 0 \in Typed
  <2>1. 0 + 1 = 1
    OBVIOUS
  <2> QED
    BY <1>2, <1>12, <2>1, Zenon
<1>15. ASSUME NEW n \in Nat, n \in Typed
       PROVE  n + 1 \in Typed
  <2> SUFFICES ASSUME (n + 1) + 1 <= m PROVE upto[(n + 1) + 1] \in T
    OBVIOUS
  <2>1. n + 1 \in 1 .. m - 1 /\ (n + 1) + 1 \in 1 .. m
    BY <1>1
  <2>2. upto[n + 1] \in Segmented(S) /\ path[(n + 1) + 1] \in S
    BY <1>1, <1>15, <2>1 DEF T
  <2>3. upto[(n + 1) + 1] = PathStep(upto[n + 1], path[(n + 1) + 1])
    BY <1>13, <2>1
  <2> QED
    BY <2>2, <2>3, PathStepTyped, Zenon DEF T
<1>16. Nat \subseteq Typed
  <2> HIDE DEF Typed
  <2> QED
    BY <1>14, <1>15, InductionOnNat
<1>17. ASSUME NEW i \in 1 .. m PROVE upto[i] \in T
  <2>1. i - 1 \in Nat /\ (i - 1) + 1 = i /\ i <= m
    BY <1>1
  <2> QED
    BY <1>16, <2>1
<1> QED
  BY <1>10, <1>12, <1>13, <1>17, Zenon DEF PathLoop, m, T

LEMMA PathTyped ==
  ASSUME NEW S, NEW path \in Seq(S), Len(path) >= 1
  PROVE  parse_path(path) \in Seq(Seq(S))
<1>1. PICK upto : PathLoop(path, upto) /\ \A i \in 1 .. Len(path) : upto[i] \in Segmented(S)
  BY PathLoopExists, Zenon
<1>2. Len(path) \in 1 .. Len(path)
  OBVIOUS
<1>3. upto[Len(path)] \in Seq(Seq(S))
  BY <1>1, <1>2, Zenon DEF Segmented
<1>4. <<>> \in Seq(Seq(S))
  OBVIOUS
<1> QED
  BY <1>1, <1>3, <1>4, Zenon DEF PathLoop

\* all is one with two behind it.
Joined(one, two, all) ==
  /\ Len(all) = Len(one) + Len(two)
  /\ \A k \in 1 .. Len(one) : all[k] = one[k]
  /\ \A k \in 1 .. Len(two) : all[Len(one) + k] = two[k]

LEMMA JoinedIs ==
  ASSUME NEW S, NEW one \in Seq(S), NEW two \in Seq(S)
  PROVE  one \o two \in Seq(S) /\ Joined(one, two, one \o two)
<1>1. PICK all : all = one \o two
  OBVIOUS
<1>2. all \in Seq(S) /\ Len(all) = Len(one) + Len(two) /\ Len(one) \in Nat /\ Len(two) \in Nat
  BY <1>1
<1>3. \A k \in 1 .. Len(one) + Len(two) :
        all[k] = IF k <= Len(one) THEN one[k] ELSE two[k - Len(one)]
  BY <1>1, ConcatProperties
<1>4. \A k \in 1 .. Len(one) : all[k] = one[k]
  BY <1>2, <1>3
<1>5. ASSUME NEW k \in 1 .. Len(two) PROVE all[Len(one) + k] = two[k]
  <2>1. /\ Len(one) + k \in 1 .. Len(one) + Len(two) /\ ~(Len(one) + k <= Len(one))
        /\ (Len(one) + k) - Len(one) = k
    BY <1>2
  <2> QED
    BY <1>3, <2>1, Zenon
<1> QED
  BY <1>1, <1>2, <1>4, <1>5, Zenon DEF Joined

\* The segments of a path so far do not depend on what follows.
LEMMA LoopsAgree ==
  ASSUME NEW path, Len(path) \in Nat, NEW longer, Len(longer) \in Nat, Len(path) <= Len(longer),
         \A i \in 1 .. Len(path) : longer[i] = path[i],
         NEW upto, PathLoop(path, upto), NEW upto2, PathLoop(longer, upto2)
  PROVE  \A i \in 1 .. Len(path) : upto2[i] = upto[i]
<1>1. PICK m, n : m = Len(path) /\ n = Len(longer)
  OBVIOUS
<1>2. m \in Nat /\ n \in Nat /\ m <= n
  BY <1>1
<1>3. /\ upto[1] = << <<>> >> /\ \A i \in 1 .. m - 1 : upto[i + 1] = PathStep(upto[i], path[i + 1])
      /\ upto2[1] = << <<>> >> /\ \A i \in 1 .. n - 1 : upto2[i + 1] = PathStep(upto2[i], longer[i + 1])
      /\ \A i \in 1 .. m : longer[i] = path[i]
  BY <1>1, Zenon DEF PathLoop
<1> DEFINE Same == {k \in Nat : k + 1 <= m => upto2[k + 1] = upto[k + 1]}
<1>4. 0 \in Same
  <2>1. 0 + 1 = 1
    OBVIOUS
  <2> QED
    BY <1>3, <2>1, Zenon
<1>5. ASSUME NEW k \in Nat, k \in Same
      PROVE  k + 1 \in Same
  <2> SUFFICES ASSUME (k + 1) + 1 <= m PROVE upto2[(k + 1) + 1] = upto[(k + 1) + 1]
    OBVIOUS
  <2>1. k + 1 \in 1 .. m - 1 /\ k + 1 \in 1 .. n - 1 /\ (k + 1) + 1 \in 1 .. m /\ k + 1 <= m
    BY <1>2
  <2>2. upto2[k + 1] = upto[k + 1]
    BY <1>5, <2>1
  <2> QED
    BY <1>3, <2>1, <2>2, Zenon
<1>6. Nat \subseteq Same
  <2> HIDE DEF Same
  <2> QED
    BY <1>4, <1>5, InductionOnNat
<1>7. ASSUME NEW i \in 1 .. m PROVE upto2[i] = upto[i]
  <2>1. i - 1 \in Nat /\ (i - 1) + 1 = i /\ i <= m
    BY <1>2
  <2> QED
    BY <1>6, <2>1
<1> QED
  BY <1>1, <1>7, Zenon

\* A character that is no slash is added to the last segment.
LEMMA StepInside ==
  ASSUME NEW S, NEW segs \in Seq(Seq(S)), NEW name \in Seq(S), NEW c \in S, c # Slash
  PROVE  PathStep(Append(segs, name), c) = Append(segs, Append(name, c))
<1>1. PICK T : T = Seq(S)
  OBVIOUS
<1>2. PICK all : all = Append(segs, name)
  OBVIOUS
<1>3. segs \in Seq(T) /\ name \in T
  BY <1>1
<1>4. all \in Seq(T) /\ Len(all) = Len(segs) + 1 /\ Len(segs) \in Nat
      /\ all[Len(segs) + 1] = name /\ \A i \in 1 .. Len(segs) : all[i] = segs[i]
  BY <1>2, <1>3, AppendProperties
<1>5. Last(all) = name
  BY <1>4, Zenon DEF Last
<1>6. Front(all) = segs
  <2>1. PICK front : front = SubSeq(all, 1, Len(segs))
    OBVIOUS
  <2>2. front \in Seq(T) /\ Len(front) = Len(segs) /\ \A i \in 1 .. Len(segs) : front[i] = all[i]
    BY <1>4, <2>1
  <2>3. front = segs
    <3>1. \A i \in 1 .. Len(front) : front[i] = segs[i]
      BY <1>4, <2>2
    <3> QED
      BY <1>3, <2>2, <3>1, SeqEqual
  <2>4. Len(all) - 1 = Len(segs)
    BY <1>4
  <2> QED
    BY <2>1, <2>3, <2>4, Zenon DEF Front
<1> QED
  BY <1>2, <1>5, <1>6, Zenon DEF PathStep

\* A name without a slash, behind a slash, is one segment.
LEMMA NameIsSegment ==
  ASSUME NEW S, NEW segs \in Seq(Seq(S)), NEW name \in Seq(S), \A k \in 1 .. Len(name) : name[k] # Slash,
         NEW path, NEW b \in Nat \ {0}, Len(path) = b + Len(name),
         \A k \in 1 .. Len(name) : path[b + k] = name[k],
         NEW upto, PathLoop(path, upto), upto[b] = Append(segs, <<>>)
  PROVE  upto[Len(path)] = Append(segs, name)
<1>1. PICK m, n : m = Len(path) /\ n = Len(name)
  OBVIOUS
<1>2. n \in Nat /\ m = b + n /\ b \in Nat /\ b >= 1
  BY <1>1
<1>3. \A i \in 1 .. m - 1 : upto[i + 1] = PathStep(upto[i], path[i + 1])
  BY <1>1, Zenon DEF PathLoop
<1> DEFINE Taken == {k \in Nat : k <= n => upto[b + k] = Append(segs, SubSeq(name, 1, k))}
<1>4. 0 \in Taken
  <2>1. b + 0 = b /\ SubSeq(name, 1, 0) = <<>>
    BY <1>2
  <2>2. upto[b + 0] = Append(segs, SubSeq(name, 1, 0))
    BY <2>1, Zenon
  <2> QED
    BY <2>2
<1>5. ASSUME NEW k \in Nat, k \in Taken
      PROVE  k + 1 \in Taken
  <2> SUFFICES ASSUME k + 1 <= n PROVE upto[b + (k + 1)] = Append(segs, SubSeq(name, 1, k + 1))
    OBVIOUS
  <2>1. PICK i : i = b + k
    OBVIOUS
  <2>2. i \in 1 .. m - 1 /\ i + 1 = b + (k + 1) /\ k + 1 \in 1 .. n /\ k <= n
    BY <1>2, <2>1
  <2>3. upto[i] = Append(segs, SubSeq(name, 1, k))
    BY <1>5, <2>1, <2>2
  <2>4. path[i + 1] = name[k + 1]
    BY <1>1, <2>2, Zenon
  <2>5. PICK part, c : part = SubSeq(name, 1, k) /\ c = name[k + 1]
    OBVIOUS
  <2>6. part \in Seq(S) /\ c \in S /\ c # Slash /\ Append(part, c) = SubSeq(name, 1, k + 1)
    <3>1. part \in Seq(S) /\ c \in S
      BY <1>1, <2>2, <2>5, SMTT(30)
    <3>2. Append(part, c) = SubSeq(name, 1, k + 1)
      BY <1>1, <2>2, <2>5, SMTT(30)
    <3>3. c # Slash
      BY <1>1, <2>2, <2>5, Zenon
    <3> QED
      BY <3>1, <3>2, <3>3, Zenon
  <2>7. PathStep(Append(segs, part), c) = Append(segs, Append(part, c))
    <3>1. part \in Seq(S) /\ c \in S /\ c # Slash
      BY <2>6, Zenon
    <3> QED
      BY <3>1, StepInside
  <2> QED
    BY <1>3, <2>2, <2>3, <2>4, <2>5, <2>6, <2>7, Zenon
<1>6. n \in Taken
  <2>1. Nat \subseteq Taken
    <3> HIDE DEF Taken
    <3> QED
      BY <1>4, <1>5, InductionOnNat
  <2> QED
    BY <1>2, <2>1
<1>7. SubSeq(name, 1, n) = name
  BY <1>1
<1>8. upto[b + n] = Append(segs, SubSeq(name, 1, n))
  BY <1>2, <1>6, SMTT(30)
<1> QED
  BY <1>1, <1>2, <1>7, <1>8, Zenon

\* A name appended to a path is its last segment, if the path does not end in
\* a slash of its own.
LEMMA NameIsLast ==
  ASSUME NEW S, Slash \in S, NEW path \in Seq(S), Len(path) >= 1, path # <<Slash>>,
         NEW name \in Seq(S), Len(name) >= 1, \A k \in 1 .. Len(name) : name[k] # Slash
  PROVE  parse_path(path \o (<<Slash>> \o name)) = Append(parse_path(path), name)
<1>1. PICK tail, longer : tail = <<Slash>> \o name /\ longer = path \o tail
  OBVIOUS
<1>2. PICK m, n : m = Len(path) /\ n = Len(name)
  OBVIOUS
<1>3. m \in Nat /\ n \in Nat /\ m >= 1 /\ n >= 1
  BY <1>2
<1>4. <<Slash>> \in Seq(S) /\ Len(<<Slash>>) = 1 /\ <<Slash>>[1] = Slash
  OBVIOUS
<1>5. /\ tail \in Seq(S) /\ Len(tail) = 1 + n /\ tail[1] = Slash
      /\ \A k \in 1 .. n : tail[1 + k] = name[k]
  <2>1. tail \in Seq(S) /\ Joined(<<Slash>>, name, tail)
    BY <1>1, <1>4, JoinedIs, Zenon
  <2>2. 1 \in 1 .. 1
    OBVIOUS
  <2> QED
    BY <1>2, <1>4, <2>1, <2>2, Zenon DEF Joined
<1>6. /\ longer \in Seq(S) /\ Len(longer) = m + (1 + n)
      /\ \A i \in 1 .. m : longer[i] = path[i]
      /\ \A k \in 1 .. 1 + n : longer[m + k] = tail[k]
  <2>1. longer \in Seq(S) /\ Joined(path, tail, longer)
    BY <1>1, <1>5, JoinedIs, Zenon
  <2> QED
    BY <1>2, <1>5, <2>1, Zenon DEF Joined
<1>7. longer[m + 1] = Slash
  <2>1. 1 \in 1 .. 1 + n
    BY <1>3
  <2> QED
    BY <1>5, <1>6, <2>1, Zenon
<1>8. ASSUME NEW k \in 1 .. n PROVE longer[(m + 1) + k] = name[k]
  <2>1. 1 + k \in 1 .. 1 + n /\ m + (1 + k) = (m + 1) + k
    BY <1>3
  <2> QED
    BY <1>5, <1>6, <2>1, ZenonT(60)
<1>9. Len(longer) = (m + 1) + n /\ Len(longer) \in Nat /\ Len(longer) >= 1 /\ m <= Len(longer)
      /\ Len(longer) > 1 /\ m + 1 \in Nat \ {0} /\ m \in 1 .. m /\ m \in 1 .. Len(longer) - 1
  BY <1>3, <1>6
<1>10. PICK upto : PathLoop(path, upto) /\ \A i \in 1 .. Len(path) : upto[i] \in Segmented(S)
  <2>1. Len(path) >= 1
    OBVIOUS
  <2> QED
    BY <2>1, PathLoopExists, Zenon
<1>11. PICK upto2 : PathLoop(longer, upto2)
  BY <1>6, <1>9, PathLoopExists, Zenon
<1>12. upto2[m] = upto[m]
  <2>1. Len(path) \in Nat /\ Len(longer) \in Nat /\ Len(path) <= Len(longer)
    BY <1>2, <1>3, <1>9, Zenon
  <2>2. \A i \in 1 .. Len(path) : longer[i] = path[i]
    BY <1>2, <1>6, Zenon
  <2>3. \A i \in 1 .. Len(path) : upto2[i] = upto[i]
    BY <1>10, <1>11, <2>1, <2>2, LoopsAgree, SMTT(30)
  <2> QED
    BY <1>2, <1>9, <2>3, Zenon
<1>13. parse_path(path) = upto[m] /\ upto[m] \in Seq(Seq(S))
  BY <1>2, <1>9, <1>10, Zenon DEF PathLoop, Segmented
<1>14. upto2[m + 1] = Append(upto[m], <<>>)
  BY <1>7, <1>9, <1>11, <1>12, Zenon DEF PathLoop, PathStep
<1>15. upto2[Len(longer)] = Append(upto[m], name)
  <2>1. PICK segs, b : segs = upto[m] /\ b = m + 1
    OBVIOUS
  <2>2. segs \in Seq(Seq(S)) /\ b \in Nat \ {0} /\ upto2[b] = Append(segs, <<>>)
    BY <1>9, <1>13, <1>14, <2>1, Zenon
  <2>3. Len(longer) = b + Len(name) /\ \A k \in 1 .. Len(name) : longer[b + k] = name[k]
    BY <1>2, <1>8, <1>9, <2>1, Zenon
  <2>4. upto2[Len(longer)] = Append(segs, name)
    BY <1>11, <2>2, <2>3, NameIsSegment, ZenonT(60)
  <2> QED
    BY <2>1, <2>4, Zenon
<1>16. longer # <<Slash>>
  <2>1. Len(<<Slash>>) = 1
    OBVIOUS
  <2> QED
    BY <1>9, <2>1, SMTT(30)
<1> QED
  BY <1>1, <1>11, <1>13, <1>15, <1>16, Zenon DEF PathLoop

\* A name in the root is its only segment.
LEMMA NameInRoot ==
  ASSUME NEW S, Slash \in S, NEW name \in Seq(S), Len(name) >= 1,
         \A k \in 1 .. Len(name) : name[k] # Slash
  PROVE  parse_path(<<Slash>> \o name) = Append(<<>>, name)
<1>1. PICK path : path = <<Slash>> \o name
  OBVIOUS
<1>2. PICK n : n = Len(name)
  OBVIOUS
<1>3. n \in Nat /\ n >= 1
  BY <1>2
<1>4. path \in Seq(S) /\ Len(path) = 1 + n /\ \A k \in 1 .. n : path[1 + k] = name[k]
  <2>1. <<Slash>> \in Seq(S) /\ Len(<<Slash>>) = 1
    OBVIOUS
  <2>2. path \in Seq(S) /\ Joined(<<Slash>>, name, path)
    BY <1>1, <2>1, JoinedIs, Zenon
  <2> QED
    BY <1>2, <2>1, <2>2, Zenon DEF Joined
<1>5. Len(path) >= 1 /\ Len(path) # 1 /\ 1 \in Nat \ {0}
  BY <1>3, <1>4
<1>6. PICK upto : PathLoop(path, upto)
  BY <1>4, <1>5, PathLoopExists, Zenon
<1>7. upto[1] = Append(<<>>, <<>>) /\ <<>> \in Seq(Seq(S))
  <2>1. Append(<<>>, <<>>) = << <<>> >> /\ <<>> \in Seq(Seq(S))
    OBVIOUS
  <2> QED
    BY <1>6, <2>1, Zenon DEF PathLoop
<1>8. upto[Len(path)] = Append(<<>>, name)
  <2>1. PICK segs, b : segs = <<>> /\ b = 1
    OBVIOUS
  <2>2. segs \in Seq(Seq(S)) /\ b \in Nat \ {0} /\ upto[b] = Append(segs, <<>>)
    BY <1>5, <1>7, <2>1, Zenon
  <2>3. Len(path) = b + Len(name) /\ \A k \in 1 .. Len(name) : path[b + k] = name[k]
    BY <1>2, <1>4, <2>1, Zenon
  <2>4. upto[Len(path)] = Append(segs, name)
    BY <1>6, <2>2, <2>3, NameIsSegment, ZenonT(60)
  <2> QED
    BY <2>1, <2>4, Zenon
<1>9. path # <<Slash>>
  <2>1. Len(<<Slash>>) = 1
    OBVIOUS
  <2> QED
    BY <1>5, <2>1, Zenon
<1> QED
  BY <1>1, <1>6, <1>8, <1>9, Zenon DEF PathLoop

\* A path other than the root that ends in a slash ends in an empty segment.
LEMMA EndsInSlash ==
  ASSUME NEW S, NEW path \in Seq(S), Len(path) >= 1, path # <<Slash>>, path[1] = Slash,
         path[Len(path)] = Slash
  PROVE  \E segs \in Seq(Seq(S)) : parse_path(path) = Append(segs, <<>>)
<1>1. PICK upto : PathLoop(path, upto) /\ \A i \in 1 .. Len(path) : upto[i] \in Segmented(S)
  BY PathLoopExists, Zenon
<1>2. PICK m : m = Len(path)
  OBVIOUS
<1>3. m \in Nat /\ m >= 1
  BY <1>2
<1>4. m # 1
  <2> SUFFICES ASSUME m = 1 PROVE path = <<Slash>>
    OBVIOUS
  <2> QED
    BY <1>2
<1>5. PICK j : j = m - 1
  OBVIOUS
<1>6. j \in 1 .. m - 1 /\ j + 1 = m /\ j \in 1 .. m
  BY <1>3, <1>4, <1>5
<1>7. upto[m] = Append(upto[j], <<>>)
  BY <1>1, <1>2, <1>6, Zenon DEF PathLoop, PathStep
<1>8. upto[j] \in Seq(Seq(S))
  BY <1>1, <1>2, <1>6, Zenon DEF Segmented
<1> QED
  BY <1>1, <1>2, <1>7, <1>8, Zenon DEF PathLoop

-----------------------------------------------------------------------------
(* Where the paths of the shell lead.                                      *)

LEMMA ResolveTyped ==
  ASSUME Inv, 1 \in DOMAIN inodes, NEW path, Len(path) \in Nat
  PROVE  Resolve(path) \in {INVALID_INO} \cup DOMAIN inodes
<1>1. PICK at : Way(at, path) /\ Resolve(path) = at[Len(path)]
  BY WayExists DEF WaysExist
<1>2. at[0] = ROOT_INO /\ \A j \in 0 .. Len(path) - 1 : at[j + 1] = Enter(at[j], path[j + 1])
  BY <1>1, WaySteps
<1>3. CASE Len(path) = 0
  BY <1>1, <1>2, <1>3 DEF ROOT_INO
<1>4. CASE Len(path) # 0
  <2>1. PICK j : j = Len(path) - 1
    OBVIOUS
  <2>2. j \in 0 .. Len(path) - 1 /\ j + 1 = Len(path)
    BY <1>4, <2>1
  <2> QED
    BY <1>1, <1>2, <2>2, EnterTyped, ZenonT(60)
<1> QED
  BY <1>3, <1>4

\* A segment more is a step more.
LEMMA ResolveAppend ==
  ASSUME Inv, NEW T, NEW path \in Seq(T), NEW s \in T
  PROVE  Resolve(Append(path, s)) = Enter(Resolve(path), s)
<1>1. PICK longer, n : longer = Append(path, s) /\ n = Len(path)
  OBVIOUS
<1>2. /\ n \in Nat /\ Len(longer) = n + 1 /\ longer[n + 1] = s
      /\ \A j \in 1 .. n : longer[j] = path[j]
  BY <1>1, AppendProperties
<1>3. PICK at : Way(at, path) /\ Resolve(path) = at[n]
  BY <1>1, <1>2, WayExists DEF WaysExist
<1>4. PICK to : Way(to, longer) /\ Resolve(longer) = to[n + 1]
  BY <1>2, WayExists DEF WaysExist
<1>5. at[0] = ROOT_INO /\ \A j \in 0 .. n - 1 : at[j + 1] = Enter(at[j], path[j + 1])
  BY <1>1, <1>2, <1>3, WaySteps
<1>6. to[0] = ROOT_INO /\ \A j \in 0 .. n : to[j + 1] = Enter(to[j], longer[j + 1])
  BY <1>2, <1>4, WaySteps
<1> DEFINE Same == {j \in Nat : j <= n => to[j] = at[j]}
<1>7. 0 \in Same
  BY <1>5, <1>6
<1>8. ASSUME NEW j \in Nat, j \in Same
      PROVE  j + 1 \in Same
  <2> SUFFICES ASSUME j + 1 <= n PROVE to[j + 1] = at[j + 1]
    OBVIOUS
  <2>1. j \in 0 .. n - 1 /\ j \in 0 .. n /\ j + 1 \in 1 .. n
    BY <1>2
  <2>2. to[j] = at[j]
    BY <1>8, <2>1
  <2> QED
    BY <1>2, <1>5, <1>6, <2>1, <2>2, Zenon
<1>9. n \in Same
  <2>1. Nat \subseteq Same
    <3> HIDE DEF Same
    <3> QED
      BY <1>7, <1>8, InductionOnNat
  <2> QED
    BY <1>2, <2>1
<1>10. to[n] = at[n] /\ n \in 0 .. n
  BY <1>2, <1>9
<1> QED
  BY <1>1, <1>2, <1>3, <1>4, <1>6, <1>10, Zenon

\* fs_lookup follows the first MAX_SEGMENTS segments, all of them if there are no more.
LEMMA LookupIs ==
  ASSUME NEW T, NEW path \in Seq(T)
  PROVE  /\ \E first : Len(first) \in Nat /\ fs_lookup(path) = Resolve(first)
         /\ Len(path) <= MAX_SEGMENTS => fs_lookup(path) = Resolve(path)
<1>1. PICK n, m, first : n = Len(path) /\ m = Min({n, MAX_SEGMENTS}) /\ first = SubSeq(path, 1, m)
  OBVIOUS
<1>2. n \in Nat /\ MAX_SEGMENTS \in Nat
  BY <1>1, FileSystemAssumption
<1>3. m = IF n <= MAX_SEGMENTS THEN n ELSE MAX_SEGMENTS
  BY <1>1, <1>2, MinOfTwo
<1>4. m \in 0 .. n
  BY <1>2, <1>3
<1>5. Len(first) \in Nat
  BY <1>1, <1>4
<1>6. fs_lookup(path) = Resolve(first)
  BY <1>1, Zenon DEF fs_lookup
<1>7. ASSUME n <= MAX_SEGMENTS
      PROVE  first = path
  BY <1>1, <1>3, <1>7
<1> QED
  BY <1>1, <1>5, <1>6, <1>7, Zenon

\* Only links out of the inode d may go, and those into it are made no more.
LinksOutside(d) ==
  \A i, s : Enter(i, s) # INVALID_INO /\ i # d => Enter(i, s)' = Enter(i, s)

\* Inode numbers grow along a way, so that none to d comes through d twice.
LEMMA WayKept ==
  ASSUME Inv, WaysExist', NEW path, Len(path) \in Nat, NEW d, d # INVALID_INO, Resolve(path) = d,
         d \in DOMAIN inodes, LinksOutside(d)
  PROVE  Resolve(path)' = d
<1>1. PICK n : n = Len(path)
  OBVIOUS
<1>2. n \in Nat
  BY <1>1
<1>3. EnterFollows /\ HasChains(inodes, blocks) /\ Forest(inodes, blocks)
  BY EnterIs DEF Inv
<1>4. PICK at : Way(at, path) /\ Resolve(path) = at[n]
  BY <1>1, WayExists DEF WaysExist
<1>5. PICK to : Way(to, path)' /\ Resolve(path)' = to[n]
  BY <1>1 DEF WaysExist
<1>6. at[0] = ROOT_INO /\ \A j \in 0 .. n - 1 : at[j + 1] = Enter(at[j], path[j + 1])
  BY <1>1, <1>4, WaySteps
<1>7. to[0] = ROOT_INO /\ \A j \in 0 .. n - 1 : to[j + 1] = Enter(to[j], path[j + 1])'
  <2>1. to[0] = ROOT_INO
    BY <1>5 DEF Way, ROOT_INO
  <2>2. ASSUME NEW j \in 0 .. n - 1
        PROVE  to[j + 1] = Enter(to[j], path[j + 1])'
    <3>1. j + 1 \in 0 .. n /\ j + 1 # 0 /\ (j + 1) - 1 = j
      BY <1>2
    <3> QED
      BY <1>1, <1>5, <3>1 DEF Way
  <2> QED
    BY <2>1, <2>2
<1>8. d \in Nat /\ DOMAIN inodes = 1 .. Len(inodes) /\ Len(inodes) \in Nat
  BY <1>3, StoreParts
<1> DEFINE Below == {k \in Nat : k <= n => /\ at[n - k] \in Nat /\ at[n - k] # INVALID_INO
                                           /\ at[n - k] <= d /\ (k > 0 => at[n - k] < d)}
<1>9. 0 \in Below
  <2>1. n - 0 = n
    BY <1>2
  <2>2. at[n - 0] = d
    BY <1>4, <2>1
  <2> QED
    BY <1>8, <2>2
<1>10. ASSUME NEW k \in Nat, k \in Below
       PROVE  k + 1 \in Below
  <2> SUFFICES ASSUME k + 1 <= n
               PROVE  /\ at[n - (k + 1)] \in Nat /\ at[n - (k + 1)] # INVALID_INO
                      /\ at[n - (k + 1)] <= d /\ at[n - (k + 1)] < d
    OBVIOUS
  <2>1. PICK j : j = n - (k + 1)
    OBVIOUS
  <2>2. j \in 0 .. n - 1 /\ j + 1 = n - k /\ k <= n
    BY <1>2, <2>1
  <2>3. at[j + 1] \in Nat /\ at[j + 1] # INVALID_INO /\ at[j + 1] <= d
    BY <1>10, <2>2
  <2>4. Enter(at[j], path[j + 1]) = at[j + 1]
    BY <1>6, <2>2
  <2>5. Leads(inodes, blocks, at[j], path[j + 1], at[j + 1])
    BY <1>3, <2>3, <2>4 DEF EnterFollows
  <2>6. at[j] \in DOMAIN inodes /\ at[j + 1] > at[j]
    BY <1>3, <2>5, LeadsTo
  <2> QED
    BY <1>8, <2>1, <2>3, <2>6 DEF INVALID_INO
<1>11. ASSUME NEW j \in 0 .. n - 1
       PROVE  at[j] # d /\ at[j + 1] # INVALID_INO
  <2>1. Nat \subseteq Below
    <3> HIDE DEF Below
    <3> QED
      BY <1>9, <1>10, InductionOnNat
  <2>2. PICK k : k = n - j
    OBVIOUS
  <2>3. k \in Nat /\ k > 0 /\ k <= n /\ n - k = j
    BY <1>2, <2>2
  <2>4. at[j] \in Nat /\ at[j] < d
    BY <2>1, <2>3
  <2>5. k - 1 \in Nat /\ k - 1 <= n /\ n - (k - 1) = j + 1
    BY <1>2, <2>3
  <2>6. at[j + 1] # INVALID_INO
    BY <2>1, <2>5
  <2> QED
    BY <1>8, <2>4, <2>6
<1> DEFINE Same == {j \in Nat : j <= n => to[j] = at[j]}
<1>12. 0 \in Same
  BY <1>6, <1>7
<1>13. ASSUME NEW j \in Nat, j \in Same
       PROVE  j + 1 \in Same
  <2> SUFFICES ASSUME j + 1 <= n PROVE to[j + 1] = at[j + 1]
    OBVIOUS
  <2>1. j \in 0 .. n - 1 /\ j <= n
    BY <1>2
  <2>2. to[j] = at[j] /\ at[j] # d /\ at[j + 1] # INVALID_INO
    BY <1>11, <1>13, <2>1
  <2>3. at[j + 1] = Enter(at[j], path[j + 1]) /\ to[j + 1] = Enter(at[j], path[j + 1])'
    BY <1>6, <1>7, <2>1, <2>2
  <2> QED
    BY <2>2, <2>3 DEF LinksOutside
<1>14. n \in Same
  <2>1. Nat \subseteq Same
    <3> HIDE DEF Same
    <3> QED
      BY <1>12, <1>13, InductionOnNat
  <2> QED
    BY <1>2, <2>1
<1> QED
  BY <1>2, <1>4, <1>5, <1>14

-----------------------------------------------------------------------------
(* The invariant of the shell.                                             *)

CwdInv ==
  /\ cwd_path \in Seq(Symbols) /\ Len(cwd_path) \in 1 .. MAX_PATH - 1 /\ cwd_path[1] = Slash
  /\ running \in BOOLEAN
  /\ is_dir(cwd_ino) /\ fs_lookup(parse_path(cwd_path)) = cwd_ino

\* text is how all of it starts.
Starts(text, all) ==
  /\ text \in Seq(Bytes) /\ all \in Seq(Bytes) /\ Len(text) <= Len(all)
  /\ \A k \in 1 .. Len(text) : all[k] = text[k]

\* The files start with what write was given last; some have more behind it.
WrittenInv ==
  /\ DOMAIN written = 1 .. MaxInodes /\ written = [i \in 1 .. MaxInodes |-> written[i]]
  /\ \A i \in 1 .. MaxInodes : Starts(written[i], Content(inodes, blocks, i))

ShellInv == Inv /\ CwdInv /\ WrittenInv

LEMMA StartIsPrefix ==
  ASSUME NEW text, NEW all, Starts(text, all)
  PROVE  IsPrefix(text, all)
<1>1. PICK n : n = Len(text)
  OBVIOUS
<1>2. /\ text \in Seq(Bytes) /\ all \in Seq(Bytes) /\ n \in Nat /\ n <= Len(all)
      /\ \A k \in 1 .. n : all[k] = text[k]
  BY <1>1 DEF Starts
<1>3. PICK one, two : one = SubSeq(text, 1, n) /\ two = SubSeq(all, 1, n)
  OBVIOUS
<1>4. one = [k \in 1 .. n |-> text[k]]
  BY <1>1, <1>2, <1>3
<1>5. two = [k \in 1 .. n |-> all[k]]
  BY <1>2, <1>3
<1>6. one = two
  BY <1>2, <1>4, <1>5
<1> QED
  BY <1>1, <1>2, <1>3, <1>6, Zenon DEF IsPrefix

LEMMA ShellInvInit == ShellInit => ShellInv
<1> SUFFICES ASSUME ShellInit PROVE ShellInv
  OBVIOUS
<1>1. /\ inodes = <<NewInode(2)>> /\ blocks = <<>> /\ ret = 0 /\ stored = {} /\ cwd_ino = ROOT_INO
      /\ cwd_path = <<Slash>> /\ running = TRUE /\ written = [ino \in 1 .. MaxInodes |-> <<>>]
  BY Zenon DEF ShellInit, Slash
<1>2. DOMAIN inodes = {1} /\ inodes[1].type = 2 /\ inodes[1].size = 0 /\ Len(inodes) = 1
  BY <1>1 DEF NewInode
<1>3. Inv
  <2>1. BlocksTyped(<<>>) /\ Len(<<>>) = 0
    BY DEF BlocksTyped
  <2>2. PICK chain : Store(<<>>, <<>>, chain)
    BY <2>1, NoInodes DEF HasChains
  <2>3. Append(<<>>, NewInode(2)) = inodes
    BY <1>1
  <2>4. HasChains(inodes, blocks)
    BY <1>1, <2>2, <2>3, InodeStored DEF HasChains
  <2>5. \A i, n : ~Entry(inodes, i, n)
    BY <1>2 DEF Entry
  <2>6. Forest(inodes, blocks)
    BY <2>5 DEF Forest
  <2>7. Len(inodes) <= MaxInodes /\ Len(blocks) <= MaxBlocks /\ ret \in Int
    BY <1>1, <1>2, FileSystemAssumption
  <2>8. Held(inodes, blocks, stored)
    BY <1>1 DEF Held
  <2> QED
    BY <2>4, <2>6, <2>7, <2>8 DEF Inv
<1>4. CwdInv
  <2>1. is_dir(cwd_ino)
    BY <1>1, <1>2 DEF is_dir, exists, ROOT_INO
  <2>2. parse_path(cwd_path) = <<>>
    BY <1>1, Zenon DEF parse_path, Slash
  <2>3. <<>> \in Seq({}) /\ Len(<<>>) = 0 /\ 0 <= MAX_SEGMENTS
    BY FileSystemAssumption
  <2>4. fs_lookup(<<>>) = Resolve(<<>>)
    BY <2>3, LookupIs, Zenon
  <2>5. PICK at : Way(at, <<>>) /\ Resolve(<<>>) = at[0]
    <3>1. WaysExist
      BY <1>3, WayExists
    <3> QED
      BY <2>3, <3>1 DEF WaysExist
  <2>6. at[0] = ROOT_INO
    BY <2>3, <2>5, WaySteps
  <2>7. fs_lookup(parse_path(cwd_path)) = cwd_ino
    BY <1>1, <2>2, <2>4, <2>5, <2>6, Zenon
  <2>8. Slash \in Symbols
    BY Zenon DEF Symbols, Slash
  <2>9. cwd_path \in Seq(Symbols) /\ Len(cwd_path) = 1 /\ cwd_path[1] = Slash
    <3>1. PICK S : S = Symbols
      OBVIOUS
    <3>2. Slash \in S
      BY <2>8, <3>1, Zenon
    <3>3. cwd_path \in Seq(S) /\ Len(cwd_path) = 1 /\ cwd_path[1] = Slash
      BY <1>1, <3>2
    <3> QED
      BY <3>1, <3>3, Zenon
  <2>10. 1 \in 1 .. MAX_PATH - 1
    BY ShellAssumption
  <2> QED
    BY <1>1, <2>1, <2>7, <2>9, <2>10, Zenon DEF CwdInv
<1>5. WrittenInv
  <2>1. \A i : Content(inodes, blocks, i) = <<>>
    <3>1. ~(inodes[1].type = 1)
      BY <1>2
    <3> QED
      BY <1>2, <3>1 DEF Content
  <2>2. Starts(<<>>, <<>>)
    BY DEF Starts
  <2>3. written = [i \in 1 .. MaxInodes |-> written[i]] /\ DOMAIN written = 1 .. MaxInodes
        /\ \A i \in 1 .. MaxInodes : written[i] = <<>>
    BY <1>1
  <2> QED
    BY <2>1, <2>2, <2>3, Zenon DEF WrittenInv
<1> QED
  BY <1>3, <1>4, <1>5, Zenon DEF ShellInv

\* The path of an argument is absolute again.
LEMMA FullPathIs ==
  ASSUME CwdInv, NEW arg, Word(Symbols, arg)
  PROVE  FullPath(arg) \in Seq(Symbols) /\ Len(FullPath(arg)) >= 1 /\ FullPath(arg)[1] = Slash
<1>1. PICK S, cwd, full : S = Symbols /\ cwd = cwd_path /\ full = FullPath(arg)
  OBVIOUS
<1>2. cwd \in Seq(S) /\ Len(cwd) \in 1 .. MAX_PATH - 1 /\ cwd[1] = Slash
  BY <1>1, Zenon DEF CwdInv
<1>3. Slash \in S
  BY <1>1, Zenon DEF Symbols, Slash
<1>4. arg \in Seq(S) /\ Len(arg) >= 1
  BY <1>1, Zenon DEF Word
<1>5. CASE IsAbsolute(arg)
  <2>1. full = arg /\ arg[1] = Slash
    BY <1>1, <1>5, Zenon DEF FullPath, IsAbsolute, Slash
  <2> QED
    BY <1>1, <1>4, <2>1, Zenon
<1>6. CASE ~IsAbsolute(arg)
  <2>1. PICK tail : tail = IF Last(cwd) = Slash THEN arg ELSE <<Slash>> \o arg
    OBVIOUS
  <2>2. tail \in Seq(S)
    <3>1. <<Slash>> \in Seq(S)
      BY <1>3
    <3>2. <<Slash>> \o arg \in Seq(S)
      BY <1>4, <3>1, JoinedIs, Zenon
    <3> QED
      BY <1>4, <2>1, <3>2, Zenon
  <2>3. full = cwd \o tail
    BY <1>1, <1>6, <2>1, Zenon DEF FullPath, Slash
  <2>4. full \in Seq(S) /\ Joined(cwd, tail, full)
    BY <1>2, <2>2, <2>3, JoinedIs, Zenon
  <2>5. 1 \in 1 .. Len(cwd) /\ Len(cwd) \in Nat /\ Len(cwd) >= 1 /\ Len(tail) \in Nat
    BY <1>2, <2>2, ShellAssumption
  <2>6. full[1] = Slash
    BY <1>2, <2>4, <2>5, Zenon DEF Joined
  <2>7. Len(full) = Len(cwd) + Len(tail)
    BY <2>4, Zenon DEF Joined
  <2>8. Len(full) >= 1
    BY <2>5, <2>7
  <2> QED
    BY <1>1, <2>4, <2>6, <2>8, Zenon
<1> QED
  BY <1>5, <1>6, Zenon

LEMMA RootExists ==
  ASSUME Inv, NEW i, is_dir(i)
  PROVE  1 \in DOMAIN inodes
<1>1. i \in DOMAIN inodes /\ DOMAIN inodes = 1 .. Len(inodes) /\ Len(inodes) \in Nat
  BY InodesInRange DEF is_dir, exists
<1> QED
  BY <1>1

\* A path leads to an inode or to none.
LEMMA LookupTyped ==
  ASSUME Inv, 1 \in DOMAIN inodes, NEW path \in Seq(Symbols), Len(path) >= 1
  PROVE  fs_lookup(parse_path(path)) \in CallInos
<1>1. parse_path(path) \in Seq(Seq(Symbols))
  BY PathTyped, Zenon
<1>2. PICK first : Len(first) \in Nat /\ fs_lookup(parse_path(path)) = Resolve(first)
  BY <1>1, LookupIs, Zenon
<1>3. Resolve(first) \in {INVALID_INO} \cup DOMAIN inodes
  BY <1>2, ResolveTyped, Zenon
<1>4. DOMAIN inodes \subseteq 1 .. MaxInodes
  BY InodesInRange
<1>5. MaxInodes \in Nat
  BY FileSystemAssumption
<1>6. {INVALID_INO} \cup DOMAIN inodes \subseteq CallInos
  BY <1>4, <1>5 DEF CallInos, INVALID_INO
<1> QED
  BY <1>2, <1>3, <1>6, Zenon

-----------------------------------------------------------------------------
(* What a line does.                                                       *)

\* Nothing but ret changes, and running perhaps.
Refused ==
  /\ UNCHANGED <<inodes, blocks, stored, cwd_ino, cwd_path, written>>
  /\ ret' \in Int /\ running' \in BOOLEAN

Entered(arg) ==
  /\ IsArgument(arg) /\ is_dir(resolve_path(arg)) /\ Len(FullPath(arg)) < MAX_PATH
  /\ cwd_ino' = resolve_path(arg) /\ cwd_path' = FullPath(arg)
  /\ UNCHANGED <<inodes, blocks, ret, stored, running, written>>

Made(name, type) ==
  /\ name \in CallNames /\ type \in CallTypes
  /\ fs_create(cwd_ino, name, type, 0)
  /\ UNCHANGED <<cwd_ino, cwd_path, running, written>>

Removed(name) ==
  /\ name \in CallNames
  /\ fs_unlink(cwd_ino, name)
  /\ UNCHANGED <<cwd_ino, cwd_path, running, written>>

Overwritten(ino, text) ==
  /\ text \in Sources
  /\ fs_write(ino, 0, text, 0)
  /\ written' = [written EXCEPT ![ino] = text]
  /\ UNCHANGED <<cwd_ino, cwd_path, running>>

Effect ==
  \/ Refused
  \/ \E arg : Entered(arg)
  \/ \E name, type : Made(name, type)
  \/ \E name : Removed(name)
  \/ \E ino, text : Overwritten(ino, text)

\* Every line is a call of the filesystem, or changes nothing there.
LEMMA LineDoes ==
  ASSUME ShellInv, [ShellNext]_shellVars
  PROVE  Effect /\ [Next]_vars
<1>1. /\ Inv /\ CwdInv /\ is_dir(cwd_ino) /\ ret \in Int /\ running \in BOOLEAN
      /\ fs_lookup(parse_path(cwd_path)) = cwd_ino
  BY Zenon DEF ShellInv, CwdInv, Inv
<1>2. 1 \in DOMAIN inodes
  BY <1>1, RootExists
<1>3. cwd_ino \in CallInos
  <2>1. cwd_path \in Seq(Symbols) /\ Len(cwd_path) \in 1 .. MAX_PATH - 1
    BY <1>1, Zenon DEF CwdInv
  <2>2. Len(cwd_path) >= 1
    BY <2>1, ShellAssumption
  <2> QED
    BY <1>1, <1>2, <2>1, <2>2, LookupTyped, Zenon
<1>4. 0 \in StaleNext /\ 0 \in Offsets /\ 1 \in CallTypes /\ 2 \in CallTypes
  BY ShellAssumption, Zenon
<1>5. ASSUME UNCHANGED shellVars
      PROVE  Effect /\ [Next]_vars
  <2>1. UNCHANGED <<inodes, blocks, ret, stored, cwd_ino, cwd_path, running, written>>
    BY <1>5, Zenon DEF shellVars
  <2>2. Refused
    BY <1>1, <2>1 DEF Refused
  <2> QED
    BY <2>1, <2>2, Zenon DEF Effect, vars
<1>6. ASSUME NEW argv \in Commands, ~Overruns(argv), argv[1] = <<"cd">> \/ argv = <<>>, cmd_cd(argv)
      PROVE  Effect /\ [Next]_vars
  <2> SUFFICES ASSUME CanEnter(argv),
                      cwd_ino' = resolve_path(argv[2]), cwd_path' = FullPath(argv[2]),
                      UNCHANGED <<vars, running, written>>
               PROVE  Effect /\ [Next]_vars
    BY <1>5, <1>6, Zenon DEF cmd_cd
  <2>1. Len(argv) >= 2 /\ is_dir(resolve_path(argv[2]))
    BY Zenon DEF CanEnter
  <2>2. 2 \in 1 .. Len(argv)
    BY <2>1, ArgumentsAre
  <2>3. IsArgument(argv[2])
    BY <2>2, ArgumentsAre, Zenon
  <2>4. UNCHANGED <<inodes, blocks, ret, stored, running, written>>
    BY Zenon DEF vars
  <2>5. Len(FullPath(argv[2])) < MAX_PATH
    <3>1. CASE IsAbsolute(argv[2])
      <4>1. 2 \in DOMAIN argv
        BY <2>2, ArgumentsAre, Zenon
      <4> QED
        BY <3>1, <4>1, ShellAssumption, Zenon DEF FullPath
    <3>2. CASE ~IsAbsolute(argv[2])
      <4>1. argv # <<>>
        BY <2>1
      <4>2. Resolves(argv)
        BY <1>6, <2>1, <4>1, Zenon DEF Resolves
      <4>3. ~(Len(FullPath(argv[2])) >= MAX_PATH)
        BY <1>6, <3>2, <4>2, Zenon DEF Overruns
      <4>4. Len(FullPath(argv[2])) \in Nat
        <5>1. FullPath(argv[2]) \in Seq(Symbols)
          BY <1>1, <2>3, FullPathIs, Zenon DEF IsArgument
        <5>2. PICK S, full : S = Symbols /\ full = FullPath(argv[2])
          OBVIOUS
        <5>3. full \in Seq(S)
          BY <5>1, <5>2, Zenon
        <5>4. Len(full) \in Nat
          BY <5>3
        <5> QED
          BY <5>2, <5>4, Zenon
      <4> QED
        BY <4>3, <4>4, ShellAssumption
    <3> QED
      BY <3>1, <3>2, Zenon
  <2>6. Entered(argv[2])
    BY <2>1, <2>3, <2>4, <2>5, Zenon DEF Entered
  <2> QED
    BY <2>4, <2>6, Zenon DEF Effect, vars
<1>7. ASSUME NEW argv \in Commands, TakesName(argv)
      PROVE  argv[2] \in CallNames
  <2>1. 2 \in 1 .. Len(argv)
    BY <1>7, ArgumentsAre DEF TakesName
  <2> QED
    BY <2>1, ArgumentsAre, Zenon DEF IsArgument
<1>8. ASSUME UNCHANGED <<inodes, blocks, stored>>, ret' \in Int,
             UNCHANGED <<cwd_ino, cwd_path, running, written>>
      PROVE  Effect
  <2>1. Refused
    BY <1>1, <1>8 DEF Refused
  <2> QED
    BY <2>1, Zenon DEF Effect
<1>9. ASSUME NEW argv \in Commands, NEW type \in {1, 2}, cmd_create(argv, type)
      PROVE  Effect /\ [Next]_vars
  <2>1. CASE ~TakesName(argv) /\ UNCHANGED shellVars
    BY <1>5, <2>1, Zenon
  <2>2. CASE /\ TakesName(argv)
             /\ fs_create(cwd_ino, argv[2], type, 0) \/ fs_create_fails(cwd_ino, argv[2])
             /\ UNCHANGED <<cwd_ino, cwd_path, running, written>>
    <3>1. argv[2] \in CallNames
      BY <1>7, <2>2, Zenon
    <3>2. type \in CallTypes
      BY <1>4
    <3>3. CASE fs_create(cwd_ino, argv[2], type, 0)
      <4>1. Made(argv[2], type)
        BY <2>2, <3>1, <3>2, <3>3, Zenon DEF Made
      <4> QED
        BY <1>3, <1>4, <3>1, <3>2, <3>3, <4>1, Zenon DEF Effect, Next
    <3>4. CASE fs_create_fails(cwd_ino, argv[2])
      <4>1. UNCHANGED <<inodes, blocks, stored>> /\ ret' \in Int
        BY <3>4 DEF fs_create_fails, INVALID_INO
      <4> QED
        BY <1>3, <1>8, <2>2, <3>1, <3>4, <4>1, Zenon DEF Next
    <3> QED
      BY <2>2, <3>3, <3>4, Zenon
  <2> QED
    BY <1>9, <2>1, <2>2, Zenon DEF cmd_create
<1>10. ASSUME NEW argv \in Commands, cmd_rm(argv)
       PROVE  Effect /\ [Next]_vars
  <2>1. CASE ~TakesName(argv) /\ UNCHANGED shellVars
    BY <1>5, <2>1, Zenon
  <2>2. CASE /\ TakesName(argv)
             /\ fs_unlink(cwd_ino, argv[2]) \/ fs_unlink_fails(cwd_ino, argv[2])
             /\ UNCHANGED <<cwd_ino, cwd_path, running, written>>
    <3>1. argv[2] \in CallNames
      BY <1>7, <2>2, Zenon
    <3>2. CASE fs_unlink(cwd_ino, argv[2])
      <4>1. Removed(argv[2])
        BY <2>2, <3>1, <3>2, Zenon DEF Removed
      <4> QED
        BY <1>3, <3>1, <3>2, <4>1, Zenon DEF Effect, Next
    <3>3. CASE fs_unlink_fails(cwd_ino, argv[2])
      <4>1. UNCHANGED <<inodes, blocks, stored>> /\ ret' \in Int
        BY <3>3 DEF fs_unlink_fails
      <4> QED
        BY <1>3, <1>8, <2>2, <3>1, <3>3, <4>1, Zenon DEF Next
    <3> QED
      BY <2>2, <3>2, <3>3, Zenon
  <2> QED
    BY <1>10, <2>1, <2>2, Zenon DEF cmd_rm
<1>11. ASSUME NEW argv \in Commands, cmd_write(argv)
       PROVE  Effect /\ [Next]_vars
  <2> DEFINE ino  == resolve_path(argv[2])
             text == join_args(argv, 3)
  <2> HIDE DEF ino, text
  <2>1. CASE ~CanWrite(argv) /\ UNCHANGED shellVars
    BY <1>5, <2>1, Zenon
  <2>2. CASE /\ CanWrite(argv)
             /\ \/ /\ fs_write(ino, 0, text, 0)
                   /\ written' = [written EXCEPT ![ino] = text]
                \/ fs_write_fails(ino) /\ UNCHANGED written
             /\ UNCHANGED <<cwd_ino, cwd_path, running>>
    <3>1. Len(argv) >= 3
      BY <2>2, Zenon DEF CanWrite
    <3>2. text \in Sources /\ 2 \in 1 .. Len(argv)
      BY <3>1, ArgumentsAre DEF text
    <3>3. Word(Symbols, argv[2])
      BY <3>2, ArgumentsAre, Zenon DEF IsArgument
    <3>4. ino \in CallInos
      <4>1. FullPath(argv[2]) \in Seq(Symbols) /\ Len(FullPath(argv[2])) >= 1
        BY <1>1, <3>3, FullPathIs, Zenon
      <4> QED
        BY <1>1, <1>2, <4>1, LookupTyped, Zenon DEF ino, resolve_path
    <3>5. CASE /\ fs_write(ino, 0, text, 0)
               /\ written' = [written EXCEPT ![ino] = text]
      <4>1. Overwritten(ino, text)
        BY <2>2, <3>2, <3>5, Zenon DEF Overwritten
      <4> QED
        BY <1>4, <3>2, <3>4, <3>5, <4>1, Zenon DEF Effect, Next
    <3>6. CASE fs_write_fails(ino) /\ UNCHANGED written
      <4>1. UNCHANGED <<inodes, blocks, stored>> /\ ret' \in Int
        BY <3>6 DEF fs_write_fails
      <4>2. UNCHANGED <<cwd_ino, cwd_path, running, written>>
        BY <2>2, <3>6
      <4> QED
        BY <1>8, <3>4, <3>6, <4>1, <4>2, Zenon DEF Next
    <3> QED
      BY <2>2, <3>5, <3>6, Zenon
  <2> QED
    BY <1>11, <2>1, <2>2, Zenon DEF cmd_write, ino, text
<1>12. ASSUME cmd_shutdown \/ \E argv \in Commands : overrun(argv)
       PROVE  Effect /\ [Next]_vars
  <2>1. UNCHANGED <<inodes, blocks, ret, stored, cwd_ino, cwd_path, written>> /\ running' = FALSE
    BY <1>12, Zenon DEF cmd_shutdown, overrun, vars
  <2>2. Refused
    BY <1>1, <2>1 DEF Refused
  <2> QED
    BY <2>1, <2>2, Zenon DEF Effect, vars
<1>13. ASSUME ShellNext
       PROVE  Effect /\ [Next]_vars
  <2>1. PICK argv \in Commands : shell_run(argv)
    BY <1>13, Zenon DEF ShellNext
  <2>2. \/ ~Overruns(argv) /\ (argv[1] = <<"cd">> \/ argv = <<>>) /\ cmd_cd(argv)
        \/ cmd_create(argv, 2) \/ cmd_create(argv, 1) \/ cmd_rm(argv)
        \/ cmd_write(argv) \/ cmd_shutdown \/ overrun(argv) \/ UNCHANGED shellVars
    BY <2>1, Zenon DEF shell_run, dispatch
  <2>3. 1 \in {1, 2} /\ 2 \in {1, 2}
    OBVIOUS
  <2> QED
    BY <1>5, <1>6, <1>9, <1>10, <1>11, <1>12, <2>2, <2>3, Zenon
<1> QED
  BY <1>5, <1>13, Zenon

\* The path of the current directory still leads there after a step that takes
\* no link to it away.
LEMMA CwdHolds ==
  ASSUME Inv, WaysExist', NEW path \in Seq(Symbols), Len(path) \in 1 .. MAX_PATH - 1, path[1] = Slash,
         NEW d, is_dir(d), fs_lookup(parse_path(path)) = d, LinksOutside(d),
         cwd_path' = path, cwd_ino' = d, is_dir(d)', running' \in BOOLEAN
  PROVE  CwdInv'
<1>1. PICK segs, first : segs = parse_path(path) /\ first = SubSeq(segs, 1, Min({Len(segs), MAX_SEGMENTS}))
  OBVIOUS
<1>2. segs \in Seq(Seq(Symbols))
  <2>1. Len(path) >= 1
    BY ShellAssumption
  <2> QED
    BY <1>1, <2>1, PathTyped, Zenon
<1>3. Len(first) \in Nat
  <2>1. PICK n, m : n = Len(segs) /\ m = Min({n, MAX_SEGMENTS})
    OBVIOUS
  <2>2. PICK T : T = Seq(Symbols)
    OBVIOUS
  <2>3. segs \in Seq(T) /\ n \in Nat /\ MAX_SEGMENTS \in Nat
    BY <1>2, <2>1, <2>2, FileSystemAssumption
  <2>4. m \in 0 .. n
    BY <2>1, <2>3, MinOfTwo, SMTT(30)
  <2> QED
    BY <1>1, <2>1, <2>3, <2>4
<1>4. Resolve(first) = d
  BY <1>1, Zenon DEF fs_lookup
<1>5. d # INVALID_INO /\ d \in DOMAIN inodes
  BY InodesInRange DEF is_dir, exists, INVALID_INO
<1>6. Resolve(first)' = d
  BY <1>3, <1>4, <1>5, WayKept, Zenon
<1>7. fs_lookup(segs)' = d
  BY <1>1, <1>6, Zenon DEF fs_lookup
<1>8. parse_path(cwd_path)' = segs
  BY <1>1
<1>9. fs_lookup(parse_path(cwd_path))' = cwd_ino'
  BY <1>7, <1>8, Zenon
<1>10. is_dir(cwd_ino)'
  BY Zenon
<1> QED
  BY <1>9, <1>10, Zenon DEF CwdInv

\* A file starts with what has been written at its start.
LEMMA WriteStarts ==
  ASSUME NEW old, NEW new, NEW size \in Nat, NEW text \in Seq(Bytes),
         ContentWritten(old, new, size, 0, text)
  PROVE  Starts(text, new)
<1>1. PICK t : t = Len(text)
  OBVIOUS
<1>2. t \in Nat /\ new \in Seq(Bytes) /\ Len(new) = IF 0 + t > size THEN 0 + t ELSE size
  BY <1>1 DEF ContentWritten
<1>3. t <= Len(new)
  BY <1>2
<1>4. \A k \in 1 .. Len(new) : k \in 0 + 1 .. 0 + t => new[k] = text[k - 0]
  BY <1>1, Zenon DEF ContentWritten
<1>5. \A k \in 1 .. t : k \in 1 .. Len(new) /\ k \in 0 + 1 .. 0 + t /\ k - 0 = k
  BY <1>2, <1>3
<1>6. \A k \in 1 .. t : new[k] = text[k]
  BY <1>4, <1>5
<1> QED
  BY <1>1, <1>2, <1>3, <1>6, Zenon DEF Starts

\* What is proved of the state of the filesystem, before and after a step.
Facts == EnterFollows /\ WaysExist /\ ContentsAreSlices

LEMMA FactsFollow == Inv => Facts
BY EnterIs, WayExists, ContentsFollow DEF Facts

LEMMA KeptKeepsLinks ==
  ASSUME Inv, UNCHANGED <<inodes, blocks>>, NEW d
  PROVE  LinksOutside(d)
BY LinksKept DEF LinksOutside

\* Every effect leaves the current directory where its path leads.
LEMMA CwdKept ==
  ASSUME ShellInv, Inv', Facts, Facts', Effect
  PROVE  CwdInv'
<1>1. /\ Inv /\ EnterFollows /\ EnterFollows' /\ WaysExist' /\ Fresh
      /\ HasChains(inodes, blocks)
  BY ShellAssumption, Zenon DEF ShellInv, Facts, Inv, Fresh
<1>2. PICK d, path : d = cwd_ino /\ path = cwd_path
  OBVIOUS
<1>3. /\ path \in Seq(Symbols) /\ Len(path) \in 1 .. MAX_PATH - 1 /\ path[1] = Slash
      /\ running \in BOOLEAN /\ is_dir(d) /\ fs_lookup(parse_path(path)) = d
  BY <1>2, Zenon DEF ShellInv, CwdInv
<1>4. d \in DOMAIN inodes /\ inodes[d].type = 2
  BY <1>3 DEF is_dir, exists
<1>5. ASSUME LinksOutside(d), is_dir(d)', cwd_path' = cwd_path, cwd_ino' = cwd_ino,
             running' \in BOOLEAN
      PROVE  CwdInv'
  <2>1. cwd_path' = path /\ cwd_ino' = d
    BY <1>2, <1>5, Zenon
  <2> QED
    BY <1>1, <1>3, <1>5, <2>1, CwdHolds, Zenon
<1>6. CASE Refused
  <2>1. UNCHANGED <<inodes, blocks>> /\ cwd_ino' = cwd_ino /\ cwd_path' = cwd_path
        /\ running' \in BOOLEAN
    BY <1>6 DEF Refused
  <2>2. LinksOutside(d)
    BY <1>1, <2>1, KeptKeepsLinks
  <2>3. is_dir(d)'
    BY <1>3, <2>1 DEF is_dir, exists
  <2> QED
    BY <1>5, <2>1, <2>2, <2>3
<1>7. ASSUME NEW arg, Entered(arg)
      PROVE  CwdInv'
  <2>1. PICK to, full : to = resolve_path(arg) /\ full = FullPath(arg)
    OBVIOUS
  <2>2. /\ IsArgument(arg) /\ is_dir(to) /\ Len(full) < MAX_PATH /\ cwd_ino' = to /\ cwd_path' = full
        /\ UNCHANGED <<inodes, blocks>> /\ running' = running
    BY <1>7, <2>1 DEF Entered
  <2>3. full \in Seq(Symbols) /\ Len(full) >= 1 /\ full[1] = Slash
    BY <2>1, <2>2, FullPathIs, Zenon DEF IsArgument, ShellInv
  <2>4. Len(full) \in 1 .. MAX_PATH - 1
    <3>1. Len(full) \in Nat
      BY <2>3
    <3> QED
      BY <2>2, <2>3, <3>1, ShellAssumption
  <2>5. fs_lookup(parse_path(full)) = to
    BY <2>1, Zenon DEF resolve_path
  <2>6. LinksOutside(to)
    BY <1>1, <2>2, KeptKeepsLinks
  <2>7. is_dir(to)'
    BY <2>2 DEF is_dir, exists
  <2>8. running' \in BOOLEAN
    BY <1>3, <2>2, Zenon
  <2> QED
    BY <1>1, <2>2, <2>3, <2>4, <2>5, <2>6, <2>7, <2>8, CwdHolds, Zenon
<1>8. ASSUME NEW name, NEW type, Made(name, type)
      PROVE  CwdInv'
  <2>1. /\ name \in CallNames /\ type \in CallTypes /\ fs_create(d, name, type, 0)
        /\ cwd_ino' = cwd_ino /\ cwd_path' = cwd_path /\ running' = running /\ 0 \in StaleNext
    BY <1>2, <1>8, ShellAssumption DEF Made
  <2>2. /\ Enter(d, name) = INVALID_INO
        /\ \A i, s : Enter(i, s)' = IF i = d /\ s = name THEN Len(inodes) + 1 ELSE Enter(i, s)
    BY <1>1, <2>1, CreateLinks
  <2>3. LinksOutside(d)
    BY <2>2 DEF LinksOutside
  <2>4. Created(inodes, blocks, inodes', blocks', d, name, type) /\ HasChains(inodes', blocks')
    BY <1>1, <2>1, CreateDoes
  <2>5. inodes'[d].type = 2 /\ d \in DOMAIN inodes'
    BY <1>1, <1>4, <2>4, StoreParts DEF Created
  <2>6. is_dir(d)'
    BY <2>5 DEF is_dir, exists
  <2> QED
    BY <1>3, <1>5, <2>1, <2>3, <2>6, Zenon
<1>9. ASSUME NEW name, Removed(name)
      PROVE  CwdInv'
  <2>1. /\ name \in CallNames /\ fs_unlink(d, name)
        /\ cwd_ino' = cwd_ino /\ cwd_path' = cwd_path /\ running' = running
    BY <1>2, <1>9 DEF Removed
  <2>2. \A i, s : Enter(i, s)' = IF i = d /\ s = name THEN INVALID_INO ELSE Enter(i, s)
    BY <1>1, <2>1, UnlinkLinks
  <2>3. LinksOutside(d)
    BY <2>2 DEF LinksOutside
  <2>4. Unlinked(inodes, blocks, inodes', blocks', d, IndexOf(d, name)) /\ HasChains(inodes', blocks')
        /\ Len(inodes') = Len(inodes)
    BY <1>1, <2>1, UnlinkDoes
  <2>5. inodes'[d].type = 2 /\ d \in DOMAIN inodes'
    BY <1>1, <1>4, <2>4, StoreParts DEF Unlinked
  <2>6. is_dir(d)'
    BY <2>5 DEF is_dir, exists
  <2> QED
    BY <1>3, <1>5, <2>1, <2>3, <2>6, Zenon
<1>10. ASSUME NEW ino, NEW text, Overwritten(ino, text)
       PROVE  CwdInv'
  <2>1. /\ text \in Sources /\ fs_write(ino, 0, text, 0) /\ 0 \in StaleNext /\ 0 \in Offsets
        /\ cwd_ino' = cwd_ino /\ cwd_path' = cwd_path /\ running' = running
    BY <1>10, ShellAssumption DEF Overwritten
  <2>2. \A i, s : Enter(i, s)' = Enter(i, s)
    BY <1>1, <2>1, WriteLinks
  <2>3. LinksOutside(d)
    BY <2>2 DEF LinksOutside
  <2>4. Written(inodes, blocks, inodes', blocks', ino, 0, text) /\ HasChains(inodes', blocks')
        /\ Len(inodes') = Len(inodes)
    BY <1>1, <2>1, WriteDoes
  <2>5. inodes'[d].type = 2 /\ d \in DOMAIN inodes'
    BY <1>1, <1>4, <2>4, StoreParts DEF Written
  <2>6. is_dir(d)'
    BY <2>5 DEF is_dir, exists
  <2> QED
    BY <1>3, <1>5, <2>1, <2>3, <2>6, Zenon
<1> QED
  BY <1>6, <1>7, <1>8, <1>9, <1>10, Zenon DEF Effect

\* The files go on starting with what was written to them last.
LEMMA WrittenKept ==
  ASSUME ShellInv, Inv', Facts, Facts', Effect
  PROVE  WrittenInv'
<1>1. /\ Inv /\ ContentsAreSlices /\ ContentsAreSlices' /\ Fresh /\ WrittenInv
      /\ HasChains(inodes, blocks)
  BY ShellAssumption, Zenon DEF ShellInv, Facts, Inv, Fresh
<1>2. ASSUME written' = written, \A i : Content(inodes', blocks', i) = Content(inodes, blocks, i)
      PROVE  WrittenInv'
  BY <1>1, <1>2 DEF WrittenInv
<1>3. ASSUME UNCHANGED <<inodes, blocks, written>>
      PROVE  WrittenInv'
  BY <1>2, <1>3 DEF Content, Slice, CellIn
<1>4. CASE Refused
  BY <1>3, <1>4 DEF Refused
<1>5. ASSUME NEW arg, Entered(arg)
      PROVE  WrittenInv'
  BY <1>3, <1>5 DEF Entered
<1>6. ASSUME NEW name, NEW type, Made(name, type)
      PROVE  WrittenInv'
  <2>1. /\ name \in CallNames /\ type \in CallTypes /\ fs_create(cwd_ino, name, type, 0)
        /\ 0 \in StaleNext /\ written' = written
    BY <1>6, ShellAssumption DEF Made
  <2>2. Created(inodes, blocks, inodes', blocks', cwd_ino, name, type) /\ HasChains(inodes', blocks')
    BY <1>1, <2>1, CreateDoes
  <2>3. \A i : Content(inodes', blocks', i) = Content(inodes, blocks, i)
    BY <1>1, <2>2, CreatedContent
  <2> QED
    BY <1>2, <2>1, <2>3
<1>7. ASSUME NEW name, Removed(name)
      PROVE  WrittenInv'
  <2>1. fs_unlink(cwd_ino, name) /\ written' = written
    BY <1>7 DEF Removed
  <2>2. /\ Unlinked(inodes, blocks, inodes', blocks', cwd_ino, IndexOf(cwd_ino, name))
        /\ HasChains(inodes', blocks')
    BY <1>1, <2>1, UnlinkDoes
  <2>3. \A i : Content(inodes', blocks', i) = Content(inodes, blocks, i)
    BY <1>1, <2>2, UnlinkedContent
  <2> QED
    BY <1>2, <2>1, <2>3
<1>8. ASSUME NEW ino, NEW text, Overwritten(ino, text)
      PROVE  WrittenInv'
  <2>1. /\ text \in Sources /\ fs_write(ino, 0, text, 0) /\ 0 \in StaleNext /\ 0 \in Offsets
        /\ written' = [written EXCEPT ![ino] = text]
    BY <1>8, ShellAssumption DEF Overwritten
  <2>2. text \in Seq(Bytes) /\ 0 \in Nat
    BY <2>1, FileSystemAssumption
  <2>3. Written(inodes, blocks, inodes', blocks', ino, 0, text) /\ HasChains(inodes', blocks')
    BY <1>1, <2>1, WriteDoes
  <2>4. /\ \A i : i # ino => Content(inodes', blocks', i) = Content(inodes, blocks, i)
        /\ ContentWritten(Content(inodes, blocks, ino), Content(inodes', blocks', ino),
                          inodes[ino].size, 0, text)
    BY <1>1, <2>2, <2>3, WrittenContent
  <2>5. inodes[ino].size \in Nat
    BY <1>1, <2>3, StoreParts DEF Written
  <2>6. Starts(text, Content(inodes', blocks', ino))
    BY <2>2, <2>4, <2>5, WriteStarts, Zenon
  <2>7. /\ written' = [i \in 1 .. MaxInodes |-> written'[i]] /\ DOMAIN written' = 1 .. MaxInodes
        /\ \A i \in 1 .. MaxInodes : written'[i] = IF i = ino THEN text ELSE written[i]
    <3>1. DOMAIN written = 1 .. MaxInodes
      BY <1>1, Zenon DEF WrittenInv
    <3> QED
      BY <2>1, <3>1
  <2>8. \A i \in 1 .. MaxInodes : Starts(written[i], Content(inodes, blocks, i))
    BY <1>1, Zenon DEF WrittenInv
  <2>9. ASSUME NEW i \in 1 .. MaxInodes
        PROVE  Starts(written'[i], Content(inodes', blocks', i))
    <3>1. CASE i = ino
      BY <2>6, <2>7, <3>1, Zenon
    <3>2. CASE i # ino
      BY <2>4, <2>7, <2>8, <3>2, Zenon
    <3> QED
      BY <3>1, <3>2, Zenon
  <2> QED
    BY <2>7, <2>9, Zenon DEF WrittenInv
<1> QED
  BY <1>4, <1>5, <1>6, <1>7, <1>8, Zenon DEF Effect

LEMMA ShellInvAlways == ShellSpec => []ShellInv
<1>1. ShellInv /\ [ShellNext]_shellVars => Effect /\ [Next]_vars
  BY LineDoes
<1>2. ShellInv /\ [Next]_vars => Inv'
  BY InvNext, ShellAssumption, Zenon DEF ShellInv, Fresh
<1>3. ShellInv => Inv
  BY Zenon DEF ShellInv
<1>4. ShellInv /\ Inv' /\ Facts /\ Facts' /\ Effect => ShellInv'
  BY CwdKept, WrittenKept, Zenon DEF ShellInv
<1> QED
  BY <1>1, <1>2, <1>3, <1>4, ShellInvInit, FactsFollow, PTL DEF ShellSpec

-----------------------------------------------------------------------------
(* What ls shows and cat prints.                                           *)

\* What readdir returns of a directory are its entries.
LEMMA ReaddirIs ==
  ASSUME Inv, NEW i, is_dir(i), NEW d \in fs_readdir_all(i)
  PROVE  Enter(i, d.name) = d.inode_id /\ d.name \in Names /\ exists(d.inode_id)
<1>1. /\ HasChains(inodes, blocks) /\ Forest(inodes, blocks) /\ EnterFollows
      /\ i \in DOMAIN inodes /\ inodes[i].type = 2
  BY EnterIs DEF Inv, is_dir, exists
<1>2. PICK n \in 0 .. inodes[i].size - 1 : d = dirent_at(i, n)
  BY Zenon DEF fs_readdir_all
<1>3. inodes[i].size \in Nat
  BY <1>1, StoreParts
<1>4. Entry(inodes, i, n)
  BY <1>1, <1>3 DEF Entry
<1>5. d = CellIn(inodes, blocks, i, n)
  BY <1>1, <1>2, <1>4, DirentIs
<1>6. Leads(inodes, blocks, i, d.name, d.inode_id)
  BY <1>4, <1>5 DEF Leads
<1>7. d.name \in Names /\ d.inode_id \in DOMAIN inodes
  BY <1>1, <1>6, LeadsTo
<1> QED
  BY <1>1, <1>6, <1>7 DEF EnterFollows, exists

\* The path of a name, as an argument, is that of the current directory and the name.
LEMMA NamePath ==
  ASSUME ShellInv, Len(parse_path(cwd_path)) < MAX_SEGMENTS,
         NEW name \in Seq(Symbols), Len(name) >= 1, \A k \in 1 .. Len(name) : name[k] # Slash
  PROVE  parse_path(FullPath(name)) = Append(parse_path(cwd_path), name)
<1>1. PICK S, path : S = Symbols /\ path = cwd_path
  OBVIOUS
<1>2. /\ path \in Seq(S) /\ Len(path) \in 1 .. MAX_PATH - 1 /\ path[1] = Slash
      /\ Inv /\ is_dir(cwd_ino) /\ fs_lookup(parse_path(path)) = cwd_ino
  BY <1>1, Zenon DEF ShellInv, CwdInv
<1>3. Slash \in S /\ Len(path) >= 1
  <2>1. Slash \in S
    BY <1>1, Zenon DEF Symbols, Slash
  <2>2. Len(path) >= 1
    BY <1>2, ShellAssumption
  <2> QED
    BY <2>1, <2>2, Zenon
<1>4. ~IsAbsolute(name)
  <2>1. 1 \in 1 .. Len(name)
    OBVIOUS
  <2> QED
    BY <2>1, Zenon DEF IsAbsolute, Slash
<1>5. Last(path) = path[Len(path)]
  BY Zenon DEF Last
<1>6. CASE path = <<Slash>>
  <2>1. Last(path) = Slash
    <3>1. Len(path) = 1
      BY <1>6
    <3> QED
      BY <1>2, <1>5, <3>1, Zenon
  <2>2. FullPath(name) = <<Slash>> \o name
    BY <1>1, <1>4, <1>6, <2>1, Zenon DEF FullPath, Slash
  <2>3. parse_path(path) = <<>>
    BY <1>6, Zenon DEF parse_path, Slash
  <2>4. parse_path(<<Slash>> \o name) = Append(<<>>, name)
    BY <1>1, <1>3, NameInRoot, Zenon
  <2> QED
    BY <1>1, <2>2, <2>3, <2>4, Zenon
<1>7. CASE path # <<Slash>> /\ Last(path) # Slash
  <2>1. FullPath(name) = path \o (<<Slash>> \o name)
    BY <1>1, <1>4, <1>7, Zenon DEF FullPath, Slash
  <2>2. parse_path(path \o (<<Slash>> \o name)) = Append(parse_path(path), name)
    BY <1>1, <1>2, <1>3, <1>7, NameIsLast, Zenon
  <2> QED
    BY <1>1, <2>1, <2>2, Zenon
<1>8. ASSUME path # <<Slash>>, Last(path) = Slash
      PROVE  FALSE
  <2>1. PICK segs \in Seq(Seq(S)) : parse_path(path) = Append(segs, <<>>)
    BY <1>2, <1>3, <1>5, <1>8, EndsInSlash, Zenon
  <2>2. PICK T : T = Seq(S)
    OBVIOUS
  <2>3. segs \in Seq(T) /\ <<>> \in T
    BY <2>2
  <2>4. Append(segs, <<>>) \in Seq(T) /\ Len(Append(segs, <<>>)) <= MAX_SEGMENTS
    <3>1. Append(segs, <<>>) \in Seq(T)
      BY <2>3
    <3>2. PICK all : all = Append(segs, <<>>)
      OBVIOUS
    <3>3. Len(all) < MAX_SEGMENTS
      BY <1>1, <2>1, <3>2, Zenon
    <3>4. Len(all) \in Nat /\ MAX_SEGMENTS \in Nat
      BY <3>1, <3>2, FileSystemAssumption
    <3>5. Len(all) <= MAX_SEGMENTS
      BY <3>3, <3>4
    <3> QED
      BY <3>1, <3>2, <3>5, Zenon
  <2>5. fs_lookup(Append(segs, <<>>)) = Resolve(Append(segs, <<>>))
    BY <2>4, LookupIs, Zenon
  <2>6. Resolve(Append(segs, <<>>)) = Enter(Resolve(segs), <<>>)
    BY <1>2, <2>3, ResolveAppend, Zenon
  <2>7. Enter(Resolve(segs), <<>>) = cwd_ino
    BY <1>2, <2>1, <2>5, <2>6, Zenon
  <2>8. cwd_ino # INVALID_INO
    BY <1>2, InodesInRange DEF is_dir, exists, INVALID_INO
  <2>9. Leads(inodes, blocks, Resolve(segs), <<>>, cwd_ino)
    BY <1>2, <2>7, <2>8, EnterIs, Zenon DEF EnterFollows
  <2>10. <<>> \in Names
    BY <1>2, <2>9, LeadsTo DEF Inv
  <2>11. Len(<<>>) >= 1
    BY <2>10, NamesAre, Zenon DEF Word
  <2> QED
    BY <2>11
<1> QED
  BY <1>6, <1>7, <1>8, Zenon

LEMMA NamesResolve == ShellInv => ListedNamesResolve
<1> SUFFICES ASSUME ShellInv, Len(parse_path(cwd_path)) < MAX_SEGMENTS, NEW entry \in cmd_ls(cwd_ino),
                    "/" \notin Range(entry[1].name)
             PROVE  /\ resolve_path(entry[1].name) = entry[1].inode_id
                    /\ CanEnter(<< <<"cd">>, entry[1].name>>) <=> entry[2] = 2
  BY Zenon DEF ListedNamesResolve
<1>1. PICK d \in fs_readdir_all(cwd_ino) : entry = <<d, inodes[d.inode_id].type>>
  BY Zenon DEF cmd_ls
<1>2. entry[1] = d /\ entry[2] = inodes[d.inode_id].type
  BY <1>1
<1>3. Inv /\ CwdInv /\ is_dir(cwd_ino) /\ fs_lookup(parse_path(cwd_path)) = cwd_ino
  BY Zenon DEF ShellInv, CwdInv
<1>4. Enter(cwd_ino, d.name) = d.inode_id /\ d.name \in Names /\ exists(d.inode_id)
  BY <1>1, <1>3, ReaddirIs
<1>5. PICK name : name = d.name
  OBVIOUS
<1>6. name \in Seq(Symbols) /\ Len(name) >= 1
  BY <1>4, <1>5, NamesAre, Zenon DEF Word
<1>7. \A k \in 1 .. Len(name) : name[k] # Slash
  <2>1. DOMAIN name = 1 .. Len(name)
    BY <1>6
  <2> QED
    BY <1>2, <1>5, <2>1, Zenon DEF Range, Slash
<1>8. PICK segs : segs = parse_path(cwd_path)
  OBVIOUS
<1>9. parse_path(FullPath(name)) = Append(segs, name)
  BY <1>6, <1>7, <1>8, NamePath, Zenon
<1>10. PICK T : T = Seq(Symbols)
  OBVIOUS
<1>11. segs \in Seq(T) /\ name \in T
  <2>1. cwd_path \in Seq(Symbols) /\ Len(cwd_path) \in 1 .. MAX_PATH - 1
    BY <1>3, Zenon DEF CwdInv
  <2>2. Len(cwd_path) >= 1
    BY <2>1, ShellAssumption
  <2> QED
    BY <1>6, <1>8, <1>10, <2>1, <2>2, PathTyped, Zenon
<1>12. /\ Append(segs, name) \in Seq(T) /\ Len(Append(segs, name)) <= MAX_SEGMENTS
       /\ Len(segs) <= MAX_SEGMENTS
  <2>1. Append(segs, name) \in Seq(T) /\ Len(Append(segs, name)) = Len(segs) + 1
    BY <1>11, AppendProperties
  <2>2. Len(segs) \in Nat /\ MAX_SEGMENTS \in Nat
    BY <1>11, FileSystemAssumption
  <2>3. Len(segs) < MAX_SEGMENTS
    BY <1>8, Zenon
  <2> QED
    BY <2>1, <2>2, <2>3
<1>13. fs_lookup(Append(segs, name)) = Resolve(Append(segs, name)) /\ Resolve(segs) = cwd_ino
  BY <1>3, <1>8, <1>11, <1>12, LookupIs, Zenon
<1>14. Resolve(Append(segs, name)) = Enter(cwd_ino, name)
  BY <1>3, <1>11, <1>13, ResolveAppend, Zenon
<1>15. resolve_path(name) = d.inode_id
  BY <1>4, <1>5, <1>9, <1>13, <1>14, Zenon DEF resolve_path
<1>16. CanEnter(<< <<"cd">>, name>>) <=> is_dir(d.inode_id)
  <2>1. PICK argv, verb : verb = <<"cd">> /\ argv = <<verb, name>>
    OBVIOUS
  <2>2. Len(argv) >= 2 /\ argv[2] = name
    BY <2>1
  <2> QED
    BY <1>15, <2>1, <2>2, Zenon DEF CanEnter
<1>17. is_dir(d.inode_id) <=> inodes[d.inode_id].type = 2
  BY <1>4, Zenon DEF is_dir
<1> QED
  BY <1>2, <1>5, <1>15, <1>16, <1>17, Zenon

\* One round of cat, and what it has printed before and after.
CatRound(ino, last) ==
  LET piece == fs_read(ino, last.offset, CatBuffer)
  IN  IF piece.ret <= 0 THEN last
      ELSE [offset |-> last.offset + piece.ret, out |-> last.out \o piece.bytes]

Printed(ino) ==
  {s \in [offset : Nat, out : Seq(Bytes)] :
     s.offset <= inodes[ino].size /\ s.out = Slice(inodes, blocks, ino, 0, s.offset)}

\* A slice and the slice behind it.
LEMMA SlicesJoin ==
  ASSUME NEW ins, NEW bs, HasChains(ins, bs), NEW i \in DOMAIN ins, ins[i].type = 1,
         NEW m \in Nat, NEW n \in m .. ins[i].size
  PROVE  Slice(ins, bs, i, 0, m) \o Slice(ins, bs, i, m, n) = Slice(ins, bs, i, 0, n)
<1>1. PICK one, two, all, both : /\ one = Slice(ins, bs, i, 0, m) /\ two = Slice(ins, bs, i, m, n)
                                 /\ all = Slice(ins, bs, i, 0, n) /\ both = one \o two
  OBVIOUS
<1>2. n \in Nat /\ m \in 0 .. ins[i].size /\ n \in 0 .. ins[i].size /\ m - 0 = m /\ n - 0 = n
      /\ 0 \in Nat /\ n - m \in Nat /\ m + (n - m) = n /\ m <= n
  <2>1. ins[i].size \in Nat
    BY StoreParts
  <2> QED
    BY <2>1
<1>3. one \in Seq(Bytes) /\ Len(one) = m
  BY <1>1, <1>2, SliceTyped
<1>4. two \in Seq(Bytes) /\ Len(two) = n - m
  BY <1>1, SliceTyped
<1>5. all \in Seq(Bytes) /\ Len(all) = n
  BY <1>1, <1>2, SliceTyped
<1>6. both \in Seq(Bytes) /\ Joined(one, two, both)
  BY <1>1, <1>3, <1>4, JoinedIs
<1>7. /\ Len(both) = n /\ \A k \in 1 .. m : both[k] = one[k]
      /\ \A k \in 1 .. n - m : both[m + k] = two[k]
  BY <1>2, <1>3, <1>4, <1>6, Zenon DEF Joined
<1>8. ASSUME NEW k \in 1 .. Len(both)
      PROVE  both[k] = all[k]
  <2>1. all[k] = CellIn(ins, bs, i, 0 + k - 1)
    BY <1>1, <1>2, <1>7 DEF Slice
  <2>2. CASE k <= m
    <3>1. k \in 1 .. m /\ k \in 1 .. m - 0
      BY <1>2, <2>2
    <3>2. one[k] = CellIn(ins, bs, i, 0 + k - 1)
      BY <1>1, <3>1 DEF Slice
    <3> QED
      BY <1>7, <2>1, <3>1, <3>2, Zenon
  <2>3. CASE ~(k <= m)
    <3>1. PICK j : j = k - m
      OBVIOUS
    <3>2. j \in 1 .. n - m /\ m + j = k /\ m + j - 1 = 0 + k - 1
      BY <1>2, <1>7, <2>3, <3>1
    <3>3. two[j] = CellIn(ins, bs, i, m + j - 1)
      BY <1>1, <3>2 DEF Slice
    <3> QED
      BY <1>7, <2>1, <3>2, <3>3, Zenon
  <2> QED
    BY <2>2, <2>3
<1>9. both = all
  BY <1>5, <1>6, <1>7, <1>8, SeqEqual
<1> QED
  BY <1>1, <1>9, Zenon

\* A round prints the next bytes, if any are left.
LEMMA CatRoundIs ==
  ASSUME HasChains(inodes, blocks), NEW i \in DOMAIN inodes, inodes[i].type = 1, NEW last \in Printed(i)
  PROVE  /\ CatRound(i, last) \in Printed(i)
         /\ last.offset < inodes[i].size => CatRound(i, last).offset > last.offset
         /\ last.offset = inodes[i].size => CatRound(i, last) = last
<1>1. PICK size, offset, out, piece : /\ size = inodes[i].size /\ offset = last.offset
                                      /\ out = last.out /\ piece = fs_read(i, offset, CatBuffer)
  OBVIOUS
<1>2. /\ size \in Nat /\ offset \in Nat /\ offset <= size /\ out \in Seq(Bytes)
      /\ CatBuffer \in Nat \ {0} /\ out = Slice(inodes, blocks, i, 0, offset)
  BY <1>1, StoreParts, ShellAssumption DEF Printed
<1>3. CASE offset < size
  <2>1. PICK n : n = Min({CatBuffer, size - offset})
    OBVIOUS
  <2>2. n \in Nat /\ n >= 1 /\ n <= size - offset
    <3>1. CatBuffer \in Nat /\ size - offset \in Nat
      BY <1>2, <1>3
    <3>2. n = IF CatBuffer <= size - offset THEN CatBuffer ELSE size - offset
      BY <2>1, <3>1, MinOfTwo
    <3> QED
      BY <1>2, <1>3, <3>2
  <2>3. piece.bytes = Slice(inodes, blocks, i, offset, offset + n) /\ piece.ret = n
    <3>1. CatBuffer \in Nat /\ ~(offset >= size)
      BY <1>2, <1>3
    <3> QED
      BY <1>1, <1>2, <2>1, <3>1, ReadIs
  <2>4. PICK end, more : end = offset + n /\ more = out \o piece.bytes
    OBVIOUS
  <2>5. end \in offset .. size /\ end \in Nat /\ end > offset /\ ~(n <= 0)
    BY <1>2, <2>2, <2>4
  <2>6. more = Slice(inodes, blocks, i, 0, end)
    <3>1. end \in offset .. inodes[i].size
      BY <1>1, <2>5, Zenon
    <3>2. Slice(inodes, blocks, i, 0, offset) \o Slice(inodes, blocks, i, offset, end)
            = Slice(inodes, blocks, i, 0, end)
      BY <1>2, <3>1, SlicesJoin
    <3> QED
      BY <1>2, <2>3, <2>4, <3>2, Zenon
  <2>7. more \in Seq(Bytes)
    <3>1. end \in 0 .. size /\ 0 \in Nat
      BY <1>2, <2>5
    <3> QED
      BY <1>1, <2>6, <3>1, SliceTyped, Zenon
  <2>8. CatRound(i, last) = [offset |-> end, out |-> more]
    BY <1>1, <2>3, <2>4, <2>5, Zenon DEF CatRound
  <2>9. CatRound(i, last) \in Printed(i)
    <3>1. end <= size
      BY <1>2, <2>5
    <3> QED
      BY <1>1, <2>5, <2>6, <2>7, <2>8, <3>1 DEF Printed
  <2>10. CatRound(i, last).offset = end
    BY <2>8
  <2>11. offset # size
    BY <1>2, <1>3
  <2> QED
    BY <1>1, <2>5, <2>9, <2>10, <2>11, Zenon
<1>4. CASE offset = size
  <2>1. piece.ret <= 0
    <3>1. CatBuffer \in Nat /\ ~(offset < size)
      BY <1>2, <1>4
    <3>2. piece.ret \in {0, -1}
      BY <1>1, <1>2, <3>1, ReadIs
    <3> QED
      BY <3>2
  <2>2. CatRound(i, last) = last
    BY <1>1, <2>1, Zenon DEF CatRound
  <2>3. ~(offset < size)
    BY <1>2, <1>4
  <2> QED
    BY <1>1, <2>2, <2>3, Zenon
<1> QED
  BY <1>2, <1>3, <1>4

\* cat prints all of a file.
LEMMA CatIs ==
  ASSUME HasChains(inodes, blocks), NEW i \in DOMAIN inodes, inodes[i].type = 1
  PROVE  cmd_cat(i) = Slice(inodes, blocks, i, 0, inodes[i].size)
<1> DEFINE size  == inodes[i].size
           T     == Printed(i)
           start == [offset |-> 0, out |-> <<>>]
           step  == [j \in 1 .. size |-> [x \in T |-> CatRound(i, x)]]
           is(h) == h = [n \in 0 .. inodes[i].size |->
                           LET last  == h[n - 1]
                               piece == fs_read(i, last.offset, CatBuffer)
                           IN  IF n = 0 THEN [offset |-> 0, out |-> <<>>]
                               ELSE IF piece.ret <= 0 THEN last
                               ELSE [offset |-> last.offset + piece.ret, out |-> last.out \o piece.bytes]]
           loop  == CHOOSE h : is(h)
<1>1. size \in Nat
  BY StoreParts
<1>2. start \in T
  <2>1. Slice(inodes, blocks, i, 0, 0) = <<>>
    BY DEF Slice
  <2>2. 0 <= size /\ 0 \in Nat /\ <<>> \in Seq(Bytes)
    BY <1>1
  <2> QED
    BY <2>1, <2>2 DEF Printed
<1>3. step \in [1 .. size -> [T -> T]]
  <2>1. \A x \in T : CatRound(i, x) \in T
    BY CatRoundIs, Zenon
  <2> HIDE DEF T
  <2> QED
    BY <2>1
<1>4. \A j \in 1 .. size, x \in T : step[j][x] = CatRound(i, x)
  OBVIOUS
<1> HIDE DEF step
<1>5. PICK g \in [0 .. size -> T] : g[0] = start /\ \A j \in 1 .. size : g[j] = step[j][g[j - 1]]
  <2>1. Runs(T, start, size, step)
    <3> HIDE DEF T, start, size
    <3> QED
      BY <1>1, <1>2, <1>3, Iterates, Zenon
  <2> QED
    BY <2>1, Zenon DEF Runs
<1> HIDE DEF size, T
<1>6. ASSUME NEW n \in 0 .. size
      PROVE  g[n] = IF n = 0 THEN start ELSE CatRound(i, g[n - 1])
  <2>1. CASE n = 0
    BY <1>5, <2>1
  <2>2. CASE n # 0
    <3>1. n \in 1 .. size /\ n - 1 \in 0 .. size
      BY <1>1, <2>2
    <3>2. g[n - 1] \in T /\ g[n] = step[n][g[n - 1]]
      BY <1>5, <3>1
    <3> QED
      BY <1>4, <2>2, <3>1, <3>2, Zenon
  <2> QED
    BY <2>1, <2>2, Zenon
<1>7. is(g)
  <2>1. g = [n \in 0 .. size |-> g[n]]
    BY <1>5
  <2>2. g = [n \in 0 .. size |-> IF n = 0 THEN start ELSE CatRound(i, g[n - 1])]
    BY <1>6, <2>1, Zenon
  <2> QED
    BY <2>2, Zenon DEF CatRound, size
<1>8. is(loop)
  BY <1>7, Zenon
<1>9. cmd_cat(i) = loop[size].out
  BY Zenon DEF cmd_cat, size
<1> HIDE DEF loop
<1>10. ASSUME NEW n \in 0 .. size
       PROVE  loop[n] = IF n = 0 THEN start ELSE CatRound(i, loop[n - 1])
  BY <1>8, Zenon DEF CatRound, size
<1> HIDE DEF start
<1> DEFINE Done(n) == loop[n] \in T /\ (loop[n].offset >= n \/ loop[n].offset = size)
           Far     == {n \in Nat : n <= size => Done(n)}
<1>11. 0 \in Far
  <2>1. 0 \in 0 .. size /\ start.offset = 0
    BY <1>1 DEF start
  <2>2. loop[0] = start
    BY <1>10, <2>1, Zenon
  <2>3. Done(0)
    BY <1>2, <2>1, <2>2
  <2> QED
    BY <2>3
<1>12. ASSUME NEW n \in Nat, n \in Far
       PROVE  n + 1 \in Far
  <2> SUFFICES ASSUME n + 1 <= size PROVE Done(n + 1)
    OBVIOUS
  <2>1. n + 1 \in 0 .. size /\ n + 1 # 0 /\ (n + 1) - 1 = n /\ n <= size
    BY <1>1
  <2>2. PICK last, now : last = loop[n] /\ now = loop[n + 1]
    OBVIOUS
  <2>3. now = CatRound(i, last)
    BY <1>10, <2>1, <2>2, Zenon
  <2>4. last \in T /\ (last.offset >= n \/ last.offset = size)
    BY <1>12, <2>1, <2>2
  <2>5. /\ now \in T /\ (last.offset < size => now.offset > last.offset)
        /\ last.offset = size => now = last
    BY <2>3, <2>4, CatRoundIs, Zenon DEF T, size
  <2>6. last.offset \in Nat /\ last.offset <= size /\ now.offset \in Nat
    BY <2>4, <2>5 DEF T, Printed, size
  <2>7. now.offset >= n + 1 \/ now.offset = size
    BY <1>1, <2>1, <2>4, <2>5, <2>6
  <2> QED
    BY <2>2, <2>5, <2>7, Zenon
<1>13. Done(size)
  <2>1. Nat \subseteq Far
    <3> HIDE DEF Far
    <3> QED
      BY <1>11, <1>12, InductionOnNat
  <2>2. size \in Far /\ size <= size
    BY <1>1, <2>1
  <2> QED
    BY <2>2
<1>14. loop[size].offset = size /\ loop[size].out = Slice(inodes, blocks, i, 0, loop[size].offset)
  <2>1. PICK s : s = loop[size]
    OBVIOUS
  <2>2. s \in T /\ (s.offset >= size \/ s.offset = size)
    BY <1>13, <2>1, Zenon
  <2>3. s.offset \in Nat /\ s.offset <= size /\ s.out = Slice(inodes, blocks, i, 0, s.offset)
    BY <2>2 DEF T, Printed, size
  <2>4. s.offset = size
    BY <1>1, <2>2, <2>3
  <2> QED
    BY <2>1, <2>3, <2>4, Zenon
<1> QED
  BY <1>9, <1>14, Zenon DEF size

LEMMA CatFollows == ShellInv => CatPrintsWritten
<1> SUFFICES ASSUME ShellInv, NEW ino \in Files
             PROVE  IsPrefix(written[ino], cmd_cat(ino)) /\ Len(cmd_cat(ino)) = inodes[ino].size
  BY Zenon DEF CatPrintsWritten
<1>1. Inv /\ HasChains(inodes, blocks) /\ WrittenInv
  BY Zenon DEF ShellInv, Inv
<1>2. ino \in DOMAIN inodes /\ inodes[ino].type = 1 /\ inodes[ino].size \in Nat
  BY <1>1, StoreParts DEF Files
<1>3. ino \in 1 .. MaxInodes
  BY <1>1, <1>2, InodesInRange
<1>4. cmd_cat(ino) = Slice(inodes, blocks, ino, 0, inodes[ino].size)
  BY <1>1, <1>2, CatIs, Zenon
<1>5. Content(inodes, blocks, ino) = cmd_cat(ino)
  BY <1>2, <1>4, Zenon DEF Content
<1>6. IsPrefix(written[ino], cmd_cat(ino))
  BY <1>1, <1>3, <1>5, StartIsPrefix, Zenon DEF WrittenInv
<1>7. Len(Slice(inodes, blocks, ino, 0, inodes[ino].size)) = inodes[ino].size
  <2>1. 0 \in Nat /\ inodes[ino].size \in 0 .. inodes[ino].size
        /\ inodes[ino].size - 0 = inodes[ino].size
    BY <1>2
  <2> QED
    BY <1>1, <1>2, <2>1, SliceTyped, ZenonT(60)
<1> QED
  BY <1>4, <1>6, <1>7, Zenon

-----------------------------------------------------------------------------
(* The theorems of the shell.                                              *)

\* The variables of the shell stay in their ranges: the current directory is
\* an inode, and its path absolute.  That no line makes the path longer than
\* cwd_path is not a theorem: MCShell_path has the lines that do.
THEOREM ShellTypeCorrect == ShellSpec => []ShellTypeOK
<1>1. ShellInv => ShellTypeOK
  <2> SUFFICES ASSUME CwdInv PROVE ShellTypeOK
    BY Zenon DEF ShellInv
  <2>1. cwd_path # <<>>
    <3>1. PICK n : n = Len(cwd_path)
      OBVIOUS
    <3>2. n \in 1 .. MAX_PATH - 1
      BY <3>1, Zenon DEF CwdInv
    <3>3. n # 0 /\ Len(<<>>) = 0
      BY <3>2, ShellAssumption
    <3> QED
      BY <3>1, <3>3, Zenon
  <2> QED
    BY <2>1, Zenon DEF CwdInv, ShellTypeOK, IsAbsolute, Slash, is_dir, exists
<1> QED
  BY <1>1, ShellInvAlways, PTL

\* What the shell does to the filesystem is what FileSystem_proofs is about:
\* every line is one of the calls, with arguments they may be given, or none.
THEOREM LinesCallFileSystem == ShellSpec => [][Next]_vars
<1>1. ShellInv /\ [ShellNext]_shellVars => [Next]_vars
  BY LineDoes
<1> QED
  BY <1>1, ShellInvAlways, PTL DEF ShellSpec

\* pwd prints the path of the directory that the commands work in, whatever
\* is created and removed.
THEOREM CwdPathStays == ShellSpec => []CwdPathLeadsToCwd
<1>1. ShellInv => CwdPathLeadsToCwd
  BY Zenon DEF ShellInv, CwdInv, CwdPathLeadsToCwd
<1> QED
  BY <1>1, ShellInvAlways, PTL

\* An entry that ls shows is what its name, as an argument, resolves to.
THEOREM ListedNamesWork == ShellSpec => []ListedNamesResolve
BY NamesResolve, ShellInvAlways, PTL

\* cat prints the text of the last write first, and as many bytes as the file
\* has, however the buffer and the blocks meet.
THEOREM CatPrintsWhatWasWritten == ShellSpec => []CatPrintsWritten
BY CatFollows, ShellInvAlways, PTL
=============================================================================
