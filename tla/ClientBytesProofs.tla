-------------------------- MODULE ClientBytesProofs --------------------------
(***************************************************************************)
(* The bytes a client sends decide what mongoose makes of them, and not    *)
(* the pieces they come in: proved for any bytes, pieces and limits.       *)
(*                                                                         *)
(* Requests.  The loop of get_request_len returns what it sees at the      *)
(* first place where it stops (RequestLenIs), which is where the first     *)
(* header ends.  As long as nothing is found the buffer is all that came,  *)
(* so PiecesDoNotMatter is inductive with the type invariant.              *)
(*                                                                         *)
(* Frames.  The bytes removed are those of the frames delivered, so the    *)
(* buffer begins with those of the next (BufferIs).  Once its header is    *)
(* there Layout is right, and before that it finds no frame that would be  *)
(* whole (LayoutKnown, LayoutShort): a frame is taken out when all of it   *)
(* is there and not before (BufferedIs).                                   *)
(***************************************************************************)
EXTENDS ClientBytes, SequenceTheorems, WellFoundedInduction, TLAPS

-----------------------------------------------------------------------------
(* Recursive functions.                                                    *)

\* Induction without an operator: a set of naturals has a least element.
LEMMA LeastNumber ==
  ASSUME NEW T \in SUBSET Nat, T # {}
  PROVE  \E x \in T : \A y \in T : x <= y
<1>1. IsWellFoundedOn(OpToRel(<, Nat), Nat)
  BY NatLessThanWellFounded
<1>2. PICK x \in T : \A y \in T : ~(<<y, x>> \in OpToRel(<, Nat))
  BY <1>1, WFMin, Zenon
<1>3. \A y \in T : ~(y < x)
  BY <1>2 DEF OpToRel
<1> QED BY <1>3

\* There is a function on 0 .. n that begins with a and steps on by step; so
\* the recursive definitions of the model define something.
Recurses(S, n, a, step) ==
  \E f \in [0 .. n -> S] :
    f[0] = a /\ \A i \in 1 .. n : f[i] = step[i][f[i - 1]]

LEMMA Recursion ==
  ASSUME NEW S, NEW n \in Nat, NEW a \in S, NEW step \in [1 .. n -> [S -> S]]
  PROVE  Recurses(S, n, a, step)
<1> DEFINE Good(m) ==
             \E f \in [0 .. m -> S] :
               f[0] = a /\ \A i \in 1 .. m : f[i] = step[i][f[i - 1]]
           T == {m \in 0 .. n : ~Good(m)}
<1>1. Good(0)
  <2> DEFINE f == [i \in 0 .. 0 |-> a]
  <2>1. f \in [0 .. 0 -> S] /\ f[0] = a
    OBVIOUS
  <2>2. \A i \in 1 .. 0 : f[i] = step[i][f[i - 1]]
    OBVIOUS
  <2> HIDE DEF f
  <2> QED BY <2>1, <2>2
<1>2. ASSUME NEW x \in 1 .. n, Good(x - 1)
      PROVE  Good(x)
  <2>1. PICK f \in [0 .. x - 1 -> S] :
          f[0] = a /\ \A i \in 1 .. x - 1 : f[i] = step[i][f[i - 1]]
    BY <1>2
  <2>2. x - 1 \in 0 .. x - 1 /\ step[x] \in [S -> S]
    OBVIOUS
  <2> DEFINE y == step[x][f[x - 1]]
             g == [i \in 0 .. x |-> IF i < x THEN f[i] ELSE y]
  <2>3. y \in S
    BY <2>2
  <2> HIDE DEF y
  <2>4. \A i \in 0 .. x : g[i] \in S
    BY <2>3
  <2>5. \A i \in 0 .. x - 1 : g[i] = f[i]
    OBVIOUS
  <2>6. g[x] = y
    OBVIOUS
  <2>7. g \in [0 .. x -> S]
    BY <2>4
  <2> HIDE DEF g
  <2>8. g[0] = a
    BY <2>1, <2>5
  <2>9. \A i \in 1 .. x : g[i] = step[i][g[i - 1]]
    <3> TAKE i \in 1 .. x
    <3>1. CASE i = x
      <4>1. g[i - 1] = f[x - 1]
        BY <2>5, <3>1
      <4> QED BY <2>6, <3>1, <4>1 DEF y
    <3>2. CASE i # x
      <4>1. /\ i \in 1 .. x - 1 /\ i \in 0 .. x - 1 /\ i - 1 \in 0 .. x - 1
        BY <3>2
      <4>2. g[i] = f[i] /\ g[i - 1] = f[i - 1] /\ f[i] = step[i][f[i - 1]]
        BY <2>1, <2>5, <4>1
      <4> QED BY <4>2
    <3> QED BY <3>1, <3>2
  <2> QED BY <2>7, <2>8, <2>9
<1> HIDE DEF Good
<1> SUFFICES ASSUME ~Good(n) PROVE FALSE
  BY DEF Good, Recurses
<1>3. T \in SUBSET Nat /\ T # {}
  OBVIOUS
<1>4. PICK x \in T : \A y \in T : x <= y
  <2> HIDE DEF T
  <2> QED BY <1>3, LeastNumber
<1>5. x \in 1 .. n /\ ~Good(x)
  BY <1>1
<1>6. x - 1 \in 0 .. n /\ x - 1 \notin T
  BY <1>4, <1>5
<1> QED BY <1>2, <1>5, <1>6

-----------------------------------------------------------------------------
(* get_request_len.                                                        *)

At(s, i) == IF i <= Len(s) THEN s[i] ELSE "end"

\* What the loop returns at i, or 0 if it goes on.
Look(s, i) ==
  IF s[i] = "x" THEN -1
  ELSE IF s[i] = "n" /\ At(s, i + 1) = "n" THEN i + 1
  ELSE IF s[i] = "n" /\ At(s, i + 1) = "r" /\ At(s, i + 2) = "n" THEN i + 2
  ELSE 0

Stops(s) == {i \in 1 .. Len(s) : Look(s, i) # 0}
IsFirst(s, i) == i \in Stops(s) /\ \A j \in Stops(s) : i <= j

\* The loop returns what it sees at the first of its stops.
LEMMA RequestLenIs ==
  ASSUME NEW s \in Seq(AllChars)
  PROVE  \/ Stops(s) = {} /\ RequestLen(s) = 0
         \/ \E i \in Stops(s) : IsFirst(s, i) /\ RequestLen(s) = Look(s, i)
<1> DEFINE n == Len(s)
           Eq(f) == f = [i \in 1 .. n + 1 |->
                           IF i > n THEN 0
                           ELSE IF Look(s, i) # 0 THEN Look(s, i)
                           ELSE f[i + 1]]
           next(i, j) == j \in Stops(s) /\ i <= j
                           /\ \A k \in Stops(s) : i <= k => j <= k
           g == [i \in 1 .. n + 1 |->
                   IF \E j \in Stops(s) : i <= j
                   THEN Look(s, CHOOSE j \in Stops(s) : next(i, j)) ELSE 0]
<1>1. n \in Nat
  OBVIOUS
<1>2. ASSUME NEW i \in Nat, \E j \in Stops(s) : i <= j
      PROVE  \E j \in Stops(s) : next(i, j)
  <2> DEFINE T == {j \in Stops(s) : i <= j}
  <2>1. T \in SUBSET Nat /\ T # {}
    BY <1>2 DEF Stops
  <2>2. PICK j \in T : \A k \in T : j <= k
    <3> HIDE DEF T
    <3> QED BY <2>1, LeastNumber
  <2> QED BY <2>2
<1>3. \A i \in 1 .. n + 1 :
        \/ (\A j \in Stops(s) : ~(i <= j)) /\ g[i] = 0
        \/ \E j \in Stops(s) : next(i, j) /\ g[i] = Look(s, j)
  <2> TAKE i \in 1 .. n + 1
  <2>1. CASE \A j \in Stops(s) : ~(i <= j)
    BY <2>1
  <2>2. CASE \E j \in Stops(s) : i <= j
    <3> DEFINE j == CHOOSE j \in Stops(s) : next(i, j)
    <3>1. j \in Stops(s) /\ next(i, j)
      <4>1. \E k \in Stops(s) : next(i, k)
        BY <1>1, <1>2, <2>2
      <4> HIDE DEF next
      <4> QED BY <4>1
    <3>2. g[i] = Look(s, j)
      BY <2>2
    <3> HIDE DEF j, g, next
    <3> QED BY <3>1, <3>2
  <2> QED BY <2>1, <2>2
<1> HIDE DEF g
<1>4. Eq(g)
  <2>1. ASSUME NEW i \in 1 .. n + 1
        PROVE  g[i] = IF i > n THEN 0
                      ELSE IF Look(s, i) # 0 THEN Look(s, i) ELSE g[i + 1]
    <3>1. CASE i > n
      BY <1>1, <1>3, <3>1 DEF Stops
    <3>2. CASE i <= n /\ Look(s, i) # 0
      <4>1. i \in Stops(s) /\ i <= i
        BY <1>1, <3>2 DEF Stops
      <4>2. PICK j \in Stops(s) : next(i, j) /\ g[i] = Look(s, j)
        BY <1>3, <4>1
      <4>3. j = i
        BY <4>1, <4>2 DEF Stops
      <4> QED BY <1>1, <3>2, <4>2, <4>3
    <3>3. CASE i <= n /\ Look(s, i) = 0
      <4>1. i + 1 \in 1 .. n + 1
        BY <1>1, <3>3
      <4>2. \A j \in Stops(s) : i <= j <=> i + 1 <= j
        BY <1>1, <3>3 DEF Stops
      <4>3. CASE \A j \in Stops(s) : ~(i <= j)
        BY <1>1, <1>3, <3>3, <4>1, <4>2, <4>3
      <4>4. CASE \E j \in Stops(s) : i <= j
        <5>1. PICK j \in Stops(s) : next(i, j) /\ g[i] = Look(s, j)
          BY <1>3, <4>4
        <5>2. PICK k \in Stops(s) : next(i + 1, k) /\ g[i + 1] = Look(s, k)
          BY <1>3, <4>1, <4>2, <4>4
        <5>3. j = k
          BY <4>2, <5>1, <5>2 DEF Stops
        <5> QED BY <1>1, <3>3, <5>1, <5>2, <5>3
      <4> QED BY <4>3, <4>4
    <3> QED BY <1>1, <3>1, <3>2, <3>3
  <2>2. g = [i \in 1 .. n + 1 |-> g[i]]
    BY DEF g
  <2> HIDE DEF n
  <2> QED BY <2>1, <2>2, Zenon
<1>5. PICK h : Eq(h) /\ RequestLen(s) = h[1]
  <2> DEFINE Body(f, i) ==
               IF i > Len(s) THEN 0
               ELSE IF s[i] = "x" THEN -1
               ELSE IF s[i] = "n" /\ At(s, i + 1) = "n" THEN i + 1
               ELSE IF s[i] = "n" /\ At(s, i + 1) = "r" /\ At(s, i + 2) = "n"
               THEN i + 2
               ELSE f[i + 1]
             Source(f) == f = [i \in 1 .. Len(s) + 1 |-> Body(f, i)]
  <2>1. \A f : \A i \in 1 .. n + 1 :
          Body(f, i) = IF i > n THEN 0
                       ELSE IF Look(s, i) # 0 THEN Look(s, i) ELSE f[i + 1]
    BY <1>1 DEF Look
  <2> HIDE DEF Body
  <2>2. \A f : Source(f) <=> Eq(f)
    BY <2>1, Zenon
  <2>3. Source(g)
    BY <1>4, <2>2, Zenon
  <2>4. \E h : Source(h) /\ RequestLen(s) = h[1]
    BY <2>3 DEF RequestLen, Body, At
  <2> QED BY <2>2, <2>4, Zenon
<1>6. h[1] = g[1]
  <2> SUFFICES ASSUME h[1] # g[1] PROVE FALSE
    OBVIOUS
  <2> DEFINE T == {m \in 0 .. n : h[n + 1 - m] # g[n + 1 - m]}
  <2>1. T \in SUBSET Nat /\ T # {}
    <3>1. n \in T
      BY <1>1
    <3> QED BY <3>1
  <2>2. PICK m \in T : \A k \in T : m <= k
    <3> HIDE DEF T
    <3> QED BY <2>1, LeastNumber
  <2> DEFINE i == n + 1 - m
  <2>3. i \in 1 .. n + 1 /\ h[i] # g[i]
    BY <1>1, <2>2
  <2>4. i # n + 1
    BY <1>1, <1>4, <1>5, <2>3
  <2>5. i + 1 \in 1 .. n + 1 /\ h[i + 1] = g[i + 1]
    <3>1. m - 1 \in 0 .. n /\ m - 1 \notin T /\ n + 1 - (m - 1) = i + 1
      BY <1>1, <2>2, <2>3, <2>4
    <3> QED BY <1>1, <2>3, <2>4, <3>1
  <2> HIDE DEF i, n
  <2> QED BY <1>4, <1>5, <2>3, <2>5
<1> QED BY <1>1, <1>3, <1>5, <1>6 DEF IsFirst, Stops

\* An empty line ends where the loop says that it does.
LEMMA HeaderEndIs ==
  ASSUME NEW s \in Seq(AllChars), NEW m \in HeaderEnds(s), Before(s, m - 1)
  PROVE  \E i \in Stops(s) : Look(s, i) = m /\ m \in i + 1 .. i + 2
<1>1. m \in 1 .. Len(s) /\ Len(s) \in Nat /\ s[m] = "n"
  BY DEF HeaderEnds
<1>2. CASE m > 1 /\ s[m - 1] = "n"
  <2>1. m - 1 \in 1 .. Len(s) /\ Look(s, m - 1) = m
    BY <1>1, <1>2 DEF Look, At
  <2> QED BY <1>1, <2>1 DEF Stops
<1>3. CASE m > 2 /\ s[m - 1] = "r" /\ s[m - 2] = "n"
  <2>1. m - 2 \in 1 .. Len(s) /\ Look(s, m - 2) = m
    BY <1>1, <1>3 DEF Look, At
  <2> QED BY <1>1, <2>1 DEF Stops
<1> QED BY <1>2, <1>3 DEF HeaderEnds

\* What process_request's decision rests on, said of the bytes.
LEMMA RequestLenMeans ==
  ASSUME NEW s \in Seq(AllChars)
  PROVE  LET n == RequestLen(s) IN
         \/ n = 0 /\ HeaderEnds(s) = {} /\ Before(s, Len(s))
         \/ n = -1 /\ ~Before(s, Len(s))
         \/ /\ n \in HeaderEnds(s) /\ Before(s, n)
            /\ \A m \in HeaderEnds(s) : m >= n
<1> DEFINE n == RequestLen(s)
<1>1. Len(s) \in Nat
  OBVIOUS
<1>2. CASE Stops(s) = {} /\ n = 0
  <2>1. Before(s, Len(s))
    BY <1>1, <1>2 DEF Stops, Look, Before
  <2>2. \A m \in HeaderEnds(s) : Before(s, m - 1)
    BY <1>1, <2>1 DEF Before, HeaderEnds
  <2>3. HeaderEnds(s) = {}
    BY <1>2, <2>2, HeaderEndIs
  <2> QED BY <1>2, <2>1, <2>3
<1>3. ASSUME NEW i \in Stops(s), IsFirst(s, i), n = Look(s, i)
      PROVE  \/ n = -1 /\ ~Before(s, Len(s))
             \/ /\ n \in HeaderEnds(s) /\ Before(s, n)
                /\ \A m \in HeaderEnds(s) : m >= n
  <2> HIDE DEF n
  <2>1. i \in 1 .. Len(s) /\ Look(s, i) # 0
    BY DEF Stops
  <2>2. \A j \in 1 .. i - 1 : s[j] # "x"
    <3> TAKE j \in 1 .. i - 1
    <3>1. j \in 1 .. Len(s) /\ j \notin Stops(s)
      BY <1>1, <1>3, <2>1 DEF IsFirst
    <3> QED BY <3>1 DEF Stops, Look
  <2>3. CASE s[i] = "x"
    BY <1>1, <1>3, <2>1, <2>3 DEF Look, Before
  <2>4. CASE s[i] # "x"
    <3>1. /\ s[i] = "n" /\ n \in 1 .. Len(s)
          /\ \/ n = i + 1 /\ s[i + 1] = "n"
             \/ n = i + 2 /\ s[i + 1] = "r" /\ s[i + 2] = "n"
      BY <1>1, <1>3, <2>1, <2>4 DEF Look, At
    <3>2. n \in HeaderEnds(s)
      BY <2>1, <3>1 DEF HeaderEnds
    <3>3. Before(s, n)
      BY <2>1, <2>2, <3>1 DEF Before
    <3>4. ASSUME NEW m \in HeaderEnds(s), m < n
          PROVE  FALSE
      <4>1. Before(s, m - 1) /\ m \in 1 .. Len(s)
        BY <1>1, <3>1, <3>3, <3>4 DEF Before, HeaderEnds
      <4>2. PICK j \in Stops(s) : Look(s, j) = m /\ m \in j + 1 .. j + 2
        BY <4>1, HeaderEndIs
      <4>3. j = i
        BY <1>3, <2>1, <3>1, <3>4, <4>1, <4>2 DEF IsFirst, Stops
      <4> QED BY <1>3, <3>4, <4>1, <4>2, <4>3
    <3>5. \A m \in HeaderEnds(s) : m >= n
      <4> TAKE m \in HeaderEnds(s)
      <4>1. m \in Int /\ n \in Int
        BY <3>1 DEF HeaderEnds
      <4> QED BY <3>4, <4>1
    <3> QED BY <3>2, <3>3, <3>5
  <2> QED BY <2>3, <2>4
<1> QED BY <1>2, <1>3, RequestLenIs

-----------------------------------------------------------------------------
(* The invariant of a request.                                             *)

ReaderInv == ReaderTypeOK /\ PiecesDoNotMatter

LEMMA ReaderInitInv == ReaderInit => ReaderInv
<1> SUFFICES ASSUME ReaderInit PROVE ReaderInv
  OBVIOUS
<1>1. ReaderTypeOK
  <2>1. Len(io) <= size /\ io \in Seq(AllChars) /\ size \in Nat
    <3>1. Len(<<>>) = 0 /\ <<>> \in Seq(AllChars)
      OBVIOUS
    <3> QED BY <3>1 DEF ReaderInit
  <2>2. request \in Seq(AllChars) /\ sent \in Seq(AllChars)
    BY DEF ReaderInit
  <2> QED BY <2>1, <2>2 DEF ReaderInit, ReaderTypeOK, SpoolFits
<1>2. /\ sent = <<>> /\ request = <<>> /\ io = <<>> /\ verdict = "none"
      /\ Len(sent) = 0 /\ sent = request \o io
  BY DEF ReaderInit
<1>3. HeaderEnds(sent) = {} /\ Before(sent, Len(sent))
  BY <1>2 DEF HeaderEnds, Before
<1>4. 0 <= MaxRequestSize
  BY ReaderAssumption
<1> QED BY <1>1, <1>2, <1>3, <1>4 DEF ReaderInv, PiecesDoNotMatter

\* What process_request does to a buffer, from here on by its result.
LEMMA ProcessTyped ==
  ASSUME NEW s \in Seq(AllChars), Process(s)
  PROVE  /\ io' \in Seq(AllChars) /\ request' \in Seq(AllChars)
         /\ verdict' \in {"none", "request", "bad", "too large"}
         /\ Len(io') <= Len(s)
         /\ request' \o io' = s
<1> DEFINE n == RequestLen(s)
<1>1. n \in {-1, 0} \/ n \in 1 .. Len(s)
  BY RequestLenMeans DEF HeaderEnds
<1>2. verdict' \in {"none", "request", "bad", "too large"}
  BY DEF Process, VerdictOn
<1>3. CASE n \in {-1, 0}
  <2>1. io' = s /\ request' = <<>>
    BY <1>3 DEF Process
  <2>2. <<>> \o s = s
    OBVIOUS
  <2>3. Len(io') <= Len(s)
    <3>1. Len(s) <= Len(s)
      BY LenProperties
    <3> QED BY <2>1, <3>1, Zenon
  <2>4. io' \in Seq(AllChars) /\ request' \in Seq(AllChars)
    BY <2>1
  <2>5. request' \o io' = s
    BY <2>1, <2>2, Zenon
  <2> QED BY <1>2, <2>3, <2>4, <2>5, Zenon
<1>4. CASE n \in 1 .. Len(s)
  <2>1. io' = SubSeq(s, n + 1, Len(s)) /\ request' = SubSeq(s, 1, n)
    BY <1>4 DEF Process
  <2> HIDE DEF n
  <2>2. /\ SubSeq(s, n + 1, Len(s)) \in Seq(AllChars)
        /\ SubSeq(s, 1, n) \in Seq(AllChars)
        /\ Len(SubSeq(s, n + 1, Len(s))) = Len(s) - n
    BY <1>4
  <2>3. SubSeq(s, 1, n) \o SubSeq(s, n + 1, Len(s)) = s
    BY <1>4
  <2>4. Len(s) - n <= Len(s)
    BY <1>4, LenProperties
  <2> QED BY <1>2, <2>1, <2>2, <2>3, <2>4, Zenon
<1> QED BY <1>1, <1>3, <1>4

LEMMA ProcessDecides ==
  ASSUME NEW s \in Seq(AllChars), Process(s), sent' = s
  PROVE  PiecesDoNotMatter'
<1> DEFINE n == RequestLen(s)
<1>1. sent' = request' \o io'
  BY ProcessTyped
<1>2. CASE n \in {-1, 0}
  <2>1. request' = <<>> /\ verdict' = VerdictOn(s)
    BY <1>2 DEF Process
  <2>2. CASE n = 0
    <3>1. HeaderEnds(s) = {} /\ Before(s, Len(s))
      BY <2>2, RequestLenMeans DEF HeaderEnds
    <3>2. verdict' = IF Len(s) > MaxRequestSize THEN "too large" ELSE "none"
      <4>1. ~(n < 0) /\ ~(n > 0)
        BY <2>2
      <4> QED BY <2>1, <4>1, Zenon DEF VerdictOn
    <3>3. verdict' = "none" => Len(s) <= MaxRequestSize
      BY <3>2, ReaderAssumption
    <3> QED BY <1>1, <2>1, <3>1, <3>2, <3>3 DEF PiecesDoNotMatter
  <2>3. CASE n = -1
    <3>1. ~Before(s, Len(s))
      BY <2>3, RequestLenMeans DEF HeaderEnds
    <3>2. verdict' = "bad"
      BY <2>1, <2>3 DEF VerdictOn
    <3> QED BY <1>1, <2>1, <3>1, <3>2 DEF PiecesDoNotMatter
  <2> QED BY <1>2, <2>2, <2>3
<1>3. CASE n \in HeaderEnds(s)
  <2>1. /\ n \in 1 .. Len(s) /\ Before(s, n)
        /\ \A m \in HeaderEnds(s) : m >= n
    BY <1>3, RequestLenMeans DEF HeaderEnds
  <2>2. /\ request' = SubSeq(s, 1, n)
        /\ verdict' = IF IsRequest(request') THEN "request" ELSE "bad"
    <3>1. n > 0 /\ ~(n < 0)
      BY <2>1
    <3> QED BY <3>1, Zenon DEF Process, VerdictOn
  <2> HIDE DEF n
  <2>3. /\ Len(request') = n /\ request' # <<>>
        /\ \A i \in 1 .. n : request'[i] = s[i]
    BY <2>1, <2>2
  <2>4. Before(request', Len(request'))
    BY <2>1, <2>3 DEF Before
  <2> QED BY <1>1, <1>3, <2>1, <2>2, <2>3, <2>4 DEF PiecesDoNotMatter
<1> QED BY <1>2, <1>3, RequestLenMeans

\* As long as process_request finds nothing the buffer holds all that came.
LEMMA BufferIsAll ==
  ASSUME ReaderInv, verdict = "none", ~lost
  PROVE  io = sent
<1>1. sent = request \o io /\ io \in Seq(AllChars) /\ request \in Seq(AllChars)
  BY DEF ReaderInv, ReaderTypeOK, PiecesDoNotMatter
<1>2. request = <<>>
  BY DEF ReaderInv, PiecesDoNotMatter
<1>3. <<>> \o io = io
  BY <1>1
<1> QED BY <1>1, <1>2, <1>3

\* What spool reallocates to is room enough.
LEMMA SpoolGrows ==
  ASSUME NEW len \in Nat
  PROVE  Enlarged(len) \in Nat /\ len <= Enlarged(len)
BY DEF Enlarged

LEMMA PieceTyped ==
  ASSUME NEW len \in 1 .. RecvSize, NEW piece \in [1 .. len -> Chars]
  PROVE  piece \in Seq(AllChars) /\ Len(piece) = len
BY ReaderAssumption

LEMMA ReceiveKeeps == ASSUME ReaderInv, Receive PROVE ReaderInv'
<1>0. PICK len \in 1 .. RecvSize :
        \E piece \in [1 .. len -> Chars] :
           /\ sent' = sent \o piece /\ size' = SpoolSize(len)
           /\ Process(io \o piece) /\ verdict = "none" /\ lost' = lost
  BY Zenon DEF Receive
<1>1. PICK piece \in [1 .. len -> Chars] :
        /\ sent' = sent \o piece /\ size' = SpoolSize(len)
        /\ Process(io \o piece) /\ verdict = "none" /\ lost' = lost
  BY <1>0
<1>2. /\ io \in Seq(AllChars) /\ sent \in Seq(AllChars) /\ size \in Nat
      /\ lost \in BOOLEAN
  BY DEF ReaderInv, ReaderTypeOK
<1>3. piece \in Seq(AllChars) /\ Len(piece) = len /\ len \in Nat
  BY PieceTyped, ReaderAssumption
<1> DEFINE s == io \o piece
<1>4. /\ s \in Seq(AllChars) /\ Len(s) = Len(io) + len
      /\ sent' \in Seq(AllChars)
  <2>1. sent \o piece \in Seq(AllChars)
    BY <1>2, <1>3
  <2> QED BY <1>1, <1>2, <1>3, <2>1, ConcatProperties
<1>9. Len(io) \in Nat
  BY <1>2
<1> HIDE DEF s
<1>5. size' \in Nat /\ Len(s) <= size'
  <2>1. size' = SpoolSize(len)
    BY <1>1
  <2>2. size \in Int /\ Len(s) \in Nat /\ Len(s) = Len(io) + len
    BY <1>2, <1>3, <1>4, <1>9
  <2>3. /\ Enlarged(Len(s)) \in Nat /\ Len(s) <= Enlarged(Len(s))
        /\ SpoolSize(len) = IF Len(s) < size THEN size ELSE Enlarged(Len(s))
    BY <2>2, SpoolGrows, Zenon DEF SpoolSize
  <2> QED BY <1>2, <2>1, <2>2, <2>3
<1>6. ReaderTypeOK'
  <2>1. /\ io' \in Seq(AllChars) /\ request' \in Seq(AllChars)
        /\ verdict' \in {"none", "request", "bad", "too large"}
        /\ Len(io') <= Len(s)
    BY <1>1, <1>4, ProcessTyped DEF s
  <2>2. Len(io') <= size'
    <3>1. Len(io') \in Nat /\ Len(s) \in Nat
      BY <1>4, <2>1, LenProperties
    <3>2. Len(io') <= Len(s)
      BY <2>1, Zenon
    <3> QED BY <1>5, <3>1, <3>2
  <2> QED BY <1>1, <1>2, <1>4, <1>5, <2>1, <2>2 DEF ReaderTypeOK, SpoolFits
<1>7. CASE lost
  BY <1>1, <1>6, <1>7 DEF ReaderInv, PiecesDoNotMatter
<1>8. CASE ~lost
  <2>1. io = sent
    BY <1>1, <1>8, BufferIsAll
  <2>2. sent' = s /\ Process(s)
    BY <1>1, <2>1 DEF s
  <2> QED BY <1>4, <1>6, <2>2, ProcessDecides DEF ReaderInv
<1> QED BY <1>7, <1>8

LEMMA ReceiveLostKeeps == ASSUME ReaderInv, ReceiveLost PROVE ReaderInv'
<1>0. PICK len \in 1 .. RecvSize :
        \E piece \in [1 .. len -> Chars] : sent' = sent \o piece
  BY Zenon DEF ReceiveLost
<1>1. PICK piece \in [1 .. len -> Chars] : sent' = sent \o piece
  BY <1>0
<1>2. /\ io \in Seq(AllChars) /\ sent \in Seq(AllChars) /\ size \in Nat
      /\ Len(io) <= size /\ Process(io) /\ lost' = TRUE /\ size' = size
  BY DEF ReaderInv, ReaderTypeOK, SpoolFits, ReceiveLost
<1>3. sent' \in Seq(AllChars)
  <2>1. piece \in Seq(AllChars)
    BY PieceTyped
  <2> QED BY <1>1, <1>2, <2>1
<1>4. /\ io' \in Seq(AllChars) /\ request' \in Seq(AllChars)
      /\ verdict' \in {"none", "request", "bad", "too large"}
      /\ Len(io') <= Len(io)
  BY <1>2, ProcessTyped
<1>5. Len(io') <= size'
  <2>1. Len(io') \in Nat /\ Len(io) \in Nat
    BY <1>2, <1>4, LenProperties
  <2>2. size \in Nat /\ Len(io) <= size /\ size' = size
    BY <1>2
  <2>3. Len(io') <= Len(io)
    BY <1>4, Zenon
  <2> QED BY <2>1, <2>2, <2>3
<1> QED BY <1>2, <1>3, <1>4, <1>5 DEF ReaderInv, ReaderTypeOK, SpoolFits,
   PiecesDoNotMatter

LEMMA ReaderStepKeeps ==
  ASSUME ReaderInv, [ReaderNext]_readerVars
  PROVE  ReaderInv'
<1>1. CASE UNCHANGED readerVars
  BY <1>1 DEF readerVars, ReaderInv, ReaderTypeOK, SpoolFits, PiecesDoNotMatter
<1> QED BY <1>1, ReceiveKeeps, ReceiveLostKeeps DEF ReaderNext

LEMMA ReaderInductive == ReaderSpec => []ReaderInv
BY ReaderInitInv, ReaderStepKeeps, PTL DEF ReaderSpec

-----------------------------------------------------------------------------
(* What follows for requests.                                              *)

\* The buffer of a connection holds characters only, and no more of them than
\* spool made room for, whatever realloc does.
THEOREM ReaderTypes == ReaderSpec => []ReaderTypeOK
<1>1. ReaderInv => ReaderTypeOK
  BY DEF ReaderInv
<1> QED BY <1>1, ReaderInductive, PTL

\* Unless realloc failed, the bytes alone decide what process_request finds
\* in them, however recv cut them: a header ends with the first empty line, is
\* taken out whole, and is refused for a control character before that end or
\* a length beyond MAX_REQUEST_SIZE.
THEOREM BytesDecide == ReaderSpec => []PiecesDoNotMatter
<1>1. ReaderInv => PiecesDoNotMatter
  BY DEF ReaderInv
<1> QED BY <1>1, ReaderInductive, PTL

-----------------------------------------------------------------------------
(* The format of a frame.                                                  *)

FrameType == [len : PayloadLens, masked : BOOLEAN]
Item == [k : {"number", "mask", "data"}, v : Nat, mask : Int]

LEMMA DivMod ==
  ASSUME NEW b \in Nat \ {0}, NEW n \in Nat
  PROVE  /\ n \div b \in Nat /\ n % b \in 0 .. b - 1
         /\ n = (n \div b) * b + (n % b)
  BY SMT

LEMMA Times ==
  ASSUME NEW b \in Nat \ {0}, NEW q \in Nat, NEW m \in Nat, q >= m
  PROVE  q * b >= m * b
  BY SMT

LEMMA DivBelow ==
  ASSUME NEW b \in Nat \ {0}, NEW n \in Nat, NEW m \in Nat, n < m * b
  PROVE  n \div b < m
  BY DivMod, Times

LEMMA ByteIs ==
  /\ Half \in Nat /\ Byte \in Nat \ {0} /\ Byte = Half + Half
  /\ In16Bits \in 1 .. Half - 2 /\ In64Bits = In16Bits + 1
  BY FrameAssumption DEF Byte, In16Bits, In64Bits

LEMMA ShiftIs ==
  ASSUME NEW n \in Nat
  PROVE  /\ Shifted(n) \in Nat /\ Digit(n) \in Nat
         /\ n = Shifted(n) * Byte + Digit(n)
<1>1. /\ n \div Byte \in Nat /\ n % Byte \in 0 .. Byte - 1
      /\ n = (n \div Byte) * Byte + (n % Byte)
  BY ByteIs, DivMod, Zenon
<1>2. n % Byte \in Nat
  BY <1>1, ByteIs
<1> QED BY <1>1, <1>2, Zenon DEF Shifted, Digit

\* What is left of a length when it is shifted by four bytes.
LEMMA LenBelow ==
  ASSUME NEW n \in PayloadLens
  PROVE  n \in Nat /\ n < ((Byte * Byte) * Byte) * Byte
<1>1. n \in Nat /\ n <= 8 * Half * Half * Half * Half - 15 /\ Half \in Nat
  BY FrameAssumption
<1> DEFINE h == Half * Half * Half * Half
<1>2. 8 * Half * Half * Half * Half = 8 * h /\ h \in Nat
  BY <1>1
<1>3. ((Byte * Byte) * Byte) * Byte = 16 * h
  BY <1>1 DEF Byte
<1> HIDE DEF h
<1> QED BY <1>1, <1>2, <1>3

\* What the three ways of writing a length say of it.
FieldSays(n, s) ==
  /\ s \in Seq(Nat) /\ s[1] \in 0 .. Half - 1
  /\ \/ Len(s) = 1 /\ s[1] < In16Bits /\ n = s[1]
     \/ Len(s) = 3 /\ s[1] = In16Bits /\ n = s[2] * Byte + s[3]
     \/ /\ Len(s) = 9 /\ s[1] = In64Bits
        /\ n = ((s[6] * Byte + s[7]) * Byte + s[8]) * Byte + s[9]

LEMMA FieldIs ==
  ASSUME NEW n \in PayloadLens
  PROVE  FieldSays(n, LengthField(n))
<1> DEFINE a == Shifted(n)
           b == Shifted(a)
           d == Shifted(b)
<1>1. n \in Nat /\ n < ((Byte * Byte) * Byte) * Byte
  BY LenBelow
<1>2. /\ Half \in Nat /\ Byte \in Nat \ {0} /\ Byte = Half + Half
      /\ In16Bits \in 1 .. Half - 2 /\ In64Bits = In16Bits + 1
  BY ByteIs
<1>3. /\ a \in Nat /\ Digit(n) \in Nat /\ n = a * Byte + Digit(n)
  BY <1>1, ShiftIs, Zenon
<1>4. /\ b \in Nat /\ Digit(a) \in Nat /\ a = b * Byte + Digit(a)
  BY <1>3, ShiftIs, Zenon
<1>5. /\ d \in Nat /\ Digit(b) \in Nat /\ b = d * Byte + Digit(b)
  BY <1>4, ShiftIs, Zenon
<1>6. /\ Byte * Byte \in Nat /\ (Byte * Byte) * Byte \in Nat
  BY <1>2
<1>7. a < (Byte * Byte) * Byte
  BY <1>1, <1>2, <1>6, DivBelow, Zenon DEF Shifted
<1>8. b < Byte * Byte
  BY <1>2, <1>3, <1>6, <1>7, DivBelow, Zenon DEF Shifted
<1>9. d < Byte
  BY <1>2, <1>4, <1>8, DivBelow, Zenon DEF Shifted
<1>10. \A k \in Nat : k < Byte => Digit(k) = k
  BY <1>2 DEF Digit
<1> HIDE DEF a, b, d
<1>11. CASE n < In16Bits
  <2>1. LengthField(n) = <<n>>
    BY <1>11 DEF LengthField
  <2> QED BY <1>1, <1>2, <1>11, <2>1 DEF FieldSays
<1>12. CASE ~(n < In16Bits) /\ n < Byte * Byte
  <2>1. LengthField(n) = <<In16Bits, Digit(a), Digit(n)>>
    BY <1>12, Zenon DEF LengthField, a
  <2>2. a < Byte
    BY <1>1, <1>2, <1>12, DivBelow, Zenon DEF Shifted, a
  <2>3. Digit(a) = a
    BY <1>3, <1>10, <2>2
  <2> DEFINE s == <<In16Bits, Digit(a), Digit(n)>>
  <2>4. /\ s \in Seq(Nat) /\ Len(s) = 3 /\ s[1] = In16Bits
        /\ s[2] = Digit(a) /\ s[3] = Digit(n)
    BY <1>2, <1>3, <1>4
  <2> HIDE DEF s
  <2>5. n = s[2] * Byte + s[3]
    BY <1>3, <2>3, <2>4
  <2>6. s[1] \in 0 .. Half - 1
    BY <1>2, <2>4
  <2>7. FieldSays(n, s)
    BY <2>4, <2>5, <2>6 DEF FieldSays
  <2> QED BY <2>1, <2>7 DEF s
<1>13. CASE ~(n < In16Bits) /\ ~(n < Byte * Byte)
  <2> DEFINE s == <<In64Bits, 0, 0, 0, 0, Digit(d), Digit(b), Digit(a),
                    Digit(n)>>
  <2>1. LengthField(n) = s
    BY <1>13, Zenon DEF LengthField, a, b, d
  <2>2. Digit(d) = d /\ Digit(d) \in Nat
    BY <1>5, <1>9, <1>10
  <2>3. /\ s \in Seq(Nat) /\ Len(s) = 9 /\ s[1] = In64Bits
        /\ s[6] = Digit(d) /\ s[7] = Digit(b) /\ s[8] = Digit(a)
        /\ s[9] = Digit(n)
    BY <1>2, <1>3, <1>4, <1>5, <2>2
  <2> HIDE DEF s
  <2>4. n = ((s[6] * Byte + s[7]) * Byte + s[8]) * Byte + s[9]
    BY <1>3, <1>4, <1>5, <2>2, <2>3, Zenon
  <2>5. s[1] \in 0 .. Half - 1
    BY <1>2, <2>3
  <2>6. FieldSays(n, s)
    BY <2>3, <2>4, <2>5 DEF FieldSays
  <2> QED BY <2>1, <2>6 DEF s
<1> QED BY <1>11, <1>12, <1>13

\* How many bytes there are before the payload.
MaskLen(f) == IF f.masked THEN 4 ELSE 0
HeaderLen(f) == 1 + Len(LengthField(f.len)) + MaskLen(f)

\* Where the bytes of the frame f are in e.
Encodes(f, e) ==
  /\ e \in Seq(Item) /\ Len(e) = HeaderLen(f) + f.len
  /\ e[2].v = LengthField(f.len)[1] + IF f.masked THEN Half ELSE 0
  /\ \A i \in 2 .. Len(LengthField(f.len)) : e[1 + i].v = LengthField(f.len)[i]
  /\ f.masked => \A j \in 1 .. 4 : e[HeaderLen(f) - 4 + j] = MaskByte(j)
  /\ \A i \in 1 .. f.len :
       e[HeaderLen(f) + i] =
         [DataByte(i) EXCEPT
            !.mask = IF f.masked THEN ((i - 1) % 4) + 1 ELSE 0]

\* Where the parts of two joined sequences are.
TwoParts(s, t, e) ==
  /\ Len(e) = Len(s) + Len(t)
  /\ \A i \in 1 .. Len(s) : e[i] = s[i]
  /\ \A i \in 1 .. Len(t) : e[Len(s) + i] = t[i]

LEMMA Join ==
  ASSUME NEW S, NEW s \in Seq(S), NEW t \in Seq(S)
  PROVE  s \o t \in Seq(S) /\ TwoParts(s, t, s \o t)
  BY DEF TwoParts

\* Where the parts of four joined sequences are.
FourParts(s, t, u, w, e) ==
  /\ Len(e) = Len(s) + Len(t) + Len(u) + Len(w)
  /\ \A i \in 1 .. Len(t) : e[Len(s) + i] = t[i]
  /\ \A i \in 1 .. Len(u) : e[Len(s) + Len(t) + i] = u[i]
  /\ \A i \in 1 .. Len(w) : e[Len(s) + Len(t) + Len(u) + i] = w[i]

LEMMA JoinFour ==
  ASSUME NEW S, NEW s \in Seq(S), NEW t \in Seq(S), NEW u \in Seq(S),
         NEW w \in Seq(S)
  PROVE  /\ s \o t \o u \o w \in Seq(S)
         /\ FourParts(s, t, u, w, s \o t \o u \o w)
<1> DEFINE a == s \o t
           b == a \o u
           c == b \o w
<1>1. a \in Seq(S) /\ TwoParts(s, t, a)
  BY Join
<1> HIDE DEF a
<1>2. b \in Seq(S) /\ TwoParts(a, u, b)
  BY <1>1, Join
<1> HIDE DEF b
<1>3. c \in Seq(S) /\ TwoParts(b, w, c)
  BY <1>2, Join
<1> HIDE DEF c
<1>4. Len(s) \in Nat /\ Len(t) \in Nat /\ Len(u) \in Nat /\ Len(w) \in Nat
  OBVIOUS
<1>5. ASSUME NEW i \in 1 .. Len(t)
      PROVE  c[Len(s) + i] = t[i]
  <2>1. Len(s) + i \in 1 .. Len(a) /\ Len(s) + i \in 1 .. Len(b)
    BY <1>1, <1>2, <1>4 DEF TwoParts
  <2> QED BY <1>1, <1>2, <1>3, <2>1, Zenon DEF TwoParts
<1>6. ASSUME NEW i \in 1 .. Len(u)
      PROVE  c[Len(a) + i] = u[i]
  <2>1. Len(a) + i \in 1 .. Len(b)
    BY <1>1, <1>2, <1>4 DEF TwoParts
  <2> QED BY <1>2, <1>3, <2>1, Zenon DEF TwoParts
<1>7. /\ Len(c) = Len(s) + Len(t) + Len(u) + Len(w)
      /\ Len(b) = Len(s) + Len(t) + Len(u)
  BY <1>1, <1>2, <1>3 DEF TwoParts
<1>8. c = s \o t \o u \o w
  BY Zenon DEF a, b, c
<1>9. /\ \A i \in 1 .. Len(t) : c[Len(s) + i] = t[i]
      /\ \A i \in 1 .. Len(u) : c[Len(s) + Len(t) + i] = u[i]
      /\ \A i \in 1 .. Len(w) : c[Len(s) + Len(t) + Len(u) + i] = w[i]
  BY <1>1, <1>3, <1>5, <1>6, <1>7, Zenon DEF TwoParts
<1> QED BY <1>3, <1>7, <1>8, <1>9, Zenon DEF FourParts

LEMMA EncodedIs ==
  ASSUME NEW f \in FrameType
  PROVE  Encodes(f, Encoded(f))
<1> DEFINE field == LengthField(f.len)
           head == [field EXCEPT ![1] = @ + IF f.masked THEN Half ELSE 0]
           key == IF f.masked THEN [j \in 1 .. 4 |-> MaskByte(j)] ELSE <<>>
           data == [i \in 1 .. f.len |->
                      [DataByte(i) EXCEPT
                         !.mask = IF f.masked THEN ((i - 1) % 4) + 1 ELSE 0]]
           first == <<Number(0)>>
           numbers == [i \in DOMAIN head |-> Number(head[i])]
<1>1. f.len \in PayloadLens /\ f.len \in Nat /\ f.masked \in BOOLEAN
  <2>1. f.len \in PayloadLens /\ f.masked \in BOOLEAN
    BY DEF FrameType
  <2> QED BY <2>1, LenBelow
<1>2. FieldSays(f.len, field)
  BY <1>1, FieldIs
<1>3. Encoded(f) = first \o numbers \o key \o data
  BY DEF Encoded
<1> HIDE DEF field
<1>4. field \in Seq(Nat) /\ Len(field) \in {1, 3, 9} /\ field[1] \in Nat
  BY <1>2 DEF FieldSays
<1>5. /\ head \in Seq(Nat) /\ Len(head) = Len(field)
      /\ head[1] = field[1] + IF f.masked THEN Half ELSE 0
      /\ \A i \in 2 .. Len(field) : head[i] = field[i]
  <2> DEFINE x == field[1] + IF f.masked THEN Half ELSE 0
  <2>1. x \in Nat
    BY <1>4, ByteIs
  <2>2. head = [field EXCEPT ![1] = x]
    BY <1>4
  <2> HIDE DEF x, head
  <2>3. 1 \in 1 .. Len(field)
    BY <1>4
  <2>4. head \in Seq(Nat) /\ Len(head) = Len(field) /\ head[1] = x
        /\ \A i \in 2 .. Len(field) : head[i] = field[i]
    BY <1>4, <2>1, <2>2, <2>3
  <2> QED BY <2>4 DEF x
<1> HIDE DEF head
<1>6. first \in Seq(Item) /\ Len(first) = 1
  BY DEF Number, Item
<1>7. /\ numbers \in Seq(Item) /\ Len(numbers) = Len(field)
      /\ \A i \in 1 .. Len(field) : numbers[i].v = head[i]
  <2>1. /\ DOMAIN head = 1 .. Len(field)
        /\ \A i \in 1 .. Len(field) : head[i] \in Nat
    BY <1>4, <1>5
  <2>2. \A k \in Nat : Number(k) \in Item /\ Number(k).v = k
    BY DEF Number, Item
  <2> HIDE DEF numbers
  <2>3. numbers = [i \in 1 .. Len(field) |-> Number(head[i])]
    BY <2>1 DEF numbers
  <2>4. \A i \in 1 .. Len(field) :
          numbers[i] \in Item /\ numbers[i].v = head[i]
    BY <2>1, <2>2, <2>3, Zenon
  <2>5. Len(field) \in Nat
    BY <1>4
  <2> QED BY <2>3, <2>4, <2>5
<1> HIDE DEF numbers, first
<1>8. /\ key \in Seq(Item) /\ Len(key) = MaskLen(f)
      /\ f.masked => \A j \in 1 .. 4 : key[j] = MaskByte(j)
  <2>1. \A j \in 1 .. 4 : MaskByte(j) \in Item
    BY DEF MaskByte, Item
  <2>2. CASE f.masked
    <3>1. key = [j \in 1 .. 4 |-> MaskByte(j)]
      BY <2>2
    <3> HIDE DEF key
    <3> QED BY <2>1, <2>2, <3>1 DEF MaskLen
  <2>3. CASE ~f.masked
    BY <2>3 DEF MaskLen
  <2> QED BY <1>1, <2>2, <2>3
<1> HIDE DEF key
<1>9. /\ data \in Seq(Item) /\ Len(data) = f.len
      /\ \A i \in 1 .. f.len :
           data[i] = [DataByte(i) EXCEPT
                        !.mask = IF f.masked THEN ((i - 1) % 4) + 1 ELSE 0]
  <2>1. ASSUME NEW i \in 1 .. f.len, NEW m \in Int
        PROVE  [DataByte(i) EXCEPT !.mask = m] \in Item
    BY <1>1 DEF DataByte, Item
  <2>2. \A i \in 1 .. f.len :
          (IF f.masked THEN ((i - 1) % 4) + 1 ELSE 0) \in Int
    BY <1>1
  <2>3. \A i \in 1 .. f.len :
          [DataByte(i) EXCEPT
             !.mask = IF f.masked THEN ((i - 1) % 4) + 1 ELSE 0] \in Item
    BY <2>1, <2>2, Zenon
  <2>4. \A i \in 1 .. f.len : data[i] \in Item
    BY <2>3, Zenon
  <2>5. data = [i \in 1 .. f.len |-> data[i]]
    BY Zenon
  <2>6. \A i \in 1 .. f.len :
           data[i] = [DataByte(i) EXCEPT
                        !.mask = IF f.masked THEN ((i - 1) % 4) + 1 ELSE 0]
    BY Zenon
  <2> HIDE DEF data
  <2>7. data \in Seq(Item) /\ Len(data) = f.len
    <3>1. data \in [1 .. f.len -> Item]
      BY <2>4, <2>5, Zenon
    <3>2. \A n \in Nat : \A x \in [1 .. n -> Item] :
            x \in Seq(Item) /\ Len(x) = n
      OBVIOUS
    <3> QED BY <1>1, <3>1, <3>2, Zenon
  <2> QED BY <2>6, <2>7, Zenon
<1> HIDE DEF data
<1> DEFINE e == first \o numbers \o key \o data
<1>0. e \in Seq(Item) /\ FourParts(first, numbers, key, data, e)
  BY <1>6, <1>7, <1>8, <1>9, JoinFour
<1> HIDE DEF e
<1>10. /\ e \in Seq(Item)
       /\ Len(e) = Len(first) + Len(numbers) + Len(key) + Len(data)
       /\ \A i \in 1 .. Len(numbers) : e[Len(first) + i] = numbers[i]
       /\ \A i \in 1 .. Len(key) : e[Len(first) + Len(numbers) + i] = key[i]
       /\ \A i \in 1 .. Len(data) :
            e[Len(first) + Len(numbers) + Len(key) + i] = data[i]
  BY <1>0, Zenon DEF FourParts
<1>11. /\ MaskLen(f) \in Nat /\ f.masked => MaskLen(f) = 4
       /\ HeaderLen(f) = 1 + Len(field) + MaskLen(f) /\ Len(field) \in Nat
  BY <1>1, <1>4 DEF MaskLen, HeaderLen, field
<1>12. Len(e) = HeaderLen(f) + f.len
  BY <1>6, <1>7, <1>8, <1>9, <1>10, <1>11
<1>13. ASSUME NEW i \in 1 .. Len(field)
       PROVE  e[1 + i].v = head[i]
  BY <1>6, <1>7, <1>10
<1>14. e[2].v = field[1] + IF f.masked THEN Half ELSE 0
  <2>1. 1 \in 1 .. Len(field)
    BY <1>4
  <2>2. e[1 + 1].v = head[1]
    BY <1>13, <2>1
  <2> QED BY <1>5, <2>2
<1>15. \A i \in 2 .. Len(field) : e[1 + i].v = field[i]
  <2>1. \A i \in 2 .. Len(field) : i \in 1 .. Len(field)
    BY <1>4
  <2> QED BY <1>5, <1>13, <2>1, Zenon
<1>16. ASSUME f.masked, NEW j \in 1 .. 4
       PROVE  e[HeaderLen(f) - 4 + j] = MaskByte(j)
  <2>1. Len(key) = 4 /\ HeaderLen(f) - 4 + j = Len(first) + Len(numbers) + j
    BY <1>6, <1>7, <1>8, <1>11, <1>16
  <2> QED BY <1>8, <1>10, <1>16, <2>1
<1>17. ASSUME NEW i \in 1 .. f.len
       PROVE  e[HeaderLen(f) + i] = data[i]
  <2>1. HeaderLen(f) + i = Len(first) + Len(numbers) + Len(key) + i
    BY <1>6, <1>7, <1>8, <1>11
  <2> QED BY <1>9, <1>10, <2>1
<1>18. Encoded(f) = e
  BY <1>3 DEF e
<1>19. /\ \A i \in 2 .. Len(LengthField(f.len)) :
            e[1 + i].v = LengthField(f.len)[i]
       /\ e[2].v = LengthField(f.len)[1] + IF f.masked THEN Half ELSE 0
  BY <1>14, <1>15 DEF field
<1> QED BY <1>9, <1>10, <1>12, <1>16, <1>17, <1>18, <1>19, Zenon DEF Encodes

-----------------------------------------------------------------------------
(* What Layout and Content make of the first bytes of a frame.             *)

\* As far as b goes, it begins with e.
Agrees(b, e) == \A j \in 1 .. Len(b) : j <= Len(e) => b[j] = e[j]

\* The first length byte and the bit of the mask, as soon as they are there.
LEMMA SecondByte ==
  ASSUME NEW f \in FrameType, NEW e, Encodes(f, e),
         NEW b \in Seq(Item), Agrees(b, e), Len(b) >= 2
  PROVE  /\ b[2].v % Half = LengthField(f.len)[1]
         /\ (IF b[2].v >= Half THEN 4 ELSE 0) = MaskLen(f)
<1> DEFINE x == LengthField(f.len)[1]
<1>1. f.len \in PayloadLens /\ f.masked \in BOOLEAN
  BY DEF FrameType
<1>2. FieldSays(f.len, LengthField(f.len))
  BY <1>1, FieldIs
<1>3. /\ x \in 0 .. Half - 1 /\ Half \in Nat \ {0}
      /\ Len(LengthField(f.len)) \in {1, 3, 9}
  BY <1>2, FrameAssumption DEF FieldSays
<1>4. Len(e) >= 2
  <2>1. f.len \in Nat
    BY <1>1, LenBelow
  <2>2. Len(e) = HeaderLen(f) + f.len
    BY DEF Encodes
  <2>3. MaskLen(f) \in Nat
    BY <1>1 DEF MaskLen
  <2> QED BY <1>3, <2>1, <2>2, <2>3 DEF HeaderLen
<1>5. b[2] = e[2]
  <2>1. Len(b) \in Nat
    OBVIOUS
  <2>2. 2 \in 1 .. Len(b)
    BY <2>1
  <2> QED BY <1>4, <2>2 DEF Agrees
<1>6. b[2].v = x + IF f.masked THEN Half ELSE 0
  BY <1>5 DEF Encodes
<1> HIDE DEF x
<1>7. CASE f.masked
  <2>1. b[2].v = x + Half
    BY <1>6, <1>7
  <2>2. (x + Half) % Half = x /\ x + Half >= Half
    BY <1>3
  <2> QED BY <1>7, <2>1, <2>2 DEF MaskLen, x
<1>8. CASE ~f.masked
  <2>1. b[2].v = x
    BY <1>3, <1>6, <1>8
  <2>2. x % Half = x /\ ~(x >= Half)
    BY <1>3
  <2> QED BY <1>8, <2>1, <2>2 DEF MaskLen, x
<1> QED BY <1>1, <1>7, <1>8

\* Once the header is there, Layout is right.
LEMMA LayoutKnown ==
  ASSUME NEW f \in FrameType, NEW e, Encodes(f, e),
         NEW b \in Seq(Item), Agrees(b, e), Len(b) >= HeaderLen(f)
  PROVE  Layout(b) = Frame(HeaderLen(f), f.len, MaskLen(f))
<1> DEFINE s == LengthField(f.len)
           x == b[2].v % Half
           m == IF b[2].v >= Half THEN 4 ELSE 0
           n == Len(b)
<1>1. f.len \in PayloadLens /\ f.len \in Nat /\ f.masked \in BOOLEAN
  <2>1. f.len \in PayloadLens /\ f.masked \in BOOLEAN
    BY DEF FrameType
  <2> QED BY <2>1, LenBelow
<1>2. FieldSays(f.len, s)
  BY <1>1, FieldIs
<1>3. MaskLen(f) \in {0, 4}
  BY DEF MaskLen
<1>4. HeaderLen(f) = 1 + Len(s) + MaskLen(f)
  BY DEF HeaderLen
<1>5. \A i \in 2 .. Len(s) : e[1 + i].v = s[i]
  BY DEF Encodes
<1>6. Len(e) = HeaderLen(f) + f.len
  BY DEF Encodes
<1> HIDE DEF s
<1>7. /\ n \in Nat /\ n >= 1 + Len(s) + MaskLen(f)
      /\ Len(s) \in Nat /\ Len(s) \in {1, 3, 9} /\ Len(s) >= 1
  BY <1>2, <1>4 DEF FieldSays
<1>8. n >= 2
  BY <1>3, <1>7
<1>9. x = s[1] /\ m = MaskLen(f)
  BY <1>8, SecondByte DEF s
<1>10. \A i \in 2 .. Len(s) : b[1 + i].v = s[i]
  <2> TAKE i \in 2 .. Len(s)
  <2>1. 1 + i \in 1 .. Len(b) /\ 1 + i <= Len(e)
    BY <1>1, <1>3, <1>4, <1>6, <1>7
  <2>2. b[1 + i] = e[1 + i]
    BY <2>1, Zenon DEF Agrees
  <2> QED BY <1>5, <2>2
<1>11. In64Bits = In16Bits + 1 /\ In16Bits \in Nat
  BY ByteIs
<1>12. Layout(b) =
         IF n < 2 THEN Frame(0, 0, 0)
         ELSE IF x < In16Bits /\ n >= m THEN Frame(2 + m, x, m)
         ELSE IF x = In16Bits /\ n >= 4 + m
         THEN Frame(4 + m, b[3].v * Byte + b[4].v, m)
         ELSE IF n >= 10 + m
         THEN Frame(10 + m,
                ((b[7].v * Byte + b[8].v) * Byte + b[9].v) * Byte + b[10].v, m)
         ELSE Frame(0, 0, m)
  BY Zenon DEF Layout
<1> HIDE DEF x, m, n
<1>13. CASE Len(s) = 1 /\ s[1] < In16Bits /\ f.len = s[1]
  <2>1. ~(n < 2) /\ x < In16Bits /\ n >= m /\ HeaderLen(f) = 2 + m /\ x = f.len
    BY <1>3, <1>4, <1>7, <1>9, <1>13
  <2> QED BY <1>9, <1>12, <2>1, Zenon
<1>14. CASE /\ Len(s) = 3 /\ s[1] = In16Bits
            /\ f.len = s[2] * Byte + s[3]
  <2>1. /\ ~(n < 2) /\ ~(x < In16Bits) /\ x = In16Bits /\ n >= 4 + m
        /\ HeaderLen(f) = 4 + m
    BY <1>3, <1>4, <1>7, <1>9, <1>11, <1>14
  <2>2. b[3].v = s[2] /\ b[4].v = s[3]
    <3>1. b[1 + 2].v = s[2] /\ b[1 + 3].v = s[3]
      BY <1>10, <1>14
    <3> QED BY <3>1
  <2>3. f.len = b[3].v * Byte + b[4].v
    BY <1>14, <2>2, Zenon
  <2> QED BY <1>9, <1>12, <2>1, <2>3, Zenon
<1>15. CASE /\ Len(s) = 9 /\ s[1] = In64Bits
            /\ f.len = ((s[6] * Byte + s[7]) * Byte + s[8]) * Byte + s[9]
  <2>1. /\ ~(n < 2) /\ ~(x < In16Bits) /\ ~(x = In16Bits) /\ n >= 10 + m
        /\ HeaderLen(f) = 10 + m
    BY <1>3, <1>4, <1>7, <1>9, <1>11, <1>15
  <2>2. /\ b[7].v = s[6] /\ b[8].v = s[7] /\ b[9].v = s[8] /\ b[10].v = s[9]
    <3>1. /\ b[1 + 6].v = s[6] /\ b[1 + 7].v = s[7] /\ b[1 + 8].v = s[8]
          /\ b[1 + 9].v = s[9]
      BY <1>10, <1>15
    <3> QED BY <3>1
  <2>3. f.len = ((b[7].v * Byte + b[8].v) * Byte + b[9].v) * Byte + b[10].v
    BY <1>15, <2>2, Zenon
  <2> QED BY <1>9, <1>12, <2>1, <2>3, Zenon
<1> QED BY <1>2, <1>13, <1>14, <1>15 DEF FieldSays

\* As long as the header is not there, what is there is taken for no frame,
\* or for a part of the frame it is.
LEMMA LayoutShort ==
  ASSUME NEW f \in FrameType, NEW e, Encodes(f, e),
         NEW b \in Seq(Item), Agrees(b, e), Len(b) < HeaderLen(f)
  PROVE  FrameLen(Layout(b)) \in {0, HeaderLen(f) + f.len}
<1> DEFINE s == LengthField(f.len)
           x == b[2].v % Half
           m == IF b[2].v >= Half THEN 4 ELSE 0
           n == Len(b)
<1>1. f.len \in PayloadLens /\ f.len \in Nat /\ f.masked \in BOOLEAN
  <2>1. f.len \in PayloadLens /\ f.masked \in BOOLEAN
    BY DEF FrameType
  <2> QED BY <2>1, LenBelow
<1>2. FieldSays(f.len, s)
  BY <1>1, FieldIs
<1>3. MaskLen(f) \in {0, 4}
  BY DEF MaskLen
<1>4. HeaderLen(f) = 1 + Len(s) + MaskLen(f)
  BY DEF HeaderLen
<1> HIDE DEF s
<1>5. /\ n \in Nat /\ n < 1 + Len(s) + MaskLen(f)
      /\ Len(s) \in Nat /\ Len(s) \in {1, 3, 9} /\ Len(s) <= 9
  <2>1. Len(s) \in Nat /\ Len(s) \in {1, 3, 9} /\ Len(s) <= 9
    <3>1. Len(s) \in {1, 3, 9}
      BY <1>2 DEF FieldSays
    <3>2. \A k \in {1, 3, 9} : k \in Nat /\ k <= 9
      OBVIOUS
    <3> QED BY <3>1, <3>2, Zenon
  <2>2. n \in Nat /\ n < HeaderLen(f)
    OBVIOUS
  <2> QED BY <1>4, <2>1, <2>2
<1>6. n >= 2 => x = s[1] /\ m = MaskLen(f)
  BY SecondByte DEF s
<1>7. In64Bits = In16Bits + 1 /\ In16Bits \in Nat
  BY ByteIs
<1>8. \A h, d, k : FrameLen(Frame(h, d, k)) = h + d
  BY DEF FrameLen, Frame
<1>9. Layout(b) =
         IF n < 2 THEN Frame(0, 0, 0)
         ELSE IF x < In16Bits /\ n >= m THEN Frame(2 + m, x, m)
         ELSE IF x = In16Bits /\ n >= 4 + m
         THEN Frame(4 + m, b[3].v * Byte + b[4].v, m)
         ELSE IF n >= 10 + m
         THEN Frame(10 + m,
                ((b[7].v * Byte + b[8].v) * Byte + b[9].v) * Byte + b[10].v, m)
         ELSE Frame(0, 0, m)
  BY Zenon DEF Layout
<1> HIDE DEF x, m, n
<1>10. CASE n < 2
  <2>1. Layout(b) = Frame(0, 0, 0)
    BY <1>9, <1>10, Zenon
  <2> QED BY <1>8, <2>1
<1>11. CASE ~(n < 2) /\ x < In16Bits /\ n >= m
  <2>1. Layout(b) = Frame(2 + m, x, m)
    BY <1>9, <1>11, Zenon
  <2>2. x = s[1] /\ m = MaskLen(f)
    BY <1>5, <1>6, <1>11
  <2>3. s[1] = f.len /\ Len(s) = 1
    BY <1>2, <1>7, <1>11, <2>2 DEF FieldSays
  <2>4. FrameLen(Layout(b)) = (2 + m) + x
    BY <1>8, <2>1, Zenon
  <2>5. (2 + m) + x = HeaderLen(f) + f.len
    BY <1>1, <1>3, <1>4, <2>2, <2>3
  <2> QED BY <2>4, <2>5
<1>12. CASE ~(n < 2) /\ ~(x < In16Bits /\ n >= m)
  <2>1. x = s[1] /\ m = MaskLen(f)
    BY <1>5, <1>6, <1>12
  <2>2. ~(x = In16Bits /\ n >= 4 + m)
    <3> SUFFICES ASSUME s[1] = In16Bits PROVE ~(n >= 4 + m)
      BY <2>1
    <3>1. Len(s) = 3
      BY <1>2, <1>7 DEF FieldSays
    <3> QED BY <1>3, <1>5, <2>1, <3>1
  <2>3. ~(n >= 10 + m)
    BY <1>3, <1>5, <2>1
  <2>4. Layout(b) = Frame(0, 0, m)
    BY <1>9, <1>12, <2>2, <2>3, Zenon
  <2> QED BY <1>8, <2>4
<1> QED BY <1>10, <1>11, <1>12

\* The payload with the mask taken off is the payload.
LEMMA ContentIs ==
  ASSUME NEW f \in FrameType, NEW e, Encodes(f, e),
         NEW b \in Seq(Item), Agrees(b, e), Len(b) >= Len(e)
  PROVE  LET content == Content(b, Frame(HeaderLen(f), f.len, MaskLen(f)))
         IN  \A i \in DOMAIN content : content[i] = DataByte(i)
<1> DEFINE frame == Frame(HeaderLen(f), f.len, MaskLen(f))
           content == Content(b, frame)
           h == HeaderLen(f)
<1>1. f.len \in Nat /\ f.masked \in BOOLEAN
  <2>1. f.len \in PayloadLens /\ f.masked \in BOOLEAN
    BY DEF FrameType
  <2> QED BY <2>1, LenBelow
<1>2. frame.header = h /\ frame.data = f.len /\ frame.mask = MaskLen(f)
  BY DEF Frame
<1>3. Len(e) = h + f.len /\ Len(b) \in Nat
  BY DEF Encodes
<1>4. h \in Nat /\ (f.masked => h >= 6)
  <2>1. FieldSays(f.len, LengthField(f.len))
    BY FieldIs DEF FrameType
  <2>2. Len(LengthField(f.len)) \in {1, 3, 9}
    BY <2>1 DEF FieldSays
  <2>3. MaskLen(f) \in {0, 4} /\ (f.masked => MaskLen(f) = 4)
    BY Zenon DEF MaskLen
  <2>4. h = 1 + Len(LengthField(f.len)) + MaskLen(f)
    BY Zenon DEF HeaderLen
  <2> HIDE DEF h
  <2>5. h \in Nat
    BY <2>2, <2>3, <2>4
  <2>6. MaskLen(f) = 4 => h >= 6
    <3>1. \A k \in {1, 3, 9} : 1 + k + 4 >= 6
      OBVIOUS
    <3> QED BY <2>2, <2>4, <3>1, Zenon
  <2> QED BY <2>3, <2>5, <2>6, Zenon
<1> HIDE DEF frame
<1>5. /\ DOMAIN content = 1 .. f.len
      /\ \A i \in 1 .. f.len :
           content[i] = IF frame.mask = 0 THEN b[h + i]
                        ELSE Unmasked(b[h + i],
                               b[h - frame.mask + ((i - 1) % 4) + 1])
  BY <1>2 DEF Content
<1> HIDE DEF content
<1>6. ASSUME NEW i \in 1 .. f.len
      PROVE  content[i] = DataByte(i)
  <2>1. h + i \in 1 .. Len(b) /\ h + i <= Len(e)
    BY <1>1, <1>3, <1>4
  <2>2. b[h + i] = e[h + i]
    BY <2>1, Zenon DEF Agrees
  <2>3. e[h + i] = [DataByte(i) EXCEPT
                      !.mask = IF f.masked THEN ((i - 1) % 4) + 1 ELSE 0]
    BY DEF Encodes
  <2>4. CASE ~f.masked
    <3>1. frame.mask = 0
      BY <1>2, <2>4 DEF MaskLen
    <3>2. content[i] = b[h + i]
      BY <1>5, <3>1, Zenon
    <3>3. e[h + i] = [DataByte(i) EXCEPT !.mask = 0]
      BY <2>3, <2>4, Zenon
    <3>4. [DataByte(i) EXCEPT !.mask = 0] = DataByte(i)
      BY DEF DataByte
    <3> QED BY <2>2, <3>2, <3>3, <3>4, Zenon
  <2>5. CASE f.masked
    <3> DEFINE j == ((i - 1) % 4) + 1
    <3>1. j \in 1 .. 4
      BY <1>1
    <3>2. frame.mask = 4 /\ frame.mask # 0
      BY <1>2, <2>5 DEF MaskLen
    <3>3. h - frame.mask + ((i - 1) % 4) + 1 = h - 4 + j
      BY <1>1, <1>4, <3>2
    <3>4. e[h + i] = [DataByte(i) EXCEPT !.mask = j]
      BY <2>3, <2>5, Zenon
    <3> HIDE DEF j
    <3>5. h - 4 + j \in 1 .. Len(b) /\ h - 4 + j <= Len(e)
      BY <1>1, <1>3, <1>4, <2>5, <3>1, SMTT(30)
    <3>6. b[h - 4 + j] = e[h - 4 + j]
      BY <3>5, Zenon DEF Agrees
    <3>7. e[h - 4 + j] = MaskByte(j)
      BY <2>5, <3>1, Zenon DEF Encodes
    <3>8. content[i] = Unmasked([DataByte(i) EXCEPT !.mask = j], MaskByte(j))
      BY <1>5, <2>2, <3>2, <3>3, <3>4, <3>6, <3>7, Zenon
    <3>9. Unmasked([DataByte(i) EXCEPT !.mask = j], MaskByte(j)) = DataByte(i)
      <4> DEFINE x == [DataByte(i) EXCEPT !.mask = j]
      <4>1. x.mask = j /\ MaskByte(j).k = "mask" /\ MaskByte(j).v = j
        BY DEF DataByte, MaskByte
      <4>2. [x EXCEPT !.mask = 0] = DataByte(i)
        <5>1. x = [k |-> "data", v |-> i, mask |-> j]
          BY DEF DataByte
        <5> HIDE DEF x
        <5> QED BY <5>1 DEF DataByte
      <4> HIDE DEF x
      <4>3. Unmasked(x, MaskByte(j)) = [x EXCEPT !.mask = 0]
        BY <4>1, Zenon DEF Unmasked
      <4> QED BY <4>2, <4>3 DEF x
    <3> QED BY <3>8, <3>9, Zenon
  <2> QED BY <1>1, <2>4, <2>5
<1> QED BY <1>5, <1>6, Zenon DEF content, frame

-----------------------------------------------------------------------------
(* The frames one after the other.                                         *)

WireSteps ==
  /\ Wire(0) = <<>>
  /\ \A i \in 0 .. MaxFrames : Wire(i) \in Seq(Item)
  /\ \A i \in 1 .. MaxFrames : Wire(i) = Wire(i - 1) \o Encoded(frames[i])

LEMMA WireIs ==
  ASSUME frames \in [1 .. MaxFrames -> FrameType]
  PROVE  WireSteps
<1> DEFINE S == Seq(Item)
           m == MaxFrames
           Up(n, f) == f = [i \in 0 .. n |->
                              IF i = 0 THEN <<>>
                              ELSE f[i - 1] \o Encoded(frames[i])]
           step == [i \in 1 .. m |-> [s \in S |-> s \o Encoded(frames[i])]]
<1>1. m \in Nat
  BY FrameAssumption
<1>2. \A i \in 1 .. m : Encoded(frames[i]) \in S
  BY EncodedIs DEF Encodes
<1>3. step \in [1 .. m -> [S -> S]] /\ <<>> \in S
  <2>1. \A i \in 1 .. m : \A s \in S : s \o Encoded(frames[i]) \in S
    BY <1>2, Join, Zenon
  <2> QED BY <2>1
<1>4. PICK t \in [0 .. m -> S] :
        t[0] = <<>> /\ \A i \in 1 .. m : t[i] = step[i][t[i - 1]]
  <2> HIDE DEF m, step, S
  <2>1. Recurses(S, m, <<>>, step)
    BY <1>1, <1>3, Recursion
  <2> QED BY <2>1 DEF Recurses
<1>5. \A i \in 1 .. m :
        i - 1 \in 0 .. m /\ t[i] = t[i - 1] \o Encoded(frames[i])
  <2> TAKE i \in 1 .. m
  <2>1. i - 1 \in 0 .. m
    BY <1>1
  <2>2. t[i - 1] \in S /\ t[i] = step[i][t[i - 1]]
    BY <1>4, <2>1, Zenon
  <2> HIDE DEF S, m
  <2> QED BY <2>1, <2>2
<1> HIDE DEF step, S, m
<1>6. ASSUME NEW n \in 0 .. m
      PROVE  Wire(n) = t[n]
  <2> DEFINE f == [i \in 0 .. n |-> t[i]]
  <2>1. /\ n \in Nat
        /\ \A i \in 1 .. n : i \in 0 .. n /\ i - 1 \in 0 .. n /\ i \in 1 .. m
    BY <1>1
  <2>2. Up(n, f)
    <3>1. ASSUME NEW i \in 0 .. n
          PROVE  f[i] = IF i = 0 THEN <<>> ELSE f[i - 1] \o Encoded(frames[i])
      <4>1. CASE i = 0
        BY <1>4, <4>1
      <4>2. CASE i # 0
        <5>1. i \in 1 .. n
          BY <4>2
        <5> QED BY <1>5, <2>1, <4>2, <5>1
      <4> QED BY <4>1, <4>2
    <3>2. f = [i \in 0 .. n |-> f[i]]
      OBVIOUS
    <3> HIDE DEF f
    <3> QED BY <3>1, <3>2, Zenon
  <2>3. PICK g : Up(n, g) /\ Wire(n) = g[n]
    BY <2>2 DEF Wire
  <2>4. g[0] = <<>> /\ \A i \in 1 .. n : g[i] = g[i - 1] \o Encoded(frames[i])
    <3>1. \A i \in 1 .. n : i # 0
      OBVIOUS
    <3>2. 0 \in 0 .. n
      BY <2>1
    <3> QED BY <2>1, <2>3, <3>1, <3>2, Zenon
  <2> DEFINE T == {i \in 0 .. n : g[i] # t[i]}
  <2> SUFFICES ASSUME T # {} PROVE FALSE
    <3>1. n \in 0 .. n
      BY <2>1
    <3>2. n \notin T => g[n] = t[n]
      BY <3>1
    <3> HIDE DEF T
    <3> QED BY <2>3, <3>2, Zenon
  <2>5. T \in SUBSET Nat
    BY <2>1
  <2>6. PICK x \in T : \A y \in T : x <= y
    <3> HIDE DEF T
    <3> QED BY <2>5, LeastNumber
  <2>7. x \in 0 .. n /\ g[x] # t[x]
    OBVIOUS
  <2>8. x # 0
    BY <1>4, <2>4, <2>7
  <2>9. x \in 1 .. n /\ x - 1 \in 0 .. n /\ x - 1 \notin T
    BY <2>1, <2>6, <2>7, <2>8
  <2>10. g[x - 1] = t[x - 1]
    BY <2>9
  <2> QED BY <1>5, <2>1, <2>4, <2>7, <2>9, <2>10, Zenon
<1>7. Wire(0) = <<>>
  <2>1. 0 \in 0 .. m
    BY <1>1
  <2> QED BY <1>4, <1>6, <2>1, Zenon
<1>8. \A i \in 0 .. m : Wire(i) \in S
  BY <1>4, <1>6
<1>9. \A i \in 1 .. m : Wire(i) = Wire(i - 1) \o Encoded(frames[i])
  <2>1. \A i \in 1 .. m : i \in 0 .. m
    BY <1>1
  <2> QED BY <1>5, <1>6, <2>1, Zenon
<1> QED BY <1>7, <1>8, <1>9, Zenon DEF WireSteps, S, m

\* What is sent later changes nothing before it.
LEMMA WirePrefix ==
  ASSUME frames \in [1 .. MaxFrames -> FrameType],
         NEW n \in 0 .. MaxFrames, NEW m \in n .. MaxFrames
  PROVE  /\ Len(Wire(n)) <= Len(Wire(m))
         /\ \A j \in 1 .. Len(Wire(n)) : Wire(m)[j] = Wire(n)[j]
<1> DEFINE Good(i) == /\ Len(Wire(n)) <= Len(Wire(i))
                      /\ \A j \in 1 .. Len(Wire(n)) : Wire(i)[j] = Wire(n)[j]
           T == {i \in n .. MaxFrames : ~Good(i)}
<1>0. MaxFrames \in Nat /\ n \in Nat
  BY FrameAssumption
<1>1. WireSteps
  BY WireIs
<1>2. ASSUME NEW i \in n + 1 .. MaxFrames, Good(i - 1)
      PROVE  Good(i)
  <2> DEFINE s == Wire(i - 1)
             e == Encoded(frames[i])
             a == Wire(n)
  <2>1. /\ i \in 1 .. MaxFrames /\ i - 1 \in 0 .. MaxFrames
    BY <1>0
  <2>2. s \in Seq(Item) /\ a \in Seq(Item) /\ Wire(i) = s \o e
    BY <1>1, <2>1, Zenon DEF WireSteps
  <2>3. e \in Seq(Item)
    BY <2>1, EncodedIs DEF Encodes
  <2>4. Len(a) <= Len(s) /\ \A j \in 1 .. Len(a) : s[j] = a[j]
    BY <1>2, Zenon
  <2> HIDE DEF s, e, a
  <2>5. TwoParts(s, e, Wire(i))
    BY <2>2, <2>3, Join
  <2>6. Len(a) \in Nat /\ Len(s) \in Nat /\ Len(e) \in Nat
    BY <2>2, <2>3
  <2>7. /\ Len(Wire(i)) = Len(s) + Len(e)
        /\ \A j \in 1 .. Len(s) : Wire(i)[j] = s[j]
    BY <2>5, Zenon DEF TwoParts
  <2>8. Len(a) <= Len(Wire(i)) /\ \A j \in 1 .. Len(a) : j \in 1 .. Len(s)
    BY <2>4, <2>6, <2>7
  <2>9. \A j \in 1 .. Len(a) : Wire(i)[j] = a[j]
    BY <2>4, <2>7, <2>8, Zenon
  <2> QED BY <2>8, <2>9, Zenon DEF a
<1>3. Good(n)
  <2>1. Wire(n) \in Seq(Item)
    BY <1>1, Zenon DEF WireSteps
  <2>2. Len(Wire(n)) \in Nat
    BY <2>1
  <2> QED BY <2>2
<1> HIDE DEF Good
<1> SUFFICES ASSUME ~Good(m) PROVE FALSE
  BY Zenon DEF Good
<1>4. T \in SUBSET Nat /\ T # {}
  BY <1>0
<1>5. PICK x \in T : \A y \in T : x <= y
  <2> HIDE DEF T
  <2> QED BY <1>4, LeastNumber
<1>6. x \in n .. MaxFrames /\ ~Good(x)
  OBVIOUS
<1>7. x # n
  BY <1>3, <1>6
<1>8. x \in n + 1 .. MaxFrames /\ x - 1 \in n .. MaxFrames
  BY <1>0, <1>6, <1>7
<1>9. x - 1 \notin T
  BY <1>0, <1>5, <1>8
<1> QED BY <1>2, <1>6, <1>8, <1>9

\* Behind the first n frames lies the next one.
LEMMA NextFrame ==
  ASSUME frames \in [1 .. MaxFrames -> FrameType], NEW n \in 0 .. MaxFrames - 1
  PROVE  LET e == Encoded(frames[n + 1])
             w == Wire(MaxFrames)
         IN  /\ Len(Wire(n + 1)) = Len(Wire(n)) + Len(e)
             /\ Len(Wire(n)) + Len(e) <= Len(w)
             /\ \A j \in 1 .. Len(e) : w[Len(Wire(n)) + j] = e[j]
<1> DEFINE e == Encoded(frames[n + 1])
           w == Wire(MaxFrames)
           a == Wire(n)
           b == Wire(n + 1)
<1>1. /\ MaxFrames \in Nat /\ n \in 0 .. MaxFrames /\ n + 1 \in 1 .. MaxFrames
      /\ n + 1 \in 0 .. MaxFrames /\ MaxFrames \in n + 1 .. MaxFrames
      /\ (n + 1) - 1 = n
  BY FrameAssumption
<1>2. WireSteps
  BY WireIs
<1>3. a \in Seq(Item) /\ b = a \o e
  <2>1. Wire(n + 1) = Wire((n + 1) - 1) \o Encoded(frames[n + 1])
    BY <1>1, <1>2, Zenon DEF WireSteps
  <2>2. a \in Seq(Item)
    BY <1>1, <1>2, Zenon DEF WireSteps
  <2> QED BY <1>1, <2>1, <2>2
<1>4. e \in Seq(Item)
  BY <1>1, EncodedIs DEF Encodes
<1>5. Len(b) <= Len(w) /\ \A j \in 1 .. Len(b) : w[j] = b[j]
  BY <1>1, WirePrefix, Zenon
<1> HIDE DEF a, b, w, e
<1>6. TwoParts(a, e, b)
  BY <1>3, <1>4, Join
<1>7. Len(a) \in Nat /\ Len(e) \in Nat
  BY <1>3, <1>4
<1>8. Len(b) = Len(a) + Len(e) /\ \A j \in 1 .. Len(e) : b[Len(a) + j] = e[j]
  BY <1>6, Zenon DEF TwoParts
<1>9. \A j \in 1 .. Len(e) : Len(a) + j \in 1 .. Len(b)
  BY <1>7, <1>8
<1>10. \A j \in 1 .. Len(e) : w[Len(a) + j] = e[j]
  BY <1>5, <1>8, <1>9, Zenon
<1>11. Len(a) + Len(e) <= Len(w)
  BY <1>5, <1>8, Zenon
<1> QED BY <1>8, <1>10, <1>11, Zenon DEF a, b, w, e

-----------------------------------------------------------------------------
(* The invariant of the frames.                                            *)

\* The frames delivered are the first of those sent, whole and unmasked, and
\* their bytes are the ones removed.
DeliveredInv ==
  LET n == Len(delivered) IN
  /\ n <= MaxFrames /\ taken = Len(Wire(n))
  /\ \A k \in 1 .. n : delivered[k] = [len |-> frames[k].len, intact |-> TRUE]

FrameInv ==
  /\ frames \in [1 .. MaxFrames -> FrameType]
  /\ arrived \in Nat /\ arrived <= Len(Wire(MaxFrames))
  /\ taken \in Nat /\ taken <= arrived
  /\ delivered \in Seq([len : Nat, intact : BOOLEAN])
  /\ DeliveredInv

Expected == frames[Len(delivered) + 1]

\* What is buffered is what has come of the next frame, and perhaps more.
LEMMA BufferIs ==
  ASSUME FrameInv
  PROVE  /\ Len(delivered) \in 0 .. MaxFrames
         /\ Buffer \in Seq(Item) /\ Len(Buffer) = arrived - taken
         /\ Len(delivered) = MaxFrames => Len(Buffer) = 0
         /\ Len(delivered) < MaxFrames => Agrees(Buffer, Encoded(Expected))
<1> DEFINE n == Len(delivered)
           w == Wire(MaxFrames)
           e == Encoded(Expected)
<1>1. /\ MaxFrames \in Nat /\ n \in Nat /\ n <= MaxFrames
      /\ taken = Len(Wire(n)) /\ taken \in Nat /\ taken <= arrived
      /\ arrived \in Nat /\ arrived <= Len(w)
  BY FrameAssumption DEF FrameInv, DeliveredInv
<1>2. frames \in [1 .. MaxFrames -> FrameType]
  BY DEF FrameInv
<1>3. w \in Seq(Item)
  <2>1. MaxFrames \in 0 .. MaxFrames
    BY <1>1
  <2> QED BY <1>2, <2>1, WireIs, Zenon DEF WireSteps
<1>4. ASSUME n < MaxFrames
      PROVE  \A j \in 1 .. Len(e) : w[taken + j] = e[j]
  <2>1. n \in 0 .. MaxFrames - 1
    BY <1>1, <1>4
  <2> QED BY <1>1, <1>2, <2>1, NextFrame, Zenon DEF Expected
<1>5. n < MaxFrames => e \in Seq(Item)
  <2> SUFFICES ASSUME n < MaxFrames PROVE e \in Seq(Item)
    OBVIOUS
  <2>1. n + 1 \in 1 .. MaxFrames
    BY <1>1
  <2> QED BY <1>2, <2>1, EncodedIs DEF Encodes, Expected
<1> HIDE DEF w
<1>6. /\ Buffer \in Seq(Item) /\ Len(Buffer) = arrived - taken
      /\ \A j \in 1 .. arrived - taken : Buffer[j] = w[taken + j]
  <2>1. Buffer = SubSeq(w, taken + 1, arrived)
    BY DEF Buffer, w
  <2> QED BY <1>1, <1>3, <2>1
<1>7. n = MaxFrames => Len(Buffer) = 0
  BY <1>1, <1>6 DEF w
<1>8. n < MaxFrames => Agrees(Buffer, e)
  <2> SUFFICES ASSUME n < MaxFrames PROVE Agrees(Buffer, e)
    OBVIOUS
  <2>1. e \in Seq(Item) /\ \A j \in 1 .. Len(e) : w[taken + j] = e[j]
    BY <1>4, <1>5
  <2> HIDE DEF e
  <2>2. Len(e) \in Nat
    BY <2>1
  <2>3. \A j \in 1 .. Len(Buffer) : j <= Len(e) => j \in 1 .. Len(e)
    BY <1>6, <2>2
  <2> QED BY <1>6, <2>1, <2>3, Zenon DEF Agrees
<1>9. n \in 0 .. MaxFrames
  BY <1>1
<1> QED BY <1>6, <1>7, <1>8, <1>9, Zenon

\* A frame is taken out exactly when it is whole.
LEMMA BufferedIs ==
  ASSUME FrameInv
  PROVE  IF Len(delivered) < MaxFrames /\ Len(Buffer) >= Len(Encoded(Expected))
         THEN /\ Buffered
              /\ Layout(Buffer) =
                   Frame(HeaderLen(Expected), Expected.len, MaskLen(Expected))
         ELSE ~Buffered
<1> DEFINE n == Len(delivered)
           e == Encoded(Expected)
           f == Expected
           b == Buffer
<1>1. /\ n \in 0 .. MaxFrames /\ b \in Seq(Item) /\ MaxFrames \in Nat
      /\ n = MaxFrames => Len(b) = 0
      /\ n < MaxFrames => Agrees(b, e)
  BY BufferIs, FrameAssumption
<1>2. n = MaxFrames \/ n < MaxFrames
  BY <1>1
<1>3. CASE n = MaxFrames
  <2>1. ~(n < MaxFrames) /\ Len(b) = 0
    BY <1>1, <1>3
  <2>2. ~Buffered
    BY <2>1 DEF Buffered
  <2> QED BY <2>1, <2>2
<1>4. CASE n < MaxFrames
  <2>1. f \in FrameType
    <3>1. n + 1 \in 1 .. MaxFrames
      BY <1>1, <1>4
    <3> QED BY <3>1 DEF FrameInv, Expected
  <2>2. Encodes(f, e)
    BY <2>1, EncodedIs
  <2>3. Agrees(b, e)
    BY <1>1, <1>4
  <2>4. f.len \in Nat
    <3>1. f.len \in PayloadLens
      BY <2>1 DEF FrameType
    <3> QED BY <3>1, LenBelow
  <2>5. Len(e) = HeaderLen(f) + f.len /\ e \in Seq(Item)
    BY <2>2, Zenon DEF Encodes
  <2>6. Buffered <=> FrameLen(Layout(b)) \in 1 .. Len(b)
    BY DEF Buffered
  <2>7. HeaderLen(f) \in Nat /\ HeaderLen(f) >= 2
    <3>1. FieldSays(f.len, LengthField(f.len))
      BY <2>1, FieldIs DEF FrameType
    <3>2. Len(LengthField(f.len)) \in {1, 3, 9}
      BY <3>1 DEF FieldSays
    <3>3. MaskLen(f) \in {0, 4}
      BY DEF MaskLen
    <3>4. \A k \in {1, 3, 9} : \A m \in {0, 4} :
            1 + k + m \in Nat /\ 1 + k + m >= 2
      OBVIOUS
    <3> QED BY <3>2, <3>3, <3>4, Zenon DEF HeaderLen
  <2>8. Len(b) \in Nat /\ Len(e) \in Nat
    BY <1>1, <2>5
  <2> HIDE DEF e, f, b
  <2>9. ASSUME Len(b) >= HeaderLen(f)
        PROVE  /\ Layout(b) = Frame(HeaderLen(f), f.len, MaskLen(f))
               /\ FrameLen(Layout(b)) = Len(e)
    <3>1. Layout(b) = Frame(HeaderLen(f), f.len, MaskLen(f))
      BY <1>1, <2>1, <2>2, <2>3, <2>9, LayoutKnown, Zenon
    <3>2. FrameLen(Frame(HeaderLen(f), f.len, MaskLen(f))) =
            HeaderLen(f) + f.len
      BY DEF FrameLen, Frame
    <3> QED BY <2>5, <3>1, <3>2, Zenon
  <2>10. CASE Len(b) >= Len(e)
    <3>1. Len(b) >= HeaderLen(f) /\ Len(e) \in 1 .. Len(b)
      BY <2>4, <2>5, <2>7, <2>8, <2>10
    <3> QED BY <1>4, <2>6, <2>9, <2>10, <3>1, Zenon DEF b, e, f
  <2>11. CASE ~(Len(b) >= Len(e))
    <3>1. FrameLen(Layout(b)) \in {0, Len(e)}
      <4>1. CASE Len(b) >= HeaderLen(f)
        BY <2>9, <4>1
      <4>2. CASE ~(Len(b) >= HeaderLen(f))
        <5>1. Len(b) < HeaderLen(f)
          BY <2>7, <2>8, <4>2
        <5> QED BY <1>1, <2>1, <2>2, <2>3, <2>5, <5>1, LayoutShort, Zenon
      <4> QED BY <4>1, <4>2
    <3>2. FrameLen(Layout(b)) \notin 1 .. Len(b)
      BY <2>8, <2>11, <3>1
    <3> QED BY <2>6, <2>11, <3>2, Zenon DEF b, e
  <2> QED BY <2>10, <2>11
<1> QED BY <1>2, <1>3, <1>4

LEMMA FrameInitInv == FrameInit => FrameInv
<1> SUFFICES ASSUME FrameInit PROVE FrameInv
  OBVIOUS
<1>1. /\ frames \in [1 .. MaxFrames -> FrameType] /\ arrived = 0 /\ taken = 0
      /\ delivered = <<>>
  BY DEF FrameInit, FrameType
<1>2. WireSteps /\ MaxFrames \in Nat
  BY <1>1, WireIs, FrameAssumption
<1>3. Wire(0) = <<>> /\ Wire(MaxFrames) \in Seq(Item)
  BY <1>2 DEF WireSteps
<1>4. Len(delivered) = 0 /\ delivered \in Seq([len : Nat, intact : BOOLEAN])
  BY <1>1
<1>5. Len(Wire(0)) = 0 /\ 0 <= Len(Wire(MaxFrames))
  BY <1>3
<1> QED BY <1>1, <1>2, <1>4, <1>5 DEF FrameInv, DeliveredInv

LEMMA WireStays == ASSUME frames' = frames, NEW n PROVE Wire(n)' = Wire(n)
  BY Zenon DEF Wire

LEMMA DeliverKeeps == ASSUME FrameInv, DeliverFrame PROVE FrameInv'
<1> DEFINE n == Len(delivered)
           e == Encoded(Expected)
           f == Expected
           frame == Frame(HeaderLen(f), f.len, MaskLen(f))
           content == Content(Buffer, Layout(Buffer))
           ok == \A i \in DOMAIN content : content[i] = DataByte(i)
           d == [len |-> f.len, intact |-> TRUE]
<1>1. /\ Buffered /\ frames' = frames /\ arrived' = arrived
      /\ taken' = taken + FrameLen(Layout(Buffer))
      /\ delivered' = Append(delivered,
                        [len |-> Layout(Buffer).data, intact |-> ok])
  BY Zenon DEF DeliverFrame
<1>2. n < MaxFrames /\ Len(Buffer) >= Len(e) /\ Layout(Buffer) = frame
  BY <1>1, BufferedIs
<1>3. /\ n \in 0 .. MaxFrames /\ MaxFrames \in Nat
      /\ Buffer \in Seq(Item) /\ Len(Buffer) = arrived - taken
      /\ Agrees(Buffer, e)
  BY <1>2, BufferIs, FrameAssumption
<1>4. n \in Nat /\ n + 1 \in 1 .. MaxFrames /\ n \in 0 .. MaxFrames - 1
  BY <1>2, <1>3
<1>5. f \in FrameType
  BY <1>4 DEF FrameInv, Expected
<1>6. Encodes(f, e)
  BY <1>5, EncodedIs
<1>7. Len(e) = HeaderLen(f) + f.len /\ e \in Seq(Item)
  BY <1>6, Zenon DEF Encodes
<1>8. f.len \in Nat
  <2>1. f.len \in PayloadLens
    BY <1>5 DEF FrameType
  <2> QED BY <2>1, LenBelow
<1>9. ok
  BY <1>2, <1>3, <1>5, <1>6, ContentIs, Zenon
<1>10. frame.data = f.len /\ FrameLen(frame) = Len(e)
  BY <1>7 DEF Frame, FrameLen
<1>11. [len |-> Layout(Buffer).data, intact |-> ok] = d
  <2>1. ok = TRUE
    BY <1>9
  <2>2. Layout(Buffer).data = f.len
    BY <1>2, <1>10, Zenon
  <2> HIDE DEF ok, f
  <2> QED BY <2>1, <2>2, Zenon DEF d
<1> HIDE DEF ok, content, frame
<1>12. delivered' = Append(delivered, d) /\ taken' = taken + Len(e)
  BY <1>1, <1>2, <1>10, <1>11, Zenon
<1>13. /\ delivered \in Seq([len : Nat, intact : BOOLEAN])
       /\ taken \in Nat /\ arrived \in Nat /\ taken = Len(Wire(n))
       /\ frames \in [1 .. MaxFrames -> FrameType]
       /\ arrived <= Len(Wire(MaxFrames))
       /\ \A k \in 1 .. n :
            delivered[k] = [len |-> frames[k].len, intact |-> TRUE]
  BY DEF FrameInv, DeliveredInv
<1>14. /\ delivered' \in Seq([len : Nat, intact : BOOLEAN])
       /\ Len(delivered') = n + 1 /\ delivered'[n + 1] = d
       /\ \A k \in 1 .. n : delivered'[k] = delivered[k]
  <2>1. d \in [len : Nat, intact : BOOLEAN]
    BY <1>8
  <2> HIDE DEF d
  <2> QED BY <1>12, <1>13, <2>1, AppendProperties
<1>15. Len(Wire(n + 1)) = Len(Wire(n)) + Len(e)
  BY <1>4, <1>13, NextFrame, Zenon DEF Expected
<1>16. /\ taken' = Len(Wire(n + 1)) /\ taken' \in Nat /\ taken' <= arrived
  <2>1. Len(e) \in Nat
    BY <1>7
  <2> HIDE DEF e
  <2> QED BY <1>2, <1>3, <1>12, <1>13, <1>15, <2>1
<1>17. ASSUME NEW k \in 1 .. n + 1
       PROVE  delivered'[k] = [len |-> frames[k].len, intact |-> TRUE]
  <2>1. k \in 1 .. n \/ k = n + 1
    BY <1>4
  <2>2. CASE k \in 1 .. n
    BY <1>13, <1>14, <2>2, Zenon
  <2>3. CASE k = n + 1
    BY <1>14, <2>3, Zenon DEF d, f, Expected
  <2> QED BY <2>1, <2>2, <2>3
<1>18. \A k : Wire(k)' = Wire(k)
  BY <1>1, WireStays
<1>19. taken' = Len(Wire(Len(delivered))')
  BY <1>14, <1>16, <1>18
<1>20. n + 1 <= MaxFrames
  BY <1>3, <1>4
<1>21. DeliveredInv'
  BY <1>1, <1>14, <1>17, <1>19, <1>20 DEF DeliveredInv
<1> QED BY <1>1, <1>13, <1>14, <1>16, <1>18, <1>21 DEF FrameInv

LEMMA ReceivePieceKeeps == ASSUME FrameInv, ReceivePiece PROVE FrameInv'
<1>1. /\ frames' = frames /\ taken' = taken /\ delivered' = delivered
      /\ arrived' <= Len(Wire(MaxFrames))
      /\ \E n \in PieceLens : arrived' = arrived + n
  BY DEF ReceivePiece
<1>2. arrived' \in Nat /\ arrived' >= arrived
  BY <1>1, FrameAssumption DEF FrameInv
<1>3. \A n : Wire(n)' = Wire(n)
  BY <1>1, WireStays
<1>4. DeliveredInv'
  BY <1>1, <1>3 DEF FrameInv, DeliveredInv
<1> QED BY <1>1, <1>2, <1>3, <1>4 DEF FrameInv

LEMMA FrameStepKeeps ==
  ASSUME FrameInv, [FrameNext]_frameVars
  PROVE  FrameInv'
<1>1. CASE UNCHANGED frameVars
  <2>1. /\ frames' = frames /\ taken' = taken /\ delivered' = delivered
        /\ arrived' = arrived
    BY <1>1 DEF frameVars
  <2>2. \A n : Wire(n)' = Wire(n)
    BY <2>1, WireStays
  <2> QED BY <2>1, <2>2 DEF FrameInv, DeliveredInv
<1> QED BY <1>1, DeliverKeeps, ReceivePieceKeeps DEF FrameNext

LEMMA FrameInvMeans == FrameInv => FramesIntact /\ FrameTypeOK
<1> SUFFICES ASSUME FrameInv PROVE FramesIntact /\ FrameTypeOK
  OBVIOUS
<1> DEFINE n == Len(delivered)
           e == Encoded(Expected)
<1>1. /\ n \in 0 .. MaxFrames /\ MaxFrames \in Nat
      /\ Len(Buffer) = arrived - taken
  BY BufferIs, FrameAssumption
<1>2. /\ n <= MaxFrames /\ taken = Len(Wire(n))
      /\ \A k \in 1 .. n :
           delivered[k] = [len |-> frames[k].len, intact |-> TRUE]
      /\ frames \in [1 .. MaxFrames -> FrameType]
      /\ taken \in Nat /\ arrived \in Nat /\ taken <= arrived
      /\ delivered \in Seq([len : Nat, intact : BOOLEAN])
  BY DEF FrameInv, DeliveredInv
<1>3. ASSUME ~Buffered, n < MaxFrames
      PROVE  arrived < Len(Wire(n + 1))
  <2>1. n \in 0 .. MaxFrames - 1 /\ n + 1 \in 1 .. MaxFrames
    BY <1>1, <1>3
  <2>2. Len(Wire(n + 1)) = Len(Wire(n)) + Len(e)
    BY <1>2, <2>1, NextFrame, Zenon DEF Expected
  <2>3. ~(Len(Buffer) >= Len(e))
    BY <1>3, BufferedIs
  <2>4. e \in Seq(Item)
    BY <1>2, <2>1, EncodedIs DEF Encodes, Expected
  <2>5. Len(e) \in Nat
    BY <2>4
  <2> HIDE DEF e
  <2> QED BY <1>1, <1>2, <2>2, <2>3, <2>5
<1>4. FramesIntact
  BY <1>2, <1>3, Zenon DEF FramesIntact
<1>5. frames \in Seq([len : Nat, masked : BOOLEAN])
  <2>1. \A f \in FrameType : f \in [len : Nat, masked : BOOLEAN]
    <3> TAKE f \in FrameType
    <3>1. f.len \in PayloadLens /\ f = [len |-> f.len, masked |-> f.masked]
          /\ f.masked \in BOOLEAN
      BY Zenon DEF FrameType
    <3>2. f.len \in Nat
      BY <3>1, LenBelow
    <3> QED BY <3>1, <3>2, Zenon
  <2>2. frames \in [1 .. MaxFrames -> [len : Nat, masked : BOOLEAN]]
    BY <1>2, <2>1, Zenon
  <2>3. \A S : \A m \in Nat : \A s \in [1 .. m -> S] : s \in Seq(S)
    OBVIOUS
  <2> QED BY <1>1, <2>2, <2>3, Zenon
<1> QED BY <1>2, <1>4, <1>5 DEF FrameTypeOK

LEMMA FrameInductive == FrameSpec => []FrameInv
BY FrameInitInv, FrameStepKeeps, PTL DEF FrameSpec

-----------------------------------------------------------------------------
(* What follows for frames.                                                *)

\* A client's frames are delivered once each, in order, unmasked and as soon
\* as they are whole, for any lengths an int can hold and however many bytes
\* each recv returns.
THEOREM FramesWhole == FrameSpec => []FramesIntact
BY FrameInductive, FrameInvMeans, PTL

\* What a client sends, as a request or as frames, is understood in the same
\* way however recv cuts it.
THEOREM CutsDecideNothing == BytesSpec => []CutsDoNotMatter
<1>1. BytesInit => ReaderInv /\ FrameInv
  BY ReaderInitInv, FrameInitInv DEF BytesInit
<1>2. ASSUME ReaderInv, FrameInv, [BytesNext]_bytesVars
      PROVE  ReaderInv' /\ FrameInv'
  <2>1. [ReaderNext]_readerVars /\ [FrameNext]_frameVars
    BY <1>2 DEF BytesNext, bytesVars
  <2> QED BY <1>2, <2>1, ReaderStepKeeps, FrameStepKeeps
<1>3. ReaderInv /\ FrameInv => CutsDoNotMatter
  BY FrameInvMeans DEF ReaderInv, CutsDoNotMatter
<1> QED BY <1>1, <1>2, <1>3, PTL DEF BytesSpec
=============================================================================
