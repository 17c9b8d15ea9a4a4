--------------------------- MODULE MgReplyProofs ---------------------------
(***************************************************************************)
(* Every reply of a connection is framed, for any pipelined requests, any  *)
(* pieces and any sizes.                                                   *)
(*                                                                         *)
(* What the client has received and what remote_iobuf holds is read from   *)
(* front to back, one unit after the other (Told): which header was last,  *)
(* how much of what it announced is still missing, whether a websocket had *)
(* its handshake.  ReplyInv relates what that reading ends with to the     *)
(* fields of the connection: whose body is moved and its cl, what is       *)
(* unread of each buffer, and how many tokens a websocket still has to     *)
(* come.  Each function that spools anything is shown to keep them in      *)
(* step; that a header precedes every block, and the sums are right, then  *)
(* follow from the reading alone.                                          *)
(***************************************************************************)
EXTENDS MgConnectionProofs, FiniteSetTheorems

-----------------------------------------------------------------------------
(* What the units of a connection say, read from the first to the last.    *)

\* What was said: whose body may go on and how much of it is announced and
\* still missing, whether all was in order, and of request r: the length of
\* its body so far, how many whole buffers were announced, whether there was
\* a handshake, and whether a reply came without one.
Telling ==
  [of : Nat, left : Int, ok : BOOLEAN, data : Nat, heads : Nat,
   shaken : BOOLEAN, bare : BOOLEAN]

Untold ==
  [of |-> NULL, left |-> 0, ok |-> TRUE, data |-> 0, heads |-> 0,
   shaken |-> FALSE, bare |-> FALSE]

After(r, q, u) ==
  IF u.k = "ping" THEN q
  ELSE IF u.k = "head"
  THEN [q EXCEPT !.of = u.r, !.left = u.len,
                 !.heads = @ + IF u = Unit("head", r, FileLen) THEN 1 ELSE 0,
                 !.bare = @ \/ (u.r = r /\ ~q.shaken)]
  ELSE IF u.k = "data"
  THEN [q EXCEPT !.left = @ - u.len,
                 !.ok = @ /\ u.r = q.of /\ u.r # NULL /\ u.len <= q.left,
                 !.data = @ + IF u.r = r THEN u.len ELSE 0]
  ELSE [q EXCEPT !.of = NULL, !.left = 0,
                 !.shaken = @ \/ u = Unit("handshake", r, 0)]

Told(r, s) ==
  LET t[i \in 0 .. Len(s)] ==
        IF i = 0 THEN Untold ELSE After(r, t[i - 1], s[i])
  IN  t[Len(s)]

LEMMA AfterTyped ==
  ASSUME NEW r, NEW q \in Telling, NEW u \in UnitType
  PROVE  After(r, q, u) \in Telling
<1>1. u.r \in Nat /\ u.len \in Nat
  BY DEF UnitType, Requests
<1>2. CASE u.k = "ping"
  BY <1>2 DEF After
<1>3. CASE u.k = "head"
  <2> DEFINE h == q.heads + IF u = Unit("head", r, FileLen) THEN 1 ELSE 0
             b == q.bare \/ (u.r = r /\ ~q.shaken)
  <2>1. After(r, q, u) = [q EXCEPT !.of = u.r, !.left = u.len, !.heads = h,
                                   !.bare = b]
    BY <1>3 DEF After
  <2>2. h \in Nat
    BY DEF Telling
  <2>3. b \in BOOLEAN
    OBVIOUS
  <2> HIDE DEF h, b
  <2>4. [q EXCEPT !.of = u.r, !.left = u.len, !.heads = h, !.bare = b]
          \in Telling
    <3>1. u.len \in Int
      BY <1>1
    <3> QED BY <1>1, <2>2, <2>3, <3>1, Zenon DEF Telling
  <2> QED BY <2>1, <2>4, Zenon
<1>4. CASE u.k = "data"
  <2> DEFINE l == q.left - u.len
             o == q.ok /\ u.r = q.of /\ u.r # NULL /\ u.len <= q.left
             d == q.data + IF u.r = r THEN u.len ELSE 0
  <2>1. After(r, q, u) = [q EXCEPT !.left = l, !.ok = o, !.data = d]
    BY <1>4 DEF After
  <2>2. l \in Int /\ d \in Nat
    BY <1>1 DEF Telling
  <2>3. o \in BOOLEAN
    OBVIOUS
  <2> HIDE DEF l, o, d
  <2> QED BY <2>1, <2>2, <2>3 DEF Telling
<1>5. CASE u.k \notin {"ping", "head", "data"}
  <2> DEFINE b == q.shaken \/ u = Unit("handshake", r, 0)
  <2>1. After(r, q, u) = [q EXCEPT !.of = NULL, !.left = 0, !.shaken = b]
    BY <1>5 DEF After
  <2>2. b \in BOOLEAN
    OBVIOUS
  <2> HIDE DEF b
  <2>3. [q EXCEPT !.of = NULL, !.left = 0, !.shaken = b] \in Telling
    <3>1. NULL \in Nat /\ 0 \in Int
      BY DEF NULL
    <3> QED BY <2>2, <3>1, Zenon DEF Telling
  <2> QED BY <2>1, <2>3, Zenon
<1> QED BY <1>2, <1>3, <1>4, <1>5

Reading(r, s, t) ==
  /\ t[0] = Untold
  /\ \A i \in 0 .. Len(s) : t[i] \in Telling
  /\ \A i \in 1 .. Len(s) : t[i] = After(r, t[i - 1], s[i])

LEMMA ToldIs ==
  ASSUME NEW r, NEW s \in Seq(UnitType)
  PROVE  \E t : Reading(r, s, t) /\ Told(r, s) = t[Len(s)]
<1> DEFINE n == Len(s)
           Eq(f) == f = [i \in 0 .. n |-> IF i = 0 THEN Untold
                                          ELSE After(r, f[i - 1], s[i])]
           step == [i \in 1 .. n |-> [q \in Telling |-> After(r, q, s[i])]]
<1>1. n \in Nat /\ \A i \in 1 .. n : s[i] \in UnitType
  OBVIOUS
<1>2. Untold \in Telling
  BY DEF Untold, Telling, NULL
<1>3. step \in [1 .. n -> [Telling -> Telling]]
  BY <1>1, AfterTyped
<1>4. PICK f \in [0 .. n -> Telling] :
        f[0] = Untold /\ \A i \in 1 .. n : f[i] = step[i][f[i - 1]]
  <2> HIDE DEF n, step
  <2>1. Recurses(Telling, n, Untold, step)
    BY <1>1, <1>2, <1>3, Recursion
  <2> QED BY <2>1 DEF Recurses
<1>5. Eq(f)
  <2>1. ASSUME NEW i \in 1 .. n
        PROVE  f[i] = After(r, f[i - 1], s[i])
    <3>1. f[i - 1] \in Telling /\ f[i] = step[i][f[i - 1]]
      <4> HIDE DEF n, step
      <4>1. i - 1 \in 0 .. n
        BY <1>1
      <4> QED BY <1>4, <4>1
    <3> QED BY <3>1
  <2>2. f = [i \in 0 .. n |-> f[i]]
    BY <1>4
  <2>3. ASSUME NEW i \in 0 .. n
        PROVE  f[i] = IF i = 0 THEN Untold ELSE After(r, f[i - 1], s[i])
    <3>1. i = 0 \/ i \in 1 .. n
      BY <1>1
    <3> HIDE DEF n, step
    <3> QED BY <1>4, <2>1, <3>1
  <2> HIDE DEF n, step
  <2> QED BY <2>2, <2>3, Zenon
<1>6. PICK t : Eq(t) /\ Told(r, s) = t[n]
  BY <1>5 DEF Told
<1> HIDE DEF n
<1>7. t[0] = Untold /\ \A i \in 1 .. n : t[i] = After(r, t[i - 1], s[i])
  <2>1. \A i \in 1 .. n : i \in 0 .. n /\ i # 0
    BY <1>1
  <2>2. 0 \in 0 .. n
    BY <1>1
  <2> QED BY <1>6, <2>1, <2>2, Zenon
<1>8. \A i \in 0 .. n : t[i] \in Telling
  <2>1. \A i \in 1 .. n : t[i - 1] \in Telling => t[i] \in Telling
    BY <1>1, <1>7, AfterTyped
  <2> QED BY <1>1, <1>2, <1>7, <2>1, StaysIn
<1>9. Reading(r, s, t)
  BY <1>7, <1>8, Zenon DEF Reading, n
<1> QED BY <1>6, <1>9, Zenon DEF n

\* Two that begin with the same units agree as far as that.
LEMMA ReadingsAgree ==
  ASSUME NEW r, NEW s \in Seq(UnitType), NEW v \in Seq(UnitType),
         NEW t, Reading(r, s, t), NEW w, Reading(r, v, w),
         NEW n \in Nat, n <= Len(s), n <= Len(v),
         \A i \in 1 .. n : s[i] = v[i]
  PROVE  t[n] = w[n]
<1> DEFINE T == {i \in 0 .. n : t[i] # w[i]}
<1> SUFFICES ASSUME t[n] # w[n] PROVE FALSE
  OBVIOUS
<1>1. T \in SUBSET Nat /\ T # {}
  OBVIOUS
<1>2. PICK x \in T : \A y \in T : x <= y
  <2> HIDE DEF T
  <2> QED BY <1>1, LeastNumber
<1>3. x # 0
  BY DEF Reading
<1>4. x \in 1 .. n /\ x \in 1 .. Len(s) /\ x \in 1 .. Len(v)
  BY <1>3
<1>5. x - 1 \in 0 .. n /\ x - 1 \notin T
  BY <1>2, <1>4
<1>6. t[x - 1] = w[x - 1] /\ s[x] = v[x]
  BY <1>4, <1>5
<1>7. t[x] = After(r, t[x - 1], s[x]) /\ w[x] = After(r, w[x - 1], v[x])
  BY <1>4, Zenon DEF Reading
<1>8. t[x] # w[x]
  OBVIOUS
<1> QED BY <1>6, <1>7, <1>8, Zenon

LEMMA ToldTyped ==
  ASSUME NEW r, NEW s \in Seq(UnitType)
  PROVE  Told(r, s) \in Telling
<1>1. PICK t : Reading(r, s, t) /\ Told(r, s) = t[Len(s)]
  BY ToldIs
<1>2. Len(s) \in 0 .. Len(s)
  OBVIOUS
<1> QED BY <1>1, <1>2, Zenon DEF Reading

LEMMA ToldNothing ==
  ASSUME NEW r
  PROVE  Told(r, <<>>) = Untold
<1>1. <<>> \in Seq(UnitType) /\ Len(<<>>) = 0
  OBVIOUS
<1>2. PICK t : Reading(r, <<>>, t) /\ Told(r, <<>>) = t[Len(<<>>)]
  BY <1>1, ToldIs
<1> QED BY <1>1, <1>2, Zenon DEF Reading

\* The state after each prefix is what the prefix tells.
LEMMA ToldPrefix ==
  ASSUME NEW r, NEW s \in Seq(UnitType), NEW t, Reading(r, s, t),
         NEW v \in Seq(UnitType), Len(v) <= Len(s),
         \A i \in 1 .. Len(v) : v[i] = s[i]
  PROVE  t[Len(v)] = Told(r, v)
<1>1. PICK w : Reading(r, v, w) /\ Told(r, v) = w[Len(v)]
  BY ToldIs
<1>2. Len(v) \in Nat /\ Len(v) <= Len(v)
  OBVIOUS
<1> QED BY <1>1, <1>2, ReadingsAgree

LEMMA ToldMore ==
  ASSUME NEW r, NEW s \in Seq(UnitType), NEW u \in UnitType
  PROVE  Told(r, Append(s, u)) = After(r, Told(r, s), u)
<1> DEFINE v == Append(s, u)
           n == Len(s)
<1>1. /\ n \in Nat /\ v \in Seq(UnitType) /\ Len(v) = n + 1 /\ v[n + 1] = u
      /\ \A i \in 1 .. n : s[i] = v[i]
  BY AppendProperties
<1> HIDE DEF v
<1>2. PICK t : Reading(r, v, t) /\ Told(r, v) = t[Len(v)]
  BY <1>1, ToldIs
<1>3. t[n] = Told(r, s)
  <2>1. Len(s) <= Len(v)
    BY <1>1
  <2> QED BY <1>1, <1>2, <2>1, ToldPrefix
<1>4. t[n + 1] = After(r, t[n], u)
  <2>1. n + 1 \in 1 .. Len(v) /\ (n + 1) - 1 = n
    BY <1>1
  <2> QED BY <1>1, <1>2, <2>1 DEF Reading
<1> QED BY <1>1, <1>2, <1>3, <1>4 DEF v

LEMMA ToldFurther ==
  ASSUME NEW r, NEW a \in Seq(UnitType), NEW s \in Seq(UnitType),
         NEW u \in UnitType
  PROVE  Told(r, a \o Append(s, u)) = After(r, Told(r, a \o s), u)
<1> DEFINE v == a \o s
<1>1. v \in Seq(UnitType) /\ a \o Append(s, u) = Append(v, u)
  BY SMTT(30)
<1> HIDE DEF v
<1>2. Told(r, Append(v, u)) = After(r, Told(r, v), u)
  BY <1>1, ToldMore, Zenon
<1> QED BY <1>1, <1>2, ZenonT(30) DEF v

\* What came before matters only for what it tells.
LEMMA ToldTail ==
  ASSUME NEW r, NEW a \in Seq(UnitType), NEW b \in Seq(UnitType),
         Told(r, a) = Told(r, b), NEW d \in Seq(UnitType)
  PROVE  Told(r, a \o d) = Told(r, b \o d)
<1> DEFINE n == Len(d)
           p(i) == SubSeq(d, 1, i)
           T == {i \in 0 .. n : Told(r, a \o p(i)) # Told(r, b \o p(i))}
<1>1. /\ n \in Nat /\ p(n) = d /\ p(0) = <<>>
      /\ a \o <<>> = a /\ b \o <<>> = b
  OBVIOUS
<1> SUFFICES ASSUME Told(r, a \o p(n)) # Told(r, b \o p(n)) PROVE FALSE
  BY <1>1
<1>2. T \in SUBSET Nat /\ T # {}
  BY <1>1
<1>3. PICK x \in T : \A y \in T : x <= y
  <2> HIDE DEF T
  <2> QED BY <1>2, LeastNumber
<1>4. x # 0
  BY <1>1
<1>5. x \in 1 .. n /\ x - 1 \in 0 .. n /\ x - 1 \notin T
  BY <1>1, <1>3, <1>4
<1> DEFINE q == p(x - 1)
<1>6. q \in Seq(UnitType) /\ d[x] \in UnitType /\ p(x) = Append(q, d[x])
  BY <1>1, <1>5
<1>7. Told(r, a \o q) = Told(r, b \o q)
  BY <1>5
<1>8. Told(r, a \o p(x)) # Told(r, b \o p(x))
  OBVIOUS
<1> HIDE DEF q, p, T
<1>9. ASSUME NEW e \in Seq(UnitType)
      PROVE  Told(r, e \o p(x)) = After(r, Told(r, e \o q), d[x])
  BY <1>6, ToldFurther
<1>10. /\ Told(r, a \o p(x)) = After(r, Told(r, a \o q), d[x])
       /\ Told(r, b \o p(x)) = After(r, Told(r, b \o q), d[x])
  BY <1>9
<1> QED BY <1>7, <1>8, <1>10, Zenon

\* Pings tell nothing: it is the same with them and without.
LEMMA ToldWithoutPings ==
  ASSUME NEW r, NEW a \in Seq(UnitType), NEW b \in Seq(UnitType)
  PROVE  Told(r, a \o WithoutPings(b)) = Told(r, a \o b)
<1>1. PICK h : Kept(b, h) /\ WithoutPings(b) = h[Len(b)]
  BY WithoutPingsIs
<1> DEFINE n == Len(b)
           p(i) == SubSeq(b, 1, i)
           T == {i \in 0 .. n : Told(r, a \o h[i]) # Told(r, a \o p(i))}
<1>2. n \in Nat /\ p(n) = b /\ p(0) = <<>>
  OBVIOUS
<1> SUFFICES ASSUME Told(r, a \o h[n]) # Told(r, a \o p(n)) PROVE FALSE
  BY <1>1, <1>2
<1>3. T \in SUBSET Nat /\ T # {}
  BY <1>2
<1>4. PICK x \in T : \A y \in T : x <= y
  <2> HIDE DEF T
  <2> QED BY <1>3, LeastNumber
<1>5. x # 0
  <2>1. h[0] = <<>> /\ p(0) = <<>>
    BY <1>1, <1>2 DEF Kept
  <2>2. Told(r, a \o h[x]) # Told(r, a \o p(x))
    OBVIOUS
  <2> QED BY <2>1, <2>2, Zenon
<1>6. x \in 1 .. n /\ x - 1 \in 0 .. n /\ x - 1 \notin T
  BY <1>2, <1>4, <1>5
<1> DEFINE q == p(x - 1)
           g == h[x - 1]
<1>7. q \in Seq(UnitType) /\ b[x] \in UnitType /\ p(x) = Append(q, b[x])
  BY <1>2, <1>6
<1>8. Told(r, a \o g) = Told(r, a \o q)
  BY <1>6
<1>9. Told(r, a \o h[x]) # Told(r, a \o p(x))
  OBVIOUS
<1>10. /\ h[x] = IF b[x].k = "ping" THEN g ELSE Append(g, b[x])
       /\ g \in Seq(UnitType)
  <2>1. h[x] = IF b[x].k = "ping" THEN g ELSE Append(g, b[x])
    BY <1>1, <1>6, Zenon DEF Kept
  <2>2. x - 1 = 0 \/ x - 1 \in 1 .. n
    BY <1>6
  <2>3. <<>> \in Seq(UnitType)
    OBVIOUS
  <2> QED BY <1>1, <2>1, <2>2, <2>3, Zenon DEF Kept
<1> HIDE DEF q, p, T, g
<1>12. Told(r, a \o p(x)) = After(r, Told(r, a \o q), b[x])
  BY <1>7, ToldFurther
<1>13. CASE b[x].k = "ping"
  BY <1>8, <1>9, <1>10, <1>12, <1>13, Zenon DEF After
<1>14. CASE b[x].k # "ping"
  <2>1. Told(r, a \o h[x]) = After(r, Told(r, a \o g), b[x])
    BY <1>7, <1>10, <1>14, ToldFurther
  <2> QED BY <1>8, <1>9, <1>12, <2>1, Zenon
<1> QED BY <1>13, <1>14

\* What one more unit u makes of what was told, field by field.
Adds(r, q, u, e) ==
  /\ e.of = IF u.k = "head" THEN u.r
            ELSE IF u.k \in {"data", "ping"} THEN q.of ELSE NULL
  /\ e.left = IF u.k = "head" THEN u.len
              ELSE IF u.k = "data" THEN q.left - u.len
              ELSE IF u.k = "ping" THEN q.left ELSE 0
  /\ e.data = q.data + IF u.k = "data" /\ u.r = r THEN u.len ELSE 0
  /\ e.heads = q.heads + IF u = Unit("head", r, FileLen) THEN 1 ELSE 0
  /\ e.ok <=> q.ok /\ (u.k = "data" =>
                  u.r = q.of /\ u.r # NULL /\ u.len <= q.left)
  /\ e.shaken <=> q.shaken \/ u = Unit("handshake", r, 0)
  /\ e.bare <=> q.bare \/ (u.k = "head" /\ u.r = r /\ ~q.shaken)

LEMMA AfterIs ==
  ASSUME NEW r, NEW q \in Telling, NEW u \in UnitType
  PROVE  Adds(r, q, u, After(r, q, u))
<1> DEFINE e == After(r, q, u)
<1> HIDE DEF e
<1> SUFFICES Adds(r, q, u, e)
  BY DEF e
<1>0. e = After(r, q, u)
  BY DEF e
<1> USE DEF Adds
<1> DEFINE h == IF u = Unit("head", r, FileLen) THEN 1 ELSE 0
           d == IF u.r = r THEN u.len ELSE 0
<1>1. q.data \in Nat /\ q.heads \in Nat /\ q.ok \in BOOLEAN
      /\ q.shaken \in BOOLEAN /\ q.bare \in BOOLEAN
  BY Zenon DEF Telling
<1>2. q.data + 0 = q.data /\ q.heads + 0 = q.heads
  BY <1>1
<1>3. /\ u = Unit("head", r, FileLen) => u.k = "head"
      /\ u = Unit("handshake", r, 0) => u.k = "handshake"
  BY DEF Unit
<1>4. /\ q.of = q.of /\ DOMAIN q = {"of", "left", "ok", "data", "heads",
                                    "shaken", "bare"}
  BY Zenon DEF Telling
<1>5. CASE u.k = "ping"
  <2>1. After(r, q, u) = q
    BY <1>5 DEF After
  <2>2. u # Unit("head", r, FileLen) /\ u # Unit("handshake", r, 0)
        /\ u.k # "head" /\ u.k # "data"
    BY <1>3, <1>5
  <2> QED BY <1>0, <1>1, <1>2, <1>5, <2>1, <2>2, Zenon
<1>6. CASE u.k = "head"
  <2> DEFINE b == q.bare \/ (u.r = r /\ ~q.shaken)
             a == q.heads + h
             x == [q EXCEPT !.of = u.r, !.left = u.len, !.heads = a,
                            !.bare = b]
  <2>1. After(r, q, u) = x
    BY <1>6 DEF After
  <2> HIDE DEF a, b
  <2>2. /\ x.of = u.r /\ x.left = u.len /\ x.heads = a /\ x.bare = b
        /\ x.ok = q.ok /\ x.data = q.data /\ x.shaken = q.shaken
    BY <1>4, Zenon
  <2> HIDE DEF x
  <2>3. u # Unit("handshake", r, 0) /\ u.k # "data"
    BY <1>3, <1>6
  <2> QED BY <1>0, <1>1, <1>2, <1>6, <2>1, <2>2, <2>3, Zenon DEF a, b
<1>7. CASE u.k = "data"
  <2> DEFINE l == q.left - u.len
             o == q.ok /\ u.r = q.of /\ u.r # NULL /\ u.len <= q.left
             a == q.data + d
             x == [q EXCEPT !.left = l, !.ok = o, !.data = a]
  <2>1. After(r, q, u) = x
    BY <1>7 DEF After
  <2> HIDE DEF a, l, o
  <2>2. /\ x.of = q.of /\ x.left = l /\ x.heads = q.heads /\ x.bare = q.bare
        /\ x.ok = o /\ x.data = a /\ x.shaken = q.shaken
    BY <1>4, Zenon
  <2> HIDE DEF x
  <2>3. u # Unit("handshake", r, 0) /\ u.k # "head"
        /\ u # Unit("head", r, FileLen)
    BY <1>3, <1>7
  <2> QED BY <1>0, <1>1, <1>2, <1>7, <2>1, <2>2, <2>3, Zenon DEF a, l, o
<1>8. CASE u.k \notin {"ping", "head", "data"}
  <2> DEFINE b == q.shaken \/ u = Unit("handshake", r, 0)
             x == [q EXCEPT !.of = NULL, !.left = 0, !.shaken = b]
  <2>1. After(r, q, u) = x
    BY <1>8 DEF After
  <2> HIDE DEF b
  <2>2. /\ x.of = NULL /\ x.left = 0 /\ x.heads = q.heads /\ x.bare = q.bare
        /\ x.ok = q.ok /\ x.data = q.data /\ x.shaken = b
    BY <1>4, Zenon
  <2> HIDE DEF x
  <2>3. u # Unit("head", r, FileLen) /\ u.k # "head" /\ u.k # "data"
        /\ u.k # "ping"
    BY <1>3, <1>8
  <2> QED BY <1>0, <1>1, <1>2, <2>1, <2>2, <2>3, Zenon DEF b
<1> QED BY <1>5, <1>6, <1>7, <1>8

LEMMA UpTo ==
  ASSUME NEW S, NEW n \in Nat, 0 \in S,
         \A i \in 1 .. n : i - 1 \in S => i \in S
  PROVE  \A i \in 0 .. n : i \in S
<1> DEFINE f == [i \in 0 .. n |-> i]
<1>1. f[0] \in S /\ \A i \in 1 .. n : f[i - 1] \in S => f[i] \in S
  OBVIOUS
<1> HIDE DEF f
<1>2. \A i \in 0 .. n : f[i] \in S
  BY <1>1, StaysIn
<1> QED BY <1>2 DEF f

\* DataOf for any sequence of units.
DataIn(s, r) ==
  LET upto[i \in 0 .. Len(s)] ==
        IF i = 0 THEN 0
        ELSE upto[i - 1] + IF s[i].k = "data" /\ s[i].r = r
                           THEN s[i].len ELSE 0
  IN  upto[Len(s)]

LEMMA DataTold ==
  ASSUME NEW r, NEW s \in Seq(UnitType)
  PROVE  DataIn(s, r) = Told(r, s).data
<1> DEFINE n == Len(s)
           plus(i) == IF s[i].k = "data" /\ s[i].r = r THEN s[i].len ELSE 0
           Eq(f) == f = [i \in 0 .. n |-> IF i = 0 THEN 0
                                          ELSE f[i - 1] + plus(i)]
<1>1. PICK t : Reading(r, s, t) /\ Told(r, s) = t[n]
  BY ToldIs
<1>2. n \in Nat /\ \A i \in 1 .. n : s[i] \in UnitType
  OBVIOUS
<1> DEFINE g == [i \in 0 .. n |-> t[i].data]
<1>3. \A i \in 1 .. n : t[i].data = t[i - 1].data + plus(i)
  <2> TAKE i \in 1 .. n
  <2>1. t[i] = After(r, t[i - 1], s[i]) /\ t[i - 1] \in Telling
    <3>1. i - 1 \in 0 .. n
      BY <1>2
    <3> QED BY <1>1, <3>1, Zenon DEF Reading
  <2>2. s[i] \in UnitType
    BY <1>2
  <2>3. Adds(r, t[i - 1], s[i], t[i])
    BY <2>1, <2>2, AfterIs, Zenon
  <2> QED BY <2>3, Zenon DEF Adds
<1>4. t[0].data = 0
  BY <1>1 DEF Reading, Untold
<1> HIDE DEF plus, n
<1>5. Eq(g)
  <2>1. ASSUME NEW i \in 0 .. n
        PROVE  g[i] = IF i = 0 THEN 0 ELSE g[i - 1] + plus(i)
    <3>1. i = 0 \/ (i # 0 /\ i \in 1 .. n /\ i - 1 \in 0 .. n)
      BY <1>2
    <3> QED BY <1>3, <1>4, <3>1
  <2> QED BY <2>1, Zenon
<1>6. PICK f : Eq(f) /\ DataIn(s, r) = f[n]
  BY <1>5 DEF DataIn, plus, n
<1> DEFINE S == {i \in 0 .. n : f[i] = t[i].data}
<1>7. 0 \in S
  <2>1. 0 \in 0 .. n
    BY <1>2
  <2> QED BY <1>4, <1>6, <2>1, Zenon
<1>8. ASSUME NEW i \in 1 .. n, i - 1 \in S
      PROVE  i \in S
  <2>1. i \in 0 .. n /\ i # 0
    BY <1>2
  <2>2. f[i] = f[i - 1] + plus(i)
    BY <1>6, <2>1, Zenon
  <2> QED BY <1>3, <1>8, <2>1, <2>2
<1> HIDE DEF S
<1>9. n \in S
  <2>1. \A i \in 0 .. n : i \in S
    BY <1>2, <1>7, <1>8, UpTo
  <2> QED BY <1>2, <2>1
<1> QED BY <1>1, <1>6, <1>9 DEF S

\* The whole buffers announced are as many as there are places of a header.
HeadsIn(s, r, n) == {i \in 1 .. n : s[i] = Unit("head", r, FileLen)}

LEMMA HeadsTold ==
  ASSUME NEW r, NEW s \in Seq(UnitType)
  PROVE  Cardinality(HeadsIn(s, r, Len(s))) = Told(r, s).heads
<1> DEFINE n == Len(s)
<1>1. PICK t : Reading(r, s, t) /\ Told(r, s) = t[n]
  BY ToldIs
<1>2. n \in Nat /\ \A i \in 1 .. n : s[i] \in UnitType
  OBVIOUS
<1> HIDE DEF n
<1> DEFINE H(i) == HeadsIn(s, r, i)
           S == {i \in 0 .. n : IsFiniteSet(H(i))
                                /\ Cardinality(H(i)) = t[i].heads}
<1>3. 0 \in S
  <2>1. H(0) = {} /\ 0 \in 0 .. n
    BY <1>2 DEF HeadsIn
  <2>2. t[0].heads = 0
    BY <1>1 DEF Reading, Untold
  <2> QED BY <2>1, <2>2, FS_EmptySet
<1>4. ASSUME NEW i \in 1 .. n, i - 1 \in S
      PROVE  i \in S
  <2>1. i \in 0 .. n /\ i - 1 \in 0 .. n
    BY <1>2
  <2>2. t[i] = After(r, t[i - 1], s[i]) /\ t[i - 1] \in Telling
    BY <1>1, <2>1, Zenon DEF Reading, n
  <2>3. t[i].heads = t[i - 1].heads
                       + IF s[i] = Unit("head", r, FileLen) THEN 1 ELSE 0
    BY <1>2, <2>2, AfterIs DEF Adds
  <2>4. t[i - 1].heads \in Nat
    BY <2>2 DEF Telling
  <2>5. CASE s[i] = Unit("head", r, FileLen)
    <3>1. H(i) = H(i - 1) \cup {i} /\ i \notin H(i - 1)
      BY <1>2, <2>5 DEF HeadsIn
    <3> HIDE DEF H
    <3>2. IsFiniteSet(H(i)) /\ Cardinality(H(i)) = Cardinality(H(i - 1)) + 1
      BY <1>4, <3>1, FS_AddElement
    <3> QED BY <1>4, <2>1, <2>3, <2>5, <3>2
  <2>6. CASE s[i] # Unit("head", r, FileLen)
    <3>1. H(i) = H(i - 1)
      BY <1>2, <2>6 DEF HeadsIn
    <3> HIDE DEF H
    <3> QED BY <1>4, <2>1, <2>3, <2>4, <2>6, <3>1
  <2> QED BY <2>5, <2>6
<1> HIDE DEF S
<1>5. n \in S
  <2>1. \A i \in 0 .. n : i \in S
    BY <1>2, <1>3, <1>4, UpTo
  <2> QED BY <1>2, <2>1
<1> QED BY <1>1, <1>5 DEF S, n

\* A reply that came after a handshake has one before it.
LEMMA ShakenTold ==
  ASSUME NEW r, NEW s \in Seq(UnitType), ~Told(r, s).bare,
         NEW j \in 1 .. Len(s), s[j].k = "head", s[j].r = r
  PROVE  \E h \in 1 .. j - 1 : s[h] = Unit("handshake", r, 0)
<1> DEFINE n == Len(s)
           shook(i) == \E h \in 1 .. i : s[h] = Unit("handshake", r, 0)
<1>1. PICK t : Reading(r, s, t) /\ Told(r, s) = t[n]
  BY ToldIs
<1>2. n \in Nat /\ \A i \in 1 .. n : s[i] \in UnitType
  OBVIOUS
<1> HIDE DEF n
<1> DEFINE S == {i \in 0 .. n : /\ t[i].shaken => shook(i)
                                /\ ~t[i].bare =>
                                     \A k \in 1 .. i :
                                       s[k].k = "head" /\ s[k].r = r =>
                                         shook(k - 1)}
<1>3. 0 \in S
  BY <1>1, <1>2 DEF Reading, Untold
<1>4. ASSUME NEW i \in 1 .. n, i - 1 \in S
      PROVE  i \in S
  <2>1. i \in 0 .. n /\ i - 1 \in 0 .. n
    BY <1>2
  <2>2. t[i] = After(r, t[i - 1], s[i]) /\ t[i - 1] \in Telling
    BY <1>1, <2>1, Zenon DEF Reading, n
  <2>3. /\ t[i].shaken <=> t[i - 1].shaken \/ s[i] = Unit("handshake", r, 0)
        /\ t[i].bare <=> t[i - 1].bare
                           \/ /\ s[i].k = "head" /\ s[i].r = r
                              /\ ~t[i - 1].shaken
    <3>1. s[i] \in UnitType
      BY <1>2
    <3>2. Adds(r, t[i - 1], s[i], t[i])
      BY <2>2, <3>1, AfterIs, Zenon
    <3> QED BY <3>2, Zenon DEF Adds
  <2>4. shook(i - 1) \/ s[i] = Unit("handshake", r, 0) => shook(i)
    BY <1>2
  <2>5. \A k \in 1 .. i : k = i \/ k \in 1 .. i - 1
    BY <1>2
  <2> HIDE DEF shook
  <2>6. t[i].shaken => shook(i)
    BY <1>4, <2>3, <2>4
  <2>7. ASSUME ~t[i].bare, NEW k \in 1 .. i, s[k].k = "head", s[k].r = r
        PROVE  shook(k - 1)
    BY <1>4, <2>3, <2>5, <2>7
  <2> QED BY <2>1, <2>6, <2>7
<1> HIDE DEF S
<1>5. n \in S
  <2>1. \A i \in 0 .. n : i \in S
    BY <1>2, <1>3, <1>4, UpTo
  <2> QED BY <1>2, <2>1
<1> QED BY <1>1, <1>5 DEF S, n

\* How much of a body follows the header at h, up to i.
BodyFrom(s, h, i) ==
  LET body[j \in h .. i] == IF j = h THEN 0 ELSE body[j - 1] + s[j].len
  IN  body[i]

\* The lengths of all units, added up.
Lengths(s, p) ==
  /\ p \in [0 .. Len(s) -> Nat]
  /\ \A i \in 1 .. Len(s) : p[i] = p[i - 1] + s[i].len

LEMMA LengthsExist ==
  ASSUME NEW s \in Seq(UnitType)
  PROVE  \E p : Lengths(s, p)
<1> DEFINE n == Len(s)
           step == [i \in 1 .. n |-> [x \in Nat |-> x + s[i].len]]
<1>1. n \in Nat /\ \A i \in 1 .. n : s[i].len \in Nat
  <2>1. \A i \in 1 .. n : s[i] \in UnitType
    OBVIOUS
  <2> QED BY <2>1 DEF UnitType
<1>2. step \in [1 .. n -> [Nat -> Nat]]
  BY <1>1
<1>3. PICK f \in [0 .. n -> Nat] :
        f[0] = 0 /\ \A i \in 1 .. n : f[i] = step[i][f[i - 1]]
  <2> HIDE DEF n, step
  <2>1. Recurses(Nat, n, 0, step)
    BY <1>1, <1>2, Recursion
  <2> QED BY <2>1 DEF Recurses
<1>4. \A i \in 1 .. n : f[i] = f[i - 1] + s[i].len
  <2> TAKE i \in 1 .. n
  <2>1. f[i - 1] \in Nat
    <3>1. i - 1 \in 0 .. n
      BY <1>1
    <3> HIDE DEF n, step
    <3> QED BY <1>3, <3>1
  <2>2. f[i] = step[i][f[i - 1]]
    BY <1>3
  <2> QED BY <2>1, <2>2
<1>5. Lengths(s, f)
  BY <1>3, <1>4, Zenon DEF Lengths
<1> QED BY <1>5

LEMMA BodyFromIs ==
  ASSUME NEW s \in Seq(UnitType), NEW p, Lengths(s, p),
         NEW h \in 1 .. Len(s), NEW i \in h .. Len(s)
  PROVE  BodyFrom(s, h, i) = p[i] - p[h]
<1> DEFINE Eq(f) == f = [j \in h .. i |-> IF j = h THEN 0
                                          ELSE f[j - 1] + s[j].len]
           g == [j \in h .. i |-> p[j] - p[h]]
<1>1. /\ Len(s) \in Nat /\ h \in Nat /\ i \in Nat /\ h <= i /\ i <= Len(s)
      /\ 1 <= h
  OBVIOUS
<1>2. \A j \in h .. i : p[j] \in Nat /\ p[h] \in Nat /\ s[j].len \in Nat
  <2>1. \A j \in h .. i : s[j] \in UnitType
    BY <1>1
  <2>2. \A j \in h .. i : j \in 0 .. Len(s) /\ h \in 0 .. Len(s)
    BY <1>1
  <2> QED BY <2>1, <2>2 DEF Lengths, UnitType
<1>3. \A j \in h .. i : j # h =>
        j - 1 \in h .. i /\ p[j] = p[j - 1] + s[j].len
  BY <1>1 DEF Lengths
<1>4. Eq(g)
  <2>1. ASSUME NEW j \in h .. i
        PROVE  p[j] - p[h] = IF j = h THEN 0 ELSE g[j - 1] + s[j].len
    <3>1. CASE j = h
      BY <1>2, <3>1
    <3>2. CASE j # h
      <4>1. j - 1 \in h .. i /\ p[j] = p[j - 1] + s[j].len
        BY <1>3, <3>2
      <4>2. g[j - 1] = p[j - 1] - p[h]
        BY <4>1
      <4> QED BY <1>2, <3>2, <4>1, <4>2
    <3> QED BY <3>1, <3>2
  <2> QED BY <2>1, Zenon
<1> HIDE DEF g
<1>5. PICK f : Eq(f) /\ BodyFrom(s, h, i) = f[i]
  BY <1>4 DEF BodyFrom
<1> DEFINE S == {j \in 0 .. i : j >= h => f[j] = p[j] - p[h]}
<1>6. 0 \in S
  BY <1>1
<1>7. ASSUME NEW j \in 1 .. i, j - 1 \in S
      PROVE  j \in S
  <2> SUFFICES ASSUME j >= h PROVE f[j] = p[j] - p[h]
    BY <1>1
  <2>1. j \in h .. i
    BY <1>1
  <2>2. f[j] = IF j = h THEN 0 ELSE f[j - 1] + s[j].len
    BY <1>5, <2>1, Zenon
  <2>3. CASE j = h
    BY <1>2, <2>1, <2>2, <2>3
  <2>4. CASE j # h
    <3>1. f[j - 1] = p[j - 1] - p[h]
      BY <1>1, <1>7, <2>4, SMTT(30)
    <3> QED BY <1>2, <1>3, <2>1, <2>2, <2>4, <3>1, SMTT(30)
  <2> QED BY <2>3, <2>4
<1> HIDE DEF S
<1>8. i \in S
  <2>1. \A j \in 0 .. i : j \in S
    BY <1>1, <1>6, <1>7, UpTo
  <2> QED BY <1>1, <2>1
<1>9. i \in 0 .. i /\ i >= h
  BY <1>1
<1> QED BY <1>5, <1>8, <1>9 DEF S

\* The header at h is request r's, and its body goes on up to i.
Leads(s, h, r, i) ==
  /\ s[h].k = "head" /\ s[h].r = r
  /\ \A j \in h + 1 .. i : s[j].k \in {"data", "ping"}

\* Where all was in order every block of a body has its header.
LEMMA FramesTold ==
  ASSUME NEW r, NEW s \in Seq(UnitType), Told(r, s).ok,
         \A i \in 1 .. Len(s) : s[i].k = "ping" => s[i].len = 0,
         NEW x \in 1 .. Len(s), s[x].k = "data"
  PROVE  \E h \in 1 .. x - 1 :
           Leads(s, h, s[x].r, x) /\ BodyFrom(s, h, x) <= s[h].len
<1> DEFINE n == Len(s)
<1>1. PICK t : Reading(r, s, t) /\ Told(r, s) = t[n]
  BY ToldIs
<1>2. PICK p : Lengths(s, p)
  BY LengthsExist
<1>3. n \in Nat /\ \A i \in 1 .. n : s[i] \in UnitType
  OBVIOUS
<1> HIDE DEF n
<1>4. p \in [0 .. n -> Nat]
      /\ \A i \in 1 .. n : p[i] = p[i - 1] + s[i].len
  BY <1>2 DEF Lengths, n
<1> DEFINE Good(i) == \E h \in 1 .. i - 1 :
                        Leads(s, h, s[i].r, i) /\ p[i] - p[h] <= s[h].len
           Owes(i) == \E h \in 1 .. i :
                        /\ Leads(s, h, t[i].of, i)
                        /\ p[i] - p[h] = s[h].len - t[i].left
           S == {i \in 0 .. n :
                   t[i].ok => /\ t[i].left >= 0
                              /\ t[i].of # NULL => Owes(i)
                              /\ \A j \in 1 .. i : s[j].k = "data" => Good(j)}
<1>5. 0 \in S
  <2>1. t[0].left = 0 /\ t[0].of = NULL /\ 0 \in 0 .. n
    BY <1>1, <1>3 DEF Reading, Untold
  <2>2. 1 .. 0 = {} /\ 0 >= 0
    OBVIOUS
  <2> QED BY <2>1, <2>2, Zenon
<1>6. ASSUME NEW i \in 1 .. n, i - 1 \in S
      PROVE  i \in S
  <2>1. /\ i \in 0 .. n /\ i - 1 \in 0 .. n /\ i \in Nat /\ i - 1 \in Nat
        /\ (i - 1) + 1 = i
    BY <1>3
  <2>2. s[i] \in UnitType /\ s[i].len \in Nat /\ s[i].r \in Nat
    BY <1>3, SMTT(30) DEF UnitType, Requests
  <2>3. t[i] = After(r, t[i - 1], s[i]) /\ t[i - 1] \in Telling
    BY <1>1, <2>1, Zenon DEF Reading, n
  <2>4. Adds(r, t[i - 1], s[i], t[i])
    BY <2>2, <2>3, AfterIs, Zenon
  <2>5. t[i - 1].left \in Int
    BY <2>3 DEF Telling
  <2>6. p[i] = p[i - 1] + s[i].len /\ p[i - 1] \in Nat /\ p[i] \in Nat
        /\ \A h \in 1 .. i : p[h] \in Nat /\ s[h].len \in Nat
    <3>1. \A h \in 1 .. i : h \in 0 .. n /\ h \in 1 .. n
      BY <1>3
    <3>2. \A h \in 1 .. n : s[h].len \in Nat
      BY <1>3 DEF UnitType
    <3> QED BY <1>4, <2>1, <3>1, <3>2
  <2> SUFFICES ASSUME t[i].ok
               PROVE  /\ t[i].left >= 0
                      /\ t[i].of # NULL => Owes(i)
                      /\ \A j \in 1 .. i : s[j].k = "data" => Good(j)
    BY <2>1
  <2>7. t[i - 1].ok
    BY <2>4, Zenon DEF Adds
  <2>8. /\ t[i - 1].left >= 0
        /\ t[i - 1].of # NULL => Owes(i - 1)
        /\ \A j \in 1 .. i - 1 : s[j].k = "data" => Good(j)
    BY <1>6, <2>7
  <2>9. \A j \in 1 .. i : j = i \/ j \in 1 .. i - 1
    BY <2>1
  <2>10. s[i].k = "ping" => s[i].len = 0
    BY DEF n
  <2>11. CASE s[i].k = "head"
    <3>1. t[i].of = s[i].r /\ t[i].left = s[i].len
      BY <2>4, <2>11, Zenon DEF Adds
    <3>2. Leads(s, i, t[i].of, i)
      BY <2>1, <2>11, <3>1 DEF Leads
    <3>3. p[i] - p[i] = s[i].len - t[i].left /\ i \in 1 .. i
      BY <2>1, <2>2, <2>6, <3>1
    <3>4. Owes(i)
      BY <3>2, <3>3
    <3>5. s[i].k # "data"
      BY <2>11
    <3>6. t[i].left >= 0
      BY <2>2, <3>1
    <3> HIDE DEF Owes, Good
    <3> QED BY <2>8, <2>9, <3>4, <3>5, <3>6, Zenon
  <2>12. CASE s[i].k = "ping"
    <3>1. t[i].of = t[i - 1].of /\ t[i].left = t[i - 1].left
      <4>1. s[i].k # "head" /\ s[i].k # "data" /\ s[i].k \in {"data", "ping"}
        BY <2>12
      <4> QED BY <2>4, <2>12, <4>1, Zenon DEF Adds
    <3>2. ASSUME t[i].of # NULL PROVE Owes(i)
      <4>1. PICK h \in 1 .. i - 1 :
              /\ Leads(s, h, t[i - 1].of, i - 1)
              /\ p[i - 1] - p[h] = s[h].len - t[i - 1].left
        BY <2>8, <3>1, <3>2
      <4>2. Leads(s, h, t[i].of, i)
        <5>1. \A j \in h + 1 .. i : j = i \/ j \in h + 1 .. i - 1
          BY <2>1
        <5> QED BY <2>12, <3>1, <4>1, <5>1 DEF Leads
      <4>3. p[i] - p[h] = s[h].len - t[i].left /\ h \in 1 .. i
        BY <2>1, <2>6, <2>10, <2>12, <3>1, <4>1
      <4> QED BY <4>2, <4>3
    <3>3. s[i].k # "data"
      BY <2>12
    <3>4. t[i].left >= 0
      BY <2>8, <3>1
    <3> HIDE DEF Owes, Good
    <3> QED BY <2>8, <2>9, <3>2, <3>3, <3>4, Zenon
  <2>13. CASE s[i].k = "data"
    <3>0. s[i].k # "head" /\ s[i].k \in {"data", "ping"}
      BY <2>13
    <3>1. /\ t[i].of = t[i - 1].of /\ t[i].left = t[i - 1].left - s[i].len
          /\ s[i].r = t[i - 1].of /\ s[i].r # NULL
          /\ s[i].len <= t[i - 1].left
      BY <2>4, <2>13, <3>0, Zenon DEF Adds
    <3>2. PICK h \in 1 .. i - 1 :
            /\ Leads(s, h, t[i - 1].of, i - 1)
            /\ p[i - 1] - p[h] = s[h].len - t[i - 1].left
      BY <2>8, <3>1
    <3>3. Leads(s, h, s[i].r, i)
      <4>1. \A j \in h + 1 .. i : j = i \/ j \in h + 1 .. i - 1
        BY <2>1
      <4> QED BY <2>13, <3>1, <3>2, <4>1 DEF Leads
    <3>20. h \in 1 .. i /\ p[h] \in Nat /\ s[h].len \in Nat
      BY <2>1, <2>6
    <3>4. p[i] - p[h] = s[h].len - t[i].left /\ h \in 1 .. i
      <4>1. /\ p[i] = p[i - 1] + s[i].len /\ p[i - 1] \in Nat
            /\ t[i].left = t[i - 1].left - s[i].len
        BY <2>6, <3>1
      <4> DEFINE a == p[i - 1]
                 b == p[h]
                 l == t[i - 1].left
                 m == s[h].len
                 k == s[i].len
      <4>2. a \in Int /\ b \in Int /\ l \in Int /\ m \in Int /\ k \in Int
        BY <2>2, <2>5, <3>20, <4>1, SMTT(30)
      <4>3. a - b = m - l
        BY <3>2, Zenon
      <4>4. (a + k) - b = m - (l - k)
        <5> HIDE DEF a, b, l, m, k
        <5> QED BY <4>2, <4>3
      <4>5. p[i] - p[h] = s[h].len - t[i].left
        BY <4>1, <4>4, Zenon
      <4> QED BY <3>20, <4>5, Zenon
    <3>5. t[i].left >= 0
      BY <2>2, <2>5, <3>1
    <3>6. Owes(i)
      BY <3>1, <3>3, <3>4
    <3>7. Good(i)
      <4>1. p[i] - p[h] <= s[h].len
        <5>1. \A a, b, l, m \in Int : a - b = m - l /\ l >= 0 => a - b <= m
          OBVIOUS
        <5>2. p[i] \in Int /\ p[h] \in Int /\ s[h].len \in Int
          BY <2>6, <3>20
        <5>3. t[i].left \in Int
          <6>1. t[i] \in Telling
            BY <2>2, <2>3, AfterTyped, Zenon
          <6> QED BY <6>1, Zenon DEF Telling
        <5> QED BY <3>4, <3>5, <5>1, <5>2, <5>3, Zenon
      <4> QED BY <3>3, <4>1
    <3> HIDE DEF Owes, Good
    <3> QED BY <2>8, <2>9, <3>5, <3>6, <3>7, Zenon
  <2>14. CASE s[i].k \notin {"head", "ping", "data"}
    <3>1. t[i].of = NULL /\ t[i].left = 0 /\ s[i].k # "data"
      <4>1. s[i].k # "head" /\ s[i].k # "data" /\ s[i].k # "ping"
            /\ s[i].k \notin {"data", "ping"}
        BY <2>14
      <4> QED BY <2>4, <4>1, Zenon DEF Adds
    <3>2. t[i].left >= 0
      BY <3>1
    <3> HIDE DEF Owes, Good
    <3> QED BY <2>8, <2>9, <3>1, <3>2, Zenon
  <2> QED BY <2>11, <2>12, <2>13, <2>14
<1> HIDE DEF S
<1>7. n \in S
  <2>1. \A i \in 0 .. n : i \in S
    BY <1>3, <1>5, <1>6, UpTo
  <2> QED BY <1>3, <2>1
<1>8. \A j \in 1 .. n : s[j].k = "data" => Good(j)
  BY <1>1, <1>7 DEF S
<1>9. PICK h \in 1 .. x - 1 :
        Leads(s, h, s[x].r, x) /\ p[x] - p[h] <= s[h].len
  BY <1>8 DEF n
<1>10. h \in 1 .. Len(s) /\ x \in h .. Len(s)
  BY <1>3 DEF n
<1>11. BodyFrom(s, h, x) = p[x] - p[h]
  BY <1>2, <1>10, BodyFromIs
<1> QED BY <1>9, <1>11

-----------------------------------------------------------------------------
(* What the connection keeps to, so that every reply is in order.          *)

\* What is still to come: each header is of its request's kind, and behind
\* that of a websocket there are three tokens at most.
Coming(s) ==
  \A i \in 1 .. Len(s) :
    /\ s[i].k \in AllKinds \ {"junk"} => script[s[i].r] = s[i].k
    /\ s[i].k = "ws" => Len(s) - i <= 3

PingsEmpty(s) == \A i \in 1 .. Len(s) : s[i].k = "ping" => s[i].len = 0

\* What q, said of request r, has to do with the connection d: of the buffer
\* that is not yet said is unread, and cl is what the header has promised.
BodyKept(r, q, d) ==
  /\ q.ok
  /\ q.data + d.unread[r] = FileLen
  /\ d.cl > 0 => q.of = d.request /\ q.left = d.cl

\* A websocket that is open has had its handshake,
Shook(r, q, d) ==
  /\ ~q.bare
  /\ d.request_len = 1 /\ d.request = r /\ d.endpoint = "user_file" =>
       d.websocket /\ q.shaken

\* and has not been answered more often than tokens came; n still come.
Counted(r, q, d, n) ==
  /\ q.heads = 0 \/ q.heads + n <= 2
  /\ d.request_len = 1 /\ d.request = r => q.heads + n <= 2

\* All of it, of a connection whose client had the units a and from which the
\* tokens w are still to come.
Replies(a, d, w) ==
  /\ d.endpoint = "user_file" => d.request_len = 1
  /\ d.cl > 0 => d.endpoint = "user_file" /\ d.handle = d.request
  /\ PingsEmpty(d.remote)
  /\ Coming(d.local \o w)
  /\ \A r \in Requests :
       LET q == Told(r, a \o d.remote) IN
       /\ BodyKept(r, q, d)
       /\ script[r] = "ws" =>
            Shook(r, q, d) /\ Counted(r, q, d, Len(d.local) + Len(w))

\* Between two calls a request that was read has its endpoint.
RepliesOK(a, d, w) ==
  Replies(a, d, w) /\ (d.request_len = 1 => d.endpoint = "user_file")

LEMMA ComingTail ==
  ASSUME NEW s \in Seq(Token), Coming(s), NEW n \in 0 .. Len(s),
         NEW t, Len(t) = Len(s) - n, \A i \in 1 .. Len(t) : t[i] = s[n + i]
  PROVE  Coming(t)
<1>1. /\ Len(t) = Len(s) - n /\ Len(s) \in Nat
      /\ \A i \in 1 .. Len(t) : t[i] = s[n + i] /\ n + i \in 1 .. Len(s)
  OBVIOUS
<1> SUFFICES ASSUME NEW i \in 1 .. Len(t)
             PROVE  /\ t[i].k \in AllKinds \ {"junk"} =>
                         script[t[i].r] = t[i].k
                    /\ t[i].k = "ws" => Len(t) - i <= 3
  BY DEF Coming
<1>2. /\ s[n + i].k \in AllKinds \ {"junk"} =>
           script[s[n + i].r] = s[n + i].k
      /\ s[n + i].k = "ws" => Len(s) - (n + i) <= 3
  BY <1>1, Zenon DEF Coming
<1>3. Len(s) - (n + i) = Len(t) - i
  BY <1>1
<1> QED BY <1>1, <1>2, <1>3, Zenon

\* The first n tokens of local are dropped.
LEMMA ComingAfter ==
  ASSUME NEW s \in Seq(Token), NEW w \in Seq(Token), Coming(s \o w),
         NEW n \in 0 .. Len(s)
  PROVE  Coming(SubSeq(s, n + 1, Len(s)) \o w)
<1> DEFINE v == s \o w
           x == SubSeq(s, n + 1, Len(s))
           t == x \o w
<1>1. /\ v \in Seq(Token) /\ Len(v) = Len(s) + Len(w)
      /\ Len(s) \in Nat /\ Len(w) \in Nat /\ n \in Nat
      /\ \A i \in 1 .. Len(v) :
           v[i] = IF i <= Len(s) THEN s[i] ELSE w[i - Len(s)]
  OBVIOUS
<1>2. /\ x \in Seq(Token) /\ Len(x) = Len(s) - n
      /\ \A i \in 1 .. Len(x) : x[i] = s[n + i]
  OBVIOUS
<1> HIDE DEF v, x
<1>3. /\ Len(t) = Len(x) + Len(w)
      /\ \A i \in 1 .. Len(t) :
           t[i] = IF i <= Len(x) THEN x[i] ELSE w[i - Len(x)]
  <2>1. Len(t) = Len(x) + Len(w)
    BY <1>2, ConcatProperties
  <2>2. \A i \in 1 .. Len(x) + Len(w) :
          t[i] = IF i <= Len(x) THEN x[i] ELSE w[i - Len(x)]
    BY <1>2, ConcatProperties
  <2> HIDE DEF t
  <2> QED BY <2>1, <2>2
<1> HIDE DEF t
<1>4. Len(t) = Len(v) - n /\ n \in 0 .. Len(v)
  BY <1>1, <1>2, <1>3
<1>5. ASSUME NEW i \in 1 .. Len(t)
      PROVE  t[i] = v[n + i]
  <2>1. n + i \in 1 .. Len(v)
    BY <1>1, <1>4
  <2>2. CASE i <= Len(x)
    BY <1>1, <1>2, <1>3, <2>1, <2>2, SMTT(30)
  <2>3. CASE ~(i <= Len(x))
    <3>1. ~(n + i <= Len(s)) /\ i - Len(x) = n + i - Len(s)
      BY <1>1, <1>2, <1>4, <2>3
    <3>2. t[i] = w[i - Len(x)]
      BY <1>3, <2>3
    <3>3. v[n + i] = w[n + i - Len(s)]
      BY <1>1, <2>1, <3>1
    <3> QED BY <3>1, <3>2, <3>3, Zenon
  <2> QED BY <2>2, <2>3
<1>6. Coming(v)
  BY DEF v
<1>7. Coming(t)
  BY <1>1, <1>4, <1>5, <1>6, ComingTail, Zenon
<1> QED BY <1>7 DEF t, x

LEMMA PingsEmptyMore ==
  ASSUME NEW s \in Seq(UnitType), NEW u \in UnitType, PingsEmpty(s),
         u.k = "ping" => u.len = 0
  PROVE  PingsEmpty(Append(s, u))
<1>1. /\ Len(Append(s, u)) = Len(s) + 1 /\ Len(s) \in Nat
      /\ \A i \in 1 .. Len(s) : Append(s, u)[i] = s[i]
      /\ Append(s, u)[Len(s) + 1] = u
  BY AppendProperties
<1>2. \A i \in 1 .. Len(s) + 1 : i \in 1 .. Len(s) \/ i = Len(s) + 1
  BY <1>1
<1> QED BY <1>1, <1>2, Zenon DEF PingsEmpty

\* One more unit is spooled.
LEMMA SpoolTold ==
  ASSUME NEW r, NEW a \in Seq(UnitType), NEW s \in Seq(UnitType),
         NEW u \in UnitType
  PROVE  /\ Told(r, a \o s) \in Telling
         /\ Told(r, a \o Append(s, u)) \in Telling
         /\ Adds(r, Told(r, a \o s), u, Told(r, a \o Append(s, u)))
<1>1. a \o s \in Seq(UnitType)
  OBVIOUS
<1>2. Told(r, a \o s) \in Telling
  BY <1>1, ToldTyped
<1>3. Told(r, a \o Append(s, u)) = After(r, Told(r, a \o s), u)
  BY ToldFurther
<1> QED BY <1>2, <1>3, AfterTyped, AfterIs, Zenon

\* Units that are no part of a reply end the body before them.
Aside(r, q, u, e) ==
  /\ e.data = q.data /\ e.heads = q.heads
  /\ e.ok <=> q.ok
  /\ e.bare <=> q.bare
  /\ q.shaken => e.shaken
  /\ u = Unit("handshake", r, 0) => e.shaken

LEMMA AddsOther ==
  ASSUME NEW r, NEW q \in Telling, NEW u \in UnitType, NEW e,
         Adds(r, q, u, e), u.k \in {"error", "continue", "handshake"}
  PROVE  Aside(r, q, u, e)
<1>1. /\ u.k # "head" /\ u.k # "data" /\ u # Unit("head", r, FileLen)
  BY DEF Unit
<1>2. q.data + 0 = q.data /\ q.heads + 0 = q.heads
  <2>1. q.data \in Nat /\ q.heads \in Nat
    BY Zenon DEF Telling
  <2> QED BY <2>1
<1> QED BY <1>1, <1>2, Zenon DEF Adds, Aside

LEMMA CloseLocalFields ==
  ASSUME NEW d \in Conn
  PROVE  /\ CloseLocal(d).endpoint = "none" /\ CloseLocal(d).cl = 0
         /\ CloseLocal(d).request_len = 0
         /\ CloseLocal(d).remote = d.remote
         /\ CloseLocal(d).local = d.local
         /\ CloseLocal(d).unread = d.unread
BY DEF CloseLocal, Conn

\* close_local_endpoint: nothing is promised any more.
LEMMA CloseReplies ==
  ASSUME NEW a, NEW w, NEW d \in Conn, Replies(a, d, w)
  PROVE  RepliesOK(a, CloseLocal(d), w)
<1> DEFINE e == CloseLocal(d)
<1>1. /\ e.endpoint = "none" /\ e.cl = 0 /\ e.request_len = 0
      /\ e.remote = d.remote /\ e.local = d.local /\ e.unread = d.unread
  BY CloseLocalFields, Zenon
<1> HIDE DEF e
<1>2. ~(e.cl > 0) /\ e.request_len # 1 /\ e.endpoint # "user_file"
  BY <1>1
<1>3. ASSUME NEW r \in Requests, NEW q, BodyKept(r, q, d)
      PROVE  BodyKept(r, q, e)
  BY <1>1, <1>2, <1>3, Zenon DEF BodyKept
<1>4. ASSUME NEW r \in Requests, NEW q, Shook(r, q, d)
      PROVE  Shook(r, q, e)
  BY <1>2, <1>4, Zenon DEF Shook
<1>5. ASSUME NEW r \in Requests, NEW q, NEW n, Counted(r, q, d, n)
      PROVE  Counted(r, q, e, n)
  BY <1>2, <1>5, Zenon DEF Counted
<1>6. Replies(a, e, w)
  BY <1>1, <1>2, <1>3, <1>4, <1>5, Zenon DEF Replies
<1> QED BY <1>2, <1>6, Zenon DEF RepliesOK, e

LEMMA ErrorReplies ==
  ASSUME NEW a \in Seq(UnitType), NEW w, NEW d \in Conn, Replies(a, d, w),
         NEW r \in Requests
  PROVE  RepliesOK(a, SendError(d, r), w)
<1> DEFINE u == Unit("error", r, 0)
           s == Spool(d, u)
           e == CloseLocal(s)
<1>1. /\ u \in UnitType /\ u.k = "error"
      /\ u.k \in {"error", "continue", "handshake"}
  BY DEF Unit, UnitType
<1>2. /\ s \in Conn /\ s.remote = Append(d.remote, u)
      /\ s.local = d.local /\ s.unread = d.unread
  BY <1>1, SpoolTyped DEF Spool, Conn
<1> HIDE DEF s, u
<1>3. /\ e.endpoint = "none" /\ e.cl = 0 /\ e.request_len = 0
      /\ e.remote = Append(d.remote, u)
      /\ e.local = d.local /\ e.unread = d.unread
  BY <1>2, CloseLocalFields, Zenon
<1> HIDE DEF e
<1>4. ~(e.cl > 0) /\ e.request_len # 1 /\ e.endpoint # "user_file"
  BY <1>3
<1>5. d.remote \in Seq(UnitType)
  BY DEF Conn
<1>6. PingsEmpty(e.remote)
  <2>1. PingsEmpty(d.remote) /\ u.k # "ping"
    BY <1>1, Zenon DEF Replies
  <2> QED BY <1>1, <1>3, <1>5, <2>1, PingsEmptyMore, Zenon
<1>7. ASSUME NEW p \in Requests
      PROVE  LET q == Told(p, a \o e.remote) IN
             /\ BodyKept(p, q, e)
             /\ script[p] = "ws" =>
                  Shook(p, q, e) /\ Counted(p, q, e, Len(e.local) + Len(w))
  <2> DEFINE q == Told(p, a \o d.remote)
             o == Told(p, a \o e.remote)
  <2>1. q \in Telling /\ Adds(p, q, u, o)
    BY <1>1, <1>3, <1>5, SpoolTold, Zenon
  <2>2. BodyKept(p, q, d) /\ (script[p] = "ws" =>
          Shook(p, q, d) /\ Counted(p, q, d, Len(d.local) + Len(w)))
    BY Zenon DEF Replies
  <2> HIDE DEF q, o
  <2>3. Aside(p, q, u, o)
    BY <1>1, <2>1, AddsOther, Zenon
  <2>4. BodyKept(p, o, e)
    BY <1>3, <1>4, <2>2, <2>3, Zenon DEF BodyKept, Aside
  <2>5. script[p] = "ws" => Shook(p, o, e)
    BY <1>4, <2>2, <2>3, Zenon DEF Shook, Aside
  <2>6. script[p] = "ws" => Counted(p, o, e, Len(e.local) + Len(w))
    BY <1>3, <1>4, <2>2, <2>3, Zenon DEF Counted, Aside
  <2> QED BY <2>4, <2>5, <2>6, Zenon DEF o
<1>8. Coming(e.local \o w)
  BY <1>3, Zenon DEF Replies
<1>9. RepliesOK(a, e, w)
  BY <1>4, <1>6, <1>7, <1>8, Zenon DEF Replies, RepliesOK
<1> QED BY <1>9, Zenon DEF SendError, e, s, u

\* get_request_len: a header ends with its blank line.
LEMMA RequestLenMark ==
  ASSUME NEW io \in Seq(Token), RequestLen(io) > 0
  PROVE  /\ RequestLen(io) \in 1 .. Len(io)
         /\ io[RequestLen(io)].k \in {"end", "junk"}
<1> DEFINE marks == {i \in DOMAIN io : io[i].k \in {"end", "junk"}}
           first == CHOOSE i \in marks : \A j \in marks : i <= j
<1>1. DOMAIN io = 1 .. Len(io) /\ Len(io) \in Nat
  OBVIOUS
<1>2. RequestLen(io) = IF marks = {} THEN 0
                       ELSE IF io[first].k = "junk" THEN -1 ELSE first
  BY Zenon DEF RequestLen
<1>3. marks # {} /\ RequestLen(io) = first
  <2>1. RequestLen(io) # 0 /\ RequestLen(io) # -1
    OBVIOUS
  <2> HIDE DEF marks, first
  <2> QED BY <1>2, <2>1, Zenon
<1>4. marks \in SUBSET Nat
  BY <1>1
<1>5. PICK m \in marks : \A j \in marks : m <= j
  <2> HIDE DEF marks
  <2> QED BY <1>3, <1>4, LeastNumber
<1>6. first \in marks
  <2> HIDE DEF marks
  <2> QED BY <1>5, Zenon
<1> QED BY <1>1, <1>3, <1>6

\* The head of process_request: the frames that follow the header of a
\* websocket are the only ones that come.
LEMMA ParseReplies ==
  ASSUME NEW a \in Seq(UnitType), NEW w \in Seq(Token), NEW d, ConnOK(d),
         RepliesOK(a, d, w)
  PROVE  Replies(a, Parse(d), w)
<1> DEFINE e == Parse(d)
           n == RequestLen(d.local)
<1>1. /\ d \in Conn /\ d.local \in Seq(Token) /\ d.remote \in Seq(UnitType)
      /\ d.request_len \in {-1, 0, 1} /\ d.cl \in Nat
  BY DEF ConnOK, Parsed, Conn
<1>2. Replies(a, d, w)
  BY Zenon DEF RepliesOK
<1>3. CASE d.request_len # 0
  <2>1. e = d
    BY <1>3 DEF Parse
  <2> QED BY <1>2, <2>1, Zenon
<1>4. CASE d.request_len = 0
  <2>1. d.endpoint # "user_file" /\ ~(d.cl > 0)
    <3>1. d.request_len # 1
      BY <1>4
    <3> QED BY <1>2, <3>1, Zenon DEF Replies
  <2>2. n = 0 \/ n \in {-1} \cup 1 .. Len(d.local)
    BY <1>1, RequestLenIs
  <2> HIDE DEF n
  <2> DEFINE len == IF IsRequest(d.local) THEN 1 ELSE -1
             x == SubSeq(d.local, n + 1, Len(d.local))
             m == Len(d.local) + Len(w)
  <2>3. CASE n <= 0
    <3>1. e = [d EXCEPT !.request_len = n]
      BY <1>4, <2>3 DEF Parse, n
    <3>2. /\ e.request_len = n /\ e.endpoint = d.endpoint /\ e.cl = d.cl
          /\ e.remote = d.remote /\ e.local = d.local
          /\ e.unread = d.unread
      BY <1>1, <3>1 DEF Conn
    <3>3. e.request_len # 1 /\ e.endpoint # "user_file" /\ ~(e.cl > 0)
      BY <2>1, <2>3, <3>2
    <3> HIDE DEF e
    <3>4. ASSUME NEW r \in Requests, NEW q, BodyKept(r, q, d)
          PROVE  BodyKept(r, q, e)
      BY <3>2, <3>3, <3>4, Zenon DEF BodyKept
    <3>5. ASSUME NEW r \in Requests, NEW q, Shook(r, q, d)
          PROVE  Shook(r, q, e)
      BY <3>3, <3>5, Zenon DEF Shook
    <3>6. ASSUME NEW r \in Requests, NEW q, Counted(r, q, d, m)
          PROVE  Counted(r, q, e, m)
      BY <3>3, <3>6, Zenon DEF Counted
    <3>7. Replies(a, e, w)
      BY <1>2, <3>2, <3>3, <3>4, <3>5, <3>6, Zenon DEF Replies
    <3> QED BY <3>7 DEF e
  <2>4. CASE n > 0
    <3>1. e = [d EXCEPT !.local = x, !.request = d.local[1].r,
                        !.websocket = FALSE, !.request_len = len]
      <4>1. ~(n <= 0)
        BY <2>2, <2>4
      <4> QED BY <1>4, <4>1 DEF Parse, n
    <3>2. n \in 1 .. Len(d.local) /\ d.local[n].k \in {"end", "junk"}
      BY <1>1, <2>4, RequestLenMark DEF n
    <3> HIDE DEF len, x
    <3>3. /\ e.request_len = len /\ e.endpoint = d.endpoint /\ e.cl = d.cl
          /\ e.remote = d.remote /\ e.local = x
          /\ e.unread = d.unread /\ e.request = d.local[1].r
      BY <1>1, <3>1 DEF Conn
    <3> HIDE DEF e
    <3>4. e.endpoint # "user_file" /\ ~(e.cl > 0)
      BY <2>1, <3>3
    <3>5. Len(x) = Len(d.local) - n /\ Len(w) \in Nat /\ Len(d.local) \in Nat
      BY <1>1, <3>2 DEF x
    <3>6. Coming(e.local \o w)
      <4>1. n \in 0 .. Len(d.local) /\ Coming(d.local \o w)
        BY <1>2, <3>2 DEF Replies
      <4>2. Coming(x \o w)
        BY <1>1, <4>1, ComingAfter, Zenon DEF x
      <4> QED BY <3>3, <4>2, Zenon
    <3>7. ASSUME NEW r \in Requests, NEW q, BodyKept(r, q, d)
          PROVE  BodyKept(r, q, e)
      BY <3>3, <3>4, <3>7, Zenon DEF BodyKept
    <3>8. ASSUME NEW r \in Requests, NEW q, Shook(r, q, d)
          PROVE  Shook(r, q, e)
      BY <3>4, <3>8, Zenon DEF Shook
    <3>9. ASSUME NEW r \in Requests, e.request_len = 1, e.request = r,
                 script[r] = "ws"
          PROVE  Len(x) + Len(w) <= 2
      <4> DEFINE v == d.local \o w
      <4>1. /\ v \in Seq(Token) /\ Len(v) = m
            /\ \A i \in 1 .. Len(d.local) : v[i] = d.local[i]
        BY <1>1, ConcatProperties
      <4>2. IsRequest(d.local)
        BY <3>3, <3>9 DEF len
      <4>3. 1 \in 1 .. Len(v) /\ v[1] = d.local[1]
        BY <3>2, <3>5, <4>1
      <4>4. v[1].k \in AllKinds \ {"junk"}
        BY <4>2, <4>3, Zenon DEF IsRequest
      <4>5. Coming(v)
        BY <1>2, Zenon DEF Replies
      <4> HIDE DEF v
      <4>6. v[1].k = "ws"
        BY <3>3, <3>9, <4>3, <4>4, <4>5, Zenon DEF Coming
      <4>7. Len(v) - 1 <= 3
        BY <4>3, <4>5, <4>6, Zenon DEF Coming
      <4>8. n # 1
        BY <3>2, <4>3, <4>6
      <4> QED BY <3>2, <3>5, <4>1, <4>7, <4>8
    <3>10. ASSUME NEW r \in Requests, NEW q \in Telling, Counted(r, q, d, m),
                  script[r] = "ws"
           PROVE  Counted(r, q, e, Len(x) + Len(w))
      <4>1. q.heads \in Nat
        BY Zenon DEF Telling
      <4>2. q.heads = 0 \/ q.heads + m <= 2
        BY <3>10, Zenon DEF Counted
      <4>3. Len(x) + Len(w) <= m
        BY <3>2, <3>5
      <4>4. q.heads = 0 \/ q.heads + (Len(x) + Len(w)) <= 2
        <5> HIDE DEF m
        <5>1. m \in Nat
          BY <3>5 DEF m
        <5>2. Len(x) \in Nat
          BY <3>2, <3>5
        <5> QED BY <3>5, <4>1, <4>2, <4>3, <5>1, <5>2
      <4>5. ASSUME e.request_len = 1, e.request = r
            PROVE  q.heads + (Len(x) + Len(w)) <= 2
        <5>1. Len(x) + Len(w) <= 2
          BY <3>9, <3>10, <4>5, Zenon
        <5>2. Len(x) \in Nat
          BY <3>2, <3>5
        <5> QED BY <3>5, <4>4, <5>1, <5>2
      <4> QED BY <4>4, <4>5, Zenon DEF Counted
    <3>11. ASSUME NEW r \in Requests
           PROVE  Told(r, a \o d.remote) \in Telling
      <4>1. a \o d.remote \in Seq(UnitType)
        BY <1>1
      <4> QED BY <4>1, ToldTyped
    <3>12. Replies(a, e, w)
      BY <1>2, <3>3, <3>4, <3>6, <3>7, <3>8, <3>10, <3>11, Zenon DEF Replies
    <3> QED BY <3>12 DEF e
  <2> QED BY <2>2, <2>3, <2>4
<1> QED BY <1>3, <1>4

\* A unit that is no part of a reply, while nothing is promised.
LEMMA AsideReplies ==
  ASSUME NEW a \in Seq(UnitType), NEW w, NEW d \in Conn, Replies(a, d, w),
         d.endpoint = "none", NEW u \in UnitType,
         u.k \in {"error", "continue", "handshake"}
  PROVE  Replies(a, Spool(d, u), w)
<1> DEFINE e == Spool(d, u)
<1>1. /\ e.endpoint = d.endpoint /\ e.cl = d.cl /\ e.request = d.request
      /\ e.request_len = d.request_len /\ e.local = d.local
      /\ e.unread = d.unread /\ e.remote = Append(d.remote, u)
  BY DEF Spool, Conn
<1> HIDE DEF e
<1>2. e.endpoint # "user_file" /\ ~(e.cl > 0) /\ u.k # "ping"
  <2>1. d.endpoint # "user_file" /\ u.k # "ping"
    OBVIOUS
  <2> QED BY <1>1, <2>1, Zenon DEF Replies
<1>3. d.remote \in Seq(UnitType)
  BY DEF Conn
<1>4. PingsEmpty(e.remote)
  <2>1. PingsEmpty(d.remote)
    BY Zenon DEF Replies
  <2> QED BY <1>1, <1>2, <1>3, <2>1, PingsEmptyMore, Zenon
<1>5. ASSUME NEW p \in Requests
      PROVE  LET q == Told(p, a \o e.remote) IN
             /\ BodyKept(p, q, e)
             /\ script[p] = "ws" =>
                  Shook(p, q, e) /\ Counted(p, q, e, Len(e.local) + Len(w))
  <2> DEFINE q == Told(p, a \o d.remote)
             o == Told(p, a \o e.remote)
  <2>1. q \in Telling /\ Adds(p, q, u, o)
    BY <1>1, <1>3, SpoolTold, Zenon
  <2>2. BodyKept(p, q, d) /\ (script[p] = "ws" =>
          Shook(p, q, d) /\ Counted(p, q, d, Len(d.local) + Len(w)))
    BY Zenon DEF Replies
  <2> HIDE DEF q, o
  <2>3. Aside(p, q, u, o)
    BY <2>1, AddsOther, Zenon
  <2>4. BodyKept(p, o, e)
    BY <1>1, <1>2, <2>2, <2>3, Zenon DEF BodyKept, Aside
  <2>5. script[p] = "ws" => Shook(p, o, e)
    BY <1>2, <2>2, <2>3, Zenon DEF Shook, Aside
  <2>6. script[p] = "ws" => Counted(p, o, e, Len(e.local) + Len(w))
    BY <1>1, <2>2, <2>3, Zenon DEF Counted, Aside
  <2> QED BY <2>4, <2>5, <2>6, Zenon DEF o
<1>6. Coming(e.local \o w)
  BY <1>1, Zenon DEF Replies
<1>7. Replies(a, e, w)
  BY <1>2, <1>4, <1>5, <1>6, Zenon DEF Replies
<1> QED BY <1>7 DEF e

\* A request for a websocket has been answered with the handshake.
Greeted(a, d) ==
  script[d.request] = "ws" =>
    d.websocket /\ Told(d.request, a \o d.remote).shaken

\* open_local_endpoint: a websocket has its handshake before its handler is
\* called for the first time.
LEMMA OpenReplies ==
  ASSUME NEW a \in Seq(UnitType), NEW w, NEW d, Parsed(d), Replies(a, d, w),
         d.request_len = 1, d.endpoint = "none"
  PROVE  Replies(a, OpenLocal(SendContinue(HandshakeIfRequested(d))), w)
<1> DEFINE h == HandshakeIfRequested(d)
           s == SendContinue(h)
           e == OpenLocal(s)
<1>1. d \in Conn /\ d.request \in Requests
  BY DEF Parsed
<1>2. /\ h \in Conn /\ Replies(a, h, w) /\ Greeted(a, h)
      /\ h.request = d.request /\ h.endpoint = "none" /\ h.request_len = 1
  <2> DEFINE g == [d EXCEPT !.websocket = TRUE]
             u == Unit("handshake", g.request, 0)
             asked == /\ HasHeader(d, "Sec-WebSocket-Version")
                      /\ HasHeader(d, "Sec-WebSocket-Key")
  <2>1. h = IF asked THEN Spool(g, u) ELSE d
    BY Zenon DEF HandshakeIfRequested, SendHandshake
  <2>2. script[d.request] = "ws" => asked
    BY DEF HasHeader, Headers, Kind
  <2>3. /\ g \in Conn /\ g.request = d.request /\ g.websocket = TRUE
        /\ g.request_len = 1 /\ g.endpoint = "none" /\ g.cl = d.cl
        /\ g.remote = d.remote /\ g.local = d.local
        /\ g.unread = d.unread /\ g.handle = d.handle
    BY <1>1 DEF Conn
  <2> HIDE DEF g, asked, h
  <2>4. /\ u \in UnitType /\ u.k = "handshake"
        /\ u.k \in {"error", "continue", "handshake"}
    BY <1>1, <2>3 DEF Unit, UnitType
  <2>5. Replies(a, g, w)
    <3>1. "none" # "user_file"
      OBVIOUS
    <3>2. ASSUME NEW r \in Requests, NEW q, BodyKept(r, q, d)
          PROVE  BodyKept(r, q, g)
      BY <2>3, <3>2, Zenon DEF BodyKept
    <3>3. ASSUME NEW r \in Requests, NEW q, Shook(r, q, d)
          PROVE  Shook(r, q, g)
      BY <2>3, <3>1, <3>3, Zenon DEF Shook
    <3>4. ASSUME NEW r \in Requests, NEW q, NEW n, Counted(r, q, d, n)
          PROVE  Counted(r, q, g, n)
      BY <2>3, <3>4, Zenon DEF Counted
    <3> QED BY <2>3, <3>1, <3>2, <3>3, <3>4, Zenon DEF Replies
  <2>6. CASE ~asked
    <3>1. h = d
      BY <2>1, <2>6, Zenon
    <3> QED BY <1>1, <2>2, <2>6, <3>1, Zenon DEF Greeted
  <2>7. CASE asked
    <3>1. h = Spool(g, u)
      BY <2>1, <2>7, Zenon
    <3>2. h \in Conn /\ Replies(a, h, w)
      BY <2>3, <2>4, <2>5, <3>1, SpoolTyped, AsideReplies, Zenon
    <3>3. /\ h.request = d.request /\ h.endpoint = "none"
          /\ h.request_len = 1 /\ h.websocket = TRUE
          /\ h.remote = Append(d.remote, u)
      BY <2>3, <3>1 DEF Spool, Conn
    <3>4. Told(d.request, a \o h.remote).shaken
      <4> DEFINE q == Told(d.request, a \o d.remote)
                 o == Told(d.request, a \o h.remote)
      <4>1. d.remote \in Seq(UnitType)
        BY <1>1 DEF Conn
      <4>2. q \in Telling /\ Adds(d.request, q, u, o)
        BY <2>4, <3>3, <4>1, SpoolTold, Zenon
      <4> HIDE DEF q, o
      <4>3. Aside(d.request, q, u, o)
        BY <2>4, <4>2, AddsOther, Zenon
      <4>4. u = Unit("handshake", d.request, 0)
        BY <2>3, Zenon
      <4> QED BY <4>3, <4>4, Zenon DEF Aside, o
    <3> QED BY <3>2, <3>3, <3>4, Zenon DEF Greeted
  <2> QED BY <2>6, <2>7
<1>3. /\ s \in Conn /\ Replies(a, s, w) /\ Greeted(a, s)
      /\ s.request = d.request /\ s.endpoint = "none" /\ s.request_len = 1
  <2> DEFINE u == Unit("continue", h.request, 0)
  <2>1. s = h \/ s = Spool(h, u)
    BY Zenon DEF SendContinue
  <2> HIDE DEF h, s
  <2>2. CASE s = h
    BY <1>2, <2>2, Zenon
  <2>3. CASE s = Spool(h, u)
    <3>1. u \in UnitType /\ u.k \in {"error", "continue", "handshake"}
      BY <1>1, <1>2 DEF Unit, UnitType
    <3> HIDE DEF u
    <3>2. s \in Conn /\ Replies(a, s, w)
      BY <1>2, <2>3, <3>1, SpoolTyped, AsideReplies, Zenon
    <3>3. /\ s.request = h.request /\ s.endpoint = h.endpoint
          /\ s.request_len = h.request_len /\ s.websocket = h.websocket
          /\ s.remote = Append(h.remote, u)
      BY <1>2, <2>3 DEF Spool, Conn
    <3>4. Told(h.request, a \o h.remote).shaken =>
            Told(h.request, a \o s.remote).shaken
      <4> DEFINE q == Told(h.request, a \o h.remote)
                 o == Told(h.request, a \o s.remote)
      <4>1. h.remote \in Seq(UnitType)
        BY <1>2 DEF Conn
      <4>2. q \in Telling /\ Adds(h.request, q, u, o)
        BY <3>1, <3>3, <4>1, SpoolTold, Zenon
      <4> HIDE DEF q, o
      <4>3. Aside(h.request, q, u, o)
        BY <3>1, <4>2, AddsOther, Zenon
      <4> QED BY <4>3, Zenon DEF Aside, q, o
    <3> QED BY <1>2, <3>2, <3>3, <3>4, Zenon DEF Greeted
  <2> QED BY <2>1, <2>2, <2>3
<1> HIDE DEF h, s
<1>4. /\ e.request_len = 1 /\ e.request = s.request /\ e.cl = s.cl
      /\ e.remote = s.remote /\ e.local = s.local /\ e.unread = s.unread
      /\ e.websocket = s.websocket /\ e.handle = s.handle
  BY <1>3 DEF OpenLocal, Conn
<1> HIDE DEF e
<1>5. ~(s.cl > 0)
  <2>1. s.endpoint # "user_file"
    BY <1>3
  <2> QED BY <1>3, <2>1, Zenon DEF Replies
<1>6. ASSUME NEW r \in Requests, NEW q, BodyKept(r, q, s)
      PROVE  BodyKept(r, q, e)
  BY <1>4, <1>6, Zenon DEF BodyKept
<1>7. ASSUME NEW r \in Requests, script[r] = "ws",
             Shook(r, Told(r, a \o s.remote), s)
      PROVE  Shook(r, Told(r, a \o s.remote), e)
  BY <1>3, <1>4, <1>7, Zenon DEF Shook, Greeted
<1>8. ASSUME NEW r \in Requests, NEW q, NEW n, Counted(r, q, s, n)
      PROVE  Counted(r, q, e, n)
  BY <1>3, <1>4, <1>8, Zenon DEF Counted
<1>9. Replies(a, e, w)
  BY <1>3, <1>4, <1>5, <1>6, <1>7, <1>8, Zenon DEF Replies
<1> QED BY <1>9 DEF e, h, s

LEMMA DecideReplies ==
  ASSUME NEW a \in Seq(UnitType), NEW w, NEW d, Parsed(d), Replies(a, d, w)
  PROVE  RepliesOK(a, Decide(d), w)
<1> DEFINE e == Decide(d)
<1>1. d \in Conn /\ d.local \in Seq(Token) /\ d.request_len \in {-1, 0, 1}
      /\ d.endpoint \in {"none", "user_file"}
  BY DEF Parsed, Conn
<1>2. ASSUME NEW r \in Requests, e = SendError(d, r)
      PROVE  RepliesOK(a, e, w)
  BY <1>1, <1>2, ErrorReplies, Zenon
<1>3. d.local # <<>> => d.local[1].r \in Requests
  <2> SUFFICES ASSUME d.local # <<>> PROVE d.local[1].r \in Requests
    OBVIOUS
  <2>1. d.local[1] \in Token
    BY <1>1
  <2> QED BY <2>1 DEF Token
<1>4. CASE d.request_len = -1
  <2> DEFINE r == IF d.request = NULL THEN d.local[1].r ELSE d.request
  <2>1. r \in Requests
    <3>1. d.request \in Requests \cup {NULL} /\ 0 \notin Requests
      BY <1>1 DEF Conn, Requests
    <3>2. d.request \in Requests \/ d.local # <<>>
      BY <1>4 DEF Parsed
    <3> QED BY <1>3, <3>1, <3>2 DEF NULL
  <2>2. e = SendError(d, r)
    BY <1>4 DEF Decide
  <2> HIDE DEF r, e
  <2> QED BY <1>2, <2>1, <2>2 DEF e
<1>5. CASE d.request_len = 0
  <2>1. CASE Len(d.local) > MaxRequestSize
    <3>1. d.local # <<>>
      BY <1>1, <2>1, ConnAssumption
    <3>2. e = SendError(d, d.local[1].r)
      BY <1>5, <2>1 DEF Decide
    <3> QED BY <1>2, <1>3, <3>1, <3>2, Zenon
  <2>2. CASE ~(Len(d.local) > MaxRequestSize)
    <3>1. e = d
      BY <1>5, <2>2 DEF Decide
    <3>2. d.request_len # 1
      BY <1>5
    <3> QED BY <3>1, <3>2, Zenon DEF RepliesOK
  <2> QED BY <2>1, <2>2
<1>6. CASE d.request_len = 1
  <2>1. d.request \in Requests /\ d.request # NULL
    BY <1>6 DEF Parsed, NULL, Requests
  <2>2. CASE ~ValidUri(d) \/ Kind(d) = "old"
    <3>1. e = SendError(d, d.request)
      BY <1>6, <2>1, <2>2 DEF Decide
    <3> QED BY <1>2, <2>1, <3>1, Zenon
  <2>3. CASE ValidUri(d) /\ Kind(d) # "old" /\ d.endpoint = "none"
    <3> DEFINE s == SendContinue(HandshakeIfRequested(d))
    <3>1. e = OpenLocal(s)
      BY <1>6, <2>3 DEF Decide
    <3>2. Replies(a, OpenLocal(s), w)
      BY <1>6, <2>3, OpenReplies, Zenon
    <3>3. s \in Conn /\ s.request = d.request
      <4>1. \A x \in Conn, u \in UnitType :
              Spool(x, u) \in Conn /\ Spool(x, u).request = x.request
        BY SpoolTyped
      <4> DEFINE h == HandshakeIfRequested(d)
                 g == [d EXCEPT !.websocket = TRUE]
      <4>2. g \in Conn /\ g.request = d.request
        BY <1>1 DEF Conn
      <4>3. h = d \/ h = Spool(g, Unit("handshake", g.request, 0))
        BY Zenon DEF HandshakeIfRequested, SendHandshake
      <4>4. s = h \/ s = Spool(h, Unit("continue", h.request, 0))
        BY Zenon DEF SendContinue
      <4>5. /\ Unit("handshake", d.request, 0) \in UnitType
            /\ Unit("continue", d.request, 0) \in UnitType
        BY <2>1 DEF Unit, UnitType
      <4> HIDE DEF g, h, s
      <4>6. h \in Conn /\ h.request = d.request
        <5> DEFINE u == Unit("handshake", g.request, 0)
        <5>1. u \in UnitType
          BY <4>2, <4>5, Zenon
        <5> HIDE DEF u
        <5>2. Spool(g, u) \in Conn /\ Spool(g, u).request = g.request
          BY <4>1, <4>2, <5>1, Zenon
        <5>3. h = d \/ h = Spool(g, u)
          BY <4>3, Zenon DEF u
        <5> QED BY <1>1, <4>2, <5>2, <5>3, Zenon
      <4> QED BY <4>1, <4>4, <4>5, <4>6, Zenon
    <3> HIDE DEF s
    <3>4. HandlerFound(s)
      BY <2>3, <3>3, Zenon DEF HandlerFound, ValidUri, Kind
    <3>5. OpenLocal(s).endpoint = "user_file"
      BY <3>3, <3>4 DEF OpenLocal, Conn
    <3> QED BY <3>1, <3>2, <3>5, Zenon DEF RepliesOK
  <2>4. CASE ValidUri(d) /\ Kind(d) # "old" /\ d.endpoint # "none"
    <3>1. e = d
      BY <1>6, <2>4 DEF Decide
    <3>2. d.endpoint = "user_file"
      BY <1>1, <2>4
    <3> QED BY <3>1, <3>2, Zenon DEF RepliesOK
  <2> QED BY <2>2, <2>3, <2>4
<1> QED BY <1>1, <1>4, <1>5, <1>6

\* A header begins a body.
Heads(r, q, u, e) ==
  /\ e.of = u.r /\ e.left = u.len /\ e.data = q.data
  /\ e.heads = q.heads + IF u = Unit("head", r, FileLen) THEN 1 ELSE 0
  /\ e.ok <=> q.ok
  /\ e.shaken <=> q.shaken
  /\ e.bare <=> q.bare \/ (u.r = r /\ ~q.shaken)

LEMMA AddsHead ==
  ASSUME NEW r, NEW q \in Telling, NEW u, NEW e, Adds(r, q, u, e),
         u.k = "head"
  PROVE  Heads(r, q, u, e)
<1>1. u.k # "data" /\ u # Unit("handshake", r, 0)
  BY DEF Unit
<1>2. q.data + 0 = q.data
  <2>1. q.data \in Nat
    BY Zenon DEF Telling
  <2> QED BY <2>1
<1> QED BY <1>1, <1>2, Zenon DEF Adds, Heads

\* user_defined_requst: the header promises what is then read.  For a
\* websocket it is called once for each frame, which is removed: x is what is
\* left of local.
LEMMA HandlerReplies ==
  ASSUME NEW a \in Seq(UnitType), NEW w \in Seq(Token), NEW d \in Conn,
         Replies(a, d, w), d.endpoint = "user_file", d.request \in Requests,
         NEW x \in Seq(Token), Coming(x \o w), Len(x) <= Len(d.local),
         script[d.request] = "ws" => Len(x) + 1 <= Len(d.local),
         NEW e, e.local = x, e.remote = Handler(d).remote,
         e.handle = Handler(d).handle, e.cl = Handler(d).cl,
         e.endpoint = d.endpoint, e.request = d.request,
         e.request_len = d.request_len, e.websocket = d.websocket,
         e.unread = d.unread
  PROVE  Replies(a, e, w)
<1> DEFINE l == LengthOf(d)
           u == Unit("head", d.request, l)
<1>1. l \in Nat /\ (l > 0 => FileOf(d) = d.request)
  BY ConnAssumption DEF LengthOf, FileOf
<1>2. e.handle = FileOf(d) /\ e.cl = l /\ e.remote = Append(d.remote, u)
  BY DEF Handler, Spool, Conn, Announced
<1>3. u \in UnitType /\ u.k = "head" /\ u.r = d.request /\ u.len = l
  BY <1>1 DEF Unit, UnitType
<1>4. u.k # "ping"
  BY <1>3
<1>5. d.request_len = 1
  BY Zenon DEF Replies
<1>6. d.remote \in Seq(UnitType) /\ d.local \in Seq(Token)
  BY DEF Conn
<1>7. u = Unit("head", d.request, FileLen) <=> l = FileLen
  BY DEF Unit
<1>8. \A r : u = Unit("head", r, FileLen) => r = d.request
  BY DEF Unit
<1> HIDE DEF l, u
<1>9. PingsEmpty(e.remote)
  <2>1. PingsEmpty(d.remote)
    BY Zenon DEF Replies
  <2> QED BY <1>2, <1>3, <1>4, <1>6, <2>1, PingsEmptyMore, Zenon
<1>10. ASSUME NEW p \in Requests
       PROVE  LET q == Told(p, a \o e.remote) IN
              /\ BodyKept(p, q, e)
              /\ script[p] = "ws" =>
                   Shook(p, q, e) /\ Counted(p, q, e, Len(e.local) + Len(w))
  <2> DEFINE q == Told(p, a \o d.remote)
             o == Told(p, a \o e.remote)
             m == Len(d.local) + Len(w)
             n == Len(x) + Len(w)
  <2>1. q \in Telling /\ Adds(p, q, u, o)
    BY <1>2, <1>3, <1>6, SpoolTold, Zenon
  <2>2. BodyKept(p, q, d) /\ (script[p] = "ws" =>
          Shook(p, q, d) /\ Counted(p, q, d, m))
    BY Zenon DEF Replies
  <2> HIDE DEF q, o
  <2>3. Heads(p, q, u, o)
    BY <1>3, <2>1, AddsHead, Zenon
  <2>4. BodyKept(p, o, e)
    BY <1>2, <1>3, <2>2, <2>3, Zenon DEF BodyKept, Heads
  <2>5. script[p] = "ws" => Shook(p, o, e)
    BY <1>3, <1>5, <2>2, <2>3, Zenon DEF Shook, Heads
  <2>6. ASSUME script[p] = "ws" PROVE Counted(p, o, e, n)
    <3>1. q.heads \in Nat
      BY <2>1, Zenon DEF Telling
    <3>2. m \in Nat /\ n \in Nat /\ n <= m
      BY <1>6
    <3>3. Counted(p, q, d, m)
      BY <2>2, <2>6, Zenon
    <3>4. CASE d.request = p
      <4>1. q.heads + m <= 2
        BY <1>5, <3>3, <3>4, Zenon DEF Counted
      <4>2. n + 1 <= m
        BY <1>6, <2>6, <3>4
      <4>3. o.heads = q.heads + 1 \/ o.heads = q.heads + 0
        BY <2>3, Zenon DEF Heads
      <4>4. o.heads + n <= 2
        <5> HIDE DEF m, n
        <5> QED BY <3>1, <3>2, <4>1, <4>2, <4>3
      <4> QED BY <4>4, Zenon DEF Counted
    <3>5. CASE d.request # p
      <4>1. u # Unit("head", p, FileLen)
        BY <1>8, <3>5, Zenon
      <4>2. o.heads = q.heads
        <5>1. o.heads = q.heads + 0
          BY <2>3, <4>1, Zenon DEF Heads
        <5> QED BY <3>1, <5>1
      <4>3. q.heads = 0 \/ q.heads + m <= 2
        BY <3>3, Zenon DEF Counted
      <4>4. o.heads = 0 \/ o.heads + n <= 2
        <5> HIDE DEF m, n
        <5> QED BY <3>1, <3>2, <4>2, <4>3
      <4> QED BY <3>5, <4>4, Zenon DEF Counted
    <3> QED BY <3>4, <3>5
  <2> QED BY <2>4, <2>5, <2>6, Zenon DEF o
<1>11. e.cl > 0 => e.endpoint = "user_file" /\ e.handle = e.request
  BY <1>1, <1>2
<1> QED BY <1>5, <1>9, <1>10, <1>11, Zenon DEF Replies

\* deliver_websocket_frame, over and over.
LEMMA DeliverReplies ==
  ASSUME NEW a \in Seq(UnitType), NEW w \in Seq(Token), NEW d \in Conn,
         Replies(a, d, w), d.endpoint = "user_file", d.request \in Requests
  PROVE  Replies(a, Deliver(d), w)
<1> DEFINE n == Len(d.local)
<1>1. PICK h : Delivered(d, h) /\ Deliver(d) = h[n]
  BY DeliverSteps
<1>2. n \in Nat
  BY DEF Conn
<1>3. \A i \in 0 .. n : h[i] \in SameRequest(d)
  BY <1>1, Zenon DEF Delivered
<1>4. \A i \in 1 .. n : h[i] = OneFrame(h[i - 1])
  BY <1>1, Zenon DEF Delivered
<1> DEFINE S == {i \in 0 .. n : Replies(a, h[i], w)
                                /\ Len(h[i].local) = n - i}
<1>5. 0 \in S
  <2>1. h[0] = d
    BY <1>1, Zenon DEF Delivered
  <2>2. n = n - 0 /\ 0 \in 0 .. n
    BY <1>2
  <2> QED BY <2>1, <2>2, Zenon
<1>6. ASSUME NEW i \in 1 .. n, i - 1 \in S
      PROVE  i \in S
  <2> DEFINE g == h[i - 1]
             x == SubSeq(g.local, 2, Len(g.local))
             e == h[i]
  <2>1. i - 1 \in 0 .. n /\ i \in 0 .. n /\ n - (i - 1) = (n - i) + 1
        /\ n - i \in Nat
    BY <1>2
  <2>2. Replies(a, g, w) /\ Len(g.local) = (n - i) + 1
    BY <1>6, <2>1
  <2>3. g \in SameRequest(d) /\ e \in SameRequest(d)
    BY <1>3, <2>1
  <2>4. e = OneFrame(g)
    BY <1>4
  <2> HIDE DEF g, n
  <2>5. /\ g \in Conn /\ g.endpoint = "user_file" /\ g.request \in Requests
        /\ e.endpoint = g.endpoint /\ e.request = g.request
        /\ e.request_len = g.request_len
    BY <2>3 DEF SameRequest
  <2>6. g.local \in Seq(Token)
    BY <2>5 DEF Conn
  <2>7. x \in Seq(Token) /\ Len(x) = n - i
    BY <2>1, <2>2, <2>6
  <2>8. Coming(x \o w)
    <3>1. 1 \in 0 .. Len(g.local) /\ 1 + 1 = 2
      BY <2>1, <2>2
    <3>2. Coming(g.local \o w)
      BY <2>2, Zenon DEF Replies
    <3>3. Coming(SubSeq(g.local, 1 + 1, Len(g.local)) \o w)
      BY <2>6, <3>1, <3>2, ComingAfter, Zenon
    <3> QED BY <3>1, <3>3, Zenon
  <2>9. /\ e.local = x /\ e.remote = Handler(g).remote
        /\ e.handle = Handler(g).handle /\ e.cl = Handler(g).cl
        /\ e.websocket = g.websocket /\ e.unread = g.unread
    <3>1. /\ Handler(g) \in Conn /\ Handler(g).local = g.local
          /\ Handler(g).websocket = g.websocket
          /\ Handler(g).unread = g.unread
      <4>1. Handler(g) \in Conn
        BY <2>5, HandlerIs
      <4> QED BY <2>5, <4>1 DEF Handler, Spool, Conn
    <3> DEFINE k == Handler(g)
    <3>2. e = [k EXCEPT !.local = SubSeq(@, 2, Len(@)), !.content_len = 1]
      BY <2>4 DEF OneFrame
    <3> HIDE DEF k, e
    <3>3. k \in Conn
      BY <3>1 DEF k
    <3>4. /\ e.local = SubSeq(k.local, 2, Len(k.local))
          /\ e.remote = k.remote /\ e.handle = k.handle /\ e.cl = k.cl
          /\ e.websocket = k.websocket /\ e.unread = k.unread
      BY <3>2, <3>3 DEF Conn
    <3> QED BY <3>1, <3>4, Zenon DEF k
  <2>10. Len(x) <= Len(g.local) /\ Len(x) + 1 <= Len(g.local)
    BY <2>1, <2>2, <2>7
  <2> HIDE DEF x, e
  <2>11. Replies(a, e, w)
    BY <2>2, <2>5, <2>7, <2>8, <2>9, <2>10, HandlerReplies, Zenon
  <2> QED BY <2>1, <2>7, <2>9, <2>11, Zenon DEF e
<1> HIDE DEF S, n
<1>7. n \in S
  <2>1. \A i \in 0 .. n : i \in S
    BY <1>2, <1>5, <1>6, UpTo
  <2> QED BY <1>2, <2>1
<1> QED BY <1>1, <1>7 DEF S, n

LEMMA ProcessReplies ==
  ASSUME NEW a \in Seq(UnitType), NEW w \in Seq(Token), NEW d, ConnOK(d),
         RepliesOK(a, d, w)
  PROVE  RepliesOK(a, ProcessRequest(d), w)
<1> DEFINE e == Decide(Parse(d))
           t == ProcessRequest(d)
<1>1. ConnOK(e) /\ RepliesOK(a, e, w)
  <2>1. Parsed(Parse(d)) /\ Replies(a, Parse(d), w)
    BY ParseIs, ParseReplies, Zenon
  <2> QED BY <2>1, DecideIs, DecideReplies, Zenon
<1> HIDE DEF e
<1>2. CASE e.endpoint # "user_file"
  <2>1. t = e
    BY <1>2 DEF ProcessRequest, e
  <2> QED BY <1>1, <2>1, Zenon
<1>3. CASE e.endpoint = "user_file"
  <2>1. e \in Conn /\ e.request \in Requests /\ e.local \in Seq(Token)
    BY <1>1, <1>3 DEF ConnOK, Parsed, Conn
  <2>2. Replies(a, e, w)
    BY <1>1, Zenon DEF RepliesOK
  <2>3. CASE e.websocket
    <3>1. t = Deliver(e)
      BY <1>3, <2>3 DEF ProcessRequest, CallHandler, e
    <3>2. Replies(a, t, w)
      BY <1>3, <2>1, <2>2, <3>1, DeliverReplies, Zenon
    <3>3. t.endpoint = "user_file"
      BY <1>3, <2>1, <3>1, DeliverIs, Zenon
    <3> QED BY <3>2, <3>3, Zenon DEF RepliesOK
  <2>4. CASE ~e.websocket /\ Len(e.local) >= e.content_len
    <3>1. t = Handler(e)
      BY <1>3, <2>4 DEF ProcessRequest, CallHandler, e
    <3>2. script[e.request] # "ws"
      <4>1. e.request_len = 1
        BY <1>3, <2>2, Zenon DEF Replies
      <4>2. script[e.request] = "ws" =>
              Shook(e.request, Told(e.request, a \o e.remote), e)
        BY <2>1, <2>2, Zenon DEF Replies
      <4> QED BY <1>3, <2>4, <4>1, <4>2, Zenon DEF Shook
    <3>3. /\ t.local = e.local /\ t.websocket = e.websocket
          /\ t.unread = e.unread /\ t.endpoint = e.endpoint
          /\ t.request = e.request /\ t.request_len = e.request_len
      BY <2>1, <3>1 DEF Handler, Spool, Conn
    <3>4. Coming(e.local \o w)
      BY <2>2, Zenon DEF Replies
    <3>5. Len(e.local) <= Len(e.local)
      BY <2>1
    <3> HIDE DEF t
    <3>6. Replies(a, t, w)
      BY <1>3, <2>1, <2>2, <3>1, <3>2, <3>3, <3>4, <3>5, HandlerReplies,
         Zenon
    <3> QED BY <1>3, <3>3, <3>6, Zenon DEF RepliesOK, t
  <2>5. CASE ~e.websocket /\ ~(Len(e.local) >= e.content_len)
    <3>1. t = e
      BY <1>3, <2>5 DEF ProcessRequest, CallHandler, e
    <3> QED BY <1>1, <3>1, Zenon
  <2> QED BY <2>3, <2>4, <2>5
<1> QED BY <1>2, <1>3

\* A block goes on with the body that is owed, if it may.
Blocks(r, q, u, e) ==
  /\ e.of = q.of /\ e.left = q.left - u.len
  /\ e.data = q.data + IF u.r = r THEN u.len ELSE 0
  /\ e.heads = q.heads
  /\ e.ok <=> q.ok /\ u.r = q.of /\ u.r # NULL /\ u.len <= q.left
  /\ e.shaken <=> q.shaken
  /\ e.bare <=> q.bare

LEMMA AddsData ==
  ASSUME NEW r, NEW q \in Telling, NEW u, NEW e, Adds(r, q, u, e),
         u.k = "data"
  PROVE  Blocks(r, q, u, e)
<1>1. /\ u.k # "head" /\ u.k \in {"data", "ping"}
      /\ u # Unit("handshake", r, 0) /\ u # Unit("head", r, FileLen)
  BY DEF Unit
<1>2. q.heads + 0 = q.heads
  <2>1. q.heads \in Nat
    BY Zenon DEF Telling
  <2> QED BY <2>1
<1> QED BY <1>1, <1>2, Zenon DEF Adds, Blocks

\* istb_m3u8_api_read and mg_write: what leaves the buffer is what is owed.
LEMMA BlockReplies ==
  ASSUME NEW a \in Seq(UnitType), NEW w, NEW d \in Conn, Replies(a, d, w),
         d.request \in Requests, d.cl > 0, NEW n \in Nat, n <= d.cl,
         n <= d.unread[d.request],
         NEW e, e.local = d.local, e.cl = d.cl - n,
         e.remote = Append(d.remote, Unit("data", d.request, n)),
         e.unread = [d.unread EXCEPT ![d.request] = @ - n],
         e.handle = d.handle, e.endpoint = d.endpoint,
         e.request = d.request, e.request_len = d.request_len,
         e.websocket = d.websocket
  PROVE  Replies(a, e, w)
<1> DEFINE u == Unit("data", d.request, n)
<1>1. /\ u \in UnitType /\ u.k = "data" /\ u.r = d.request /\ u.len = n
      /\ u.k # "ping"
  BY DEF Unit, UnitType
<1>2. /\ d.remote \in Seq(UnitType) /\ d.unread \in [Requests -> Nat]
      /\ d.cl \in Nat /\ d.request # NULL
  BY DEF Conn, NULL, Requests
<1>3. e.remote = Append(d.remote, u)
  OBVIOUS
<1> HIDE DEF u
<1>4. PingsEmpty(e.remote)
  <2>1. PingsEmpty(d.remote)
    BY Zenon DEF Replies
  <2> QED BY <1>1, <1>2, <1>3, <2>1, PingsEmptyMore, ZenonT(40)
<1>5. ASSUME NEW p \in Requests
      PROVE  LET q == Told(p, a \o e.remote) IN
             /\ BodyKept(p, q, e)
             /\ script[p] = "ws" =>
                  Shook(p, q, e) /\ Counted(p, q, e, Len(e.local) + Len(w))
  <2> DEFINE q == Told(p, a \o d.remote)
             o == Told(p, a \o e.remote)
  <2>1. q \in Telling /\ Adds(p, q, u, o)
    <3>1. /\ q \in Telling
          /\ Adds(p, q, u, Told(p, a \o Append(d.remote, u)))
      BY <1>1, <1>2, SpoolTold
    <3>2. a \o Append(d.remote, u) = a \o e.remote
      BY <1>3
    <3> QED BY <3>1, <3>2, Zenon
  <2>2. BodyKept(p, q, d) /\ (script[p] = "ws" =>
          Shook(p, q, d) /\ Counted(p, q, d, Len(d.local) + Len(w)))
    BY Zenon DEF Replies
  <2> HIDE DEF q, o
  <2>3. Blocks(p, q, u, o)
    BY <1>1, <2>1, AddsData, Zenon
  <2>4. BodyKept(p, o, e)
    <3>1. q.of = d.request /\ q.left = d.cl /\ q.ok
      BY <2>2, Zenon DEF BodyKept
    <3>2. u.r = q.of /\ u.r # NULL /\ u.len <= q.left
      BY <1>1, <1>2, <3>1, Zenon
    <3>3. o.ok
      BY <2>3, <3>1, <3>2, Zenon DEF Blocks
    <3>4. o.of = e.request /\ o.left = e.cl
      BY <1>1, <2>3, <3>1, ZenonT(40) DEF Blocks
    <3>5. o.data + e.unread[p] = FileLen
      <4>1. q.data + d.unread[p] = FileLen
        BY <2>2, Zenon DEF BodyKept
      <4>2. q.data \in Nat /\ d.unread[p] \in Nat
        <5>1. q.data \in Nat
          BY <2>1, Zenon DEF Telling
        <5> QED BY <1>2, <5>1
      <4>3. CASE p = d.request
        <5>1. o.data = q.data + n
          BY <1>1, <2>3, <4>3, Zenon DEF Blocks
        <5>2. e.unread[p] = d.unread[p] - n
          BY <1>2, <4>3
        <5> QED BY <4>1, <4>2, <5>1, <5>2
      <4>4. CASE p # d.request
        <5>1. o.data = q.data + 0
          BY <1>1, <2>3, <4>4, Zenon DEF Blocks
        <5>2. e.unread[p] = d.unread[p]
          BY <1>2, <4>4
        <5> QED BY <4>1, <4>2, <5>1, <5>2
      <4> QED BY <4>3, <4>4
    <3> QED BY <3>3, <3>4, <3>5, Zenon DEF BodyKept
  <2>5. script[p] = "ws" => Shook(p, o, e)
    BY <2>2, <2>3, Zenon DEF Shook, Blocks
  <2>6. script[p] = "ws" => Counted(p, o, e, Len(e.local) + Len(w))
    BY <2>2, <2>3, Zenon DEF Counted, Blocks
  <2> QED BY <2>4, <2>5, <2>6, Zenon DEF o
<1>6. Coming(e.local \o w)
  BY Zenon DEF Replies
<1>7. e.endpoint = "user_file" /\ e.request_len = 1 /\ e.handle = e.request
  BY Zenon DEF Replies
<1> QED BY <1>4, <1>5, <1>6, <1>7, Zenon DEF Replies

LEMMA TransferReplies ==
  ASSUME NEW a \in Seq(UnitType), NEW w, NEW d, ConnOK(d),
         RepliesOK(a, d, w), NEW retry \in BOOLEAN
  PROVE  RepliesOK(a, Transfer(d, retry), w)
<1> DEFINE t == Transfer(d, retry)
<1>1. d \in Conn /\ Replies(a, d, w)
  BY Zenon DEF ConnOK, Parsed, RepliesOK
<1>2. ASSUME t = CloseLocal(d) PROVE RepliesOK(a, t, w)
  BY <1>1, <1>2, CloseReplies, Zenon
<1>3. CASE d.endpoint # "user_file"
  <2>1. t = d
    BY <1>3 DEF Transfer
  <2> QED BY <2>1, Zenon
<1>4. CASE d.endpoint = "user_file" /\ d.handle = NULL
  <2>1. t = d \/ t = CloseLocal(d)
    BY <1>4 DEF Transfer
  <2> QED BY <1>2, <2>1, Zenon
<1>5. CASE d.endpoint = "user_file" /\ d.handle # NULL
  <2> DEFINE n == Moved(d)
             m == [d EXCEPT !.cl = @ - n, !.unread[d.handle] = @ - n]
             u == Unit("data", d.request, n)
             e == Spool(m, u)
  <2>1. /\ d.handle \in Requests /\ d.request \in Requests
        /\ d.cl \in Nat /\ d.unread \in [Requests -> Nat]
    BY <1>1, <1>5 DEF Conn, ConnOK, Parsed
  <2>2. n \in Nat /\ n <= d.cl /\ n <= d.unread[d.handle]
    BY <2>1, ConnAssumption DEF Moved, Least
  <2>3. CASE n = 0
    <3>1. t = CloseLocal(d)
      BY <1>5, <2>3 DEF Transfer, IsError
    <3> QED BY <1>2, <3>1, Zenon
  <2>4. CASE n # 0
    <3>1. t = CloseLocal(e) \/ t = e
      <4>1. ~IsError(n, retry)
        <5> HIDE DEF n
        <5> QED BY <2>2, <2>4 DEF IsError
      <4> QED BY <1>5, <4>1 DEF Transfer
    <3>2. d.cl > 0
      BY <2>1, <2>2, <2>4
    <3>3. d.handle = d.request
      BY <1>1, <3>2, Zenon DEF Replies
    <3> HIDE DEF n, t
    <3> DEFINE l == d.cl - n
               v == [d.unread EXCEPT ![d.handle] = @ - n]
    <3>4. m = [d EXCEPT !.cl = l, !.unread = v]
      BY <1>1 DEF Conn
    <3>5. l \in Nat /\ v \in [Requests -> Nat]
      BY <2>1, <2>2
    <3> HIDE DEF l, v, m
    <3>6. /\ m \in Conn /\ m.cl = l /\ m.unread = v /\ m.local = d.local
          /\ m.remote = d.remote /\ m.handle = d.handle
          /\ m.endpoint = d.endpoint /\ m.request = d.request
          /\ m.request_len = d.request_len /\ m.websocket = d.websocket
      BY <1>1, <3>4, <3>5 DEF Conn
    <3>7. u \in UnitType
      BY <2>1, <2>2 DEF Unit, UnitType
    <3> HIDE DEF u
    <3>8. e \in Conn
      BY <3>6, <3>7, SpoolTyped
    <3>9. /\ e.cl = m.cl /\ e.unread = m.unread /\ e.local = m.local
          /\ e.remote = Append(m.remote, u) /\ e.handle = m.handle
          /\ e.endpoint = m.endpoint /\ e.request = m.request
          /\ e.request_len = m.request_len /\ e.websocket = m.websocket
      BY <3>6 DEF Spool, Conn
    <3> HIDE DEF e
    <3>10. /\ e.local = d.local /\ e.cl = d.cl - n
           /\ e.remote = Append(d.remote, Unit("data", d.request, n))
           /\ e.unread = [d.unread EXCEPT ![d.request] = @ - n]
           /\ e.handle = d.handle /\ e.endpoint = d.endpoint
           /\ e.request = d.request /\ e.request_len = d.request_len
           /\ e.websocket = d.websocket
      BY <3>3, <3>6, <3>9, Zenon DEF l, v, u
    <3>11. n <= d.unread[d.request]
      BY <2>2, <3>3, Zenon
    <3>12. Replies(a, e, w)
      BY <1>1, <2>1, <2>2, <3>2, <3>10, <3>11, BlockReplies, Zenon
    <3>13. CASE t = e
      BY <1>5, <3>10, <3>12, <3>13, Zenon DEF RepliesOK, t
    <3>14. CASE t = CloseLocal(e)
      BY <3>8, <3>12, <3>14, CloseReplies, Zenon DEF t
    <3> QED BY <3>1, <3>13, <3>14, Zenon
  <2> QED BY <2>3, <2>4
<1> QED BY <1>3, <1>4, <1>5

-----------------------------------------------------------------------------
(* The invariant.                                                          *)

NoPing(s) == \A i \in 1 .. Len(s) : s[i].k # "ping"

ReplyInv == NoPing(received) /\ RepliesOK(received, c, inbox \o tosend)

LEMMA PingsGone ==
  ASSUME NEW s \in Seq(UnitType)
  PROVE  NoPing(WithoutPings(s))
<1> DEFINE n == Len(s)
           S == {x \in Seq(UnitType) : NoPing(x)}
<1>1. PICK h : Kept(s, h) /\ WithoutPings(s) = h[n]
  BY WithoutPingsIs
<1>2. n \in Nat /\ \A i \in 1 .. n : s[i] \in UnitType
  OBVIOUS
<1>3. h[0] \in S
  <2>1. h[0] = <<>>
    BY <1>1 DEF Kept
  <2> QED BY <2>1 DEF NoPing
<1>4. ASSUME NEW i \in 1 .. n, h[i - 1] \in S
      PROVE  h[i] \in S
  <2>1. h[i] = IF s[i].k = "ping" THEN h[i - 1] ELSE Append(h[i - 1], s[i])
    BY <1>1, Zenon DEF Kept
  <2>2. CASE s[i].k = "ping"
    BY <1>4, <2>1, <2>2, Zenon
  <2>3. CASE s[i].k # "ping"
    <3> DEFINE x == h[i - 1]
               u == s[i]
    <3>1. x \in Seq(UnitType) /\ NoPing(x) /\ u \in UnitType
      BY <1>2, <1>4
    <3>2. h[i] = Append(x, u)
      BY <2>1, <2>3, Zenon
    <3>3. u.k # "ping"
      BY <2>3
    <3> HIDE DEF x, u
    <3>4. /\ Append(x, u) \in Seq(UnitType)
          /\ Len(Append(x, u)) = Len(x) + 1 /\ Len(x) \in Nat
          /\ \A j \in 1 .. Len(x) : Append(x, u)[j] = x[j]
          /\ Append(x, u)[Len(x) + 1] = u
      BY <3>1, AppendProperties
    <3>5. \A j \in 1 .. Len(x) + 1 : j \in 1 .. Len(x) \/ j = Len(x) + 1
      BY <3>4
    <3>6. NoPing(Append(x, u))
      BY <3>1, <3>3, <3>4, <3>5, Zenon DEF NoPing
    <3> QED BY <3>2, <3>4, <3>6
  <2> QED BY <2>2, <2>3
<1> HIDE DEF S, n
<1>5. \A i \in 0 .. n : h[i] \in S
  BY <1>2, <1>3, <1>4, StaysIn
<1> QED BY <1>1, <1>2, <1>5 DEF S

LEMMA NoPingJoined ==
  ASSUME NEW s \in Seq(UnitType), NEW t \in Seq(UnitType),
         NoPing(s), NoPing(t)
  PROVE  NoPing(s \o t)
<1> SUFFICES ASSUME NEW i \in 1 .. Len(s \o t)
             PROVE  (s \o t)[i].k # "ping"
  BY DEF NoPing
<1>1. /\ Len(s) \in Nat /\ Len(t) \in Nat
      /\ i \in 1 .. Len(s) + Len(t)
      /\ (s \o t)[i] = IF i <= Len(s) THEN s[i] ELSE t[i - Len(s)]
  BY ConcatProperties
<1>2. CASE i <= Len(s)
  <2>1. i \in 1 .. Len(s)
    BY <1>1, <1>2
  <2> QED BY <1>1, <1>2, <2>1, Zenon DEF NoPing
<1>3. CASE ~(i <= Len(s))
  <2>1. i - Len(s) \in 1 .. Len(t)
    BY <1>1, <1>3
  <2> QED BY <1>1, <1>3, <2>1, Zenon DEF NoPing
<1> QED BY <1>2, <1>3

\* A websocket is the last thing a client asks for.
LEMMA StreamComing ==
  ASSUME script \in Scripts
  PROVE  Coming(Stream)
<1> DEFINE n == Len(script)
           Quiet(s) == \A i \in 1 .. Len(s) : s[i].k # "ws"
<1>1. PICK h : Joined(h) /\ Stream = h[n]
  BY StreamIs
<1>2. /\ n \in Nat /\ Requests = 1 .. n
      /\ \A r \in Requests : script[r] = "ws" => r = n
  BY DEF Scripts, Requests
<1> HIDE DEF n
<1> DEFINE S == {r \in 0 .. n : /\ h[r] \in Seq(Token) /\ Coming(h[r])
                                /\ r < n => Quiet(h[r])}
<1>3. 0 \in S
  <2>1. h[0] = <<>>
    BY <1>1 DEF Joined
  <2>2. Coming(<<>>) /\ Quiet(<<>>) /\ <<>> \in Seq(Token)
    BY DEF Coming
  <2>3. 0 \in 0 .. n
    BY <1>2
  <2> HIDE DEF Quiet
  <2> QED BY <2>1, <2>2, <2>3, Zenon
<1>4. ASSUME NEW r \in 1 .. n, r - 1 \in S
      PROVE  r \in S
  <2> DEFINE x == h[r - 1]
             y == Tokens(r)
             z == h[r]
  <2>1. r \in Requests /\ r \in 0 .. n /\ r - 1 < n
    BY <1>2
  <2>2. x \in Seq(Token) /\ Coming(x) /\ Quiet(x)
    BY <1>4, <2>1
  <2>3. y \in Seq(Token)
    BY <2>1, TokensTyped
  <2>4. z \in Seq(Token) /\ z = x \o y
    BY <1>1, <2>1 DEF Joined
  <2>5. \A i \in 1 .. Len(y) :
          /\ y[i].k \in AllKinds \ {"junk"} => script[y[i].r] = y[i].k
          /\ y[i].k = "ws" => script[r] = "ws" /\ Len(y) - i <= 3
    <3>1. /\ script[r] # "ws" => \A i \in 1 .. Len(y) : y[i].k # "ws"
          /\ script[r] = "ws" => Len(y) = 4
          /\ \A i \in 1 .. Len(y) :
               y[i].k \in AllKinds \ {"junk"} => script[y[i].r] = y[i].k
      <4>0. "end" \notin AllKinds /\ "body" \notin AllKinds
            /\ "frame" \notin AllKinds
        BY DEF AllKinds
      <4>1. CASE script[r] = "junk"
        <5>1. y = <<[k |-> "junk", r |-> r]>>
          BY <4>1 DEF Tokens
        <5> HIDE DEF y
        <5>2. Len(y) = 1 /\ y[1].k = "junk" /\ \A i \in 1 .. Len(y) : i = 1
          BY <5>1
        <5> QED BY <4>1, <5>2
      <4>2. CASE script[r] = "post"
        <5>1. y = <<[k |-> "post", r |-> r], [k |-> "end", r |-> r],
                    [k |-> "body", r |-> r]>>
          BY <4>2 DEF Tokens
        <5> HIDE DEF y
        <5>2. /\ Len(y) = 3 /\ y[1] = [k |-> "post", r |-> r]
              /\ y[2].k = "end" /\ y[3].k = "body"
              /\ \A i \in 1 .. Len(y) : i = 1 \/ i = 2 \/ i = 3
          BY <5>1
        <5> QED BY <4>0, <4>2, <5>2
      <4>3. CASE script[r] = "ws"
        <5>1. y = <<[k |-> "ws", r |-> r], [k |-> "end", r |-> r],
                    [k |-> "frame", r |-> r], [k |-> "frame", r |-> r]>>
          BY <4>3 DEF Tokens
        <5> HIDE DEF y
        <5>2. /\ Len(y) = 4 /\ y[1] = [k |-> "ws", r |-> r]
              /\ y[2].k = "end" /\ y[3].k = "frame" /\ y[4].k = "frame"
              /\ \A i \in 1 .. Len(y) : i = 1 \/ i = 2 \/ i = 3 \/ i = 4
          BY <5>1
        <5> QED BY <4>0, <4>3, <5>2
      <4>4. CASE script[r] \notin {"junk", "post", "ws"}
        <5>1. y = <<[k |-> script[r], r |-> r], [k |-> "end", r |-> r]>>
          BY <4>4 DEF Tokens
        <5> HIDE DEF y
        <5>2. /\ Len(y) = 2 /\ y[1] = [k |-> script[r], r |-> r]
              /\ y[2].k = "end"
              /\ \A i \in 1 .. Len(y) : i = 1 \/ i = 2
          BY <5>1
        <5> QED BY <4>0, <4>4, <5>2
      <4> QED BY <4>1, <4>2, <4>3, <4>4
    <3> HIDE DEF y
    <3>2. ASSUME script[r] = "ws", NEW i \in 1 .. Len(y)
          PROVE  Len(y) - i <= 3
      <4>1. Len(y) = 4
        BY <3>1, <3>2, Zenon
      <4> QED BY <4>1
    <3> QED BY <3>1, <3>2, Zenon
  <2> HIDE DEF x, y, z
  <2>6. /\ Len(z) = Len(x) + Len(y) /\ Len(x) \in Nat /\ Len(y) \in Nat
        /\ \A i \in 1 .. Len(x) + Len(y) :
             z[i] = IF i <= Len(x) THEN x[i] ELSE y[i - Len(x)]
    BY <2>2, <2>3, <2>4, ConcatProperties
  <2>7. ASSUME NEW i \in 1 .. Len(z)
        PROVE  /\ z[i].k \in AllKinds \ {"junk"} => script[z[i].r] = z[i].k
               /\ z[i].k = "ws" => script[r] = "ws" /\ Len(z) - i <= 3
    <3>1. z[i] = IF i <= Len(x) THEN x[i] ELSE y[i - Len(x)]
      BY <2>6
    <3>2. CASE i <= Len(x)
      <4>1. i \in 1 .. Len(x) /\ z[i] = x[i]
        BY <2>6, <3>1, <3>2
      <4> QED BY <2>2, <4>1, Zenon DEF Coming
    <3>3. CASE ~(i <= Len(x))
      <4>1. /\ i - Len(x) \in 1 .. Len(y) /\ z[i] = y[i - Len(x)]
            /\ Len(z) - i = Len(y) - (i - Len(x))
        BY <2>6, <3>1, <3>3
      <4> QED BY <2>5, <4>1, Zenon
    <3> QED BY <3>2, <3>3
  <2>8. Coming(z)
    BY <2>7, Zenon DEF Coming
  <2>9. r < n => Quiet(z)
    <3>1. r < n => r # n
      BY <1>2
    <3> QED BY <1>2, <2>1, <2>7, <3>1, Zenon
  <2> QED BY <2>1, <2>4, <2>8, <2>9, Zenon DEF z
<1> HIDE DEF S
<1>5. n \in S
  <2>1. \A r \in 0 .. n : r \in S
    BY <1>2, <1>3, <1>4, UpTo
  <2> QED BY <1>2, <2>1
<1> QED BY <1>1, <1>5 DEF S

LEMMA ReplyInit == ASSUME Init PROVE ReplyInv
<1>1. script \in Scripts /\ Requests = 1 .. Len(script)
  BY DEF Init, Requests
<1>2. Coming(Stream) /\ Stream \in Seq(Token)
  BY <1>1, StreamComing, StreamTyped
<1>3. /\ c.endpoint = "none" /\ c.cl = 0 /\ c.request_len = 0
      /\ c.remote = <<>> /\ c.local = <<>>
      /\ c.unread = [r \in Requests |-> FileLen]
      /\ inbox = <<>> /\ received = <<>> /\ tosend = Stream
  BY DEF Init, NewConnection
<1>4. /\ received \o c.remote = <<>> /\ inbox \o tosend = Stream
      /\ c.local \o Stream = Stream
  BY <1>2, <1>3
<1>5. ~(c.cl > 0) /\ c.request_len # 1 /\ c.endpoint # "user_file"
  BY <1>3
<1>6. NoPing(received) /\ PingsEmpty(c.remote)
  BY <1>3 DEF NoPing, PingsEmpty
<1>7. ASSUME NEW r \in Requests
      PROVE  LET q == Told(r, received \o c.remote) IN
             /\ BodyKept(r, q, c) /\ Shook(r, q, c)
             /\ Counted(r, q, c, Len(c.local) + Len(inbox \o tosend))
  <2>1. Told(r, received \o c.remote) = Untold
    BY <1>4, ToldNothing, Zenon
  <2>2. /\ Untold.ok /\ Untold.data = 0 /\ ~Untold.bare
        /\ Untold.heads = 0
    BY DEF Untold
  <2>3. 0 + FileLen = FileLen
    BY ConnAssumption
  <2>4. c.unread[r] = FileLen
    BY <1>3
  <2>5. BodyKept(r, Untold, c)
    BY <1>5, <2>2, <2>3, <2>4, Zenon DEF BodyKept
  <2>6. Shook(r, Untold, c)
    BY <1>5, <2>2, Zenon DEF Shook
  <2>7. Counted(r, Untold, c, Len(c.local) + Len(inbox \o tosend))
    BY <1>5, <2>2, Zenon DEF Counted
  <2> QED BY <2>1, <2>5, <2>6, <2>7, Zenon
<1>8. Coming(c.local \o (inbox \o tosend))
  BY <1>2, <1>4, Zenon
<1> QED BY <1>5, <1>6, <1>7, <1>8, Zenon DEF ReplyInv, RepliesOK, Replies

\* The script is what it was.
LEMMA RepliesNext ==
  ASSUME script' = script, NoPing(received'),
         RepliesOK(received', c', inbox' \o tosend')
  PROVE  ReplyInv'
BY Zenon DEF ReplyInv, RepliesOK, Replies, BodyKept, Shook, Counted, Coming,
   PingsEmpty, NoPing, Requests

\* Where nothing else was said the rest need not change either.
LEMMA SameReplies ==
  ASSUME NEW a, NEW b, NEW w, NEW d, RepliesOK(a, d, w),
         NEW e, e.local = d.local, e.endpoint = d.endpoint, e.cl = d.cl,
         e.handle = d.handle, e.request = d.request,
         e.request_len = d.request_len, e.websocket = d.websocket,
         e.unread = d.unread, PingsEmpty(e.remote),
         \A r \in Requests : Told(r, b \o e.remote) = Told(r, a \o d.remote)
  PROVE  RepliesOK(b, e, w)
<1>1. ASSUME NEW r \in Requests, NEW q, BodyKept(r, q, d)
      PROVE  BodyKept(r, q, e)
  BY <1>1, Zenon DEF BodyKept
<1>2. ASSUME NEW r \in Requests, NEW q, Shook(r, q, d)
      PROVE  Shook(r, q, e)
  BY <1>2, Zenon DEF Shook
<1>3. ASSUME NEW r \in Requests, NEW q, NEW n, Counted(r, q, d, n)
      PROVE  Counted(r, q, e, n)
  BY <1>3, Zenon DEF Counted
<1>4. Replies(b, e, w)
  BY <1>1, <1>2, <1>3, Zenon DEF Replies, RepliesOK
<1> QED BY <1>4, Zenon DEF RepliesOK

\* The steps that leave the connection and the order of its input alone.
LEMMA QuietReplies ==
  ASSUME ConnInv, ReplyInv, script' = script, received' = received, c' = c,
         inbox' \o tosend' = inbox \o tosend
  PROVE  ReplyInv'
<1>1. NoPing(received) /\ RepliesOK(received, c, inbox \o tosend)
  BY Zenon DEF ReplyInv
<1> QED BY <1>1, RepliesNext, Zenon

LEMMA PlainReplies ==
  ASSUME ConnInv, ReplyInv, Accept \/ NothingToRead \/ NotWritable
                            \/ ClientHangup \/ Lapse \/ UNCHANGED vars
  PROVE  ReplyInv'
<1>1. /\ script' = script /\ received' = received /\ c' = c
      /\ inbox' = inbox /\ tosend' = tosend
  BY DEF Accept, NothingToRead, NotWritable, ClientHangup, Lapse, vars,
     client
<1> QED BY <1>1, QuietReplies, Zenon

LEMMA ClientSendReplies ==
  ASSUME ConnInv, ReplyInv, ClientSend
  PROVE  ReplyInv'
<1>1. /\ script' = script /\ received' = received /\ c' = c
  BY DEF ClientSend
<1>2. PICK n \in 1 .. Len(tosend) :
        /\ inbox' = inbox \o SubSeq(tosend, 1, n)
        /\ tosend' = SubSeq(tosend, n + 1, Len(tosend))
  BY DEF ClientSend
<1> DEFINE x == SubSeq(tosend, 1, n)
           y == SubSeq(tosend, n + 1, Len(tosend))
<1>3. inbox \in Seq(Token) /\ tosend \in Seq(Token)
  BY TypesNow
<1>4. x \in Seq(Token) /\ y \in Seq(Token) /\ x \o y = tosend
  BY <1>3
<1> HIDE DEF x, y
<1>5. \A s, t, u \in Seq(Token) : (s \o t) \o u = s \o (t \o u)
  BY ConcatAssociative, SMTT(30)
<1>6. (inbox \o x) \o y = inbox \o tosend
  BY <1>3, <1>4, <1>5, Zenon
<1>7. inbox' = inbox \o x /\ tosend' = y
  BY <1>2 DEF x, y
<1>8. inbox' \o tosend' = inbox \o tosend
  BY <1>6, <1>7, Zenon
<1> QED BY <1>1, <1>8, QuietReplies, Zenon

LEMMA PrepareOfReplies ==
  ASSUME ConnInv, ReplyInv, Prepare
  PROVE  ReplyInv'
<1>1. /\ script' = script /\ received' = received /\ inbox' = inbox
      /\ tosend' = tosend
  BY DEF Prepare, client
<1>2. PICK retry \in BOOLEAN : c' = Transfer(c, retry)
  BY DEF Prepare
<1>3. ConnOK(c) /\ received \in Seq(UnitType)
  BY TypesNow
<1>4. NoPing(received) /\ RepliesOK(received, c, inbox \o tosend)
  BY Zenon DEF ReplyInv
<1>5. RepliesOK(received, c', inbox \o tosend)
  BY <1>2, <1>3, <1>4, TransferReplies, Zenon
<1> QED BY <1>1, <1>4, <1>5, RepliesNext, Zenon

LEMMA ReadOfReplies ==
  ASSUME ConnInv, ReplyInv, Read
  PROVE  ReplyInv'
<1> DEFINE io == c.local \o inbox
           d == [c EXCEPT !.local = io]
<1>1. /\ script' = script /\ received' = received /\ inbox' = <<>>
      /\ tosend' = tosend
  BY DEF Read, client
<1>2. c' = ProcessRequest(d)
  <2>1. d = [c EXCEPT !.local = @ \o inbox]
    BY TypesNow DEF Conn
  <2> QED BY <2>1 DEF Read
<1>3. /\ c \in Conn /\ ConnOK(c) /\ received \in Seq(UnitType)
      /\ c.local \in Seq(Token) /\ inbox \in Seq(Token)
      /\ tosend \in Seq(Token)
  BY TypesNow DEF Conn
<1>4. io \in Seq(Token)
  BY <1>3
<1>5. Len(io) = Len(c.local) + Len(inbox)
  BY <1>3
<1>6. io \o tosend = c.local \o (inbox \o tosend)
  <2>1. \A s, t, u \in Seq(Token) : (s \o t) \o u = s \o (t \o u)
    BY ConcatAssociative, SMTT(30)
  <2> QED BY <1>3, <2>1, Zenon
<1> HIDE DEF io
<1>7. /\ d \in Conn /\ d.local = io /\ d.endpoint = c.endpoint
      /\ d.cl = c.cl /\ d.handle = c.handle /\ d.request = c.request
      /\ d.request_len = c.request_len /\ d.websocket = c.websocket
      /\ d.unread = c.unread /\ d.remote = c.remote
  BY <1>3, <1>4 DEF Conn
<1> HIDE DEF d
<1>8. ConnOK(d)
  BY <1>3, <1>7, SameConn, Zenon
<1>9. NoPing(received) /\ RepliesOK(received, c, inbox \o tosend)
  BY Zenon DEF ReplyInv
<1>10. RepliesOK(received, d, tosend)
  <2> DEFINE m == Len(c.local) + Len(inbox \o tosend)
             n == Len(d.local) + Len(tosend)
  <2>1. m = n
    <3>1. Len(inbox \o tosend) = Len(inbox) + Len(tosend)
      BY <1>3
    <3>2. Len(inbox) \in Nat /\ Len(tosend) \in Nat /\ Len(c.local) \in Nat
      BY <1>3
    <3>3. n = (Len(c.local) + Len(inbox)) + Len(tosend)
      BY <1>5, <1>7, Zenon
    <3>4. m = Len(c.local) + (Len(inbox) + Len(tosend))
      BY <3>1, Zenon
    <3>5. \A x, y, z \in Nat : (x + y) + z = x + (y + z)
      OBVIOUS
    <3> QED BY <3>2, <3>3, <3>4, <3>5, Zenon
  <2> HIDE DEF m, n
  <2>2. ASSUME NEW r \in Requests, NEW q, BodyKept(r, q, c)
        PROVE  BodyKept(r, q, d)
    BY <1>7, <2>2, Zenon DEF BodyKept
  <2>3. ASSUME NEW r \in Requests, NEW q, Shook(r, q, c)
        PROVE  Shook(r, q, d)
    BY <1>7, <2>3, Zenon DEF Shook
  <2>4. ASSUME NEW r \in Requests, NEW q, Counted(r, q, c, m)
        PROVE  Counted(r, q, d, n)
    BY <1>7, <2>1, <2>4, Zenon DEF Counted
  <2>5. Coming(d.local \o tosend)
    BY <1>6, <1>7, <1>9, Zenon DEF RepliesOK, Replies
  <2>6. Replies(received, d, tosend)
    BY <1>7, <1>9, <2>2, <2>3, <2>4, <2>5, Zenon
       DEF RepliesOK, Replies, m, n
  <2> QED BY <1>7, <1>9, <2>6, Zenon DEF RepliesOK
<1>11. RepliesOK(received, c', tosend)
  BY <1>2, <1>3, <1>8, <1>10, ProcessReplies, Zenon
<1>12. inbox' \o tosend' = tosend
  BY <1>1, <1>3
<1> QED BY <1>1, <1>9, <1>11, <1>12, RepliesNext, Zenon

LEMMA FailuresOfReplies ==
  ASSUME ConnInv, ReplyInv, ReadEnd \/ WriteError
  PROVE  ReplyInv'
<1> DEFINE f == c.flags \cup {"CLOSE"}
<1>1. /\ script' = script /\ received' = received /\ inbox' = inbox
      /\ tosend' = tosend /\ c' = [c EXCEPT !.flags = f]
  BY DEF ReadEnd, WriteError, client
<1> HIDE DEF f
<1>2. /\ c'.local = c.local /\ c'.endpoint = c.endpoint /\ c'.cl = c.cl
      /\ c'.handle = c.handle /\ c'.request = c.request
      /\ c'.request_len = c.request_len /\ c'.websocket = c.websocket
      /\ c'.unread = c.unread /\ c'.remote = c.remote
  BY <1>1, TypesNow DEF Conn
<1>3. NoPing(received) /\ RepliesOK(received, c, inbox \o tosend)
  BY Zenon DEF ReplyInv
<1>4. PingsEmpty(c.remote)
  BY <1>3, Zenon DEF RepliesOK, Replies
<1> DEFINE e == c'
<1>5. RepliesOK(received, e, inbox \o tosend)
  <2>1. PingsEmpty(e.remote)
    BY <1>2, <1>4, Zenon
  <2>2. \A r \in Requests :
          Told(r, received \o e.remote) = Told(r, received \o c.remote)
    BY <1>2, Zenon
  <2> HIDE DEF e
  <2> QED BY <1>2, <1>3, <2>1, <2>2, SameReplies, Zenon DEF e
<1> QED BY <1>1, <1>3, <1>5, RepliesNext, Zenon

\* A ping says nothing.
LEMMA ReapOfReplies ==
  ASSUME ConnInv, ReplyInv, Reap
  PROVE  ReplyInv'
<1> DEFINE u == Unit("ping", Len(script), 0)
<1>1. u \in UnitType /\ u.k = "ping" /\ u.len = 0
  BY DEF ConnInv, Scripts, Unit, UnitType, Requests
<1>2. /\ script' = script /\ received' = received /\ inbox' = inbox
      /\ tosend' = tosend /\ (c' = c \/ c' = Spool(c, u))
  BY Zenon DEF Reap, Pinged, client
<1> HIDE DEF u
<1>3. CASE c' = c
  BY <1>2, <1>3, QuietReplies, Zenon
<1>4. CASE c' = Spool(c, u)
  <2> DEFINE e == c'
  <2>1. c \in Conn /\ received \in Seq(UnitType) /\ c.remote \in Seq(UnitType)
    BY TypesNow DEF Conn
  <2>2. /\ e.local = c.local /\ e.endpoint = c.endpoint /\ e.cl = c.cl
        /\ e.handle = c.handle /\ e.request = c.request
        /\ e.request_len = c.request_len /\ e.websocket = c.websocket
        /\ e.unread = c.unread /\ e.remote = Append(c.remote, u)
    BY <1>4, <2>1 DEF Spool, Conn
  <2> HIDE DEF e
  <2>3. NoPing(received) /\ RepliesOK(received, c, inbox \o tosend)
    BY Zenon DEF ReplyInv
  <2>4. PingsEmpty(e.remote)
    <3>1. PingsEmpty(c.remote)
      BY <2>3, Zenon DEF RepliesOK, Replies
    <3>2. PingsEmpty(Append(c.remote, u))
      BY <1>1, <2>1, <3>1, PingsEmptyMore, Zenon
    <3> QED BY <2>2, <3>2, Zenon
  <2>5. ASSUME NEW r \in Requests
        PROVE  Told(r, received \o e.remote) = Told(r, received \o c.remote)
    <3>1. Told(r, received \o Append(c.remote, u))
            = After(r, Told(r, received \o c.remote), u)
      BY <1>1, <2>1, ToldFurther
    <3>2. After(r, Told(r, received \o c.remote), u)
            = Told(r, received \o c.remote)
      BY <1>1, Zenon DEF After
    <3> QED BY <2>2, <3>1, <3>2, Zenon
  <2>6. RepliesOK(received, e, inbox \o tosend)
    BY <2>2, <2>3, <2>4, <2>5, SameReplies, Zenon
  <2> QED BY <1>2, <2>3, <2>6, RepliesNext, Zenon DEF e
<1> QED BY <1>2, <1>3, <1>4

\* What the client takes has been said already.
LEMMA WriteOfReplies ==
  ASSUME ConnInv, ReplyInv, Write
  PROVE  ReplyInv'
<1>1. PICK n \in 1 .. Len(c.remote) :
        LET left == SubSeq(c.remote, n + 1, Len(c.remote)) IN
        /\ received' = received \o WithoutPings(SubSeq(c.remote, 1, n))
        /\ c' = [c EXCEPT !.remote = left, !.flags = FlagsAfter(@, left)]
  BY DEF Write
<1> DEFINE gone == SubSeq(c.remote, 1, n)
           left == SubSeq(c.remote, n + 1, Len(c.remote))
           f == FlagsAfter(c.flags, left)
           kept == WithoutPings(gone)
           e == c'
<1>2. /\ script' = script /\ inbox' = inbox /\ tosend' = tosend
  BY DEF Write, client
<1>3. c \in Conn /\ received \in Seq(UnitType) /\ c.remote \in Seq(UnitType)
  BY TypesNow DEF Conn
<1>4. /\ gone \in Seq(UnitType) /\ left \in Seq(UnitType)
      /\ gone \o left = c.remote /\ Len(left) \in Nat
      /\ \A i \in 1 .. Len(left) :
           n + i \in 1 .. Len(c.remote) /\ left[i] = c.remote[n + i]
  BY <1>3
<1>5. received' = received \o kept /\ c' = [c EXCEPT !.remote = left,
                                                     !.flags = f]
  BY <1>1
<1> HIDE DEF gone, left, f
<1>6. kept \in Seq(UnitType) /\ NoPing(kept)
  BY <1>4, WithoutPingsTyped, PingsGone
<1>7. /\ e.local = c.local /\ e.endpoint = c.endpoint /\ e.cl = c.cl
      /\ e.handle = c.handle /\ e.request = c.request
      /\ e.request_len = c.request_len /\ e.websocket = c.websocket
      /\ e.unread = c.unread /\ e.remote = left
  BY <1>3, <1>5 DEF Conn
<1> HIDE DEF e
<1>8. NoPing(received) /\ RepliesOK(received, c, inbox \o tosend)
  BY Zenon DEF ReplyInv
<1>9. NoPing(received')
  <2>1. NoPing(received \o kept)
    BY <1>3, <1>6, <1>8, NoPingJoined, Zenon
  <2> QED BY <1>5, <2>1, Zenon
<1>10. PingsEmpty(e.remote)
  <2>1. PingsEmpty(c.remote)
    BY <1>8, Zenon DEF RepliesOK, Replies
  <2>2. PingsEmpty(left)
    BY <1>4, <2>1, Zenon DEF PingsEmpty
  <2> QED BY <1>7, <2>2, Zenon
<1>11. ASSUME NEW r \in Requests
       PROVE  Told(r, received' \o e.remote) = Told(r, received \o c.remote)
  <2> DEFINE x == received \o kept
             y == received \o gone
  <2>1. x \in Seq(UnitType) /\ y \in Seq(UnitType)
    BY <1>3, <1>4, <1>6
  <2>2. Told(r, x) = Told(r, y)
    BY <1>3, <1>4, ToldWithoutPings
  <2>3. y \o left = received \o c.remote
    <3>1. \A s, t, u \in Seq(UnitType) : (s \o t) \o u = s \o (t \o u)
      BY ConcatAssociative, SMTT(30)
    <3>2. (received \o gone) \o left = received \o (gone \o left)
      BY <1>3, <1>4, <3>1, Zenon
    <3> QED BY <1>4, <3>2, Zenon
  <2>4. received' \o e.remote = x \o left
    BY <1>5, <1>7, Zenon
  <2> HIDE DEF x, y
  <2>5. Told(r, x \o left) = Told(r, y \o left)
    BY <1>4, <2>1, <2>2, ToldTail
  <2> QED BY <2>3, <2>4, <2>5, Zenon
<1> DEFINE g == received'
<1>12. RepliesOK(g, e, inbox \o tosend)
  <2>1. \A r \in Requests :
          Told(r, g \o e.remote) = Told(r, received \o c.remote)
    BY <1>11, Zenon
  <2> HIDE DEF g
  <2> QED BY <1>7, <1>8, <1>10, <2>1, SameReplies, Zenon
<1> QED BY <1>2, <1>9, <1>12, RepliesNext, Zenon DEF e

LEMMA ReplyStep ==
  ConnInv /\ ReplyInv /\ [Next]_vars => ConnInv' /\ ReplyInv'
<1> SUFFICES ASSUME ConnInv, ReplyInv, [Next]_vars PROVE ReplyInv'
  BY StepInv
<1>1. CASE Poll
  BY <1>1, PlainReplies, PrepareOfReplies, ReadOfReplies, FailuresOfReplies,
     WriteOfReplies, ReapOfReplies DEF Poll
<1>2. CASE ClientSend \/ ClientHangup \/ Lapse
  BY <1>2, ClientSendReplies, PlainReplies
<1>3. CASE UNCHANGED vars
  BY <1>3, PlainReplies
<1> QED BY <1>1, <1>2, <1>3 DEF Next

LEMMA ReplyInductive == Spec => [](ConnInv /\ ReplyInv)
BY InitInv, ReplyInit, ReplyStep, PTL DEF Spec

-----------------------------------------------------------------------------
(* What follows from it.                                                   *)

\* Each block that transfer_file_data spools belongs to the reply whose header
\* is the last before it, with nothing but blocks and pings in between, and
\* the blocks never exceed the length that header promised; what has been
\* spooled of a buffer and what is still unread are always the whole of it;
\* and a websocket has its handshake before its first reply and no more
\* replies than frames - for any pipelined requests, pauses and pieces.
THEOREM Framed == Spec => []BodiesFramed
<1>1. ASSUME ConnInv, ReplyInv
      PROVE  BodiesFramed
  <2> DEFINE s == Spooled
  <2>1. s \in Seq(UnitType) /\ script \in Scripts
    BY <1>1, SpooledIs DEF ConnInv
  <2>2. DOMAIN s = 1 .. Len(s) /\ Len(s) \in Nat
    BY <2>1
  <2>3. NoPing(received) /\ RepliesOK(received, c, inbox \o tosend)
    BY <1>1, Zenon DEF ReplyInv
  <2>4. ASSUME NEW r \in Requests
        PROVE  /\ BodyKept(r, Told(r, s), c)
               /\ script[r] = "ws" =>
                    /\ Shook(r, Told(r, s), c)
                    /\ Counted(r, Told(r, s), c,
                               Len(c.local) + Len(inbox \o tosend))
    BY <2>3, Zenon DEF RepliesOK, Replies, Spooled
  <2>5. PingsEmpty(s)
    <3> SUFFICES ASSUME NEW i \in 1 .. Len(s), s[i].k = "ping"
                 PROVE  s[i].len = 0
      BY DEF PingsEmpty
    <3>1. c.remote \in Seq(UnitType) /\ received \in Seq(UnitType)
      BY <1>1, SpooledIs
    <3>2. PingsEmpty(c.remote)
      BY <2>3, Zenon DEF RepliesOK, Replies
    <3>3. /\ Len(received) \in Nat /\ Len(c.remote) \in Nat
          /\ i \in 1 .. Len(received) + Len(c.remote)
          /\ s[i] = IF i <= Len(received) THEN received[i]
                    ELSE c.remote[i - Len(received)]
      BY <3>1, ConcatProperties DEF Spooled
    <3>4. CASE i <= Len(received)
      <4>1. i \in 1 .. Len(received)
        BY <3>3, <3>4
      <4> HIDE DEF s
      <4> QED BY <2>3, <3>3, <3>4, <4>1, Zenon DEF NoPing
    <3>5. CASE ~(i <= Len(received))
      <4>1. i - Len(received) \in 1 .. Len(c.remote)
        BY <3>3, <3>5
      <4> HIDE DEF s
      <4> QED BY <3>2, <3>3, <3>5, <4>1, Zenon DEF PingsEmpty
    <3> QED BY <3>4, <3>5
  <2> HIDE DEF s
  <2>6. ASSUME NEW i \in DOMAIN s, s[i].k = "data"
        PROVE  \E h \in 1 .. i - 1 :
                 Leads(s, h, s[i].r, i) /\ BodyFrom(s, h, i) <= s[h].len
    <3>1. 1 \in Requests
      BY <2>1 DEF Scripts, Requests
    <3>2. Told(1, s).ok
      BY <2>4, <3>1, Zenon DEF BodyKept
    <3>3. i \in 1 .. Len(s)
      BY <2>2
    <3>4. \A j \in 1 .. Len(s) : s[j].k = "ping" => s[j].len = 0
      BY <2>5, Zenon DEF PingsEmpty
    <3> QED BY <2>1, <2>6, <3>2, <3>3, <3>4, FramesTold
  <2>7. ASSUME NEW r \in Requests
        PROVE  DataIn(s, r) + c.unread[r] = FileLen
    <3>1. Told(r, s).data + c.unread[r] = FileLen
      BY <2>4, Zenon DEF BodyKept
    <3> QED BY <2>1, <3>1, DataTold, Zenon
  <2>8. ASSUME NEW r \in Requests, script[r] = "ws"
        PROVE  /\ Cardinality(HeadsIn(s, r, Len(s))) <= Len(Tokens(r)) - 2
               /\ \A i \in HeadsIn(s, r, Len(s)) : \E h \in 1 .. i - 1 :
                    s[h] = Unit("handshake", r, 0)
    <3> DEFINE q == Told(r, s)
               n == Len(c.local) + Len(inbox \o tosend)
    <3>1. q \in Telling /\ Cardinality(HeadsIn(s, r, Len(s))) = q.heads
      BY <2>1, ToldTyped, HeadsTold
    <3>2. Shook(r, q, c) /\ Counted(r, q, c, n)
      BY <2>4, <2>8, Zenon
    <3> HIDE DEF q
    <3>3. Len(Tokens(r)) = 4
      BY <2>8 DEF Tokens
    <3>4. q.heads <= 2
      <4>1. q.heads \in Nat
        BY <3>1, Zenon DEF Telling
      <4>2. n \in Nat
        BY <1>1, TypesNow DEF Conn
      <4> HIDE DEF n
      <4>3. q.heads = 0 \/ q.heads + n <= 2
        BY <3>2, Zenon DEF Counted
      <4> QED BY <4>1, <4>2, <4>3
    <3>5. ASSUME NEW i \in HeadsIn(s, r, Len(s))
          PROVE  \E h \in 1 .. i - 1 : s[h] = Unit("handshake", r, 0)
      <4>1. i \in 1 .. Len(s) /\ s[i].k = "head" /\ s[i].r = r
        BY DEF HeadsIn, Unit
      <4>2. ~Told(r, s).bare
        BY <3>2, Zenon DEF Shook, q
      <4> QED BY <2>1, <4>1, <4>2, ShakenTold
    <3>6. Cardinality(HeadsIn(s, r, Len(s))) <= Len(Tokens(r)) - 2
      BY <3>1, <3>3, <3>4
    <3> QED BY <3>5, <3>6
  <2>9. \A i \in DOMAIN s : s[i].k = "data" =>
          \E h \in 1 .. i - 1 :
            /\ s[h].k = "head" /\ s[h].r = s[i].r
            /\ \A j \in h + 1 .. i : s[j].k \in {"data", "ping"}
            /\ BodyFrom(s, h, i) <= s[h].len
    BY <2>6, Zenon DEF Leads
  <2>10. \A r \in Requests : script[r] = "ws" =>
           LET heads == {i \in DOMAIN s : s[i] = Unit("head", r, FileLen)}
           IN  /\ Cardinality(heads) <= Len(Tokens(r)) - 2
               /\ \A i \in heads : \E h \in 1 .. i - 1 :
                    s[h] = Unit("handshake", r, 0)
    BY <2>2, <2>8, Zenon DEF HeadsIn
  <2>11. \A r \in Requests : DataOf(r) + c.unread[r] = FileLen
    BY <2>7, Zenon DEF DataOf, DataIn, s
  <2> QED BY <2>9, <2>10, <2>11, Zenon DEF BodiesFramed, BodyFrom, s
<1> QED BY <1>1, ReplyInductive, PTL
=============================================================================
