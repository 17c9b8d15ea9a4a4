-------------------------- MODULE MgConnectionProofs -------------------------
(***************************************************************************)
(* What mg_poll_server keeps of a connection, proved for any requests, any *)
(* buffers and any block size: every field stays what the code takes it    *)
(* for, and the server closes only when all that it spooled is written.    *)
(*                                                                         *)
(* The functions of istb_mongoose.c that take a connection are shown, one  *)
(* lemma each, to give back a connection that is in order (ConnOK) and to  *)
(* set CLOSE only when remote_iobuf is empty.  So CLOSE comes from the     *)
(* write that empties remote_iobuf, and the reaper looks before anything   *)
(* is spooled again (ClosingInv).                                          *)
(***************************************************************************)
EXTENDS MgConnection, SequenceTheorems, WellFoundedInduction, TLAPS

-----------------------------------------------------------------------------
(* Recursive functions.                                                    *)

\* Induction without an operator: a set of naturals has a least element.
LEMMA LeastNumber ==
  ASSUME NEW T \in SUBSET Nat, T # {}
  PROVE  \E x \in T : \A y \in T : x <= y
<1>1. IsWellFoundedOn(OpToRel(<, Nat), Nat)
  BY NatLessThanWellFounded
<1>2. PICK x \in T : \A y \in T : ~(<<y, x>> \in OpToRel(<, Nat))
  BY <1>1, WFMin, Zenon
<1>3. \A y \in T : ~(y < x)
  BY <1>2 DEF OpToRel
<1> QED BY <1>3

\* What each step keeps holds of every value.
LEMMA StaysIn ==
  ASSUME NEW S, NEW n \in Nat, NEW f, f[0] \in S,
         \A i \in 1 .. n : f[i - 1] \in S => f[i] \in S
  PROVE  \A i \in 0 .. n : f[i] \in S
<1> SUFFICES ASSUME \E i \in 0 .. n : f[i] \notin S
             PROVE  FALSE
  OBVIOUS
<1> DEFINE T == {i \in 0 .. n : f[i] \notin S}
<1>1. T \in SUBSET Nat /\ T # {}
  OBVIOUS
<1>2. PICK x \in T : \A y \in T : x <= y
  <2> HIDE DEF T
  <2> QED BY <1>1, LeastNumber
<1>3. x # 0 /\ x \in 1 .. n
  OBVIOUS
<1>4. x - 1 \notin T
  BY <1>2, <1>3
<1>5. f[x - 1] \in S
  BY <1>3, <1>4
<1> QED BY <1>3, <1>5

\* There is a function on 0 .. n that begins with a and steps on by step; so
\* the recursive definitions of the model define something.
Recurses(S, n, a, step) ==
  \E f \in [0 .. n -> S] :
    f[0] = a /\ \A i \in 1 .. n : f[i] = step[i][f[i - 1]]

LEMMA Recursion ==
  ASSUME NEW S, NEW n \in Nat, NEW a \in S, NEW step \in [1 .. n -> [S -> S]]
  PROVE  Recurses(S, n, a, step)
<1> DEFINE Good(m) ==
             \E f \in [0 .. m -> S] :
               f[0] = a /\ \A i \in 1 .. m : f[i] = step[i][f[i - 1]]
           T == {m \in 0 .. n : ~Good(m)}
<1>1. Good(0)
  <2> DEFINE f == [i \in 0 .. 0 |-> a]
  <2>1. f \in [0 .. 0 -> S] /\ f[0] = a
    OBVIOUS
  <2>2. \A i \in 1 .. 0 : f[i] = step[i][f[i - 1]]
    OBVIOUS
  <2> HIDE DEF f
  <2> QED BY <2>1, <2>2
<1>2. ASSUME NEW x \in 1 .. n, Good(x - 1)
      PROVE  Good(x)
  <2>1. PICK f \in [0 .. x - 1 -> S] :
          f[0] = a /\ \A i \in 1 .. x - 1 : f[i] = step[i][f[i - 1]]
    BY <1>2
  <2>2. x - 1 \in 0 .. x - 1 /\ step[x] \in [S -> S]
    OBVIOUS
  <2> DEFINE y == step[x][f[x - 1]]
             g == [i \in 0 .. x |-> IF i < x THEN f[i] ELSE y]
  <2>3. y \in S
    BY <2>2
  <2> HIDE DEF y
  <2>4. \A i \in 0 .. x : g[i] \in S
    BY <2>3
  <2>5. \A i \in 0 .. x - 1 : g[i] = f[i]
    OBVIOUS
  <2>6. g[x] = y
    OBVIOUS
  <2>7. g \in [0 .. x -> S]
    BY <2>4
  <2> HIDE DEF g
  <2>8. g[0] = a
    BY <2>1, <2>5
  <2>9. \A i \in 1 .. x : g[i] = step[i][g[i - 1]]
    <3> TAKE i \in 1 .. x
    <3>1. CASE i = x
      <4>1. g[i - 1] = f[x - 1]
        BY <2>5, <3>1
      <4> QED BY <2>6, <3>1, <4>1 DEF y
    <3>2. CASE i # x
      <4>1. /\ i \in 1 .. x - 1 /\ i \in 0 .. x - 1 /\ i - 1 \in 0 .. x - 1
        BY <3>2
      <4>2. g[i] = f[i] /\ g[i - 1] = f[i - 1] /\ f[i] = step[i][f[i - 1]]
        BY <2>1, <2>5, <4>1
      <4> QED BY <4>2
    <3> QED BY <3>1, <3>2
  <2> QED BY <2>7, <2>8, <2>9
<1> HIDE DEF Good
<1> SUFFICES ASSUME ~Good(n) PROVE FALSE
  BY DEF Good, Recurses
<1>3. T \in SUBSET Nat /\ T # {}
  OBVIOUS
<1>4. PICK x \in T : \A y \in T : x <= y
  <2> HIDE DEF T
  <2> QED BY <1>3, LeastNumber
<1>5. x \in 1 .. n /\ ~Good(x)
  BY <1>1
<1>6. x - 1 \in 0 .. n /\ x - 1 \notin T
  BY <1>4, <1>5
<1> QED BY <1>2, <1>5, <1>6

-----------------------------------------------------------------------------
\* struct connection, its fields within their types.
Conn ==
  [local : Seq(Token), remote : Seq(UnitType),
   endpoint : {"none", "user_file"}, flags : SUBSET {"CLOSE", "SPOOL_DONE"},
   request : Requests \cup {NULL}, request_len : {-1, 0, 1},
   content_len : {0, 1}, websocket : BOOLEAN, handle : Requests \cup {NULL},
   cl : Nat, unread : [Requests -> Nat]]

\* What the recursive definitions of the model add up, step by step.
Kept(s, h) ==
  /\ h[0] = <<>>
  /\ \A i \in 1 .. Len(s) :
       /\ h[i] \in Seq(UnitType)
       /\ h[i] = IF s[i].k = "ping" THEN h[i - 1] ELSE Append(h[i - 1], s[i])

LEMMA WithoutPingsIs ==
  ASSUME NEW s \in Seq(UnitType)
  PROVE  \E h : Kept(s, h) /\ WithoutPings(s) = h[Len(s)]
<1> DEFINE n == Len(s)
           Eq(f) == f = [i \in 0 .. n |->
                           IF i = 0 THEN <<>>
                           ELSE IF s[i].k = "ping" THEN f[i - 1]
                           ELSE Append(f[i - 1], s[i])]
           step == [i \in 1 .. n |-> [t \in Seq(UnitType) |->
                      IF s[i].k = "ping" THEN t ELSE Append(t, s[i])]]
<1>1. /\ n \in Nat /\ <<>> \in Seq(UnitType)
      /\ \A i \in 1 .. n : s[i] \in UnitType
  OBVIOUS
<1>2. \A i \in 1 .. n : \A t \in Seq(UnitType) :
        (IF s[i].k = "ping" THEN t ELSE Append(t, s[i])) \in Seq(UnitType)
  BY <1>1
<1>3. step \in [1 .. n -> [Seq(UnitType) -> Seq(UnitType)]]
  BY <1>2
<1>4. PICK f \in [0 .. n -> Seq(UnitType)] :
        f[0] = <<>> /\ \A i \in 1 .. n : f[i] = step[i][f[i - 1]]
  <2> HIDE DEF n, step
  <2>1. Recurses(Seq(UnitType), n, <<>>, step)
    BY <1>1, <1>3, Recursion
  <2> QED BY <2>1 DEF Recurses
<1>5. Eq(f)
  <2>1. ASSUME NEW i \in 1 .. n
        PROVE  f[i] = IF s[i].k = "ping" THEN f[i - 1]
                      ELSE Append(f[i - 1], s[i])
    <3>1. f[i - 1] \in Seq(UnitType) /\ f[i] = step[i][f[i - 1]]
      <4> HIDE DEF n, step
      <4>1. i - 1 \in 0 .. n
        BY <1>1
      <4> QED BY <1>4, <4>1
    <3> QED BY <3>1
  <2>2. f = [i \in 0 .. n |-> f[i]]
    BY <1>4
  <2>3. ASSUME NEW i \in 0 .. n
        PROVE  f[i] = IF i = 0 THEN <<>>
                      ELSE IF s[i].k = "ping" THEN f[i - 1]
                      ELSE Append(f[i - 1], s[i])
    <3>1. i = 0 \/ i \in 1 .. n
      BY <1>1
    <3> HIDE DEF n, step
    <3> QED BY <1>4, <2>1, <3>1
  <2> HIDE DEF n, step
  <2> QED BY <2>2, <2>3, Zenon
<1>6. PICK h : Eq(h) /\ WithoutPings(s) = h[n]
  BY <1>5 DEF WithoutPings
<1> HIDE DEF n
<1>7. /\ h[0] = <<>>
      /\ \A i \in 1 .. n :
           h[i] = IF s[i].k = "ping" THEN h[i - 1] ELSE Append(h[i - 1], s[i])
  <2>1. \A i \in 1 .. n : i \in 0 .. n /\ i # 0
    BY <1>1
  <2>2. 0 \in 0 .. n
    BY <1>1
  <2> QED BY <1>6, <2>1, <2>2, Zenon
<1>8. \A i \in 0 .. n : h[i] \in Seq(UnitType)
  <2>1. ASSUME NEW i \in 1 .. n, h[i - 1] \in Seq(UnitType)
        PROVE  h[i] \in Seq(UnitType)
    <3>1. s[i] \in UnitType
      BY <1>1
    <3>2. Append(h[i - 1], s[i]) \in Seq(UnitType)
      BY <2>1, <3>1
    <3> QED BY <1>7, <2>1, <3>2
  <2> QED BY <1>1, <1>7, <2>1, StaysIn
<1>9. \A i \in 1 .. n : h[i] \in Seq(UnitType)
  BY <1>1, <1>8
<1>10. Kept(s, h)
  BY <1>7, <1>9, Zenon DEF Kept, n
<1> QED BY <1>6, <1>10, Zenon DEF n

LEMMA WithoutPingsTyped ==
  ASSUME NEW s \in Seq(UnitType)
  PROVE  WithoutPings(s) \in Seq(UnitType)
<1>1. PICK h : Kept(s, h) /\ WithoutPings(s) = h[Len(s)]
  BY WithoutPingsIs
<1>2. Len(s) \in Nat /\ <<>> \in Seq(UnitType)
  OBVIOUS
<1> QED BY <1>1, <1>2 DEF Kept

LEMMA TokensTyped ==
  ASSUME script \in Scripts, NEW r \in Requests
  PROVE  Tokens(r) \in Seq(Token)
<1>1. script[r] \in AllKinds
  BY ConnAssumption DEF Scripts, Requests
<1> DEFINE t(k) == [k |-> k, r |-> r]
<1>2. \A k \in AllKinds \cup {"end", "body", "frame"} : t(k) \in Token
  BY DEF Token
<1>3. /\ t("junk") \in Token /\ t("post") \in Token /\ t("end") \in Token
      /\ t("body") \in Token /\ t("ws") \in Token /\ t("frame") \in Token
      /\ t(script[r]) \in Token
  BY <1>1, <1>2 DEF AllKinds
<1> HIDE DEF t
<1>4. /\ <<t("junk")>> \in Seq(Token)
      /\ <<t("post"), t("end"), t("body")>> \in Seq(Token)
      /\ <<t("ws"), t("end"), t("frame"), t("frame")>> \in Seq(Token)
      /\ <<t(script[r]), t("end")>> \in Seq(Token)
  BY <1>3
<1> QED BY <1>4 DEF Tokens, t

Joined(h) ==
  /\ h[0] = <<>>
  /\ \A r \in Requests :
       h[r] \in Seq(Token) /\ h[r] = h[r - 1] \o Tokens(r)

LEMMA StreamIs ==
  ASSUME script \in Scripts
  PROVE  \E h : Joined(h) /\ Stream = h[Len(script)]
<1> DEFINE n == Len(script)
           Eq(f) == f = [r \in 0 .. n |->
                           IF r = 0 THEN <<>> ELSE f[r - 1] \o Tokens(r)]
           step == [r \in 1 .. n |-> [t \in Seq(Token) |-> t \o Tokens(r)]]
<1>1. n \in Nat /\ <<>> \in Seq(Token)
  BY DEF Scripts
<1>2. \A r \in 1 .. n : \A t \in Seq(Token) : t \o Tokens(r) \in Seq(Token)
  BY TokensTyped DEF Requests
<1>3. step \in [1 .. n -> [Seq(Token) -> Seq(Token)]]
  BY <1>2
<1>4. PICK f \in [0 .. n -> Seq(Token)] :
        f[0] = <<>> /\ \A r \in 1 .. n : f[r] = step[r][f[r - 1]]
  <2> HIDE DEF n, step
  <2>1. Recurses(Seq(Token), n, <<>>, step)
    BY <1>1, <1>3, Recursion
  <2> QED BY <2>1 DEF Recurses
<1>5. Eq(f)
  <2>1. ASSUME NEW r \in 1 .. n
        PROVE  f[r] = f[r - 1] \o Tokens(r)
    <3>1. f[r - 1] \in Seq(Token) /\ f[r] = step[r][f[r - 1]]
      <4> HIDE DEF n, step
      <4>1. r - 1 \in 0 .. n
        BY <1>1
      <4> QED BY <1>4, <4>1
    <3> QED BY <3>1
  <2>2. f = [r \in 0 .. n |-> f[r]]
    BY <1>4
  <2>3. ASSUME NEW r \in 0 .. n
        PROVE  f[r] = IF r = 0 THEN <<>> ELSE f[r - 1] \o Tokens(r)
    <3>1. r = 0 \/ r \in 1 .. n
      BY <1>1
    <3> HIDE DEF n, step
    <3> QED BY <1>4, <2>1, <3>1
  <2> HIDE DEF n, step
  <2> QED BY <2>2, <2>3, Zenon
<1>6. PICK h : Eq(h) /\ Stream = h[n]
  BY <1>5 DEF Stream
<1> HIDE DEF n
<1>7. h[0] = <<>> /\ \A r \in 1 .. n : h[r] = h[r - 1] \o Tokens(r)
  <2>1. \A r \in 1 .. n : r \in 0 .. n /\ r # 0
    BY <1>1
  <2>2. 0 \in 0 .. n
    BY <1>1
  <2> QED BY <1>6, <2>1, <2>2, Zenon
<1>8. \A r \in 0 .. n : h[r] \in Seq(Token)
  <2>1. ASSUME NEW r \in 1 .. n, h[r - 1] \in Seq(Token)
        PROVE  h[r] \in Seq(Token)
    BY <1>2, <1>7, <2>1
  <2> QED BY <1>1, <1>7, <2>1, StaysIn
<1>9. \A r \in 1 .. n : h[r] \in Seq(Token)
  BY <1>1, <1>8
<1>10. Joined(h)
  BY <1>7, <1>9, Zenon DEF Joined, Requests, n
<1> QED BY <1>6, <1>10, Zenon DEF n

LEMMA StreamTyped ==
  ASSUME script \in Scripts
  PROVE  Stream \in Seq(Token)
<1>1. PICK h : Joined(h) /\ Stream = h[Len(script)]
  BY StreamIs
<1>2. Len(script) = 0 \/ Len(script) \in Requests
  BY DEF Scripts, Requests
<1>3. h[Len(script)] \in Seq(Token)
  <2>1. <<>> \in Seq(Token)
    OBVIOUS
  <2> QED BY <1>1, <1>2, <2>1, Zenon DEF Joined
<1> QED BY <1>1, <1>3, Zenon

-----------------------------------------------------------------------------
(* The functions on a connection.                                          *)

LEMMA SpoolTyped ==
  ASSUME NEW d \in Conn, NEW unit \in UnitType
  PROVE  /\ Spool(d, unit) \in Conn /\ Spool(d, unit).remote # <<>>
         /\ Spool(d, unit).flags = d.flags
         /\ Spool(d, unit).endpoint = d.endpoint
         /\ Spool(d, unit).request = d.request
         /\ Spool(d, unit).request_len = d.request_len
<1>1. Append(d.remote, unit) \in Seq(UnitType)
      /\ Append(d.remote, unit) # <<>>
  BY DEF Conn
<1> QED BY <1>1 DEF Spool, Conn

LEMMA CloseLocalIs ==
  ASSUME NEW d \in Conn
  PROVE  /\ CloseLocal(d) \in Conn
         /\ CloseLocal(d).endpoint = "none" /\ CloseLocal(d).request_len = 0
         /\ CloseLocal(d).remote = d.remote
         /\ CloseLocal(d).flags = IF d.remote = <<>> THEN {"CLOSE"}
                                                      ELSE {"SPOOL_DONE"}
BY DEF CloseLocal, Conn, NULL

LEMMA SendErrorIs ==
  ASSUME NEW d \in Conn, NEW r \in Requests
  PROVE  /\ SendError(d, r) \in Conn
         /\ SendError(d, r).endpoint = "none"
         /\ SendError(d, r).request_len = 0
         /\ SendError(d, r).flags = {"SPOOL_DONE"}
<1> DEFINE e == Spool(d, Unit("error", r, 0))
<1>1. Unit("error", r, 0) \in UnitType
  BY DEF Unit, UnitType
<1>2. e \in Conn /\ e.remote # <<>>
  BY <1>1, SpoolTyped
<1> HIDE DEF e
<1> QED BY <1>2, CloseLocalIs DEF SendError, e

\* What the parser needs of a connection whose request may have been read.
Parsed(d) ==
  /\ d \in Conn
  /\ d.request_len = 1 \/ d.endpoint = "user_file" => d.request \in Requests
  /\ d.request_len = -1 => d.request \in Requests \/ d.local # <<>>

\* What holds of it between two calls.
ConnOK(d) == Parsed(d) /\ d.request_len # -1

\* get_request_len: nothing, a refusal, or the length of a header.
LEMMA RequestLenIs ==
  ASSUME NEW io \in Seq(Token)
  PROVE  \/ RequestLen(io) = 0
         \/ io # <<>> /\ RequestLen(io) \in {-1} \cup 1 .. Len(io)
<1> DEFINE marks == {i \in DOMAIN io : io[i].k \in {"end", "junk"}}
           first == CHOOSE i \in marks : \A j \in marks : i <= j
<1>1. CASE marks = {}
  BY <1>1 DEF RequestLen
<1>2. CASE marks # {}
  <2>1. /\ marks \in SUBSET (1 .. Len(io)) /\ Len(io) \in Nat
        /\ marks \in SUBSET Nat
    OBVIOUS
  <2> HIDE DEF marks
  <2>2. first \in marks
    BY <1>2, <2>1, LeastNumber
  <2>3. first \in 1 .. Len(io) /\ io # <<>>
    <3> HIDE DEF first
    <3>1. first \in 1 .. Len(io)
      BY <2>1, <2>2
    <3> QED BY <2>1, <3>1
  <2>4. RequestLen(io) = IF io[first].k = "junk" THEN -1 ELSE first
    BY <1>2 DEF RequestLen, marks
  <2> HIDE DEF first
  <2> QED BY <2>3, <2>4
<1> QED BY <1>1, <1>2

\* What process_request and what it calls give back.
LEMMA ParseIs ==
  ASSUME NEW d, ConnOK(d)
  PROVE  /\ Parsed(Parse(d)) /\ Parse(d).flags = d.flags
<1> DEFINE n == RequestLen(d.local)
<1>1. d \in Conn /\ d.local \in Seq(Token)
  BY DEF ConnOK, Parsed, Conn
<1>2. n = 0 \/ (d.local # <<>> /\ n \in {-1} \cup 1 .. Len(d.local))
  BY <1>1, RequestLenIs
<1> HIDE DEF n
<1>3. CASE d.request_len # 0
  BY <1>3 DEF Parse, ConnOK
<1>4. CASE d.request_len = 0 /\ n <= 0
  <2>1. Parse(d) = [d EXCEPT !.request_len = n]
    BY <1>4 DEF Parse, n
  <2>2. n \in {-1, 0} /\ (n = -1 => d.local # <<>>)
    BY <1>1, <1>2, <1>4
  <2> DEFINE e == Parse(d)
  <2>3. e \in Conn
    BY <1>1, <2>1, <2>2 DEF Conn
  <2>4. /\ e.request_len = n /\ e.local = d.local /\ e.flags = d.flags
        /\ e.request = d.request /\ e.endpoint = d.endpoint
    BY <1>1, <2>1 DEF Conn
  <2> HIDE DEF e
  <2>5. d.endpoint = "user_file" => d.request \in Requests
    BY DEF ConnOK, Parsed
  <2> QED BY <2>2, <2>3, <2>4, <2>5 DEF Parsed, e
<1>5. CASE d.request_len = 0 /\ n > 0
  <2> DEFINE len == IF IsRequest(d.local) THEN 1 ELSE -1
  <2>1. Parse(d) = [d EXCEPT !.local = SubSeq(d.local, n + 1, Len(d.local)),
                             !.request = d.local[1].r, !.websocket = FALSE,
                             !.request_len = len]
    <3>1. d.request_len = 0 /\ ~(n <= 0)
      BY <1>2, <1>5
    <3> QED BY <3>1 DEF Parse, n
  <2>2. len \in {-1, 1}
    OBVIOUS
  <2>3. n \in 1 .. Len(d.local)
    BY <1>1, <1>2, <1>5
  <2>4. d.local[1].r \in Requests
    <3>1. 1 \in 1 .. Len(d.local)
      BY <1>1, <2>3
    <3>2. d.local[1] \in Token
      BY <1>1, <3>1
    <3> QED BY <3>2 DEF Token
  <2>5. SubSeq(d.local, n + 1, Len(d.local)) \in Seq(Token)
    BY <1>1, <2>3
  <2> HIDE DEF len
  <2> QED BY <1>1, <2>1, <2>2, <2>4, <2>5, ZenonT(40) DEF Parsed, Conn
<1> QED BY <1>2, <1>3, <1>4, <1>5

LEMMA OpenIs ==
  ASSUME NEW d, Parsed(d), d.request_len = 1, d.endpoint = "none"
  PROVE  LET e == OpenLocal(SendContinue(HandshakeIfRequested(d)))
         IN  Parsed(e) /\ e.flags = d.flags /\ e.request_len = 1
<1>1. d \in Conn /\ d.request \in Requests
  BY DEF Parsed
<1> DEFINE h == HandshakeIfRequested(d)
           s == SendContinue(h)
           e == OpenLocal(s)
<1>2. /\ h \in Conn /\ h.flags = d.flags /\ h.request_len = 1
      /\ h.request = d.request
  <2> DEFINE w == [d EXCEPT !.websocket = TRUE]
             u == Unit("handshake", w.request, 0)
  <2>1. w \in Conn /\ w.request = d.request /\ w.flags = d.flags
        /\ w.request_len = 1
    BY <1>1 DEF Conn
  <2>2. u \in UnitType
    BY <1>1, <2>1 DEF Unit, UnitType
  <2>3. h = d \/ h = Spool(w, u)
    BY Zenon DEF HandshakeIfRequested, SendHandshake
  <2> HIDE DEF w, u, h
  <2>4. /\ Spool(w, u) \in Conn /\ Spool(w, u).flags = d.flags
        /\ Spool(w, u).request_len = 1 /\ Spool(w, u).request = d.request
    BY <2>1, <2>2, SpoolTyped, Zenon
  <2> QED BY <1>1, <2>3, <2>4, Zenon
<1>3. /\ s \in Conn /\ s.flags = d.flags /\ s.request_len = 1
      /\ s.request = d.request
  <2> DEFINE u == Unit("continue", h.request, 0)
  <2>1. u \in UnitType
    BY <1>1, <1>2 DEF Unit, UnitType
  <2>2. s = h \/ s = Spool(h, u)
    BY Zenon DEF SendContinue
  <2> HIDE DEF u, h, s
  <2>3. /\ Spool(h, u) \in Conn /\ Spool(h, u).flags = d.flags
        /\ Spool(h, u).request_len = 1 /\ Spool(h, u).request = d.request
    BY <1>2, <2>1, SpoolTyped, Zenon
  <2> QED BY <1>2, <2>2, <2>3, Zenon
<1> HIDE DEF h, s
<1>4. /\ e \in Conn /\ e.flags = d.flags /\ e.request_len = 1
      /\ e.request = d.request
  <2> DEFINE p == IF HandlerFound(s) THEN "user_file" ELSE "none"
             l == IF HasHeader(s, "Content-Length") THEN 1 ELSE 0
  <2>1. e = [s EXCEPT !.endpoint = p, !.content_len = l]
    BY DEF OpenLocal
  <2>2. p \in {"none", "user_file"} /\ l \in {0, 1}
    OBVIOUS
  <2> HIDE DEF p, l, e
  <2> QED BY <1>3, <2>1, <2>2 DEF Conn
<1> QED BY <1>1, <1>4 DEF Parsed, h, s

LEMMA DecideIs ==
  ASSUME NEW d, Parsed(d)
  PROVE  /\ ConnOK(Decide(d))
         /\ "CLOSE" \in Decide(d).flags => "CLOSE" \in d.flags
<1> DEFINE e == Decide(d)
<1>1. d \in Conn /\ d.local \in Seq(Token) /\ d.request_len \in {-1, 0, 1}
  BY DEF Parsed, Conn
<1>2. ASSUME NEW r \in Requests, e = SendError(d, r)
      PROVE  ConnOK(e) /\ "CLOSE" \notin e.flags
  <2> HIDE DEF e
  <2>1. /\ e \in Conn /\ e.endpoint = "none" /\ e.request_len = 0
        /\ e.flags = {"SPOOL_DONE"}
    BY <1>1, <1>2, SendErrorIs
  <2> QED BY <2>1 DEF ConnOK, Parsed
<1>3. d.local # <<>> => d.local[1].r \in Requests
  <2> SUFFICES ASSUME d.local # <<>> PROVE d.local[1].r \in Requests
    OBVIOUS
  <2>1. d.local[1] \in Token
    BY <1>1
  <2> QED BY <2>1 DEF Token
<1>4. CASE d.request_len = -1
  <2> DEFINE r == IF d.request = NULL THEN d.local[1].r ELSE d.request
  <2>1. r \in Requests
    <3>1. d.request \in Requests \cup {NULL} /\ 0 \notin Requests
      BY <1>1 DEF Conn, Requests
    <3>2. d.request \in Requests \/ d.local # <<>>
      BY <1>4 DEF Parsed
    <3> QED BY <1>3, <3>1, <3>2 DEF NULL
  <2>2. e = SendError(d, r)
    BY <1>4 DEF Decide
  <2> HIDE DEF r, e
  <2> QED BY <1>2, <2>1, <2>2 DEF e
<1>5. CASE d.request_len = 0
  <2>1. CASE Len(d.local) > MaxRequestSize
    <3>1. d.local # <<>>
      BY <1>1, <2>1, ConnAssumption
    <3>2. e = SendError(d, d.local[1].r)
      BY <1>5, <2>1 DEF Decide
    <3> QED BY <1>2, <1>3, <3>1, <3>2, Zenon
  <2>2. CASE ~(Len(d.local) > MaxRequestSize)
    <3>1. e = d
      BY <1>5, <2>2 DEF Decide
    <3> HIDE DEF e
    <3> QED BY <1>5, <3>1 DEF ConnOK, e
  <2> QED BY <2>1, <2>2
<1>6. CASE d.request_len = 1
  <2>1. d.request \in Requests /\ d.request # NULL
    BY <1>6 DEF Parsed, NULL, Requests
  <2>2. CASE ~ValidUri(d) \/ Kind(d) = "old"
    <3>1. e = SendError(d, d.request)
      BY <1>6, <2>1, <2>2 DEF Decide
    <3> QED BY <1>2, <2>1, <3>1, Zenon
  <2>3. CASE ValidUri(d) /\ Kind(d) # "old" /\ d.endpoint = "none"
    <3> DEFINE o == OpenLocal(SendContinue(HandshakeIfRequested(d)))
    <3>1. e = o
      BY <1>6, <2>3 DEF Decide
    <3>2. Parsed(o) /\ o.flags = d.flags /\ o.request_len = 1
      BY <1>6, <2>3, OpenIs, Zenon
    <3> HIDE DEF e, o
    <3> QED BY <3>1, <3>2 DEF ConnOK, e
  <2>4. CASE ValidUri(d) /\ Kind(d) # "old" /\ d.endpoint # "none"
    <3>1. e = d
      BY <1>6, <2>4 DEF Decide
    <3> HIDE DEF e
    <3> QED BY <1>6, <3>1 DEF ConnOK, e
  <2> QED BY <2>2, <2>3, <2>4
<1> QED BY <1>1, <1>4, <1>5, <1>6

LEMMA HandlerIs ==
  ASSUME NEW d \in Conn, d.request \in Requests
  PROVE  /\ Handler(d) \in Conn /\ Handler(d).flags = d.flags
         /\ Handler(d).endpoint = d.endpoint
         /\ Handler(d).request = d.request
         /\ Handler(d).request_len = d.request_len
         /\ Handler(d).remote # <<>>
<1> DEFINE e == [d EXCEPT !.handle = FileOf(d), !.cl = LengthOf(d)]
           u == Unit("head", d.request, Announced(d))
<1>1. LengthOf(d) \in Nat /\ FileOf(d) \in Requests \cup {NULL}
  BY ConnAssumption DEF LengthOf, FileOf
<1>2. /\ e \in Conn /\ e.flags = d.flags /\ e.endpoint = d.endpoint
      /\ e.request = d.request /\ e.request_len = d.request_len
  BY <1>1 DEF Conn
<1>3. u \in UnitType
  BY <1>1 DEF Announced, Unit, UnitType
<1>4. Handler(d) = Spool(e, u)
  BY DEF Handler
<1> HIDE DEF e, u
<1> QED BY <1>2, <1>3, <1>4, SpoolTyped

\* What deliver_websocket_frame does with one frame, and how it goes on.
OneFrame(x) ==
  [Handler(x) EXCEPT !.local = SubSeq(@, 2, Len(@)), !.content_len = 1]
SameRequest(d) ==
  {x \in Conn : /\ x.flags = d.flags /\ x.endpoint = d.endpoint
                /\ x.request = d.request /\ x.request_len = d.request_len}
Delivered(d, h) ==
  /\ h[0] = d
  /\ \A i \in 0 .. Len(d.local) : h[i] \in SameRequest(d)
  /\ \A i \in 1 .. Len(d.local) : h[i] = OneFrame(h[i - 1])

LEMMA DeliverSteps ==
  ASSUME NEW d \in Conn, d.request \in Requests
  PROVE  \E h : Delivered(d, h) /\ Deliver(d) = h[Len(d.local)]
<1> DEFINE n == Len(d.local)
           S == SameRequest(d)
           Next1(x) == OneFrame(x)
           Eq(f) == f = [i \in 0 .. n |->
                           IF i = 0 THEN d ELSE Next1(f[i - 1])]
           step == [i \in 1 .. n |-> [x \in S |-> Next1(x)]]
<1>1. n \in Nat /\ d \in S
  BY DEF Conn, SameRequest
<1>2. ASSUME NEW x \in S
      PROVE  Next1(x) \in S
  <2> DEFINE h == Handler(x)
  <2>1. /\ h \in Conn /\ h.flags = d.flags /\ h.endpoint = d.endpoint
        /\ h.request = d.request /\ h.request_len = d.request_len
    BY HandlerIs DEF SameRequest
  <2> HIDE DEF h
  <2>2. SubSeq(h.local, 2, Len(h.local)) \in Seq(Token)
    <3>1. h.local \in Seq(Token)
      BY <2>1 DEF Conn
    <3> QED BY <3>1
  <2> DEFINE e == [h EXCEPT !.local = SubSeq(@, 2, Len(@)), !.content_len = 1]
  <2>3. /\ e \in Conn /\ e.flags = d.flags /\ e.endpoint = d.endpoint
        /\ e.request = d.request /\ e.request_len = d.request_len
    BY <2>1, <2>2 DEF Conn
  <2> QED BY <2>3 DEF h, OneFrame, SameRequest
<1> HIDE DEF S, Next1
<1>3. step \in [1 .. n -> [S -> S]]
  BY <1>2
<1>4. PICK f \in [0 .. n -> S] :
        f[0] = d /\ \A i \in 1 .. n : f[i] = step[i][f[i - 1]]
  <2> HIDE DEF n, step
  <2>1. Recurses(S, n, d, step)
    BY <1>1, <1>3, Recursion
  <2> QED BY <2>1 DEF Recurses
<1>5. Eq(f)
  <2>1. ASSUME NEW i \in 1 .. n
        PROVE  f[i] = Next1(f[i - 1])
    <3>1. f[i - 1] \in S /\ f[i] = step[i][f[i - 1]]
      <4> HIDE DEF n, step
      <4>1. i - 1 \in 0 .. n
        BY <1>1
      <4> QED BY <1>4, <4>1
    <3> QED BY <3>1
  <2>2. f = [i \in 0 .. n |-> f[i]]
    BY <1>4
  <2>3. ASSUME NEW i \in 0 .. n
        PROVE  f[i] = IF i = 0 THEN d ELSE Next1(f[i - 1])
    <3>1. i = 0 \/ i \in 1 .. n
      BY <1>1
    <3> HIDE DEF n, step
    <3> QED BY <1>4, <2>1, <3>1
  <2> HIDE DEF n, step
  <2> QED BY <2>2, <2>3, Zenon
<1>6. PICK h : Eq(h) /\ Deliver(d) = h[n]
  BY <1>5 DEF Deliver, Next1, OneFrame
<1>7. \A i \in 1 .. n : h[i] = Next1(h[i - 1])
  <2>1. \A i \in 1 .. n : i \in 0 .. n /\ i # 0
    BY <1>1
  <2> HIDE DEF n
  <2> QED BY <1>6, <2>1, Zenon
<1>8. h[0] = d
  <2>1. 0 \in 0 .. n
    BY <1>1
  <2> HIDE DEF n
  <2> QED BY <1>6, <2>1, Zenon
<1>9. \A i \in 0 .. n : h[i] \in S
  <2> HIDE DEF n
  <2>1. \A i \in 1 .. n : h[i - 1] \in S => h[i] \in S
    BY <1>2, <1>7
  <2> QED BY <1>1, <1>8, <2>1, StaysIn
<1> QED BY <1>6, <1>7, <1>8, <1>9, Zenon DEF Delivered, S, Next1

LEMMA DeliverIs ==
  ASSUME NEW d \in Conn, d.request \in Requests
  PROVE  /\ Deliver(d) \in Conn /\ Deliver(d).flags = d.flags
         /\ Deliver(d).endpoint = d.endpoint
         /\ Deliver(d).request = d.request
         /\ Deliver(d).request_len = d.request_len
<1>1. PICK h : Delivered(d, h) /\ Deliver(d) = h[Len(d.local)]
  BY DeliverSteps
<1>2. Len(d.local) \in 0 .. Len(d.local)
  BY DEF Conn
<1>3. Deliver(d) \in SameRequest(d)
  BY <1>1, <1>2, Zenon DEF Delivered
<1> QED BY <1>3 DEF SameRequest

LEMMA ProcessRequestIs ==
  ASSUME NEW d, ConnOK(d)
  PROVE  /\ ConnOK(ProcessRequest(d))
         /\ "CLOSE" \in ProcessRequest(d).flags => "CLOSE" \in d.flags
<1> DEFINE e == Decide(Parse(d))
<1>1. ConnOK(e) /\ ("CLOSE" \in e.flags => "CLOSE" \in d.flags)
  BY ParseIs, DecideIs, Zenon
<1> HIDE DEF e
<1>2. CASE e.endpoint # "user_file"
  BY <1>1, <1>2 DEF ProcessRequest, e
<1>3. CASE e.endpoint = "user_file"
  <2>1. e \in Conn /\ e.request \in Requests
    BY <1>1, <1>3 DEF ConnOK, Parsed
  <2>2. ProcessRequest(d) \in {Deliver(e), Handler(e), e}
    BY <1>3, Zenon DEF ProcessRequest, CallHandler, e
  <2>3. \A x \in {Deliver(e), Handler(e), e} :
          /\ x \in Conn /\ x.flags = e.flags /\ x.request = e.request
          /\ x.request_len = e.request_len
    <3>1. /\ Deliver(e) \in Conn /\ Deliver(e).flags = e.flags
          /\ Deliver(e).request = e.request
          /\ Deliver(e).request_len = e.request_len
      BY <2>1, DeliverIs, Zenon
    <3>2. /\ Handler(e) \in Conn /\ Handler(e).flags = e.flags
          /\ Handler(e).request = e.request
          /\ Handler(e).request_len = e.request_len
      BY <2>1, HandlerIs, Zenon
    <3> QED BY <2>1, <3>1, <3>2
  <2> QED BY <1>1, <2>1, <2>2, <2>3 DEF ConnOK, Parsed
<1> QED BY <1>2, <1>3

\* transfer_file_data.
LEMMA TransferIs ==
  ASSUME NEW d, ConnOK(d), NEW retry \in BOOLEAN
  PROVE  /\ ConnOK(Transfer(d, retry))
         /\ "CLOSE" \in Transfer(d, retry).flags =>
              "CLOSE" \in d.flags \/ Transfer(d, retry).remote = <<>>
<1> DEFINE t == Transfer(d, retry)
<1>1. d \in Conn
  BY DEF ConnOK, Parsed
<1>2. ASSUME NEW x \in Conn, t = CloseLocal(x)
      PROVE  ConnOK(t) /\ ("CLOSE" \in t.flags => t.remote = <<>>)
  <2> HIDE DEF t
  <2>1. /\ t \in Conn /\ t.endpoint = "none" /\ t.request_len = 0
        /\ t.remote = x.remote
        /\ t.flags = IF x.remote = <<>> THEN {"CLOSE"} ELSE {"SPOOL_DONE"}
    BY <1>2, CloseLocalIs
  <2> QED BY <2>1 DEF ConnOK, Parsed
<1>3. ASSUME t = d
      PROVE  ConnOK(t) /\ ("CLOSE" \in t.flags => "CLOSE" \in d.flags)
  BY <1>3, Zenon
<1>4. CASE d.endpoint # "user_file"
  BY <1>3, <1>4 DEF Transfer
<1>5. CASE d.endpoint = "user_file" /\ d.handle = NULL
  <2>1. t = d \/ t = CloseLocal(d)
    BY <1>5 DEF Transfer
  <2> QED BY <1>1, <1>2, <1>3, <2>1, Zenon
<1>6. CASE d.endpoint = "user_file" /\ d.handle # NULL
  <2> DEFINE n == Moved(d)
             m == [d EXCEPT !.cl = @ - n, !.unread[d.handle] = @ - n]
             u == Unit("data", d.request, n)
             e == Spool(m, u)
  <2>1. /\ d.handle \in Requests /\ d.request \in Requests
        /\ d.cl \in Nat /\ d.unread \in [Requests -> Nat]
    BY <1>1, <1>6 DEF Conn, ConnOK, Parsed
  <2>2. n \in Nat /\ d.cl - n \in Nat /\ d.unread[d.handle] - n \in Nat
    BY <2>1, ConnAssumption DEF Moved, Least
  <2> HIDE DEF n
  <2>3. /\ m \in Conn /\ m.flags = d.flags /\ m.request = d.request
        /\ m.request_len = d.request_len
    <3> DEFINE l == d.cl - n
               w == [d.unread EXCEPT ![d.handle] = @ - n]
    <3>1. l \in Nat /\ w \in [Requests -> Nat]
      BY <2>1, <2>2
    <3>2. m = [d EXCEPT !.cl = l, !.unread = w]
      BY <1>1 DEF Conn
    <3> HIDE DEF l, w, m
    <3> QED BY <1>1, <3>1, <3>2 DEF Conn
  <2>4. u \in UnitType
    BY <2>1, <2>2 DEF Unit, UnitType
  <2> HIDE DEF m, u
  <2>5. /\ e \in Conn /\ e.flags = d.flags /\ e.request = d.request
        /\ e.request_len = d.request_len
    BY <2>3, <2>4, SpoolTyped, Zenon
  <2>6. t = CloseLocal(d) \/ t = CloseLocal(e) \/ t = e
    BY <1>6 DEF Transfer, n, m, u
  <2> HIDE DEF e, t
  <2>7. CASE t = e
    <3>1. ConnOK(t) /\ t.flags = d.flags
      BY <2>1, <2>5, <2>7 DEF ConnOK, Parsed
    <3> QED BY <3>1, Zenon DEF t
  <2>8. CASE t = CloseLocal(d)
    BY <1>1, <1>2, <2>8, Zenon DEF t
  <2>9. CASE t = CloseLocal(e)
    BY <1>2, <2>5, <2>9, Zenon DEF t
  <2> QED BY <2>6, <2>7, <2>8, <2>9, Zenon
<1> QED BY <1>4, <1>5, <1>6

-----------------------------------------------------------------------------
(* The invariant.                                                          *)

\* CLOSE is set, for any reason but that the client has gone, only by the
\* write that empties remote, and the reaper is next.
ClosingInv ==
  conn # "closed" /\ ~hungup /\ "CLOSE" \in c.flags =>
    phase = "reap" /\ conn = "open" /\ c.remote = <<>> /\ idle = "no"

ConnInv ==
  /\ script \in Scripts
  /\ ConnTypeOK
  /\ ConnOK(c)
  /\ ClosingInv

LEMMA InitInv == Init => ConnInv
<1> SUFFICES ASSUME Init PROVE ConnInv
  OBVIOUS
<1>1. script \in Scripts /\ Stream \in Seq(Token)
  BY StreamTyped DEF Init
<1>2. [r \in Requests |-> FileLen] \in [Requests -> Nat]
  BY ConnAssumption
<1>3. NewConnection \in Conn
  BY <1>2 DEF NewConnection, Conn, NULL
<1>4. ConnTypeOK
  <2>1. c \in Conn /\ tosend \in Seq(Token)
    BY <1>1, <1>3 DEF Init
  <2>2. inbox \in Seq(Token) /\ received \in Seq(UnitType)
    BY DEF Init
  <2> QED BY <2>1, <2>2 DEF Init, ConnTypeOK, Conn
<1>5. ConnOK(c) /\ ClosingInv
  BY <1>3 DEF Init, ConnOK, Parsed, ClosingInv, NewConnection
<1> QED BY <1>1, <1>4, <1>5 DEF ConnInv

\* What every action has to show.
LEMMA TypesNext ==
  ASSUME ConnInv, script' = script, ConnOK(c'),
         tosend' \in Seq(Token), inbox' \in Seq(Token),
         hungup' \in BOOLEAN, writeset' \in BOOLEAN,
         idle' \in {"no", "quiet", "over"}, received' \in Seq(UnitType),
         conn' \in {"none", "open", "closed"},
         phase' \in {"prepare", "read", "write", "reap"},
         ClosingInv'
  PROVE  ConnInv'
<1>1. Conn' = Conn /\ Token' = Token /\ UnitType' = UnitType
      /\ Requests' = Requests /\ Scripts' = Scripts
  BY DEF Conn, Token, UnitType, Requests, Scripts
<1>2. c' \in Conn /\ script \in Scripts
  BY DEF ConnInv, ConnOK, Parsed
<1>3. ConnOK(c)'
  BY <1>1 DEF ConnOK, Parsed
<1>4. ConnTypeOK'
  <2>1. c' \in Conn'
    BY <1>1, <1>2
  <2> QED BY <1>1, <2>1 DEF ConnTypeOK, Conn
<1> QED BY <1>1, <1>2, <1>3, <1>4 DEF ConnInv

\* What every action has to begin with.
LEMMA TypesNow ==
  ASSUME ConnInv
  PROVE  /\ c \in Conn /\ ConnOK(c)
         /\ tosend \in Seq(Token) /\ inbox \in Seq(Token)
         /\ hungup \in BOOLEAN /\ writeset \in BOOLEAN
         /\ idle \in {"no", "quiet", "over"} /\ received \in Seq(UnitType)
         /\ conn \in {"none", "open", "closed"}
         /\ phase \in {"prepare", "read", "write", "reap"}
         /\ "CLOSE" \in c.flags /\ conn # "closed" /\ ~hungup =>
              phase = "reap" /\ conn = "open" /\ c.remote = <<>> /\ idle = "no"
BY DEF ConnInv, ConnTypeOK, ConnOK, Parsed, ClosingInv

\* The actions that leave the connection's struct alone.
LEMMA PlainStepsKeep ==
  ASSUME ConnInv, Accept \/ NothingToRead \/ NotWritable \/ ClientSend
                    \/ ClientHangup \/ Lapse
  PROVE  ConnInv'
<1> USE TypesNow, TypesNext DEF client
<1>1. CASE Accept
  BY <1>1 DEF Accept, ClosingInv
<1>2. CASE NothingToRead
  BY <1>2 DEF NothingToRead, At, ClosingInv
<1>3. CASE NotWritable
  BY <1>3 DEF NotWritable, At, ClosingInv
<1>4. CASE ClientSend
  BY <1>4 DEF ClientSend, ClosingInv
<1>5. CASE ClientHangup
  BY <1>5 DEF ClientHangup, ClosingInv
<1>6. CASE Lapse
  BY <1>6 DEF Lapse, At, ClosingInv
<1> QED BY <1>1, <1>2, <1>3, <1>4, <1>5, <1>6

LEMMA PrepareKeeps == ASSUME ConnInv, Prepare PROVE ConnInv'
<1>1. PICK retry \in BOOLEAN : c' = Transfer(c, retry)
  BY DEF Prepare
<1>2. /\ ConnOK(c')
      /\ "CLOSE" \in c'.flags => "CLOSE" \in c.flags \/ c'.remote = <<>>
  BY <1>1, TypesNow, TransferIs
<1>3. ~hungup /\ "CLOSE" \in c'.flags => conn' = "closed"
  BY <1>2, TypesNow DEF Prepare, At
<1>4. ClosingInv'
  BY <1>3 DEF Prepare, client, ClosingInv
<1> QED BY <1>2, <1>4, TypesNow, TypesNext DEF Prepare, client

LEMMA ReadKeeps == ASSUME ConnInv, Read PROVE ConnInv'
<1> DEFINE d == [c EXCEPT !.local = @ \o inbox]
<1>1. c.local \o inbox \in Seq(Token)
  BY TypesNow DEF Conn
<1>2. /\ d \in Conn /\ d.flags = c.flags /\ d.request = c.request
      /\ d.request_len = c.request_len /\ d.endpoint = c.endpoint
  BY <1>1, TypesNow DEF Conn
<1>3. ConnOK(d)
  <2> HIDE DEF d
  <2> QED BY <1>2, TypesNow DEF ConnOK, Parsed
<1>4. c' = ProcessRequest(d)
  BY DEF Read
<1> HIDE DEF d
<1>5. ConnOK(c') /\ ("CLOSE" \in c'.flags => "CLOSE" \in c.flags)
  BY <1>2, <1>3, <1>4, ProcessRequestIs
<1>6. ClosingInv'
  BY <1>5, TypesNow DEF Read, At, client, ClosingInv
<1> QED BY <1>5, <1>6, TypesNow, TypesNext DEF Read, client

\* Flags and what is to be written do not matter to ConnOK.
LEMMA SameConn ==
  ASSUME NEW d, ConnOK(d), NEW e \in Conn,
         e.request = d.request, e.request_len = d.request_len,
         e.endpoint = d.endpoint
  PROVE  ConnOK(e)
BY DEF ConnOK, Parsed

LEMMA FailuresKeep == ASSUME ConnInv, ReadEnd \/ WriteError PROVE ConnInv'
<1> DEFINE f == c.flags \cup {"CLOSE"}
<1>1. c' = [c EXCEPT !.flags = f] /\ hungup /\ UNCHANGED client
  BY DEF ReadEnd, WriteError
<1>2. f \in SUBSET {"CLOSE", "SPOOL_DONE"}
  BY TypesNow DEF Conn
<1> HIDE DEF f
<1>3. c' \in Conn
  BY <1>1, <1>2, TypesNow DEF Conn
<1>4. /\ c'.request = c.request /\ c'.request_len = c.request_len
      /\ c'.endpoint = c.endpoint
  BY <1>1, TypesNow DEF Conn
<1>5. ConnOK(c')
  BY <1>3, <1>4, TypesNow, SameConn
<1>6. ClosingInv'
  BY <1>1 DEF client, ClosingInv
<1> QED BY <1>5, <1>6, TypesNow, TypesNext DEF ReadEnd, WriteError, client

LEMMA WriteKeeps == ASSUME ConnInv, Write PROVE ConnInv'
<1>1. PICK n \in 1 .. Len(c.remote) :
        LET left == SubSeq(c.remote, n + 1, Len(c.remote)) IN
        /\ received' = received \o WithoutPings(SubSeq(c.remote, 1, n))
        /\ c' = [c EXCEPT !.remote = left, !.flags = FlagsAfter(@, left)]
  BY DEF Write
<1> DEFINE left == SubSeq(c.remote, n + 1, Len(c.remote))
           f == FlagsAfter(c.flags, left)
<1>2. c.remote \in Seq(UnitType) /\ c.flags \in SUBSET {"CLOSE", "SPOOL_DONE"}
  BY TypesNow DEF Conn
<1>3. left \in Seq(UnitType) /\ SubSeq(c.remote, 1, n) \in Seq(UnitType)
  BY <1>2
<1>4. /\ f \in SUBSET {"CLOSE", "SPOOL_DONE"}
      /\ "CLOSE" \in f => "CLOSE" \in c.flags \/ left = <<>>
  BY <1>2 DEF FlagsAfter
<1>5. received' \in Seq(UnitType)
  <2> DEFINE w == WithoutPings(SubSeq(c.remote, 1, n))
  <2>1. w \in Seq(UnitType)
    BY <1>3, WithoutPingsTyped
  <2>2. received' = received \o w
    BY <1>1
  <2> HIDE DEF w
  <2> QED BY <2>1, <2>2, TypesNow
<1>6. c' = [c EXCEPT !.remote = left, !.flags = f]
  BY <1>1
<1> HIDE DEF left, f
<1>7. c' \in Conn
  BY <1>3, <1>4, <1>6, TypesNow DEF Conn
<1>8. /\ c'.request = c.request /\ c'.request_len = c.request_len
      /\ c'.endpoint = c.endpoint /\ c'.flags = f /\ c'.remote = left
  BY <1>6, TypesNow DEF Conn
<1>9. ConnOK(c')
  BY <1>7, <1>8, TypesNow, SameConn
<1>10. ClosingInv'
  BY <1>4, <1>8, TypesNow DEF Write, At, client, ClosingInv
<1> QED BY <1>5, <1>9, <1>10, TypesNow, TypesNext DEF Write, At, client

LEMMA ReapKeeps == ASSUME ConnInv, Reap PROVE ConnInv'
<1> DEFINE u == Unit("ping", Len(script), 0)
<1>1. u \in UnitType
  BY DEF ConnInv, Scripts, Unit, UnitType, Requests
<1>2. c' = c \/ c' = Spool(c, u)
  BY Zenon DEF Reap, Pinged
<1> HIDE DEF u
<1>3. /\ c' \in Conn /\ c'.request = c.request /\ c'.endpoint = c.endpoint
      /\ c'.request_len = c.request_len /\ c'.flags = c.flags
  <2>1. CASE c' = c
    BY <2>1, TypesNow, Zenon
  <2>2. CASE c' = Spool(c, u)
    BY <1>1, <2>2, TypesNow, SpoolTyped, Zenon
  <2> QED BY <1>2, <2>1, <2>2
<1>4. ConnOK(c')
  BY <1>3, TypesNow, SameConn
<1>5. conn' # "closed" => "CLOSE" \notin c'.flags
  BY <1>3 DEF Reap, Reapable
<1>6. ClosingInv'
  BY <1>5 DEF ClosingInv
<1> QED BY <1>4, <1>6, TypesNow, TypesNext DEF Reap, client

LEMMA StepInv == ConnInv /\ [Next]_vars => ConnInv'
<1> SUFFICES ASSUME ConnInv, [Next]_vars PROVE ConnInv'
  OBVIOUS
<1>1. CASE Poll
  BY <1>1, PlainStepsKeep, PrepareKeeps, ReadKeeps, FailuresKeep, WriteKeeps,
     ReapKeeps DEF Poll
<1>2. CASE ClientSend \/ ClientHangup \/ Lapse
  BY <1>2, PlainStepsKeep
<1>3. CASE UNCHANGED vars
  BY <1>3, TypesNow, TypesNext DEF vars, client, ClosingInv
<1> QED BY <1>1, <1>2, <1>3 DEF Next

LEMMA Inductive == Spec => []ConnInv
BY InitInv, StepInv, PTL DEF Spec

-----------------------------------------------------------------------------
(* Sums and sequences of the client's reply.                               *)

\* What BodyLen adds up.
Sums(s, g) ==
  /\ g \in [1 .. Len(s) -> Nat] /\ g[1] = 0
  /\ \A j \in 2 .. Len(s) : g[j] = g[j - 1] + s[j].len

BodyLen(s) ==
  LET body[j \in 1 .. Len(s)] ==
        IF j = 1 THEN 0 ELSE body[j - 1] + s[j].len
  IN  body[Len(s)]

LEMMA BodyLenIs ==
  ASSUME NEW s \in Seq(UnitType), s # <<>>
  PROVE  \E g : Sums(s, g) /\ BodyLen(s) = g[Len(s)]
<1> DEFINE n == Len(s)
           Eq(f) == f = [j \in 1 .. n |->
                           IF j = 1 THEN 0 ELSE f[j - 1] + s[j].len]
           step == [i \in 1 .. n - 1 |-> [t \in Nat |-> t + s[i + 1].len]]
<1>1. n \in Nat \ {0} /\ \A j \in 1 .. n : s[j].len \in Nat
  <2>1. \A j \in 1 .. n : s[j] \in UnitType
    OBVIOUS
  <2>2. n \in Nat \ {0}
    BY EmptySeq
  <2> QED BY <2>1, <2>2 DEF UnitType
<1>2. step \in [1 .. n - 1 -> [Nat -> Nat]]
  BY <1>1
<1>3. PICK f \in [0 .. n - 1 -> Nat] :
        f[0] = 0 /\ \A i \in 1 .. n - 1 : f[i] = step[i][f[i - 1]]
  <2>1. n - 1 \in Nat
    BY <1>1
  <2> HIDE DEF n, step
  <2>2. Recurses(Nat, n - 1, 0, step)
    BY <1>2, <2>1, Recursion
  <2> QED BY <2>2 DEF Recurses
<1> DEFINE g == [j \in 1 .. n |-> f[j - 1]]
<1>4. /\ g \in [1 .. n -> Nat] /\ g[1] = 0
      /\ \A j \in 2 .. n : g[j] = g[j - 1] + s[j].len
  <2> HIDE DEF n, step
  <2>1. \A j \in 1 .. n : j - 1 \in 0 .. n - 1
    BY <1>1
  <2>2. g \in [1 .. n -> Nat] /\ g[1] = 0
    BY <1>1, <1>3, <2>1
  <2>3. ASSUME NEW j \in 2 .. n
        PROVE  g[j] = g[j - 1] + s[j].len
    <3>1. /\ j - 1 \in 1 .. n - 1 /\ j \in 1 .. n /\ j - 1 \in 1 .. n
          /\ (j - 1) + 1 = j /\ (j - 1) - 1 \in 0 .. n - 1
      BY <1>1
    <3>2. f[j - 1] = step[j - 1][f[(j - 1) - 1]] /\ f[(j - 1) - 1] \in Nat
      BY <1>3, <3>1
    <3>3. step[j - 1][f[(j - 1) - 1]] = f[(j - 1) - 1] + s[j].len
      BY <3>1, <3>2 DEF step
    <3> QED BY <3>1, <3>2, <3>3
  <2> QED BY <2>2, <2>3
<1> HIDE DEF g
<1>5. Eq(g)
  <2>1. g = [j \in 1 .. n |-> g[j]]
    BY <1>4
  <2>2. ASSUME NEW j \in 1 .. n
        PROVE  g[j] = IF j = 1 THEN 0 ELSE g[j - 1] + s[j].len
    <3>1. j = 1 \/ j \in 2 .. n
      BY <1>1
    <3> HIDE DEF n
    <3> QED BY <1>4, <3>1
  <2> HIDE DEF n
  <2> QED BY <2>1, <2>2, Zenon
<1>6. PICK h : Eq(h) /\ BodyLen(s) = h[n]
  BY <1>5 DEF BodyLen
<1>7. \A j \in 1 .. n : h[j] = IF j = 1 THEN 0 ELSE h[j - 1] + s[j].len
  <2> HIDE DEF n
  <2> QED BY <1>6, Zenon
<1>8. \A i \in 0 .. n - 1 : h[i + 1] \in Nat
  <2> DEFINE k == [i \in 0 .. n - 1 |-> h[i + 1]]
  <2> HIDE DEF n
  <2>1. n - 1 \in Nat /\ k[0] = 0
    BY <1>1, <1>7
  <2>2. ASSUME NEW i \in 1 .. n - 1, k[i - 1] \in Nat
        PROVE  k[i] \in Nat
    <3>1. h[i + 1] = h[i] + s[i + 1].len /\ s[i + 1].len \in Nat
      <4>1. i + 1 \in 1 .. n /\ i + 1 # 1 /\ (i + 1) - 1 = i
        BY <1>1
      <4> QED BY <1>1, <1>7, <4>1
    <3>2. k[i] = h[i + 1] /\ k[i - 1] = h[i]
      BY <1>1
    <3> HIDE DEF k
    <3> QED BY <2>2, <3>1, <3>2
  <2>3. \A i \in 0 .. n - 1 : k[i] \in Nat
    <3> HIDE DEF k
    <3>1. k[0] \in Nat
      BY <2>1
    <3> QED BY <2>1, <2>2, <3>1, StaysIn
  <2> QED BY <2>3
<1>9. h \in [1 .. n -> Nat]
  <2>1. \A j \in 1 .. n : h[j] \in Nat
    <3> TAKE j \in 1 .. n
    <3>1. j - 1 \in 0 .. n - 1 /\ (j - 1) + 1 = j
      BY <1>1
    <3> HIDE DEF n
    <3> QED BY <1>8, <3>1
  <2>2. h = [j \in 1 .. n |-> h[j]]
    <3> HIDE DEF n
    <3> QED BY <1>6
  <2> HIDE DEF n
  <2> QED BY <2>1, <2>2
<1>10. Sums(s, h)
  <2> HIDE DEF n
  <2>1. h[1] = 0
    BY <1>1, <1>7
  <2>2. \A j \in 2 .. n : h[j] = h[j - 1] + s[j].len
    BY <1>1, <1>7
  <2> QED BY <1>9, <2>1, <2>2 DEF Sums, n
<1> QED BY <1>6, <1>10

\* Sums of the same lengths are the same.
LEMMA SumsAgree ==
  ASSUME NEW s, NEW t, NEW g, NEW h, Sums(s, g), Sums(t, h), NEW n \in Nat,
         Len(s) \in Nat, Len(t) \in Nat, n <= Len(s), n <= Len(t),
         \A j \in 1 .. n : s[j] = t[j], n >= 1
  PROVE  g[n] = h[n]
<1> DEFINE T == {j \in 1 .. n : g[j] # h[j]}
<1> SUFFICES ASSUME g[n] # h[n] PROVE FALSE
  OBVIOUS
<1>1. T \in SUBSET Nat /\ T # {}
  OBVIOUS
<1>2. PICK x \in T : \A y \in T : x <= y
  <2> HIDE DEF T
  <2> QED BY <1>1, LeastNumber
<1>3. x \in 2 .. n /\ x \in 2 .. Len(s) /\ x \in 2 .. Len(t)
  BY DEF Sums
<1>4. x - 1 \in 1 .. n /\ x - 1 \notin T
  BY <1>2, <1>3
<1> QED BY <1>3, <1>4 DEF Sums

\* One more unit adds its length; the header counts for nothing.
LEMMA BodyLenGrows ==
  ASSUME NEW s \in Seq(UnitType), s # <<>>, NEW u \in UnitType
  PROVE  /\ BodyLen(s) \in Nat
         /\ BodyLen(Append(s, u)) = BodyLen(s) + u.len
<1> DEFINE n == Len(s)
           t == Append(s, u)
<1>1. /\ n \in Nat /\ n >= 1 /\ Len(t) = n + 1 /\ t \in Seq(UnitType)
      /\ t # <<>> /\ t[n + 1] = u /\ \A j \in 1 .. n : s[j] = t[j]
  BY AppendProperties
<1>2. PICK g : Sums(s, g) /\ BodyLen(s) = g[n]
  BY BodyLenIs
<1> HIDE DEF t
<1>3. PICK h : Sums(t, h) /\ BodyLen(t) = h[Len(t)]
  BY <1>1, BodyLenIs
<1>4. g[n] = h[n]
  <2>1. n <= Len(t) /\ Len(t) \in Nat /\ n <= n
    BY <1>1
  <2> HIDE DEF n
  <2> QED BY <1>1, <1>2, <1>3, <2>1, SumsAgree DEF n
<1>5. h[n + 1] = h[n] + u.len
  BY <1>1, <1>3 DEF Sums
<1>6. g[n] \in Nat
  BY <1>1, <1>2 DEF Sums
<1> QED BY <1>1, <1>2, <1>3, <1>4, <1>5, <1>6 DEF t

LEMMA BodyLenHead ==
  ASSUME NEW u \in UnitType
  PROVE  BodyLen(<<u>>) = 0
<1>1. <<u>> \in Seq(UnitType) /\ <<u>> # <<>> /\ Len(<<u>>) = 1
  OBVIOUS
<1>2. PICK g : Sums(<<u>>, g) /\ BodyLen(<<u>>) = g[Len(<<u>>)]
  BY <1>1, BodyLenIs
<1> QED BY <1>1, <1>2 DEF Sums

\* Where there are no pings none are taken away.
LEMMA NoPings ==
  ASSUME NEW s \in Seq(UnitType), \A i \in 1 .. Len(s) : s[i].k # "ping"
  PROVE  WithoutPings(s) = s
<1>1. PICK h : Kept(s, h) /\ WithoutPings(s) = h[Len(s)]
  BY WithoutPingsIs
<1> DEFINE n == Len(s)
           T == {i \in 0 .. n : h[i] # SubSeq(s, 1, i)}
<1>2. n \in Nat /\ SubSeq(s, 1, n) = s /\ SubSeq(s, 1, 0) = <<>>
  OBVIOUS
<1> SUFFICES ASSUME h[n] # SubSeq(s, 1, n) PROVE FALSE
  BY <1>1, <1>2
<1>3. T \in SUBSET Nat /\ T # {}
  BY <1>2
<1>4. PICK x \in T : \A y \in T : x <= y
  <2> HIDE DEF T
  <2> QED BY <1>3, LeastNumber
<1>5. x \in 1 .. n
  <2>1. x \in 0 .. n /\ h[x] # SubSeq(s, 1, x)
    OBVIOUS
  <2>2. h[0] = <<>>
    BY <1>1 DEF Kept
  <2>3. x # 0
    BY <1>2, <2>1, <2>2, Zenon
  <2> HIDE DEF n
  <2> QED BY <1>2, <2>1, <2>3
<1>6. x - 1 \in 0 .. n /\ x - 1 \notin T
  BY <1>2, <1>4, <1>5
<1>7. h[x - 1] = SubSeq(s, 1, x - 1)
  BY <1>6
<1>8. h[x] = Append(h[x - 1], s[x])
  BY <1>1, <1>5 DEF Kept
<1>9. SubSeq(s, 1, x) = Append(SubSeq(s, 1, x - 1), s[x])
  BY <1>2, <1>5
<1> QED BY <1>4, <1>7, <1>8, <1>9

\* What the client sends begins with the header of its first request.
LEMMA StreamBegins ==
  ASSUME script \in Scripts, script[1] = "get"
  PROVE  /\ Len(Stream) >= 2 /\ Len(Tokens(1)) = 2
         /\ Stream[1] = [k |-> "get", r |-> 1]
         /\ Stream[2] = [k |-> "end", r |-> 1]
<1>1. PICK h : Joined(h) /\ Stream = h[Len(script)]
  BY StreamIs
<1> DEFINE n == Len(script)
           a == [k |-> "get", r |-> 1]
           b == [k |-> "end", r |-> 1]
           S == {s \in Seq(Token) : Len(s) >= 2 /\ s[1] = a /\ s[2] = b}
           g == [i \in 0 .. n - 1 |-> h[i + 1]]
<1>2. n \in Nat /\ n >= 1 /\ Requests = 1 .. n
  BY DEF Scripts, Requests
<1>3. Tokens(1) = <<a, b>>
  BY DEF Tokens
<1>4. Tokens(1) \in Seq(Token)
  BY <1>2, TokensTyped
<1> HIDE DEF a, b, n
<1>5. h[1] = <<a, b>> /\ h[1] \in S
  <2>1. 1 \in Requests /\ 1 - 1 = 0
    BY <1>2
  <2>2. h[1] = h[0] \o Tokens(1)
    BY <1>1, <2>1 DEF Joined
  <2>3. h[0] = <<>>
    BY <1>1 DEF Joined
  <2>4. h[1] = <<a, b>>
    BY <1>3, <1>4, <2>2, <2>3
  <2>5. h[1] \in Seq(Token)
    BY <1>3, <1>4, <2>4
  <2> QED BY <2>4, <2>5
<1>6. ASSUME NEW i \in 1 .. n - 1, g[i - 1] \in S
      PROVE  g[i] \in S
  <2>1. i + 1 \in Requests /\ (i + 1) - 1 = i /\ i - 1 \in 0 .. n - 1
        /\ i \in 0 .. n - 1 /\ (i - 1) + 1 = i
    BY <1>2
  <2>2. g[i - 1] = h[i] /\ g[i] = h[i + 1]
    BY <2>1
  <2>3. h[i + 1] = h[i] \o Tokens(i + 1) /\ h[i + 1] \in Seq(Token)
    BY <1>1, <2>1 DEF Joined
  <2>4. Tokens(i + 1) \in Seq(Token)
    BY <2>1, TokensTyped
  <2>5. h[i] \in Seq(Token) /\ Len(h[i]) >= 2 /\ h[i][1] = a /\ h[i][2] = b
    BY <1>6, <2>2
  <2>6. /\ Len(h[i + 1]) >= 2 /\ h[i + 1][1] = a /\ h[i + 1][2] = b
    <3> DEFINE x == h[i]
               y == Tokens(i + 1)
    <3>1. x \in Seq(Token) /\ y \in Seq(Token) /\ Len(x) >= 2
      BY <2>4, <2>5
    <3> HIDE DEF x, y
    <3>2. Len(x \o y) >= 2 /\ (x \o y)[1] = x[1] /\ (x \o y)[2] = x[2]
      BY <3>1
    <3> QED BY <2>3, <2>5, <3>2 DEF x, y
  <2> QED BY <2>2, <2>3, <2>6
<1>7. \A i \in 0 .. n - 1 : g[i] \in S
  <2>1. n - 1 \in Nat /\ g[0] \in S
    <3>1. n - 1 \in Nat /\ 0 \in 0 .. n - 1 /\ 0 + 1 = 1
      BY <1>2
    <3>2. g[0] = h[1]
      BY <3>1
    <3> HIDE DEF g, S
    <3> QED BY <1>5, <3>1, <3>2
  <2> HIDE DEF g, S
  <2> QED BY <1>6, <2>1, StaysIn
<1>8. h[n] \in S
  <2>1. n - 1 \in 0 .. n - 1 /\ (n - 1) + 1 = n
    BY <1>2
  <2>2. g[n - 1] = h[n]
    BY <2>1
  <2> HIDE DEF g, S
  <2> QED BY <1>7, <2>1, <2>2
<1> QED BY <1>1, <1>3, <1>8 DEF a, b, n

\* The script is what it was, and so is all that follows from it.
LEMMA StreamStays ==
  ASSUME script' = script
  PROVE  Stream' = Stream
BY DEF Stream, Tokens

-----------------------------------------------------------------------------
(* A client that sends a GET and waits.                                    *)

\* How much the client has sent; tosend is the rest.
Sent == Len(Stream) - Len(tosend)
SendInv ==
  /\ Len(tosend) <= Len(Stream)
  /\ \A i \in 1 .. Len(tosend) : tosend[i] = Stream[Sent + i]

\* Its request has not come in whole.
Waiting ==
  /\ c.endpoint = "none" /\ c.remote = <<>> /\ received = <<>>
  /\ c.request_len = 0 /\ c.flags = {} /\ c.websocket = FALSE
  /\ c.unread[1] = FileLen
  /\ Len(c.local) <= 1 /\ Len(c.local) + Len(inbox) = Sent
  /\ \A i \in 1 .. Len(c.local) : c.local[i] = Stream[i]
  /\ \A i \in 1 .. Len(inbox) : inbox[i] = Stream[Len(c.local) + i]
  /\ conn = "closed" => idle = "over"

\* The header and as much of the body as has left the buffer are spooled.
Replying ==
  /\ c.local = <<>> /\ inbox = <<>> /\ Sent = 2
  /\ c.websocket = FALSE
  /\ Spooled # <<>> /\ Spooled[1] = Unit("head", 1, FileLen)
  /\ \A i \in 1 .. Len(Spooled) : Spooled[i].k # "ping"
  /\ BodyLen(Spooled) + c.unread[1] = FileLen

\* There is more in the buffer.
Serving ==
  /\ c.endpoint = "user_file" /\ c.request = 1 /\ c.handle = 1
  /\ c.cl = c.unread[1] /\ c.cl > 0 /\ c.flags = {}
  /\ conn = "closed" => idle = "over"

\* All of it is spooled.
Served ==
  /\ c.endpoint = "none" /\ c.unread[1] = 0
  /\ conn = "closed" => idle = "over" \/ c.remote = <<>>

Lone == script[1] = "get" /\ OnlyFirstSent /\ ~hungup
LoneInv == SendInv /\ (Lone => Waiting \/ (Replying /\ (Serving \/ Served)))

LEMMA LoneIs ==
  ASSUME ConnInv, Lone
  PROVE  /\ 1 \in Requests /\ Sent <= 2 /\ Len(Stream) >= 2
         /\ Stream[1] = [k |-> "get", r |-> 1]
         /\ Stream[2] = [k |-> "end", r |-> 1]
         /\ Stream \in Seq(Token)
<1>1. script \in Scripts /\ script[1] = "get" /\ OnlyFirstSent
  BY DEF ConnInv, Lone
<1>2. Len(Tokens(1)) = 2
  BY <1>1, StreamBegins
<1>3. Sent <= 2
  BY <1>1, <1>2 DEF OnlyFirstSent, Sent
<1>4. 1 \in Requests
  BY <1>1 DEF Scripts, Requests
<1> QED BY <1>1, <1>3, <1>4, StreamBegins, StreamTyped

\* The request comes in: one token is no request yet, two are.
LEMMA OneTokenWaits ==
  ASSUME NEW d \in Conn, d.request_len = 0, d.endpoint = "none",
         Len(d.local) = 1, d.local[1].k = "get"
  PROVE  ProcessRequest(d) = d
<1>1. RequestLen(d.local) = 0
  <2>1. {i \in DOMAIN d.local : d.local[i].k \in {"end", "junk"}} = {}
    BY DEF Conn
  <2> QED BY <2>1, Zenon DEF RequestLen
<1>2. Parse(d) = d
  <2>1. Parse(d) = [d EXCEPT !.request_len = 0]
    BY <1>1 DEF Parse
  <2> QED BY <2>1 DEF Conn
<1>3. Decide(d) = d
  <2>1. ~(Len(d.local) > MaxRequestSize)
    BY ConnAssumption
  <2> QED BY <2>1 DEF Decide
<1> QED BY <1>2, <1>3 DEF ProcessRequest

LEMMA TwoTokensAnswer ==
  ASSUME NEW d \in Conn, d.request_len = 0, d.endpoint = "none",
         Len(d.local) = 2, script[1] = "get", 1 \in Requests,
         d.local[1] = [k |-> "get", r |-> 1],
         d.local[2] = [k |-> "end", r |-> 1]
  PROVE  LET e == ProcessRequest(d) IN
         /\ e.local = <<>> /\ e.endpoint = "user_file" /\ e.flags = d.flags
         /\ e.remote = Append(d.remote, Unit("head", 1, FileLen))
         /\ e.request = 1 /\ e.handle = 1 /\ e.cl = FileLen
         /\ e.unread = d.unread /\ e.websocket = FALSE
<1> DEFINE io == d.local
<1>1. io \in Seq(Token) /\ Len(io) = 2 /\ DOMAIN io = 1 .. 2
  BY DEF Conn
<1>2. RequestLen(io) = 2
  <2> DEFINE marks == {i \in DOMAIN io : io[i].k \in {"end", "junk"}}
             first == CHOOSE i \in marks : \A j \in marks : i <= j
  <2>1. io[1].k = "get" /\ io[2].k = "end"
    OBVIOUS
  <2>2. marks = {2}
    BY <1>1, <2>1
  <2>3. first = 2
    <3> HIDE DEF marks
    <3>1. \A i \in marks : i = 2
      BY <2>2
    <3>2. \E i \in marks : \A j \in marks : i <= j
      BY <2>2
    <3>3. first \in marks
      BY <3>2
    <3> QED BY <3>1, <3>3
  <2>4. RequestLen(io) = IF io[first].k = "junk" THEN -1 ELSE first
    BY <2>2 DEF RequestLen
  <2> HIDE DEF first
  <2> QED BY <2>1, <2>3, <2>4
<1> DEFINE p == [d EXCEPT !.local = <<>>, !.request = 1, !.websocket = FALSE,
                          !.request_len = 1]
<1>3. Parse(d) = p
  <2>1. SubSeq(io, 3, 2) = <<>> /\ io[1].r = 1
    BY <1>1
  <2>2. IsRequest(io)
    BY DEF IsRequest, AllKinds
  <2>3. d.request_len = 0 /\ ~(RequestLen(io) <= 0) /\ Len(io) = 2
        /\ RequestLen(io) + 1 = 3
    BY <1>1, <1>2
  <2>4. Parse(d) = [d EXCEPT !.local = SubSeq(io, 3, 2), !.request = io[1].r,
                             !.websocket = FALSE, !.request_len = 1]
    BY <2>2, <2>3, Zenon DEF Parse
  <2> QED BY <2>1, <2>4, Zenon
<1>4. /\ p \in Conn /\ p.request = 1 /\ p.request_len = 1 /\ p.local = <<>>
      /\ p.endpoint = "none" /\ p.flags = d.flags /\ p.remote = d.remote
      /\ p.websocket = FALSE /\ p.unread = d.unread
  <2>1. <<>> \in Seq(Token) /\ 1 \in {-1, 0, 1} /\ 1 \in Requests
    OBVIOUS
  <2> QED BY <2>1 DEF Conn
<1> HIDE DEF p, io
<1>5. Kind(p) = "get" /\ ValidUri(p)
  BY <1>4 DEF Kind, ValidUri
<1>6. \A name : ~HasHeader(p, name)
  BY <1>5 DEF HasHeader, Headers
<1> DEFINE o == [p EXCEPT !.endpoint = "user_file", !.content_len = 0]
<1>7. Decide(p) = o
  <2>1. HandshakeIfRequested(p) = p /\ SendContinue(p) = p
    BY <1>6, Zenon DEF HandshakeIfRequested, SendContinue
  <2>2. OpenLocal(p) = o
    BY <1>5, <1>6 DEF OpenLocal, HandlerFound
  <2> HIDE DEF o
  <2>3. Decide(p) = OpenLocal(SendContinue(HandshakeIfRequested(p)))
    BY <1>4, <1>5 DEF Decide
  <2> QED BY <2>1, <2>2, <2>3, Zenon
<1>8. /\ o \in Conn /\ o.request = 1 /\ o.local = <<>>
      /\ o.endpoint = "user_file" /\ o.flags = d.flags
      /\ o.remote = d.remote /\ o.websocket = FALSE /\ o.unread = d.unread
      /\ o.content_len = 0
  BY <1>4 DEF Conn
<1> HIDE DEF o
<1>9. ProcessRequest(d) = Handler(o)
  <2>1. Len(o.local) >= o.content_len
    BY <1>8
  <2>2. CallHandler(o) = Handler(o)
    BY <1>8, <2>1 DEF CallHandler
  <2> QED BY <1>3, <1>7, <1>8, <2>2, Zenon DEF ProcessRequest
<1> DEFINE m == [o EXCEPT !.handle = 1, !.cl = FileLen]
           u == Unit("head", 1, FileLen)
<1>10. Handler(o) = Spool(m, u)
  <2>1. Kind(o) = "get"
    BY <1>8 DEF Kind
  <2>2. FileOf(o) = 1 /\ LengthOf(o) = FileLen /\ Announced(o) = FileLen
    BY <1>8, <2>1 DEF FileOf, LengthOf, Announced
  <2> QED BY <1>8, <2>2, Zenon DEF Handler
<1>11. /\ m.request = 1 /\ m.local = <<>> /\ m.handle = 1 /\ m.cl = FileLen
       /\ m.endpoint = "user_file" /\ m.flags = d.flags
       /\ m.remote = d.remote /\ m.websocket = FALSE /\ m.unread = d.unread
       /\ m \in Conn
  BY <1>8, ConnAssumption DEF Conn
<1> HIDE DEF m, u
<1>12. Spool(m, u) = [m EXCEPT !.remote = Append(m.remote, u)]
  BY DEF Spool
<1> DEFINE w == Append(m.remote, u)
<1>13. w = Append(d.remote, u)
  BY <1>11
<1> HIDE DEF w
<1>14. Spool(m, u) = [m EXCEPT !.remote = w]
  BY <1>12 DEF w
<1> DEFINE e == [m EXCEPT !.remote = w]
<1>15. /\ e.local = <<>> /\ e.endpoint = "user_file" /\ e.flags = d.flags
       /\ e.remote = w /\ e.request = 1 /\ e.handle = 1 /\ e.cl = FileLen
       /\ e.unread = d.unread /\ e.websocket = FALSE
  BY <1>11 DEF Conn
<1>16. ProcessRequest(d) = e
  BY <1>9, <1>10, <1>14, Zenon
<1> HIDE DEF e
<1> QED BY <1>13, <1>15, <1>16, Zenon DEF u

\* A block is moved; the last one closes the endpoint.
LEMMA TransferServes ==
  ASSUME NEW d \in Conn, 1 \in Requests, d.endpoint = "user_file",
         d.request = 1, d.handle = 1, d.cl = d.unread[1], d.cl > 0,
         NEW retry \in BOOLEAN
  PROVE  LET t == Transfer(d, retry) IN
         \E n \in Nat :
           /\ t.remote = Append(d.remote, Unit("data", 1, n))
           /\ t.unread[1] = d.unread[1] - n
           /\ t.local = d.local /\ t.websocket = d.websocket
           /\ \/ /\ t.endpoint = "user_file" /\ t.request = 1 /\ t.handle = 1
                 /\ t.cl = t.unread[1] /\ t.cl > 0 /\ t.flags = d.flags
              \/ t.endpoint = "none" /\ t.unread[1] = 0
<1> DEFINE n == Moved(d)
           m == [d EXCEPT !.cl = @ - n, !.unread[d.handle] = @ - n]
           u == Unit("data", d.request, n)
           e == Spool(m, u)
           x == d.unread[1]
<1>1. x \in Nat /\ x > 0 /\ d.cl = x /\ d.unread \in [Requests -> Nat]
  BY DEF Conn
<1>2. n \in Nat /\ n > 0 /\ n <= x
  BY <1>1, ConnAssumption DEF Moved, Least
<1> HIDE DEF n, x
<1> DEFINE l == x - n
           w == [d.unread EXCEPT ![1] = l]
<1>3. l \in Nat /\ w \in [Requests -> Nat] /\ w[1] = l
  BY <1>1, <1>2
<1>4. m = [d EXCEPT !.cl = l, !.unread = w]
  BY <1>1 DEF Conn, x
<1> HIDE DEF l, w, m
<1>5. /\ m.local = d.local /\ m.websocket = d.websocket
      /\ m.endpoint = "user_file" /\ m.request = 1 /\ m.handle = 1
      /\ m.cl = l /\ m.unread = w /\ m.flags = d.flags
      /\ m.remote = d.remote /\ m \in Conn
  BY <1>3, <1>4 DEF Conn
<1> DEFINE r == Append(d.remote, u)
<1>6. e = [m EXCEPT !.remote = r]
  BY <1>5 DEF Spool
<1>7. u = Unit("data", 1, n)
  OBVIOUS
<1> HIDE DEF u, r
<1>8. /\ e.local = d.local /\ e.websocket = d.websocket
      /\ e.endpoint = "user_file" /\ e.request = 1 /\ e.handle = 1
      /\ e.cl = l /\ e.unread = w /\ e.flags = d.flags /\ e.remote = r
      /\ e = [local |-> e.local, remote |-> e.remote, endpoint |-> e.endpoint,
              flags |-> e.flags, request |-> e.request,
              request_len |-> e.request_len, content_len |-> e.content_len,
              websocket |-> e.websocket, handle |-> e.handle, cl |-> e.cl,
              unread |-> e.unread]
  BY <1>5, <1>6 DEF Conn
<1>9. Transfer(d, retry) = IF e.cl <= 0 THEN CloseLocal(e) ELSE e
  <2>1. d.handle # NULL /\ ~IsError(n, retry)
    BY <1>2 DEF NULL, IsError
  <2> QED BY <2>1, Zenon DEF Transfer, n, m, u
<1> HIDE DEF e
<1>10. CASE l = 0
  <2>1. Transfer(d, retry) = CloseLocal(e)
    BY <1>8, <1>9, <1>10
  <2>2. LET t == CloseLocal(e) IN
        /\ t.local = e.local /\ t.remote = e.remote /\ t.unread = e.unread
        /\ t.websocket = e.websocket /\ t.endpoint = "none"
    BY <1>8 DEF CloseLocal
  <2>3. w[1] = d.unread[1] - n
    BY <1>3 DEF l, x
  <2> QED BY <1>2, <1>3, <1>7, <1>8, <1>10, <2>1, <2>2, <2>3, Zenon DEF r
<1>11. CASE l > 0
  <2>1. Transfer(d, retry) = e
    BY <1>3, <1>8, <1>9, <1>11
  <2>2. w[1] = d.unread[1] - n
    BY <1>3 DEF l, x
  <2> QED BY <1>2, <1>3, <1>7, <1>8, <1>11, <2>1, <2>2, Zenon DEF r
<1> QED BY <1>3, <1>10, <1>11

\* As long as the client does nothing, only the reply can change.
LEMMA SameClient ==
  ASSUME LoneInv, UNCHANGED client,
         Lone => Waiting' \/ (Replying' /\ (Serving' \/ Served'))
  PROVE  LoneInv'
<1>1. Stream' = Stream
  BY StreamStays DEF client
<1>2. Sent' = Sent /\ tosend' = tosend /\ script' = script
  BY <1>1 DEF Sent, client
<1>3. SendInv'
  BY <1>1, <1>2 DEF LoneInv, SendInv
<1>4. Lone' = Lone
  <2>1. Tokens(1)' = Tokens(1)
    BY <1>2 DEF Tokens
  <2> QED BY <1>1, <1>2, <2>1 DEF Lone, OnlyFirstSent, client
<1> QED BY <1>3, <1>4 DEF LoneInv

LEMMA SpooledIs ==
  ASSUME ConnInv
  PROVE  /\ Spooled \in Seq(UnitType) /\ c.remote \in Seq(UnitType)
         /\ received \in Seq(UnitType)
<1>1. received \in Seq(UnitType) /\ c.remote \in Seq(UnitType)
  BY TypesNow DEF Conn
<1>2. received \o c.remote \in Seq(UnitType)
  BY <1>1
<1> QED BY <1>1, <1>2 DEF Spooled

\* A block more in the spool is a block less in the buffer.
LEMMA ReplyGrows ==
  ASSUME ConnInv, Replying, NEW n \in Nat, 1 \in Requests,
         Stream' = Stream, tosend' = tosend,
         inbox' = inbox, received' = received,
         c'.remote = Append(c.remote, Unit("data", 1, n)),
         c'.unread[1] = c.unread[1] - n,
         c'.local = c.local, c'.websocket = c.websocket
  PROVE  Replying'
<1> DEFINE u == Unit("data", 1, n)
           s == Spooled
<1>1. u \in UnitType /\ u.len = n /\ u.k = "data"
  BY DEF Unit, UnitType
<1> HIDE DEF u
<1>2. Spooled' = Append(Spooled, u)
  <2>1. received \o Append(c.remote, u) = Append(received \o c.remote, u)
    BY <1>1, SpooledIs
  <2> QED BY <2>1, Zenon DEF Spooled, u
<1>3. s \in Seq(UnitType) /\ s # <<>>
  BY SpooledIs DEF Replying
<1>4. BodyLen(s) \in Nat /\ BodyLen(Append(s, u)) = BodyLen(s) + n
  BY <1>1, <1>3, BodyLenGrows
<1>5. c.unread[1] \in Nat
  BY TypesNow DEF Conn
<1>6. BodyLen(Spooled)' + c'.unread[1] = FileLen
  <2>1. BodyLen(Spooled)' = BodyLen(s) + n
    BY <1>2, <1>4, Zenon DEF BodyLen
  <2>2. BodyLen(s) + c.unread[1] = FileLen
    BY DEF Replying
  <2> QED BY <1>4, <1>5, <2>1, <2>2
<1>7. /\ Append(s, u) # <<>> /\ Append(s, u)[1] = s[1]
      /\ \A i \in 1 .. Len(Append(s, u)) :
           Append(s, u)[i] = IF i <= Len(s) THEN s[i] ELSE u
      /\ Len(s) \in Nat /\ Len(Append(s, u)) = Len(s) + 1
  <2> HIDE DEF s
  <2> QED BY <1>1, <1>3
<1>8. \A i \in 1 .. Len(Append(s, u)) : Append(s, u)[i].k # "ping"
  <2> TAKE i \in 1 .. Len(Append(s, u))
  <2>1. CASE i \in 1 .. Len(s)
    BY <1>7, <2>1 DEF Replying
  <2>2. CASE i \notin 1 .. Len(s)
    BY <1>1, <1>7, <2>2
  <2> QED BY <2>1, <2>2
<1>9. Sent' = Sent
  BY DEF Sent
<1> HIDE DEF s
<1> QED BY <1>2, <1>6, <1>7, <1>8, <1>9, Zenon DEF Replying, s

\* The steps that move nothing.
LEMMA ReplyStays ==
  ASSUME LoneInv, Lone, UNCHANGED <<client, inbox, received, c>>,
         conn' = "closed" => \/ conn = "closed" /\ idle' = idle
                             \/ idle' = "over"
                             \/ "CLOSE" \in c.flags /\ c.remote = <<>>
  PROVE  Waiting' \/ (Replying' /\ (Serving' \/ Served'))
<1>1. Stream' = Stream /\ tosend' = tosend /\ Sent' = Sent
  BY StreamStays DEF client, Sent
<1>2. inbox' = inbox /\ received' = received /\ c' = c
  OBVIOUS
<1>3. CASE Waiting
  <2>1. conn' = "closed" => idle' = "over"
    BY <1>3 DEF Waiting
  <2> QED BY <1>1, <1>2, <1>3, <2>1 DEF Waiting
<1>4. CASE Replying /\ Serving
  <2>1. conn' = "closed" => idle' = "over"
    BY <1>4 DEF Serving
  <2>2. Serving'
    BY <1>2, <1>4, <2>1 DEF Serving
  <2>3. Replying'
    BY <1>1, <1>2, <1>4, Zenon DEF Replying, Spooled, BodyLen
  <2> QED BY <2>2, <2>3
<1>5. CASE Replying /\ Served
  <2>1. conn' = "closed" => idle' = "over" \/ c.remote = <<>>
    BY <1>5 DEF Served
  <2>2. Served'
    BY <1>2, <1>5, <2>1 DEF Served
  <2>3. Replying'
    BY <1>1, <1>2, <1>5, Zenon DEF Replying, Spooled, BodyLen
  <2> QED BY <2>2, <2>3
<1> QED BY <1>3, <1>4, <1>5 DEF LoneInv

LEMMA QuietLone ==
  ASSUME ConnInv, LoneInv,
         Accept \/ NothingToRead \/ NotWritable \/ Lapse \/ UNCHANGED vars
  PROVE  LoneInv'
<1>1. UNCHANGED <<client, inbox, received, c>>
  BY Zenon DEF Accept, NothingToRead, NotWritable, Lapse, vars
<1>2. conn' = "closed" => conn = "closed" /\ idle' = idle
  BY DEF Accept, NothingToRead, NotWritable, Lapse, vars, At
<1> QED BY <1>1, <1>2, ReplyStays, SameClient

LEMMA ReapLone == ASSUME ConnInv, LoneInv, Reap PROVE LoneInv'
<1>1. ASSUME Lone
      PROVE  Waiting' \/ (Replying' /\ (Serving' \/ Served'))
  <2>1. ~c.websocket
    BY <1>1 DEF LoneInv, Waiting, Replying
  <2>2. c' = c
    BY <2>1 DEF Reap, Pinged
  <2>3. UNCHANGED <<client, inbox, received, c>>
    BY <2>2 DEF Reap
  <2>4. conn' = "closed" =>
          idle' = "over" \/ ("CLOSE" \in c.flags /\ c.remote = <<>>)
    BY <1>1, TypesNow DEF Reap, Reapable, At, Lone
  <2> QED BY <1>1, <2>3, <2>4, ReplyStays
<1> QED BY <1>1, SameClient DEF Reap

\* Once it hangs up it is not a client that waits.
LEMMA GoneLone ==
  ASSUME ConnInv, LoneInv, ReadEnd \/ WriteError \/ ClientHangup
  PROVE  LoneInv'
<1>1. hungup' /\ script' = script /\ tosend' = tosend
  BY DEF ReadEnd, WriteError, ClientHangup, client
<1>2. Stream' = Stream /\ Sent' = Sent
  BY <1>1, StreamStays DEF Sent
<1>3. SendInv'
  BY <1>1, <1>2 DEF LoneInv, SendInv
<1> QED BY <1>1, <1>3 DEF LoneInv, Lone

LEMMA PrepareLone == ASSUME ConnInv, LoneInv, Prepare PROVE LoneInv'
<1>1. PICK retry \in BOOLEAN : c' = Transfer(c, retry)
  BY DEF Prepare
<1>2. /\ UNCHANGED <<client, inbox, received, idle>>
      /\ conn = "open"
      /\ conn' = "closed" => c'.remote = <<>> /\ "CLOSE" \in c'.flags
  BY DEF Prepare, At
<1>3. ASSUME Lone
      PROVE  Waiting' \/ (Replying' /\ (Serving' \/ Served'))
  <2>1. CASE c.endpoint # "user_file"
    <3>1. c' = c
      BY <1>1, <2>1 DEF Transfer
    <3> QED BY <1>2, <1>3, <3>1, ReplyStays
  <2>2. CASE c.endpoint = "user_file"
    <3>1. Replying /\ Serving
      BY <1>3, <2>2 DEF LoneInv, Waiting, Served
    <3>2. 1 \in Requests /\ c \in Conn
      BY <1>3, LoneIs, TypesNow
    <3> DEFINE t == Transfer(c, retry)
    <3>3. PICK n \in Nat :
            /\ t.remote = Append(c.remote, Unit("data", 1, n))
            /\ t.unread[1] = c.unread[1] - n
            /\ t.local = c.local /\ t.websocket = c.websocket
            /\ \/ /\ t.endpoint = "user_file" /\ t.request = 1 /\ t.handle = 1
                  /\ t.cl = t.unread[1] /\ t.cl > 0 /\ t.flags = c.flags
               \/ t.endpoint = "none" /\ t.unread[1] = 0
      BY <3>1, <3>2, TransferServes DEF Serving
    <3> HIDE DEF t
    <3>4. c' = t
      BY <1>1 DEF t
    <3>5. Stream' = Stream /\ tosend' = tosend
      BY <1>2, StreamStays DEF client
    <3>6. Replying'
      BY <1>2, <3>1, <3>2, <3>3, <3>4, <3>5, ReplyGrows
    <3>7. c'.remote # <<>>
      <4>1. Unit("data", 1, n) \in UnitType
        BY <3>2, <3>3 DEF Unit, UnitType
      <4>2. c.remote \in Seq(UnitType)
        BY SpooledIs
      <4> QED BY <3>3, <3>4, <4>1, <4>2
    <3>8. conn' # "closed"
      BY <1>2, <3>7
    <3>9. Serving' \/ Served'
      <4>1. c.flags = {}
        BY <3>1 DEF Serving
      <4> QED BY <3>3, <3>4, <3>8, <4>1 DEF Serving, Served
    <3> QED BY <3>6, <3>9
  <2> QED BY <2>1, <2>2
<1> QED BY <1>2, <1>3, SameClient

LEMMA WriteLone == ASSUME ConnInv, LoneInv, Write PROVE LoneInv'
<1>1. PICK n \in 1 .. Len(c.remote) :
        LET left == SubSeq(c.remote, n + 1, Len(c.remote)) IN
        /\ received' = received \o WithoutPings(SubSeq(c.remote, 1, n))
        /\ c' = [c EXCEPT !.remote = left, !.flags = FlagsAfter(@, left)]
  BY DEF Write
<1> DEFINE gone == SubSeq(c.remote, 1, n)
           left == SubSeq(c.remote, n + 1, Len(c.remote))
           f == FlagsAfter(c.flags, left)
<1>2. UNCHANGED <<client, inbox, conn>> /\ conn = "open"
  BY DEF Write, At
<1>3. ASSUME Lone
      PROVE  Waiting' \/ (Replying' /\ (Serving' \/ Served'))
  <2>1. received \in Seq(UnitType) /\ c.remote \in Seq(UnitType)
    BY SpooledIs
  <2>2. c.remote # <<>>
    BY <2>1
  <2>3. Replying /\ (Serving \/ Served)
    BY <1>3, <2>2 DEF LoneInv, Waiting
  <2>4. /\ gone \in Seq(UnitType) /\ left \in Seq(UnitType)
        /\ gone \o left = c.remote /\ Len(gone) = n
        /\ \A i \in 1 .. Len(gone) : gone[i] = c.remote[i]
    BY <2>1
  <2>5. WithoutPings(gone) = gone
    <3>1. ASSUME NEW i \in 1 .. Len(gone)
          PROVE  gone[i].k # "ping"
      <4> DEFINE j == Len(received) + i
                 w == received \o c.remote
      <4>1. /\ j \in 1 .. Len(received \o c.remote)
            /\ (received \o c.remote)[j] = c.remote[i]
        <5>1. i \in 1 .. Len(c.remote)
          BY <2>1, <2>4
        <5> HIDE DEF gone
        <5>2. /\ Len(w) = Len(received) + Len(c.remote)
              /\ \A k \in 1 .. Len(received) + Len(c.remote) :
                   w[k] = IF k <= Len(received) THEN received[k]
                          ELSE c.remote[k - Len(received)]
          BY <2>1, ConcatProperties
        <5> HIDE DEF w
        <5>3. /\ j \in 1 .. Len(received) + Len(c.remote)
              /\ ~(j <= Len(received)) /\ j - Len(received) = i
          BY <2>1, <5>1
        <5> HIDE DEF j
        <5> QED BY <5>2, <5>3 DEF w
      <4> HIDE DEF j, gone, w
      <4>2. Spooled[j].k # "ping"
        BY <2>3, <4>1 DEF Replying, Spooled
      <4> QED BY <2>4, <4>1, <4>2 DEF Spooled
    <3> HIDE DEF gone
    <3> QED BY <2>4, <3>1, NoPings
  <2>6. c' = [c EXCEPT !.remote = left, !.flags = f]
    BY <1>1
  <2>7. received' = received \o gone
    BY <1>1, <2>5
  <2> HIDE DEF gone, left, f
  <2>8. /\ c'.local = c.local /\ c'.endpoint = c.endpoint
        /\ c'.request = c.request /\ c'.handle = c.handle /\ c'.cl = c.cl
        /\ c'.unread = c.unread /\ c'.websocket = c.websocket
        /\ c'.remote = left /\ c'.flags = f
    BY <2>6, TypesNow DEF Conn
  <2>9. Spooled' = Spooled
    <3>1. (received \o gone) \o left = received \o (gone \o left)
      <4>1. \A x, y, z \in Seq(UnitType) : (x \o y) \o z = x \o (y \o z)
        BY ConcatAssociative
      <4> QED BY <2>1, <2>4, <4>1, Zenon
    <3> QED BY <2>4, <2>7, <2>8, <3>1, Zenon DEF Spooled
  <2>10. Stream' = Stream /\ tosend' = tosend /\ inbox' = inbox
    BY <1>2, StreamStays DEF client
  <2>11. Replying'
    <3>1. Sent' = Sent
      BY <2>10 DEF Sent
    <3>2. BodyLen(Spooled)' = BodyLen(Spooled)
      BY <2>9, Zenon DEF BodyLen
    <3> QED BY <2>3, <2>8, <2>9, <2>10, <3>1, <3>2, Zenon DEF Replying
  <2>12. conn' # "closed"
    BY <1>2
  <2>13. c.flags = {} => f = {}
    BY DEF f, FlagsAfter
  <2>14. Serving' \/ Served'
    BY <2>3, <2>8, <2>12, <2>13 DEF Serving, Served
  <2> QED BY <2>11, <2>14
<1> QED BY <1>2, <1>3, SameClient

LEMMA ReadLone == ASSUME ConnInv, LoneInv, Read PROVE LoneInv'
<1> DEFINE io == c.local \o inbox
           d == [c EXCEPT !.local = io]
<1>1. /\ UNCHANGED <<client, received, conn>> /\ conn = "open"
      /\ inbox # <<>> /\ inbox' = <<>> /\ c' = ProcessRequest(d)
  BY DEF Read, At
<1>2. ASSUME Lone
      PROVE  Waiting' \/ (Replying' /\ (Serving' \/ Served'))
  <2>1. Waiting
    BY <1>1, <1>2 DEF LoneInv, Replying
  <2>2. /\ c \in Conn /\ c.local \in Seq(Token) /\ inbox \in Seq(Token)
    BY TypesNow DEF Conn
  <2>3. Stream' = Stream /\ tosend' = tosend /\ Sent' = Sent
    BY <1>1, StreamStays DEF client, Sent
  <2>4. /\ 1 \in Requests /\ Sent <= 2 /\ script[1] = "get"
        /\ Stream[1] = [k |-> "get", r |-> 1]
        /\ Stream[2] = [k |-> "end", r |-> 1]
    BY <1>2, LoneIs DEF Lone
  <2>5. /\ Len(c.local) + Len(inbox) = Sent
        /\ \A i \in 1 .. Len(c.local) : c.local[i] = Stream[i]
        /\ \A i \in 1 .. Len(inbox) : inbox[i] = Stream[Len(c.local) + i]
    BY <2>1 DEF Waiting
  <2>6. /\ io \in Seq(Token) /\ Len(io) = Sent /\ Len(io) \in {1, 2}
        /\ \A i \in 1 .. Len(io) : io[i] = Stream[i]
    <3>1. io \in Seq(Token) /\ Len(io) = Len(c.local) + Len(inbox)
          /\ Len(io) \in Nat /\ Len(inbox) >= 1
      BY <1>1, <2>2
    <3>2. ASSUME NEW i \in 1 .. Len(io)
          PROVE  io[i] = Stream[i]
      <4>1. CASE i \in 1 .. Len(c.local)
        BY <2>2, <2>5, <4>1
      <4>2. CASE i \notin 1 .. Len(c.local)
        <5> DEFINE j == i - Len(c.local)
        <5>1. j \in 1 .. Len(inbox) /\ Len(c.local) + j = i
          BY <2>2, <4>2
        <5>2. io[i] = inbox[j]
          BY <2>2, <4>2
        <5> HIDE DEF j
        <5> QED BY <2>5, <5>1, <5>2
      <4> QED BY <4>1, <4>2
    <3>3. Len(io) <= 2 /\ Len(io) >= 1
      <4> HIDE DEF io
      <4> QED BY <2>2, <2>4, <2>5, <3>1
    <3> QED BY <2>5, <3>1, <3>2, <3>3
  <2> HIDE DEF io
  <2>7. /\ d \in Conn /\ d.local = io /\ d.remote = <<>>
        /\ d.endpoint = "none" /\ d.request_len = 0 /\ d.flags = {}
        /\ d.websocket = FALSE /\ d.unread = c.unread
    BY <2>1, <2>2, <2>6 DEF Conn, Waiting
  <2> HIDE DEF d
  <2>8. c.unread[1] = FileLen /\ received = <<>>
    BY <2>1 DEF Waiting
  <2>9. CASE Len(io) = 1
    <3>1. d.local[1].k = "get" /\ Len(d.local) = 1
      BY <2>4, <2>6, <2>7, <2>9
    <3>2. c' = d
      BY <1>1, <2>7, <3>1, OneTokenWaits
    <3>3. Len(inbox') = 0 /\ ~(conn' = "closed")
      BY <1>1
    <3>4. /\ c'.local = io /\ c'.remote = <<>> /\ c'.endpoint = "none"
          /\ c'.request_len = 0 /\ c'.flags = {} /\ c'.websocket = FALSE
          /\ c'.unread[1] = FileLen
      BY <2>7, <2>8, <3>2
    <3>5. /\ Len(c'.local) <= 1 /\ Len(c'.local) + Len(inbox') = Sent'
          /\ \A i \in 1 .. Len(inbox') :
               inbox'[i] = Stream'[Len(c'.local) + i]
      <4>1. Len(c'.local) = 1 /\ Sent' = 1
        BY <2>3, <2>6, <2>9, <3>4
      <4> QED BY <3>3, <4>1
    <3>6. \A i \in 1 .. Len(c'.local) : c'.local[i] = Stream'[i]
      BY <2>3, <2>6, <3>4
    <3>7. received' = <<>>
      BY <1>1, <2>8
    <3> QED BY <3>3, <3>4, <3>5, <3>6, <3>7, Zenon DEF Waiting
  <2>10. CASE Len(io) = 2
    <3> DEFINE u == Unit("head", 1, FileLen)
    <3>1. /\ Len(d.local) = 2 /\ d.local[1] = [k |-> "get", r |-> 1]
          /\ d.local[2] = [k |-> "end", r |-> 1]
      BY <2>4, <2>6, <2>7, <2>10
    <3>2. /\ c'.local = <<>> /\ c'.endpoint = "user_file" /\ c'.flags = d.flags
          /\ c'.remote = Append(d.remote, u)
          /\ c'.request = 1 /\ c'.handle = 1 /\ c'.cl = FileLen
          /\ c'.unread = d.unread /\ c'.websocket = FALSE
      BY <1>1, <2>4, <2>7, <3>1, TwoTokensAnswer
    <3>3. u \in UnitType /\ u.k = "head"
      BY <2>4, ConnAssumption DEF Unit, UnitType
    <3> HIDE DEF u
    <3>4. Spooled' = <<u>>
      <4>1. <<>> \o Append(<<>>, u) = <<u>>
        OBVIOUS
      <4>2. received' = <<>>
        BY <1>1, <2>8
      <4> QED BY <2>7, <3>2, <4>1, <4>2, Zenon DEF Spooled
    <3>5. BodyLen(Spooled)' = 0
      <4>1. BodyLen(Spooled)' = BodyLen(<<u>>)
        BY <3>4, Zenon DEF BodyLen
      <4> QED BY <3>3, <4>1, BodyLenHead
    <3>6. c'.unread[1] = FileLen /\ FileLen \in Nat /\ FileLen > 0
      BY <2>7, <2>8, <3>2, ConnAssumption
    <3>7. /\ <<u>> # <<>> /\ <<u>>[1] = u
          /\ \A i \in 1 .. Len(<<u>>) : <<u>>[i].k # "ping"
      BY <3>3
    <3>8. Replying'
      <4>1. BodyLen(Spooled)' + c'.unread[1] = FileLen
        BY <3>5, <3>6
      <4>2. Sent' = 2
        BY <2>3, <2>6, <2>10
      <4> QED BY <1>1, <3>2, <3>4, <3>7, <4>1, <4>2, Zenon DEF Replying, u
    <3>9. Serving'
      BY <1>1, <2>7, <3>2, <3>6 DEF Serving
    <3> QED BY <3>8, <3>9
  <2> QED BY <2>6, <2>9, <2>10
<1> QED BY <1>1, <1>2, SameClient

LEMMA ClientSendLone == ASSUME ConnInv, LoneInv, ClientSend PROVE LoneInv'
<1>1. PICK n \in 1 .. Len(tosend) :
        /\ inbox' = inbox \o SubSeq(tosend, 1, n)
        /\ tosend' = SubSeq(tosend, n + 1, Len(tosend))
  BY DEF ClientSend
<1> DEFINE m == Len(tosend)
<1>2. /\ script' = script /\ Stream' = Stream
      /\ UNCHANGED <<hungup, received, conn, c>>
      /\ conn # "closed"
  BY StreamStays DEF ClientSend
<1>3. /\ tosend \in Seq(Token) /\ inbox \in Seq(Token) /\ m \in Nat
      /\ c.local \in Seq(Token) /\ Len(Stream) \in Nat
  BY TypesNow, StreamTyped DEF Conn, ConnInv
<1>4. /\ Len(tosend') = m - n
      /\ \A i \in 1 .. m - n : tosend'[i] = tosend[n + i]
  BY <1>1, <1>3
<1>5. Sent' = Sent + n /\ Sent \in Int
  <2>1. Sent = Len(Stream) - m /\ Sent' = Len(Stream) - Len(tosend')
    BY <1>2, Zenon DEF Sent
  <2>2. n \in Nat
    BY <1>3
  <2> HIDE DEF m
  <2> QED BY <1>3, <1>4, <2>1, <2>2
<1>6. SendInv'
  <2>1. m <= Len(Stream) /\ \A i \in 1 .. m : tosend[i] = Stream[Sent + i]
    BY DEF LoneInv, SendInv
  <2>2. ASSUME NEW i \in 1 .. Len(tosend')
        PROVE  tosend'[i] = Stream[Sent' + i]
    <3>1. /\ i \in 1 .. m - n /\ n + i \in 1 .. m
          /\ Sent + (n + i) = Sent' + i
      BY <1>3, <1>4, <1>5
    <3> QED BY <1>4, <2>1, <3>1
  <2>3. Len(tosend') <= Len(Stream)
    BY <1>3, <1>4, <2>1
  <2> QED BY <1>2, <2>2, <2>3 DEF SendInv
<1>7. ASSUME Lone'
      PROVE  Waiting'
  <2>1. Lone /\ Sent + n <= 2
    <3>1. Tokens(1)' = Tokens(1)
      BY <1>2 DEF Tokens
    <3>2. script[1] = "get" /\ script \in Scripts
      BY <1>2, <1>7 DEF Lone, ConnInv
    <3>3. Len(Tokens(1)) = 2
      BY <3>2, StreamBegins
    <3>4. Sent + n <= 2
      BY <1>5, <1>7, <3>1, <3>3 DEF Lone, OnlyFirstSent, Sent
    <3>5. OnlyFirstSent
      BY <1>5, <3>3, <3>4 DEF OnlyFirstSent, Sent
    <3> QED BY <1>2, <1>7, <3>4, <3>5 DEF Lone
  <2>2. Waiting
    <3>1. ~Replying
      BY <1>5, <2>1 DEF Replying
    <3> QED BY <2>1, <3>1 DEF LoneInv
  <2> DEFINE k == Len(inbox)
             x == SubSeq(tosend, 1, n)
  <2>3. /\ k \in Nat /\ Len(inbox') = k + n
        /\ \A i \in 1 .. k + n :
             inbox'[i] = IF i <= k THEN inbox[i] ELSE tosend[i - k]
    <3>1. x \in Seq(Token) /\ Len(x) = n /\ \A i \in 1 .. n : x[i] = tosend[i]
      BY <1>3
    <3> HIDE DEF x
    <3>2. inbox' = inbox \o x
      BY <1>1 DEF x
    <3>3. n \in Nat /\ k \in Nat
      BY <1>3
    <3>4. /\ Len(inbox \o x) = k + n
          /\ \A i \in 1 .. k + n :
               (inbox \o x)[i] = IF i <= k THEN inbox[i] ELSE x[i - k]
      BY <1>3, <3>1, ConcatProperties
    <3> HIDE DEF k
    <3>5. \A i \in 1 .. k + n : i <= k \/ i - k \in 1 .. n
      BY <3>3
    <3> QED BY <3>1, <3>2, <3>3, <3>4, <3>5
  <2> HIDE DEF k
  <2> DEFINE l == Len(c.local)
  <2>4. l \in Nat /\ l + k = Sent
    BY <1>3, <2>2 DEF Waiting, k
  <2> HIDE DEF l
  <2>5. ASSUME NEW i \in 1 .. k + n
        PROVE  inbox'[i] = Stream[l + i]
    <3>1. CASE i <= k
      <4>1. i \in 1 .. k
        BY <2>3, <3>1
      <4> QED BY <2>2, <2>3, <3>1, <4>1 DEF Waiting, k, l
    <3>2. CASE i > k
      <4>1. i - k \in 1 .. m /\ Sent + (i - k) = l + i
        BY <1>3, <2>3, <2>4, <3>2
      <4>2. tosend[i - k] = Stream[Sent + (i - k)]
        BY <4>1 DEF LoneInv, SendInv
      <4>3. ~(i <= k)
        BY <2>3, <3>2
      <4> QED BY <2>3, <4>1, <4>2, <4>3
    <3> QED BY <2>3, <3>1, <3>2
  <2>6. l + Len(inbox') = Sent'
    BY <1>5, <2>3, <2>4
  <2>7. \A i \in 1 .. Len(inbox') : inbox'[i] = Stream[l + i]
    BY <2>3, <2>5
  <2> QED BY <1>2, <2>2, <2>6, <2>7 DEF Waiting, l
<1> QED BY <1>6, <1>7 DEF LoneInv

LEMMA LoneInit == ASSUME Init PROVE LoneInv
<1>1. script \in Scripts /\ tosend = Stream /\ Stream \in Seq(Token)
  BY StreamTyped DEF Init
<1>2. Sent = 0 /\ Len(Stream) \in Nat
  BY <1>1 DEF Sent
<1>3. SendInv
  BY <1>1, <1>2 DEF SendInv
<1>4. ASSUME Lone
      PROVE  Waiting
  <2>1. 1 \in Requests
    BY <1>1 DEF Scripts, Requests
  <2>2. /\ c.endpoint = "none" /\ c.remote = <<>> /\ c.request_len = 0
        /\ c.flags = {} /\ c.websocket = FALSE /\ c.unread[1] = FileLen
        /\ c.local = <<>>
    BY <2>1 DEF Init, NewConnection
  <2>3. inbox = <<>> /\ received = <<>> /\ conn # "closed"
    BY DEF Init
  <2> QED BY <1>2, <2>2, <2>3 DEF Waiting
<1> QED BY <1>3, <1>4 DEF LoneInv

LEMMA LoneStep ==
  ConnInv /\ LoneInv /\ [Next]_vars => ConnInv' /\ LoneInv'
<1> SUFFICES ASSUME ConnInv, LoneInv, [Next]_vars PROVE LoneInv'
  BY StepInv
<1>1. CASE Poll
  BY <1>1, QuietLone, PrepareLone, ReadLone, GoneLone, WriteLone, ReapLone
     DEF Poll
<1>2. CASE ClientSend \/ ClientHangup \/ Lapse
  BY <1>2, ClientSendLone, GoneLone, QuietLone
<1>3. CASE UNCHANGED vars
  BY <1>3, QuietLone
<1> QED BY <1>1, <1>2, <1>3 DEF Next

LEMMA LoneInductive == Spec => [](ConnInv /\ LoneInv)
BY InitInv, LoneInit, LoneStep, PTL DEF Spec

-----------------------------------------------------------------------------
(* What follows from it.                                                   *)

\* Every field of a connection, what is on its way to it and what its client
\* got are of their types: process_request is never without a request when it
\* calls the handler or answers with an error, no body is read from a buffer
\* beyond its end, and what a reply still owes (conn->cl) does not go below
\* zero.
THEOREM ConnTypes == Spec => []ConnTypeOK
<1>1. ConnInv => ConnTypeOK
  BY DEF ConnInv
<1> QED BY <1>1, Inductive, PTL

\* Unless the client has gone or the connection has been idle for too long,
\* mg_poll_server closes it only when nothing is left in remote_iobuf.
THEOREM Drains == Spec => DrainedBeforeClose
<1>1. ASSUME ConnInv, [Next]_vars,
             conn = "open", conn' = "closed", ~hungup, idle # "over"
      PROVE  c'.remote = <<>>
  <2>1. CASE Prepare
    BY <1>1, <2>1 DEF Prepare
  <2>2. CASE Reap
    <3>1. "CLOSE" \in c.flags
      BY <1>1, <2>2 DEF Reap, Reapable
    <3>2. c.remote = <<>> /\ idle = "no"
      BY <1>1, <3>1, TypesNow
    <3> QED BY <2>2, <3>2 DEF Reap, Pinged
  <2>3. CASE UNCHANGED vars
    BY <1>1, <2>3 DEF vars
  <2> QED BY <1>1, <2>1, <2>2, <2>3 DEF Next, Poll, Accept, Read, ReadEnd,
     NothingToRead, Write, WriteError, NotWritable, ClientSend, ClientHangup,
     Lapse
<1> QED BY <1>1, Inductive, PTL DEF Spec, DrainedBeforeClose

\* A client that sends a GET, in any pieces and with any pauses short of the
\* timeout, and then waits for the server to close, has got one reply with
\* exactly the bytes that its header promised: read_from_client waits for the
\* blank line, transfer_file_data ends at conn->cl, and the connection stays
\* until the client has taken all of it.
THEOREM GetServed == Spec => []LoneGetServed
<1>1. ASSUME ConnInv, LoneInv
      PROVE  LoneGetServed
  <2> SUFFICES ASSUME script[1] = "get", OnlyFirstSent, conn = "closed",
                      ~hungup, idle # "over"
               PROVE  /\ received # <<>>
                      /\ received[1] = Unit("head", 1, FileLen)
                      /\ BodyLen(received) = FileLen
    BY Zenon DEF LoneGetServed, BodyLen
  <2>1. Lone
    BY DEF Lone
  <2>2. Replying /\ Served
    BY <1>1, <2>1 DEF LoneInv, Waiting, Serving
  <2>3. c.remote = <<>> /\ c.unread[1] = 0
    BY <2>2 DEF Served
  <2>4. received \in Seq(UnitType)
    BY <1>1, SpooledIs
  <2>5. Spooled = received
    BY <2>3, <2>4 DEF Spooled
  <2>6. BodyLen(received) + 0 = FileLen
    BY <2>2, <2>3, <2>5, Zenon DEF Replying
  <2>7. received # <<>> /\ received[1] = Unit("head", 1, FileLen)
    BY <2>2, <2>5, Zenon DEF Replying
  <2>8. BodyLen(received) \in Nat
    <3>1. received[1] \in UnitType
      <4>1. Len(received) >= 1
        BY <2>4, <2>7, EmptySeq
      <4> QED BY <2>4, <4>1
    <3> QED BY <2>4, <2>7, <3>1, BodyLenGrows
  <2> QED BY <2>6, <2>7, <2>8
<1> QED BY <1>1, LoneInductive, PTL
=============================================================================
