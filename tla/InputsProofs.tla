---------------------------- MODULE InputsProofs ----------------------------
(***************************************************************************)
(* Names survive their way from the command line to the index and back in  *)
(* a request: proved for any texts, numbers, sizes and windows, and for    *)
(* any length of the array that the options go through.                    *)
(*                                                                         *)
(* The options.  Five dashes of the string begin an option.  A value that  *)
(* holds no space before a dash hides none of them, and a number has its   *)
(* dash in front only: so the loop of istb_m3u8_parse_options goes from    *)
(* each of the five to the next (OptionStep), and its pairs are those      *)
(* main wrote, up to where snprintf cut them off (OptionsRead, ParsedIs).  *)
(* What is cut off can only make the last value shorter.                   *)
(*                                                                         *)
(* The way of a URI.  A path without %, ?, // and /.. is left as it is by  *)
(* decoding (DecodedIs) and by cleaning (CleanedIs), and a prefix without  *)
(* these and a number make such a path (NameClear).  The numbers of two    *)
(* segments differ in some digit or in length, and a digit is not the dot  *)
(* that ends the other: so no name is the beginning of another             *)
(* (NamesDiffer), and to compare beginnings is to compare names.           *)
(*                                                                         *)
(* NamingInv says of each phase what has arrived so far.  Joined with the  *)
(* invariants of ClientBytesProofs it types every variable of MCInputs.    *)
(***************************************************************************)
EXTENDS MCInputs, ClientBytesProofs

-----------------------------------------------------------------------------
(* Recursive functions.                                                    *)

\* A definition whose value at x rests on values at places of a lower rank has
\* a solution; so the recursive definitions of the model define something.
Rests(D, S, rank, step) ==
  \A x \in D : \A f, g \in [D -> S] :
    (\A y \in D : rank[y] < rank[x] => f[y] = g[y])
      => step[x][f] = step[x][g]

Solvable(D, S, step) == \E f \in [D -> S] : \A x \in D : f[x] = step[x][f]

LEMMA Recursive ==
  ASSUME NEW D, NEW S, NEW a \in S, NEW n \in Nat, NEW rank \in [D -> 0 .. n],
         NEW step \in [D -> [[D -> S] -> S]], Rests(D, S, rank, step)
  PROVE  Solvable(D, S, step)
<1> DEFINE Good(k) ==
             \E f \in [D -> S] : \A x \in D : rank[x] < k => f[x] = step[x][f]
           T == {k \in 0 .. n + 1 : ~Good(k)}
<1>1. Good(0)
  <2> DEFINE f == [x \in D |-> a]
  <2>1. f \in [D -> S] /\ \A x \in D : ~(rank[x] < 0)
    OBVIOUS
  <2> HIDE DEF f
  <2> QED BY <2>1
<1>2. ASSUME NEW k \in 0 .. n, Good(k)
      PROVE  Good(k + 1)
  <2>1. PICK f \in [D -> S] : \A x \in D : rank[x] < k => f[x] = step[x][f]
    BY <1>2
  <2> DEFINE g == [x \in D |-> IF rank[x] < k THEN f[x] ELSE step[x][f]]
  <2>2. g \in [D -> S]
    OBVIOUS
  <2>3. \A x \in D : rank[x] < k => g[x] = f[x]
    OBVIOUS
  <2>4. ASSUME NEW x \in D, rank[x] < k + 1
        PROVE  g[x] = step[x][g]
    <3>1. \A y \in D : rank[y] < rank[x] => f[y] = g[y]
      <4>1. \A y \in D : rank[y] < rank[x] => rank[y] < k
        BY <2>4
      <4> HIDE DEF g
      <4> QED BY <2>3, <4>1
    <3>2. g[x] = step[x][f]
      BY <2>1
    <3> HIDE DEF g
    <3>3. step[x][f] = step[x][g]
      BY <2>2, <3>1, Zenon DEF Rests
    <3> QED BY <3>2, <3>3
  <2> HIDE DEF g
  <2> QED BY <2>2, <2>4
<1> HIDE DEF Good
<1>3. SUFFICES ASSUME ~Good(n + 1) PROVE FALSE
  <2>1. Good(n + 1) => Solvable(D, S, step)
    <3>1. \A x \in D : rank[x] < n + 1
      OBVIOUS
    <3> QED BY <3>1, Zenon DEF Good, Solvable
  <2> QED BY <2>1
<1>4. T \in SUBSET Nat /\ T # {}
  BY <1>3
<1>5. PICK k \in T : \A y \in T : k <= y
  <2> HIDE DEF T
  <2> QED BY <1>4, LeastNumber
<1>6. k \in 1 .. n + 1 /\ ~Good(k)
  BY <1>1
<1>7. k - 1 \in 0 .. n /\ k - 1 \notin T
  BY <1>5, <1>6
<1> QED BY <1>2, <1>6, <1>7

-----------------------------------------------------------------------------
(* Places in a text.                                                       *)

\* The characters of all texts.
Char ==
  Letters \cup ToSet(DigitChars)
    \cup {Space, Colon, "-", "/", ".", "?", "x", "http", "ts", "n", "d", "p", "m",
          "u"}
Text == Seq(Char)

\* The piece of a text that From and Cut take.
LEMMA FromIs ==
  ASSUME NEW s \in Text, NEW i \in Nat \ {0}
  PROVE  /\ From(s, i) \in Text
         /\ Len(From(s, i)) = IF i <= Len(s) THEN Len(s) - i + 1 ELSE 0
         /\ \A k \in 1 .. Len(From(s, i)) : From(s, i)[k] = s[i + k - 1]
  BY DEF Text, From

LEMMA CutIs ==
  ASSUME NEW s \in Text, NEW n \in Nat
  PROVE  /\ Cut(s, n) \in Text
         /\ Len(Cut(s, n)) = IF n < Len(s) THEN n ELSE Len(s)
         /\ \A k \in 1 .. Len(Cut(s, n)) : Cut(s, n)[k] = s[k]
<1> DEFINE m == Min({n, Len(s)})
<1>1. m = IF n < Len(s) THEN n ELSE Len(s)
  BY DEF Min, Text
<1> HIDE DEF m
<1>2. Cut(s, n) = SubSeq(s, 1, m)
  BY Zenon DEF Cut, m
<1> QED BY <1>1, <1>2 DEF Text

\* t comes at the i-th place of s.
Comes(t, s, i) ==
  i + Len(t) <= Len(s) + 1 /\ \A k \in 1 .. Len(t) : s[i + k - 1] = t[k]

LEMMA ComesIs ==
  ASSUME NEW s \in Text, NEW t \in Text, NEW i \in 1 .. Len(s) + 1
  PROVE  IsPrefix(t, From(s, i)) <=> Comes(t, s, i)
<1> DEFINE r == From(s, i)
<1>1. /\ r \in Text /\ Len(r) = Len(s) - i + 1 /\ Len(s) \in Nat
      /\ Len(t) \in Nat
      /\ \A k \in 1 .. Len(r) : r[k] = s[i + k - 1]
  <2>1. Len(s) \in Nat /\ Len(t) \in Nat /\ i \in Nat \ {0}
    BY DEF Text
  <2> QED BY <2>1, FromIs
<1> HIDE DEF r
<1>2. IsPrefix(t, r)
        <=> Len(t) <= Len(r) /\ \A k \in 1 .. Len(t) : t[k] = r[k]
  BY <1>1 DEF IsPrefix, Text
<1>3. Len(t) <= Len(r) <=> i + Len(t) <= Len(s) + 1
  BY <1>1
<1>4. Len(t) <= Len(r) => \A k \in 1 .. Len(t) : r[k] = s[i + k - 1]
  BY <1>1
<1> QED BY <1>2, <1>3, <1>4, Zenon DEF Comes, r

\* Find returns the first such place.
IsFound(s, t, i, j) ==
  /\ j \in i .. Len(s) + 1
  /\ j = Len(s) + 1 \/ Comes(t, s, j)
  /\ \A k \in i .. j - 1 : ~Comes(t, s, k)

LEMMA FindIs ==
  ASSUME NEW s \in Text, NEW t \in Text, NEW i \in 1 .. Len(s) + 1
  PROVE  IsFound(s, t, i, Find(s, t, i))
<1> DEFINE T == {j \in i .. Len(s) + 1 : j = Len(s) + 1 \/ Comes(t, s, j)}
<1>0. Len(s) \in Nat
  BY DEF Text
<1>1. T \in SUBSET Nat /\ T # {}
  BY <1>0
<1>2. PICK j \in T : \A y \in T : j <= y
  <2> HIDE DEF T
  <2> QED BY <1>1, LeastNumber
<1>3. \A k \in i .. Len(s) + 1 : IsPrefix(t, From(s, k)) <=> Comes(t, s, k)
  BY <1>0, ComesIs
<1>4. /\ j \in i .. Len(s) + 1
      /\ j = Len(s) + 1 \/ Comes(t, s, j)
      /\ \A k \in i .. j - 1 : k \in i .. Len(s) + 1 /\ ~Comes(t, s, k)
  <2>1. \A k \in i .. j - 1 : k \in i .. Len(s) + 1 /\ ~(j <= k)
    BY <1>0
  <2> QED BY <1>2, <2>1
<1>5. /\ j = Len(s) + 1 \/ IsPrefix(t, From(s, j))
      /\ \A k \in i .. j - 1 : ~IsPrefix(t, From(s, k))
  BY <1>3, <1>4, Zenon
<1>6. /\ Find(s, t, i) \in i .. Len(s) + 1
      /\ \/ Find(s, t, i) = Len(s) + 1
         \/ IsPrefix(t, From(s, Find(s, t, i)))
      /\ \A k \in i .. Find(s, t, i) - 1 : ~IsPrefix(t, From(s, k))
  BY <1>4, <1>5, Zenon DEF Find
<1>7. \A k \in i .. Find(s, t, i) - 1 : k \in i .. Len(s) + 1
  BY <1>0, <1>6
<1> QED BY <1>3, <1>6, <1>7, Zenon DEF IsFound

LEMMA FoundOnce ==
  ASSUME NEW s \in Text, NEW t \in Text, NEW i \in 1 .. Len(s) + 1, NEW j,
         IsFound(s, t, i, j)
  PROVE  Find(s, t, i) = j
<1> DEFINE f == Find(s, t, i)
<1>1. IsFound(s, t, i, f) /\ Len(s) \in Nat
  BY FindIs DEF Text
<1> HIDE DEF f
<1>2. j \in Int /\ f \in Int /\ j <= Len(s) + 1 /\ f <= Len(s) + 1
  BY <1>1 DEF IsFound
<1>3. ~(f < j)
  <2> SUFFICES ASSUME f < j PROVE FALSE
    OBVIOUS
  <2>1. f \in i .. j - 1 /\ f # Len(s) + 1
    BY <1>1, <1>2 DEF IsFound
  <2> QED BY <1>1, <2>1, Zenon DEF IsFound
<1>4. ~(j < f)
  <2> SUFFICES ASSUME j < f PROVE FALSE
    OBVIOUS
  <2>1. j \in i .. f - 1 /\ j # Len(s) + 1
    BY <1>1, <1>2 DEF IsFound
  <2> QED BY <1>1, <2>1, Zenon DEF IsFound
<1> QED BY <1>2, <1>3, <1>4 DEF f

\* Skip returns the first place whose character is another.
IsPast(s, i, chars, j) ==
  /\ j \in i .. Len(s) + 1
  /\ j = Len(s) + 1 \/ s[j] \notin chars
  /\ \A k \in i .. j - 1 : s[k] \in chars

LEMMA SkipIs ==
  ASSUME NEW s \in Text, NEW chars, NEW i \in 1 .. Len(s) + 1
  PROVE  IsPast(s, i, chars, Skip(s, i, chars))
<1> DEFINE T == {j \in i .. Len(s) + 1 : j = Len(s) + 1 \/ s[j] \notin chars}
<1>0. Len(s) \in Nat
  BY DEF Text
<1>1. T \in SUBSET Nat /\ T # {}
  BY <1>0
<1>2. PICK j \in T : \A y \in T : j <= y
  <2> HIDE DEF T
  <2> QED BY <1>1, LeastNumber
<1>3. IsPast(s, i, chars, j)
  <2>1. \A k \in i .. j - 1 : k \in i .. Len(s) + 1 /\ ~(j <= k)
    BY <1>0
  <2> QED BY <1>2, <2>1 DEF IsPast
<1> QED BY <1>3, Zenon DEF IsPast, Skip

LEMMA PastOnce ==
  ASSUME NEW s \in Text, NEW chars, NEW i \in 1 .. Len(s) + 1, NEW j,
         IsPast(s, i, chars, j)
  PROVE  Skip(s, i, chars) = j
<1> DEFINE f == Skip(s, i, chars)
<1>1. IsPast(s, i, chars, f) /\ Len(s) \in Nat
  BY SkipIs DEF Text
<1> HIDE DEF f
<1>2. j \in Int /\ f \in Int /\ j <= Len(s) + 1 /\ f <= Len(s) + 1
  BY <1>1 DEF IsPast
<1>3. ~(f < j)
  <2> SUFFICES ASSUME f < j PROVE FALSE
    OBVIOUS
  <2>1. f \in i .. j - 1 /\ f # Len(s) + 1
    BY <1>1, <1>2 DEF IsPast
  <2> QED BY <1>1, <2>1, Zenon DEF IsPast
<1>4. ~(j < f)
  <2> SUFFICES ASSUME j < f PROVE FALSE
    OBVIOUS
  <2>1. j \in i .. f - 1 /\ j # Len(s) + 1
    BY <1>1, <1>2 DEF IsPast
  <2> QED BY <1>1, <2>1, Zenon DEF IsPast
<1> QED BY <1>2, <1>3, <1>4 DEF f

-----------------------------------------------------------------------------
(* Numbers.                                                                *)

IsDigit(c) == c \in ToSet(DigitChars)

\* The last digit of n, and what is left of n without it.
LastDigit(n) == DigitChars[(n % Radix) + 1]

\* What tells the space and the colon from the other characters.
LEMMA SpaceIs ==
  /\ Space \notin {"-", "/", ".", "?", "%", "ts"}
  /\ Colon \notin {"-", "/", ".", "?", "%", "ts"} /\ Colon # Space
  /\ \A i \in 1 .. 10 : DigitChars[i] # Space /\ DigitChars[i] # Colon
<1>1. \A c \in {"-", "/", ".", "?", "%", "ts"} : c # " " /\ c # ":"
  OBVIOUS
<1>2. Colon # Space
  BY Zenon DEF Colon, Space
<1>3. \A c \in {"0", "1", "2", "3", "4", "5", "6", "7", "8", "9"} :
        c # " " /\ c # ":"
  OBVIOUS
<1>4. \A i \in 1 .. 10 :
        DigitChars[i] \in {"0", "1", "2", "3", "4", "5", "6", "7", "8", "9"}
  BY DEF DigitChars
<1> QED BY <1>1, <1>2, <1>3, <1>4, Zenon DEF Colon, Space

LEMMA DigitCharsAre ==
  /\ \A i \in 1 .. 10 : DigitChars[i] \in Char /\ IsDigit(DigitChars[i])
  /\ \A i, j \in 1 .. 10 : DigitChars[i] = DigitChars[j] => i = j
  /\ \A c : IsDigit(c) => \E i \in 1 .. 10 : c = DigitChars[i]
  /\ \A c \in {"-", ".", "/", "?", "%", "ts", "m3u8"} : ~IsDigit(c)
  /\ ~IsDigit(Space) /\ ~IsDigit(Colon)
<1>1. DigitChars = <<"0", "1", "2", "3", "4", "5", "6", "7", "8", "9">>
  BY DEF DigitChars
<1>3. \A i, j \in 1 .. 10 : DigitChars[i] = DigitChars[j] => i = j
  BY <1>1
<1>4. DOMAIN DigitChars = 1 .. 10
  BY <1>1
<1>5. \A i \in 1 .. 10 : IsDigit(DigitChars[i])
  BY <1>4, Zenon DEF IsDigit, ToSet
<1>2. \A i \in 1 .. 10 : DigitChars[i] \in Char
  BY <1>5, Zenon DEF IsDigit, Char
<1>6. \A c : IsDigit(c) => \E i \in 1 .. 10 : c = DigitChars[i]
  BY <1>4, Zenon DEF IsDigit, ToSet
<1>7. \A c \in {"-", ".", "/", "?", "%", "ts", "m3u8"} :
        \A i \in 1 .. 10 : c # DigitChars[i]
  <2>2. \A i \in 1 .. 10 : DigitChars[i] \in {"0", "1", "2", "3", "4", "5", "6", "7", "8", "9"}
    BY <1>1
  <2>3. /\ "-" \notin {"0", "1", "2", "3", "4", "5", "6", "7", "8", "9"}
        /\ "." \notin {"0", "1", "2", "3", "4", "5", "6", "7", "8", "9"}
        /\ "/" \notin {"0", "1", "2", "3", "4", "5", "6", "7", "8", "9"}
        /\ "?" \notin {"0", "1", "2", "3", "4", "5", "6", "7", "8", "9"}
        /\ "%" \notin {"0", "1", "2", "3", "4", "5", "6", "7", "8", "9"}
        /\ "ts" \notin {"0", "1", "2", "3", "4", "5", "6", "7", "8", "9"}
        /\ "m3u8" \notin {"0", "1", "2", "3", "4", "5", "6", "7", "8", "9"}
    BY SMT
  <2> QED BY <2>2, <2>3, Zenon
<1> QED BY <1>2, <1>3, <1>5, <1>6, <1>7, SpaceIs, Zenon

LEMMA CharsAre ==
  /\ \A c \in {"-", Space, Colon, "/", ".", "?", "x", "http", "ts", "n", "d", "p",
             "m", "u"} : c \in Char
  /\ \A c \in Char : <<c>> \in Text /\ \A d \in Char : <<c, d>> \in Text
  /\ <<>> \in Text
<1>1. \A c \in {"-", Space, Colon, "/", ".", "?", "x", "http", "ts", "n", "d", "p",
             "m", "u"} : c \in Char
  BY Zenon DEF Char
<1>2. \A c \in Char : <<c>> \in Text /\ \A d \in Char : <<c, d>> \in Text
  BY DEF Text
<1>3. <<>> \in Text
  BY DEF Text
<1> QED BY <1>1, <1>2, <1>3

LEMMA RadixIs ==
  ASSUME NEW n \in Nat
  PROVE  /\ Radix \in 2 .. 10
         /\ n % Radix \in 0 .. Radix - 1
         /\ n \div Radix \in Nat
         /\ n = (n \div Radix) * Radix + (n % Radix)
         /\ n >= Radix => n \div Radix \in 1 .. n - 1
<1> DEFINE q == n \div Radix
           r == n % Radix
<1>1. Radix \in 2 .. 10
  BY NamingAssumption
<1>2. q \in Nat /\ r \in 0 .. Radix - 1 /\ n = q * Radix + r
  BY <1>1, DivMod
<1> HIDE DEF q, r
<1>3. n >= Radix => q # 0
  BY <1>1, <1>2
<1>4. q * Radix >= q + q
  BY <1>1, <1>2
<1>5. n >= Radix => q < n
  BY <1>1, <1>2, <1>3, <1>4
<1> QED BY <1>1, <1>2, <1>3, <1>5 DEF q, r

\* Digits of a number are those of what is left without the last one, and it.
DigitsSteps(n) ==
  /\ Digits(n) \in Text
  /\ Digits(n) =
       (IF n < Radix THEN <<>> ELSE Digits(n \div Radix)) \o <<LastDigit(n)>>

LEMMA DigitsIs ==
  ASSUME NEW n \in Nat
  PROVE  DigitsSteps(n)
<1> DEFINE D == 0 .. n
           Less(k) == k \div Radix
           rank == [k \in D |-> k]
           Put(k, f) ==
             (IF k < Radix THEN <<>> ELSE f[Less(k)]) \o <<LastDigit(k)>>
           step == [k \in D |-> [f \in [D -> Text] |-> Put(k, f)]]
           Solves(m, f) == f = [k \in 0 .. m |-> Put(k, f)]
<1>1. \A k \in D : /\ k \in Nat
                   /\ k >= Radix => Less(k) \in D /\ Less(k) < k
                   /\ LastDigit(k) \in Char
  <2> TAKE k \in D
  <2>1. k \in Nat
    OBVIOUS
  <2>2. Radix \in 2 .. 10 /\ k % Radix \in 0 .. Radix - 1
        /\ (k >= Radix => Less(k) \in 1 .. k - 1)
    BY <2>1, RadixIs
  <2>3. (k % Radix) + 1 \in 1 .. 10
    BY <2>2
  <2>4. LastDigit(k) \in Char
    BY <2>3, DigitCharsAre, Zenon DEF LastDigit
  <2>5. k >= Radix => Less(k) \in D /\ Less(k) < k
    BY <2>2
  <2> QED BY <2>1, <2>4, <2>5
<1> HIDE DEF Less
<1>2. Radix \in Nat
  BY NamingAssumption
<1>3. \A k \in D : \A f \in [D -> Text] : Put(k, f) \in Text
  <2> TAKE k \in D
  <2> TAKE f \in [D -> Text]
  <2>1. (IF k < Radix THEN <<>> ELSE f[Less(k)]) \in Text
    BY <1>1, <1>2 DEF Text
  <2>2. <<LastDigit(k)>> \in Text
    BY <1>1 DEF Text
  <2> HIDE DEF D
  <2> QED BY <2>1, <2>2 DEF Text
<1>4. rank \in [D -> 0 .. n] /\ step \in [D -> [[D -> Text] -> Text]]
  <2>1. rank \in [D -> 0 .. n]
    OBVIOUS
  <2> HIDE DEF D, Put
  <2> QED BY <1>3, <2>1
<1>5. Rests(D, Text, rank, step)
  <2> SUFFICES ASSUME NEW k \in D, NEW f \in [D -> Text], NEW g \in [D -> Text],
                      \A y \in D : rank[y] < rank[k] => f[y] = g[y]
               PROVE  step[k][f] = step[k][g]
    BY Zenon DEF Rests
  <2>1. \A y \in D : y < k => f[y] = g[y]
    OBVIOUS
  <2>2. Put(k, f) = Put(k, g)
    <3>1. CASE k < Radix
      BY <3>1
    <3>2. CASE ~(k < Radix)
      <4>1. Less(k) \in D /\ Less(k) < k
        BY <1>1, <1>2, <3>2
      <4>2. f[Less(k)] = g[Less(k)]
        BY <2>1, <4>1, Zenon
      <4> QED BY <4>2
    <3> QED BY <3>1, <3>2
  <2> HIDE DEF Put, D
  <2> QED BY <2>2
<1>6. PICK t \in [D -> Text] : \A k \in D : t[k] = step[k][t]
  <2>1. <<>> \in Text
    BY DEF Text
  <2> HIDE DEF D, rank, step
  <2>2. Solvable(D, Text, step)
    BY <1>4, <1>5, <2>1, Recursive
  <2> QED BY <2>2 DEF Solvable
<1>7. \A k \in D : t[k] = Put(k, t)
  <2> HIDE DEF D, Put
  <2> QED BY <1>6
<1> HIDE DEF rank, step
<1>8. ASSUME NEW m \in D
      PROVE  Digits(m) = t[m]
  <2> DEFINE f == [k \in 0 .. m |-> t[k]]
  <2>1. \A k \in 0 .. m : k \in D /\ (k >= Radix => Less(k) \in 0 .. m)
    BY <1>1, <1>2
  <2>2. Solves(m, f)
    <3>1. ASSUME NEW k \in 0 .. m
          PROVE  f[k] = Put(k, f)
      <4>1. f[k] = Put(k, t)
        BY <1>7, <2>1, Zenon
      <4>2. k < Radix \/ f[Less(k)] = t[Less(k)]
        BY <1>2, <2>1
      <4> HIDE DEF f
      <4> QED BY <4>1, <4>2
    <3>2. f = [k \in 0 .. m |-> f[k]]
      OBVIOUS
    <3> HIDE DEF f, Put
    <3> QED BY <3>1, <3>2, Zenon
  <2>3. PICK g : Solves(m, g) /\ Digits(m) = g[m]
    BY <2>2 DEF Digits, LastDigit, Less
  <2>4. \A k \in 0 .. m : g[k] = Put(k, g)
    <3> HIDE DEF Put
    <3> QED BY <2>3, Zenon
  <2> DEFINE T == {k \in 0 .. m : g[k] # t[k]}
  <2> SUFFICES ASSUME T # {} PROVE FALSE
    <3>1. m \in 0 .. m
      OBVIOUS
    <3>2. m \notin T => g[m] = t[m]
      BY <3>1
    <3> HIDE DEF T
    <3> QED BY <2>3, <3>2, Zenon
  <2>5. T \in SUBSET Nat
    OBVIOUS
  <2>6. PICK x \in T : \A y \in T : x <= y
    <3> HIDE DEF T
    <3> QED BY <2>5, LeastNumber
  <2>7. x \in 0 .. m /\ x \in D /\ g[x] # t[x]
    OBVIOUS
  <2>8. g[x] = Put(x, g) /\ t[x] = Put(x, t)
    BY <1>7, <2>4, <2>7, Zenon
  <2>9. x < Radix \/ g[Less(x)] = t[Less(x)]
    <3> SUFFICES ASSUME ~(x < Radix) PROVE g[Less(x)] = t[Less(x)]
      OBVIOUS
    <3>1. Less(x) \in 0 .. m /\ Less(x) < x
      BY <1>1, <1>2, <2>1, <2>7
    <3>2. Less(x) \notin T
      BY <2>6, <2>7, <3>1
    <3> QED BY <3>1, <3>2
  <2> QED BY <2>7, <2>8, <2>9
<1>9. n \in D /\ (n >= Radix => Less(n) \in D)
  BY <1>1
<1>10. n < Radix \/ Digits(Less(n)) = t[Less(n)]
  BY <1>2, <1>8, <1>9
<1>11. Digits(n) = t[n] /\ t[n] = Put(n, t) /\ t[n] \in Text
  BY <1>6, <1>7, <1>8, <1>9, Zenon
<1> QED BY <1>10, <1>11 DEF DigitsSteps, Less

LEMMA LastOne ==
  ASSUME NEW s \in Text, NEW c \in Char
  PROVE  /\ Len(s \o <<c>>) = Len(s) + 1
         /\ \A i \in 1 .. Len(s) : (s \o <<c>>)[i] = s[i]
         /\ (s \o <<c>>)[Len(s) + 1] = c
  BY DEF Text

LEMMA SameLast ==
  ASSUME NEW s \in Text, NEW t \in Text, NEW c \in Char, NEW d \in Char,
         s \o <<c>> = t \o <<d>>
  PROVE  s = t /\ c = d
<1>1. Len(s) \in Nat /\ Len(t) \in Nat
  BY DEF Text
<1> DEFINE a == s \o <<c>>
           b == t \o <<d>>
<1>2. /\ Len(a) = Len(s) + 1 /\ a[Len(s) + 1] = c
      /\ \A i \in 1 .. Len(s) : a[i] = s[i]
  BY DEF Text
<1>3. /\ Len(b) = Len(t) + 1 /\ b[Len(t) + 1] = d
      /\ \A i \in 1 .. Len(t) : b[i] = t[i]
  BY DEF Text
<1> HIDE DEF a, b
<1>4. s = t /\ c = d
  <2>0. a = b
    BY DEF a, b
  <2>1. Len(s) = Len(t) /\ c = d
    BY <1>1, <1>2, <1>3, <2>0
  <2>2. \A i \in 1 .. Len(s) : s[i] = t[i]
    BY <1>2, <1>3, <2>0, <2>1
  <2> QED BY <2>1, <2>2 DEF Text
<1> QED BY <1>4

LEMMA LastDigitIs ==
  ASSUME NEW n \in Nat
  PROVE  /\ LastDigit(n) \in Char /\ IsDigit(LastDigit(n))
         /\ \A m \in Nat : LastDigit(n) = LastDigit(m) => n % Radix = m % Radix
<1>1. \A m \in Nat : (m % Radix) + 1 \in 1 .. 10 /\ m % Radix \in Nat
  <2> TAKE m \in Nat
  <2>1. Radix \in 2 .. 10 /\ m % Radix \in 0 .. Radix - 1
    BY RadixIs
  <2> QED BY <2>1
<1>2. ASSUME NEW m \in Nat, LastDigit(n) = LastDigit(m)
      PROVE  n % Radix = m % Radix
  <2>1. (n % Radix) + 1 = (m % Radix) + 1
    BY <1>1, <1>2, DigitCharsAre, Zenon DEF LastDigit
  <2> QED BY <1>1, <2>1
<1> QED BY <1>1, <1>2, DigitCharsAre, Zenon DEF LastDigit

\* A number has digits, and only digits.
LEMMA DigitsAre ==
  ASSUME NEW n \in Nat
  PROVE  /\ Digits(n) \in Text /\ Len(Digits(n)) \in Nat \ {0}
         /\ \A i \in 1 .. Len(Digits(n)) : IsDigit(Digits(n)[i])
<1> DEFINE Good(m) == /\ Len(Digits(m)) \in Nat \ {0}
                      /\ \A i \in 1 .. Len(Digits(m)) : IsDigit(Digits(m)[i])
           T == {m \in Nat : ~Good(m)}
<1>1. ASSUME NEW m \in Nat, \A k \in Nat : k < m => Good(k)
      PROVE  Good(m)
  <2> DEFINE q == m \div Radix
             s == IF m < Radix THEN <<>> ELSE Digits(q)
  <2>1. Radix \in Nat /\ q \in Nat /\ (m >= Radix => q < m)
    BY RadixIs, NamingAssumption
  <2>2. DigitsSteps(m) /\ DigitsSteps(q)
    BY <2>1, DigitsIs
  <2>3. s \in Text /\ \A i \in 1 .. Len(s) : IsDigit(s[i])
    <3>1. CASE m < Radix
      BY <3>1 DEF Text
    <3>2. CASE ~(m < Radix)
      <4>1. m >= Radix
        BY <2>1, <3>2
      <4> QED BY <1>1, <2>1, <2>2, <3>2, <4>1 DEF DigitsSteps
    <3> QED BY <3>1, <3>2
  <2>4. Digits(m) = s \o <<LastDigit(m)>>
    BY <2>2 DEF DigitsSteps
  <2> HIDE DEF s
  <2>5. /\ Len(Digits(m)) = Len(s) + 1
        /\ \A i \in 1 .. Len(s) : Digits(m)[i] = s[i]
        /\ Digits(m)[Len(s) + 1] = LastDigit(m)
    BY <2>3, <2>4, LastOne, LastDigitIs
  <2>6. Len(s) \in Nat
    BY <2>3 DEF Text
  <2>7. \A i \in 1 .. Len(s) + 1 : i \in 1 .. Len(s) \/ i = Len(s) + 1
    BY <2>6
  <2> QED BY <2>3, <2>5, <2>6, <2>7, LastDigitIs
<1>2. ASSUME T # {}
      PROVE  FALSE
  <2>1. T \in SUBSET Nat
    OBVIOUS
  <2>2. PICK x \in T : \A y \in T : x <= y
    <3> HIDE DEF T
    <3> QED BY <1>2, <2>1, LeastNumber
  <2> HIDE DEF Good
  <2>3. \A k \in Nat : k < x => Good(k)
    BY <2>2
  <2> QED BY <1>1, <2>2, <2>3
<1> HIDE DEF Good
<1>3. Good(n)
  BY <1>2
<1>4. Digits(n) \in Text
  BY DigitsIs DEF DigitsSteps
<1> QED BY <1>3, <1>4 DEF Good

\* Different numbers are written differently.
LEMMA DigitsDiffer ==
  ASSUME NEW n \in Nat, NEW m \in Nat, Digits(n) = Digits(m)
  PROVE  n = m
<1> DEFINE Good(k) == \A j \in Nat : Digits(k) = Digits(j) => k = j
           T == {k \in Nat : ~Good(k)}
<1>1. ASSUME NEW k \in Nat, \A i \in Nat : i < k => Good(i)
      PROVE  Good(k)
  <2> SUFFICES ASSUME NEW j \in Nat, Digits(k) = Digits(j)
               PROVE  k = j
    OBVIOUS
  <2> DEFINE Less(i) == i \div Radix
             s == IF k < Radix THEN <<>> ELSE Digits(Less(k))
             t == IF j < Radix THEN <<>> ELSE Digits(Less(j))
  <2>1. \A i \in Nat : /\ Less(i) \in Nat /\ i % Radix \in 0 .. Radix - 1
                       /\ i = Less(i) * Radix + (i % Radix)
                       /\ i >= Radix => Less(i) < i
    BY RadixIs
  <2> HIDE DEF Less
  <2>2. s \in Text /\ t \in Text
    <3>1. Digits(Less(k)) \in Text /\ Digits(Less(j)) \in Text
      BY <2>1, DigitsAre
    <3> QED BY <3>1 DEF Text
  <2>3. Digits(k) = s \o <<LastDigit(k)>> /\ Digits(j) = t \o <<LastDigit(j)>>
    BY DigitsIs DEF DigitsSteps, Less
  <2>4. s = t /\ k % Radix = j % Radix
    <3> HIDE DEF s, t
    <3>1. LastDigit(k) \in Char /\ LastDigit(j) \in Char
      BY LastDigitIs
    <3>2. s \o <<LastDigit(k)>> = t \o <<LastDigit(j)>>
      BY <2>3
    <3>3. s = t /\ LastDigit(k) = LastDigit(j)
      BY <2>2, <3>1, <3>2, SameLast
    <3> QED BY <3>3, LastDigitIs
  <2>5. k < Radix <=> j < Radix
    <3>1. /\ Digits(Less(k)) \in Text /\ Len(Digits(Less(k))) \in Nat \ {0}
          /\ Digits(Less(j)) \in Text /\ Len(Digits(Less(j))) \in Nat \ {0}
      BY <2>1, DigitsAre
    <3>2. Digits(Less(k)) # <<>> /\ Digits(Less(j)) # <<>>
      BY <3>1
    <3> QED BY <2>4, <3>2
  <2>6. Radix \in 2 .. 10
    BY NamingAssumption
  <2>7. CASE k < Radix
    <3>1. ASSUME NEW i \in Nat, i < Radix
          PROVE  i = i % Radix
      <4> DEFINE q == Less(i)
                 p == q * Radix
                 r == i % Radix
      <4>1. q \in Nat /\ r \in Nat /\ i = p + r /\ p \in Nat
        <5>1. /\ Less(i) \in Nat /\ i % Radix \in 0 .. Radix - 1
              /\ i = Less(i) * Radix + (i % Radix)
          BY <2>1, Zenon
        <5>2. \A a \in Nat : \A b \in 2 .. 10 : a * b \in Nat
          OBVIOUS
        <5>3. p \in Nat
          BY <2>6, <5>1, <5>2, Zenon
        <5> HIDE DEF p
        <5>4. r \in Nat
          BY <2>6, <5>1
        <5> QED BY <5>1, <5>3, <5>4, Zenon DEF p
      <4>2. q >= 1 => p >= 1 * Radix
        BY <2>6, <4>1, Times
      <4>3. q = 0 => p = 0
        BY <2>6
      <4> HIDE DEF p, q, r
      <4>4. i = r
        BY <2>6, <3>1, <4>1, <4>2, <4>3
      <4> QED BY <4>4 DEF r
    <3> QED BY <2>4, <2>5, <2>7, <3>1
  <2>8. CASE ~(k < Radix)
    <3>1. Digits(Less(k)) = Digits(Less(j))
      BY <2>4, <2>5, <2>8
    <3>2. Less(k) < k
      BY <2>1, <2>6, <2>8
    <3>3. Less(k) = Less(j)
      BY <1>1, <2>1, <3>1, <3>2
    <3> HIDE DEF s, t
    <3> QED BY <2>1, <2>4, <3>3
  <2> QED BY <2>7, <2>8
<1>2. ASSUME T # {}
      PROVE  FALSE
  <2>1. T \in SUBSET Nat
    OBVIOUS
  <2>2. PICK x \in T : \A y \in T : x <= y
    <3> HIDE DEF T
    <3> QED BY <1>2, <2>1, LeastNumber
  <2> HIDE DEF Good
  <2>3. \A k \in Nat : k < x => Good(k)
    BY <2>2
  <2> QED BY <1>1, <2>2, <2>3
<1> HIDE DEF Good
<1>3. Good(n)
  BY <1>2
<1> QED BY <1>3 DEF Good

\* What strtol makes of digits is a number.
LEMMA NumberIs ==
  ASSUME NEW s \in Text, \A i \in 1 .. Len(s) : IsDigit(s[i])
  PROVE  NumberOf(s) \in Nat
<1> DEFINE n == Len(s)
           d(i) == DigitOf(s[i])
           step == [i \in 1 .. n |-> [v \in Nat |-> v * Radix + d(i)]]
           Solves(f) == f = [i \in 0 .. n |->
                               IF i = 0 THEN 0 ELSE f[i - 1] * Radix + d(i)]
<1>1. n \in Nat
  BY DEF Text
<1>2. \A i \in 1 .. n : d(i) \in Nat
  <2> TAKE i \in 1 .. n
  <2>1. PICK j \in 1 .. 10 : s[i] = DigitChars[j]
    BY DigitCharsAre, Zenon
  <2>2. j - 1 \in 0 .. 9 /\ (j - 1) + 1 = j
    OBVIOUS
  <2>3. DigitOf(s[i]) \in 0 .. 9
    BY <2>1, <2>2, Zenon DEF DigitOf
  <2> QED BY <2>3
<1> HIDE DEF n, d
<1>3. \A v \in Nat : v * Radix \in Nat
  BY NamingAssumption
<1>4. \A i \in 1 .. n : \A v \in Nat : v * Radix + d(i) \in Nat
  BY <1>2, <1>3, SMTT(30)
<1>5. PICK t \in [0 .. n -> Nat] :
        t[0] = 0 /\ \A i \in 1 .. n : t[i] = step[i][t[i - 1]]
  <2>1. step \in [1 .. n -> [Nat -> Nat]]
    BY <1>4
  <2> HIDE DEF step
  <2>2. Recurses(Nat, n, 0, step)
    BY <1>1, <2>1, Recursion
  <2> QED BY <2>2 DEF Recurses
<1>6. \A i \in 1 .. n : t[i] = t[i - 1] * Radix + d(i)
  <2> TAKE i \in 1 .. n
  <2>1. i - 1 \in 0 .. n
    BY <1>1
  <2>2. t[i - 1] \in Nat /\ t[i] = step[i][t[i - 1]]
    BY <1>5, <2>1
  <2> QED BY <2>2
<1>7. Solves(t)
  <2>1. ASSUME NEW i \in 0 .. n
        PROVE  t[i] = IF i = 0 THEN 0 ELSE t[i - 1] * Radix + d(i)
    <3>1. i = 0 \/ i \in 1 .. n
      BY <1>1
    <3> QED BY <1>5, <1>6, <3>1, Zenon
  <2> QED BY <2>1
<1>8. PICK g : Solves(g) /\ NumberOf(s) = g[n]
  BY <1>7 DEF NumberOf, n, d
<1>9. /\ g[0] = 0 /\ \A i \in 1 .. n : g[i] = g[i - 1] * Radix + d(i)
  <2>1. 0 \in 0 .. n /\ \A i \in 1 .. n : i \in 0 .. n /\ i # 0
    BY <1>1
  <2> QED BY <1>8, <2>1, Zenon
<1> DEFINE T == {i \in 0 .. n : g[i] \notin Nat}
<1>10. ASSUME T # {}
       PROVE  FALSE
  <2>1. T \in SUBSET Nat
    BY <1>1
  <2>2. PICK x \in T : \A y \in T : x <= y
    <3> HIDE DEF T
    <3> QED BY <1>10, <2>1, LeastNumber
  <2>3. x \in 0 .. n /\ g[x] \notin Nat /\ x # 0
    BY <1>9
  <2>4. x \in 1 .. n /\ x - 1 \in 0 .. n /\ x - 1 \notin T
    BY <1>1, <2>2, <2>3
  <2>5. g[x - 1] \in Nat
    BY <2>4
  <2> QED BY <1>4, <1>9, <2>3, <2>4, <2>5, Zenon
<1>11. n \in 0 .. n
  BY <1>1
<1> QED BY <1>8, <1>10, <1>11

-----------------------------------------------------------------------------
(* What the pairs of letter and value become.                              *)

Pair == Fields \X Text

LEMMA OverIs ==
  ASSUME NEW old \in Text, NEW new \in Text
  PROVE  /\ Over(old, new) \in Text
         /\ old = <<>> => Over(old, new) = new
<1>1. Len(new) \in Nat
  BY DEF Text
<1>2. From(old, Len(new) + 1) \in Text
  BY <1>1, FromIs
<1>3. ASSUME old = <<>>
      PROVE  Over(old, new) = new
  <2>1. From(old, Len(new) + 1) = <<>>
    BY <1>1, <1>3 DEF From, Text
  <2>2. new \o <<>> = new
    BY DEF Text
  <2> QED BY <2>1, <2>2, Zenon DEF Over
<1> QED BY <1>2, <1>3 DEF Over, Text

\* One pair changes its field only, and sets it if it was empty.
LEMMA AssignIs ==
  ASSUME NEW f \in [Fields -> Text], NEW pair \in Pair
  PROVE  /\ Assign(f, pair) \in [Fields -> Text]
         /\ \A o \in Fields : o # pair[1] => Assign(f, pair)[o] = f[o]
         /\ f[pair[1]] = <<>> => Assign(f, pair)[pair[1]] = pair[2]
<1> DEFINE o == pair[1]
           v == IF o \in {"n", "d"} THEN pair[2] ELSE Over(f[o], pair[2])
<1>1. o \in Fields /\ pair[2] \in Text
  BY DEF Pair
<1>2. v \in Text /\ (f[o] = <<>> => v = pair[2])
  BY <1>1, OverIs
<1>3. Assign(f, pair) = [f EXCEPT ![o] = v]
  BY DEF Assign
<1> HIDE DEF o, v
<1> QED BY <1>1, <1>2, <1>3 DEF o

Distinct(pairs) ==
  \A i, j \in 1 .. Len(pairs) : pairs[i][1] = pairs[j][1] => i = j

\* Of pairs with different letters, each sets its field; the others stay empty.
LEMMA AssignedIs ==
  ASSUME NEW pairs \in Seq(Pair)
  PROVE  /\ Assigned(pairs) \in [Fields -> Text]
         /\ Distinct(pairs) =>
              /\ \A i \in 1 .. Len(pairs) :
                   Assigned(pairs)[pairs[i][1]] = pairs[i][2]
              /\ \A o \in Fields :
                   \/ Assigned(pairs)[o] = <<>>
                   \/ \E i \in 1 .. Len(pairs) : pairs[i][1] = o
<1> DEFINE n == Len(pairs)
           S == [Fields -> Text]
           step == [i \in 1 .. n |-> [f \in S |-> Assign(f, pairs[i])]]
           Solves(f) == f = [i \in 0 .. n |->
                               IF i = 0 THEN Empty
                               ELSE Assign(f[i - 1], pairs[i])]
<1>1. n \in Nat /\ \A i \in 1 .. n : pairs[i] \in Pair
  OBVIOUS
<1> HIDE DEF n
<1>2. Empty \in S /\ \A o \in Fields : Empty[o] = <<>>
  <2>1. <<>> \in Text
    BY DEF Text
  <2> QED BY <2>1 DEF Empty
<1>3. \A i \in 1 .. n : \A f \in S : Assign(f, pairs[i]) \in S
  BY <1>1, AssignIs
<1> HIDE DEF S
<1>4. PICK t \in [0 .. n -> S] :
        t[0] = Empty /\ \A i \in 1 .. n : t[i] = step[i][t[i - 1]]
  <2>1. step \in [1 .. n -> [S -> S]]
    BY <1>3
  <2> HIDE DEF step
  <2>2. Recurses(S, n, Empty, step)
    BY <1>1, <1>2, <2>1, Recursion
  <2> QED BY <2>2 DEF Recurses
<1>5. \A i \in 1 .. n : t[i] = Assign(t[i - 1], pairs[i])
  <2> TAKE i \in 1 .. n
  <2>1. i - 1 \in 0 .. n
    BY <1>1
  <2>2. t[i - 1] \in S /\ t[i] = step[i][t[i - 1]]
    BY <1>4, <2>1
  <2> QED BY <2>2
<1>6. Solves(t)
  <2>1. ASSUME NEW i \in 0 .. n
        PROVE  t[i] = IF i = 0 THEN Empty ELSE Assign(t[i - 1], pairs[i])
    <3>1. i = 0 \/ i \in 1 .. n
      BY <1>1
    <3> QED BY <1>4, <1>5, <3>1, Zenon
  <2> QED BY <2>1
<1>7. PICK g : Solves(g) /\ Assigned(pairs) = g[n]
  BY <1>6 DEF Assigned, n
<1>8. /\ g[0] = Empty /\ \A i \in 1 .. n : g[i] = Assign(g[i - 1], pairs[i])
  <2>1. 0 \in 0 .. n /\ \A i \in 1 .. n : i \in 0 .. n /\ i # 0
    BY <1>1
  <2> QED BY <1>7, <2>1, Zenon
<1> DEFINE Good(k) ==
             /\ g[k] \in S
             /\ Distinct(pairs) =>
                  /\ \A i \in 1 .. k : g[k][pairs[i][1]] = pairs[i][2]
                  /\ \A o \in Fields : \/ g[k][o] = <<>>
                                       \/ \E i \in 1 .. k : pairs[i][1] = o
           T == {k \in 0 .. n : ~Good(k)}
<1>9. Good(0)
  <2>1. \A i \in 1 .. 0 : FALSE
    OBVIOUS
  <2> QED BY <1>2, <1>8, <2>1, Zenon
<1>10. ASSUME NEW k \in 1 .. n, Good(k - 1)
       PROVE  Good(k)
  <2> DEFINE f == g[k - 1]
  <2>1. f \in S /\ pairs[k] \in Pair /\ g[k] = Assign(f, pairs[k])
    BY <1>1, <1>8, <1>10
  <2>2. /\ g[k] \in S
        /\ \A o \in Fields : o # pairs[k][1] => g[k][o] = f[o]
        /\ f[pairs[k][1]] = <<>> => g[k][pairs[k][1]] = pairs[k][2]
    <3> HIDE DEF f
    <3>1. f \in [Fields -> Text]
      BY <2>1 DEF S
    <3>2. /\ \A o \in Fields : o # pairs[k][1] => Assign(f, pairs[k])[o] = f[o]
          /\ f[pairs[k][1]] = <<>> => Assign(f, pairs[k])[pairs[k][1]] = pairs[k][2]
      BY <2>1, <3>1, AssignIs
    <3>3. g[k] \in S
      BY <1>3, <2>1
    <3> QED BY <2>1, <3>2, <3>3, Zenon
  <2>3. ASSUME Distinct(pairs)
        PROVE  /\ \A i \in 1 .. k : g[k][pairs[i][1]] = pairs[i][2]
               /\ \A o \in Fields : \/ g[k][o] = <<>>
                                    \/ \E i \in 1 .. k : pairs[i][1] = o
    <3>1. /\ \A i \in 1 .. k - 1 : f[pairs[i][1]] = pairs[i][2]
          /\ \A o \in Fields : \/ f[o] = <<>>
                               \/ \E i \in 1 .. k - 1 : pairs[i][1] = o
      BY <1>10, <2>3
    <3>2. \A i \in 1 .. k - 1 : i \in 1 .. n /\ i # k /\ i \in 1 .. k
      BY <1>1
    <3>3. k \in 1 .. n /\ k \in 1 .. k
      BY <1>1
    <3>4. \A i \in 1 .. n : pairs[i][1] \in Fields
      BY <1>1 DEF Pair
    <3>5. \A i \in 1 .. k - 1 : pairs[i][1] # pairs[k][1]
      BY <2>3, <3>2, <3>3, Zenon DEF Distinct, n
    <3>6. f[pairs[k][1]] = <<>>
      BY <3>1, <3>3, <3>4, <3>5, Zenon
    <3> HIDE DEF f
    <3>7. \A i \in 1 .. k - 1 : g[k][pairs[i][1]] = pairs[i][2]
      BY <2>2, <3>1, <3>2, <3>4, <3>5, Zenon
    <3>8. \A i \in 1 .. k : i \in 1 .. k - 1 \/ i = k
      BY <1>1
    <3>9. \A i \in 1 .. k : g[k][pairs[i][1]] = pairs[i][2]
      BY <2>2, <3>6, <3>7, <3>8, Zenon
    <3>10. \A o \in Fields : \/ g[k][o] = <<>>
                             \/ \E i \in 1 .. k : pairs[i][1] = o
      BY <2>2, <3>1, <3>2, <3>3, Zenon
    <3> QED BY <3>9, <3>10
  <2> QED BY <2>2, <2>3
<1> HIDE DEF Good
<1>11. ASSUME T # {}
       PROVE  FALSE
  <2>1. T \in SUBSET Nat
    BY <1>1
  <2>2. PICK x \in T : \A y \in T : x <= y
    <3> HIDE DEF T
    <3> QED BY <1>11, <2>1, LeastNumber
  <2>3. x \in 1 .. n /\ ~Good(x)
    BY <1>9
  <2>4. x - 1 \in 0 .. n /\ x - 1 \notin T
    BY <1>1, <2>2, <2>3
  <2> QED BY <1>10, <2>3, <2>4
<1>12. Good(n)
  BY <1>1, <1>11
<1> QED BY <1>7, <1>12, Zenon DEF Good, S, n

-----------------------------------------------------------------------------
(* The loop of istb_m3u8_parse_options.                                    *)

Found == (Fields \cup {"lost"}) \X Text
Dash(s, i) == Find(s, <<"-">>, i)
\* The loop at i, where f has what is found from the places behind.
Loop(s, i, f) ==
  IF Dash(s, i) = Len(s) + 1 THEN <<>>
  ELSE IF Dash(s, i) = Len(s) THEN << <<"lost", <<>> >> >>
  ELSE IF s[Dash(s, i) + 1] \in Fields
  THEN << <<s[Dash(s, i) + 1], Value(s, Dash(s, i))>> >>
         \o f[ValueEnd(s, Dash(s, i))]
  ELSE f[Dash(s, i) + 2]

LEMMA DashIs ==
  ASSUME NEW s \in Text, NEW i \in 1 .. Len(s) + 1
  PROVE  /\ Dash(s, i) \in i .. Len(s) + 1
         /\ Dash(s, i) = Len(s) + 1 \/ s[Dash(s, i)] = "-"
         /\ \A k \in i .. Dash(s, i) - 1 : s[k] # "-"
<1> DEFINE t == <<"-">>
<1>1. t \in Text /\ Len(t) = 1 /\ t[1] = "-" /\ Len(s) \in Nat
  <2>1. t \in Text
    BY CharsAre
  <2> QED BY <2>1 DEF Text
<1>2. IsFound(s, t, i, Dash(s, i))
  BY <1>1, FindIs DEF Dash
<1>3. \A k \in i .. Len(s) : Comes(t, s, k) <=> s[k] = "-"
  <2> TAKE k \in i .. Len(s)
  <2>1. k + Len(t) <= Len(s) + 1 /\ k + 1 - 1 = k
    BY <1>1
  <2>2. \A j \in 1 .. Len(t) : j = 1
    BY <1>1
  <2>3. 1 \in 1 .. Len(t)
    BY <1>1
  <2> HIDE DEF t
  <2> QED BY <1>1, <2>1, <2>2, <2>3, Zenon DEF Comes
<1> HIDE DEF t
<1>4. /\ Dash(s, i) \in i .. Len(s) + 1
      /\ Dash(s, i) = Len(s) + 1 \/ Dash(s, i) \in i .. Len(s)
      /\ \A k \in i .. Dash(s, i) - 1 : k \in i .. Len(s)
  BY <1>1, <1>2 DEF IsFound
<1> QED BY <1>2, <1>3, <1>4, Zenon DEF IsFound

LEMMA NumberEnds ==
  ASSUME NEW s \in Text, NEW i \in 1 .. Len(s) + 1
  PROVE  EndOfNumber(s, i) \in i .. Len(s) + 1
<1> DEFINE j == Skip(s, i, {Space})
           k == IF j <= Len(s) /\ s[j] = "-" THEN j + 1 ELSE j
           e == Skip(s, k, ToSet(DigitChars))
<1>0. Len(s) \in Nat
  BY DEF Text
<1>1. j \in i .. Len(s) + 1
  BY SkipIs DEF IsPast
<1> HIDE DEF j
<1>2. k \in i .. Len(s) + 1 /\ k \in 1 .. Len(s) + 1
  BY <1>0, <1>1
<1> HIDE DEF k
<1>3. e \in k .. Len(s) + 1
  BY <1>2, SkipIs DEF IsPast
<1> HIDE DEF e
<1>4. EndOfNumber(s, i) = IF e = k THEN i ELSE e
  BY DEF EndOfNumber, e, k, j
<1> QED BY <1>0, <1>2, <1>3, <1>4

LEMMA ReadIs ==
  ASSUME NEW s \in Text, NEW at \in 1 .. Len(s) - 1
  PROVE  /\ ValueBegin(s, at) \in at + 2 .. Len(s) + 1
         /\ ValueEnd(s, at) \in at + 2 .. Len(s) + 1
         /\ Value(s, at) \in Text
<1>0. Len(s) \in Nat
  BY DEF Text
<1>1. at + 2 \in 1 .. Len(s) + 1
  BY <1>0
<1>2. ValueBegin(s, at) \in at + 2 .. Len(s) + 1
  BY <1>1, SkipIs DEF ValueBegin, IsPast
<1>3. ValueBegin(s, at) \in 1 .. Len(s) + 1
  BY <1>0, <1>2
<1>4. EndOfNumber(s, at + 2) \in at + 2 .. Len(s) + 1
  BY <1>1, NumberEnds
<1>5. EndOfText(s, ValueBegin(s, at)) \in ValueBegin(s, at) .. Len(s) + 1
  <2>1. <<Space, "-">> \in Text
    BY CharsAre
  <2> QED BY <1>3, <2>1, FindIs DEF EndOfText, IsFound
<1>6. ValueEnd(s, at) \in at + 2 .. Len(s) + 1
  BY <1>0, <1>2, <1>4, <1>5 DEF ValueEnd
<1>7. Value(s, at) \in Text
  BY <1>0, <1>2, <1>6 DEF Text, Value
<1> QED BY <1>2, <1>6, <1>7

LEMMA PairsIs ==
  ASSUME NEW s \in Text
  PROVE  \E f \in [1 .. Len(s) + 1 -> Seq(Found)] :
           /\ Pairs(s) = f[1]
           /\ \A i \in 1 .. Len(s) + 1 : f[i] = Loop(s, i, f)
<1> DEFINE n == Len(s)
           D == 1 .. n + 1
           S == Seq(Found)
           rank == [i \in D |-> n + 1 - i]
           step == [i \in D |-> [f \in [D -> S] |-> Loop(s, i, f)]]
           Solves(f) == f = [i \in D |-> Loop(s, i, f)]
           next(i) == IF s[Dash(s, i) + 1] \in Fields
                      THEN ValueEnd(s, Dash(s, i)) ELSE Dash(s, i) + 2
           head(i) == << <<s[Dash(s, i) + 1], Value(s, Dash(s, i))>> >>
           goes(i) == Dash(s, i) # n + 1 /\ Dash(s, i) # n
<1>1. n \in Nat
  BY DEF Text
<1>2. ASSUME NEW i \in D, goes(i)
      PROVE  /\ next(i) \in D /\ next(i) > i
             /\ s[Dash(s, i) + 1] \in Fields => head(i) \in S
  <2> DEFINE d == Dash(s, i)
  <2>1. d \in i .. n + 1
    BY DashIs
  <2> HIDE DEF d
  <2>2. d \in 1 .. n - 1 /\ d >= i
    BY <1>1, <1>2, <2>1 DEF d
  <2>3. ValueEnd(s, d) \in d + 2 .. n + 1 /\ Value(s, d) \in Text
    BY <2>2, ReadIs
  <2>4. next(i) \in D /\ next(i) > i
    BY <1>1, <2>2, <2>3 DEF d
  <2>5. s[d + 1] \in Fields => << <<s[d + 1], Value(s, d)>> >> \in S
    BY <2>3 DEF Found
  <2> QED BY <2>4, <2>5 DEF d
<1>3. \A i \in D : \A f : Loop(s, i, f) =
        IF Dash(s, i) = n + 1 THEN <<>>
        ELSE IF Dash(s, i) = n THEN << <<"lost", <<>> >> >>
        ELSE IF s[Dash(s, i) + 1] \in Fields THEN head(i) \o f[next(i)]
        ELSE f[next(i)]
  BY Zenon DEF Loop
<1>4. << <<"lost", <<>> >> >> \in S /\ <<>> \in S
  <2>1. <<>> \in Text
    BY CharsAre
  <2> QED BY <2>1 DEF Found
<1> HIDE DEF next, head, n
<1>5. ASSUME NEW i \in D, NEW f \in [D -> S]
      PROVE  Loop(s, i, f) \in S
  <2>1. CASE goes(i)
    <3>1. f[next(i)] \in S
      BY <1>2, <2>1
    <3>2. s[Dash(s, i) + 1] \in Fields => head(i) \o f[next(i)] \in S
      BY <1>2, <2>1, <3>1
    <3> QED BY <1>3, <2>1, <3>1, <3>2, Zenon
  <2>2. CASE ~goes(i)
    BY <1>3, <1>4, <2>2, Zenon
  <2> QED BY <2>1, <2>2
<1>6. ASSUME NEW i \in D, NEW f, NEW g,
             \A y \in D : y > i => f[y] = g[y]
      PROVE  Loop(s, i, f) = Loop(s, i, g)
  <2>1. CASE goes(i)
    <3>1. f[next(i)] = g[next(i)]
      BY <1>2, <1>6, <2>1, Zenon
    <3> QED BY <1>3, <2>1, <3>1, Zenon
  <2>2. CASE ~goes(i)
    BY <1>3, <2>2, Zenon
  <2> QED BY <2>1, <2>2
<1> HIDE DEF S
<1>7. rank \in [D -> 0 .. n] /\ step \in [D -> [[D -> S] -> S]]
  <2>1. rank \in [D -> 0 .. n]
    BY <1>1
  <2> HIDE DEF D
  <2> QED BY <1>5, <2>1
<1>8. Rests(D, S, rank, step)
  <2> SUFFICES ASSUME NEW i \in D, NEW f \in [D -> S], NEW g \in [D -> S],
                      \A y \in D : rank[y] < rank[i] => f[y] = g[y]
               PROVE  step[i][f] = step[i][g]
    BY Zenon DEF Rests
  <2>1. \A y \in D : y > i => rank[y] < rank[i]
    BY <1>1
  <2>2. Loop(s, i, f) = Loop(s, i, g)
    <3> HIDE DEF D, rank
    <3> QED BY <1>6, <2>1
  <2> HIDE DEF D
  <2> QED BY <2>2
<1>9. PICK t \in [D -> S] : \A i \in D : t[i] = step[i][t]
  <2> HIDE DEF D, rank, step
  <2>1. Solvable(D, S, step)
    BY <1>1, <1>4, <1>7, <1>8, Recursive
  <2> QED BY <2>1 DEF Solvable
<1>10. \A i \in D : t[i] = Loop(s, i, t)
  <2> HIDE DEF D
  <2> QED BY <1>9
<1>11. Solves(t)
  <2>1. t = [i \in D |-> t[i]]
    BY <1>9
  <2> HIDE DEF D
  <2> QED BY <1>10, <2>1, Zenon
<1>12. Pairs(s) = (CHOOSE f : Solves(f))[1]
  BY DEF Pairs, Loop, Dash, n
<1>13. PICK g : Solves(g) /\ Pairs(s) = g[1]
  <2> HIDE DEF Solves
  <2> QED BY <1>11, <1>12, Zenon
<1>14. \A i \in D : g[i] = Loop(s, i, g)
  <2> HIDE DEF D
  <2> QED BY <1>13, Zenon
<1> DEFINE T == {k \in 0 .. n : g[n + 1 - k] # t[n + 1 - k]}
<1>15. ASSUME T # {}
       PROVE  FALSE
  <2>1. T \in SUBSET Nat
    BY <1>1
  <2>2. PICK x \in T : \A y \in T : x <= y
    <3> HIDE DEF T
    <3> QED BY <1>15, <2>1, LeastNumber
  <2> DEFINE i == n + 1 - x
  <2>3. i \in D /\ g[i] # t[i]
    BY <1>1
  <2>4. \A y \in D : y > i =>
          /\ n + 1 - y \in 0 .. n /\ ~(x <= n + 1 - y)
          /\ n + 1 - (n + 1 - y) = y
    BY <1>1
  <2>5. \A y \in D : y > i => g[y] = t[y]
    <3> TAKE y \in D
    <3> HAVE y > i
    <3> HIDE DEF D, i
    <3>1. n + 1 - y \in 0 .. n /\ n + 1 - y \notin T /\ n + 1 - (n + 1 - y) = y
      <4> HIDE DEF T
      <4> QED BY <2>2, <2>4, Zenon
    <3> QED BY <3>1
  <2> HIDE DEF i, D, T
  <2>6. Loop(s, i, g) = Loop(s, i, t)
    BY <1>6, <2>3, <2>5
  <2> QED BY <1>10, <1>14, <2>3, <2>6
<1>16. \A i \in D : g[i] = t[i]
  <2>1. \A i \in D : n + 1 - i \in 0 .. n /\ n + 1 - (n + 1 - i) = i
    BY <1>1
  <2> HIDE DEF D
  <2> QED BY <1>15, <2>1
<1>17. 1 \in D
  BY <1>1
<1> QED BY <1>9, <1>10, <1>13, <1>16, <1>17, Zenon DEF S, n

-----------------------------------------------------------------------------
(* One option of the string, of which s shows as much as it is long.       *)

LEMMA PrefixIs ==
  ASSUME NEW s \in Text, NEW t \in Text
  PROVE  IsPrefix(s, t)
           <=> Len(s) <= Len(t) /\ \A i \in 1 .. Len(s) : s[i] = t[i]
  BY DEF IsPrefix, Text

LEMMA JoinIs ==
  ASSUME NEW s \in Text, NEW t \in Text
  PROVE  /\ s \o t \in Text
         /\ Len(s \o t) = Len(s) + Len(t)
         /\ \A i \in 1 .. Len(s) : (s \o t)[i] = s[i]
         /\ \A i \in 1 .. Len(t) : (s \o t)[Len(s) + i] = t[i]
  BY DEF Text

LEMMA PieceIs ==
  ASSUME NEW s \in Text, NEW i \in Nat \ {0}, NEW j \in Nat, j <= Len(s)
  PROVE  /\ SubSeq(s, i, j) \in Text
         /\ Len(SubSeq(s, i, j)) = IF i <= j THEN j - i + 1 ELSE 0
         /\ \A k \in 1 .. Len(SubSeq(s, i, j)) : SubSeq(s, i, j)[k] = s[i + k - 1]
  BY DEF Text

LEMMA SameText ==
  ASSUME NEW s \in Text, NEW t \in Text, Len(s) = Len(t),
         \A i \in 1 .. Len(s) : s[i] = t[i]
  PROVE  s = t
  BY DEF Text

\* A space and a dash come nowhere in s.
NoDash(s) == \A i \in 1 .. Len(s) - 1 : s[i] # Space \/ s[i + 1] # "-"

LEMMA ComesTwo ==
  ASSUME NEW s \in Text, NEW i \in 1 .. Len(s) + 1
  PROVE  /\ <<Space, "-">> \in Text
         /\ Comes(<<Space, "-">>, s, i)
              <=> i < Len(s) /\ s[i] = Space /\ s[i + 1] = "-"
<1> DEFINE t == <<Space, "-">>
<1>1. t \in Text
  BY CharsAre
<1>2. t[1] = Space /\ t[2] = "-"
  OBVIOUS
<1>7. Len(t) = 2 /\ Len(s) \in Nat
  BY DEF Text
<1> HIDE DEF t
<1>3. (\A k \in 1 .. Len(t) : s[i + k - 1] = t[k])
        <=> s[i + 1 - 1] = t[1] /\ s[i + 2 - 1] = t[2]
  <2>1. \A k \in 1 .. Len(t) : k = 1 \/ k = 2
    BY <1>7
  <2>2. 1 \in 1 .. Len(t) /\ 2 \in 1 .. Len(t)
    BY <1>7
  <2> QED BY <2>1, <2>2, Zenon
<1>4. i + 1 - 1 = i /\ i + 2 - 1 = i + 1
  OBVIOUS
<1>5. i + Len(t) <= Len(s) + 1 <=> i < Len(s)
  BY <1>7
<1>6. Comes(t, s, i) <=> i < Len(s) /\ s[i] = Space /\ s[i + 1] = "-"
  BY <1>2, <1>3, <1>4, <1>5, Zenon DEF Comes
<1> QED BY <1>1, <1>6 DEF t

LEMMA PlainIs ==
  ASSUME NEW v \in Text
  PROVE  Plain(v) <=> Len(v) >= 1 /\ v[1] # Space /\ NoDash(v)
<1>0. Len(v) \in Nat
  BY DEF Text
<1>1. v # <<>> <=> Len(v) >= 1
  BY <1>0 DEF Text
<1>2. DOMAIN v = 1 .. Len(v)
  BY DEF Text
<1>3. \A i \in 1 .. Len(v) : IsPrefix(<<Space, "-">>, From(v, i))
                               <=> i < Len(v) /\ v[i] = Space /\ v[i + 1] = "-"
  <2> TAKE i \in 1 .. Len(v)
  <2>1. i \in 1 .. Len(v) + 1
    BY <1>0
  <2> QED BY <2>1, ComesTwo, ComesIs
<1>4. \A i : i \in 1 .. Len(v) /\ i < Len(v) <=> i \in 1 .. Len(v) - 1
  BY <1>0
<1>5. ~Has(v, <<Space, "-">>) <=> NoDash(v)
  BY <1>2, <1>3, <1>4, Zenon DEF Has, NoDash
<1> QED BY <1>1, <1>5 DEF Plain

\* A number has a minus sign or not, then digits.
Signed(v, z) ==
  /\ z \in {0, 1} /\ Len(v) > z
  /\ z = 1 => v[1] = "-"
  /\ \A i \in z + 1 .. Len(v) : IsDigit(v[i])

LEMMA IsNumberIs ==
  ASSUME NEW v \in Text, IsNumber(v)
  PROVE  \E z : Signed(v, z)
<1>0. Len(v) \in Nat /\ \A t \in Text : DOMAIN t = 1 .. Len(t)
  BY DEF Text
<1>1. CASE IsDigits(v)
  <2>1. \A i \in 1 .. Len(v) : IsDigit(v[i])
    BY <1>0, <1>1, Zenon DEF IsDigits, ToSet, IsDigit
  <2>2. Len(v) > 0
    BY <1>0, <1>1 DEF IsDigits, Text
  <2> QED BY <1>0, <2>1, <2>2 DEF Signed
<1>2. CASE v # <<>> /\ v[1] = "-" /\ IsDigits(From(v, 2))
  <2> DEFINE r == From(v, 2)
  <2>1. /\ r \in Text /\ Len(r) = IF 2 <= Len(v) THEN Len(v) - 2 + 1 ELSE 0
        /\ \A k \in 1 .. Len(r) : r[k] = v[2 + k - 1]
    BY FromIs
  <2>2. IsDigits(r)
    BY <1>2
  <2> HIDE DEF r
  <2>3. \A i \in 1 .. Len(r) : IsDigit(r[i])
    BY <1>0, <2>1, <2>2, Zenon DEF IsDigits, ToSet, IsDigit
  <2>4. Len(r) > 0
    <3>1. Len(r) \in Nat
      BY <2>1 DEF Text
    <3> QED BY <2>1, <2>2, <3>1 DEF IsDigits, Text
  <2>5. Len(v) > 1 /\ Len(r) = Len(v) - 1
    BY <1>0, <2>1, <2>4
  <2>6. \A i \in 2 .. Len(v) : i - 1 \in 1 .. Len(r) /\ 2 + (i - 1) - 1 = i
    BY <1>0, <2>5
  <2>7. \A i \in 2 .. Len(v) : IsDigit(v[i])
    BY <2>1, <2>3, <2>6
  <2> QED BY <1>2, <2>5, <2>7 DEF Signed
<1> QED BY <1>1, <1>2 DEF IsNumber

LEMMA LenIs == \A s \in Text : Len(s) \in Nat
  BY DEF Text

\* Behind the value v of the letter c, whose dash is at p, a space and the next
\* dash: as far as s goes.
Behind(p, v) == p + 3 + Len(v)

Shows(s, p, c, v) ==
  /\ p \in 1 .. Len(s) - 1
  /\ s[p + 1] = c
  /\ p + 2 <= Len(s) => s[p + 2] = Space
  /\ \A i \in 1 .. Len(v) : p + 2 + i <= Len(s) => s[p + 2 + i] = v[i]
  /\ Behind(p, v) <= Len(s) => s[Behind(p, v)] = Space
  /\ Behind(p, v) + 1 <= Len(s) => s[Behind(p, v) + 1] = "-"

LEMMA BeginIs ==
  ASSUME NEW s \in Text, NEW p \in Nat, NEW c, NEW v \in Text, Shows(s, p, c, v),
         Len(v) >= 1, v[1] # Space
  PROVE  ValueBegin(s, p) = IF p + 3 <= Len(s) THEN p + 3 ELSE Len(s) + 1
<1> DEFINE b == IF p + 3 <= Len(s) THEN p + 3 ELSE Len(s) + 1
<1>1. p \in 1 .. Len(s) - 1 /\ Len(s) \in Nat /\ p + 2 \in 1 .. Len(s) + 1
  <2>1. p \in 1 .. Len(s) - 1
    BY Zenon DEF Shows
  <2>2. Len(s) \in Nat
    BY LenIs
  <2> QED BY <2>1, <2>2
<1>2. b \in p + 2 .. Len(s) + 1
  BY <1>1
<1>3. b # Len(s) + 1 => s[b] \notin {Space}
  <2>1. b # Len(s) + 1 => b = p + 2 + 1 /\ p + 2 + 1 <= Len(s)
    BY <1>1
  <2>2. 1 \in 1 .. Len(v)
    BY LenIs
  <2> HIDE DEF b
  <2> QED BY <2>1, <2>2 DEF Shows
<1>4. \A k \in p + 2 .. b - 1 : s[k] \in {Space}
  <2>1. \A k \in p + 2 .. b - 1 : k = p + 2 /\ p + 2 <= Len(s)
    BY <1>1
  <2> QED BY <2>1 DEF Shows
<1>5. IsPast(s, p + 2, {Space}, b)
  <2> HIDE DEF b
  <2> QED BY <1>2, <1>3, <1>4 DEF IsPast
<1> QED BY <1>1, <1>5, PastOnce DEF ValueBegin

\* What lies between the begin b of the value and a place m.
Spans(s, p, v, b, m) ==
  /\ b = IF p + 3 <= Len(s) THEN p + 3 ELSE Len(s) + 1
  /\ m \in p + 2 .. Len(s) + 1
  /\ m <= Behind(p, v) + 1

Reads(s, p, v, b, m) ==
  /\ IsPrefix(SubSeq(s, b, m - 1), v \o <<Space>>)
  /\ m = Behind(p, v) => SubSeq(s, b, m - 1) = v

LEMMA ValueIs ==
  ASSUME NEW s \in Text, NEW p \in Nat, NEW c, NEW v \in Text, Shows(s, p, c, v),
         NEW b, NEW m, Spans(s, p, v, b, m)
  PROVE  Reads(s, p, v, b, m)
<1> DEFINE r == SubSeq(s, b, m - 1)
           w == v \o <<Space>>
           e == Behind(p, v)
<1>1. /\ p \in 1 .. Len(s) - 1 /\ Len(s) \in Nat /\ Len(v) \in Nat
      /\ e = p + 3 + Len(v)
  <2>1. p \in 1 .. Len(s) - 1
    BY Zenon DEF Shows
  <2>2. Len(s) \in Nat /\ Len(v) \in Nat
    BY LenIs
  <2> QED BY <2>1, <2>2 DEF Behind
<1> HIDE DEF e
<1>10. /\ b = IF p + 3 <= Len(s) THEN p + 3 ELSE Len(s) + 1
       /\ m \in p + 2 .. Len(s) + 1 /\ m <= e + 1
  BY DEF Spans, e
<1>2. b \in Nat \ {0} /\ m - 1 \in Nat /\ m - 1 <= Len(s)
  BY <1>1, <1>10
<1>3. /\ r \in Text /\ Len(r) = IF b <= m - 1 THEN m - 1 - b + 1 ELSE 0
      /\ \A k \in 1 .. Len(r) : r[k] = s[b + k - 1]
  BY <1>2, PieceIs
<1> HIDE DEF r
<1>4. Space \in Char /\ <<Space>> \in Text
  BY CharsAre
<1>5. /\ w \in Text /\ Len(w) = Len(v) + 1 /\ w[Len(v) + 1] = Space
      /\ \A i \in 1 .. Len(v) : w[i] = v[i]
  BY <1>4, LastOne, JoinIs
<1> HIDE DEF w
<1>6. Len(r) <= Len(w) /\ (m = e => Len(r) = Len(v))
  BY <1>1, <1>2, <1>3, <1>5, <1>10
<1>7. \A k \in 1 .. Len(r) : r[k] = w[k]
  <2> TAKE k \in 1 .. Len(r)
  <2>1. /\ b = p + 3 /\ b + k - 1 = p + 2 + k /\ p + 2 + k <= Len(s)
        /\ k \in 1 .. Len(v) \/ k = Len(v) + 1
    BY <1>1, <1>2, <1>3, <1>5, <1>6, <1>10, SMTT(30)
  <2>2. r[k] = s[p + 2 + k]
    BY <1>3, <2>1
  <2>3. CASE k \in 1 .. Len(v)
    BY <1>5, <2>1, <2>2, <2>3 DEF Shows
  <2>4. CASE k = Len(v) + 1
    <3>1. p + 2 + k = e
      BY <1>1, <2>4
    <3> QED BY <1>5, <2>1, <2>2, <2>4, <3>1 DEF Shows, e
  <2> QED BY <2>1, <2>3, <2>4
<1>8. IsPrefix(r, w)
  BY <1>3, <1>5, <1>6, <1>7, PrefixIs
<1>9. ASSUME m = e
      PROVE  r = v
  <2>1. \A k \in 1 .. Len(r) : r[k] = v[k]
    BY <1>5, <1>6, <1>7, <1>9
  <2> QED BY <1>3, <1>6, <1>9, <2>1, SameText
<1> QED BY <1>8, <1>9 DEF Reads, r, w, e

\* A text ends at the next option, where the string shows it.
LEMMA TextField ==
  ASSUME NEW s \in Text, NEW p \in Nat, NEW c \in {"p", "m", "u"}, NEW v \in Text,
         Shows(s, p, c, v), Plain(v)
  PROVE  /\ ValueEnd(s, p) =
              IF Len(s) > Behind(p, v) THEN Behind(p, v) ELSE Len(s) + 1
         /\ Len(s) > Behind(p, v) => Value(s, p) = v
         /\ Len(s) + 1 = Behind(p, v) => Value(s, p) = v
         /\ IsPrefix(Value(s, p), v \o <<Space>>)
<1> DEFINE b == IF p + 3 <= Len(s) THEN p + 3 ELSE Len(s) + 1
           e == Behind(p, v)
           m == IF Len(s) > e THEN e ELSE Len(s) + 1
           t == <<Space, "-">>
<1>1. /\ p \in 1 .. Len(s) - 1 /\ Len(s) \in Nat /\ Len(v) \in Nat
      /\ e = p + 3 + Len(v)
  <2>1. p \in 1 .. Len(s) - 1
    BY Zenon DEF Shows
  <2>2. Len(s) \in Nat /\ Len(v) \in Nat
    BY LenIs
  <2> QED BY <2>1, <2>2 DEF Behind
<1>2. Len(v) >= 1 /\ v[1] # Space /\ NoDash(v)
  BY PlainIs
<1>3. ValueBegin(s, p) = b
  BY <1>2, BeginIs
<1> HIDE DEF e
<1>4. b \in 1 .. Len(s) + 1 /\ m \in b .. Len(s) + 1 /\ b >= p + 2
      /\ m \in 1 .. Len(s) + 1
  BY <1>1, <1>2
<1>5. \A k \in b .. m - 1 : /\ k \in 1 .. Len(s) + 1
                            /\ ~(k < Len(s) /\ s[k] = Space /\ s[k + 1] = "-")
  <2> TAKE k \in b .. m - 1
  <2> DEFINE i == k - p - 2
  <2>1. k \in 1 .. Len(s) + 1
    BY <1>4
  <2>2. ASSUME k < Len(s)
        PROVE  /\ i \in 1 .. Len(v) /\ k = p + 2 + i /\ k + 1 = p + 2 + (i + 1)
               /\ i + 1 = Len(v) + 1 => k + 1 = e /\ e <= Len(s)
               /\ p + 2 + i <= Len(s) /\ p + 2 + (i + 1) <= Len(s)
    BY <1>1, <1>2, <1>4, <2>2
  <2>3. CASE k < Len(s) /\ i < Len(v)
    <3>1. i \in 1 .. Len(v) - 1 /\ i + 1 \in 1 .. Len(v)
      BY <1>1, <2>2, <2>3
    <3>2. s[k] = v[i] /\ s[k + 1] = v[i + 1]
      <4> HIDE DEF i
      <4> QED BY <2>2, <2>3, <3>1, Zenon DEF Shows
    <3> QED BY <1>2, <2>1, <3>1, <3>2, Zenon DEF NoDash
  <2>4. CASE k < Len(s) /\ ~(i < Len(v))
    <3>1. k + 1 = e /\ e <= Len(s)
      BY <1>1, <2>2, <2>4
    <3>2. s[k + 1] = Space
      BY <3>1 DEF Shows, e
    <3> QED BY <2>1, <3>2, SpaceIs
  <2>5. CASE ~(k < Len(s))
    BY <2>1, <2>5
  <2> QED BY <2>3, <2>4, <2>5
<1>6. m = Len(s) + 1 \/ (m < Len(s) /\ s[m] = Space /\ s[m + 1] = "-")
  <2>1. CASE Len(s) > e
    <3>1. m = e /\ e + 1 <= Len(s) /\ e <= Len(s) /\ e < Len(s)
      BY <1>1, <2>1
    <3> QED BY <3>1 DEF Shows, e
  <2>2. CASE ~(Len(s) > e)
    BY <2>2
  <2> QED BY <2>1, <2>2
<1> HIDE DEF m, b
<1>7. IsFound(s, t, b, m)
  <2>1. m = Len(s) + 1 \/ Comes(t, s, m)
    BY <1>4, <1>6, ComesTwo
  <2>2. \A k \in b .. m - 1 : ~Comes(t, s, k)
    BY <1>5, ComesTwo
  <2> HIDE DEF t
  <2> QED BY <1>4, <2>1, <2>2 DEF IsFound
<1>8. Find(s, t, b) = m
  <2>1. t \in Text
    BY CharsAre
  <2> HIDE DEF t
  <2> QED BY <1>4, <1>7, <2>1, FoundOnce
<1>9. ValueEnd(s, p) = m
  BY <1>3, <1>8 DEF ValueEnd, EndOfText, Shows
<1>10. m \in p + 2 .. Len(s) + 1 /\ m <= e + 1
  BY <1>1, <1>4 DEF m
<1>11. /\ IsPrefix(SubSeq(s, b, m - 1), v \o <<Space>>)
       /\ m = Behind(p, v) => SubSeq(s, b, m - 1) = v
  <2>1. Spans(s, p, v, b, m)
    BY <1>10 DEF Spans, b, e
  <2> QED BY <2>1, ValueIs DEF Reads
<1>12. Value(s, p) = SubSeq(s, b, m - 1)
  BY <1>3, <1>9 DEF Value
<1>13. (Len(s) > e => m = e) /\ (Len(s) + 1 = e => m = e)
  BY <1>1 DEF m
<1> QED BY <1>9, <1>11, <1>12, <1>13 DEF e, m

\* A number ends where the digits do; of less than a digit nothing is read.
LEMMA NumberField ==
  ASSUME NEW s \in Text, NEW p \in Nat, NEW c \in {"n", "d"}, NEW v \in Text,
         Shows(s, p, c, v), IsNumber(v)
  PROVE  /\ Len(s) >= Behind(p, v) =>
              ValueEnd(s, p) = Behind(p, v) /\ Value(s, p) = v
         /\ Len(s) < Behind(p, v) =>
              \/ ValueEnd(s, p) = Len(s) + 1
              \/ ValueEnd(s, p) = p + 2 /\ Len(s) <= p + 3
         /\ IsPrefix(Value(s, p), v \o <<Space>>)
<1> DEFINE b == IF p + 3 <= Len(s) THEN p + 3 ELSE Len(s) + 1
           e == Behind(p, v)
           digits == ToSet(DigitChars)
<1>1. /\ p \in 1 .. Len(s) - 1 /\ Len(s) \in Nat /\ Len(v) \in Nat
      /\ e = p + 3 + Len(v)
  <2>1. p \in 1 .. Len(s) - 1
    BY Zenon DEF Shows
  <2>2. Len(s) \in Nat /\ Len(v) \in Nat
    BY LenIs
  <2> QED BY <2>1, <2>2 DEF Behind
<1>2. PICK z : Signed(v, z)
  BY IsNumberIs
<1>3. /\ z \in {0, 1} /\ Len(v) > z
      /\ z = 1 => v[1] = "-"
      /\ z = 0 => IsDigit(v[1])
      /\ \A i \in z + 1 .. Len(v) : IsDigit(v[i])
  <2>1. z = 0 => 1 \in z + 1 .. Len(v)
    BY <1>1, <1>2 DEF Signed
  <2> QED BY <1>2, <2>1 DEF Signed
<1>4. Len(v) >= 1 /\ v[1] # Space
  BY <1>1, <1>3, SpaceIs, DigitCharsAre, SMTT(30)
<1>5. ValueBegin(s, p) = b
  BY <1>4, BeginIs
<1> DEFINE k == IF b <= Len(s) /\ s[b] = "-" THEN b + 1 ELSE b
           f == Skip(s, k, digits)
<1>6. k = IF p + 3 <= Len(s) THEN p + 3 + z ELSE Len(s) + 1
  <2>1. CASE p + 3 <= Len(s)
    <3>1. 1 \in 1 .. Len(v) /\ p + 3 = p + 2 + 1 /\ p + 2 + 1 <= Len(s)
      BY <1>1, <1>4, <2>1
    <3>2. s[p + 3] = v[1]
      BY <3>1 DEF Shows
    <3>3. s[p + 3] = "-" <=> z = 1
      BY <1>3, <3>2, DigitCharsAre
    <3> QED BY <1>1, <1>3, <2>1, <3>3
  <2>2. CASE ~(p + 3 <= Len(s))
    BY <1>1, <2>2
  <2> QED BY <2>1, <2>2
<1>7. k \in 1 .. Len(s) + 1
  BY <1>1, <1>3, <1>6
<1>8. ValueEnd(s, p) = IF f = k THEN p + 2 ELSE f
  BY <1>5 DEF ValueEnd, EndOfNumber, ValueBegin, Shows
<1> HIDE DEF k, e
<1>9. f = IF Len(s) >= e THEN e ELSE Len(s) + 1
  <2> DEFINE m == IF Len(s) >= e THEN e ELSE Len(s) + 1
  <2>1. m \in k .. Len(s) + 1
    BY <1>1, <1>3, <1>6
  <2>2. m = Len(s) + 1 \/ s[m] \notin digits
    BY <1>1, DigitCharsAre DEF Shows, e, IsDigit
  <2>3. \A x \in k .. m - 1 : s[x] \in digits
    <3> TAKE x \in k .. m - 1
    <3> DEFINE i == x - p - 2
    <3>1. /\ i \in z + 1 .. Len(v) /\ i \in 1 .. Len(v)
          /\ x = p + 2 + i /\ p + 2 + i <= Len(s)
      BY <1>1, <1>3, <1>6, SMTT(30)
    <3> HIDE DEF i
    <3>2. s[x] = v[i]
      BY <3>1 DEF Shows
    <3> QED BY <1>3, <3>1, <3>2 DEF IsDigit
  <2> HIDE DEF m
  <2>4. IsPast(s, k, digits, m)
    BY <2>1, <2>2, <2>3, Zenon DEF IsPast
  <2> QED BY <1>7, <2>4, PastOnce DEF m
<1> HIDE DEF f, b
<1>10. f = k => Len(s) < e /\ Len(s) <= p + 3
  BY <1>1, <1>3, <1>6, <1>9
<1> DEFINE m == IF f = k THEN p + 2 ELSE f
<1>11. m \in p + 2 .. Len(s) + 1 /\ m <= e + 1
  BY <1>1, <1>3, <1>9
<1>12. Len(s) >= e => m = e
  BY <1>9, <1>10, <1>1
<1>13. ValueEnd(s, p) = m /\ Value(s, p) = SubSeq(s, b, m - 1)
  BY <1>5, <1>8 DEF Value
<1>14. /\ Len(s) < e => m = Len(s) + 1 \/ (m = p + 2 /\ Len(s) <= p + 3)
  BY <1>9, <1>10, <1>1
<1> HIDE DEF m
<1>15. /\ IsPrefix(SubSeq(s, b, m - 1), v \o <<Space>>)
       /\ m = Behind(p, v) => SubSeq(s, b, m - 1) = v
  <2>1. Spans(s, p, v, b, m)
    BY <1>11 DEF Spans, b, e
  <2> QED BY <2>1, ValueIs DEF Reads
<1> QED BY <1>12, <1>13, <1>14, <1>15 DEF e

-----------------------------------------------------------------------------
(* The string of all options, and what is read of the part that s shows.   *)

Letter == <<"n", "d", "p", "m", "u">>

\* w has the letters with the values v, their dashes at the places place.
Written(w, v, place) ==
  /\ w \in Text /\ v \in [1 .. 5 -> Text] /\ place \in [1 .. 5 -> Nat]
  /\ place[1] = 1
  /\ \A k \in 1 .. 5 :
       /\ w[place[k]] = "-" /\ w[place[k] + 1] = Letter[k]
       /\ w[place[k] + 2] = Space
       /\ \A i \in 1 .. Len(v[k]) : w[place[k] + 2 + i] = v[k][i]
  /\ \A k \in 1 .. 4 : /\ w[Behind(place[k], v[k])] = Space
                       /\ place[k + 1] = Behind(place[k], v[k]) + 1
  /\ Len(w) + 1 = Behind(place[5], v[5])

Readable(v) ==
  /\ \A k \in 1 .. 2 : IsNumber(v[k])
  /\ \A k \in 3 .. 5 : Plain(v[k])

Beginning(s, w) ==
  /\ s \in Text /\ Len(s) <= Len(w)
  /\ \A i \in 1 .. Len(s) : s[i] = w[i]

\* A list has the options from the k-th on, up to one that may be cut off; or
\* whole, every one of them.
ListUpTo(q, k, v, whole, m) ==
  /\ \/ Len(q) = m - k + 1
     \/ Len(q) = m - k + 2 /\ q[Len(q)][1] = "lost"
  /\ \A i \in 1 .. m - k + 1 :
       q[i][1] = Letter[k + i - 1] /\ IsPrefix(q[i][2], v[k + i - 1] \o <<Space>>)
  /\ whole => /\ m = 5 /\ Len(q) = m - k + 1
              /\ \A i \in 1 .. m - k + 1 : q[i][2] = v[k + i - 1]

ListOf(q, k, v, whole) == \E m \in k - 1 .. 5 : ListUpTo(q, k, v, whole, m)

LEMMA LetterIs ==
  /\ \A k \in 1 .. 5 : Letter[k] \in Fields /\ Letter[k] # "lost"
  /\ \A j, k \in 1 .. 5 : Letter[j] = Letter[k] => j = k
  /\ \A k \in 1 .. 2 : Letter[k] \in {"n", "d"}
  /\ \A k \in 3 .. 5 : Letter[k] \in {"p", "m", "u"}
  /\ \A o \in Fields : \E k \in 1 .. 5 : Letter[k] = o
<1>1. /\ Letter[1] = "n" /\ Letter[2] = "d" /\ Letter[3] = "p"
      /\ Letter[4] = "m" /\ Letter[5] = "u"
  BY DEF Letter
<1>2. \A k \in 1 .. 5 : k = 1 \/ k = 2 \/ k = 3 \/ k = 4 \/ k = 5
  OBVIOUS
<1>3. \A k \in 1 .. 2 : k = 1 \/ k = 2
  OBVIOUS
<1>4. \A k \in 3 .. 5 : k = 3 \/ k = 4 \/ k = 5
  OBVIOUS
<1>5. \A k \in 1 .. 5 : Letter[k] \in Fields /\ Letter[k] # "lost"
  BY <1>1, <1>2 DEF Fields
<1>6. \A j, k \in 1 .. 5 : Letter[j] = Letter[k] => j = k
  BY <1>1, <1>2
<1>7. 1 \in 1 .. 5 /\ 2 \in 1 .. 5 /\ 3 \in 1 .. 5 /\ 4 \in 1 .. 5 /\ 5 \in 1 .. 5
  OBVIOUS
<1>8. \A o \in Fields : \E k \in 1 .. 5 : Letter[k] = o
  BY <1>1, <1>7, Zenon DEF Fields
<1> QED BY <1>1, <1>3, <1>4, <1>5, <1>6, <1>8

LEMMA ListEmpty ==
  ASSUME NEW k \in 1 .. 6, NEW v, NEW whole \in BOOLEAN, k = 6 \/ ~whole
  PROVE  ListOf(<<>>, k, v, whole)
<1>1. /\ k - 1 \in k - 1 .. 5 /\ (k - 1) - k + 1 = 0 /\ Len(<<>>) = 0
      /\ \A i \in 1 .. (k - 1) - k + 1 : FALSE
  OBVIOUS
<1>2. whole => k - 1 = 5
  OBVIOUS
<1> QED BY <1>1, <1>2, Zenon DEF ListOf, ListUpTo

LEMMA ListLost ==
  ASSUME NEW k \in 1 .. 6, NEW v
  PROVE  ListOf(<< <<"lost", <<>> >> >>, k, v, FALSE)
<1> DEFINE q == << <<"lost", <<>> >> >>
<1>1. Len(q) = 1 /\ q[1][1] = "lost"
  OBVIOUS
<1> HIDE DEF q
<1>2. /\ k - 1 \in k - 1 .. 5 /\ (k - 1) - k + 2 = 1
      /\ \A i \in 1 .. (k - 1) - k + 1 : FALSE
  OBVIOUS
<1>3. ListOf(q, k, v, FALSE)
  BY <1>1, <1>2, Zenon DEF ListOf, ListUpTo
<1> QED BY <1>3 DEF q

LEMMA ListAdd ==
  ASSUME NEW k \in 1 .. 5, NEW v, NEW whole \in BOOLEAN, NEW q \in Seq(Found),
         ListOf(q, k + 1, v, whole),
         NEW x \in Text, IsPrefix(x, v[k] \o <<Space>>), whole => x = v[k]
  PROVE  ListOf(<< <<Letter[k], x>> >> \o q, k, v, whole)
<1> DEFINE pair == <<Letter[k], x>>
           r == <<pair>> \o q
<1>1. PICK m \in (k + 1) - 1 .. 5 : ListUpTo(q, k + 1, v, whole, m)
  BY DEF ListOf
<1>2. pair \in Found
  BY LetterIs DEF Found
<1>3. pair[1] = Letter[k] /\ pair[2] = x
  OBVIOUS
<1> HIDE DEF pair
<1>4. /\ Len(q) \in Nat /\ Len(r) = Len(q) + 1 /\ r[1] = pair
      /\ \A i \in 1 .. Len(q) : r[i + 1] = q[i]
  BY <1>2
<1> HIDE DEF r
<1>5. m \in k - 1 .. 5 /\ m - (k + 1) + 1 = m - k /\ m - (k + 1) + 2 = m - k + 1
      /\ m \in k .. 5
  OBVIOUS
<1>6. Len(q) = m - k \/ (Len(q) = m - k + 1 /\ q[Len(q)][1] = "lost")
  BY <1>1, <1>5 DEF ListUpTo
<1>7. \A i \in 1 .. m - k :
        /\ q[i][1] = Letter[(k + 1) + i - 1]
        /\ IsPrefix(q[i][2], v[(k + 1) + i - 1] \o <<Space>>)
        /\ whole => q[i][2] = v[(k + 1) + i - 1]
  BY <1>1, <1>5, Zenon DEF ListUpTo
<1>8. Len(r) = m - k + 1 \/ (Len(r) = m - k + 2 /\ r[Len(r)][1] = "lost")
  <2>1. CASE Len(q) = m - k
    BY <1>4, <2>1
  <2>2. CASE Len(q) = m - k + 1 /\ q[Len(q)][1] = "lost"
    <3>1. Len(q) \in 1 .. Len(q) /\ Len(r) = m - k + 2
      BY <1>4, <1>5, <2>2
    <3>2. r[Len(q) + 1] = q[Len(q)]
      BY <1>4, <3>1
    <3> QED BY <1>4, <2>2, <3>1, <3>2
  <2> QED BY <1>6, <2>1, <2>2
<1>9. ASSUME NEW i \in 1 .. m - k + 1
      PROVE  /\ r[i][1] = Letter[k + i - 1]
             /\ IsPrefix(r[i][2], v[k + i - 1] \o <<Space>>)
             /\ whole => r[i][2] = v[k + i - 1]
  <2>1. CASE i = 1
    <3>1. k + i - 1 = k
      BY <2>1
    <3> QED BY <1>3, <1>4, <2>1, <3>1
  <2>2. CASE i # 1
    <3> DEFINE j == i - 1
    <3>1. /\ j \in 1 .. m - k /\ j \in 1 .. Len(q) /\ j + 1 = i
          /\ (k + 1) + j - 1 = k + i - 1
      BY <1>4, <1>5, <1>6, <2>2, SMTT(30)
    <3> HIDE DEF j
    <3>2. r[i] = q[j]
      BY <1>4, <3>1
    <3> QED BY <1>7, <3>1, <3>2
  <2> QED BY <2>1, <2>2
<1>10. whole => m = 5 /\ Len(r) = m - k + 1
  BY <1>1, <1>4, <1>5 DEF ListUpTo
<1>11. ListUpTo(r, k, v, whole, m)
  BY <1>8, <1>9, <1>10, Zenon DEF ListUpTo
<1> QED BY <1>5, <1>11 DEF ListOf, r, pair


-----------------------------------------------------------------------------
(* The options, read one after the other.                                  *)

\* Where the loop is when it comes to the k-th option.
Start(k, v, place) == IF k = 1 THEN 1 ELSE Behind(place[k - 1], v[k - 1])

\* Before the dash there is the space of the last option only.
Blank(w, i, p) == \A j \in i .. p - 1 : w[j] = Space

LEMMA PlacesAre ==
  ASSUME NEW w, NEW v, NEW place, Written(w, v, place)
  PROVE  /\ Start(1, v, place) = 1 /\ Start(6, v, place) = Len(w) + 1
         /\ \A k \in 1 .. 5 :
              /\ Start(k, v, place) \in Nat \ {0} /\ place[k] \in Nat
              /\ Start(k + 1, v, place) = Behind(place[k], v[k])
              /\ Start(k, v, place) <= place[k]
              /\ place[k] <= Start(k, v, place) + 1
              /\ place[k] + 3 <= Behind(place[k], v[k])
              /\ Behind(place[k], v[k]) <= Len(w) + 1
              /\ k < 5 => Behind(place[k], v[k]) < Len(w)
              /\ Blank(w, Start(k, v, place), place[k])
<1>1. /\ Len(w) \in Nat
      /\ \A k \in 1 .. 5 : /\ place[k] \in Nat /\ Len(v[k]) \in Nat
                           /\ Behind(place[k], v[k]) = place[k] + 3 + Len(v[k])
  <2>1. w \in Text /\ \A k \in 1 .. 5 : v[k] \in Text /\ place[k] \in Nat
    BY DEF Written
  <2> QED BY <2>1, LenIs DEF Behind
<1>2. /\ place[1] = 1 /\ Len(w) + 1 = Behind(place[5], v[5])
      /\ \A k \in 1 .. 4 : /\ w[Behind(place[k], v[k])] = Space
                           /\ place[k + 1] = Behind(place[k], v[k]) + 1
  BY DEF Written
<1> DEFINE e1 == Behind(place[1], v[1])
           e2 == Behind(place[2], v[2])
           e3 == Behind(place[3], v[3])
           e4 == Behind(place[4], v[4])
           e5 == Behind(place[5], v[5])
<1>3. /\ place[1] = 1 /\ place[2] = e1 + 1 /\ place[3] = e2 + 1
      /\ place[4] = e3 + 1 /\ place[5] = e4 + 1 /\ Len(w) + 1 = e5
      /\ w[e1] = Space /\ w[e2] = Space /\ w[e3] = Space /\ w[e4] = Space
  BY <1>2
<1>4. \A k \in 1 .. 5 : /\ Behind(place[k], v[k]) \in Nat
                        /\ place[k] + 3 <= Behind(place[k], v[k])
  <2>1. \A x, y \in Nat : x + 3 + y \in Nat /\ x + 3 <= x + 3 + y
    OBVIOUS
  <2> QED BY <1>1, <2>1, Zenon
<1>5. /\ e1 \in Nat /\ e2 \in Nat /\ e3 \in Nat /\ e4 \in Nat /\ e5 \in Nat
      /\ 1 + 3 <= e1 /\ e1 + 1 + 3 <= e2 /\ e2 + 1 + 3 <= e3
      /\ e3 + 1 + 3 <= e4 /\ e4 + 1 + 3 <= e5
  <2>1. 1 \in 1 .. 5 /\ 2 \in 1 .. 5 /\ 3 \in 1 .. 5 /\ 4 \in 1 .. 5 /\ 5 \in 1 .. 5
    OBVIOUS
  <2>2. /\ e1 \in Nat /\ e2 \in Nat /\ e3 \in Nat /\ e4 \in Nat /\ e5 \in Nat
        /\ place[1] + 3 <= e1 /\ place[2] + 3 <= e2 /\ place[3] + 3 <= e3
        /\ place[4] + 3 <= e4 /\ place[5] + 3 <= e5
    BY <1>4, <2>1, Zenon
  <2> HIDE DEF e1, e2, e3, e4, e5
  <2> QED BY <1>3, <2>2, Zenon
<1>6. /\ Start(1, v, place) = 1 /\ Start(2, v, place) = e1
      /\ Start(3, v, place) = e2 /\ Start(4, v, place) = e3
      /\ Start(5, v, place) = e4 /\ Start(6, v, place) = e5
  BY DEF Start
<1>7. /\ Behind(place[1], v[1]) = e1 /\ Behind(place[2], v[2]) = e2
      /\ Behind(place[3], v[3]) = e3 /\ Behind(place[4], v[4]) = e4
      /\ Behind(place[5], v[5]) = e5
  OBVIOUS
<1> HIDE DEF e1, e2, e3, e4, e5
<1> DEFINE Right(k, i, q, e) ==
             /\ i \in Nat \ {0} /\ q \in Nat /\ i <= q /\ q <= i + 1
             /\ e <= Len(w) + 1
             /\ k < 5 => e < Len(w)
             /\ Blank(w, i, q)
<1>8. /\ Right(1, 1, 1, e1) /\ Right(2, e1, e1 + 1, e2)
      /\ Right(3, e2, e2 + 1, e3) /\ Right(4, e3, e3 + 1, e4)
      /\ Right(5, e4, e4 + 1, e5)
  <2>1. \A i \in Nat : \A j \in i .. (i + 1) - 1 : j = i
    OBVIOUS
  <2>2. \A j \in 1 .. 1 - 1 : FALSE
    OBVIOUS
  <2>3. Len(w) = e5 - 1
    BY <1>1, <1>3, <1>5
  <2>4. Right(1, 1, 1, e1)
    BY <1>5, <2>2, <2>3 DEF Blank
  <2>5. Right(2, e1, e1 + 1, e2)
    BY <1>3, <1>5, <2>1, <2>3 DEF Blank
  <2>6. Right(3, e2, e2 + 1, e3)
    BY <1>3, <1>5, <2>1, <2>3 DEF Blank
  <2>7. Right(4, e3, e3 + 1, e4)
    BY <1>3, <1>5, <2>1, <2>3 DEF Blank
  <2>8. Right(5, e4, e4 + 1, e5)
    BY <1>3, <1>5, <2>1, <2>3 DEF Blank
  <2> QED BY <2>4, <2>5, <2>6, <2>7, <2>8
<1> HIDE DEF Right
<1>9. ASSUME NEW k \in 1 .. 5
      PROVE  /\ Right(k, Start(k, v, place), place[k], Behind(place[k], v[k]))
             /\ Start(k + 1, v, place) = Behind(place[k], v[k])
  <2>1. CASE k = 1
    <3>1. k + 1 = 2
      BY <2>1
    <3> QED BY <1>3, <1>6, <1>7, <1>8, <2>1, <3>1, Zenon
  <2>2. CASE k = 2
    <3>1. k + 1 = 3
      BY <2>2
    <3> QED BY <1>3, <1>6, <1>7, <1>8, <2>2, <3>1, Zenon
  <2>3. CASE k = 3
    <3>1. k + 1 = 4
      BY <2>3
    <3> QED BY <1>3, <1>6, <1>7, <1>8, <2>3, <3>1, Zenon
  <2>4. CASE k = 4
    <3>1. k + 1 = 5
      BY <2>4
    <3> QED BY <1>3, <1>6, <1>7, <1>8, <2>4, <3>1, Zenon
  <2>5. CASE k = 5
    <3>1. k + 1 = 6
      BY <2>5
    <3> QED BY <1>3, <1>6, <1>7, <1>8, <2>5, <3>1, Zenon
  <2> QED BY <2>1, <2>2, <2>3, <2>4, <2>5
<1>10. Start(1, v, place) = 1 /\ Start(6, v, place) = Len(w) + 1
  BY <1>3, <1>6
<1> QED BY <1>4, <1>9, <1>10, Zenon DEF Right

\* The next dash is that of the option, if the string goes so far.
LEMMA NextDash ==
  ASSUME NEW w, NEW v, NEW place, Written(w, v, place), NEW s, Beginning(s, w),
         NEW k \in 1 .. 5, Start(k, v, place) <= Len(s) + 1
  PROVE  Dash(s, Start(k, v, place)) =
           IF place[k] <= Len(s) THEN place[k] ELSE Len(s) + 1
<1> DEFINE i == Start(k, v, place)
           d == Dash(s, i)
<1>1. /\ s \in Text /\ Len(s) \in Nat
      /\ \A j \in 1 .. Len(s) : s[j] = w[j]
  BY LenIs DEF Beginning
<1>2. /\ i \in Nat \ {0} /\ place[k] \in Nat /\ i <= place[k]
      /\ \A j \in i .. place[k] - 1 : w[j] = Space
  <2> HIDE DEF i
  <2>1. \A x \in 1 .. 5 :
          /\ Start(x, v, place) \in Nat \ {0} /\ place[x] \in Nat
          /\ Start(x, v, place) <= place[x]
          /\ \A j \in Start(x, v, place) .. place[x] - 1 : w[j] = Space
    <3> TAKE x \in 1 .. 5
    <3>1. /\ Start(x, v, place) \in Nat \ {0} /\ place[x] \in Nat
          /\ Start(x, v, place) <= place[x]
      BY PlacesAre
    <3>2. Blank(w, Start(x, v, place), place[x])
      BY PlacesAre
    <3> QED BY <3>1, <3>2, Zenon DEF Blank
  <2> QED BY <2>1, Zenon DEF i
<1>3. w[place[k]] = "-"
  BY DEF Written
<1> HIDE DEF i
<1>4. i \in 1 .. Len(s) + 1
  BY <1>1, <1>2 DEF i
<1>5. /\ d \in i .. Len(s) + 1
      /\ d = Len(s) + 1 \/ s[d] = "-"
      /\ \A j \in i .. d - 1 : s[j] # "-"
  BY <1>1, <1>4, DashIs
<1> HIDE DEF d
<1>6. ~(place[k] < d)
  <2> SUFFICES ASSUME place[k] < d PROVE FALSE
    OBVIOUS
  <2>1. place[k] \in i .. d - 1 /\ place[k] \in 1 .. Len(s)
    BY <1>1, <1>2, <1>4, <1>5
  <2> QED BY <1>1, <1>3, <1>5, <2>1
<1>7. d < place[k] => d = Len(s) + 1
  <2> SUFFICES ASSUME d < place[k], d # Len(s) + 1 PROVE FALSE
    OBVIOUS
  <2>1. d \in i .. place[k] - 1 /\ d \in 1 .. Len(s)
    BY <1>1, <1>2, <1>4, <1>5
  <2>2. s[d] = Space /\ s[d] = "-"
    BY <1>1, <1>2, <1>5, <2>1
  <2> QED BY <2>2, SpaceIs
<1> QED BY <1>1, <1>2, <1>4, <1>5, <1>6, <1>7 DEF d, i

LEMMA ShowsOption ==
  ASSUME NEW w, NEW v, NEW place, Written(w, v, place), NEW s, Beginning(s, w),
         NEW k \in 1 .. 5, place[k] < Len(s)
  PROVE  Shows(s, place[k], Letter[k], v[k])
<1> DEFINE p == place[k]
           e == Behind(p, v[k])
<1>1. /\ s \in Text /\ Len(s) \in Nat /\ Len(w) \in Nat /\ Len(s) <= Len(w)
      /\ \A j \in 1 .. Len(s) : s[j] = w[j]
  BY LenIs DEF Beginning, Written
<1>2. /\ p \in Nat \ {0} /\ e \in Nat /\ p + 3 <= e /\ Len(v[k]) \in Nat
      /\ e = p + 3 + Len(v[k])
  <2>1. Start(k, v, place) \in Nat \ {0} /\ Start(k, v, place) <= p /\ p \in Nat
    BY PlacesAre
  <2>2. v[k] \in Text
    BY DEF Written
  <2> QED BY <2>1, <2>2, LenIs DEF Behind
<1>3. /\ w[p + 1] = Letter[k] /\ w[p + 2] = Space
      /\ \A i \in 1 .. Len(v[k]) : w[p + 2 + i] = v[k][i]
  BY DEF Written
<1>4. /\ e <= Len(s) => w[e] = Space
      /\ e + 1 <= Len(s) => w[e + 1] = "-"
  <2>1. CASE k = 5
    <3>1. Len(w) + 1 = e
      BY <2>1 DEF Written
    <3> QED BY <1>1, <1>2, <3>1
  <2>2. CASE k \in 1 .. 4
    <3>1. w[e] = Space /\ place[k + 1] = e + 1
      BY <2>2, Zenon DEF Written
    <3>2. k + 1 \in 1 .. 5
      BY <2>2
    <3>3. w[place[k + 1]] = "-"
      BY <3>2, Zenon DEF Written
    <3> QED BY <3>1, <3>3
  <2> QED BY <2>1, <2>2
<1>7. p < Len(s)
  OBVIOUS
<1> HIDE DEF e, p
<1>5. p \in 1 .. Len(s) - 1 /\ p + 1 \in 1 .. Len(s)
  BY <1>1, <1>2, <1>7
<1>6. /\ p + 2 <= Len(s) => p + 2 \in 1 .. Len(s)
      /\ \A i \in 1 .. Len(v[k]) : p + 2 + i <= Len(s) => p + 2 + i \in 1 .. Len(s)
      /\ e <= Len(s) => e \in 1 .. Len(s)
      /\ e + 1 <= Len(s) => e + 1 \in 1 .. Len(s)
  <2> DEFINE l == Len(s)
             h == Len(v[k])
  <2>1. l \in Nat /\ h \in Nat /\ p \in Nat \ {0} /\ e \in Nat /\ p + 3 <= e
    BY <1>1, <1>2
  <2> HIDE DEF l, h
  <2>2. /\ p + 2 <= l => p + 2 \in 1 .. l
        /\ \A i \in 1 .. h : p + 2 + i <= l => p + 2 + i \in 1 .. l
        /\ e <= l => e \in 1 .. l
        /\ e + 1 <= l => e + 1 \in 1 .. l
    BY <2>1
  <2> QED BY <2>2 DEF l, h
<1> QED BY <1>1, <1>3, <1>4, <1>5, <1>6, Zenon DEF Shows, e, p

\* From the k-th option on: what the loop finds, if it finds as much from the
\* next one on.
LEMMA OptionStep ==
  ASSUME NEW w, NEW v, NEW place, Written(w, v, place), Readable(v),
         NEW s, Beginning(s, w), NEW whole \in BOOLEAN, whole <=> Len(s) = Len(w),
         NEW f \in [1 .. Len(s) + 1 -> Seq(Found)],
         \A i \in 1 .. Len(s) + 1 : f[i] = Loop(s, i, f),
         NEW k \in 1 .. 5,
         Start(k, v, place) <= Len(s) + 1,
         Start(k + 1, v, place) <= Len(s) + 1
           => ListOf(f[Start(k + 1, v, place)], k + 1, v, whole)
  PROVE  ListOf(f[Start(k, v, place)], k, v, whole)
<1> DEFINE i == Start(k, v, place)
           p == place[k]
           e == Behind(p, v[k])
           n == Len(s)
           x == Value(s, p)
           to == ValueEnd(s, p)
           d == Dash(s, i)
<1>1. /\ s \in Text /\ w \in Text /\ n \in Nat /\ Len(w) \in Nat /\ n <= Len(w)
      /\ v[k] \in Text
  BY LenIs DEF Beginning, Written
<1>2. /\ i \in Nat \ {0} /\ p \in Nat /\ i <= p /\ p <= i + 1
      /\ Start(k + 1, v, place) = e
  <2>1. /\ Start(k, v, place) \in Nat \ {0} /\ place[k] \in Nat
        /\ Start(k, v, place) <= place[k] /\ place[k] <= Start(k, v, place) + 1
    BY PlacesAre
  <2>2. Start(k + 1, v, place) = Behind(place[k], v[k])
    <3>1. k + 1 # 1 /\ (k + 1) - 1 = k
      OBVIOUS
    <3> QED BY <3>1, Zenon DEF Start
  <2> QED BY <2>1, <2>2
<1>3. e \in Nat /\ p + 3 <= e /\ e <= Len(w) + 1 /\ (k < 5 => e < Len(w))
  <2>1. p + 3 <= e /\ e <= Len(w) + 1 /\ (k < 5 => e < Len(w))
    BY PlacesAre
  <2>2. e \in Nat
    BY <1>1, <1>2, LenIs, SMTT(30) DEF Behind
  <2> QED BY <2>1, <2>2
<1>4. d = IF p <= n THEN p ELSE n + 1
  BY NextDash
<1>5. f[i] = Loop(s, i, f)
  BY <1>1, <1>2
<1>6. k + 1 \in 1 .. 6 /\ k \in 1 .. 6
  OBVIOUS
\* From the end of the string on, nothing is found.
<1>7. f[n + 1] = <<>>
  <2>1. n + 1 \in 1 .. Len(s) + 1
    BY <1>1
  <2>2. Dash(s, n + 1) = Len(s) + 1
    BY <1>1, <2>1, DashIs, SMTT(30)
  <2> QED BY <2>1, <2>2 DEF Loop
<1>8. ~whole => ListOf(<<>>, k, v, whole) /\ ListOf(<<>>, k + 1, v, whole)
  BY <1>6, ListEmpty
<1>9. ~whole => /\ ListOf(<< <<"lost", <<>> >> >>, k, v, whole)
                /\ ListOf(<< <<"lost", <<>> >> >>, k + 1, v, whole)
  <2> SUFFICES ASSUME ~whole
               PROVE  /\ ListOf(<< <<"lost", <<>> >> >>, k, v, FALSE)
                      /\ ListOf(<< <<"lost", <<>> >> >>, k + 1, v, FALSE)
    BY Zenon
  <2> QED BY <1>6, ListLost
<1> HIDE DEF i, e, n, d
<1>10. CASE p > n
  <2>1. d = n + 1 /\ ~whole
    BY <1>1, <1>2, <1>3, <1>4, <1>10 DEF n
  <2>2. f[i] = <<>>
    BY <1>5, <2>1 DEF Loop, d, n
  <2> QED BY <1>8, <2>1, <2>2 DEF i
<1>11. CASE p = n
  <2>1. d = n /\ d # n + 1 /\ ~whole
    BY <1>1, <1>2, <1>3, <1>4, <1>11 DEF n
  <2>2. f[i] = << <<"lost", <<>> >> >>
    BY <1>5, <2>1 DEF Loop, d, n
  <2> QED BY <1>9, <2>1, <2>2 DEF i
<1>12. CASE p < n
  <2>1. d = p /\ d # n /\ d # n + 1 /\ p \in 1 .. Len(s) - 1
    BY <1>1, <1>2, <1>4, <1>12 DEF n
  <2>2. Shows(s, p, Letter[k], v[k])
    BY <1>12, ShowsOption DEF n
  <2>3. s[p + 1] = Letter[k] /\ Letter[k] \in Fields
    BY <2>2, LetterIs DEF Shows
  <2>4. x \in Text /\ to \in p + 2 .. Len(s) + 1
    BY <1>1, <2>1, ReadIs
  <2>5. f[i] = << <<Letter[k], x>> >> \o f[to]
    BY <1>5, <2>1, <2>3 DEF Loop, d, n
  <2>6. /\ IsPrefix(x, v[k] \o <<Space>>)
        /\ whole => x = v[k]
        /\ ListOf(f[to], k + 1, v, whole)
    <3>1. e <= n + 1 => ListOf(f[e], k + 1, v, whole)
      BY <1>2 DEF n
    <3>2. CASE k \in 1 .. 2
      <4>1. Letter[k] \in {"n", "d"} /\ IsNumber(v[k])
        BY <3>2, LetterIs DEF Readable
      <4>2. /\ n >= e => to = e /\ x = v[k]
            /\ n < e => to = n + 1 \/ (to = p + 2 /\ n <= p + 3)
            /\ IsPrefix(x, v[k] \o <<Space>>)
        <5>1. p \in Nat
          BY <1>2
        <5> HIDE DEF p, x, to
        <5> QED BY <1>1, <2>2, <4>1, <5>1, NumberField DEF n, e, x, to
      <4>3. whole => n >= e
        BY <1>1, <1>3, <3>2 DEF n
      <4>4. CASE n >= e
        BY <1>1, <1>3, <3>1, <4>2, <4>4
      <4>5. CASE n < e /\ to = n + 1
        <5>1. ~whole
          BY <1>1, <1>3, <4>3, <4>5
        <5> QED BY <1>7, <1>8, <4>2, <4>5, <5>1
      <4>6. CASE n < e /\ to = p + 2 /\ n <= p + 3
        <5>1. ~whole
          BY <1>1, <1>3, <4>3, <4>6
        <5>2. to \in 1 .. Len(s) + 1
          BY <1>1, <1>2, <2>4
        <5>3. Dash(s, to) \in to .. n + 1
          BY <1>1, <5>2, DashIs DEF n
        <5>4. Dash(s, to) = n \/ Dash(s, to) = n + 1
          <6>1. Dash(s, to) = p + 2 => p + 2 = n + 1
            <7> SUFFICES ASSUME Dash(s, to) = p + 2, p + 2 # n + 1 PROVE FALSE
              OBVIOUS
            <7>1. s[p + 2] = "-"
              BY <1>1, <5>2, DashIs DEF n
            <7>2. p + 2 <= Len(s)
              BY <1>1, <1>2, <4>6, <5>2, SMTT(30) DEF n
            <7> QED BY <2>2, <7>1, <7>2, SpaceIs DEF Shows
          <6> DEFINE y == Dash(s, to)
          <6>2. y \in to .. n + 1 /\ (y = p + 2 => p + 2 = n + 1)
            BY <5>3, <6>1
          <6>3. to = p + 2 /\ n <= p + 3 /\ p < n /\ p \in Nat /\ n \in Nat
            BY <1>1, <1>2, <1>12, <4>6
          <6> HIDE DEF y, p, to
          <6> QED BY <6>2, <6>3 DEF y
        <5>5. f[to] = <<>> \/ f[to] = << <<"lost", <<>> >> >>
          <6>1. f[to] = Loop(s, to, f)
            BY <5>2
          <6>2. CASE Dash(s, to) = n + 1
            BY <6>1, <6>2 DEF Loop, n
          <6>3. CASE Dash(s, to) = n
            <7>1. Dash(s, to) # Len(s) + 1
              BY <1>1, <6>3 DEF n
            <7> QED BY <6>1, <6>3, <7>1 DEF Loop, n
          <6> QED BY <5>4, <6>2, <6>3
        <5> QED BY <1>8, <1>9, <4>2, <5>1, <5>5
      <4> QED BY <1>1, <1>3, <4>2, <4>4, <4>5, <4>6
    <3>3. CASE k \in 3 .. 5
      <4>1. Letter[k] \in {"p", "m", "u"} /\ Plain(v[k])
        BY <3>3, LetterIs DEF Readable
      <4>2. /\ to = IF n > e THEN e ELSE n + 1
            /\ n > e => x = v[k]
            /\ n + 1 = e => x = v[k]
            /\ IsPrefix(x, v[k] \o <<Space>>)
        <5>1. p \in Nat
          BY <1>2
        <5> HIDE DEF p, x, to
        <5> QED BY <1>1, <2>2, <4>1, <5>1, TextField DEF n, e, x, to
      <4>3. whole => n > e \/ n + 1 = e
        <5>1. k = 5 => Len(w) + 1 = e
          BY DEF Written, e
        <5> QED BY <1>1, <1>3, <3>3, <5>1 DEF n
      <4>4. CASE n > e
        BY <1>1, <1>3, <3>1, <4>2, <4>4
      <4>5. CASE n + 1 = e
        BY <1>1, <1>3, <3>1, <4>2, <4>5
      <4>6. CASE ~(n > e) /\ n + 1 # e
        <5>1. to = n + 1 /\ ~whole
          BY <4>2, <4>3, <4>6
        <5> QED BY <1>7, <1>8, <4>2, <5>1
      <4> QED BY <4>4, <4>5, <4>6
    <3> QED BY <3>2, <3>3
  <2>7. f[to] \in Seq(Found)
    BY <1>1, <1>2, <2>4
  <2> HIDE DEF x, to
  <2>8. ListOf(<< <<Letter[k], x>> >> \o f[to], k, v, whole)
    BY <2>4, <2>6, <2>7, ListAdd
  <2> QED BY <2>5, <2>8 DEF i
<1>13. p > n \/ p = n \/ p < n
  BY <1>1, <1>2
<1> QED BY <1>10, <1>11, <1>12, <1>13

LEMMA OptionsRead ==
  ASSUME NEW w, NEW v, NEW place, Written(w, v, place), Readable(v),
         NEW s, Beginning(s, w), NEW whole \in BOOLEAN, whole <=> Len(s) = Len(w)
  PROVE  ListOf(Pairs(s), 1, v, whole)
<1>1. /\ s \in Text /\ w \in Text /\ Len(s) \in Nat /\ Len(w) \in Nat
      /\ Len(s) <= Len(w)
  BY LenIs DEF Beginning, Written
<1>2. PICK f \in [1 .. Len(s) + 1 -> Seq(Found)] :
        /\ Pairs(s) = f[1]
        /\ \A i \in 1 .. Len(s) + 1 : f[i] = Loop(s, i, f)
  BY <1>1, PairsIs
<1> DEFINE Good(k) == Start(k, v, place) <= Len(s) + 1
                        => ListOf(f[Start(k, v, place)], k, v, whole)
<1>3. Good(6)
  <2> SUFFICES ASSUME Start(6, v, place) <= Len(s) + 1
               PROVE  ListOf(f[Start(6, v, place)], 6, v, whole)
    OBVIOUS
  <2>1. Start(6, v, place) = Len(s) + 1
    <3>1. Start(6, v, place) = Len(w) + 1
      BY PlacesAre, Zenon
    <3> QED BY <1>1, <3>1
  <2>2. Len(s) + 1 \in 1 .. Len(s) + 1
    BY <1>1
  <2>3. Dash(s, Len(s) + 1) = Len(s) + 1
    BY <1>1, <2>2, DashIs, SMTT(30)
  <2>4. f[Len(s) + 1] = <<>>
    BY <1>2, <2>2, <2>3 DEF Loop
  <2>5. ListOf(<<>>, 6, v, whole)
    BY ListEmpty
  <2> QED BY <2>1, <2>4, <2>5
<1>4. ASSUME NEW k \in 1 .. 5, Good(k + 1)
      PROVE  Good(k)
  BY <1>2, <1>4, OptionStep, ZenonT(40)
<1> HIDE DEF Good
<1>5. Good(5)
  BY <1>3, <1>4
<1>6. Good(4)
  BY <1>4, <1>5
<1>7. Good(3)
  BY <1>4, <1>6
<1>8. Good(2)
  BY <1>4, <1>7
<1>9. Good(1)
  BY <1>4, <1>8
<1>10. Start(1, v, place) = 1 /\ 1 <= Len(s) + 1
  BY <1>1 DEF Start
<1> QED BY <1>2, <1>9, <1>10 DEF Good

-----------------------------------------------------------------------------
(* The string that main prints.                                            *)

Added(h, c, x) == h \o <<Space, "-", c, Space>> \o x

Holds(h, p, c, x) ==
  /\ p \in Nat \ {0} /\ p + 2 + Len(x) <= Len(h)
  /\ h[p] = "-" /\ h[p + 1] = c /\ h[p + 2] = Space
  /\ \A i \in 1 .. Len(x) : h[p + 2 + i] = x[i]

Extends(r, h, c, x) ==
  /\ r \in Text /\ Len(r) = Len(h) + 4 + Len(x)
  /\ \A i \in 1 .. Len(h) : r[i] = h[i]
  /\ r[Len(h) + 1] = Space
  /\ Holds(r, Len(h) + 2, c, x)

LEMMA AddedIs ==
  ASSUME NEW h \in Text, NEW c \in Char, NEW x \in Text
  PROVE  Extends(Added(h, c, x), h, c, x)
<1> DEFINE t == <<Space, "-", c, Space>>
           g == h \o t
           r == g \o x
<1>1. /\ t \in Text /\ Len(t) = 4
      /\ t[1] = Space /\ t[2] = "-" /\ t[3] = c /\ t[4] = Space
  <2>1. Space \in Char /\ "-" \in Char
    BY CharsAre
  <2> QED BY <2>1 DEF Text
<1> HIDE DEF t
<1>2. /\ g \in Text /\ Len(g) = Len(h) + 4 /\ Len(h) \in Nat /\ Len(x) \in Nat
      /\ \A i \in 1 .. Len(h) : g[i] = h[i]
      /\ g[Len(h) + 1] = Space /\ g[Len(h) + 2] = "-" /\ g[Len(h) + 3] = c
      /\ g[Len(h) + 4] = Space
  <2>1. 1 \in 1 .. Len(t) /\ 2 \in 1 .. Len(t) /\ 3 \in 1 .. Len(t) /\ 4 \in 1 .. Len(t)
    BY <1>1
  <2>2. /\ g \in Text /\ Len(g) = Len(h) + Len(t)
        /\ \A i \in 1 .. Len(h) : g[i] = h[i]
        /\ \A i \in 1 .. Len(t) : g[Len(h) + i] = t[i]
    BY <1>1, JoinIs, ZenonT(40)
  <2> HIDE DEF g
  <2> QED BY <1>1, <2>1, <2>2, LenIs
<1> HIDE DEF g
<1>3. /\ r \in Text /\ Len(r) = Len(g) + Len(x)
      /\ \A i \in 1 .. Len(g) : r[i] = g[i]
      /\ \A i \in 1 .. Len(x) : r[Len(g) + i] = x[i]
  BY <1>2, JoinIs
<1> HIDE DEF r
<1> DEFINE n == Len(h)
<1>4. /\ n \in Nat /\ Len(g) = n + 4 /\ (n + 2) + 2 = n + 4 /\ (n + 2) + 1 = n + 3
      /\ \A i \in 1 .. n : i \in 1 .. Len(g)
      /\ n + 1 \in 1 .. Len(g) /\ n + 2 \in 1 .. Len(g) /\ n + 3 \in 1 .. Len(g)
      /\ n + 4 \in 1 .. Len(g) /\ n + 2 \in Nat \ {0}
      /\ (n + 2) + 2 + Len(x) <= n + 4 + Len(x)
  BY <1>2
<1> HIDE DEF n
<1>5. \A i \in 1 .. n : r[i] = h[i]
  BY <1>2, <1>3, <1>4 DEF n
<1>6. r[n + 1] = Space /\ r[n + 2] = "-" /\ r[n + 3] = c /\ r[n + 4] = Space
  BY <1>2, <1>3, <1>4 DEF n
<1>7. \A i \in 1 .. Len(x) : r[n + 4 + i] = x[i]
  BY <1>3, <1>4
<1>8. Len(r) = n + 4 + Len(x)
  BY <1>3, <1>4
<1>9. Holds(r, n + 2, c, x)
  BY <1>4, <1>6, <1>7, <1>8, Zenon DEF Holds
<1>10. Extends(r, h, c, x)
  BY <1>3, <1>5, <1>6, <1>8, <1>9 DEF Extends, n
<1> QED BY <1>10 DEF Added, r, g, t

\* What is there stays there when another option is added.
LEMMA StillHolds ==
  ASSUME NEW h \in Text, NEW c \in Char, NEW x \in Text,
         NEW p, NEW d, NEW y \in Text, Holds(h, p, d, y)
  PROVE  Holds(Added(h, c, x), p, d, y)
<1> DEFINE r == Added(h, c, x)
           n == Len(h)
           l == Len(y)
<1>1. /\ Len(r) = n + 4 + Len(x) /\ \A i \in 1 .. n : r[i] = h[i]
      /\ n \in Nat /\ l \in Nat /\ Len(x) \in Nat
  <2>1. Extends(r, h, c, x)
    BY AddedIs
  <2> HIDE DEF r
  <2> QED BY <2>1, LenIs DEF Extends
<1>2. p \in Nat \ {0} /\ p + 2 + l <= n
  BY DEF Holds
<1> HIDE DEF r
<1>3. /\ p + 2 + l <= Len(r) /\ p \in 1 .. n /\ p + 1 \in 1 .. n /\ p + 2 \in 1 .. n
      /\ \A i \in 1 .. l : p + 2 + i \in 1 .. n
  <2> HIDE DEF n, l
  <2> QED BY <1>1, <1>2
<1>4. \A i \in 1 .. l : r[p + 2 + i] = y[i]
  BY <1>1, <1>3 DEF Holds
<1> HIDE DEF l
<1>5. p + 2 + Len(y) <= Len(r) /\ \A i \in 1 .. Len(y) : r[p + 2 + i] = y[i]
  BY <1>3, <1>4 DEF l
<1> QED BY <1>1, <1>3, <1>5, Zenon DEF Holds, r

\* The five options in order, the first without a space before it.
LEMMA WrittenIs ==
  ASSUME NEW v \in [1 .. 5 -> Text]
  PROVE  \E place :
           Written(Added(Added(Added(Added(<<"-", "n", Space>> \o v[1], "d", v[2]),
                     "p", v[3]), "m", v[4]), "u", v[5]), v, place)
<1> DEFINE h0 == <<"-", "n", Space>>
           h1 == h0 \o v[1]
           h2 == Added(h1, "d", v[2])
           h3 == Added(h2, "p", v[3])
           h4 == Added(h3, "m", v[4])
           h5 == Added(h4, "u", v[5])
           p2 == Len(h1) + 2
           p3 == Len(h2) + 2
           p4 == Len(h3) + 2
           p5 == Len(h4) + 2
           place == <<1, p2, p3, p4, p5>>
<1>1. /\ v[1] \in Text /\ v[2] \in Text /\ v[3] \in Text /\ v[4] \in Text
      /\ v[5] \in Text
  OBVIOUS
<1>2. /\ "d" \in Char /\ "p" \in Char /\ "m" \in Char /\ "u" \in Char
      /\ "n" \in Char /\ "-" \in Char /\ Space \in Char
  BY CharsAre
<1>3. /\ h1 \in Text /\ Len(h1) = 3 + Len(v[1]) /\ Holds(h1, 1, "n", v[1])
  <2>1. /\ h0 \in Text /\ Len(h0) = 3
        /\ h0[1] = "-" /\ h0[2] = "n" /\ h0[3] = Space
    BY <1>2 DEF Text
  <2>2. 1 \in 1 .. Len(h0) /\ 2 \in 1 .. Len(h0) /\ 3 \in 1 .. Len(h0)
    BY <2>1
  <2> HIDE DEF h0
  <2>3. /\ h1 \in Text /\ Len(h1) = Len(h0) + Len(v[1])
        /\ \A i \in 1 .. Len(h0) : h1[i] = h0[i]
        /\ \A i \in 1 .. Len(v[1]) : h1[Len(h0) + i] = v[1][i]
    BY <1>1, <2>1, JoinIs
  <2> HIDE DEF h1
  <2>4. Len(v[1]) \in Nat
    BY <1>1, LenIs
  <2>5. /\ 1 + 2 + Len(v[1]) <= Len(h1) /\ 1 + 1 = 2 /\ 1 + 2 = 3
        /\ \A i \in 1 .. Len(v[1]) : h1[1 + 2 + i] = v[1][i]
    BY <2>1, <2>3, <2>4
  <2>6. h1[1] = "-" /\ h1[1 + 1] = "n" /\ h1[1 + 2] = Space
    BY <2>1, <2>2, <2>3, <2>5
  <2> QED BY <2>1, <2>3, <2>5, <2>6 DEF Holds
<1> HIDE DEF h1
<1>4. /\ h2 \in Text /\ Len(h2) = Len(h1) + 4 + Len(v[2])
      /\ h2[Len(h1) + 1] = Space /\ Holds(h2, p2, "d", v[2])
      /\ Holds(h2, 1, "n", v[1])
  <2>1. /\ h2 \in Text /\ Len(h2) = Len(h1) + 4 + Len(v[2])
        /\ h2[Len(h1) + 1] = Space /\ Holds(h2, Len(h1) + 2, "d", v[2])
        /\ \A i \in 1 .. Len(h1) : h2[i] = h1[i]
    <3>1. Extends(h2, h1, "d", v[2])
      BY <1>1, <1>2, <1>3, AddedIs
    <3> HIDE DEF h2
    <3> QED BY <3>1 DEF Extends
  <2>2. Holds(h2, 1, "n", v[1])
    BY <1>1, <1>2, <1>3, StillHolds, Zenon
  <2> QED BY <2>1, <2>2, Zenon
<1> HIDE DEF h2, p2
<1>5. /\ h3 \in Text /\ Len(h3) = Len(h2) + 4 + Len(v[3])
      /\ h3[Len(h2) + 1] = Space /\ Holds(h3, p3, "p", v[3])
      /\ Holds(h3, 1, "n", v[1]) /\ Holds(h3, p2, "d", v[2])
      /\ \A i \in 1 .. Len(h2) : h3[i] = h2[i]
  <2>1. /\ h3 \in Text /\ Len(h3) = Len(h2) + 4 + Len(v[3])
        /\ h3[Len(h2) + 1] = Space /\ Holds(h3, Len(h2) + 2, "p", v[3])
        /\ \A i \in 1 .. Len(h2) : h3[i] = h2[i]
    <3>1. Extends(h3, h2, "p", v[3])
      BY <1>1, <1>2, <1>4, AddedIs
    <3> HIDE DEF h3
    <3> QED BY <3>1 DEF Extends
  <2>2. Holds(h3, 1, "n", v[1])
    BY <1>1, <1>2, <1>4, StillHolds, Zenon
  <2>3. Holds(h3, p2, "d", v[2])
    BY <1>1, <1>2, <1>4, StillHolds, Zenon
  <2> QED BY <2>1, <2>2, <2>3, Zenon
<1> HIDE DEF h3, p3
<1>6. /\ h4 \in Text /\ Len(h4) = Len(h3) + 4 + Len(v[4])
      /\ h4[Len(h3) + 1] = Space /\ Holds(h4, p4, "m", v[4])
      /\ Holds(h4, 1, "n", v[1]) /\ Holds(h4, p2, "d", v[2])
      /\ Holds(h4, p3, "p", v[3])
      /\ \A i \in 1 .. Len(h3) : h4[i] = h3[i]
  <2>1. /\ h4 \in Text /\ Len(h4) = Len(h3) + 4 + Len(v[4])
        /\ h4[Len(h3) + 1] = Space /\ Holds(h4, Len(h3) + 2, "m", v[4])
        /\ \A i \in 1 .. Len(h3) : h4[i] = h3[i]
    <3>1. Extends(h4, h3, "m", v[4])
      BY <1>1, <1>2, <1>5, AddedIs
    <3> HIDE DEF h4
    <3> QED BY <3>1 DEF Extends
  <2>2. Holds(h4, 1, "n", v[1])
    BY <1>1, <1>2, <1>5, StillHolds, Zenon
  <2>3. Holds(h4, p2, "d", v[2])
    BY <1>1, <1>2, <1>5, StillHolds, Zenon
  <2>4. Holds(h4, p3, "p", v[3])
    BY <1>1, <1>2, <1>5, StillHolds, Zenon
  <2> QED BY <2>1, <2>2, <2>3, <2>4, Zenon
<1> HIDE DEF h4, p4
<1>7. /\ h5 \in Text /\ Len(h5) = Len(h4) + 4 + Len(v[5])
      /\ h5[Len(h4) + 1] = Space /\ Holds(h5, p5, "u", v[5])
      /\ Holds(h5, 1, "n", v[1]) /\ Holds(h5, p2, "d", v[2])
      /\ Holds(h5, p3, "p", v[3]) /\ Holds(h5, p4, "m", v[4])
      /\ \A i \in 1 .. Len(h4) : h5[i] = h4[i]
  <2>1. /\ h5 \in Text /\ Len(h5) = Len(h4) + 4 + Len(v[5])
        /\ h5[Len(h4) + 1] = Space /\ Holds(h5, Len(h4) + 2, "u", v[5])
        /\ \A i \in 1 .. Len(h4) : h5[i] = h4[i]
    <3>1. Extends(h5, h4, "u", v[5])
      BY <1>1, <1>2, <1>6, AddedIs
    <3> HIDE DEF h5
    <3> QED BY <3>1 DEF Extends
  <2>2. Holds(h5, 1, "n", v[1])
    BY <1>1, <1>2, <1>6, StillHolds, Zenon
  <2>3. Holds(h5, p2, "d", v[2])
    BY <1>1, <1>2, <1>6, StillHolds, Zenon
  <2>4. Holds(h5, p3, "p", v[3])
    BY <1>1, <1>2, <1>6, StillHolds, Zenon
  <2>5. Holds(h5, p4, "m", v[4])
    BY <1>1, <1>2, <1>6, StillHolds, Zenon
  <2> QED BY <2>1, <2>2, <2>3, <2>4, <2>5, Zenon
<1> HIDE DEF h5, p5
<1>8. /\ Len(v[1]) \in Nat /\ Len(v[2]) \in Nat /\ Len(v[3]) \in Nat
      /\ Len(v[4]) \in Nat /\ Len(v[5]) \in Nat
      /\ Len(h1) \in Nat /\ Len(h2) \in Nat /\ Len(h3) \in Nat /\ Len(h4) \in Nat
  BY <1>1, <1>3, <1>4, <1>5, <1>6, LenIs
<1>9. /\ Len(h1) + 1 \in 1 .. Len(h2) /\ Len(h1) + 1 \in 1 .. Len(h3)
      /\ Len(h1) + 1 \in 1 .. Len(h4)
      /\ Len(h2) + 1 \in 1 .. Len(h3) /\ Len(h2) + 1 \in 1 .. Len(h4)
      /\ Len(h3) + 1 \in 1 .. Len(h4)
  BY <1>4, <1>5, <1>6, <1>8, SMTT(30)
<1>10. /\ h5[Len(h1) + 1] = Space /\ h5[Len(h2) + 1] = Space
       /\ h5[Len(h3) + 1] = Space /\ h5[Len(h4) + 1] = Space
  <2>1. h5[Len(h1) + 1] = h2[Len(h1) + 1]
    BY <1>5, <1>6, <1>7, <1>9, Zenon
  <2>2. h5[Len(h2) + 1] = h3[Len(h2) + 1]
    BY <1>6, <1>7, <1>9, Zenon
  <2>3. h5[Len(h3) + 1] = h4[Len(h3) + 1]
    BY <1>7, <1>9, Zenon
  <2> QED BY <1>4, <1>5, <1>6, <1>7, <2>1, <2>2, <2>3
<1>11. /\ place[1] = 1 /\ place[2] = p2 /\ place[3] = p3 /\ place[4] = p4
       /\ place[5] = p5 /\ place \in [1 .. 5 -> Nat]
  <2>1. p2 \in Nat /\ p3 \in Nat /\ p4 \in Nat /\ p5 \in Nat
    BY <1>8 DEF p2, p3, p4, p5
  <2> QED BY <2>1
<1> HIDE DEF place
<1>12. /\ Letter[1] = "n" /\ Letter[2] = "d" /\ Letter[3] = "p"
       /\ Letter[4] = "m" /\ Letter[5] = "u"
  BY DEF Letter
<1>13. \A k \in 1 .. 5 : k = 1 \/ k = 2 \/ k = 3 \/ k = 4 \/ k = 5
  OBVIOUS
<1>14. \A k \in 1 .. 5 : Holds(h5, place[k], Letter[k], v[k])
  BY <1>7, <1>11, <1>12, <1>13, Zenon
<1>15. /\ Behind(place[1], v[1]) = Len(h1) + 1 /\ Behind(place[2], v[2]) = Len(h2) + 1
       /\ Behind(place[3], v[3]) = Len(h3) + 1 /\ Behind(place[4], v[4]) = Len(h4) + 1
       /\ Behind(place[5], v[5]) = Len(h5) + 1
  BY <1>3, <1>4, <1>5, <1>6, <1>7, <1>8, <1>11 DEF Behind, p2, p3, p4, p5
<1>16. /\ p2 = (Len(h1) + 1) + 1 /\ p3 = (Len(h2) + 1) + 1
       /\ p4 = (Len(h3) + 1) + 1 /\ p5 = (Len(h4) + 1) + 1
  BY <1>8 DEF p2, p3, p4, p5
<1>17. ASSUME NEW k \in 1 .. 4
       PROVE  /\ h5[Behind(place[k], v[k])] = Space
              /\ place[k + 1] = Behind(place[k], v[k]) + 1
  <2>1. \/ k = 1 /\ k + 1 = 2
        \/ k = 2 /\ k + 1 = 3
        \/ k = 3 /\ k + 1 = 4
        \/ k = 4 /\ k + 1 = 5
    OBVIOUS
  <2> QED BY <1>10, <1>11, <1>15, <1>16, <2>1, Zenon
<1>18. Written(h5, v, place)
  <2>1. \A k \in 1 .. 5 :
          /\ h5[place[k]] = "-" /\ h5[place[k] + 1] = Letter[k]
          /\ h5[place[k] + 2] = Space
          /\ \A i \in 1 .. Len(v[k]) : h5[place[k] + 2 + i] = v[k][i]
    BY <1>14, Zenon DEF Holds
  <2> QED BY <1>7, <1>11, <1>15, <1>17, <2>1, Zenon DEF Written
<1> QED BY <1>18 DEF h5, h4, h3, h2, h1, h0

\* What main has been given.
Given(o) ==
  /\ o \in [host : Seq(Letters), port : Nat, n : Text, d : Text, p : Text,
            m : Text, u : Text]
  /\ IsNumber(o.n) /\ IsNumber(o.d)

Values == <<opts.n, opts.d, opts.p, opts.m, opts.u>>

LEMMA ValuesAre ==
  ASSUME Given(opts)
  PROVE  /\ Values \in [1 .. 5 -> Text]
         /\ \A k \in 1 .. 5 : opts[Letter[k]] = Values[k]
         /\ AllPlain => Readable(Values)
         /\ \E place : Written(WholeString, Values, place)
<1>1. /\ opts.n \in Text /\ opts.d \in Text /\ opts.p \in Text /\ opts.m \in Text
      /\ opts.u \in Text
  BY DEF Given
<1>2. /\ Values[1] = opts.n /\ Values[2] = opts.d /\ Values[3] = opts.p
      /\ Values[4] = opts.m /\ Values[5] = opts.u
      /\ Values \in [1 .. 5 -> Text]
  BY <1>1 DEF Values
<1>3. /\ Letter[1] = "n" /\ Letter[2] = "d" /\ Letter[3] = "p"
      /\ Letter[4] = "m" /\ Letter[5] = "u"
  BY DEF Letter
<1>4. \A k \in 1 .. 5 : k = 1 \/ k = 2 \/ k = 3 \/ k = 4 \/ k = 5
  OBVIOUS
<1>5. \A k \in 1 .. 5 : opts[Letter[k]] = Values[k]
  BY <1>2, <1>3, <1>4, Zenon
<1>6. AllPlain => Readable(Values)
  <2>1. \A k \in 1 .. 2 : k = 1 \/ k = 2
    OBVIOUS
  <2>2. \A k \in 3 .. 5 : k = 3 \/ k = 4 \/ k = 5
    OBVIOUS
  <2> QED BY <1>2, <2>1, <2>2, Zenon DEF AllPlain, Readable, Given
<1>7. WholeString =
        Added(Added(Added(Added(<<"-", "n", Space>> \o Values[1], "d", Values[2]),
          "p", Values[3]), "m", Values[4]), "u", Values[5])
  <2>1. ASSUME NEW h \in Text, NEW c \in Char, NEW x \in Text
        PROVE  (h \o <<Space, "-", c, Space>>) \o x = h \o (<<Space, "-", c, Space>> \o x)
    OBVIOUS
  <2> QED BY <1>2, Zenon DEF WholeString, Added
<1> QED BY <1>2, <1>5, <1>6, <1>7, WrittenIs, Zenon

-----------------------------------------------------------------------------
(* What the segmenter makes of the string.                                 *)

LEMMA OptionStringIs ==
  ASSUME Given(opts)
  PROVE  /\ WholeString \in Text /\ OptionString \in Text
         /\ Beginning(OptionString, WholeString)
         /\ Fits <=> Len(OptionString) = Len(WholeString)
<1> DEFINE w == WholeString
           s == OptionString
<1>1. w \in Text /\ Len(w) \in Nat
  BY ValuesAre, LenIs DEF Written
<1>2. BufLen - 1 \in Nat /\ BufLen \in Nat
  BY NamingAssumption
<1> HIDE DEF w
<1>3. /\ s \in Text
      /\ Len(s) = IF BufLen - 1 < Len(w) THEN BufLen - 1 ELSE Len(w)
      /\ \A k \in 1 .. Len(s) : s[k] = w[k]
  BY <1>1, <1>2, CutIs DEF OptionString, w
<1> HIDE DEF s
<1>4. Len(s) <= Len(w) /\ (Len(w) < BufLen <=> Len(s) = Len(w))
  BY <1>1, <1>2, <1>3
<1> QED BY <1>1, <1>3, <1>4, Zenon DEF Beginning, Fits, s, w

Lost(q) == \E i \in DOMAIN q : q[i][1] = "lost"

LEMMA AssignedTyped ==
  ASSUME NEW q \in Seq(Found), ~Lost(q)
  PROVE  q \in Seq(Pair) /\ Assigned(q) \in [Fields -> Text]
<1>1. \A i \in 1 .. Len(q) : q[i] \in Found /\ q[i][1] # "lost"
  BY DEF Lost
<1>2. \A x \in Found : x[1] # "lost" => x \in Pair
  BY DEF Found, Pair
<1>3. q \in Seq(Pair)
  BY <1>1, <1>2
<1> QED BY <1>3, AssignedIs

LEMMA ListArrives ==
  ASSUME NEW q \in Seq(Found), NEW v \in [1 .. 5 -> Text], NEW whole \in BOOLEAN,
         ListOf(q, 1, v, whole)
  PROVE  /\ whole => ~Lost(q)
         /\ ~Lost(q) => \A k \in 1 .. 5 :
              /\ IsPrefix(Assigned(q)[Letter[k]], v[k] \o <<Space>>)
              /\ whole => Assigned(q)[Letter[k]] = v[k]
<1>1. PICK m \in 0 .. 5 : ListUpTo(q, 1, v, whole, m)
  BY DEF ListOf
<1>2. /\ Len(q) = m \/ (Len(q) = m + 1 /\ q[Len(q)][1] = "lost")
      /\ \A i \in 1 .. m :
           q[i][1] = Letter[i] /\ IsPrefix(q[i][2], v[i] \o <<Space>>)
      /\ whole => m = 5 /\ Len(q) = m /\ \A i \in 1 .. m : q[i][2] = v[i]
  <2>1. m - 1 + 1 = m /\ m - 1 + 2 = m + 1 /\ \A i \in 1 .. m : 1 + i - 1 = i
    OBVIOUS
  <2> QED BY <1>1, <2>1 DEF ListUpTo
<1>3. DOMAIN q = 1 .. Len(q) /\ Len(q) \in Nat
  OBVIOUS
<1>4. \A i \in 1 .. m : i \in 1 .. 5
  OBVIOUS
<1>7. /\ \A i \in 1 .. 5 : Letter[i] # "lost"
      /\ \A i, k \in 1 .. 5 : Letter[i] = Letter[k] => i = k
  BY LetterIs
<1>5. whole => ~Lost(q)
  <2> SUFFICES ASSUME whole, NEW i \in DOMAIN q
               PROVE  q[i][1] # "lost"
    BY DEF Lost
  <2>1. i \in 1 .. m
    BY <1>2, <1>3
  <2> QED BY <1>2, <1>4, <1>7, <2>1
<1>6. ASSUME ~Lost(q), NEW k \in 1 .. 5
      PROVE  /\ IsPrefix(Assigned(q)[Letter[k]], v[k] \o <<Space>>)
             /\ whole => Assigned(q)[Letter[k]] = v[k]
  <2> DEFINE a == Assigned(q)
  <2>1. Len(q) = m
    <3>1. Len(q) = m + 1 => Len(q) \in 1 .. Len(q)
      BY <1>3
    <3> QED BY <1>2, <1>3, <1>6, <3>1, Zenon DEF Lost
  <2>2. q \in Seq(Pair)
    BY <1>6, AssignedTyped
  <2>3. Distinct(q)
    <3> SUFFICES ASSUME NEW i \in 1 .. m, NEW j \in 1 .. m, q[i][1] = q[j][1]
                 PROVE  i = j
      BY <2>1, Zenon DEF Distinct
    <3> QED BY <1>2, <1>4, <1>7
  <2>4. /\ \A i \in 1 .. Len(q) : a[q[i][1]] = q[i][2]
        /\ \A o \in Fields : a[o] = <<>> \/ \E i \in 1 .. Len(q) : q[i][1] = o
    BY <2>2, <2>3, AssignedIs
  <2> HIDE DEF a
  <2>5. CASE k \in 1 .. m
    <3>1. a[Letter[k]] = q[k][2]
      BY <1>2, <2>1, <2>4, <2>5, Zenon
    <3> QED BY <1>2, <2>5, <3>1, Zenon DEF a
  <2>6. CASE k \notin 1 .. m
    <3>1. ~whole
      BY <1>2, <2>6
    <3>2. ~ \E i \in 1 .. Len(q) : q[i][1] = Letter[k]
      <4> SUFFICES ASSUME NEW i \in 1 .. m, q[i][1] = Letter[k]
                   PROVE  FALSE
        BY <2>1, Zenon
      <4>1. i = k
        BY <1>2, <1>4, <1>7
      <4> QED BY <2>6, <4>1
    <3>3. Letter[k] \in Fields
      BY LetterIs
    <3>4. a[Letter[k]] = <<>>
      BY <2>4, <3>2, <3>3, Zenon
    <3>5. IsPrefix(<<>>, v[k] \o <<Space>>)
      <4>1. <<>> \in Text /\ <<Space>> \in Text /\ v[k] \in Text /\ Len(<<>>) = 0
        BY CharsAre
      <4>2. v[k] \o <<Space>> \in Text
        BY <4>1, JoinIs
      <4> DEFINE y == v[k] \o <<Space>>
      <4> HIDE DEF y
      <4>3. Len(y) \in Nat /\ y \in Text
        BY <4>2, LenIs DEF y
      <4>4. Len(<<>>) <= Len(y) /\ \A i \in 1 .. Len(<<>>) : <<>>[i] = y[i]
        BY <4>1, <4>3
      <4>5. IsPrefix(<<>>, y)
        BY <4>1, <4>3, <4>4, PrefixIs, Zenon
      <4> QED BY <4>5 DEF y
    <3> QED BY <3>1, <3>4, <3>5 DEF a
  <2> QED BY <2>5, <2>6
<1> QED BY <1>5, <1>6

LEMMA ParsedIs ==
  ASSUME Given(opts)
  PROVE  /\ Pairs(OptionString) \in Seq(Found)
         /\ ~Lost(Pairs(OptionString))
              => Assigned(Pairs(OptionString)) \in [Fields -> Text]
         /\ AllPlain =>
              /\ Fits => ~Lost(Pairs(OptionString))
              /\ ~Lost(Pairs(OptionString)) => \A o \in Fields :
                   /\ IsPrefix(Assigned(Pairs(OptionString))[o], opts[o] \o <<Space>>)
                   /\ Fits => Assigned(Pairs(OptionString))[o] = opts[o]
<1> DEFINE s == OptionString
           q == Pairs(s)
<1>1. /\ s \in Text /\ Beginning(s, WholeString)
      /\ Fits <=> Len(s) = Len(WholeString)
  BY OptionStringIs
<1>2. q \in Seq(Found)
  <2>1. 1 \in 1 .. Len(s) + 1
    <3>1. Len(s) \in Nat
      BY <1>1, LenIs
    <3> QED BY <3>1
  <2> HIDE DEF s
  <2> QED BY <1>1, <2>1, PairsIs
<1>3. ASSUME AllPlain
      PROVE  /\ Fits => ~Lost(q)
             /\ ~Lost(q) => \A o \in Fields :
                  /\ IsPrefix(Assigned(q)[o], opts[o] \o <<Space>>)
                  /\ Fits => Assigned(q)[o] = opts[o]
  <2> DEFINE whole == Len(s) = Len(WholeString)
  <2>1. PICK place : Written(WholeString, Values, place)
    BY ValuesAre
  <2>2. Readable(Values) /\ Values \in [1 .. 5 -> Text]
    BY <1>3, ValuesAre
  <2>3. whole \in BOOLEAN /\ (whole <=> Len(s) = Len(WholeString))
    OBVIOUS
  <2>4. Fits <=> whole
    BY <1>1
  <2> HIDE DEF s, whole
  <2>5. ListOf(q, 1, Values, whole)
    BY <1>1, <2>1, <2>2, <2>3, OptionsRead
  <2> HIDE DEF q
  <2>6. /\ whole => ~Lost(q)
        /\ ~Lost(q) => \A k \in 1 .. 5 :
             /\ IsPrefix(Assigned(q)[Letter[k]], Values[k] \o <<Space>>)
             /\ whole => Assigned(q)[Letter[k]] = Values[k]
    BY <1>2, <2>2, <2>3, <2>5, ListArrives
  <2>7. \A o \in Fields : \E k \in 1 .. 5 : o = Letter[k] /\ opts[o] = Values[k]
    <3>1. \A o \in Fields : \E k \in 1 .. 5 : Letter[k] = o
      BY LetterIs
    <3>2. \A k \in 1 .. 5 : opts[Letter[k]] = Values[k]
      BY ValuesAre, Zenon
    <3> QED BY <3>1, <3>2, ZenonT(40)
  <2> QED BY <2>4, <2>6, <2>7, Zenon
<1> HIDE DEF q
<1>4. ~Lost(q) => Assigned(q) \in [Fields -> Text]
  BY <1>2, AssignedTyped
<1> QED BY <1>2, <1>3, <1>4 DEF q, s

-----------------------------------------------------------------------------
(* The way of a URI.                                                       *)

LEMMA ContainsIs ==
  ASSUME NEW s \in Text, NEW c
  PROVE  Contains(s, c) <=> \E i \in 1 .. Len(s) : s[i] = c
  BY DEF Contains

\* A place where PastSlashes would go on.
Passed(s, i) == s[i] = "/" \/ IsPrefix(<<".", ".">>, From(s, i))

\* No decoding and no cleaning changes it.
Clear(s) ==
  /\ \A i \in 1 .. Len(s) : s[i] \notin {"?", "%", Space}
  /\ \A i \in 1 .. Len(s) : s[i] = "/" /\ i + 1 <= Len(s) => ~Passed(s, i + 1)

LEMMA FromStep ==
  ASSUME NEW s \in Text, NEW i \in 1 .. Len(s)
  PROVE  <<s[i]>> \o From(s, i + 1) = From(s, i)
<1> DEFINE a == <<s[i]>>
           b == From(s, i + 1)
           c == From(s, i)
<1>0. Len(s) \in Nat
  BY LenIs
<1>1. a \in Text /\ Len(a) = 1 /\ a[1] = s[i]
  BY DEF Text
<1>2. /\ b \in Text /\ Len(b) = Len(s) - i
      /\ \A k \in 1 .. Len(b) : b[k] = s[i + 1 + k - 1]
  <2>1. i + 1 \in Nat \ {0}
    OBVIOUS
  <2>2. /\ b \in Text
        /\ Len(b) = IF i + 1 <= Len(s) THEN Len(s) - (i + 1) + 1 ELSE 0
        /\ \A k \in 1 .. Len(b) : b[k] = s[(i + 1) + k - 1]
    BY <2>1, FromIs
  <2> HIDE DEF b
  <2> QED BY <1>0, <2>2
<1>3. /\ c \in Text /\ Len(c) = Len(s) - i + 1
      /\ \A k \in 1 .. Len(c) : c[k] = s[i + k - 1]
  <2>1. i \in Nat \ {0} /\ i <= Len(s)
    BY <1>0
  <2> QED BY <2>1, FromIs
<1> HIDE DEF a, b, c
<1>4. /\ a \o b \in Text /\ Len(a \o b) = Len(a) + Len(b)
      /\ \A k \in 1 .. Len(a) : (a \o b)[k] = a[k]
      /\ \A k \in 1 .. Len(b) : (a \o b)[Len(a) + k] = b[k]
  BY <1>1, <1>2, JoinIs
<1> DEFINE d == a \o b
<1>5. d \in Text /\ Len(d) = Len(c)
  BY <1>0, <1>1, <1>2, <1>3, <1>4
<1>6. ASSUME NEW k \in 1 .. Len(d)
      PROVE  d[k] = c[k]
  <2>1. CASE k = 1
    <3>1. i + 1 - 1 = i /\ 1 \in 1 .. Len(a) /\ 1 \in 1 .. Len(c)
      BY <1>0, <1>1, <1>3
    <3> QED BY <1>1, <1>3, <1>4, <2>1, <3>1
  <2>2. CASE k # 1
    <3> DEFINE j == k - 1
    <3>1. /\ j \in 1 .. Len(b) /\ Len(a) + j = k /\ i + 1 + j - 1 = i + k - 1
          /\ k \in 1 .. Len(c)
      BY <1>0, <1>1, <1>2, <1>3, <1>5, <2>2
    <3> HIDE DEF j
    <3>2. d[k] = b[j] /\ b[j] = s[i + 1 + j - 1] /\ c[k] = s[i + k - 1]
      BY <1>2, <1>3, <1>4, <3>1
    <3> QED BY <3>1, <3>2
  <2> QED BY <2>1, <2>2
<1> HIDE DEF d
<1>7. d = c
  BY <1>3, <1>5, <1>6, SameText
<1> QED BY <1>7 DEF a, b, c, d

LEMMA FromEnds ==
  ASSUME NEW s \in Text
  PROVE  /\ From(s, 1) = s
         /\ \A i \in Nat : i > Len(s) => From(s, i) = <<>>
  BY DEF From, Text

\* A function that steps through a text and keeps each character is From.
LEMMA StepsThrough ==
  ASSUME NEW s \in Text, NEW g, NEW n \in Nat, n > Len(s),
         \A i \in Len(s) + 1 .. n : g[i] = <<>>,
         \A i \in 1 .. Len(s) : g[i] = <<s[i]>> \o g[i + 1]
  PROVE  g[1] = s
<1> DEFINE l == Len(s)
           T == {k \in 0 .. l : g[l + 1 - k] # From(s, l + 1 - k)}
<1>1. l \in Nat
  BY LenIs
<1>2. g[l + 1] = From(s, l + 1)
  <2>1. l + 1 \in Len(s) + 1 .. n /\ l + 1 \in Nat /\ l + 1 > Len(s)
    BY <1>1
  <2> QED BY <2>1, FromEnds
<1>3. ASSUME T # {}
      PROVE  FALSE
  <2>1. T \in SUBSET Nat
    BY <1>1
  <2>2. PICK k \in T : \A y \in T : k <= y
    <3> HIDE DEF T
    <3> QED BY <1>3, <2>1, LeastNumber
  <2>3. k \in 0 .. l /\ g[l + 1 - k] # From(s, l + 1 - k)
    OBVIOUS
  <2>4. k # 0
    <3>1. l + 1 - 0 = l + 1
      BY <1>1
    <3> QED BY <1>2, <2>3, <3>1
  <2> DEFINE i == l + 1 - k
  <2>5. /\ i \in 1 .. Len(s) /\ k - 1 \in 0 .. l /\ l + 1 - (k - 1) = i + 1
        /\ ~(k <= k - 1)
    BY <1>1, <2>3, <2>4
  <2>6. k - 1 \notin T
    BY <2>2, <2>5
  <2>7. g[i + 1] = From(s, i + 1)
    BY <2>5, <2>6
  <2> HIDE DEF i
  <2>8. g[i] = From(s, i)
    BY <2>5, <2>7, FromStep
  <2> QED BY <2>3, <2>8 DEF i
<1>4. 0 <= l /\ l + 1 - l = 1 /\ l \in 0 .. l
  BY <1>1
<1>5. g[1] = From(s, 1)
  BY <1>3, <1>4
<1> QED BY <1>5, FromEnds

LEMMA DecodedIs ==
  ASSUME NEW s \in Text, Clear(s)
  PROVE  Decoded(s) = s
<1> DEFINE hex == {"0", "1", "2", "e"}
           n == Len(s) + 3
           Step(i, f) ==
             IF i > Len(s) THEN <<>>
             ELSE IF s[i] = "%" /\ i + 2 <= Len(s) /\ {s[i + 1], s[i + 2]} \subseteq hex
             THEN <<IF s[i + 1] = "2" /\ s[i + 2] = "e" THEN "." ELSE "x">> \o f[i + 3]
             ELSE <<s[i]>> \o f[i + 1]
           Solves(f) == f = [i \in 1 .. n |-> Step(i, f)]
           t == [i \in 1 .. n |-> From(s, i)]
<1>1. Len(s) \in Nat
  BY LenIs
<1>2. /\ \A i \in Len(s) + 1 .. n : \A f : Step(i, f) = <<>>
      /\ \A i \in 1 .. Len(s) : \A f : Step(i, f) = <<s[i]>> \o f[i + 1]
  <2>1. \A i \in Len(s) + 1 .. n : i > Len(s)
    BY <1>1
  <2>2. \A i \in 1 .. Len(s) : ~(i > Len(s)) /\ s[i] # "%"
    BY <1>1 DEF Clear
  <2> QED BY <2>1, <2>2, Zenon
<1>3. \A i \in 1 .. n : i \in 1 .. Len(s) \/ i \in Len(s) + 1 .. n
  BY <1>1
<1>4. \A i \in 1 .. Len(s) : i \in 1 .. n /\ i + 1 \in 1 .. n
  BY <1>1
<1>5. \A i \in Len(s) + 1 .. n : i \in 1 .. n /\ i \in Nat /\ i > Len(s)
  BY <1>1
<1> HIDE DEF Step
<1>6. Solves(t)
  <2>1. \A i \in 1 .. Len(s) : t[i + 1] = From(s, i + 1) /\ From(s, i) = <<s[i]>> \o t[i + 1]
    BY <1>4, FromStep
  <2>2. \A i \in Len(s) + 1 .. n : From(s, i) = <<>>
    BY <1>5, FromEnds
  <2> HIDE DEF t
  <2>3. \A i \in 1 .. n : From(s, i) = Step(i, t)
    BY <1>2, <1>3, <2>1, <2>2, Zenon
  <2> HIDE DEF n
  <2> QED BY <2>3 DEF t
<1>7. Decoded(s) = (CHOOSE f : Solves(f))[1]
  BY DEF Decoded, Step
<1> HIDE DEF t
<1>8. PICK g : Solves(g) /\ Decoded(s) = g[1]
  <2> HIDE DEF Solves
  <2> QED BY <1>6, <1>7, Zenon
<1>9. \A i \in 1 .. n : g[i] = Step(i, g)
  <2> HIDE DEF n
  <2> QED BY <1>8, Zenon
<1>10. /\ \A i \in Len(s) + 1 .. n : g[i] = <<>>
       /\ \A i \in 1 .. Len(s) : g[i] = <<s[i]>> \o g[i + 1]
  BY <1>2, <1>4, <1>5, <1>9, Zenon
<1>11. n \in Nat /\ n > Len(s)
  BY <1>1
<1> HIDE DEF n
<1>12. g[1] = s
  BY <1>10, <1>11, StepsThrough
<1> QED BY <1>8, <1>12

LEMMA PastIs ==
  ASSUME NEW s \in Text, NEW i \in 1 .. Len(s) + 1,
         i = Len(s) + 1 \/ ~Passed(s, i)
  PROVE  PastSlashes(s, i) = i
<1> DEFINE n == Len(s)
           D == 1 .. n + 1
           S == Nat
           Step(j, f) == IF j > n THEN j
                         ELSE IF s[j] = "/" THEN f[j + 1]
                         ELSE IF IsPrefix(<<".", ".">>, From(s, j)) THEN f[j + 2]
                         ELSE j
           rank == [j \in D |-> n + 1 - j]
           step == [j \in D |-> [f \in [D -> S] |-> Step(j, f)]]
           Solves(f) == f = [j \in D |-> Step(j, f)]
<1>1. n \in Nat
  BY LenIs
<1>2. ASSUME NEW j \in 1 .. n
      PROVE  /\ j + 1 \in D /\ j + 1 > j
             /\ IsPrefix(<<".", ".">>, From(s, j)) => j + 2 \in D /\ j + 2 > j
  <2>1. <<".", ".">> \in Text
    BY CharsAre
  <2>2. j \in 1 .. Len(s) + 1
    BY <1>1
  <2>3. IsPrefix(<<".", ".">>, From(s, j)) => j + Len(<<".", ".">>) <= n + 1
    BY <2>1, <2>2, ComesIs DEF Comes
  <2>4. Len(<<".", ".">>) = 2
    OBVIOUS
  <2> QED BY <1>1, <2>3, <2>4
<1>3. \A j \in D : j > n \/ (j \in 1 .. n /\ ~(j > n))
  BY <1>1
<1>4. \A j \in D : j \in S
  BY <1>1
<1> HIDE DEF n
<1>5. ASSUME NEW j \in D, NEW f \in [D -> S]
      PROVE  Step(j, f) \in S
  <2>1. CASE j > n
    BY <1>4, <2>1
  <2>2. CASE j \in 1 .. n /\ ~(j > n)
    <3> HIDE DEF D, S
    <3>1. /\ f[j + 1] \in S
          /\ IsPrefix(<<".", ".">>, From(s, j)) => f[j + 2] \in S
      BY <1>2, <2>2
    <3> QED BY <1>4, <3>1, Zenon
  <2> QED BY <1>3, <2>1, <2>2
<1>6. ASSUME NEW j \in D, NEW f, NEW g, \A y \in D : y > j => f[y] = g[y]
      PROVE  Step(j, f) = Step(j, g)
  <2>1. CASE j > n
    BY <2>1, Zenon
  <2>2. CASE j \in 1 .. n /\ ~(j > n)
    <3>1. /\ f[j + 1] = g[j + 1]
          /\ IsPrefix(<<".", ".">>, From(s, j)) => f[j + 2] = g[j + 2]
      BY <1>2, <1>6, <2>2, Zenon
    <3> QED BY <3>1, Zenon
  <2> QED BY <1>3, <2>1, <2>2
<1>7. Step(i, <<>>) = i /\ \A f : Step(i, f) = i /\ i \in D
  <2>1. i \in D
    BY DEF n
  <2>2. i > n \/ (s[i] # "/" /\ ~IsPrefix(<<".", ".">>, From(s, i)))
    <3>1. i = Len(s) + 1 => i > n
      BY <1>1 DEF n
    <3> QED BY <3>1 DEF Passed
  <2> QED BY <2>1, <2>2, Zenon
<1> HIDE DEF Step
<1>8. rank \in [D -> 0 .. n] /\ step \in [D -> [[D -> S] -> S]]
  <2>1. rank \in [D -> 0 .. n]
    BY <1>1
  <2> HIDE DEF D, S
  <2> QED BY <1>5, <2>1
<1>9. Rests(D, S, rank, step)
  <2> SUFFICES ASSUME NEW j \in D, NEW f \in [D -> S], NEW g \in [D -> S],
                      \A y \in D : rank[y] < rank[j] => f[y] = g[y]
               PROVE  step[j][f] = step[j][g]
    BY Zenon DEF Rests
  <2>1. \A y \in D : y > j => rank[y] < rank[j]
    BY <1>1
  <2>2. Step(j, f) = Step(j, g)
    <3> HIDE DEF D, rank
    <3> QED BY <1>6, <2>1
  <2> HIDE DEF D
  <2> QED BY <2>2
<1>10. PICK t \in [D -> S] : \A j \in D : t[j] = step[j][t]
  <2>1. 0 \in S
    OBVIOUS
  <2> HIDE DEF D, S, rank, step
  <2>2. Solvable(D, S, step)
    BY <1>1, <1>8, <1>9, <2>1, Recursive
  <2> QED BY <2>2 DEF Solvable
<1>11. Solves(t)
  <2>1. t = [j \in D |-> t[j]]
    BY <1>10
  <2> HIDE DEF D, S
  <2>2. \A j \in D : t[j] = Step(j, t)
    BY <1>10
  <2> QED BY <2>1, <2>2, Zenon
<1>12. PastSlashes(s, i) = (CHOOSE f : Solves(f))[i]
  BY DEF PastSlashes, Step, n
<1>13. PICK g : Solves(g) /\ PastSlashes(s, i) = g[i]
  <2> HIDE DEF Solves
  <2> QED BY <1>11, <1>12, Zenon
<1>14. g[i] = Step(i, g)
  <2> HIDE DEF D
  <2> QED BY <1>7, <1>13, Zenon
<1> QED BY <1>7, <1>13, <1>14

LEMMA CleanedIs ==
  ASSUME NEW s \in Text, Clear(s)
  PROVE  Cleaned(s) = s
<1> DEFINE n == Len(s) + 1
           next(i) == IF s[i] = "/" THEN PastSlashes(s, i + 1) ELSE i + 1
           Step(i, f) == IF i > Len(s) THEN <<>> ELSE <<s[i]>> \o f[next(i)]
           Solves(f) == f = [i \in 1 .. n |-> Step(i, f)]
           t == [i \in 1 .. n |-> From(s, i)]
<1>1. Len(s) \in Nat
  BY LenIs
<1>2. /\ \A i \in Len(s) + 1 .. n : \A f : Step(i, f) = <<>>
      /\ \A i \in 1 .. Len(s) : \A f : Step(i, f) = <<s[i]>> \o f[i + 1]
  <2>1. \A i \in Len(s) + 1 .. n : i > Len(s)
    BY <1>1
  <2>2. ASSUME NEW i \in 1 .. Len(s)
        PROVE  ~(i > Len(s)) /\ next(i) = i + 1
    <3>1. i + 1 \in 1 .. Len(s) + 1 /\ ~(i > Len(s))
      BY <1>1
    <3>2. CASE s[i] = "/"
      <4>1. i + 1 = Len(s) + 1 \/ ~Passed(s, i + 1)
        BY <1>1, <3>2 DEF Clear
      <4>2. PastSlashes(s, i + 1) = i + 1
        BY <3>1, <4>1, PastIs
      <4> QED BY <3>1, <3>2, <4>2
    <3>3. CASE s[i] # "/"
      BY <3>1, <3>3
    <3> QED BY <3>2, <3>3
  <2> HIDE DEF next
  <2> QED BY <2>1, <2>2, Zenon
<1>3. \A i \in 1 .. n : i \in 1 .. Len(s) \/ i \in Len(s) + 1 .. n
  BY <1>1
<1>4. \A i \in 1 .. Len(s) : i \in 1 .. n /\ i + 1 \in 1 .. n
  BY <1>1
<1>5. \A i \in Len(s) + 1 .. n : i \in 1 .. n /\ i \in Nat /\ i > Len(s)
  BY <1>1
<1> HIDE DEF Step
<1>6. Solves(t)
  <2>1. \A i \in 1 .. Len(s) : t[i + 1] = From(s, i + 1) /\ From(s, i) = <<s[i]>> \o t[i + 1]
    BY <1>4, FromStep
  <2>2. \A i \in Len(s) + 1 .. n : From(s, i) = <<>>
    BY <1>5, FromEnds
  <2> HIDE DEF t
  <2>3. \A i \in 1 .. n : From(s, i) = Step(i, t)
    BY <1>2, <1>3, <2>1, <2>2, Zenon
  <2> HIDE DEF n
  <2> QED BY <2>3 DEF t
<1>7. Cleaned(s) = (CHOOSE f : Solves(f))[1]
  BY DEF Cleaned, Step
<1> HIDE DEF t
<1>8. PICK g : Solves(g) /\ Cleaned(s) = g[1]
  <2> HIDE DEF Solves
  <2> QED BY <1>6, <1>7, Zenon
<1>9. \A i \in 1 .. n : g[i] = Step(i, g)
  <2> HIDE DEF n
  <2> QED BY <1>8, Zenon
<1>10. /\ \A i \in Len(s) + 1 .. n : g[i] = <<>>
       /\ \A i \in 1 .. Len(s) : g[i] = <<s[i]>> \o g[i + 1]
  BY <1>2, <1>4, <1>5, <1>9, Zenon
<1>11. n \in Nat /\ n > Len(s)
  BY <1>1
<1> HIDE DEF n
<1>12. g[1] = s
  BY <1>10, <1>11, StepsThrough
<1> QED BY <1>8, <1>12

-----------------------------------------------------------------------------
(* Names as parts of a path.                                               *)

LEMMA ComesOne ==
  ASSUME NEW s \in Text, NEW c \in Char, NEW i \in 1 .. Len(s) + 1
  PROVE  <<c>> \in Text /\ (Comes(<<c>>, s, i) <=> i <= Len(s) /\ s[i] = c)
<1> DEFINE t == <<c>>
<1>1. t \in Text
  BY CharsAre
<1>2. t[1] = c /\ Len(t) = 1 /\ Len(s) \in Nat
  BY LenIs
<1> HIDE DEF t
<1>3. (\A k \in 1 .. Len(t) : s[i + k - 1] = t[k]) <=> s[i + 1 - 1] = t[1]
  <2>1. \A k \in 1 .. Len(t) : k = 1
    BY <1>2
  <2>2. 1 \in 1 .. Len(t)
    BY <1>2
  <2> QED BY <2>1, <2>2, Zenon
<1>4. i + 1 - 1 = i /\ (i + Len(t) <= Len(s) + 1 <=> i <= Len(s))
  BY <1>2
<1>5. Comes(t, s, i) <=> i <= Len(s) /\ s[i] = c
  BY <1>2, <1>3, <1>4, Zenon DEF Comes
<1> QED BY <1>1, <1>5 DEF t

LEMMA ComesPair ==
  ASSUME NEW s \in Text, NEW c \in Char, NEW d \in Char, NEW i \in 1 .. Len(s) + 1
  PROVE  /\ <<c, d>> \in Text
         /\ Comes(<<c, d>>, s, i) <=> i < Len(s) /\ s[i] = c /\ s[i + 1] = d
<1> DEFINE t == <<c, d>>
<1>1. t \in Text
  BY CharsAre
<1>2. t[1] = c /\ t[2] = d /\ Len(t) = 2 /\ Len(s) \in Nat
  BY LenIs
<1> HIDE DEF t
<1>3. (\A k \in 1 .. Len(t) : s[i + k - 1] = t[k])
        <=> s[i + 1 - 1] = t[1] /\ s[i + 2 - 1] = t[2]
  <2>1. \A k \in 1 .. Len(t) : k = 1 \/ k = 2
    BY <1>2
  <2>2. 1 \in 1 .. Len(t) /\ 2 \in 1 .. Len(t)
    BY <1>2
  <2> QED BY <2>1, <2>2, Zenon
<1>4. /\ i + 1 - 1 = i /\ i + 2 - 1 = i + 1
      /\ i + Len(t) <= Len(s) + 1 <=> i < Len(s)
  BY <1>2
<1>5. Comes(t, s, i) <=> i < Len(s) /\ s[i] = c /\ s[i + 1] = d
  BY <1>2, <1>3, <1>4, Zenon DEF Comes
<1> QED BY <1>1, <1>5 DEF t

LEMMA ComesThree ==
  ASSUME NEW s \in Text, NEW c \in Char, NEW d \in Char, NEW e \in Char,
         NEW i \in 1 .. Len(s) + 1
  PROVE  /\ <<c, d, e>> \in Text
         /\ Comes(<<c, d, e>>, s, i)
              <=> i + 2 <= Len(s) /\ s[i] = c /\ s[i + 1] = d /\ s[i + 2] = e
<1> DEFINE t == <<c, d, e>>
<1>1. t \in Text
  BY DEF Text
<1>2. t[1] = c /\ t[2] = d /\ t[3] = e /\ Len(t) = 3 /\ Len(s) \in Nat
  BY LenIs
<1> HIDE DEF t
<1>3. (\A k \in 1 .. Len(t) : s[i + k - 1] = t[k])
        <=> s[i + 1 - 1] = t[1] /\ s[i + 2 - 1] = t[2] /\ s[i + 3 - 1] = t[3]
  <2>1. \A k \in 1 .. Len(t) : k = 1 \/ k = 2 \/ k = 3
    BY <1>2
  <2>2. 1 \in 1 .. Len(t) /\ 2 \in 1 .. Len(t) /\ 3 \in 1 .. Len(t)
    BY <1>2
  <2> QED BY <2>1, <2>2, Zenon
<1>4. /\ i + 1 - 1 = i /\ i + 2 - 1 = i + 1 /\ i + 3 - 1 = i + 2
      /\ i + Len(t) <= Len(s) + 1 <=> i + 2 <= Len(s)
  BY <1>2
<1>5. Comes(t, s, i)
        <=> i + 2 <= Len(s) /\ s[i] = c /\ s[i + 1] = d /\ s[i + 2] = e
  BY <1>2, <1>3, <1>4, Zenon DEF Comes
<1> QED BY <1>1, <1>5 DEF t

\* Behind a slash there are neither a slash nor two dots.
Smooth(s) ==
  \A i \in 1 .. Len(s) : s[i] = "/" =>
    /\ i + 1 <= Len(s) => s[i + 1] # "/"
    /\ i + 2 <= Len(s) => s[i + 1] # "." \/ s[i + 2] # "."

LEMMA SmoothIs ==
  ASSUME NEW s \in Text
  PROVE  /\ ~Has(s, <<"/", "/">>) /\ ~Has(s, <<"/", ".", ".">>) => Smooth(s)
         /\ Smooth(s) =>
              \A i \in 1 .. Len(s) : s[i] = "/" /\ i + 1 <= Len(s) => ~Passed(s, i + 1)
<1>1. Len(s) \in Nat /\ DOMAIN s = 1 .. Len(s)
  BY DEF Text
<1>2. "/" \in Char /\ "." \in Char
  BY CharsAre
<1>3. \A i \in 1 .. Len(s) : i \in 1 .. Len(s) + 1
  BY <1>1
<1>4. \A i \in 1 .. Len(s) :
        /\ IsPrefix(<<"/", "/">>, From(s, i))
             <=> i < Len(s) /\ s[i] = "/" /\ s[i + 1] = "/"
        /\ IsPrefix(<<"/", ".", ".">>, From(s, i))
             <=> i + 2 <= Len(s) /\ s[i] = "/" /\ s[i + 1] = "." /\ s[i + 2] = "."
        /\ IsPrefix(<<".", ".">>, From(s, i))
             <=> i < Len(s) /\ s[i] = "." /\ s[i + 1] = "."
  BY <1>2, <1>3, ComesIs, ComesPair, ComesThree
<1>5. ASSUME ~Has(s, <<"/", "/">>), ~Has(s, <<"/", ".", ".">>)
      PROVE  Smooth(s)
  <2>1. \A i \in 1 .. Len(s) : /\ ~IsPrefix(<<"/", "/">>, From(s, i))
                               /\ ~IsPrefix(<<"/", ".", ".">>, From(s, i))
    BY <1>1, <1>5, Zenon DEF Has
  <2>2. \A i \in 1 .. Len(s) : i + 1 <= Len(s) => i < Len(s)
    BY <1>1
  <2> QED BY <1>4, <2>1, <2>2, Zenon DEF Smooth
<1>6. ASSUME Smooth(s), NEW i \in 1 .. Len(s), s[i] = "/", i + 1 <= Len(s)
      PROVE  ~Passed(s, i + 1)
  <2>1. /\ i + 1 \in 1 .. Len(s) /\ (i + 1 < Len(s) => i + 2 <= Len(s))
        /\ (i + 1) + 1 = i + 2
    BY <1>1, <1>6
  <2> QED BY <1>4, <1>6, <2>1, Zenon DEF Passed, Smooth
<1> QED BY <1>5, <1>6

LEMMA ClearIs ==
  ASSUME NEW p \in Text, PlainPath(p)
  PROVE  /\ <<"/">> \o p \in Text /\ Smooth(<<"/">> \o p)
         /\ \A i \in 1 .. Len(<<"/">> \o p) :
              (<<"/">> \o p)[i] \notin {"?", "%", Space}
<1> DEFINE a == <<"/">>
           s == a \o p
<1>1. a \in Text /\ Len(a) = 1 /\ a[1] = "/"
  <2>1. a \in Text
    BY CharsAre
  <2> QED BY <2>1
<1> HIDE DEF a
<1>2. /\ s \in Text /\ Len(s) = Len(a) + Len(p)
      /\ \A i \in 1 .. Len(a) : s[i] = a[i]
      /\ \A i \in 1 .. Len(p) : s[Len(a) + i] = p[i]
  BY <1>1, JoinIs
<1> HIDE DEF s
<1>3. \A i \in 1 .. Len(p) : p[i] \notin {"?", "%", Space}
  <2>1. ~Contains(p, "?") /\ ~Contains(p, "%") /\ ~Contains(p, Space)
    BY Zenon DEF PlainPath
  <2> QED BY <2>1, Zenon DEF Contains
<1>4. ASSUME NEW i \in 1 .. Len(s)
      PROVE  s[i] \notin {"?", "%", Space}
  <2>1. i = 1 \/ (i - 1 \in 1 .. Len(p) /\ Len(a) + (i - 1) = i)
    BY <1>1, <1>2, LenIs
  <2>2. CASE i = 1
    <3>1. 1 \in 1 .. Len(a)
      BY <1>1
    <3>2. s[i] = "/"
      BY <1>1, <1>2, <2>2, <3>1
    <3> QED BY <3>2, SpaceIs
  <2>3. CASE i - 1 \in 1 .. Len(p) /\ Len(a) + (i - 1) = i
    <3>1. s[i] = p[i - 1]
      BY <1>2, <2>3
    <3> QED BY <1>3, <2>3, <3>1
  <2> QED BY <2>1, <2>2, <2>3
<1>5. ~Has(s, <<"/", "/">>) /\ ~Has(s, <<"/", ".", ".">>)
  BY DEF PlainPath, s, a
<1>6. Smooth(s)
  BY <1>2, <1>5, SmoothIs
<1> QED BY <1>2, <1>4, <1>6 DEF s, a

NameOf(p, i) == p \o <<"-">> \o Digits(i) \o <<".", "ts">>

\* x is p, a dash, the digits d, a dot and "ts".
Named(x, p, d) ==
  /\ x \in Text /\ Len(x) = Len(p) + Len(d) + 3
  /\ \A k \in 1 .. Len(p) : x[k] = p[k]
  /\ x[Len(p) + 1] = "-"
  /\ \A k \in 1 .. Len(d) : x[Len(p) + 1 + k] = d[k]
  /\ x[Len(p) + Len(d) + 2] = "." /\ x[Len(p) + Len(d) + 3] = "ts"

LEMMA NameIs ==
  ASSUME NEW p \in Text, NEW i \in Nat
  PROVE  Named(NameOf(p, i), p, Digits(i))
<1> DEFINE d == Digits(i)
           a == <<"-">>
           b == <<".", "ts">>
           g == p \o a
           h == g \o d
           x == h \o b
<1>1. d \in Text /\ Len(d) \in Nat /\ Len(p) \in Nat
  BY DigitsAre, LenIs
<1> HIDE DEF d
<1>2. a \in Text /\ Len(a) = 1 /\ a[1] = "-"
  <2>1. a \in Text
    BY CharsAre
  <2> QED BY <2>1
<1>3. b \in Text /\ Len(b) = 2 /\ b[1] = "." /\ b[2] = "ts"
  <2>1. b \in Text
    BY CharsAre
  <2> QED BY <2>1
<1> HIDE DEF a, b
<1>4. /\ g \in Text /\ Len(g) = Len(p) + Len(a)
      /\ \A k \in 1 .. Len(p) : g[k] = p[k]
      /\ \A k \in 1 .. Len(a) : g[Len(p) + k] = a[k]
  BY <1>2, JoinIs
<1> HIDE DEF g
<1>5. /\ h \in Text /\ Len(h) = Len(g) + Len(d)
      /\ \A k \in 1 .. Len(g) : h[k] = g[k]
      /\ \A k \in 1 .. Len(d) : h[Len(g) + k] = d[k]
  BY <1>1, <1>4, JoinIs
<1> HIDE DEF h
<1>6. /\ x \in Text /\ Len(x) = Len(h) + Len(b)
      /\ \A k \in 1 .. Len(h) : x[k] = h[k]
      /\ \A k \in 1 .. Len(b) : x[Len(h) + k] = b[k]
  BY <1>3, <1>5, JoinIs, ZenonT(40)
<1> HIDE DEF x
<1>7. /\ Len(g) = Len(p) + 1 /\ Len(h) = Len(p) + 1 + Len(d)
      /\ Len(x) = Len(p) + Len(d) + 3
      /\ Len(h) + 1 = Len(p) + Len(d) + 2 /\ Len(h) + 2 = Len(p) + Len(d) + 3
      /\ 1 \in 1 .. Len(a) /\ 1 \in 1 .. Len(b) /\ 2 \in 1 .. Len(b)
      /\ Len(p) + 1 \in 1 .. Len(g) /\ Len(p) + 1 \in 1 .. Len(h)
      /\ \A k \in 1 .. Len(p) : k \in 1 .. Len(g) /\ k \in 1 .. Len(h)
      /\ \A k \in 1 .. Len(d) : Len(p) + 1 + k \in 1 .. Len(h)
  BY <1>1, <1>2, <1>3, <1>4, <1>5, <1>6
<1>8. \A k \in 1 .. Len(p) : x[k] = p[k]
  BY <1>4, <1>5, <1>6, <1>7
<1>9. x[Len(p) + 1] = "-"
  BY <1>2, <1>4, <1>5, <1>6, <1>7
<1>10. \A k \in 1 .. Len(d) : x[Len(p) + 1 + k] = d[k]
  BY <1>5, <1>6, <1>7
<1>11. x[Len(p) + Len(d) + 2] = "." /\ x[Len(p) + Len(d) + 3] = "ts"
  BY <1>3, <1>6, <1>7
<1>12. Named(x, p, d)
  BY <1>6, <1>7, <1>8, <1>9, <1>10, <1>11, Zenon DEF Named
<1> QED BY <1>12 DEF NameOf, x, h, g, a, b, d

\* Names of the same prefix tell their numbers apart, as prefixes too.
LEMMA NamesDiffer ==
  ASSUME NEW p \in Text, NEW i \in Nat, NEW j \in Nat
  PROVE  IsPrefix(NameOf(p, i), NameOf(p, j)) <=> i = j
<1> DEFINE x == NameOf(p, i)
           y == NameOf(p, j)
           a == Digits(i)
           b == Digits(j)
<1>1. Named(x, p, a) /\ Named(y, p, b)
  BY NameIs
<1>2. /\ a \in Text /\ b \in Text /\ Len(a) \in Nat /\ Len(b) \in Nat
      /\ Len(p) \in Nat
      /\ \A k \in 1 .. Len(b) : IsDigit(b[k])
  BY DigitsAre, LenIs
<1>3. x \in Text /\ y \in Text
  BY <1>1 DEF Named
<1>4. IsPrefix(x, y) <=> Len(x) <= Len(y) /\ \A k \in 1 .. Len(x) : x[k] = y[k]
  BY <1>3, PrefixIs
<1>5. ASSUME i = j
      PROVE  IsPrefix(x, y)
  <2>1. x = y /\ Len(x) \in Nat
    BY <1>3, <1>5, LenIs
  <2> HIDE DEF x, y
  <2> QED BY <1>4, <2>1
<1> HIDE DEF x, y, a, b
<1>6. ASSUME IsPrefix(x, y)
      PROVE  a = b
  <2> DEFINE n == Len(p)
             l == Len(a)
             m == Len(b)
  <2>1. /\ Len(x) = n + l + 3 /\ Len(y) = n + m + 3 /\ n + l + 3 <= n + m + 3
        /\ \A k \in 1 .. n + l + 3 : x[k] = y[k]
    BY <1>1, <1>4, <1>6 DEF Named
  <2>2. n \in Nat /\ l \in Nat /\ m \in Nat
    BY <1>2
  <2>3. x[n + l + 2] = "." /\ \A k \in 1 .. m : y[n + 1 + k] = b[k]
    BY <1>1 DEF Named
  <2>4. \A k \in 1 .. l : x[n + 1 + k] = a[k]
    BY <1>1 DEF Named
  <2>5. l = m
    <3> SUFFICES ASSUME l # m PROVE FALSE
      OBVIOUS
    <3>1. l + 1 \in 1 .. m /\ n + 1 + (l + 1) = n + l + 2 /\ n + l + 2 \in 1 .. n + l + 3
      <4> HIDE DEF n, l, m
      <4> QED BY <2>1, <2>2
    <3>2. b[l + 1] = "."
      BY <2>1, <2>3, <3>1
    <3> QED BY <1>2, <3>1, <3>2, DigitCharsAre
  <2>6. \A k \in 1 .. l : n + 1 + k \in 1 .. n + l + 3
    <3> HIDE DEF n, l, m
    <3> QED BY <2>2
  <2>7. \A k \in 1 .. l : a[k] = b[k]
    BY <2>1, <2>3, <2>4, <2>5, <2>6
  <2> QED BY <1>2, <2>5, <2>7, SameText
<1>7. a = b => i = j
  BY DigitsDiffer DEF a, b
<1> QED BY <1>5, <1>6, <1>7 DEF x, y

LEMMA NameEnds ==
  ASSUME NEW p \in Text, NEW i \in Nat
  PROVE  /\ Contains(NameOf(p, i), ".")
         /\ ~IsPrefix(<<"m3u8">>, Suffix(NameOf(p, i)))
<1> DEFINE x == NameOf(p, i)
           d == Digits(i)
           n == Len(p) + Len(d) + 2
           I == {k \in 1 .. Len(x) : x[k] = "."}
<1>1. Named(x, p, d)
  BY NameIs
<1>2. Len(d) \in Nat /\ Len(p) \in Nat
  BY DigitsAre, LenIs
<1>3. /\ x \in Text /\ Len(x) = n + 1 /\ x[n] = "." /\ x[n + 1] = "ts"
      /\ n \in Nat /\ n \in 1 .. n + 1
  BY <1>1, <1>2 DEF Named
<1>4. Contains(x, ".")
  BY <1>3, ContainsIs
<1> HIDE DEF x, n
<1>5. Max(I) = n
  <2>1. n \in I /\ \A k \in I : k <= n /\ k \in Nat
    BY <1>3
  <2> HIDE DEF I
  <2>3. \A k \in I : n >= k
    BY <1>3, <2>1
  <2>2. /\ Max(I) \in I /\ \A y \in I : Max(I) >= y
    BY <2>1, <2>3, Zenon DEF Max
  <2> DEFINE m == Max(I)
  <2>4. m \in Nat /\ m <= n /\ m >= n
    BY <2>1, <2>2, Zenon
  <2> HIDE DEF m
  <2>5. m = n
    BY <1>3, <2>4
  <2> QED BY <2>5 DEF m
<1>6. I # {}
  BY <1>3
<1>7. Suffix(x) = From(x, n + 1)
  BY <1>5, <1>6, Zenon DEF Suffix, SelectLastInSeq
<1> DEFINE r == From(x, n + 1)
<1>8. r \in Text /\ Len(r) = 1 /\ r[1] = "ts"
  <2>1. /\ r \in Text /\ Len(r) = IF n + 1 <= Len(x) THEN Len(x) - (n + 1) + 1 ELSE 0
        /\ \A k \in 1 .. Len(r) : r[k] = x[(n + 1) + k - 1]
    <3>1. n + 1 \in Nat \ {0}
      BY <1>3
    <3> QED BY <1>3, <3>1, FromIs
  <2>2. Len(r) = 1 /\ (n + 1) + 1 - 1 = n + 1
    BY <1>3, <2>1
  <2> QED BY <1>3, <2>1, <2>2
<1> HIDE DEF r
<1>9. ~IsPrefix(<<"m3u8">>, r)
  <2>1. SubSeq(r, 1, 1)[1] = "ts"
    BY <1>8 DEF Text
  <2>2. SubSeq(<<"m3u8">>, 1, 1)[1] = "m3u8" /\ Len(<<"m3u8">>) = 1
    OBVIOUS
  <2> QED BY <2>1, <2>2 DEF IsPrefix
<1> QED BY <1>4, <1>7, <1>9 DEF x, r

LEMMA SlashIs ==
  ASSUME NEW x \in Text
  PROVE  /\ <<"/">> \o x \in Text /\ Len(<<"/">> \o x) = Len(x) + 1
         /\ (<<"/">> \o x)[1] = "/"
         /\ \A k \in 1 .. Len(x) : (<<"/">> \o x)[k + 1] = x[k]
         /\ IsPrefix(<<"/">>, <<"/">> \o x)
         /\ From(<<"/">> \o x, 2) = x
<1> DEFINE a == <<"/">>
           s == a \o x
           r == From(s, 2)
<1>1. a \in Text /\ Len(a) = 1 /\ a[1] = "/" /\ Len(x) \in Nat
  <2>1. a \in Text
    BY CharsAre
  <2> QED BY <2>1, LenIs
<1> HIDE DEF a
<1>2. /\ s \in Text /\ Len(s) = Len(a) + Len(x)
      /\ \A i \in 1 .. Len(a) : s[i] = a[i]
      /\ \A i \in 1 .. Len(x) : s[Len(a) + i] = x[i]
  BY <1>1, JoinIs
<1> HIDE DEF s
<1>3. /\ Len(s) = Len(x) + 1 /\ 1 \in 1 .. Len(a)
      /\ \A k \in 1 .. Len(x) : k + 1 = Len(a) + k
      /\ \A k \in 1 .. Len(a) : k = 1
  BY <1>1, <1>2
<1>4. s[1] = "/" /\ \A k \in 1 .. Len(x) : s[k + 1] = x[k]
  BY <1>1, <1>2, <1>3
<1>5. IsPrefix(a, s)
  <2>1. Len(a) <= Len(s)
    BY <1>1, <1>3
  <2> QED BY <1>1, <1>2, <2>1, PrefixIs
<1>6. /\ r \in Text /\ Len(r) = IF 2 <= Len(s) THEN Len(s) - 2 + 1 ELSE 0
      /\ \A k \in 1 .. Len(r) : r[k] = s[2 + k - 1]
  BY <1>2, FromIs
<1> HIDE DEF r
<1>7. Len(r) = Len(x) /\ \A k \in 1 .. Len(r) : 2 + k - 1 = k + 1 /\ k \in 1 .. Len(x)
  BY <1>1, <1>3, <1>6
<1>8. r = x
  BY <1>4, <1>6, <1>7, SameText
<1> QED BY <1>2, <1>3, <1>4, <1>5, <1>8 DEF r, s, a

\* What a name has behind its prefix.
LEMMA NamedRest ==
  ASSUME NEW p \in Text, NEW i \in Nat, NEW x, Named(x, p, Digits(i)),
         NEW k \in Len(p) + 1 .. Len(x)
  PROVE  x[k] \notin {"?", "%", Space, "/"}
<1> DEFINE n == Len(p)
           d == Digits(i)
           l == Len(d)
<1>1. n \in Nat /\ l \in Nat /\ \A j \in 1 .. l : IsDigit(d[j])
  BY DigitsAre, LenIs
<1>2. /\ Len(x) = n + l + 3 /\ x[n + 1] = "-"
      /\ \A j \in 1 .. l : x[n + 1 + j] = d[j]
      /\ x[n + l + 2] = "." /\ x[n + l + 3] = "ts"
  BY DEF Named
<1> HIDE DEF n, d, l
<1>3. \/ k = n + 1
      \/ k - n - 1 \in 1 .. l /\ k = n + 1 + (k - n - 1)
      \/ k = n + l + 2
      \/ k = n + l + 3
  <2>1. k \in n + 1 .. n + l + 3
    BY <1>2 DEF n
  <2> QED BY <1>1, <2>1
<1>4. \A c \in {"-", ".", "ts"} : c \notin {"?", "%", Space, "/"}
  BY SpaceIs
<1>5. \A c : IsDigit(c) => c \notin {"?", "%", Space, "/"}
  BY DigitCharsAre
<1>6. CASE k - n - 1 \in 1 .. l /\ k = n + 1 + (k - n - 1)
  <2>1. IsDigit(x[k])
    BY <1>1, <1>2, <1>6
  <2> QED BY <1>5, <2>1
<1> QED BY <1>2, <1>3, <1>4, <1>6

LEMMA NameClear ==
  ASSUME NEW p \in Text, PlainPath(p), NEW i \in Nat
  PROVE  Clear(<<"/">> \o NameOf(p, i))
<1> DEFINE x == NameOf(p, i)
           s == <<"/">> \o p
           r == <<"/">> \o x
           n == Len(p)
<1>1. /\ Named(x, p, Digits(i)) /\ x \in Text /\ Len(x) \in Nat /\ n \in Nat
      /\ n + 1 <= Len(x) /\ x[n + 1] = "-"
      /\ \A k \in 1 .. n : x[k] = p[k]
  <2>1. Named(x, p, Digits(i))
    BY NameIs
  <2>2. Len(Digits(i)) \in Nat /\ n \in Nat
    BY DigitsAre, LenIs
  <2> HIDE DEF x
  <2>3. /\ x \in Text /\ Len(x) = n + Len(Digits(i)) + 3 /\ x[n + 1] = "-"
        /\ \A k \in 1 .. n : x[k] = p[k]
    BY <2>1 DEF Named
  <2> QED BY <2>1, <2>2, <2>3
<1> HIDE DEF x
<1>2. \A k \in n + 1 .. Len(x) : x[k] \notin {"?", "%", Space, "/"}
  BY <1>1, NamedRest
<1>3. /\ s \in Text /\ Len(s) = n + 1 /\ s[1] = "/"
      /\ \A k \in 1 .. n : s[k + 1] = p[k]
  BY SlashIs
<1>4. /\ r \in Text /\ Len(r) = Len(x) + 1 /\ r[1] = "/"
      /\ \A k \in 1 .. Len(x) : r[k + 1] = x[k]
  BY <1>1, SlashIs
<1>5. Smooth(s) /\ \A k \in 1 .. Len(s) : s[k] \notin {"?", "%", Space}
  BY ClearIs
<1> HIDE DEF s, r, n
<1>6. \A k \in 1 .. n + 1 : r[k] = s[k]
  <2> TAKE k \in 1 .. n + 1
  <2>1. CASE k = 1
    BY <1>3, <1>4, <2>1
  <2>2. CASE k # 1
    <3>1. k - 1 \in 1 .. n /\ k - 1 \in 1 .. Len(x) /\ (k - 1) + 1 = k
      BY <1>1, <2>2
    <3>2. r[k] = x[k - 1] /\ s[k] = p[k - 1]
      BY <1>3, <1>4, <3>1
    <3> QED BY <1>1, <3>1, <3>2
  <2> QED BY <2>1, <2>2
<1>7. \A k \in n + 2 .. Len(r) : r[k] \notin {"?", "%", Space, "/"}
  <2> TAKE k \in n + 2 .. Len(r)
  <2>1. k - 1 \in n + 1 .. Len(x) /\ k - 1 \in 1 .. Len(x) /\ (k - 1) + 1 = k
    BY <1>1, <1>4
  <2> QED BY <1>2, <1>4, <2>1
<1>8. r[n + 2] = "-" /\ n + 2 \in 1 .. Len(r)
  <2>1. n + 1 \in 1 .. Len(x) /\ (n + 1) + 1 = n + 2
    BY <1>1
  <2> QED BY <1>1, <1>4, <2>1
<1>9. \A k \in 1 .. Len(r) : k \in 1 .. n + 1 \/ k \in n + 2 .. Len(r)
  BY <1>1, <1>4
<1>10. \A k \in 1 .. Len(r) : r[k] \notin {"?", "%", Space}
  BY <1>3, <1>5, <1>6, <1>7, <1>9
<1>11. ASSUME NEW k \in 1 .. Len(r), r[k] = "/"
       PROVE  /\ k + 1 <= Len(r) => r[k + 1] # "/"
              /\ k + 2 <= Len(r) => r[k + 1] # "." \/ r[k + 2] # "."
  <2>1. k \in 1 .. n + 1
    BY <1>7, <1>9, <1>11
  <2>2. s[k] = "/" /\ k \in 1 .. Len(s)
    BY <1>3, <1>6, <1>11, <2>1
  <2>3. CASE k = n + 1
    <3>1. k + 1 = n + 2
      BY <1>1, <2>3
    <3> QED BY <1>8, <3>1
  <2>4. CASE k = n
    <3>1. k + 1 \in 1 .. n + 1 /\ k + 1 <= Len(s) /\ k + 2 = n + 2
      BY <1>1, <1>3, <2>1, <2>4
    <3>2. s[k + 1] # "/"
      BY <1>5, <2>2, <3>1 DEF Smooth
    <3> QED BY <1>6, <1>8, <3>1, <3>2
  <2>5. CASE k < n
    <3>1. /\ k + 1 \in 1 .. n + 1 /\ k + 2 \in 1 .. n + 1
          /\ k + 1 <= Len(s) /\ k + 2 <= Len(s)
      BY <1>1, <1>3, <2>1, <2>5
    <3>2. s[k + 1] # "/" /\ (s[k + 1] # "." \/ s[k + 2] # ".")
      BY <1>5, <2>2, <3>1 DEF Smooth
    <3> QED BY <1>6, <3>1, <3>2
  <2> QED BY <1>1, <2>1, <2>3, <2>4, <2>5
<1>12. Smooth(r)
  BY <1>11 DEF Smooth
<1>13. Clear(r)
  BY <1>4, <1>10, <1>12, SmoothIs DEF Clear
<1> QED BY <1>13 DEF r, x

LEMMA PlainClear ==
  ASSUME NEW p \in Text, PlainPath(p)
  PROVE  Clear(<<"/">> \o p)
BY ClearIs, SmoothIs DEF Clear

LEMMA PathUsed ==
  ASSUME NEW s \in Text, Clear(s)
  PROVE  ~Contains(s, Space) /\ SubSeq(s, 1, Find(s, <<"?">>, 1) - 1) = s
<1> DEFINE j == Find(s, <<"?">>, 1)
<1>1. Len(s) \in Nat /\ 1 \in 1 .. Len(s) + 1 /\ "?" \in Char
  <2>1. Len(s) \in Nat
    BY LenIs
  <2> QED BY <2>1, CharsAre
<1>2. \A k \in 1 .. Len(s) : s[k] \notin {"?", "%", Space}
  BY DEF Clear
<1>3. IsFound(s, <<"?">>, 1, j)
  BY <1>1, ComesOne, FindIs
<1> HIDE DEF j
<1>4. j \in 1 .. Len(s) + 1 /\ (j = Len(s) + 1 \/ Comes(<<"?">>, s, j))
  BY <1>3 DEF IsFound
<1>5. j = Len(s) + 1
  <2> SUFFICES ASSUME j # Len(s) + 1 PROVE FALSE
    OBVIOUS
  <2>1. s[j] = "?" /\ j \in 1 .. Len(s)
    BY <1>1, <1>4, ComesOne
  <2> QED BY <1>2, <2>1
<1>6. j - 1 = Len(s)
  BY <1>1, <1>5
<1>7. SubSeq(s, 1, j - 1) = s
  BY <1>6 DEF Text
<1>8. ~Contains(s, Space)
  BY <1>2, ContainsIs
<1> QED BY <1>7, <1>8 DEF j

\* A text without a slash.
Unbroken(s) == \A i \in 1 .. Len(s) : s[i] # "/"

LEMMA UnbrokenJoin ==
  ASSUME NEW s \in Text, NEW t \in Text, Unbroken(s), Unbroken(t)
  PROVE  s \o t \in Text /\ Unbroken(s \o t)
<1> DEFINE r == s \o t
<1>1. /\ r \in Text /\ Len(r) = Len(s) + Len(t)
      /\ \A i \in 1 .. Len(s) : r[i] = s[i]
      /\ \A i \in 1 .. Len(t) : r[Len(s) + i] = t[i]
      /\ Len(s) \in Nat /\ Len(t) \in Nat
  BY JoinIs, LenIs
<1> HIDE DEF r
<1>2. \A i \in 1 .. Len(r) : r[i] # "/"
  <2> TAKE i \in 1 .. Len(r)
  <2>1. i \in 1 .. Len(s) \/ (i - Len(s) \in 1 .. Len(t) /\ i = Len(s) + (i - Len(s)))
    BY <1>1
  <2>2. CASE i \in 1 .. Len(s)
    BY <1>1, <2>2 DEF Unbroken
  <2>3. CASE i - Len(s) \in 1 .. Len(t) /\ i = Len(s) + (i - Len(s))
    <3>1. r[i] = t[i - Len(s)]
      BY <1>1, <2>3
    <3> QED BY <2>3, <3>1 DEF Unbroken
  <2> QED BY <2>1, <2>2, <2>3
<1> QED BY <1>1, <1>2 DEF Unbroken, r

\* The prefix of the URLs, up to the slash.
Authority(host, port) == <<"http">> \o host \o <<Colon>> \o Digits(port)

LEMMA AuthorityIs ==
  ASSUME NEW host \in Text, Unbroken(host), NEW port \in Nat
  PROVE  Authority(host, port) \in Text /\ Unbroken(Authority(host, port))
<1>1. /\ <<"http">> \in Text /\ <<Colon>> \in Text
      /\ Unbroken(<<"http">>) /\ Unbroken(<<Colon>>)
  <2>1. <<"http">> \in Text /\ <<Colon>> \in Text
    BY CharsAre
  <2>2. Colon # "/" /\ "http" # "/"
    BY SpaceIs
  <2> QED BY <2>1, <2>2 DEF Unbroken
<1>2. Digits(port) \in Text /\ Unbroken(Digits(port))
  BY DigitsAre, DigitCharsAre DEF Unbroken
<1>3. <<"http">> \o host \in Text /\ Unbroken(<<"http">> \o host)
  BY <1>1, UnbrokenJoin
<1>4. /\ <<"http">> \o host \o <<Colon>> \in Text
      /\ Unbroken(<<"http">> \o host \o <<Colon>>)
  BY <1>1, <1>3, UnbrokenJoin
<1> QED BY <1>2, <1>4, UnbrokenJoin DEF Authority

LEMMA PathOfIs ==
  ASSUME NEW host \in Text, Unbroken(host), NEW port \in Nat, NEW x \in Text
  PROVE  PathOf(UrlPrefix(host, port) \o x) = <<"/">> \o x
<1> DEFINE a == Authority(host, port)
           b == <<"/">>
           g == a \o b
           y == b \o x
           url == g \o x
<1>1. a \in Text /\ Unbroken(a) /\ Len(a) \in Nat /\ Len(x) \in Nat
  BY AuthorityIs, LenIs
<1>2. UrlPrefix(host, port) \o x = url
  BY DEF UrlPrefix, Authority
<1> HIDE DEF a
<1>3. b \in Text /\ Len(b) = 1 /\ b[1] = "/" /\ "/" \in Char
  <2>1. b \in Text /\ "/" \in Char
    BY CharsAre
  <2> QED BY <2>1
<1>4. /\ y \in Text /\ Len(y) = Len(x) + 1 /\ y[1] = "/"
      /\ \A k \in 1 .. Len(x) : y[k + 1] = x[k]
  BY SlashIs
<1> HIDE DEF b, y
<1>5. /\ g \in Text /\ Len(g) = Len(a) + Len(b)
      /\ \A i \in 1 .. Len(a) : g[i] = a[i]
      /\ \A i \in 1 .. Len(b) : g[Len(a) + i] = b[i]
  BY <1>1, <1>3, JoinIs
<1> HIDE DEF g
<1>6. /\ url \in Text /\ Len(url) = Len(g) + Len(x)
      /\ \A i \in 1 .. Len(g) : url[i] = g[i]
      /\ \A i \in 1 .. Len(x) : url[Len(g) + i] = x[i]
  BY <1>5, JoinIs
<1> HIDE DEF url
<1> DEFINE n == Len(a)
<1>7. /\ n \in Nat /\ Len(g) = n + 1 /\ Len(url) = n + 1 + Len(x)
      /\ 1 \in 1 .. Len(b) /\ n + 1 \in 1 .. Len(g) /\ n + 1 \in 1 .. Len(url) + 1
      /\ n + 1 <= Len(url) /\ 1 \in 1 .. Len(url) + 1
      /\ \A i \in 1 .. n : i \in 1 .. Len(g) /\ i \in 1 .. Len(url) + 1
  BY <1>1, <1>3, <1>5, <1>6
<1> HIDE DEF n
<1>8. url[n + 1] = "/" /\ \A i \in 1 .. n : url[i] # "/"
  BY <1>1, <1>3, <1>5, <1>6, <1>7 DEF Unbroken, n
<1>9. IsFound(url, b, 1, n + 1)
  <2>1. Comes(b, url, n + 1)
    BY <1>3, <1>6, <1>7, <1>8, ComesOne DEF b
  <2>2. \A k \in 1 .. (n + 1) - 1 : k \in 1 .. n
    BY <1>7
  <2>3. \A k \in 1 .. n : ~Comes(b, url, k)
    BY <1>3, <1>6, <1>7, <1>8, ComesOne DEF b
  <2>4. n + 1 \in 1 .. Len(url) + 1
    BY <1>7
  <2> QED BY <2>1, <2>2, <2>3, <2>4, Zenon DEF IsFound
<1>10. Find(url, b, 1) = n + 1
  BY <1>3, <1>6, <1>7, <1>9, FoundOnce
<1> DEFINE r == From(url, n + 1)
<1>11. /\ r \in Text /\ Len(r) = Len(x) + 1
       /\ \A k \in 1 .. Len(r) : r[k] = url[(n + 1) + k - 1]
  <2>1. n + 1 \in Nat \ {0}
    BY <1>7
  <2>2. /\ r \in Text
        /\ Len(r) = IF n + 1 <= Len(url) THEN Len(url) - (n + 1) + 1 ELSE 0
        /\ \A k \in 1 .. Len(r) : r[k] = url[(n + 1) + k - 1]
    BY <1>6, <2>1, FromIs
  <2> HIDE DEF r
  <2> QED BY <1>1, <1>7, <2>2
<1> HIDE DEF r
<1>12. ASSUME NEW k \in 1 .. Len(r)
       PROVE  r[k] = y[k]
  <2>1. CASE k = 1
    <3>1. (n + 1) + k - 1 = n + 1
      BY <1>7, <2>1
    <3> QED BY <1>4, <1>8, <1>11, <2>1, <3>1
  <2>2. CASE k # 1
    <3> DEFINE j == k - 1
    <3>1. j \in 1 .. Len(x) /\ j + 1 = k /\ (n + 1) + k - 1 = Len(g) + j
      BY <1>1, <1>7, <1>11, <2>2
    <3> HIDE DEF j
    <3>2. r[k] = url[Len(g) + j] /\ y[k] = x[j]
      BY <1>4, <1>11, <3>1
    <3> QED BY <1>6, <3>1, <3>2
  <2> QED BY <2>1, <2>2
<1>13. r = y
  BY <1>4, <1>11, <1>12, SameText
<1>14. PathOf(url) = r
  BY <1>10 DEF PathOf, r, b
<1> QED BY <1>2, <1>13, <1>14 DEF y, b

-----------------------------------------------------------------------------
(* Prefix and port.                                                        *)

LEMMA UrlPrefixIs ==
  ASSUME NEW host \in Text, NEW port \in Nat
  PROVE  UrlPrefix(host, port) \in Text
<1>1. <<"http">> \in Text /\ <<Colon>> \in Text /\ <<"/">> \in Text
  BY CharsAre
<1>2. Digits(port) \in Text
  BY DigitsAre
<1>3. <<"http">> \o host \in Text
  BY <1>1, JoinIs
<1>4. <<"http">> \o host \o <<Colon>> \in Text
  BY <1>1, <1>3, JoinIs
<1>5. <<"http">> \o host \o <<Colon>> \o Digits(port) \in Text
  BY <1>2, <1>4, JoinIs
<1> QED BY <1>1, <1>5, JoinIs DEF UrlPrefix

LEMMA LettersAre ==
  ASSUME NEW s \in Seq(Letters)
  PROVE  s \in Text
<1>1. \A c \in Letters : c \in Char
  BY Zenon DEF Char
<1> QED BY <1>1 DEF Text

\* An option string that fits leaves the prefix whole.
LEMMA PrefixFits ==
  ASSUME Given(opts), Fits,
         opts.u = Cut(UrlPrefix(opts.host, opts.port), BufLen - 1)
  PROVE  opts.u = UrlPrefix(opts.host, opts.port)
<1> DEFINE w == WholeString
           u == opts.u
           x == UrlPrefix(opts.host, opts.port)
<1>1. PICK place : Written(w, Values, place)
  BY ValuesAre
<1>2. w \in Text /\ place[5] \in Nat /\ Len(w) + 1 = place[5] + 3 + Len(Values[5])
  BY <1>1 DEF Written, Behind
<1>3. Values[5] = u /\ u \in Text
  BY DEF Values, Given
<1>4. x \in Text
  <2>1. opts.host \in Seq(Letters) /\ opts.port \in Nat
    BY DEF Given
  <2> QED BY <2>1, LettersAre, UrlPrefixIs
<1>5. BufLen - 1 \in Nat /\ BufLen \in Nat
  BY NamingAssumption
<1>6. Len(w) < BufLen
  BY DEF Fits
<1>7. u = Cut(x, BufLen - 1)
  OBVIOUS
<1> HIDE DEF w, u, x
<1>8. /\ Len(u) = IF BufLen - 1 < Len(x) THEN BufLen - 1 ELSE Len(x)
      /\ \A k \in 1 .. Len(u) : u[k] = x[k]
  <2> DEFINE c == Cut(x, BufLen - 1)
  <2>1. /\ Len(c) = IF BufLen - 1 < Len(x) THEN BufLen - 1 ELSE Len(x)
        /\ \A k \in 1 .. Len(c) : c[k] = x[k]
    BY <1>4, <1>5, CutIs
  <2> HIDE DEF c
  <2> QED BY <1>7, <2>1 DEF c
<1>9. Len(w) \in Nat /\ Len(u) \in Nat /\ Len(x) \in Nat
  BY <1>2, <1>3, <1>4, LenIs
<1>10. Len(u) = Len(x)
  BY <1>2, <1>3, <1>5, <1>6, <1>8, <1>9
<1> QED BY <1>3, <1>4, <1>8, <1>10, SameText DEF u, x

LEMMA ServerPortIs ==
  ASSUME NEW host \in Text, NEW port \in Nat
  PROVE  /\ ServerPort(host, port) \in 0 .. PortRange - 1
         /\ Dotted(host) /\ port \in 1 .. PortRange - 1
              => ServerPort(host, port) = port
<1>0. PortRange \in Nat \ {0}
  BY NamingAssumption
<1>1. \A n \in Nat : n % PortRange \in 0 .. PortRange - 1
  BY <1>0, DivMod
<1>2. \A n \in 0 .. PortRange - 1 : n % PortRange = n
  BY <1>0
<1>3. ASSUME Numeric(host)
      PROVE  NumberOf(SubSeq(host, 1, EndOfNumber(host, 1) - 1)) \in Nat
  <2> DEFINE digits == ToSet(DigitChars)
             e == Skip(host, 1, digits)
  <2>1. Len(host) \in Nat /\ Len(host) >= 1
    <3>1. host # <<>>
      BY <1>3 DEF Numeric
    <3>2. Len(host) \in Nat
      BY LenIs
    <3> QED BY <3>1, <3>2 DEF Text
  <2>2. IsDigit(host[1])
    BY <1>3 DEF Numeric, IsDigit
  <2>3. host[1] # Space /\ host[1] # "-"
    BY <2>2, DigitCharsAre
  <2>4. 1 \in 1 .. Len(host) + 1
    BY <2>1
  <2>5. Skip(host, 1, {Space}) = 1
    <3>1. \A k \in 1 .. 1 - 1 : FALSE
      OBVIOUS
    <3>2. IsPast(host, 1, {Space}, 1)
      BY <2>3, <2>4, <3>1, Zenon DEF IsPast
    <3> QED BY <2>4, <3>2, PastOnce
  <2>6. IsPast(host, 1, digits, e)
    BY <2>4, SkipIs
  <2>7. EndOfNumber(host, 1) = IF e = 1 THEN 1 ELSE e
    BY <2>3, <2>5, Zenon DEF EndOfNumber
  <2> HIDE DEF e, digits
  <2>8. EndOfNumber(host, 1) = e
    BY <2>7
  <2>9. e \in 1 .. Len(host) + 1 /\ \A k \in 1 .. e - 1 : host[k] \in digits
    BY <2>6, Zenon DEF IsPast
  <2> DEFINE r == SubSeq(host, 1, e - 1)
  <2>10. /\ r \in Text /\ Len(r) = IF 1 <= e - 1 THEN e - 1 - 1 + 1 ELSE 0
         /\ \A k \in 1 .. Len(r) : r[k] = host[1 + k - 1]
    <3>1. e - 1 \in Nat /\ e - 1 <= Len(host)
      BY <2>1, <2>9
    <3> QED BY <3>1, PieceIs
  <2> HIDE DEF r
  <2>11. \A k \in 1 .. Len(r) : 1 + k - 1 = k /\ k \in 1 .. e - 1
    BY <2>9, <2>10
  <2>12. \A k \in 1 .. Len(r) : IsDigit(r[k])
    BY <2>9, <2>10, <2>11 DEF IsDigit, digits
  <2>13. NumberOf(r) \in Nat
    BY <2>10, <2>12, NumberIs
  <2> QED BY <2>8, <2>13 DEF r
<1>4. 0 \in 0 .. PortRange - 1
  BY <1>0
<1>5. 1 \in Nat /\ \A n \in 1 .. PortRange - 1 : n \in 0 .. PortRange - 1
  BY <1>0
<1> QED BY <1>1, <1>2, <1>3, <1>4, <1>5, Zenon DEF ServerPort

-----------------------------------------------------------------------------
(* The invariant.                                                          *)

Granted ==
  Given(opts) /\ opts.u = Cut(UrlPrefix(opts.host, opts.port), BufLen - 1)

Arrived ==
  /\ options \in [Fields -> Text]
  /\ AllPlain => \A o \in Fields : /\ IsPrefix(options[o], opts[o] \o <<Space>>)
                                   /\ Fits => options[o] = opts[o]

Easy == AllPlain /\ Fits /\ PlainPath(opts.p) /\ ~Contains(opts.host, "/")

\* The path that a client asks for.
Asked(i) == <<"/">> \o (IF i = 0 THEN opts.m ELSE NameOf(opts.p, i))

Answered ==
  /\ wanted # 0 => reply = IF wanted \in Queue THEN wanted ELSE None
  /\ wanted = 0 /\ PlainPath(opts.m) /\ Contains(opts.m, ".")
       => (reply = 0 <=> IsPrefix(<<"m3u8">>, Suffix(opts.m)))

Running == {"parsed", "serving", "sent", "cleaned", "answered"}

NamingInv ==
  /\ NamingTypeOK
  /\ phase \in Running \cup {"given", "lost"} => Granted
  /\ phase \in Running => Arrived
  /\ phase = "lost" => (AllPlain => ~Fits)
  /\ phase = "serving" => listening = ServerPort(opts.host, opts.port)
  /\ phase = "sent" /\ Easy => uri = Asked(wanted)
  /\ phase = "cleaned" /\ Easy /\ (wanted = 0 => PlainPath(opts.m))
       => uri = Asked(wanted)
  /\ phase = "answered" /\ Easy => Answered

\* What is said of the options stays true as long as they do.
LEMMA OptionsStay ==
  ASSUME UNCHANGED <<opts, options>>
  PROVE  /\ Granted' <=> Granted
         /\ Arrived' <=> Arrived
         /\ AllPlain' <=> AllPlain
         /\ Fits' <=> Fits
         /\ Easy' <=> Easy
         /\ \A i : Asked(i)' = Asked(i)
<1>1. opts' = opts /\ options' = options
  OBVIOUS
<1>2. AllPlain' <=> AllPlain
  BY <1>1 DEF AllPlain
<1>3. Fits' <=> Fits
  BY <1>1 DEF Fits, WholeString
<1>4. Granted' <=> Granted
  BY <1>1 DEF Granted, Given
<1>5. Arrived' <=> Arrived
  BY <1>1, <1>2, <1>3 DEF Arrived
<1>6. Easy' <=> Easy
  BY <1>1, <1>2, <1>3 DEF Easy
<1>7. \A i : Asked(i)' = Asked(i)
  BY <1>1 DEF Asked
<1> QED BY <1>2, <1>3, <1>4, <1>5, <1>6, <1>7

LEMMA PhasesAre ==
  /\ \A x \in Running : x \notin {"start", "refused", "undefined", "lost", "given"}
  /\ "parsed" \in Running /\ "serving" \in Running /\ "sent" \in Running
  /\ "cleaned" \in Running /\ "answered" \in Running
  BY DEF Running

LEMMA FieldsSet == DOMAIN Empty = Fields
  BY DEF Empty

LEMMA NamingFirst ==
  ASSUME NamingInit
  PROVE  NamingInv
<1>1. PortRange \in Nat \ {0} /\ MaxSegments \in Nat \ {0}
  BY NamingAssumption
<1>2. NamingTypeOK
  BY <1>1, FieldsSet DEF NamingInit, NamingTypeOK
<1>3. phase = "start"
  BY DEF NamingInit
<1>4. phase \notin Running \cup {"given", "lost"}
  BY <1>3, PhasesAre
<1> QED BY <1>2, <1>3, <1>4, PhasesAre DEF NamingInv

LEMMA GetOptionsKeeps ==
  ASSUME NamingInv, GetOptions
  PROVE  NamingInv'
<1>1. /\ phase' = "given"
      /\ UNCHANGED <<options, listening, last, wanted, uri, reply>>
  BY DEF GetOptions
<1>2. PICK host \in HostTexts, port \in Ports, p \in PrefixTexts,
           m \in FileTexts, n \in CountTexts, d \in CountTexts :
        opts' = [host |-> host, port |-> port, n |-> n, d |-> d, p |-> p,
                 m |-> m, u |-> Cut(UrlPrefix(host, port), BufLen - 1)]
  BY Zenon DEF GetOptions
<1> DEFINE u == Cut(UrlPrefix(host, port), BufLen - 1)
<1>3. /\ host \in Seq(Letters) /\ p \in Seq(Letters) /\ m \in Seq(Letters)
      /\ n \in Seq(Letters) /\ d \in Seq(Letters) /\ port \in Nat
      /\ IsNumber(n) /\ IsNumber(d) /\ BufLen - 1 \in Nat
  BY NamingAssumption
<1>4. /\ host \in Text /\ p \in Text /\ m \in Text /\ n \in Text /\ d \in Text
  BY <1>3, LettersAre
<1>5. u \in Text
  BY <1>3, <1>4, UrlPrefixIs, CutIs
<1> HIDE DEF u
<1>6. opts' = [host |-> host, port |-> port, n |-> n, d |-> d, p |-> p,
               m |-> m, u |-> u]
  BY <1>2 DEF u
<1>7. Given(opts')
  BY <1>3, <1>4, <1>5, <1>6 DEF Given
<1>8. opts'.host = host /\ opts'.port = port /\ opts'.u = u
  BY <1>6
<1>9. Granted'
  BY <1>7, <1>8 DEF Granted, Given, u
<1>10. NamingTypeOK'
  BY <1>1 DEF NamingInv, NamingTypeOK
<1> QED BY <1>1, <1>9, <1>10, PhasesAre DEF NamingInv

LEMMA ParseOptionsKeeps ==
  ASSUME NamingInv, ParseOptions
  PROVE  NamingInv'
<1> DEFINE q == Pairs(OptionString)
<1>1. /\ phase = "given"
      /\ UNCHANGED <<opts, listening, last, wanted, uri, reply>>
  BY DEF ParseOptions
<1>2. \/ Lost(q) /\ phase' = "lost" /\ options' = options
      \/ ~Lost(q) /\ phase' = "parsed" /\ options' = Assigned(q)
  BY DEF ParseOptions, Lost
<1>3. Granted /\ Given(opts)
  BY <1>1 DEF NamingInv, Granted
<1>4. /\ ~Lost(q) => Assigned(q) \in [Fields -> Text]
      /\ AllPlain =>
           /\ Fits => ~Lost(q)
           /\ ~Lost(q) => \A o \in Fields :
                /\ IsPrefix(Assigned(q)[o], opts[o] \o <<Space>>)
                /\ Fits => Assigned(q)[o] = opts[o]
  BY <1>3, ParsedIs
<1> HIDE DEF q
<1>5. Granted' /\ (AllPlain' <=> AllPlain) /\ (Fits' <=> Fits)
  <2>1. opts' = opts
    BY <1>1
  <2> QED BY <1>3, <2>1 DEF Granted, Given, AllPlain, Fits, WholeString
<1>6. CASE Lost(q) /\ phase' = "lost" /\ options' = options
  <2>1. NamingTypeOK'
    BY <1>1, <1>6 DEF NamingInv, NamingTypeOK
  <2>2. AllPlain' => ~Fits'
    BY <1>4, <1>5, <1>6
  <2> QED BY <1>5, <1>6, <2>1, <2>2, PhasesAre DEF NamingInv
<1>7. CASE ~Lost(q) /\ phase' = "parsed" /\ options' = Assigned(q)
  <2>1. DOMAIN options' = Fields /\ options' \in [Fields -> Text]
    BY <1>4, <1>7
  <2>2. NamingTypeOK'
    BY <1>1, <1>7, <2>1 DEF NamingInv, NamingTypeOK
  <2>3. Arrived'
    <3>1. opts' = opts
      BY <1>1
    <3> QED BY <1>4, <1>5, <1>7, <2>1, <3>1 DEF Arrived
  <2> QED BY <1>5, <1>7, <2>2, <2>3, PhasesAre DEF NamingInv
<1> QED BY <1>2, <1>6, <1>7

LEMMA StartServerKeeps ==
  ASSUME NamingInv, StartServer
  PROVE  NamingInv'
<1>1. /\ phase = "parsed" /\ phase' = "serving" /\ last' = 1
      /\ listening' = ServerPort(opts.host, opts.port)
      /\ UNCHANGED <<opts, options, wanted, uri, reply>>
  BY DEF StartServer
<1>2. Granted /\ Arrived
  BY <1>1, PhasesAre DEF NamingInv
<1>3. opts.host \in Text /\ opts.port \in Nat
  <2>1. opts.host \in Seq(Letters) /\ opts.port \in Nat
    BY <1>2 DEF Granted, Given
  <2> QED BY <2>1, LettersAre
<1>4. listening' \in 0 .. PortRange - 1
  BY <1>1, <1>3, ServerPortIs
<1>5. last' \in 0 .. MaxSegments
  BY <1>1, NamingAssumption
<1>6. NamingTypeOK'
  BY <1>1, <1>4, <1>5 DEF NamingInv, NamingTypeOK
<1>7. Granted' /\ Arrived'
  BY <1>1, <1>2, OptionsStay
<1>8. listening' = ServerPort(opts'.host, opts'.port)
  BY <1>1
<1> QED BY <1>1, <1>6, <1>7, <1>8, PhasesAre DEF NamingInv

LEMMA RotateKeeps ==
  ASSUME NamingInv, Rotate
  PROVE  NamingInv'
<1>1. /\ phase \in {"serving", "sent", "cleaned"} /\ last < MaxSegments
      /\ last' = last + 1
      /\ phase' = phase /\ listening' = listening /\ wanted' = wanted
      /\ uri' = uri /\ reply' = reply /\ opts' = opts /\ options' = options
  BY DEF Rotate
<1>2. /\ Granted' <=> Granted
      /\ Arrived' <=> Arrived
      /\ Easy' <=> Easy
      /\ \A i : Asked(i)' = Asked(i)
  BY <1>1, OptionsStay
<1>3. NamingTypeOK'
  BY <1>1, NamingAssumption DEF NamingInv, NamingTypeOK
<1>4. Granted' /\ Arrived'
  BY <1>1, <1>2, PhasesAre DEF NamingInv
<1>5. phase' = "serving" => listening' = ServerPort(opts'.host, opts'.port)
  BY <1>1 DEF NamingInv
<1>6. Asked(wanted)' = Asked(wanted)
  BY <1>1 DEF Asked
<1>7. phase' = "sent" /\ Easy' => uri' = Asked(wanted)'
  BY <1>1, <1>2, <1>6 DEF NamingInv
<1>8. phase' = "cleaned" /\ Easy' /\ (wanted' = 0 => PlainPath(opts'.m))
        => uri' = Asked(wanted)'
  BY <1>1, <1>2, <1>6 DEF NamingInv
<1> QED BY <1>1, <1>3, <1>4, <1>5, <1>7, <1>8, PhasesAre DEF NamingInv

LEMMA QueueIs ==
  ASSUME last \in Nat
  PROVE  Queue \subseteq 1 .. last
<1>1. Window \in Nat \ {0}
  BY NamingAssumption
<1> QED BY <1>1 DEF Queue, First

\* What arrived of options that fit.
LEMMA EasyOptions ==
  ASSUME Granted, Arrived, Easy
  PROVE  /\ options.p = opts.p /\ options.u = opts.u
         /\ opts.p \in Text /\ opts.m \in Text /\ opts.host \in Text
         /\ opts.port \in Nat /\ Unbroken(opts.host)
         /\ opts.u = UrlPrefix(opts.host, opts.port)
         /\ \A i : Name(i) = NameOf(opts.p, i)
<1>1. /\ opts.p \in Text /\ opts.m \in Text /\ opts.host \in Seq(Letters)
      /\ opts.port \in Nat
  BY DEF Granted, Given
<1>2. opts.host \in Text
  BY <1>1, LettersAre
<1>3. "p" \in Fields /\ "u" \in Fields
  BY DEF Fields
<1>4. options["p"] = opts["p"] /\ options["u"] = opts["u"]
  BY <1>3, Zenon DEF Arrived, Easy
<1>5. opts.u = UrlPrefix(opts.host, opts.port)
  BY PrefixFits DEF Granted, Easy
<1>6. Unbroken(opts.host)
  BY <1>2, ContainsIs DEF Easy, Unbroken
<1>7. \A i : Name(i) = NameOf(opts.p, i)
  BY <1>4 DEF Name, NameOf
<1> QED BY <1>1, <1>2, <1>4, <1>5, <1>6, <1>7

LEMMA AskedClear ==
  ASSUME Granted, Arrived, Easy, NEW i \in Nat, i = 0 => PlainPath(opts.m)
  PROVE  Asked(i) \in Text /\ Clear(Asked(i))
<1>1. opts.p \in Text /\ opts.m \in Text /\ PlainPath(opts.p)
  BY EasyOptions DEF Easy
<1>2. CASE i = 0
  <2>1. Asked(i) = <<"/">> \o opts.m
    BY <1>2, Zenon DEF Asked
  <2> QED BY <1>1, <1>2, <2>1, PlainClear, SlashIs
<1>3. CASE i # 0
  <2>1. Asked(i) = <<"/">> \o NameOf(opts.p, i)
    BY <1>3, Zenon DEF Asked
  <2>2. NameOf(opts.p, i) \in Text
    BY <1>1, NameIs DEF Named
  <2>3. Clear(<<"/">> \o NameOf(opts.p, i))
    BY <1>1, NameClear
  <2> QED BY <2>1, <2>2, <2>3, SlashIs
<1> QED BY <1>2, <1>3

LEMMA RequestKeeps ==
  ASSUME NamingInv, Request
  PROVE  NamingInv'
<1>1. /\ phase = "serving" /\ phase' = "sent"
      /\ opts' = opts /\ options' = options /\ listening' = listening
      /\ last' = last /\ reply' = reply
  BY DEF Request
<1>2. PICK i \in {0} \cup Queue :
        /\ wanted' = i
        /\ uri' = IF i = 0 THEN <<"/">> \o opts.m ELSE PathOf(options.u \o Name(i))
  BY Zenon DEF Request
<1>3. Granted /\ Arrived /\ NamingTypeOK
  BY <1>1, PhasesAre DEF NamingInv
<1>4. last \in 0 .. MaxSegments /\ MaxSegments \in Nat \ {0}
  BY <1>3, NamingAssumption DEF NamingTypeOK
<1>5. i \in 0 .. MaxSegments /\ i \in Nat
  <2>1. last \in Nat
    BY <1>4
  <2>2. Queue \subseteq 1 .. last
    BY <2>1, QueueIs
  <2> QED BY <1>4, <2>1, <2>2
<1>6. NamingTypeOK'
  BY <1>1, <1>2, <1>3, <1>5 DEF NamingTypeOK
<1>7. /\ Granted' /\ Arrived' /\ (Easy' <=> Easy)
      /\ \A j : Asked(j)' = Asked(j)
  BY <1>1, <1>3, OptionsStay
<1>8. ASSUME Easy
      PROVE  uri' = Asked(i)
  <2>1. CASE i = 0
    BY <1>2, <2>1, Zenon DEF Asked
  <2>2. CASE i # 0
    <3>1. /\ options.u = UrlPrefix(opts.host, opts.port)
          /\ Name(i) = NameOf(opts.p, i) /\ opts.p \in Text
          /\ opts.host \in Text /\ opts.port \in Nat /\ Unbroken(opts.host)
      BY <1>3, <1>8, EasyOptions
    <3>2. NameOf(opts.p, i) \in Text
      BY <1>5, <3>1, NameIs DEF Named
    <3>3. PathOf(UrlPrefix(opts.host, opts.port) \o NameOf(opts.p, i))
            = <<"/">> \o NameOf(opts.p, i)
      BY <3>1, <3>2, PathOfIs
    <3> QED BY <1>2, <2>2, <3>1, <3>3, Zenon DEF Asked
  <2> QED BY <2>1, <2>2
<1>9. Easy' => uri' = Asked(wanted)'
  <2>1. Asked(wanted)' = Asked(i)
    BY <1>1, <1>2 DEF Asked
  <2> QED BY <1>7, <1>8, <2>1
<1> QED BY <1>1, <1>6, <1>7, <1>9, PhasesAre DEF NamingInv

LEMMA ParseUriKeeps ==
  ASSUME NamingInv, ParseUri
  PROVE  NamingInv'
<1> DEFINE path == SubSeq(uri, 1, Find(uri, <<"?">>, 1) - 1)
<1>1. /\ phase = "sent"
      /\ opts' = opts /\ options' = options /\ listening' = listening
      /\ last' = last /\ wanted' = wanted /\ reply' = reply
      /\ phase' = "refused" \/ (phase' = "cleaned" /\ uri' = Cleaned(Decoded(path)))
  BY DEF ParseUri
<1> HIDE DEF path
<1>2. Granted /\ Arrived /\ NamingTypeOK
  BY <1>1, PhasesAre DEF NamingInv
<1>3. NamingTypeOK'
  BY <1>1, <1>2 DEF NamingTypeOK
<1>4. CASE phase' = "refused"
  BY <1>3, <1>4, PhasesAre DEF NamingInv
<1>5. CASE phase' = "cleaned" /\ uri' = Cleaned(Decoded(path))
  <2>1. /\ Granted' /\ Arrived' /\ (Easy' <=> Easy)
        /\ \A j : Asked(j)' = Asked(j)
    BY <1>1, <1>2, OptionsStay
  <2>2. ASSUME Easy, wanted = 0 => PlainPath(opts.m)
        PROVE  uri' = Asked(wanted)
    <3>1. uri = Asked(wanted)
      BY <1>1, <2>2 DEF NamingInv
    <3>2. wanted \in Nat
      BY <1>2, NamingAssumption DEF NamingTypeOK
    <3>3. uri \in Text /\ Clear(uri)
      BY <1>2, <2>2, <3>1, <3>2, AskedClear
    <3>4. path = uri
      BY <3>3, PathUsed DEF path
    <3>5. Cleaned(Decoded(uri)) = uri
      BY <3>3, DecodedIs, CleanedIs
    <3> QED BY <1>5, <3>1, <3>4, <3>5
  <2>3. Easy' /\ (wanted' = 0 => PlainPath(opts'.m)) => uri' = Asked(wanted)'
    <3>1. Asked(wanted)' = Asked(wanted)
      BY <1>1 DEF Asked
    <3> QED BY <1>1, <2>1, <2>2, <3>1
  <2> QED BY <1>3, <1>5, <2>1, <2>3, PhasesAre DEF NamingInv
<1> QED BY <1>1, <1>4, <1>5

LEMMA LookupKeeps ==
  ASSUME NamingInv, Lookup
  PROVE  NamingInv'
<1> DEFINE name == From(uri, 2)
           matches == {i \in Queue : IsPrefix(name, Name(i))}
           least == CHOOSE i \in matches : \A j \in matches : i <= j
<1>1. /\ phase = "cleaned"
      /\ opts' = opts /\ options' = options /\ listening' = listening
      /\ last' = last /\ wanted' = wanted /\ uri' = uri
      /\ \/ phase' = "undefined" /\ reply' = reply
         \/ /\ phase' = "answered"
            /\ reply' = IF IsPrefix(<<"m3u8">>, Suffix(name)) THEN 0
                        ELSE IF matches = {} THEN None ELSE least
  BY DEF Lookup
<1>2. Granted /\ Arrived /\ NamingTypeOK
  BY <1>1, PhasesAre DEF NamingInv
<1>3. last \in 0 .. MaxSegments /\ MaxSegments \in Nat \ {0} /\ wanted \in Nat
  BY <1>2, NamingAssumption DEF NamingTypeOK
<1>4. matches \subseteq 1 .. last /\ matches \in SUBSET Nat
  <2>1. Queue \subseteq 1 .. last
    BY <1>3, QueueIs
  <2>2. \A i \in matches : i \in Queue
    BY Zenon
  <2> HIDE DEF matches
  <2>3. \A i \in 1 .. last : i \in Nat
    BY <1>3
  <2>4. \A i \in matches : i \in 1 .. last /\ i \in Nat
    BY <2>1, <2>2, <2>3, Zenon
  <2> QED BY <2>4, Zenon
<1>5. matches # {} => least \in matches
  <2> HIDE DEF matches
  <2>1. matches # {} => \E x \in matches : \A y \in matches : x <= y
    BY <1>4, LeastNumber
  <2> QED BY <2>1, Zenon
<1>6. \A i \in matches : i = least => i \in 1 .. MaxSegments
  BY <1>3, <1>4
<1> HIDE DEF least, matches, name
<1>7. reply' = None \/ reply' \in 0 .. MaxSegments
  BY <1>1, <1>2, <1>3, <1>5, <1>6 DEF NamingTypeOK
<1>8. NamingTypeOK'
  BY <1>1, <1>2, <1>7 DEF NamingTypeOK
<1>9. CASE phase' = "undefined"
  BY <1>8, <1>9, PhasesAre DEF NamingInv
<1>10. CASE /\ phase' = "answered"
            /\ reply' = IF IsPrefix(<<"m3u8">>, Suffix(name)) THEN 0
                        ELSE IF matches = {} THEN None ELSE least
  <2>1. Granted' /\ Arrived' /\ (Easy' <=> Easy)
    BY <1>1, <1>2, OptionsStay
  <2>2. (Queue' = Queue)
    BY <1>1 DEF Queue, First
  <2>3. ASSUME Easy, wanted # 0
        PROVE  reply' = IF wanted \in Queue THEN wanted ELSE None
    <3>1. uri = Asked(wanted)
      BY <1>1, <2>3 DEF NamingInv
    <3>2. opts.p \in Text /\ \A i : Name(i) = NameOf(opts.p, i)
      BY <1>2, <2>3, EasyOptions
    <3>3. NameOf(opts.p, wanted) \in Text
      BY <1>3, <3>2, NameIs DEF Named
    <3>4. name = NameOf(opts.p, wanted)
      <4>1. uri = <<"/">> \o NameOf(opts.p, wanted)
        BY <2>3, <3>1, Zenon DEF Asked
      <4> QED BY <3>3, <4>1, SlashIs DEF name
    <3>5. ~IsPrefix(<<"m3u8">>, Suffix(name))
      BY <1>3, <3>2, <3>4, NameEnds
    <3>6. \A i \in Queue : i \in Nat
      BY <1>3, QueueIs
    <3>7. \A i \in Queue : IsPrefix(name, Name(i)) <=> i = wanted
      <4> TAKE i \in Queue
      <4>1. i \in Nat
        BY <3>6
      <4>2. IsPrefix(NameOf(opts.p, wanted), NameOf(opts.p, i)) <=> wanted = i
        BY <1>3, <3>2, <4>1, NamesDiffer
      <4> QED BY <3>2, <3>4, <4>2
    <3>8. \A i : i \in matches <=> i \in Queue /\ i = wanted
      BY <3>7, Zenon DEF matches
    <3>9. CASE wanted \in Queue
      <4>1. matches # {} /\ least = wanted
        BY <1>5, <3>8, <3>9
      <4> QED BY <1>10, <3>5, <3>9, <4>1
    <3>10. CASE wanted \notin Queue
      <4>1. matches = {}
        BY <3>8, <3>10
      <4> QED BY <1>10, <3>5, <3>10, <4>1
    <3> QED BY <3>9, <3>10
  <2>4. ASSUME Easy, wanted = 0, PlainPath(opts.m)
        PROVE  reply' = 0 <=> IsPrefix(<<"m3u8">>, Suffix(opts.m))
    <3>1. uri = Asked(wanted)
      BY <1>1, <2>4 DEF NamingInv
    <3>2. uri = <<"/">> \o opts.m /\ opts.m \in Text
      BY <1>2, <2>4, <3>1, EasyOptions DEF Asked
    <3>3. name = opts.m
      BY <3>2, SlashIs DEF name
    <3>4. None # 0 /\ (matches # {} => least # 0)
      BY <1>5, <1>6 DEF None
    <3> QED BY <1>10, <3>3, <3>4
  <2>5. Easy' => Answered'
    <3>1. Easy => /\ wanted' # 0 => reply' = IF wanted' \in Queue' THEN wanted' ELSE None
                  /\ wanted' = 0 /\ PlainPath(opts'.m) /\ Contains(opts'.m, ".")
                       => (reply' = 0 <=> IsPrefix(<<"m3u8">>, Suffix(opts'.m)))
      BY <1>1, <2>2, <2>3, <2>4
    <3> QED BY <2>1, <3>1, Zenon DEF Answered
  <2> QED BY <1>8, <1>10, <2>1, <2>5, PhasesAre DEF NamingInv
<1> QED BY <1>1, <1>9, <1>10

LEMMA NamingStutters ==
  ASSUME NamingInv, UNCHANGED namingVars
  PROVE  NamingInv'
<1>1. /\ phase' = phase /\ opts' = opts /\ options' = options
      /\ listening' = listening /\ last' = last /\ wanted' = wanted
      /\ uri' = uri /\ reply' = reply
  BY DEF namingVars
<1>2. /\ Granted' <=> Granted
      /\ Arrived' <=> Arrived
      /\ AllPlain' <=> AllPlain
      /\ Fits' <=> Fits
      /\ Easy' <=> Easy
  BY <1>1, OptionsStay
<1>3. Asked(wanted)' = Asked(wanted) /\ (Answered' <=> Answered)
  BY <1>1 DEF Asked, Answered, Queue, First
<1>4. NamingTypeOK' <=> NamingTypeOK
  BY <1>1 DEF NamingTypeOK
<1> QED BY <1>1, <1>2, <1>3, <1>4 DEF NamingInv

LEMMA NamingKeeps ==
  ASSUME NamingInv, [NamingNext]_namingVars
  PROVE  NamingInv'
<1>1. ASSUME MissingOption
      PROVE  NamingInv'
  <2>1. /\ phase' \in {"refused", "undefined"}
        /\ UNCHANGED <<opts, options, listening, last, wanted, uri, reply>>
    BY <1>1 DEF MissingOption
  <2>2. NamingTypeOK'
    BY <2>1 DEF NamingInv, NamingTypeOK
  <2> QED BY <2>1, <2>2, PhasesAre DEF NamingInv
<1> QED BY <1>1, GetOptionsKeeps, ParseOptionsKeeps, StartServerKeeps, RotateKeeps,
           RequestKeeps, ParseUriKeeps, LookupKeeps, NamingStutters DEF NamingNext

\* What the invariant says of the three properties.
LEMMA NamingShows ==
  ASSUME NamingInv
  PROVE  NamingTypeOK /\ OptionsArrive /\ AdvertisedIsFound
<1>1. OptionsArrive
  <2>1. phase \in {"parsed", "serving"} => Arrived
    BY PhasesAre DEF NamingInv
  <2> QED BY <2>1, Zenon DEF NamingInv, OptionsArrive, Arrived
<1>2. AdvertisedIsFound
  <2>1. phase = "answered" /\ Easy => Answered
    BY DEF NamingInv
  <2>2. ASSUME phase = "serving", Easy, Dotted(opts.host),
               opts.port \in 1 .. PortRange - 1
        PROVE  options.u = UrlPrefix(opts.host, listening)
    <3>1. Granted /\ Arrived /\ listening = ServerPort(opts.host, opts.port)
      BY <2>2, PhasesAre DEF NamingInv
    <3>2. /\ options.u = UrlPrefix(opts.host, opts.port)
          /\ opts.host \in Text /\ opts.port \in Nat
      BY <2>2, <3>1, EasyOptions
    <3>3. listening = opts.port
      BY <2>2, <3>1, <3>2, ServerPortIs
    <3> QED BY <3>2, <3>3
  <2> QED BY <2>1, <2>2, Zenon DEF AdvertisedIsFound, Easy, Answered
<1> QED BY <1>1, <1>2 DEF NamingInv

LEMMA NamingHolds == NamingSpec => []NamingInv
BY NamingFirst, NamingKeeps, PTL DEF NamingSpec

-----------------------------------------------------------------------------
(* What follows for names.                                                 *)

\* Every option reaches the segmenter as main was given it, whatever dashes,
\* letters and spaces plain values hold; where snprintf cut the string off it
\* gets the beginning of a value, with at most the space behind it.
THEOREM OptionsReach == NamingSpec => []OptionsArrive
BY NamingHolds, NamingShows, PTL

\* Who follows a line of the index gets the segment of that line or, once it
\* has left the queue, nothing: however often the queue rotates between the
\* two, and although istb_m3u8_api_open compares beginnings of names only.
THEOREM AdvertisedReach == NamingSpec => []AdvertisedIsFound
BY NamingHolds, NamingShows, PTL

-----------------------------------------------------------------------------
(* The two together.                                                       *)

LEMMA InputsInductive == InputsSpec => [](ReaderInv /\ FrameInv /\ NamingInv)
<1>1. InputsInit => ReaderInv /\ FrameInv /\ NamingInv
  BY ReaderInitInv, FrameInitInv, NamingFirst DEF InputsInit, BytesInit
<1>2. ASSUME ReaderInv, FrameInv, NamingInv,
             [InputsNext]_<<part, bytesVars, namingVars>>
      PROVE  ReaderInv' /\ FrameInv' /\ NamingInv'
  <2>1. [BytesNext]_bytesVars /\ [NamingNext]_namingVars
    BY <1>2 DEF InputsNext
  <2>2. [ReaderNext]_readerVars /\ [FrameNext]_frameVars
    BY <2>1 DEF BytesNext, bytesVars
  <2> QED BY <1>2, <2>1, <2>2, ReaderStepKeeps, FrameStepKeeps, NamingKeeps
<1> QED BY <1>1, <1>2, PTL DEF InputsSpec

\* Whatever comes in from outside, every buffer, counter and phase of the
\* readers and of the way of names stays within its type.
THEOREM InputsTypes == InputsSpec => []InputsTypeOK
<1>1. ReaderInv /\ FrameInv /\ NamingInv => InputsTypeOK
  BY FrameInvMeans, NamingShows DEF ReaderInv, InputsTypeOK
<1> QED BY <1>1, InputsInductive, PTL
=============================================================================
